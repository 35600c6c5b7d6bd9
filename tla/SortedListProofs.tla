--------------------------- MODULE SortedListProofs ---------------------------
(***************************************************************************)
(* What the list operations of class TimeBuffer do to any list of entries, *)
(* of whatever set, whose timestamps are integers: one call of get_index,  *)
(* the whole recursion, an insertion and a slice.                          *)
(***************************************************************************)
EXTENDS FloatTimeBuffer, SequenceTheorems, FiniteSetTheorems, WellFoundedInduction, TLAPS

Timed(S) == \A e \in S : e.ts \in Int

(* list.insert puts one entry in and shifts the rest.                       *)
LEMMA InsertAtIs ==
  ASSUME NEW S, NEW s \in Seq(S), NEW e \in S, NEW i \in 1..Len(s)+1
  PROVE  /\ InsertAt(s, i, e) \in Seq(S)
         /\ Len(InsertAt(s, i, e)) = Len(s) + 1
         /\ \A j \in 1..Len(s)+1 :
              InsertAt(s, i, e)[j] = IF j < i THEN s[j] ELSE IF j = i THEN e ELSE s[j-1]
<1> DEFINE a == SubSeq(s, 1, i-1)
           b == SubSeq(s, i, Len(s))
<1>1. a \in Seq(S) /\ Len(a) = i-1 /\ \A j \in 1..i-1 : a[j] = s[j]
  BY SubSeqProperties
<1>2. b \in Seq(S) /\ Len(b) = Len(s)-i+1 /\ \A j \in 1..Len(s)-i+1 : b[j] = s[i+j-1]
  BY SubSeqProperties
<1>3. <<e>> \in Seq(S) /\ Len(<<e>>) = 1 /\ <<e>>[1] = e
  OBVIOUS
<1>4. InsertAt(s, i, e) = a \o <<e>> \o b
  BY DEF InsertAt
<1> HIDE DEF a, b
<1>5. /\ a \o <<e>> \in Seq(S) /\ Len(a \o <<e>>) = i
      /\ \A j \in 1..i : (a \o <<e>>)[j] = IF j < i THEN s[j] ELSE e
  BY <1>1, <1>3, ConcatProperties
<1> QED BY <1>2, <1>4, <1>5, ConcatProperties

LEMMA TsIsInt ==
  ASSUME NEW S, Timed(S), NEW L \in Seq(S)
  PROVE  /\ Len(L) \in Nat
         /\ \A j \in 1..Len(L) : L[j] \in S /\ L[j].ts \in Int
<1>1. \A r \in S : r.ts \in Int
  BY DEF Timed
<1>2. Len(L) \in Nat /\ \A j \in 1..Len(L) : L[j] \in S
  BY LenProperties, ElementOfSeq
<1> QED BY <1>1, <1>2

(* What get_index may answer: the index that divides the list at ts, which  *)
(* with valid_read_index is pulled back to the last entry.                  *)
Answers(L, i, ts, past) ==
  /\ past = ReadIndex /\ L # <<>> => i < Len(L)
  /\ Divides(L, i, ts) \/ (past = ReadIndex /\ i+1 = Len(L) /\ Divides(L, i+1, ts))

(* One call of get_index on a sorted list: it answers with such an index,   *)
(* and a recursive call gets bounds that enclose ts.                        *)
LEMMA IndexCallIs ==
  ASSUME NEW S, Timed(S), NEW L \in Seq(S), StrictlySorted(L), NEW ts \in Int,
         NEW past \in {InsertIndex, ReadIndex}, NEW f \in Nat, NEW t \in Nat \cup {WholeList},
         IF t = WholeList THEN f = 0 ELSE Encloses(L, f, t, ts)
  PROVE  \/ \E i \in Nat : /\ IndexCall(L, ts, f, t, past) = Found(i)
                           /\ Answers(L, i, ts, past)
         \/ \E i, j \in Nat : /\ IndexCall(L, ts, f, t, past) = Again(i, j)
                              /\ Encloses(L, i, j, ts)
<1> DEFINE ff == ClampIdx(L, f)
           tt == IF t = WholeList THEN Len(L) - 1 ELSE ClampIdx(L, t)
           m == ff + (tt - ff) \div 2
<1>ts. Len(L) \in Nat /\ \A j \in 1..Len(L) : L[j].ts \in Int
  BY TsIsInt
<1>call0. L = <<>> => IndexCall(L, ts, f, t, past) = Found(0)
  BY Zenon DEF IndexCall
<1>1. CASE L = <<>>
  BY <1>1, <1>ts, <1>call0 DEF Divides, Answers
<1>2. CASE L # <<>>
  <2>1. Len(L) > 0
    BY <1>2, <1>ts, EmptySeq
  <2>2. ff \in 0..Len(L)-1 /\ tt \in 0..Len(L)-1
    BY <2>1, <1>ts DEF ClampIdx, WholeList, Encloses
  <2>3. (t = WholeList /\ ff = 0 /\ tt = Len(L)-1)
        \/ (t # WholeList /\ ff = f /\ tt = t /\ Encloses(L, ff, tt, ts))
    BY <2>1, <1>ts DEF ClampIdx, WholeList, Encloses
  <2>4. tt - ff > 1 => m \in 0..Len(L)-1 /\ ff < m /\ m < tt
    BY <2>2
  <2>call. IndexCall(L, ts, f, t, past) =
             IF ts <= L[ff+1].ts       THEN Found(ff)
             ELSE IF ts > L[tt+1].ts   THEN Found(tt + past)
             ELSE IF tt - ff <= 1      THEN Found(tt)
             ELSE IF ts = L[m+1].ts    THEN Found(m)
             ELSE IF ts < L[m+1].ts    THEN Again(ff, m)
             ELSE                           Again(m, tt)
    BY <1>2, Zenon DEF IndexCall
  <2> HIDE DEF ff, tt, m
  <2>sorted. \A i, j \in 1..Len(L) : i < j => L[i].ts < L[j].ts
    BY DEF StrictlySorted
  <2>int. /\ ff+1 \in 1..Len(L) /\ L[ff+1].ts \in Int
          /\ tt+1 \in 1..Len(L) /\ L[tt+1].ts \in Int
          /\ ff \in Nat /\ tt \in Nat
    <3>1. ff+1 \in 1..Len(L) /\ tt+1 \in 1..Len(L)
      BY <2>2, <1>ts
    <3> QED BY <3>1, <2>2, <1>ts
  <2>5. CASE ts <= L[ff+1].ts
    <3>1. IndexCall(L, ts, f, t, past) = Found(ff)
      BY <2>call, <2>int, <2>5
    <3>2. ff = 0
      BY <2>3, <2>5, <2>2, <1>ts DEF Encloses
    <3>3. Divides(L, ff, ts)
      BY <3>2, <2>1, <2>5, <2>sorted, <1>ts DEF Divides
    <3> QED BY <3>1, <3>2, <3>3, <2>1, <1>ts DEF Answers
  <2>6. CASE ts > L[ff+1].ts /\ ts > L[tt+1].ts
    <3>1. IndexCall(L, ts, f, t, past) = Found(tt + past)
      BY <2>call, <2>int, <2>6
    <3>2. tt = Len(L) - 1
      BY <2>3, <2>6, <2>2, <1>ts DEF Encloses
    <3>3. \A j \in 1..Len(L) : L[j].ts < ts
      <4> TAKE j \in 1..Len(L)
      <4>1. Len(L) \in 1..Len(L) /\ L[Len(L)].ts < ts
        BY <3>2, <2>1, <2>6, <1>ts
      <4>2. j = Len(L) \/ L[j].ts < L[Len(L)].ts
        BY <4>1, <2>sorted, <1>ts
      <4> QED BY <4>1, <4>2, <1>ts
    <3>4. Divides(L, tt + 1, ts)
      BY <3>2, <3>3, <1>ts DEF Divides
    <3>5. /\ past = InsertIndex => tt + past = tt + 1
          /\ past = ReadIndex => tt + past = tt
          /\ InsertIndex # ReadIndex /\ tt + past \in Nat
      BY <2>int DEF InsertIndex, ReadIndex
    <3>6. Answers(L, tt + past, ts, past)
      BY <3>2, <3>4, <3>5, <1>ts DEF Answers
    <3> QED BY <3>1, <3>5, <3>6
  <2>7. CASE ts > L[ff+1].ts /\ ts <= L[tt+1].ts /\ tt - ff <= 1
    <3>1. IndexCall(L, ts, f, t, past) = Found(tt)
      BY <2>call, <2>int, <2>7
    <3>2. tt = ff + 1
      <4>1. tt # ff
        BY <2>int, <2>7
      <4>2. ff <= tt
        BY <2>3, <2>2, <1>ts, <2>1 DEF Encloses
      <4> QED BY <4>1, <4>2, <2>int, <2>7
    <3>3. \A j \in 1..tt : L[j].ts < ts
      <4> TAKE j \in 1..tt
      <4>1. j \in 1..Len(L) /\ (j = ff+1 \/ j < ff+1)
        BY <3>2, <2>int, <1>ts
      <4>2. j = ff+1 \/ L[j].ts < L[ff+1].ts
        BY <4>1, <2>sorted, <2>int
      <4> QED BY <4>1, <4>2, <2>7, <2>int, <1>ts
    <3>4. \A j \in tt+1..Len(L) : ts <= L[j].ts
      <4> TAKE j \in tt+1..Len(L)
      <4>1. j \in 1..Len(L) /\ (j = tt+1 \/ tt+1 < j)
        BY <2>int, <1>ts
      <4>2. j = tt+1 \/ L[tt+1].ts < L[j].ts
        BY <4>1, <2>sorted, <2>int
      <4> QED BY <4>1, <4>2, <2>7, <2>int, <1>ts
    <3>5. Divides(L, tt, ts)
      BY <3>3, <3>4, <2>2, <1>ts DEF Divides
    <3> QED BY <3>1, <3>5, <2>2, <1>ts DEF Answers
  <2>8. CASE ts > L[ff+1].ts /\ ts <= L[tt+1].ts /\ tt - ff > 1
    <3>1. m \in 0..Len(L)-1 /\ ff < m /\ m < tt /\ m+1 \in 1..Len(L) /\ ff+1 \in 1..Len(L)
      BY <2>4, <2>8, <2>2, <1>ts
    <3>2. IndexCall(L, ts, f, t, past) =
            IF ts = L[m+1].ts THEN Found(m)
            ELSE IF ts < L[m+1].ts THEN Again(ff, m) ELSE Again(m, tt)
      BY <2>call, <2>int, <2>8
    <3>3. ASSUME ts = L[m+1].ts PROVE Divides(L, m, ts)
      <4>1. \A j \in 1..m : L[j].ts < ts
        <5> TAKE j \in 1..m
        <5>1. j \in 1..Len(L) /\ j < m+1
          BY <3>1, <2>int, <1>ts
        <5> QED BY <5>1, <3>1, <3>3, <2>sorted
      <4>2. \A j \in m+1..Len(L) : ts <= L[j].ts
        <5> TAKE j \in m+1..Len(L)
        <5>1. j \in 1..Len(L) /\ (j = m+1 \/ m+1 < j)
          BY <3>1, <2>int, <1>ts
        <5>2. j = m+1 \/ L[m+1].ts < L[j].ts
          BY <5>1, <3>1, <2>sorted
        <5> QED BY <5>1, <5>2, <3>3, <1>ts
      <4>3. m \in 0..Len(L)
        BY <3>1, <1>ts
      <4> QED BY <4>1, <4>2, <4>3 DEF Divides
    <3>4. ts < L[m+1].ts => Encloses(L, ff, m, ts)
      BY <3>1, <2>2, <2>8, <1>ts DEF Encloses
    <3>5. ts > L[m+1].ts => Encloses(L, m, tt, ts)
      BY <3>1, <2>2, <2>8, <1>ts DEF Encloses
    <3>6. ts = L[m+1].ts => Answers(L, m, ts, past)
      BY <3>1, <3>3, <1>ts DEF Answers
    <3> QED BY <3>1, <3>2, <3>4, <3>5, <3>6, <2>2, <1>ts
  <2> QED BY <2>5, <2>6, <2>7, <2>8, <2>2, <1>ts
<1> QED BY <1>1, <1>2

(* For an insertion that is the index that divides the list.                *)
LEMMA InsertIndexDivides ==
  \A L, i, ts : Answers(L, i, ts, InsertIndex) <=> Divides(L, i, ts)
BY DEF Answers, InsertIndex, ReadIndex

-----------------------------------------------------------------------------
(* The recursion of get_index, by the least counterexample: the library's   *)
(* induction theorems take an operator as a parameter, this fact does not.  *)
LEMMA MinimumExists ==
  ASSUME NEW T, T \subseteq Nat, T # {}
  PROVE  \E n \in T : \A m \in T : n <= m
<1> DEFINE R == OpToRel(<, Nat)
<1>1. IsWellFoundedOn(R, Nat)
  BY NatLessThanWellFounded
<1> HIDE DEF R
<1>2. PICK n \in T : \A m \in T : <<m, n>> \notin R
  BY <1>1, WFMin
<1>3. \A m \in Nat : m < n => <<m, n>> \in R
  BY DEF R, OpToRel
<1>4. ASSUME NEW m \in T PROVE n <= m
  <2>1. m \in Nat /\ n \in Nat
    OBVIOUS
  <2>2. ~(m < n)
    BY <2>1, <1>2, <1>3
  <2> QED BY <2>1, <2>2
<1> QED BY <1>4

(* g is computed by the recursion that answers val[p] when p is in Stop and *)
(* calls itself on next[p] otherwise.                                       *)
Recursion(g, D, Stop, val, next) ==
  g = [p \in D |-> IF p \in Stop THEN val[p] ELSE g[next[p]]]

(* Each call is smaller than the one before it; of the calls in Inv, each   *)
(* answers something in Ans or calls itself on one in Inv.                  *)
Shrinks(D, size, Stop, next) == \A p \in D \ Stop : size[next[p]] < size[p]
Closed(Inv, Ans, Stop, val, next) ==
  \A p \in Inv : IF p \in Stop THEN val[p] \in Ans ELSE next[p] \in Inv

(* There is such a function when the calls get smaller.                     *)
LEMMA RecursionExists ==
  ASSUME NEW D, NEW V, NEW N \in Nat, NEW size \in [D -> 0..N], NEW Stop,
         NEW val \in [D -> V], NEW next \in [D -> D], NEW v \in V,
         Shrinks(D, size, Stop, next)
  PROVE  \E g \in [D -> V] : Recursion(g, D, Stop, val, next)
<1> DEFINE Upto(n) == {p \in D : size[p] < n}
           Good(n) == \E g \in [D -> V] : \A p \in Upto(n) :
                         g[p] = IF p \in Stop THEN val[p] ELSE g[next[p]]
           Bad == {n \in Nat : ~Good(n)}
<1>1. ASSUME NEW n \in Nat, Good(n) PROVE Good(n+1)
  <2>1. PICK g \in [D -> V] : \A p \in Upto(n) :
               g[p] = IF p \in Stop THEN val[p] ELSE g[next[p]]
    BY <1>1
  <2> DEFINE h == [p \in D |-> IF p \in Upto(n) THEN g[p]
                               ELSE IF p \in Stop THEN val[p] ELSE g[next[p]]]
  <2>2. h \in [D -> V]
    BY <2>1
  <2>3. ASSUME NEW p \in Upto(n+1)
        PROVE  h[p] = IF p \in Stop THEN val[p] ELSE h[next[p]]
    <3>1. h[p] = IF p \in Stop THEN val[p] ELSE g[next[p]]
      BY <2>1
    <3>2. CASE p \in Stop
      BY <3>1, <3>2
    <3>3. CASE p \notin Stop
      <4>1. next[p] \in D /\ size[next[p]] < size[p] /\ size[p] < n+1 /\ p \in D
        BY <3>3 DEF Shrinks
      <4>2. size[p] \in Nat /\ size[next[p]] \in Nat
        BY <4>1
      <4>3. size[next[p]] < n
        BY <4>1, <4>2
      <4>4. h[next[p]] = g[next[p]]
        BY <4>1, <4>3
      <4> QED BY <3>1, <3>3, <4>4
    <3> QED BY <3>2, <3>3
  <2> HIDE DEF h
  <2> QED BY <2>2, <2>3
<1>2. Good(0)
  <2>1. [p \in D |-> v] \in [D -> V]
    OBVIOUS
  <2>2. \A p \in D : ~(size[p] < 0)
    OBVIOUS
  <2>3. Upto(0) = {}
    BY <2>2
  <2> QED BY <2>1, <2>3
<1>3. Bad = {}
  <2> SUFFICES ASSUME Bad # {} PROVE FALSE
    OBVIOUS
  <2> HIDE DEF Good
  <2>1. PICK n \in Bad : \A m \in Bad : n <= m
    BY MinimumExists
  <2>2. n \in Nat /\ n # 0
    BY <1>2
  <2>3. n-1 \in Nat /\ n-1 \notin Bad /\ (n-1)+1 = n
    BY <2>1, <2>2
  <2>4. Good(n-1) /\ \A k \in Nat : Good(k) => Good(k+1)
    BY <2>3, <1>1
  <2> QED BY <2>3, <2>4
<1>4. Good(N+1)
  <2> HIDE DEF Good
  <2> QED BY <1>3
<1>5. Upto(N+1) = D
  <2>1. \A p \in D : size[p] \in 0..N
    OBVIOUS
  <2> QED BY <2>1
<1>6. PICK g \in [D -> V] : \A p \in D :
             g[p] = IF p \in Stop THEN val[p] ELSE g[next[p]]
  BY <1>4, <1>5
<1>7. g = [p \in D |-> g[p]]
  OBVIOUS
<1> QED BY <1>6, <1>7 DEF Recursion

(* Such a function answers what its last call answers: on a set of calls    *)
(* that stays closed, something in Ans.                                     *)
LEMMA RecursionAnswers ==
  ASSUME NEW D, NEW size \in [D -> Nat], NEW Stop, NEW val,
         NEW next \in [D -> D], NEW g, Recursion(g, D, Stop, val, next),
         Shrinks(D, size, Stop, next),
         NEW Inv, Inv \subseteq D, NEW Ans, Closed(Inv, Ans, Stop, val, next)
  PROVE  \A p \in Inv : g[p] \in Ans
<1> DEFINE Wrong == {p \in Inv : g[p] \notin Ans}
           Sizes == {size[p] : p \in Wrong}
<1>g. \A p \in D : g[p] = IF p \in Stop THEN val[p] ELSE g[next[p]]
  BY DEF Recursion
<1> SUFFICES ASSUME Wrong # {} PROVE FALSE
  OBVIOUS
<1>1. PICK n \in Sizes : \A m \in Sizes : n <= m
  <2>1. Sizes \subseteq Nat /\ Sizes # {}
    OBVIOUS
  <2> QED BY <2>1, MinimumExists
<1>2. PICK p \in Wrong : size[p] = n
  OBVIOUS
<1>3. p \in D /\ p \notin Stop /\ next[p] \in Inv
  BY <1>g DEF Closed
<1>4. g[next[p]] \notin Ans /\ next[p] \in D /\ size[next[p]] < size[p]
  BY <1>3, <1>g DEF Shrinks
<1>5. size[next[p]] \in Sizes
  BY <1>3, <1>4
<1>6. size[p] \in Int /\ size[next[p]] \in Int
  BY <1>3, <1>4
<1>7. size[p] <= size[next[p]]
  <2> HIDE DEF Sizes, Wrong
  <2> QED BY <1>1, <1>2, <1>5
<1> QED BY <1>4, <1>6, <1>7

LEMMA RecursionRange ==
  ASSUME NEW D, NEW V, NEW size \in [D -> Nat], NEW Stop, NEW val \in [D -> V],
         NEW next \in [D -> D], NEW g, Recursion(g, D, Stop, val, next),
         Shrinks(D, size, Stop, next)
  PROVE  g \in [D -> V]
<1>1. D \subseteq D /\ Closed(D, V, Stop, val, next)
  BY DEF Closed
<1>2. \A p \in D : g[p] \in V
  BY <1>1, RecursionAnswers
<1> QED BY <1>2 DEF Recursion

(* How much of the list a call of get_index has before it.                  *)
CallSize(L) == [b \in Bounds(L) |-> IF b[2] = WholeList THEN Len(L) + 1
                                    ELSE IF b[1] < b[2] THEN b[2] - b[1] ELSE 0]

Calls(L, ts, past) == [b \in Bounds(L) |-> IndexCall(L, ts, b[1], b[2], past)]

(* The indexes get_index may answer, sorted or not.                         *)
Indexes(L, past) == {i \in 0..Len(L) : past = ReadIndex /\ L # <<>> => i < Len(L)}

(* One call on any list, sorted or not: the answer is an index, and a       *)
(* recursive call has less of the list before it.                           *)
LEMMA CallShrinks ==
  ASSUME NEW S, Timed(S), NEW L \in Seq(S), NEW ts \in Int,
         NEW past \in {InsertIndex, ReadIndex}, NEW b \in Bounds(L)
  PROVE  \/ \E i \in Indexes(L, past) : Calls(L, ts, past)[b] = Found(i)
         \/ \E i, j \in 0..Len(L) : /\ Calls(L, ts, past)[b] = Again(i, j)
                                    /\ CallSize(L)[<<i, j>>] < CallSize(L)[b]
<1>ts. Len(L) \in Nat /\ \A j \in 1..Len(L) : L[j].ts \in Int
  BY TsIsInt
<1>b. b[1] \in 0..Len(L) /\ b[2] \in -1..Len(L) /\ b[1] \in Int /\ b[2] \in Int
  BY <1>ts DEF Bounds, WholeList
<1> DEFINE ff == ClampIdx(L, b[1])
           tt == IF b[2] = WholeList THEN Len(L) - 1 ELSE ClampIdx(L, b[2])
           m == ff + (tt - ff) \div 2
<1>0. Calls(L, ts, past)[b] = IndexCall(L, ts, b[1], b[2], past)
  BY DEF Calls
<1>call0. L = <<>> => IndexCall(L, ts, b[1], b[2], past) = Found(0)
  BY Zenon DEF IndexCall
<1>1. CASE L = <<>>
  BY <1>0, <1>1, <1>ts, <1>call0 DEF Indexes
<1>2. CASE L # <<>>
  <2>1. Len(L) > 0
    BY <1>2, <1>ts, EmptySeq
  <2>2. ff \in 0..Len(L)-1 /\ tt \in 0..Len(L)-1
    BY <2>1, <1>ts, <1>b DEF ClampIdx, WholeList
  <2>3. tt - ff > 1 => ff < m /\ m < tt /\ m \in Nat
    BY <2>2
  <2>4. tt - ff > 1 => tt - ff <= CallSize(L)[b]
    BY <2>1, <1>ts, <1>b DEF CallSize, ClampIdx, WholeList
  <2>call. IndexCall(L, ts, b[1], b[2], past) =
             IF ts <= L[ff+1].ts       THEN Found(ff)
             ELSE IF ts > L[tt+1].ts   THEN Found(tt + past)
             ELSE IF tt - ff <= 1      THEN Found(tt)
             ELSE IF ts = L[m+1].ts    THEN Found(m)
             ELSE IF ts < L[m+1].ts    THEN Again(ff, m)
             ELSE                           Again(m, tt)
    BY <1>2, Zenon DEF IndexCall
  <2> HIDE DEF ff, tt, m
  <2>int. ff \in Int /\ tt \in Int
    BY <2>2
  <2>5. ff \in Indexes(L, past) /\ tt \in Indexes(L, past) /\ tt + past \in Indexes(L, past)
    BY <2>2, <1>ts DEF Indexes, InsertIndex, ReadIndex
  <2>6. CASE ts <= L[ff+1].ts \/ ts > L[tt+1].ts \/ tt - ff <= 1
    BY <2>6, <2>call, <2>5, <1>0
  <2>7. CASE ~(ts <= L[ff+1].ts) /\ ~(ts > L[tt+1].ts) /\ ~(tt - ff <= 1)
    <3>1. Calls(L, ts, past)[b] = IF ts = L[m+1].ts THEN Found(m)
                                  ELSE IF ts < L[m+1].ts THEN Again(ff, m) ELSE Again(m, tt)
      BY <2>7, <2>call, <1>0
    <3>2. ff < m /\ m < tt /\ m \in Nat /\ tt - ff > 1
      BY <2>7, <2>3, <2>int
    <3>3. m \in Indexes(L, past) /\ m \in 0..Len(L) /\ ff \in 0..Len(L) /\ tt \in 0..Len(L)
      BY <3>2, <2>2, <1>ts DEF Indexes
    <3>4. \A i, j \in 0..Len(L) : CallSize(L)[<<i, j>>] = IF i < j THEN j - i ELSE 0
      BY <1>ts DEF CallSize, Bounds, WholeList
    <3>5. CallSize(L)[<<ff, m>>] < tt - ff /\ CallSize(L)[<<m, tt>>] < tt - ff
      BY <3>2, <3>3, <3>4, <2>int
    <3>6. CallSize(L)[b] \in Int
      BY <1>ts, <1>b DEF CallSize
    <3>7. CallSize(L)[<<ff, m>>] < CallSize(L)[b] /\ CallSize(L)[<<m, tt>>] < CallSize(L)[b]
      BY <3>2, <3>3, <3>4, <3>5, <3>6, <2>4, <2>int
    <3> QED BY <3>1, <3>3, <3>7
  <2> QED BY <2>6, <2>7
<1> QED BY <1>1, <1>2

Answered(L, ts, past) == {b \in Bounds(L) : Calls(L, ts, past)[b].done}
AnswerOf(L, ts, past) ==
  [b \in Bounds(L) |-> IF b \in Answered(L, ts, past) THEN Calls(L, ts, past)[b].from ELSE 0]
NextCall(L, ts, past) ==
  [b \in Bounds(L) |-> <<Calls(L, ts, past)[b].from, Calls(L, ts, past)[b].to>>]

LEMMA CallTypes ==
  ASSUME NEW S, Timed(S), NEW L \in Seq(S), NEW ts \in Int,
         NEW past \in {InsertIndex, ReadIndex}
  PROVE  /\ Len(L) \in Nat
         /\ CallSize(L) \in [Bounds(L) -> 0..Len(L)+1]
         /\ CallSize(L) \in [Bounds(L) -> Nat]
         /\ 0 \in Indexes(L, past)
         /\ <<0, WholeList>> \in Bounds(L)
         /\ AnswerOf(L, ts, past) \in [Bounds(L) -> Indexes(L, past)]
         /\ NextCall(L, ts, past) \in [Bounds(L) -> Bounds(L)]
         /\ Shrinks(Bounds(L), CallSize(L), Answered(L, ts, past), NextCall(L, ts, past))
<1>ts. Len(L) \in Nat
  BY TsIsInt
<1>1. /\ CallSize(L) \in [Bounds(L) -> 0..Len(L)+1]
      /\ CallSize(L) \in [Bounds(L) -> Nat]
  <2>1. ASSUME NEW b \in Bounds(L)
        PROVE  (IF b[2] = WholeList THEN Len(L) + 1
                ELSE IF b[1] < b[2] THEN b[2] - b[1] ELSE 0) \in 0..Len(L)+1
    BY <1>ts DEF Bounds, WholeList
  <2> QED BY <2>1 DEF CallSize
<1>2. 0 \in Indexes(L, past)
  <2>1. L # <<>> => Len(L) # 0
    BY EmptySeq
  <2> QED BY <2>1, <1>ts DEF Indexes
<1>3. <<0, WholeList>> \in Bounds(L)
  BY <1>ts DEF Bounds, WholeList
<1>4. ASSUME NEW b \in Bounds(L)
      PROVE  /\ b \in Answered(L, ts, past) => Calls(L, ts, past)[b].from \in Indexes(L, past)
             /\ NextCall(L, ts, past)[b] \in Bounds(L)
             /\ b \notin Answered(L, ts, past) =>
                  CallSize(L)[NextCall(L, ts, past)[b]] < CallSize(L)[b]
  <2>1. CASE \E i \in Indexes(L, past) : Calls(L, ts, past)[b] = Found(i)
    <3>1. PICK i \in Indexes(L, past) : Calls(L, ts, past)[b] = Found(i)
      BY <2>1
    <3>2. /\ Calls(L, ts, past)[b].done /\ Calls(L, ts, past)[b].from = i
          /\ Calls(L, ts, past)[b].to = i
      BY <3>1 DEF Found
    <3>3. <<i, i>> \in Bounds(L)
      BY <1>ts DEF Bounds, Indexes, WholeList
    <3> QED BY <3>2, <3>3 DEF Answered, NextCall
  <2>2. CASE \E i, j \in 0..Len(L) : /\ Calls(L, ts, past)[b] = Again(i, j)
                                     /\ CallSize(L)[<<i, j>>] < CallSize(L)[b]
    <3>1. PICK i \in 0..Len(L), j \in 0..Len(L) :
                  /\ Calls(L, ts, past)[b] = Again(i, j)
                  /\ CallSize(L)[<<i, j>>] < CallSize(L)[b]
      BY <2>2
    <3>2. /\ ~Calls(L, ts, past)[b].done /\ Calls(L, ts, past)[b].from = i
          /\ Calls(L, ts, past)[b].to = j
      BY <3>1 DEF Again
    <3>3. <<i, j>> \in Bounds(L)
      BY <1>ts DEF Bounds, WholeList
    <3> QED BY <3>1, <3>2, <3>3 DEF Answered, NextCall
  <2> QED BY <2>1, <2>2, CallShrinks
<1>5. AnswerOf(L, ts, past) \in [Bounds(L) -> Indexes(L, past)]
  BY <1>2, <1>4 DEF AnswerOf
<1>6. NextCall(L, ts, past) \in [Bounds(L) -> Bounds(L)]
  <2> DEFINE n == NextCall(L, ts, past)
  <2>1. n = [b \in Bounds(L) |-> n[b]]
    BY DEF NextCall
  <2> QED BY <2>1, <1>4
<1> QED BY <1>ts, <1>1, <1>2, <1>3, <1>4, <1>5, <1>6 DEF Shrinks

(* get_index is computed by that recursion, on every list.                  *)
LEMMA GetIndexRecursion ==
  ASSUME NEW S, Timed(S), NEW L \in Seq(S), NEW ts \in Int,
         NEW past \in {InsertIndex, ReadIndex}
  PROVE  \E g \in [Bounds(L) -> Indexes(L, past)] :
           /\ Recursion(g, Bounds(L), Answered(L, ts, past), AnswerOf(L, ts, past),
                        NextCall(L, ts, past))
           /\ GetIndex(L, ts, past) = g[<<0, WholeList>>]
<1> DEFINE D == Bounds(L)
           Stop == Answered(L, ts, past)
           val == AnswerOf(L, ts, past)
           next == NextCall(L, ts, past)
           Body(g) == [b \in Bounds(L) |->
                         LET c == IndexCall(L, ts, b[1], b[2], past)
                         IN  IF c.done THEN c.from ELSE g[<<c.from, c.to>>]]
           search == CHOOSE g : g = Body(g)
<1>1. GetIndex(L, ts, past) = search[<<0, WholeList>>]
  BY DEF GetIndex
<1>2. \A g : Body(g) = [p \in D |-> IF p \in Stop THEN val[p] ELSE g[next[p]]]
  BY DEF Answered, AnswerOf, NextCall, Calls
<1>3. \E g \in [D -> Indexes(L, past)] : Recursion(g, D, Stop, val, next)
  <2>1. /\ Len(L)+1 \in Nat /\ CallSize(L) \in [D -> 0..Len(L)+1]
        /\ 0 \in Indexes(L, past)
        /\ val \in [D -> Indexes(L, past)] /\ next \in [D -> D]
        /\ Shrinks(D, CallSize(L), Stop, next)
    BY CallTypes
  <2> HIDE DEF D, Stop, val, next
  <2> QED BY <2>1, RecursionExists
<1>4. \E g : g = Body(g)
  BY <1>2, <1>3 DEF Recursion
<1>5. search = Body(search)
  BY <1>4
<1>6. Recursion(search, D, Stop, val, next)
  <2> HIDE DEF search
  <2> QED BY <1>2, <1>5 DEF Recursion
<1>7. search \in [D -> Indexes(L, past)]
  <2>1. /\ CallSize(L) \in [D -> Nat]
        /\ val \in [D -> Indexes(L, past)] /\ next \in [D -> D]
        /\ Shrinks(D, CallSize(L), Stop, next)
    BY CallTypes
  <2> HIDE DEF D, Stop, val, next, search
  <2> QED BY <1>6, <2>1, RecursionRange
<1> QED BY <1>1, <1>6, <1>7

(* get_index answers an index of the list, whatever its order ...           *)
LEMMA GetIndexInList ==
  ASSUME NEW S, Timed(S), NEW L \in Seq(S), NEW ts \in Int,
         NEW past \in {InsertIndex, ReadIndex}
  PROVE  /\ GetIndex(L, ts, past) \in 0..Len(L)
         /\ past = ReadIndex /\ L # <<>> => GetIndex(L, ts, past) < Len(L)
<1>1. PICK g \in [Bounds(L) -> Indexes(L, past)] :
             /\ Recursion(g, Bounds(L), Answered(L, ts, past), AnswerOf(L, ts, past),
                          NextCall(L, ts, past))
             /\ GetIndex(L, ts, past) = g[<<0, WholeList>>]
  BY GetIndexRecursion
<1>2. <<0, WholeList>> \in Bounds(L)
  BY CallTypes
<1>3. GetIndex(L, ts, past) \in Indexes(L, past)
  BY <1>1, <1>2
<1> QED BY <1>3 DEF Indexes

(* ... and on a sorted list, the one that divides it at ts.                 *)
LEMMA GetIndexAnswers ==
  ASSUME NEW S, Timed(S), NEW L \in Seq(S), StrictlySorted(L), NEW ts \in Int,
         NEW past \in {InsertIndex, ReadIndex}
  PROVE  Answers(L, GetIndex(L, ts, past), ts, past)
<1> DEFINE D == Bounds(L)
           Stop == Answered(L, ts, past)
           val == AnswerOf(L, ts, past)
           next == NextCall(L, ts, past)
           Inv == {b \in D : IF b[2] = WholeList THEN b[1] = 0
                             ELSE Encloses(L, b[1], b[2], ts)}
           Ans == {i \in Nat : Answers(L, i, ts, past)}
<1>ts. Len(L) \in Nat
  BY TsIsInt
<1>1. PICK g \in [D -> Indexes(L, past)] :
             /\ Recursion(g, D, Stop, val, next)
             /\ GetIndex(L, ts, past) = g[<<0, WholeList>>]
  BY GetIndexRecursion
<1>2. ASSUME NEW b \in Inv
      PROVE  IF b \in Stop THEN val[b] \in Ans ELSE next[b] \in Inv
  <2>1. /\ b \in D /\ b[1] \in Nat /\ b[2] \in Nat \cup {WholeList}
        /\ IF b[2] = WholeList THEN b[1] = 0 ELSE Encloses(L, b[1], b[2], ts)
    BY <1>ts DEF Bounds, WholeList
  <2>2. Calls(L, ts, past)[b] = IndexCall(L, ts, b[1], b[2], past)
    BY <2>1 DEF Calls
  <2>3. CASE \E i \in Nat : /\ Calls(L, ts, past)[b] = Found(i)
                            /\ Answers(L, i, ts, past)
    BY <2>1, <2>3 DEF Answered, AnswerOf, Found
  <2>4. CASE \E i, j \in Nat : /\ Calls(L, ts, past)[b] = Again(i, j)
                               /\ Encloses(L, i, j, ts)
    <3>1. PICK i \in Nat, j \in Nat : /\ Calls(L, ts, past)[b] = Again(i, j)
                                      /\ Encloses(L, i, j, ts)
      BY <2>4
    <3>2. b \notin Stop /\ next[b] = <<i, j>>
      BY <2>1, <3>1 DEF Answered, NextCall, Again
    <3>3. <<i, j>> \in D /\ j # WholeList
      BY <3>1, <1>ts DEF Encloses, Bounds, WholeList
    <3> QED BY <3>1, <3>2, <3>3
  <2>5. \/ \E i \in Nat : /\ IndexCall(L, ts, b[1], b[2], past) = Found(i)
                          /\ Answers(L, i, ts, past)
        \/ \E i, j \in Nat : /\ IndexCall(L, ts, b[1], b[2], past) = Again(i, j)
                             /\ Encloses(L, i, j, ts)
    BY <2>1, IndexCallIs
  <2> QED BY <2>2, <2>3, <2>4, <2>5
<1>3. /\ CallSize(L) \in [D -> Nat]
      /\ next \in [D -> D] /\ <<0, WholeList>> \in D
      /\ Shrinks(D, CallSize(L), Stop, next)
  <2> HIDE DEF Inv, Ans
  <2> QED BY CallTypes
<1>4. <<0, WholeList>> \in Inv
  BY <1>3
<1>5. \A p \in Inv : g[p] \in Ans
  <2>1. Inv \subseteq D
    OBVIOUS
  <2> HIDE DEF D, Stop, val, next, Inv, Ans
  <2>2. Closed(Inv, Ans, Stop, val, next)
    BY <1>2 DEF Closed
  <2> QED BY <1>1, <1>3, <2>1, <2>2, RecursionAnswers
<1> QED BY <1>1, <1>4, <1>5

(* On a sorted list the recursion of get_index (timebuffer.py:72) ends with *)
(* the index that divides the list at ts, the one to insert at; with        *)
(* valid_read_index it is the same one but never past the end.              *)
THEOREM GetIndexDivides ==
  ASSUME NEW S, Timed(S), NEW L \in Seq(S), StrictlySorted(L), NEW ts \in Int
  PROVE  /\ Divides(L, GetIndex(L, ts, InsertIndex), ts)
         /\ L # <<>> => GetIndex(L, ts, ReadIndex) =
                          IF GetIndex(L, ts, InsertIndex) < Len(L)
                          THEN GetIndex(L, ts, InsertIndex) ELSE Len(L) - 1
<1> DEFINE i == GetIndex(L, ts, InsertIndex)
           k == GetIndex(L, ts, ReadIndex)
<1>ts. Len(L) \in Nat /\ \A j \in 1..Len(L) : L[j].ts \in Int
  BY TsIsInt
<1>1. InsertIndex \in {InsertIndex, ReadIndex} /\ ReadIndex \in {InsertIndex, ReadIndex}
  OBVIOUS
<1>2. Answers(L, i, ts, InsertIndex) /\ Answers(L, k, ts, ReadIndex)
  BY <1>1, GetIndexAnswers
<1>3. Divides(L, i, ts)
  BY <1>2, InsertIndexDivides
<1>4. /\ i \in 0..Len(L) /\ k \in 0..Len(L) /\ (L # <<>> => k < Len(L))
  BY <1>1, GetIndexInList
<1> HIDE DEF i, k
<1>5. \A m, n \in 0..Len(L) : Divides(L, m, ts) /\ Divides(L, n, ts) => m <= n
  <2> SUFFICES ASSUME NEW m \in 0..Len(L), NEW n \in 0..Len(L), n < m,
                      Divides(L, m, ts), Divides(L, n, ts)
               PROVE  FALSE
    BY <1>ts
  <2>1. m \in 1..m /\ m \in n+1..Len(L) /\ m \in 1..Len(L)
    BY <1>ts
  <2> QED BY <2>1, <1>ts DEF Divides
<1>6. \/ Divides(L, k, ts)
      \/ k+1 = Len(L) /\ Divides(L, k+1, ts)
  BY <1>2 DEF Answers
<1>7. ASSUME Divides(L, k, ts) PROVE k = i
  BY <1>3, <1>4, <1>5, <1>7, <1>ts
<1>8. ASSUME k+1 = Len(L), Divides(L, k+1, ts) PROVE i = Len(L) /\ k = Len(L) - 1
  <2>1. k+1 \in 0..Len(L)
    BY <1>4, <1>8, <1>ts
  <2>2. i <= k+1 /\ k+1 <= i
    BY <2>1, <1>3, <1>4, <1>5, <1>8
  <2> QED BY <2>2, <1>4, <1>8, <1>ts
<1>9. L # <<>> => k = IF i < Len(L) THEN i ELSE Len(L) - 1
  BY <1>4, <1>6, <1>7, <1>8, <1>ts
<1> QED BY <1>3, <1>9 DEF i, k

(* insert_sorted's mutation, at an index that divides the list at the new   *)
(* entry's timestamp: the list stays sorted and holds the old entries with  *)
(* other timestamps, and the new one.                                       *)
LEMMA PutAtIs ==
  ASSUME NEW S, Timed(S), NEW L \in Seq(S), StrictlySorted(L), NEW e \in S,
         NEW i, Divides(L, i, e.ts)
  PROVE  /\ PutAt(L, i, e) \in Seq(S)
         /\ PutAt(L, i, e) # <<>>
         /\ StrictlySorted(PutAt(L, i, e))
         /\ Entries(PutAt(L, i, e)) = {r \in Entries(L) : r.ts # e.ts} \cup {e}
<1>ts. /\ Len(L) \in Nat /\ e.ts \in Int
       /\ \A j \in 1..Len(L) : L[j] \in S /\ L[j].ts \in Int
  BY TsIsInt DEF Timed
<1>div. /\ i \in 0..Len(L)
        /\ \A j \in 1..i : L[j].ts < e.ts
        /\ \A j \in i+1..Len(L) : e.ts <= L[j].ts
  BY DEF Divides
<1>sorted. \A j, k \in 1..Len(L) : j < k => L[j].ts < L[k].ts
  BY DEF StrictlySorted
<1>1. CASE Overwrites(L, i, e)
  <2> DEFINE P == [L EXCEPT ![i+1] = e]
  <2>1. i+1 \in 1..Len(L) /\ L[i+1].ts = e.ts
    BY <1>1, <1>div, <1>ts DEF Overwrites
  <2>2. PutAt(L, i, e) = P
    BY <1>1 DEF PutAt
  <2>3. /\ P \in Seq(S) /\ Len(P) = Len(L)
        /\ \A j \in 1..Len(L) : P[j] = IF j = i+1 THEN e ELSE L[j]
    BY <2>1, ExceptSeq
  <2> HIDE DEF P
  <2>4. \A j \in 1..Len(L) : P[j].ts = L[j].ts
    BY <2>1, <2>3
  <2>5. StrictlySorted(P)
    BY <2>3, <2>4, <1>sorted DEF StrictlySorted
  <2>6. P # <<>>
    BY <2>1, <2>3, <1>ts
  <2>7. Entries(P) = {r \in Entries(L) : r.ts # e.ts} \cup {e}
    <3>1. ASSUME NEW j \in 1..Len(L), j # i+1
          PROVE  L[j].ts # e.ts
      BY <3>1, <2>1, <1>sorted, <1>ts
    <3> QED BY <3>1, <2>1, <2>3 DEF Entries
  <2> QED BY <2>2, <2>3, <2>5, <2>6, <2>7
<1>2. CASE ~Overwrites(L, i, e)
  <2> DEFINE P == InsertAt(L, i+1, e)
  <2>1. PutAt(L, i, e) = P
    BY <1>2, <1>div, <1>ts DEF PutAt
  <2>2. i+1 \in 1..Len(L)+1 /\ i \in Nat
    BY <1>div, <1>ts
  <2>3. /\ P \in Seq(S) /\ Len(P) = Len(L) + 1
        /\ \A j \in 1..Len(L)+1 :
             P[j] = IF j < i+1 THEN L[j] ELSE IF j = i+1 THEN e ELSE L[j-1]
    <3>1. \A k \in 1..Len(L)+1 :
             /\ InsertAt(L, k, e) \in Seq(S) /\ Len(InsertAt(L, k, e)) = Len(L) + 1
             /\ \A j \in 1..Len(L)+1 : InsertAt(L, k, e)[j] =
                   IF j < k THEN L[j] ELSE IF j = k THEN e ELSE L[j-1]
      BY InsertAtIs
    <3> QED BY <3>1, <2>2
  <2> HIDE DEF P
  <2>4. \A j \in i+1..Len(L) : e.ts < L[j].ts
    <3> SUFFICES ASSUME NEW j \in i+1..Len(L)
                 PROVE  e.ts < L[j].ts
      OBVIOUS
    <3>1. j \in 1..Len(L) /\ i+1 \in 1..Len(L) /\ (j = i+1 \/ i+1 < j)
      BY <2>2, <1>ts
    <3>2. L[i+1].ts # e.ts /\ e.ts <= L[i+1].ts
      BY <3>1, <1>2, <1>div, <1>ts DEF Overwrites
    <3>3. j = i+1 \/ L[i+1].ts < L[j].ts
      BY <3>1, <1>sorted
    <3> QED BY <3>1, <3>2, <3>3, <1>ts
  <2>5. \A j \in 1..i : L[j].ts < e.ts
    BY <1>div
  <2>6. StrictlySorted(P)
    <3> SUFFICES ASSUME NEW j \in 1..Len(L)+1, NEW k \in 1..Len(L)+1, j < k
                 PROVE  P[j].ts < P[k].ts
      BY <2>3 DEF StrictlySorted
    <3>1. CASE k < i+1
      BY <3>1, <2>2, <2>3, <1>sorted, <1>ts
    <3>2. CASE k = i+1
      BY <3>2, <2>2, <2>3, <2>5, <1>ts
    <3>3. CASE k > i+1 /\ j < i+1
      <4>1. P[j] = L[j] /\ j \in 1..i /\ P[k] = L[k-1] /\ k-1 \in i+1..Len(L)
        BY <3>3, <2>2, <2>3, <1>ts
      <4>2. L[j].ts < e.ts /\ e.ts < L[k-1].ts
        BY <4>1, <2>4, <2>5
      <4>3. L[j].ts \in Int /\ L[k-1].ts \in Int
        BY <4>1, <2>2, <1>ts
      <4> QED BY <4>1, <4>2, <4>3, <1>ts
    <3>4. CASE k > i+1 /\ j = i+1
      <4>1. P[j] = e /\ P[k] = L[k-1] /\ k-1 \in i+1..Len(L)
        BY <3>4, <2>2, <2>3, <1>ts
      <4> QED BY <4>1, <2>4
    <3>5. CASE k > i+1 /\ j > i+1
      <4>1. P[j] = L[j-1] /\ P[k] = L[k-1] /\ j-1 \in 1..Len(L) /\ k-1 \in 1..Len(L)
            /\ j-1 < k-1
        BY <3>5, <2>2, <2>3, <1>ts
      <4> QED BY <4>1, <1>sorted
    <3> QED BY <3>1, <3>2, <3>3, <3>4, <3>5, <2>2
  <2>7. P # <<>>
    BY <2>3, <1>ts
  <2>8. Entries(P) = {r \in Entries(L) : r.ts # e.ts} \cup {e}
    <3>1. \A j \in 1..Len(L) : L[j].ts # e.ts
      BY <2>4, <2>5, <2>2, <1>ts
    <3>2. Entries(P) \subseteq Entries(L) \cup {e}
      <4> SUFFICES ASSUME NEW j \in 1..Len(L)+1
                   PROVE  P[j] \in Entries(L) \cup {e}
        BY <2>3 DEF Entries
      <4>1. j < i+1 \/ j = i+1 \/ j-1 \in 1..Len(L)
        BY <2>2, <1>ts
      <4>2. j < i+1 => j \in 1..Len(L)
        BY <2>2, <1>ts
      <4> QED BY <4>1, <4>2, <2>2, <2>3 DEF Entries
    <3>3. e \in Entries(P)
      <4>1. i+1 \in 1..Len(P) /\ P[i+1] = e
        BY <2>2, <2>3, <1>ts
      <4> QED BY <4>1 DEF Entries
    <3>4. ASSUME NEW j \in 1..Len(L)
          PROVE  L[j] \in Entries(P)
      <4>1. CASE j < i+1
        BY <4>1, <2>3, <1>ts DEF Entries
      <4>2. CASE j >= i+1
        <5>1. j+1 \in 1..Len(L)+1 /\ P[j+1] = L[j]
          BY <4>2, <2>2, <2>3, <1>ts
        <5> QED BY <5>1, <2>3 DEF Entries
      <4> QED BY <4>1, <4>2, <2>2
    <3> QED BY <3>1, <3>2, <3>3, <3>4 DEF Entries
  <2> QED BY <2>1, <2>3, <2>6, <2>7, <2>8
<1> QED BY <1>1, <1>2

(* M is the stretch of a list that lies in a window: its entries a+1..e.     *)
Stretch(M, L, lo, hi, a, e) ==
  /\ a \in 0..Len(L) /\ e \in 0..Len(L) /\ a <= e
  /\ DOMAIN M = 1..e-a /\ (M = <<>> <=> e-a = 0) /\ \A j \in 1..e-a : M[j] = L[a+j]
  /\ Len(M) = e-a
  /\ \A k \in 1..Len(L) : lo <= L[k].ts /\ L[k].ts <= hi <=> a < k /\ k <= e

(* get_interval's slice between the indexes of the two ends of a window is   *)
(* the stretch of the list that lies in the window.                         *)
LEMMA SliceRange ==
  ASSUME NEW S, Timed(S), NEW L \in Seq(S), StrictlySorted(L),
         NEW lo \in Int, NEW hi \in Int, lo < hi,
         NEW a, Divides(L, a, lo), NEW b, Divides(L, b, hi)
  PROVE  /\ Slice(L, a, b, hi) \in Seq(S)
         /\ \E e \in Int : Stretch(Slice(L, a, b, hi), L, lo, hi, a, e)
<1> DEFINE end == EndIndex(L, b, hi)
           P == SubSeq(L, a+1, end)
<1>ts. Len(L) \in Nat /\ \A j \in 1..Len(L) : L[j] \in S /\ L[j].ts \in Int
  BY TsIsInt
<1>a. /\ a \in 0..Len(L)
      /\ \A j \in 1..a : L[j].ts < lo
      /\ \A j \in a+1..Len(L) : lo <= L[j].ts
  BY DEF Divides
<1>b. /\ b \in 0..Len(L)
      /\ \A j \in 1..b : L[j].ts < hi
      /\ \A j \in b+1..Len(L) : hi <= L[j].ts
  BY DEF Divides
<1>sorted. \A j, k \in 1..Len(L) : j < k => L[j].ts < L[k].ts
  BY DEF StrictlySorted
<1>1. a <= b
  <2> SUFFICES ASSUME b < a PROVE FALSE
    BY <1>a, <1>b, <1>ts
  <2>1. b+1 \in 1..a /\ b+1 \in b+1..Len(L) /\ b+1 \in 1..Len(L)
    BY <1>a, <1>b, <1>ts
  <2>2. L[b+1].ts < lo /\ hi <= L[b+1].ts /\ L[b+1].ts \in Int
    BY <2>1, <1>a, <1>b, <1>ts
  <2> QED BY <2>2
<1>2. /\ end \in 0..Len(L) /\ a <= end
      /\ end = b \/ (end = b+1 /\ L[b+1].ts = hi)
      /\ b < Len(L) /\ L[b+1].ts = hi => end = b+1
  BY <1>1, <1>a, <1>b, <1>ts DEF EndIndex
<1>3. Slice(L, a, b, hi) = P
  <2>1. Slice(L, a, b, hi) = SubSeq(L, a+1, IF end > Len(L) THEN Len(L) ELSE end)
    BY DEF Slice
  <2> HIDE DEF end
  <2>2. ~(end > Len(L))
    BY <1>2, <1>ts
  <2> QED BY <2>1, <2>2
<1> HIDE DEF end
<1>4. P \in Seq(S) /\ Len(P) = end - a /\ \A j \in 1..end-a : P[j] = L[a+j]
  <2>1. a+1 \in Int /\ end \in Int /\ \A j \in a+1..end : L[j] \in S
    BY <1>2, <1>a, <1>ts
  <2>2. /\ P \in Seq(S)
        /\ Len(P) = IF a+1 <= end THEN end-(a+1)+1 ELSE 0
        /\ \A j \in 1..end-(a+1)+1 : P[j] = L[(a+1)+j-1]
    BY <2>1, SubSeqProperties
  <2>3. end-(a+1)+1 = end-a /\ \A j \in 1..end-a : (a+1)+j-1 = a+j
    BY <1>2, <1>a
  <2> QED BY <2>2, <2>3, <1>2, <1>a
<1> HIDE DEF P
<1>5. ASSUME NEW j \in 1..Len(L), a < j, j <= end
      PROVE  lo <= L[j].ts /\ L[j].ts <= hi
  <2>1. j \in a+1..Len(L)
    BY <1>5, <1>a, <1>ts
  <2>2. j \in 1..b \/ (j = b+1 /\ L[b+1].ts = hi)
    BY <1>5, <1>2, <1>a, <1>b
  <2> QED BY <2>1, <2>2, <1>a, <1>b, <1>ts
<1>6. ASSUME NEW j \in 1..Len(L), lo <= L[j].ts, L[j].ts <= hi
      PROVE  a < j /\ j <= end
  <2>1. a < j
    BY <1>6, <1>a, <1>ts
  <2>2. j <= end
    <3> SUFFICES ASSUME b < j PROVE j <= end
      BY <1>2, <1>b
    <3>1. b+1 \in 1..Len(L) /\ b+1 \in b+1..Len(L) /\ j \in b+1..Len(L) /\ b < Len(L)
      BY <1>b, <1>ts
    <3>2. L[j].ts = hi
      BY <3>1, <1>6, <1>b, <1>ts
    <3>3. j = b+1
      BY <3>1, <3>2, <1>sorted, <1>b, <1>ts
    <3> QED BY <3>1, <3>2, <3>3, <1>2
  <2> QED BY <2>1, <2>2
<1>7. end \in Int
  BY <1>2, <1>ts
<1>8. DOMAIN P = 1..end-a /\ (P = <<>> <=> end-a = 0)
  BY <1>4, LenProperties, EmptySeq
<1>9. Stretch(P, L, lo, hi, a, end)
  BY <1>2, <1>4, <1>5, <1>6, <1>8, <1>a DEF Stretch
<1> QED BY <1>3, <1>4, <1>7, <1>9

(* So the slice is sorted, and has exactly the entries in the window.        *)
LEMMA SliceIs ==
  ASSUME NEW S, Timed(S), NEW L \in Seq(S), StrictlySorted(L),
         NEW lo \in Int, NEW hi \in Int, lo < hi,
         NEW a, Divides(L, a, lo), NEW b, Divides(L, b, hi)
  PROVE  /\ Slice(L, a, b, hi) \in Seq(S)
         /\ StrictlySorted(Slice(L, a, b, hi))
         /\ Entries(Slice(L, a, b, hi)) = {e \in Entries(L) : lo <= e.ts /\ e.ts <= hi}
<1> DEFINE P == Slice(L, a, b, hi)
<1>ts. Len(L) \in Nat
  BY LenProperties
<1>1. P \in Seq(S) /\ \E e \in Int : Stretch(P, L, lo, hi, a, e)
  BY SliceRange
<1> HIDE DEF P
<1>e. PICK end \in Int : Stretch(P, L, lo, hi, a, end)
  BY <1>1
<1>r. /\ a \in 0..Len(L) /\ end \in 0..Len(L) /\ a <= end
      /\ Len(P) = end-a /\ \A j \in 1..end-a : P[j] = L[a+j]
      /\ \A k \in 1..Len(L) : lo <= L[k].ts /\ L[k].ts <= hi <=> a < k /\ k <= end
  BY <1>e DEF Stretch
<1>2. \A j \in 1..Len(P) : P[j] = L[a+j] /\ a+j \in 1..Len(L) /\ a < a+j /\ a+j <= end
  BY <1>r, <1>ts
<1>3. StrictlySorted(P)
  <2> SUFFICES ASSUME NEW j \in 1..Len(P), NEW k \in 1..Len(P), j < k
               PROVE  P[j].ts < P[k].ts
    BY DEF StrictlySorted
  <2>1. a+j < a+k
    BY <1>r
  <2> QED BY <2>1, <1>2 DEF StrictlySorted
<1>4. \A k \in 1..Len(L) : a < k /\ k <= end => k-a \in 1..Len(P) /\ a+(k-a) = k
  BY <1>r, <1>ts
<1>5. Entries(P) = {e \in Entries(L) : lo <= e.ts /\ e.ts <= hi}
  <2>1. ASSUME NEW j \in 1..Len(P)
        PROVE  P[j] \in {e \in Entries(L) : lo <= e.ts /\ e.ts <= hi}
    BY <1>r, <1>2 DEF Entries
  <2>2. ASSUME NEW k \in 1..Len(L), lo <= L[k].ts, L[k].ts <= hi
        PROVE  L[k] \in Entries(P)
    <3>1. k-a \in 1..Len(P) /\ a+(k-a) = k
      BY <2>2, <1>r, <1>4
    <3> QED BY <3>1, <1>2 DEF Entries
  <2> QED BY <2>1, <2>2 DEF Entries
<1> QED BY <1>1, <1>3, <1>5 DEF P

(* Whatever the order of the list and however stale the indexes: what a     *)
(* call of get_index answers or calls itself on are indexes, and the list   *)
(* remains one of the same entries.                                         *)
LEMMA IndexCallTypes ==
  ASSUME NEW S, Timed(S), NEW L \in Seq(S), NEW ts \in Int,
         NEW past \in {InsertIndex, ReadIndex}, NEW f \in Nat, NEW t \in Nat \cup {WholeList}
  PROVE  \/ \E i \in Nat : IndexCall(L, ts, f, t, past) = Found(i)
         \/ \E i, j \in Nat : IndexCall(L, ts, f, t, past) = Again(i, j)
<1> DEFINE ff == ClampIdx(L, f)
           tt == IF t = WholeList THEN Len(L) - 1 ELSE ClampIdx(L, t)
           m == ff + (tt - ff) \div 2
<1>ts. Len(L) \in Nat
  BY TsIsInt
<1>call0. L = <<>> => IndexCall(L, ts, f, t, past) = Found(0)
  BY Zenon DEF IndexCall
<1>1. CASE L = <<>>
  BY <1>1, <1>call0
<1>2. CASE L # <<>>
  <2>1. Len(L) > 0
    BY <1>2, <1>ts, EmptySeq
  <2>2. ff \in Nat /\ tt \in Nat
    BY <2>1, <1>ts DEF ClampIdx, WholeList
  <2>3. tt + past \in Nat /\ (tt - ff > 1 => m \in Nat)
    BY <2>2 DEF InsertIndex, ReadIndex
  <2>call. IndexCall(L, ts, f, t, past) =
             IF ts <= L[ff+1].ts       THEN Found(ff)
             ELSE IF ts > L[tt+1].ts   THEN Found(tt + past)
             ELSE IF tt - ff <= 1      THEN Found(tt)
             ELSE IF ts = L[m+1].ts    THEN Found(m)
             ELSE IF ts < L[m+1].ts    THEN Again(ff, m)
             ELSE                           Again(m, tt)
    BY <1>2, Zenon DEF IndexCall
  <2> HIDE DEF ff, tt, m
  <2>4. tt - ff <= 1 \/ tt - ff > 1
    BY <2>2
  <2> QED BY <2>2, <2>3, <2>4, <2>call
<1> QED BY <1>1, <1>2

LEMMA PutAtTypes ==
  ASSUME NEW S, NEW L \in Seq(S), NEW e \in S, NEW i \in Nat
  PROVE  PutAt(L, i, e) \in Seq(S) /\ PutAt(L, i, e) # <<>>
<1>ts. Len(L) \in Nat
  BY LenProperties
<1>1. CASE Overwrites(L, i, e)
  <2>1. i+1 \in 1..Len(L) /\ PutAt(L, i, e) = [L EXCEPT ![i+1] = e]
    BY <1>1, <1>ts DEF PutAt, Overwrites
  <2>2. [L EXCEPT ![i+1] = e] \in Seq(S) /\ Len([L EXCEPT ![i+1] = e]) = Len(L)
    BY <2>1, ExceptSeq
  <2> QED BY <2>1, <2>2, <1>ts, EmptySeq
<1>2. CASE ~Overwrites(L, i, e)
  <2> DEFINE k == IF i > Len(L) THEN Len(L) + 1 ELSE i + 1
  <2>1. k \in 1..Len(L)+1 /\ PutAt(L, i, e) = InsertAt(L, k, e)
    BY <1>2, <1>ts DEF PutAt
  <2> HIDE DEF k
  <2>2. InsertAt(L, k, e) \in Seq(S) /\ Len(InsertAt(L, k, e)) = Len(L) + 1
    BY <2>1, InsertAtIs
  <2> QED BY <2>1, <2>2, <1>ts, EmptySeq
<1> QED BY <1>1, <1>2

LEMMA SliceTypes ==
  ASSUME NEW S, NEW L \in Seq(S), NEW a \in Nat, NEW b \in Nat, NEW hi
  PROVE  Slice(L, a, b, hi) \in Seq(S)
<1> DEFINE end == EndIndex(L, b, hi)
           last == IF end > Len(L) THEN Len(L) ELSE end
<1>ts. Len(L) \in Nat /\ \A j \in 1..Len(L) : L[j] \in S
  BY LenProperties, ElementOfSeq
<1>1. last \in Int /\ last <= Len(L) /\ Slice(L, a, b, hi) = SubSeq(L, a+1, last)
  BY <1>ts DEF EndIndex, Slice
<1> HIDE DEF last
<1>2. a+1 \in Int /\ \A j \in a+1..last : L[j] \in S
  BY <1>1, <1>ts
<1> QED BY <1>1, <1>2, SubSeqProperties

(* The sum of a function over a finite set of its arguments, as the         *)
(* community modules compute it: g[s] is the sum over s.                    *)
Anyone(s) == CHOOSE x \in s : TRUE
Folding(g, f, S) ==
  g = [s \in SUBSET S |-> IF s = {} THEN 0 ELSE f[Anyone(s)] + g[s \ {Anyone(s)}]]

LEMMA LessThanOne ==
  ASSUME NEW S, IsFiniteSet(S), NEW s \in SUBSET S
  PROVE  /\ Cardinality(s) \in Nat
         /\ s # {} => /\ Anyone(s) \in s /\ s \ {Anyone(s)} \in SUBSET S
         /\ \A x \in s : /\ Cardinality(s \ {x}) \in Nat
                         /\ Cardinality(s \ {x}) < Cardinality(s)
<1>1. IsFiniteSet(s)
  BY FS_Subset
<1>2. Cardinality(s) \in Nat
  BY <1>1, FS_CardinalityType
<1>3. \A x \in s : /\ Cardinality(s \ {x}) \in Nat
                   /\ Cardinality(s \ {x}) < Cardinality(s)
  <2> TAKE x \in s
  <2>1. Cardinality(s \ {x}) = Cardinality(s) - 1
    BY <1>1, FS_RemoveElement
  <2>2. IsFiniteSet(s \ {x})
    BY <1>1, FS_RemoveElement
  <2>3. Cardinality(s \ {x}) \in Nat
    BY <2>2, FS_CardinalityType
  <2> QED BY <1>2, <2>1, <2>3
<1>4. s # {} => Anyone(s) \in s
  BY DEF Anyone
<1> QED BY <1>2, <1>3, <1>4

LEMMA FoldingExists ==
  ASSUME NEW S, IsFiniteSet(S), NEW f \in [S -> Int]
  PROVE  \E g \in [SUBSET S -> Int] : Folding(g, f, S)
<1> DEFINE Upto(n) == {s \in SUBSET S : Cardinality(s) < n}
           Good(n) == \E g \in [SUBSET S -> Int] : \A s \in Upto(n) :
                         g[s] = IF s = {} THEN 0 ELSE f[Anyone(s)] + g[s \ {Anyone(s)}]
           Bad == {n \in Nat : ~Good(n)}
<1>c. \A s \in SUBSET S :
        /\ Cardinality(s) \in Nat
        /\ s # {} => /\ Anyone(s) \in s /\ s \ {Anyone(s)} \in SUBSET S
                     /\ Cardinality(s \ {Anyone(s)}) \in Nat
                     /\ Cardinality(s \ {Anyone(s)}) < Cardinality(s)
  BY LessThanOne
<1>1. ASSUME NEW n \in Nat, Good(n) PROVE Good(n+1)
  <2>1. PICK g \in [SUBSET S -> Int] : \A s \in Upto(n) :
               g[s] = IF s = {} THEN 0 ELSE f[Anyone(s)] + g[s \ {Anyone(s)}]
    BY <1>1
  <2> DEFINE h == [s \in SUBSET S |-> IF s \in Upto(n) THEN g[s]
                                      ELSE IF s = {} THEN 0
                                      ELSE f[Anyone(s)] + g[s \ {Anyone(s)}]]
  <2>2. h \in [SUBSET S -> Int]
    <3> SUFFICES ASSUME NEW s \in SUBSET S PROVE h[s] \in Int
      OBVIOUS
    <3>1. s # {} => f[Anyone(s)] \in Int /\ g[s \ {Anyone(s)}] \in Int
      BY <1>c
    <3> QED BY <3>1
  <2>3. ASSUME NEW s \in Upto(n+1)
        PROVE  h[s] = IF s = {} THEN 0 ELSE f[Anyone(s)] + h[s \ {Anyone(s)}]
    <3>1. h[s] = IF s = {} THEN 0 ELSE f[Anyone(s)] + g[s \ {Anyone(s)}]
      BY <2>1
    <3>2. CASE s # {}
      <4>1. s \ {Anyone(s)} \in SUBSET S /\ Cardinality(s \ {Anyone(s)}) < n
        BY <1>c, <3>2
      <4>2. h[s \ {Anyone(s)}] = g[s \ {Anyone(s)}]
        BY <4>1
      <4> QED BY <3>1, <3>2, <4>2
    <3>3. CASE s = {}
      BY <3>1, <3>3
    <3> QED BY <3>2, <3>3
  <2> HIDE DEF h
  <2> QED BY <2>2, <2>3
<1>2. Good(0)
  <2>1. [s \in SUBSET S |-> 0] \in [SUBSET S -> Int]
    OBVIOUS
  <2>2. \A s \in SUBSET S : ~(Cardinality(s) < 0)
    <3> TAKE s \in SUBSET S
    <3>1. Cardinality(s) \in Nat
      BY <1>c
    <3> QED BY <3>1
  <2>3. Upto(0) = {}
    BY <2>2
  <2> QED BY <2>1, <2>3
<1>3. Bad = {}
  <2> SUFFICES ASSUME Bad # {} PROVE FALSE
    OBVIOUS
  <2> HIDE DEF Good
  <2>1. PICK n \in Bad : \A m \in Bad : n <= m
    BY MinimumExists
  <2>2. n \in Nat /\ n # 0
    BY <1>2
  <2>3. n-1 \in Nat /\ n-1 \notin Bad /\ (n-1)+1 = n
    BY <2>1, <2>2
  <2>4. Good(n-1) /\ \A k \in Nat : Good(k) => Good(k+1)
    BY <2>3, <1>1
  <2> QED BY <2>3, <2>4
<1>4. Cardinality(S) \in Nat
  BY <1>c
<1>5. \A s \in SUBSET S : Cardinality(s) < Cardinality(S) + 1
  <2> TAKE s \in SUBSET S
  <2>1. Cardinality(s) <= Cardinality(S)
    BY FS_Subset
  <2>2. Cardinality(s) \in Nat /\ Cardinality(S) \in Nat
    BY <1>c
  <2> QED BY <2>1, <2>2
<1>6. Good(Cardinality(S) + 1)
  <2> HIDE DEF Good
  <2> QED BY <1>3, <1>4
<1>7. PICK g \in [SUBSET S -> Int] : \A s \in SUBSET S :
             g[s] = IF s = {} THEN 0 ELSE f[Anyone(s)] + g[s \ {Anyone(s)}]
  BY <1>5, <1>6
<1>8. g = [s \in SUBSET S |-> g[s]]
  OBVIOUS
<1> QED BY <1>7, <1>8 DEF Folding

SumsUp(g, f, S) ==
  /\ g[{}] = 0
  /\ \A s \in SUBSET S : g[s] \in Int
  /\ \A s \in SUBSET S : \A x \in s : g[s] = f[x] + g[s \ {x}]

LEMMA FoldingTakesAny ==
  ASSUME NEW S, IsFiniteSet(S), NEW f \in [S -> Int], NEW g, Folding(g, f, S)
  PROVE  SumsUp(g, f, S)
<1> DEFINE Right(s) == g[s] \in Int /\ \A x \in s : g[s] = f[x] + g[s \ {x}]
           Sizes == {Cardinality(s) : s \in {r \in SUBSET S : ~Right(r)}}
<1>c. \A s \in SUBSET S :
        /\ Cardinality(s) \in Nat
        /\ s # {} => Anyone(s) \in s /\ s \ {Anyone(s)} \in SUBSET S
        /\ \A x \in s : Cardinality(s \ {x}) < Cardinality(s) /\ Cardinality(s \ {x}) \in Nat
  BY LessThanOne
<1>g. \A s \in SUBSET S :
        g[s] = IF s = {} THEN 0 ELSE f[Anyone(s)] + g[s \ {Anyone(s)}]
  BY DEF Folding
<1>0. g[{}] = 0
  BY <1>g
<1>1. \A s \in SUBSET S : Right(s)
  <2> SUFFICES ASSUME NEW r \in SUBSET S, ~Right(r) PROVE FALSE
    OBVIOUS
  <2>1. Sizes \subseteq Nat /\ Sizes # {}
    BY <1>c
  <2>2. PICK n \in Sizes : \A m \in Sizes : n <= m
    BY <2>1, MinimumExists
  <2>3. PICK s \in SUBSET S : ~Right(s) /\ Cardinality(s) = n
    OBVIOUS
  <2>4. ASSUME NEW x \in s PROVE Right(s \ {x})
    <3> SUFFICES ASSUME ~Right(s \ {x}) PROVE FALSE
      OBVIOUS
    <3>1. s \ {x} \in SUBSET S
      OBVIOUS
    <3>2. Cardinality(s \ {x}) \in Sizes
      BY <3>1
    <3> HIDE DEF Right, Sizes
    <3>3. n <= Cardinality(s \ {x})
      BY <2>2, <3>2
    <3> QED BY <3>3, <2>3, <1>c
  <2>5. s # {}
    <3>1. Right({})
      BY <1>0
    <3> QED BY <2>3, <3>1
  <2> DEFINE y == Anyone(s)
  <2>6. y \in s /\ y \in S /\ g[s] = f[y] + g[s \ {y}]
    BY <2>5, <1>c, <1>g
  <2> HIDE DEF y
  <2>7. g[s \ {y}] \in Int /\ f[y] \in Int
    BY <2>4, <2>6
  <2>8. ASSUME NEW x \in s PROVE g[s] = f[x] + g[s \ {x}]
    <3>1. CASE x = y
      BY <2>6, <3>1
    <3>2. CASE x # y
      <4>1. x \in s \ {y} /\ y \in s \ {x} /\ (s \ {y}) \ {x} = (s \ {x}) \ {y}
        BY <2>6, <3>2
      <4>2. g[s \ {y}] = f[x] + g[(s \ {y}) \ {x}]
        BY <2>4, <2>6, <4>1
      <4>3. g[s \ {x}] = f[y] + g[(s \ {x}) \ {y}]
        BY <2>4, <4>1
      <4>4. f[x] \in Int /\ g[s \ {x}] \in Int /\ g[(s \ {x}) \ {y}] \in Int
        <5>1. g[s \ {x}] \in Int
          BY <2>4
        <5>2. (s \ {x}) \ {y} \in SUBSET S /\ Cardinality((s \ {x}) \ {y}) < n
          <6>1. s \ {x} \in SUBSET S
            OBVIOUS
          <6>2. Cardinality((s \ {x}) \ {y}) < Cardinality(s \ {x})
            BY <6>1, <4>1, <1>c
          <6>3. (s \ {x}) \ {y} \in SUBSET S
            OBVIOUS
          <6> QED BY <6>1, <6>2, <6>3, <2>3, <1>c
        <5>3. Right((s \ {x}) \ {y})
          <6> SUFFICES ASSUME ~Right((s \ {x}) \ {y}) PROVE FALSE
            OBVIOUS
          <6>1. Cardinality((s \ {x}) \ {y}) \in Sizes /\ Cardinality((s \ {x}) \ {y}) \in Nat
            BY <5>2, <1>c
          <6> HIDE DEF Right, Sizes
          <6>2. n \in Nat
            BY <2>1
          <6> QED BY <6>1, <6>2, <5>2, <2>2
        <5> QED BY <5>1, <5>3
      <4>5. g[s \ {y}] = f[x] + g[(s \ {x}) \ {y}]
        BY <4>1, <4>2
      <4> QED BY <4>3, <4>4, <4>5, <2>6, <2>7
    <3> QED BY <3>1, <3>2
  <2>9. g[s] \in Int
    BY <2>6, <2>7
  <2> QED BY <2>3, <2>8, <2>9
<1> QED BY <1>0, <1>1 DEF SumsUp

LEMMA IntervalSteps ==
  ASSUME NEW a \in Int, NEW t \in Int, a <= t
  PROVE  t \in a..t /\ (a..t) \ {t} = a..t-1
<1>1. \A x : x \in (a..t) \ {t} <=> x \in a..t-1
  OBVIOUS
<1> QED BY <1>1

LEMMA FoldingTelescopes ==
  ASSUME NEW a \in Int, NEW b \in Int, a <= b, NEW f \in [a..b-1 -> Int],
         NEW P \in [a..b -> Int], \A t \in a..b-1 : P[t+1] = P[t] + f[t],
         NEW g, Folding(g, f, a..b-1)
  PROVE  g[a..b-1] = P[b] - P[a]
<1> DEFINE Right(n) == a+n <= b => g[a..(a+n)-1] = P[a+n] - P[a]
           Bad == {n \in Nat : ~Right(n)}
<1>g. SumsUp(g, f, a..b-1)
  <2>1. IsFiniteSet(a..b-1)
    BY FS_Interval
  <2> QED BY <2>1, FoldingTakesAny
<1>1. Right(0)
  <2>1. a..(a+0)-1 = {}
    OBVIOUS
  <2>2. P[a] \in Int /\ a+0 = a
    OBVIOUS
  <2> QED BY <2>1, <2>2, <1>g DEF SumsUp
<1>2. ASSUME NEW n \in Nat, Right(n) PROVE Right(n+1)
  <2> SUFFICES ASSUME a+(n+1) <= b PROVE g[a..(a+(n+1))-1] = P[a+(n+1)] - P[a]
    OBVIOUS
  <2> DEFINE t == a+n
  <2>1. t \in a..b-1 /\ t \in a..b /\ a \in a..b /\ t+1 \in a..b
        /\ a+(n+1) = t+1 /\ (a+(n+1))-1 = t /\ a+n <= b
    OBVIOUS
  <2> HIDE DEF t
  <2>2. a..t \in SUBSET (a..b-1)
    BY <2>1
  <2>6. t \in a..t /\ (a..t) \ {t} = a..t-1
    BY <2>1, IntervalSteps
  <2>3. g[a..t] = f[t] + g[a..t-1]
    BY <1>g, <2>2, <2>6 DEF SumsUp
  <2>4. g[a..t-1] = P[t] - P[a]
    BY <1>2, <2>1 DEF t
  <2>5. P[t+1] = P[t] + f[t] /\ P[t] \in Int /\ P[a] \in Int /\ f[t] \in Int
    BY <2>1
  <2>7. g[a..(a+(n+1))-1] = g[a..t] /\ P[a+(n+1)] = P[t+1]
    BY <2>1
  <2> QED BY <2>3, <2>4, <2>5, <2>7
<1>3. Bad = {}
  <2> SUFFICES ASSUME Bad # {} PROVE FALSE
    OBVIOUS
  <2> HIDE DEF Right
  <2>1. PICK n \in Bad : \A m \in Bad : n <= m
    BY MinimumExists
  <2>2. n \in Nat /\ n # 0
    BY <1>1
  <2>3. n-1 \in Nat /\ n-1 \notin Bad /\ (n-1)+1 = n
    BY <2>1, <2>2
  <2>4. Right(n-1) /\ \A k \in Nat : Right(k) => Right(k+1)
    BY <2>3, <1>2
  <2> QED BY <2>3, <2>4
<1>4. Right(b-a)
  <2>1. b-a \in Nat
    OBVIOUS
  <2> HIDE DEF Right
  <2> QED BY <1>3, <2>1
<1>5. a+(b-a) = b
  OBVIOUS
<1> QED BY <1>4, <1>5

(* P is the counter of a meter that reads power f: its increase in a tick   *)
(* is the power in that tick.                                               *)
Counts(P, f, a, b) == P \in [a..b -> Int] /\ \A t \in a..b-1 : P[t+1] = P[t] + f[t]

LEMMA CounterExists ==
  ASSUME NEW a \in Int, NEW b \in Int, a <= b, NEW f \in [a..b-1 -> Int]
  PROVE  \E P : Counts(P, f, a, b)
<1> DEFINE Good(n) == a+n <= b => \E P : Counts(P, f, a, a+n)
           Bad == {n \in Nat : ~Good(n)}
<1>1. Good(0)
  <2> DEFINE P == [t \in a..(a+0) |-> 0]
  <2>1. P \in [a..(a+0) -> Int]
    OBVIOUS
  <2>2. a..(a+0)-1 = {}
    OBVIOUS
  <2> QED BY <2>1, <2>2 DEF Counts
<1>2. ASSUME NEW n \in Nat, Good(n) PROVE Good(n+1)
  <2> SUFFICES ASSUME a+(n+1) <= b PROVE \E Q : Counts(Q, f, a, a+(n+1))
    OBVIOUS
  <2>1. PICK P : Counts(P, f, a, a+n)
    BY <1>2
  <2> DEFINE m == a+n
             Q == [t \in a..m+1 |-> IF t = m+1 THEN P[m] + f[m] ELSE P[t]]
  <2>2. m \in Int /\ a <= m /\ m \in a..b-1 /\ a+(n+1) = m+1 /\ (m+1)-1 = m
    OBVIOUS
  <2>3. P \in [a..m -> Int] /\ \A t \in a..m-1 : P[t+1] = P[t] + f[t]
    BY <2>1 DEF Counts
  <2> HIDE DEF m
  <2>4. Q \in [a..m+1 -> Int]
    <3> SUFFICES ASSUME NEW t \in a..m+1 PROVE Q[t] \in Int
      OBVIOUS
    <3>1. f[m] \in Int /\ P[m] \in Int
      BY <2>2, <2>3
    <3>2. t # m+1 => P[t] \in Int
      BY <2>2, <2>3
    <3> QED BY <3>1, <3>2
  <2>5. ASSUME NEW t \in a..m PROVE Q[t+1] = Q[t] + f[t]
    <3>1. t \in a..m+1 /\ t+1 \in a..m+1 /\ t # m+1 /\ (t+1 = m+1 <=> t = m)
      BY <2>2
    <3>2. Q[t] = P[t] /\ Q[t+1] = IF t+1 = m+1 THEN P[m] + f[m] ELSE P[t+1]
      BY <3>1
    <3>3. CASE t = m
      BY <3>2, <3>3
    <3>4. CASE t # m
      <4>1. t \in a..m-1
        BY <2>2, <3>4
      <4> QED BY <2>3, <3>1, <3>2, <3>4, <4>1
    <3> QED BY <3>3, <3>4
  <2> HIDE DEF Q
  <2>6. Counts(Q, f, a, m+1)
    BY <2>2, <2>4, <2>5 DEF Counts
  <2> QED BY <2>2, <2>6
<1>3. Bad = {}
  <2> SUFFICES ASSUME Bad # {} PROVE FALSE
    OBVIOUS
  <2> HIDE DEF Good
  <2>1. PICK n \in Bad : \A m \in Bad : n <= m
    BY MinimumExists
  <2>2. n \in Nat /\ n # 0
    BY <1>1
  <2>3. n-1 \in Nat /\ n-1 \notin Bad /\ (n-1)+1 = n
    BY <2>1, <2>2
  <2>4. Good(n-1) /\ \A k \in Nat : Good(k) => Good(k+1)
    BY <2>3, <1>2
  <2> QED BY <2>3, <2>4
<1>4. Good(b-a)
  <2>1. b-a \in Nat
    OBVIOUS
  <2> HIDE DEF Good
  <2> QED BY <1>3, <2>1
<1>5. a+(b-a) = b
  OBVIOUS
<1> QED BY <1>4, <1>5

(* Over a stretch of constant power v the counter goes up by v times its    *)
(* length.                                                                  *)
LEMMA CounterOverStretch ==
  ASSUME NEW a \in Int, NEW b \in Int, NEW f, NEW P, Counts(P, f, a, b),
         NEW u \in a..b, NEW w \in a..b, u <= w, NEW v \in Int,
         \A t \in u..w-1 : f[t] = v
  PROVE  P[w] - P[u] = v * (w - u)
<1> DEFINE Right(n) == u+n <= w => P[u+n] - P[u] = v * n
           Bad == {n \in Nat : ~Right(n)}
<1>p. P \in [a..b -> Int] /\ \A t \in a..b-1 : P[t+1] = P[t] + f[t]
  BY DEF Counts
<1>1. Right(0)
  <2>1. P[u] \in Int /\ u+0 = u
    BY <1>p
  <2>2. v * 0 = 0
    OBVIOUS
  <2> QED BY <2>1, <2>2
<1>2. ASSUME NEW n \in Nat, Right(n) PROVE Right(n+1)
  <2> SUFFICES ASSUME u+(n+1) <= w PROVE P[u+(n+1)] - P[u] = v * (n+1)
    OBVIOUS
  <2> DEFINE t == u+n
  <2>1. t \in u..w-1 /\ t \in a..b-1 /\ t \in a..b /\ t+1 \in a..b /\ u+(n+1) = t+1 /\ u+n <= w
    OBVIOUS
  <2>2. P[t] - P[u] = v * n
    BY <1>2, <2>1
  <2> HIDE DEF t
  <2>3. P[t+1] = P[t] + v /\ P[t] \in Int /\ P[u] \in Int
    BY <1>p, <2>1
  <2>4. v * (n+1) = v * n + v /\ v * n \in Int
    OBVIOUS
  <2> QED BY <2>1, <2>2, <2>3, <2>4
<1>3. Bad = {}
  <2> SUFFICES ASSUME Bad # {} PROVE FALSE
    OBVIOUS
  <2> HIDE DEF Right
  <2>1. PICK n \in Bad : \A m \in Bad : n <= m
    BY MinimumExists
  <2>2. n \in Nat /\ n # 0
    BY <1>1
  <2>3. n-1 \in Nat /\ n-1 \notin Bad /\ (n-1)+1 = n
    BY <2>1, <2>2
  <2>4. Right(n-1) /\ \A k \in Nat : Right(k) => Right(k+1)
    BY <2>3, <1>2
  <2> QED BY <2>3, <2>4
<1>4. Right(w-u)
  <2>1. w-u \in Nat
    OBVIOUS
  <2> HIDE DEF Right
  <2> QED BY <1>3, <2>1
<1>5. u+(w-u) = w
  OBVIOUS
<1> QED BY <1>4, <1>5

(* ... and what it counts is the sum that the specification speaks of.      *)
Powers(L, a, b) == [t \in a..b-1 |-> InForce(L, t)]

LEMMA FlowIsCounted ==
  ASSUME NEW L, NEW a \in Int, NEW b \in Int, a <= b,
         Powers(L, a, b) \in [a..b-1 -> Int], NEW P, Counts(P, Powers(L, a, b), a, b)
  PROVE  Flow(L, a, b) = P[b] - P[a]
<1> DEFINE S == a..b-1
           f == Powers(L, a, b)
           Body(g) == [s \in SUBSET S |->
                         IF s = {} THEN 0
                         ELSE LET x == CHOOSE x \in s : TRUE IN InForce(L, x) + g[s \ {x}]]
           iter == CHOOSE g : g = Body(g)
<1>1. Flow(L, a, b) = iter[S]
  BY DEF Flow, MapThenSumSet, MapThenFoldSet
<1>2. \A g : Folding(g, f, S) <=> g = Body(g)
  <2> TAKE g
  <2>1. \A s \in SUBSET S : s # {} => f[Anyone(s)] = InForce(L, Anyone(s))
    <3> TAKE s \in SUBSET S
    <3> HAVE s # {}
    <3>1. Anyone(s) \in S
      BY DEF Anyone
    <3> QED BY <3>1 DEF Powers
  <2>2. Body(g) = [s \in SUBSET S |->
                     IF s = {} THEN 0 ELSE f[Anyone(s)] + g[s \ {Anyone(s)}]]
    BY <2>1 DEF Anyone
  <2> QED BY <2>2 DEF Folding
<1>3. \E g : Folding(g, f, S)
  <2>1. IsFiniteSet(S)
    BY FS_Interval
  <2> HIDE DEF S, f
  <2>2. f \in [S -> Int]
    BY DEF S, f
  <2> QED BY <2>1, <2>2, FoldingExists
<1>4. iter = Body(iter)
  <2> HIDE DEF Body
  <2> QED BY <1>2, <1>3
<1>5. Folding(iter, f, S)
  <2> HIDE DEF iter, Body, f
  <2> QED BY <1>2, <1>4
<1> HIDE DEF iter, Body, f
<1>6. /\ f \in [a..b-1 -> Int] /\ P \in [a..b -> Int]
      /\ \A t \in a..b-1 : P[t+1] = P[t] + f[t]
  BY DEF Counts, f
<1>7. iter[a..b-1] = P[b] - P[a]
  BY <1>5, <1>6, FoldingTelescopes
<1> QED BY <1>1, <1>7

LEMMA MaxIs ==
  ASSUME NEW S, S \subseteq Int, NEW m \in S, \A x \in S : x <= m
  PROVE  Max(S) = m
<1>1. \A y \in S : (\A x \in S : y >= x) => y = m
  BY SMT
<1>2. \A x \in S : m >= x
  BY SMT
<1> QED BY <1>1, <1>2, Zenon DEF Max

LEMMA MinIs ==
  ASSUME NEW S, S \subseteq Int, NEW m \in S, \A x \in S : m <= x
  PROVE  Min(S) = m
<1>1. \A y \in S : (\A x \in S : y <= x) => y = m
  BY SMT
<1> QED BY <1>1, Zenon DEF Min

(* The readings of a list with integer timestamps and values, in order.     *)
Metered(L) ==
  /\ Len(L) \in Nat
  /\ L # <<>> => Len(L) > 0
  /\ \A j \in 1..Len(L) : L[j].ts \in Int /\ L[j].value \in Int
  /\ StrictlySorted(L)

(* The power in force is that of the last reading at or before t ...        *)
LEMMA InForceAfter ==
  ASSUME NEW L, Metered(L), NEW t \in Int, NEW k \in 1..Len(L),
         L[k].ts <= t, k < Len(L) => t < L[k+1].ts
  PROVE  InForce(L, t) = L[k].value
<1> DEFINE past == {i \in 1..Len(L) : L[i].ts <= t}
<1>1. ASSUME NEW i \in past PROVE i <= k
  <2> SUFFICES ASSUME k < i PROVE FALSE
    BY DEF Metered
  <2>1. k+1 \in 1..Len(L) /\ k < Len(L) /\ (i = k+1 \/ k+1 < i)
    BY DEF Metered
  <2>2. L[k+1].ts <= L[i].ts
    <3>1. L[k+1].ts \in Int /\ L[i].ts \in Int
      BY <2>1 DEF Metered
    <3> QED BY <2>1, <3>1 DEF Metered, StrictlySorted
  <2>3. L[k+1].ts \in Int /\ L[i].ts \in Int /\ L[i].ts <= t /\ t < L[k+1].ts
    BY <2>1 DEF Metered
  <2> QED BY <2>2, <2>3
<1>2. past \subseteq Int /\ k \in past
  OBVIOUS
<1> HIDE DEF past
<1>3. past # {} /\ Max(past) = k
  BY <1>1, <1>2, MaxIs
<1> QED BY <1>3 DEF InForce, past

(* ... or of the first reading before there is one.                         *)
LEMMA InForceFirst ==
  ASSUME NEW L, Metered(L), L # <<>>, NEW t \in Int, t < L[1].ts
  PROVE  InForce(L, t) = L[1].value
<1> DEFINE past == {i \in 1..Len(L) : L[i].ts <= t}
<1>1. ASSUME NEW i \in past PROVE FALSE
  <2>1. 1 \in 1..Len(L) /\ i \in 1..Len(L) /\ (i = 1 \/ 1 < i)
    BY DEF Metered
  <2>2. L[1].ts <= L[i].ts /\ L[1].ts \in Int /\ L[i].ts \in Int
    <3>1. L[1].ts \in Int /\ L[i].ts \in Int
      BY <2>1 DEF Metered
    <3> QED BY <2>1, <3>1 DEF Metered, StrictlySorted
  <2> QED BY <2>2
<1>2. past = {}
  BY <1>1
<1> HIDE DEF past
<1> QED BY <1>2 DEF InForce, past

(* get_value(t, 'pre') finds it.                                            *)
LEMMA InForceIs ==
  ASSUME NEW L, Metered(L), L # <<>>, NEW t \in Int, NEW i, Divides(L, i, t)
  PROVE  InForce(L, t) = IF i >= Len(L) THEN L[Len(L)].value
                         ELSE IF i <= 0 THEN L[1].value
                         ELSE IF L[i+1].ts = t THEN L[i+1].value ELSE L[i].value
<1>d. /\ i \in 0..Len(L) /\ Len(L) \in Nat /\ Len(L) > 0
      /\ \A j \in 1..i : L[j].ts < t
      /\ \A j \in i+1..Len(L) : t <= L[j].ts
  BY DEF Divides, Metered
<1>t. \A j \in 1..Len(L) : L[j].ts \in Int
  BY DEF Metered
<1>1. CASE i >= Len(L)
  <2>1. Len(L) \in 1..Len(L) /\ Len(L) \in 1..i /\ i = Len(L)
    BY <1>d, <1>1
  <2>2. L[Len(L)].ts <= t
    BY <1>d, <1>t, <2>1
  <2> QED BY <1>1, <2>1, <2>2, InForceAfter
<1>2. CASE i < Len(L) /\ L[i+1].ts = t
  <2>1. i+1 \in 1..Len(L) /\ ~(i >= Len(L)) /\ (i <= 0 => i+1 = 1)
    BY <1>d, <1>2
  <2>2. i+1 < Len(L) => t < L[(i+1)+1].ts
    <3> HAVE i+1 < Len(L)
    <3>1. (i+1)+1 \in 1..Len(L) /\ i+1 < (i+1)+1
      BY <1>d, <2>1
    <3> QED BY <1>2, <2>1, <3>1 DEF Metered, StrictlySorted
  <2>3. InForce(L, t) = L[i+1].value
    BY <1>2, <1>t, <2>1, <2>2, InForceAfter
  <2> QED BY <1>2, <2>1, <2>3
<1>3. CASE i < Len(L) /\ L[i+1].ts # t
  <2>1. i+1 \in i+1..Len(L) /\ i+1 \in 1..Len(L) /\ ~(i >= Len(L))
    BY <1>d, <1>3
  <2>2. t < L[i+1].ts
    BY <1>d, <1>t, <1>3, <2>1
  <2>3. CASE i <= 0
    <3>1. i+1 = 1
      BY <1>d, <2>3
    <3>2. t < L[1].ts
      BY <2>2, <3>1
    <3> QED BY <2>1, <2>3, <3>2, InForceFirst
  <2>4. CASE ~(i <= 0)
    <3>1. i \in 1..Len(L) /\ i \in 1..i
      BY <1>d, <2>4
    <3>2. L[i].ts <= t
      BY <1>d, <1>t, <3>1
    <3>3. InForce(L, t) = L[i].value
      BY <2>2, <3>1, <3>2, InForceAfter
    <3> QED BY <1>3, <2>1, <2>4, <3>3
  <2> QED BY <2>3, <2>4
<1> QED BY <1>d, <1>1, <1>2, <1>3

LEMMA InForceIsInt ==
  ASSUME NEW L, Metered(L), L # <<>>, NEW t \in Int
  PROVE  /\ InForce(L, t) \in Int
         /\ \E k \in 1..Len(L) : InForce(L, t) = L[k].value
<1> DEFINE past == {i \in 1..Len(L) : L[i].ts <= t}
           Later == {Len(L) - i : i \in past}
<1>n. Len(L) \in Nat /\ Len(L) > 0
  BY DEF Metered
<1>1. \E k \in 1..Len(L) : InForce(L, t) = L[k].value
  <2>1. CASE past = {}
    <3>1. InForce(L, t) = L[1].value
      BY <2>1 DEF InForce
    <3> QED BY <3>1, <1>n
  <2>2. CASE past # {}
    <3>1. Later \subseteq Nat /\ Later # {}
      BY <1>n, <2>2
    <3>2. PICK m \in Later : \A x \in Later : m <= x
      BY <3>1, MinimumExists
    <3>3. PICK k \in past : m = Len(L) - k
      OBVIOUS
    <3>4. ASSUME NEW i \in past PROVE i <= k
      <4>1. Len(L) - i \in Later /\ i \in Int /\ k \in Int
        OBVIOUS
      <4> HIDE DEF Later, past
      <4>2. m <= Len(L) - i
        BY <3>2, <4>1
      <4> QED BY <3>3, <4>1, <4>2, <1>n
    <3>5. past \subseteq Int
      OBVIOUS
    <3>6. Max(past) = k
      <4> HIDE DEF past, Later
      <4> QED BY <3>4, <3>5, MaxIs
    <3> QED BY <2>2, <3>6 DEF InForce
  <2> QED BY <2>1, <2>2
<1> QED BY <1>1 DEF Metered

(* No entry lies strictly between entry k and tick t, and none on t either *)
(* unless it is on the other side of t.                                     *)
Beside(L, k, t) ==
  \/ L[k].ts <= t /\ (k < Len(L) => t < L[k+1].ts)
  \/ t <= L[k].ts /\ (k > 1 => L[k-1].ts <= t)

(* P counts the energy of L between the ticks lo and hi.                    *)
CountsList(P, L, lo, hi) == Counts(P, Powers(L, lo, hi), lo, hi)

LEMMA CountsListExists ==
  ASSUME NEW L, Metered(L), L # <<>>, NEW lo \in Int, NEW hi \in Int, lo <= hi
  PROVE  \E P : CountsList(P, L, lo, hi)
<1>1. Powers(L, lo, hi) \in [lo..hi-1 -> Int]
  <2>1. \A t \in lo..hi-1 : InForce(L, t) \in Int
    BY InForceIsInt
  <2> QED BY <2>1 DEF Powers
<1> QED BY <1>1, CounterExists DEF CountsList

(* A counter of a longer time counts a shorter one, too.                    *)
LEMMA CountsShorter ==
  ASSUME NEW L, Metered(L), L # <<>>, NEW lo \in Int, NEW hi \in Int, NEW P,
         CountsList(P, L, lo, hi), NEW a \in lo..hi, NEW b \in lo..hi, a <= b
  PROVE  Flow(L, a, b) = P[b] - P[a]
<1> DEFINE Q == [t \in a..b |-> P[t]]
<1>p. P \in [lo..hi -> Int] /\ \A t \in lo..hi-1 : P[t+1] = P[t] + Powers(L, lo, hi)[t]
  BY DEF CountsList, Counts
<1>1. \A t \in a..b-1 : InForce(L, t) \in Int
  BY InForceIsInt
<1>2. Powers(L, a, b) \in [a..b-1 -> Int]
  BY <1>1 DEF Powers
<1>3. Q \in [a..b -> Int]
  <2> SUFFICES ASSUME NEW t \in a..b PROVE Q[t] \in Int
    OBVIOUS
  <2>1. t \in lo..hi
    OBVIOUS
  <2> QED BY <2>1, <1>p
<1>4. ASSUME NEW t \in a..b-1 PROVE Q[t+1] = Q[t] + Powers(L, a, b)[t]
  <2>1. t \in lo..hi-1 /\ t \in a..b /\ t+1 \in a..b
    OBVIOUS
  <2>2. Powers(L, lo, hi)[t] = InForce(L, t) /\ Powers(L, a, b)[t] = InForce(L, t)
    BY <2>1 DEF Powers
  <2>3. Q[t+1] = P[t+1] /\ Q[t] = P[t]
    BY <2>1
  <2> QED BY <2>1, <2>2, <2>3, <1>p
<1>5. Q[a] = P[a] /\ Q[b] = P[b]
  OBVIOUS
<1> HIDE DEF Q
<1>6. Counts(Q, Powers(L, a, b), a, b)
  BY <1>3, <1>4 DEF Counts
<1>7. Flow(L, a, b) = Q[b] - Q[a]
  BY <1>2, <1>6, FlowIsCounted
<1> QED BY <1>5, <1>7

LEMMA ListOverStretch ==
  ASSUME NEW L, NEW lo \in Int, NEW hi \in Int, NEW P, CountsList(P, L, lo, hi),
         NEW u \in lo..hi, NEW w \in lo..hi, u <= w, NEW v \in Int,
         \A t \in u..w-1 : InForce(L, t) = v
  PROVE  P[w] - P[u] = v * (w - u) /\ P[w] \in Int /\ P[u] \in Int
<1>1. Counts(P, Powers(L, lo, hi), lo, hi)
  BY DEF CountsList
<1>2. \A t \in u..w-1 : Powers(L, lo, hi)[t] = v
  <2> TAKE t \in u..w-1
  <2>1. t \in lo..hi-1
    OBVIOUS
  <2> QED BY <2>1 DEF Powers
<1>3. P[w] \in Int /\ P[u] \in Int
  BY <1>1 DEF Counts
<1>4. P[w] - P[u] = v * (w - u)
  BY <1>1, <1>2, CounterOverStretch
<1> QED BY <1>3, <1>4

(* What flows between a tick and an entry beside it.                        *)
LEMMA FlowAtEnd ==
  ASSUME NEW L, Metered(L), NEW lo \in Int, NEW hi \in Int, NEW P,
         CountsList(P, L, lo, hi), NEW t \in lo..hi,
         NEW k \in 1..Len(L), L[k].ts \in lo..hi, Beside(L, k, t)
  PROVE  InForce(L, t) * (L[k].ts - t) = P[L[k].ts] - P[t]
<1>t. /\ Len(L) \in Nat /\ Len(L) > 0 /\ L # <<>> /\ t \in Int
      /\ \A j \in 1..Len(L) : L[j].ts \in Int /\ L[j].value \in Int
      /\ \A i, j \in 1..Len(L) : i < j => L[i].ts < L[j].ts
  BY EmptySeq DEF Metered, StrictlySorted
<1>e. L[k].ts = t => InForce(L, t) * (L[k].ts - t) = P[L[k].ts] - P[t]
  <2> HAVE L[k].ts = t
  <2>1. InForce(L, t) \in Int
    BY <1>t, InForceIsInt
  <2>2. P[t] \in Int
    BY DEF CountsList, Counts
  <2>3. L[k].ts - t = 0 /\ InForce(L, t) * 0 = 0
    BY <2>1, <1>t
  <2> QED BY <2>2, <2>3
<1>1. CASE L[k].ts < t /\ (k < Len(L) => t < L[k+1].ts)
  <2> DEFINE v == L[k].value
  <2>0. L[k].ts \in Int /\ v \in Int
    BY <1>t
  <2>1. \A s \in L[k].ts..t : InForce(L, s) = v
    <3> TAKE s \in L[k].ts..t
    <3>1. s \in Int /\ L[k].ts <= s /\ s <= t
      BY <1>t, <2>0
    <3>2. k < Len(L) => s < L[k+1].ts
      <4> HAVE k < Len(L)
      <4>1. k+1 \in 1..Len(L)
        BY <1>t
      <4>2. L[k+1].ts \in Int /\ t < L[k+1].ts
        BY <4>1, <1>1, <1>t
      <4> QED BY <3>1, <4>2, <1>t
    <3> QED BY <3>1, <3>2, InForceAfter
  <2>2. \A s \in L[k].ts..t-1 : s \in L[k].ts..t
    BY <2>0, <1>t
  <2>3. t \in L[k].ts..t /\ L[k].ts <= t
    BY <2>0, <1>t, <1>1
  <2>4. InForce(L, t) = v
    BY <2>1, <2>3
  <2> HIDE DEF v
  <2>5. P[t] - P[L[k].ts] = v * (t - L[k].ts) /\ P[t] \in Int /\ P[L[k].ts] \in Int
    BY <2>0, <2>1, <2>2, <2>3, ListOverStretch
  <2>6. v * (L[k].ts - t) = -(v * (t - L[k].ts)) /\ v * (t - L[k].ts) \in Int
    BY <2>0, <1>t
  <2> QED BY <2>4, <2>5, <2>6
<1>2. CASE t < L[k].ts /\ (k > 1 => L[k-1].ts <= t)
  <2> DEFINE v == IF k > 1 THEN L[k-1].value ELSE L[1].value
  <2>0. L[k].ts \in Int /\ v \in Int
    <3>1. 1 \in 1..Len(L) /\ (k > 1 => k-1 \in 1..Len(L))
      BY <1>t
    <3> QED BY <3>1, <1>t
  <2>1. \A s \in t..L[k].ts-1 : InForce(L, s) = v
    <3> TAKE s \in t..L[k].ts-1
    <3>1. s \in Int /\ t <= s /\ s < L[k].ts
      BY <1>t, <2>0
    <3>2. CASE k > 1
      <4>1. k-1 \in 1..Len(L) /\ (k-1)+1 = k
        BY <1>t, <3>2
      <4>2. L[k-1].ts <= s
        BY <1>2, <1>t, <3>1, <3>2, <4>1
      <4>3. InForce(L, s) = L[k-1].value
        BY <3>1, <4>1, <4>2, InForceAfter
      <4> QED BY <3>2, <4>3
    <3>3. CASE ~(k > 1)
      <4>1. k = 1
        BY <1>t, <3>3
      <4>2. s < L[1].ts
        BY <3>1, <4>1
      <4>3. InForce(L, s) = L[1].value
        BY <3>1, <4>2, <1>t, InForceFirst
      <4> QED BY <3>3, <4>3
    <3> QED BY <3>2, <3>3
  <2>2. t \in t..L[k].ts-1 /\ t <= L[k].ts
    BY <2>0, <1>t, <1>2
  <2>3. InForce(L, t) = v
    BY <2>1, <2>2
  <2> HIDE DEF v
  <2>4. P[L[k].ts] - P[t] = v * (L[k].ts - t)
    BY <2>0, <2>1, <2>2, ListOverStretch
  <2> QED BY <2>3, <2>4
<1>3. L[k].ts \in Int
  BY <1>t
<1> QED BY <1>t, <1>3, <1>e, <1>1, <1>2 DEF Beside

(* What integrate adds up from entry to entry is what flows between them.   *)
LEMMA GapsAre ==
  ASSUME NEW L, Metered(L), NEW lo \in Int, NEW hi \in Int, NEW P,
         CountsList(P, L, lo, hi), \A k \in 1..Len(L) : L[k].ts \in lo..hi,
         NEW i \in 0..Len(L)-1, NEW j \in 0..Len(L)-1, i <= j
  PROVE  WholeGaps(L, i, j) = P[L[j+1].ts] - P[L[i+1].ts]
<1> DEFINE S == i..j-1
           f == [n \in S |-> L[n+1].value * (L[n+2].ts - L[n+1].ts)]
           Q == [n \in i..j |-> P[L[n+1].ts]]
           Body(g) == [s \in SUBSET S |->
                         IF s = {} THEN 0
                         ELSE LET x == CHOOSE x \in s : TRUE
                              IN  L[x+1].value * (L[x+2].ts - L[x+1].ts) + g[s \ {x}]]
           iter == CHOOSE g : g = Body(g)
<1>t. /\ Len(L) \in Nat /\ i \in Int /\ j \in Int
      /\ \A k \in 1..Len(L) : L[k].ts \in Int /\ L[k].value \in Int
      /\ \A k, m \in 1..Len(L) : k < m => L[k].ts < L[m].ts
  BY DEF Metered, StrictlySorted
<1>0. \A n \in i..j : n+1 \in 1..Len(L)
  BY <1>t
<1>n. \A n \in i..j-1 : n+1 \in 1..Len(L) /\ n+2 \in 1..Len(L) /\ n \in i..j /\ n+1 \in i..j
                        /\ (n+1)+1 = n+2 /\ n+1 < n+2
  BY <1>t
<1>1. WholeGaps(L, i, j) = iter[S]
  BY DEF WholeGaps, MapThenSumSet, MapThenFoldSet
<1>f. f \in [S -> Int]
  <2> SUFFICES ASSUME NEW n \in S PROVE L[n+1].value * (L[n+2].ts - L[n+1].ts) \in Int
    OBVIOUS
  <2>1. L[n+1].value \in Int /\ L[n+2].ts \in Int /\ L[n+1].ts \in Int
    BY <1>n, <1>t
  <2> QED BY <2>1
<1>2. \A g : Folding(g, f, S) <=> g = Body(g)
  <2> TAKE g
  <2>1. \A s \in SUBSET S : s # {} =>
          f[Anyone(s)] = L[Anyone(s)+1].value * (L[Anyone(s)+2].ts - L[Anyone(s)+1].ts)
    <3> TAKE s \in SUBSET S
    <3> HAVE s # {}
    <3>1. Anyone(s) \in S
      BY DEF Anyone
    <3> HIDE DEF S
    <3> QED BY <3>1
  <2> HIDE DEF f
  <2>2. Body(g) = [s \in SUBSET S |->
                     IF s = {} THEN 0 ELSE f[Anyone(s)] + g[s \ {Anyone(s)}]]
    BY <2>1 DEF Anyone
  <2> QED BY <2>2 DEF Folding
<1>3. \E g : Folding(g, f, S)
  <2>1. IsFiniteSet(S)
    BY FS_Interval
  <2> HIDE DEF S, f
  <2> QED BY <1>f, <2>1, FoldingExists
<1>4. iter = Body(iter)
  <2> HIDE DEF Body
  <2> QED BY <1>2, <1>3
<1>5. Folding(iter, f, S)
  <2> HIDE DEF iter, Body, f
  <2> QED BY <1>2, <1>4
<1>6. Q \in [i..j -> Int]
  <2> SUFFICES ASSUME NEW n \in i..j PROVE P[L[n+1].ts] \in Int
    OBVIOUS
  <2>1. L[n+1].ts \in lo..hi
    BY <1>0
  <2>2. P \in [lo..hi -> Int]
    BY DEF CountsList, Counts
  <2> QED BY <2>1, <2>2
<1>7. ASSUME NEW n \in i..j-1 PROVE Q[n+1] = Q[n] + f[n]
  <2> DEFINE u == L[n+1].ts
             w == L[n+2].ts
             v == L[n+1].value
  <2>1. n+1 \in 1..Len(L) /\ n+2 \in 1..Len(L) /\ n \in i..j /\ n+1 \in i..j /\ (n+1)+1 = n+2
    BY <1>n
  <2>2. u \in lo..hi /\ w \in lo..hi /\ u < w /\ u \in Int /\ w \in Int /\ v \in Int
    BY <2>1, <1>n, <1>t
  <2>3. \A t \in u..w-1 : InForce(L, t) = v
    <3> TAKE t \in u..w-1
    <3>1. t \in Int /\ L[n+1].ts <= t /\ t < L[(n+1)+1].ts
      BY <2>1, <2>2
    <3> QED BY <2>1, <3>1, InForceAfter
  <2>4. Q[n+1] = P[w] /\ Q[n] = P[u] /\ f[n] = v * (w - u)
    BY <2>1
  <2> HIDE DEF u, w, v, Q, f
  <2>5. P[w] - P[u] = v * (w - u) /\ P[w] \in Int /\ P[u] \in Int
    BY <2>2, <2>3, ListOverStretch
  <2>6. v * (w - u) \in Int
    BY <2>2
  <2> QED BY <2>4, <2>5, <2>6
<1>8. i \in i..j /\ j \in i..j
  BY <1>t
<1>9. Q[i] = P[L[i+1].ts] /\ Q[j] = P[L[j+1].ts]
  BY <1>8
<1> HIDE DEF iter, Body, f, Q
<1>10. iter[i..j-1] = Q[j] - Q[i]
  BY <1>t, <1>f, <1>5, <1>6, <1>7, FoldingTelescopes
<1> QED BY <1>1, <1>9, <1>10

(* get_value with selection 'pre' is the power in force.                    *)
LEMMA GetValueIsInForce ==
  ASSUME NEW L, Metered(L), L # <<>>, NEW t \in Int,
         Divides(L, GetIndex(L, t, InsertIndex), t)
  PROVE  GetValue(L, t, "pre") = Scale * InForce(L, t)
<1> DEFINE i == GetIndex(L, t, InsertIndex)
<1>1. GetValue(L, t, "pre") = IF i >= Len(L)     THEN Scale * L[Len(L)].value
      ELSE IF i <= 0          THEN Scale * L[1].value
      ELSE IF L[i+1].ts = t  THEN Scale * L[i+1].value
      ELSE Scale * L[i].value
  BY DEF GetValue, Between
<1> HIDE DEF i
<1>2. InForce(L, t) = IF i >= Len(L) THEN L[Len(L)].value
                      ELSE IF i <= 0 THEN L[1].value
                      ELSE IF L[i+1].ts = t THEN L[i+1].value ELSE L[i].value
  BY InForceIs DEF i
<1> QED BY <1>1, <1>2, Zenon

(* Between any two ticks flows what integrate adds up: its ends are beside  *)
(* the two entries between which it takes whole gaps.                       *)
FirstTaken(L, a) == GetIndex(L, a, ReadIndex)
LastTaken(L, a, b) == LastFull(L, FirstTaken(L, a), GetIndex(L, b, ReadIndex), b)

LEMMA GapsAndEnds ==
  ASSUME NEW S, Timed(S), NEW L \in Seq(S), Metered(L), L # <<>>,
         NEW a \in Int, NEW b \in Int, a <= b
  PROVE  /\ WholeGaps(L, FirstTaken(L, a), LastTaken(L, a, b))
             + InForce(L, a) * (L[FirstTaken(L, a)+1].ts - a)
             + InForce(L, b) * (b - L[LastTaken(L, a, b)+1].ts) = Flow(L, a, b)
         /\ FirstTaken(L, a) \in 0..Len(L)-1 /\ LastTaken(L, a, b) \in 0..Len(L)-1
         /\ WholeGaps(L, FirstTaken(L, a), LastTaken(L, a, b)) \in Int
         /\ InForce(L, a) \in Int /\ InForce(L, b) \in Int
<1> DEFINE n == Len(L)
           ia == GetIndex(L, a, InsertIndex)
           ib == GetIndex(L, b, InsertIndex)
           ka == FirstTaken(L, a)
           kb == GetIndex(L, b, ReadIndex)
           kt == LastTaken(L, a, b)
<1>t. /\ n \in Nat /\ n > 0
      /\ \A j \in 1..n : L[j].ts \in Int /\ L[j].value \in Int
      /\ \A j, k \in 1..n : j < k => L[j].ts < L[k].ts
  BY DEF Metered, StrictlySorted
<1>d. /\ Divides(L, ia, a) /\ Divides(L, ib, b)
      /\ ka = (IF ia < n THEN ia ELSE n - 1)
      /\ kb = (IF ib < n THEN ib ELSE n - 1)
  BY GetIndexDivides DEF Metered, FirstTaken
<1>k. kt = IF L[kb+1].ts > b THEN IF ka > kb - 1 THEN ka ELSE kb - 1 ELSE kb
  BY DEF LastFull, LastTaken
<1> HIDE DEF ia, ib, ka, kb, kt
<1>i. /\ ia \in 0..n /\ ib \in 0..n
      /\ \A j \in 1..ia : L[j].ts < a
      /\ \A j \in ia+1..n : a <= L[j].ts
      /\ \A j \in 1..ib : L[j].ts < b
      /\ \A j \in ib+1..n : b <= L[j].ts
  BY <1>d DEF Divides
<1>le. ia <= ib
  <2> SUFFICES ASSUME ib < ia PROVE FALSE
    BY <1>i
  <2>1. ia \in 1..ia /\ ia \in ib+1..n /\ ia \in 1..n
    BY <1>i, <1>t
  <2> QED BY <2>1, <1>i, <1>t
<1>ka. ka \in 0..n-1 /\ kb \in 0..n-1 /\ ka <= kb
  BY <1>d, <1>i, <1>le, <1>t
<1>kt. kt \in 0..n-1 /\ ka <= kt
  BY <1>k, <1>ka, <1>t
<1>a. Beside(L, ka+1, a)
  <2>1. ka+1 \in 1..n
    BY <1>ka
  <2>2. CASE ia < n
    <3>1. ka = ia /\ ka+1 \in ia+1..n /\ a <= L[ka+1].ts
      BY <2>2, <1>d, <1>i, <1>t
    <3>2. ka+1 > 1 => L[(ka+1)-1].ts <= a
      <4> HAVE ka+1 > 1
      <4>1. (ka+1)-1 \in 1..ia /\ (ka+1)-1 \in 1..n
        BY <3>1, <1>i, <1>t, <1>ka
      <4> QED BY <4>1, <1>i, <1>t
    <3> QED BY <3>1, <3>2 DEF Beside
  <2>3. CASE ~(ia < n)
    <3>1. ka+1 = n /\ ia = n /\ n \in 1..ia /\ n \in 1..n
      BY <2>3, <1>d, <1>i, <1>t
    <3>2. L[n].ts <= a
      BY <3>1, <1>i, <1>t
    <3> QED BY <3>1, <3>2, <1>t DEF Beside
  <2> QED BY <2>2, <2>3
<1>b. Beside(L, kt+1, b)
  <2>0. kb+1 \in 1..n
    BY <1>ka
  <2>1. CASE ~(L[kb+1].ts > b)
    <3>1. kt = kb /\ L[kb+1].ts <= b
      BY <2>0, <2>1, <1>k, <1>t
    <3>2. kb+1 < n => b < L[(kb+1)+1].ts
      <4> HAVE kb+1 < n
      <4>1. kb = ib /\ (kb+1)+1 \in 1..n /\ kb+1 \in ib+1..n
        BY <1>d, <1>i, <1>t
      <4>2. b <= L[kb+1].ts /\ L[kb+1].ts < L[(kb+1)+1].ts
        BY <2>0, <4>1, <1>i, <1>t
      <4>3. L[kb+1].ts \in Int /\ L[(kb+1)+1].ts \in Int
        BY <2>0, <4>1, <1>t
      <4> QED BY <4>2, <4>3
    <3> QED BY <3>1, <3>2 DEF Beside
  <2>2. CASE L[kb+1].ts > b
    <3>1. kb = ib /\ ib < n
      <4> SUFFICES ASSUME ~(ib < n) PROVE FALSE
        BY <1>d
      <4>1. kb+1 = n /\ n \in 1..ib
        BY <1>d, <1>i, <1>t
      <4>2. L[kb+1].ts < b /\ L[kb+1].ts \in Int
        BY <2>0, <4>1, <1>i, <1>t
      <4> QED BY <4>2, <2>2
    <3>2. CASE ka > kb - 1
      <4>1. kt = ka /\ ka = kb
        BY <2>2, <3>2, <1>k, <1>ka
      <4>2. b <= L[kt+1].ts
        BY <2>0, <2>2, <4>1, <1>t
      <4>3. kt+1 > 1 => L[(kt+1)-1].ts <= b
        <5> HAVE kt+1 > 1
        <5>1. (kt+1)-1 \in 1..ib /\ (kt+1)-1 \in 1..n
          BY <3>1, <4>1, <1>i, <1>t, <1>ka
        <5> QED BY <5>1, <1>i, <1>t
      <4> QED BY <4>2, <4>3 DEF Beside
    <3>3. CASE ~(ka > kb - 1)
      <4>1. kt = kb - 1 /\ kt+1 = ib /\ ib \in 1..ib /\ ib \in 1..n
        BY <2>2, <3>1, <3>3, <1>k, <1>ka, <1>i, <1>t
      <4>2. L[kt+1].ts <= b
        BY <4>1, <1>i, <1>t
      <4>3. b < L[(kt+1)+1].ts
        BY <2>0, <2>2, <4>1, <3>1, <1>t
      <4> QED BY <4>2, <4>3 DEF Beside
    <3> QED BY <3>2, <3>3
  <2> QED BY <2>1, <2>2
<1> DEFINE lo == IF a <= L[1].ts THEN a ELSE L[1].ts
           hi == IF b <= L[n].ts THEN L[n].ts ELSE b
<1>lo. L[1].ts \in Int /\ L[n].ts \in Int /\ 1 \in 1..n /\ n \in 1..n
  BY <1>t
<1>r. /\ lo \in Int /\ hi \in Int /\ lo <= a /\ lo <= L[1].ts /\ b <= hi /\ L[n].ts <= hi
  BY <1>lo
<1> HIDE DEF lo, hi
<1>e. lo <= hi /\ a \in lo..hi /\ b \in lo..hi
  BY <1>r
<1>all. \A k \in 1..n : L[k].ts \in lo..hi
  <2> TAKE k \in 1..n
  <2>1. L[k].ts \in Int /\ L[1].ts <= L[k].ts /\ L[k].ts <= L[n].ts
    <3>1. k = 1 \/ 1 < k
      BY <1>t
    <3>2. k = n \/ k < n
      BY <1>t
    <3> QED BY <3>1, <3>2, <1>t, <1>lo
  <2> QED BY <2>1, <1>r, <1>lo
<1>P. PICK P : CountsList(P, L, lo, hi)
  BY <1>r, <1>e, CountsListExists
<1> DEFINE ta == L[ka+1].ts
           tb == L[kt+1].ts
<1>1. WholeGaps(L, ka, kt) = P[tb] - P[ta]
  BY <1>P, <1>r, <1>all, <1>ka, <1>kt, GapsAre
<1>2. ka+1 \in 1..n /\ kt+1 \in 1..n
  BY <1>ka, <1>kt
<1>3. ta \in lo..hi /\ tb \in lo..hi /\ ta \in Int /\ tb \in Int
  BY <1>2, <1>all, <1>t
<1>4. InForce(L, a) * (ta - a) = P[ta] - P[a]
  BY <1>P, <1>r, <1>e, <1>2, <1>3, <1>a, FlowAtEnd
<1>5. InForce(L, b) * (tb - b) = P[tb] - P[b]
  BY <1>P, <1>r, <1>e, <1>2, <1>3, <1>b, FlowAtEnd
<1>6. Flow(L, a, b) = P[b] - P[a]
  BY <1>P, <1>r, <1>e, CountsShorter
<1>7. P[a] \in Int /\ P[b] \in Int /\ P[ta] \in Int /\ P[tb] \in Int
  BY <1>P, <1>e, <1>3 DEF CountsList, Counts
<1>8. InForce(L, a) \in Int /\ InForce(L, b) \in Int
  BY InForceIsInt
<1> HIDE DEF ta, tb
<1>9. InForce(L, b) * (b - tb) = -(InForce(L, b) * (tb - b))
  BY <1>8, <1>3
<1>10. WholeGaps(L, ka, kt) + InForce(L, a) * (ta - a) + InForce(L, b) * (b - tb)
         = Flow(L, a, b)
  BY <1>1, <1>4, <1>5, <1>6, <1>7, <1>9
<1>11. WholeGaps(L, ka, kt) \in Int
  BY <1>1, <1>7
<1> QED BY <1>8, <1>10, <1>11, <1>ka, <1>kt DEF ta, tb, ka, kt

(* integrate of power is what flows.                                        *)
LEMMA HoldIntegralIs ==
  ASSUME NEW S, Timed(S), NEW L \in Seq(S), Metered(L), L # <<>>, Scale \in Int,
         NEW a \in Int, NEW b \in Int, a <= b
  PROVE  HoldIntegral(L, a, b) = Scale * Flow(L, a, b)
<1> DEFINE ka == FirstTaken(L, a)
           kt == LastTaken(L, a, b)
           u == L[ka+1].ts - a
           w == b - L[kt+1].ts
<1>d. Divides(L, GetIndex(L, a, InsertIndex), a) /\ Divides(L, GetIndex(L, b, InsertIndex), b)
  BY GetIndexDivides DEF Metered
<1>v. /\ GetValue(L, a, "pre") = Scale * InForce(L, a)
      /\ GetValue(L, b, "pre") = Scale * InForce(L, b)
  BY <1>d, GetValueIsInForce
<1>h. HoldIntegral(L, a, b) = Scale * WholeGaps(L, ka, kt)
        + (Scale * InForce(L, a)) * u + (Scale * InForce(L, b)) * w
  BY <1>v DEF HoldIntegral, FirstTaken, LastTaken
<1> HIDE DEF ka, kt
<1>1. /\ WholeGaps(L, ka, kt) + InForce(L, a) * u + InForce(L, b) * w = Flow(L, a, b)
      /\ ka \in 0..Len(L)-1 /\ kt \in 0..Len(L)-1
      /\ WholeGaps(L, ka, kt) \in Int /\ InForce(L, a) \in Int /\ InForce(L, b) \in Int
  BY GapsAndEnds DEF ka, kt
<1>2. u \in Int /\ w \in Int
  <2>1. ka+1 \in 1..Len(L) /\ kt+1 \in 1..Len(L)
    BY <1>1 DEF Metered
  <2> QED BY <2>1 DEF Metered
<1> HIDE DEF u, w
<1>3. \A s, x, y, z, p, q \in Int : s * x + (s * y) * p + (s * z) * q = s * (x + y * p + z * q)
  OBVIOUS
<1>4. HoldIntegral(L, a, b)
        = Scale * (WholeGaps(L, ka, kt) + InForce(L, a) * u + InForce(L, b) * w)
  BY <1>h, <1>1, <1>2, <1>3
<1> QED BY <1>1, <1>4

(* integrate's loop, turn by turn.                                          *)
LEMMA GapsStep ==
  ASSUME NEW L, Metered(L), NEW i \in 0..Len(L)-1, NEW j \in 0..Len(L)-1, i <= j
  PROVE  /\ i = j => WholeGaps(L, i, j) = 0
         /\ j+1 < Len(L) => WholeGaps(L, i, j+1)
                             = WholeGaps(L, i, j) + L[j+1].value * (L[j+2].ts - L[j+1].ts)
<1> DEFINE n == Len(L)
<1>t. /\ n \in Nat /\ n > 0 /\ L # <<>> /\ 1 \in 1..n /\ n \in 1..n
      /\ \A k \in 1..n : L[k].ts \in Int /\ L[k].value \in Int
      /\ \A k, m \in 1..n : k < m => L[k].ts < L[m].ts
  BY EmptySeq DEF Metered, StrictlySorted
<1> DEFINE lo == L[1].ts
           hi == L[n].ts
<1>r. lo \in Int /\ hi \in Int
  BY <1>t
<1>all. \A k \in 1..n : L[k].ts \in lo..hi
  <2> TAKE k \in 1..n
  <2>1. k = 1 \/ 1 < k
    BY <1>t
  <2>2. k = n \/ k < n
    BY <1>t
  <2> QED BY <2>1, <2>2, <1>t
<1>le. lo <= hi
  BY <1>all, <1>t
<1>P. PICK P : CountsList(P, L, lo, hi)
  BY <1>r, <1>le, <1>t, CountsListExists
<1>1. ASSUME NEW k \in 0..n-1, i <= k
      PROVE  /\ WholeGaps(L, i, k) = P[L[k+1].ts] - P[L[i+1].ts]
             /\ P[L[k+1].ts] \in Int /\ P[L[i+1].ts] \in Int
  <2>1. k+1 \in 1..n /\ i+1 \in 1..n
    BY <1>t
  <2>2. L[k+1].ts \in lo..hi /\ L[i+1].ts \in lo..hi
    BY <2>1, <1>all
  <2> HIDE DEF lo, hi
  <2>3. P[L[k+1].ts] \in Int /\ P[L[i+1].ts] \in Int
    BY <1>P, <2>2 DEF CountsList, Counts
  <2>4. WholeGaps(L, i, k) = P[L[k+1].ts] - P[L[i+1].ts]
    BY <1>P, <1>r, <1>all, <1>1, GapsAre
  <2> QED BY <2>3, <2>4
<1>2. i = j => WholeGaps(L, i, j) = 0
  BY <1>1
<1>3. ASSUME j+1 < n
      PROVE  WholeGaps(L, i, j+1)
               = WholeGaps(L, i, j) + L[j+1].value * (L[j+2].ts - L[j+1].ts)
  <2> DEFINE u == L[j+1].ts
             w == L[j+2].ts
             v == L[j+1].value
  <2>1. j+1 \in 1..n /\ j+2 \in 1..n /\ (j+1)+1 = j+2 /\ j+1 < j+2
        /\ j+1 \in 0..n-1 /\ i <= j+1
    BY <1>3, <1>t
  <2>2. u \in lo..hi /\ w \in lo..hi /\ u < w /\ u \in Int /\ w \in Int /\ v \in Int
    BY <2>1, <1>all, <1>t
  <2>3. \A t \in u..w-1 : InForce(L, t) = v
    <3> TAKE t \in u..w-1
    <3>1. t \in Int /\ L[j+1].ts <= t /\ t < L[(j+1)+1].ts
      BY <2>1, <2>2
    <3> QED BY <2>1, <3>1, InForceAfter
  <2>4. /\ WholeGaps(L, i, j) = P[u] - P[L[i+1].ts] /\ P[L[i+1].ts] \in Int
        /\ WholeGaps(L, i, j+1) = P[w] - P[L[i+1].ts]
    BY <1>1, <2>1
  <2> HIDE DEF u, w, v, lo, hi
  <2>5. P[w] - P[u] = v * (w - u) /\ P[w] \in Int /\ P[u] \in Int
    BY <1>P, <1>r, <2>2, <2>3, ListOverStretch
  <2>6. WholeGaps(L, i, j+1) = WholeGaps(L, i, j) + v * (w - u)
    BY <2>4, <2>5
  <2> QED BY <2>6 DEF u, w, v
<1> QED BY <1>2, <1>3

(* Division by a positive gap rounds down and keeps the order.              *)
LEMMA DivisionIs ==
  ASSUME NEW x \in Int, NEW d \in Int, d > 0
  PROVE  x \div d \in Int /\ d * (x \div d) <= x /\ x < d * (x \div d) + d
<1>1. x = d * (x \div d) + (x % d) /\ x % d \in 0..d-1 /\ x \div d \in Int
  BY SMT
<1>2. d * (x \div d) \in Int
  BY <1>1
<1> QED BY <1>1, <1>2

LEMMA DivisionKeepsOrder ==
  ASSUME NEW x \in Int, NEW y \in Int, x <= y, NEW d \in Int, d > 0
  PROVE  x \div d <= y \div d
<1> DEFINE p == x \div d
           q == y \div d
<1>1. p \in Int /\ q \in Int /\ d * p <= x /\ y < d * q + d
  BY DivisionIs
<1> HIDE DEF p, q
<1>2. d * p < d * (q+1)
  BY <1>1
<1>3. p < q+1
  <2> SUFFICES ASSUME q+1 <= p PROVE FALSE
    BY <1>1
  <2>1. p - (q+1) \in Nat
    BY <1>1
  <2>2. d * (p - (q+1)) \in Nat
    BY <2>1
  <2>3. d * p = d * (q+1) + d * (p - (q+1))
    BY <1>1
  <2> QED BY <1>1, <1>2, <2>2, <2>3
<1>4. p <= q
  BY <1>1, <1>3
<1> QED BY <1>4 DEF p, q

LEMMA DivisionOfMultiple ==
  ASSUME NEW k \in Int, NEW d \in Int, d > 0
  PROVE  (k * d) \div d = k
<1> DEFINE q == (k * d) \div d
<1>1. q \in Int /\ d * q <= k * d /\ k * d < d * q + d
  BY DivisionIs
<1> HIDE DEF q
<1>2. ~(q > k)
  <2> SUFFICES ASSUME q > k PROVE FALSE
    OBVIOUS
  <2>1. q - k \in Nat \ {0}
    BY <1>1
  <2>2. d * (q - k) > 0
    BY <2>1
  <2>3. d * q = k * d + d * (q - k)
    BY <1>1
  <2> QED BY <1>1, <2>2, <2>3
<1>3. ~(q < k)
  <2> SUFFICES ASSUME q < k PROVE FALSE
    OBVIOUS
  <2>1. k - q - 1 \in Nat
    BY <1>1
  <2>2. d * (k - q - 1) >= 0
    BY <2>1
  <2>3. k * d = d * q + d + d * (k - q - 1)
    BY <1>1
  <2> QED BY <1>1, <2>2, <2>3
<1>4. q = k
  BY <1>1, <1>2, <1>3
<1> QED BY <1>4 DEF q

(* What get_value with selection 'inter' interpolates lies between the two  *)
(* readings, and rises from tick to tick when they do.                      *)
Interpolated(pre, post, ts) ==
  Scale * pre.value + (Scale * (post.value - pre.value) * (ts - pre.ts)) \div (post.ts - pre.ts)

LEMMA InterpolatedRises ==
  ASSUME NEW pre, NEW post, pre.value \in Int, post.value \in Int, pre.value <= post.value,
         pre.ts \in Int, post.ts \in Int, Scale \in Nat,
         NEW s \in Int, NEW t \in Int, pre.ts <= s, s <= t, t <= post.ts, pre.ts < post.ts
  PROVE  /\ Interpolated(pre, post, s) \in Int
         /\ Interpolated(pre, post, s) <= Interpolated(pre, post, t)
         /\ Scale * pre.value <= Interpolated(pre, post, s)
         /\ Interpolated(pre, post, s) <= Scale * post.value
<1> DEFINE d == post.ts - pre.ts
           k == Scale * (post.value - pre.value)
           i == s - pre.ts
           j == t - pre.ts
<1>1. /\ d \in Int /\ d > 0 /\ k \in Nat /\ i \in Nat /\ j \in Nat /\ i <= j /\ j <= d
  <2>1. post.value - pre.value \in Nat
    OBVIOUS
  <2>2. k \in Nat
    BY <2>1
  <2> QED BY <2>2
<1>2. /\ Interpolated(pre, post, s) = Scale * pre.value + (k * i) \div d
      /\ Interpolated(pre, post, t) = Scale * pre.value + (k * j) \div d
  BY DEF Interpolated
<1>3. Scale * post.value = Scale * pre.value + k /\ Scale * pre.value \in Int
  OBVIOUS
<1> HIDE DEF d, k, i, j
<1>4. 0 <= k * i /\ k * i <= k * j /\ k * i <= k * d
  <2>1. j - i \in Nat /\ d - i \in Nat
    BY <1>1
  <2>2. k * (j - i) \in Nat /\ k * (d - i) \in Nat /\ k * i \in Nat
    BY <1>1, <2>1
  <2>3. k * j = k * i + k * (j - i) /\ k * d = k * i + k * (d - i)
    BY <1>1
  <2> QED BY <2>2, <2>3, <1>1
<1>5. k * i \in Int /\ k * j \in Int /\ k * d \in Int /\ 0 * d = 0
  BY <1>1
<1>6. (k * i) \div d <= (k * j) \div d /\ (k * i) \div d \in Int /\ (k * j) \div d \in Int
  BY <1>1, <1>4, <1>5, DivisionKeepsOrder, DivisionIs
<1>7. (k * i) \div d <= k
  <2>1. (k * i) \div d <= (k * d) \div d
    BY <1>1, <1>4, <1>5, DivisionKeepsOrder
  <2>2. (k * d) \div d = k
    BY <1>1, DivisionOfMultiple
  <2> QED BY <2>1, <2>2
<1>8. 0 <= (k * i) \div d
  <2>1. 0 \div d <= (k * i) \div d
    BY <1>1, <1>4, <1>5, DivisionKeepsOrder
  <2>2. (0 * d) \div d = 0
    BY <1>1, DivisionOfMultiple
  <2>3. 0 \div d = 0
    BY <2>2, <1>5
  <2> QED BY <2>1, <2>3
<1> QED BY <1>1, <1>2, <1>3, <1>6, <1>7, <1>8

LEMMA CounterRises ==
  ASSUME NEW L, Metered(L), L # <<>>, Scale \in Nat,
         \A i, j \in 1..Len(L) : i < j => L[i].value <= L[j].value,
         NEW a \in Int, NEW b \in Int, a <= b,
         Divides(L, GetIndex(L, a, InsertIndex), a), Divides(L, GetIndex(L, b, InsertIndex), b)
  PROVE  GetValue(L, b, "inter") - GetValue(L, a, "inter") >= 0
<1> DEFINE n == Len(L)
           At(t) == GetIndex(L, t, InsertIndex)
           Val(t) == GetValue(L, t, "inter")
           v(k) == Scale * L[k].value
<1>t. /\ n \in Nat /\ n > 0
      /\ \A j \in 1..n : L[j].ts \in Int /\ L[j].value \in Int
      /\ \A j, k \in 1..n : j < k => L[j].ts < L[k].ts
  BY DEF Metered, StrictlySorted
<1>v. \A k \in 1..n : v(k) \in Int
  <2> TAKE k \in 1..n
  <2>1. L[k].value \in Int
    BY <1>t
  <2> QED BY <2>1
<1>m. ASSUME NEW j \in 1..n, NEW k \in 1..n, j <= k PROVE v(j) <= v(k)
  <2>1. L[j].value \in Int /\ L[k].value \in Int /\ L[j].value <= L[k].value
    <3>1. L[j].value \in Int /\ L[k].value \in Int
      BY <1>t
    <3>2. j = k \/ j < k
      BY <1>m, <1>t
    <3> QED BY <3>1, <3>2
  <2>2. L[k].value - L[j].value \in Nat
    BY <2>1
  <2>3. Scale * (L[k].value - L[j].value) \in Nat
    BY <2>2
  <2>4. v(k) = v(j) + Scale * (L[k].value - L[j].value)
    BY <2>1
  <2>5. v(j) \in Int
    BY <1>v
  <2> HIDE DEF v
  <2> QED BY <2>3, <2>4, <2>5
<1>g. \A t \in Int : Val(t) = IF At(t) >= n THEN v(n)
                    ELSE IF At(t) <= 0 THEN v(1)
                    ELSE IF L[At(t)+1].ts = t THEN v(At(t)+1)
                    ELSE Interpolated(L[At(t)], L[At(t)+1], t)
  BY DEF GetValue, Between, Interpolated
<1>d. \A t \in {a, b} :
        /\ At(t) \in 0..n
        /\ \A j \in 1..At(t) : L[j].ts < t
        /\ \A j \in At(t)+1..n : t <= L[j].ts
  BY DEF Divides
<1> HIDE DEF At, Val, v
(* between two readings *)
<1>b. ASSUME NEW t \in {a, b}, 0 < At(t), At(t) < n
      PROVE  /\ At(t) \in 1..n /\ At(t)+1 \in 1..n
             /\ L[At(t)].ts < t /\ t <= L[At(t)+1].ts
             /\ L[At(t)].ts \in Int /\ L[At(t)+1].ts \in Int
             /\ L[At(t)].value \in Int /\ L[At(t)+1].value \in Int
             /\ L[At(t)].value <= L[At(t)+1].value
  <2>1. At(t) \in 1..n /\ At(t)+1 \in 1..n /\ At(t) \in 1..At(t) /\ At(t)+1 \in At(t)+1..n
        /\ At(t) < At(t)+1
    BY <1>b, <1>d, <1>t
  <2> QED BY <2>1, <1>d, <1>t
<1>1. ASSUME NEW t \in {a, b}
      PROVE  /\ Val(t) \in Int
             /\ At(t) < n => Val(t) <= v(At(t)+1)
             /\ At(t) > 0 => v(At(t)) <= Val(t)
  <2>0. At(t) \in 0..n /\ 1 \in 1..n /\ n \in 1..n /\ t \in Int
    BY <1>d, <1>t
  <2>1. CASE At(t) >= n
    <3>1. At(t) = n /\ Val(t) = v(n)
      BY <2>0, <2>1, <1>g, <1>t
    <3> QED BY <2>0, <3>1, <1>v, <1>t
  <2>2. CASE At(t) < n /\ At(t) <= 0
    <3>1. At(t) = 0 /\ Val(t) = v(1) /\ At(t)+1 = 1
      BY <2>0, <2>2, <1>g, <1>t
    <3> QED BY <2>0, <3>1, <1>v, <1>t
  <2>3. CASE At(t) < n /\ At(t) > 0 /\ L[At(t)+1].ts = t
    <3>1. Val(t) = v(At(t)+1)
      BY <2>0, <2>3, <1>g, <1>t
    <3>2. At(t) \in 1..n /\ At(t)+1 \in 1..n /\ At(t) <= At(t)+1
      BY <2>0, <2>3, <1>t
    <3>3. v(At(t)) <= v(At(t)+1)
      BY <3>2, <1>m
    <3> QED BY <3>1, <3>2, <3>3, <1>v
  <2>4. CASE At(t) < n /\ At(t) > 0 /\ L[At(t)+1].ts # t
    <3>1. Val(t) = Interpolated(L[At(t)], L[At(t)+1], t)
      BY <2>0, <2>4, <1>g, <1>t
    <3>2. /\ Interpolated(L[At(t)], L[At(t)+1], t) \in Int
          /\ v(At(t)) <= Interpolated(L[At(t)], L[At(t)+1], t)
          /\ Interpolated(L[At(t)], L[At(t)+1], t) <= v(At(t)+1)
      <4>0. 0 < At(t) /\ At(t) < n
        BY <2>0, <2>4
      <4>1. /\ L[At(t)].ts < t /\ t <= L[At(t)+1].ts
            /\ L[At(t)].ts \in Int /\ L[At(t)+1].ts \in Int
            /\ L[At(t)].value \in Int /\ L[At(t)+1].value \in Int
            /\ L[At(t)].value <= L[At(t)+1].value
        BY <4>0, <1>b
      <4>2. L[At(t)].ts <= t /\ t <= t /\ L[At(t)].ts < L[At(t)+1].ts
        BY <2>0, <4>1
      <4> HIDE DEF n
      <4> QED BY <2>0, <4>1, <4>2, InterpolatedRises DEF v
    <3> QED BY <3>1, <3>2
  <2> QED BY <2>0, <2>1, <2>2, <2>3, <2>4, <1>t
<1>le. At(a) <= At(b)
  <2> SUFFICES ASSUME At(b) < At(a) PROVE FALSE
    BY <1>d
  <2>1. At(a) \in 1..At(a) /\ At(a) \in At(b)+1..n /\ At(a) \in 1..n
    BY <1>d, <1>t
  <2> QED BY <2>1, <1>d, <1>t
<1>i. At(a) \in 0..n /\ At(b) \in 0..n /\ Val(a) \in Int /\ Val(b) \in Int
  BY <1>d, <1>1
<1>2. CASE At(a) < At(b)
  <2>1. At(a)+1 \in 1..n /\ At(b) \in 1..n /\ At(a)+1 <= At(b) /\ At(a) < n /\ At(b) > 0
    BY <1>2, <1>i, <1>t
  <2>2. v(At(a)+1) <= v(At(b))
    BY <2>1, <1>m
  <2>3. Val(a) <= v(At(a)+1) /\ v(At(b)) <= Val(b)
    BY <2>1, <1>1
  <2>4. v(At(a)+1) \in Int /\ v(At(b)) \in Int
    BY <2>1, <1>v
  <2>5. Val(b) - Val(a) >= 0
    BY <2>2, <2>3, <2>4, <1>i
  <2> QED BY <2>5 DEF Val
<1>3. CASE At(a) = At(b)
  <2> DEFINE i == At(a)
  <2>1. CASE i >= n \/ i <= 0
    <3>1. Val(a) = Val(b)
      BY <1>3, <1>g, <1>i, <2>1
    <3>2. Val(b) - Val(a) >= 0
      BY <3>1, <1>i
    <3> QED BY <3>2 DEF Val
  <2>2. CASE 0 < i /\ i < n
    <3>1. i \in 1..n /\ i+1 \in 1..n /\ L[i].ts < a /\ b <= L[i+1].ts
          /\ L[i].ts \in Int /\ L[i+1].ts \in Int
          /\ L[i].value \in Int /\ L[i+1].value \in Int /\ L[i].value <= L[i+1].value
      BY <1>3, <1>b, <2>2
    <3>2. CASE L[i+1].ts = b
      <4>1. Val(b) = v(At(b)+1)
        BY <1>3, <1>g, <1>i, <2>2, <3>2
      <4>2. Val(a) <= v(At(b)+1)
        BY <1>1, <1>3, <2>2
      <4>3. Val(b) - Val(a) >= 0
        BY <4>1, <4>2, <1>i
      <4> QED BY <4>3 DEF Val
    <3>3. CASE L[i+1].ts # b
      <4>1. L[i+1].ts # a
        BY <3>1, <3>3
      <4>2. Val(a) = Interpolated(L[i], L[i+1], a) /\ Val(b) = Interpolated(L[i], L[i+1], b)
        BY <1>3, <1>g, <1>i, <2>2, <3>3, <4>1
      <4>3. Interpolated(L[i], L[i+1], a) <= Interpolated(L[i], L[i+1], b)
        BY <3>1, InterpolatedRises
      <4>4. Val(b) - Val(a) >= 0
        BY <4>2, <4>3, <1>i
      <4> QED BY <4>4 DEF Val
    <3> QED BY <3>2, <3>3
  <2> QED BY <2>1, <2>2, <1>i, <1>t
<1> QED BY <1>2, <1>3, <1>le, <1>i

-----------------------------------------------------------------------------
(* Of finitely many integers one is least.                                   *)
LEMMA LeastExists ==
  ASSUME NEW D, IsFiniteSet(D), D # {}, NEW v, \A x \in D : v[x] \in Int
  PROVE  \E m \in D : \A x \in D : v[m] <= v[x]
<1> DEFINE Right(s) == s # {} => \E m \in s : \A x \in s : v[m] <= v[x]
           Sizes == {Cardinality(s) : s \in {r \in SUBSET D : ~Right(r)}}
<1>c. \A s \in SUBSET D :
        /\ Cardinality(s) \in Nat
        /\ \A x \in s : Cardinality(s \ {x}) < Cardinality(s) /\ Cardinality(s \ {x}) \in Nat
  BY LessThanOne
<1>1. \A s \in SUBSET D : Right(s)
  <2> SUFFICES ASSUME NEW r \in SUBSET D, ~Right(r) PROVE FALSE
    OBVIOUS
  <2>1. Sizes \subseteq Nat /\ Sizes # {}
    BY <1>c
  <2>2. PICK n \in Sizes : \A m \in Sizes : n <= m
    BY <2>1, MinimumExists
  <2>3. PICK s \in SUBSET D : ~Right(s) /\ Cardinality(s) = n
    OBVIOUS
  <2>4. PICK y \in s : TRUE
    BY <2>3
  <2>5. s \ {y} \in SUBSET D
    OBVIOUS
  <2>6. Right(s \ {y})
    <3> SUFFICES ASSUME ~Right(s \ {y}) PROVE FALSE
      OBVIOUS
    <3>1. Cardinality(s \ {y}) \in Sizes
      BY <2>5
    <3> HIDE DEF Right, Sizes
    <3>2. n <= Cardinality(s \ {y})
      BY <2>2, <3>1
    <3> QED BY <3>2, <2>3, <1>c
  <2>7. \A x \in s : v[x] \in Int
    OBVIOUS
  <2>8. CASE s \ {y} = {}
    <3>1. \A x \in s : x = y
      BY <2>8
    <3>2. \A x \in s : v[y] <= v[x]
      BY <3>1, <2>7
    <3> QED BY <3>2, <2>3
  <2>9. CASE s \ {y} # {}
    <3>1. PICK m \in s \ {y} : \A x \in s \ {y} : v[m] <= v[x]
      BY <2>6, <2>9
    <3>2. v[m] \in Int /\ v[y] \in Int
      BY <2>7
    <3>3. CASE v[m] <= v[y]
      <4>1. \A x \in s : v[m] <= v[x]
        BY <3>1, <3>3
      <4> QED BY <4>1, <2>3
    <3>4. CASE ~(v[m] <= v[y])
      <4>1. \A x \in s : v[y] <= v[x]
        BY <3>1, <3>2, <3>4, <2>7
      <4> QED BY <4>1, <2>3
    <3> QED BY <3>3, <3>4
  <2> QED BY <2>8, <2>9
<1> QED BY <1>1

(* sorted begins with the best, if there is any.                            *)
LEMMA HeadIsBest ==
  ASSUME NEW s, IsFiniteSet(DOMAIN s), DOMAIN s \subseteq Int, DOMAIN s # {},
         \A i \in DOMAIN s : s[i].value \in Int, NEW way \in {Ascending, Descending}
  PROVE  /\ Ordered(s, way) # <<>>
         /\ \E i \in DOMAIN s : /\ Ordered(s, way)[1] = s[i]
                                /\ \A j \in DOMAIN s : way * s[i].value <= way * s[j].value
<1> DEFINE D == DOMAIN s
           v(i) == way * s[i].value
           Before(i) == {j \in D : Ahead(s, way, j, i)}
<1>w. way \in Int /\ way # 0
  BY DEF Ascending, Descending
<1>v. \A i \in D : v(i) \in Int
  <2> TAKE i \in D
  <2>1. s[i].value \in Int
    OBVIOUS
  <2> QED BY <2>1, <1>w
<1>a. \A i, j \in D : Ahead(s, way, j, i) <=> v(j) < v(i) \/ (v(j) = v(i) /\ j < i)
  <2> TAKE i, j \in D
  <2>1. s[i].value \in Int /\ s[j].value \in Int
    OBVIOUS
  <2>2. (s[j].value = s[i].value) <=> (v(j) = v(i))
    BY <2>1 DEF Ascending, Descending
  <2> HIDE DEF v
  <2>3. Ahead(s, way, j, i) <=> way * s[j].value < way * s[i].value \/ (v(j) = v(i) /\ j < i)
    BY <2>2, Zenon DEF Ahead
  <2> QED BY <2>3 DEF v
<1> HIDE DEF v
<1>f. \A i \in D : IsFiniteSet(Before(i))
  <2> TAKE i \in D
  <2>1. Before(i) \in SUBSET D
    OBVIOUS
  <2> QED BY <2>1, FS_Subset
<1>2. PICK i0 \in D : \A j \in D : v(i0) <= v(j)
  <2> DEFINE vv == [i \in D |-> v(i)]
  <2>1. \A i \in D : vv[i] \in Int
    BY <1>v
  <2>2. PICK m \in D : \A x \in D : vv[m] <= vv[x]
    <3> HIDE DEF vv
    <3> QED BY <2>1, LeastExists
  <2> QED BY <2>2
<1> DEFINE Equals == {i \in D : v(i) = v(i0)}
<1>3. IsFiniteSet(Equals) /\ Equals \subseteq Int /\ Equals # {}
  <2>1. Equals \in SUBSET D
    OBVIOUS
  <2>2. IsFiniteSet(Equals)
    BY <2>1, FS_Subset
  <2> QED BY <2>2
<1>4. PICK i1 \in Equals : \A j \in Equals : i1 <= j
  <2> DEFINE id == [i \in Equals |-> i]
  <2>1. \A i \in Equals : id[i] \in Int
    BY <1>3
  <2>2. PICK m \in Equals : \A x \in Equals : id[m] <= id[x]
    <3> HIDE DEF Equals, id
    <3> QED BY <1>3, <2>1, LeastExists
  <2>3. \A i \in Equals : id[i] = i
    OBVIOUS
  <2> HIDE DEF Equals, id
  <2> QED BY <2>2, <2>3
<1>5. Before(i1) = {}
  <2> SUFFICES ASSUME NEW j \in D, Ahead(s, way, j, i1) PROVE FALSE
    OBVIOUS
  <2>1. v(j) < v(i1) \/ (v(j) = v(i1) /\ j < i1)
    BY <1>a
  <2>2. v(i0) <= v(j) /\ v(i1) = v(i0) /\ v(j) \in Int /\ v(i0) \in Int /\ i1 \in Int /\ j \in Int
    BY <1>2, <1>v
  <2>3. v(j) = v(i0) => i1 <= j
    BY <1>4
  <2> QED BY <2>1, <2>2, <2>3
<1>6. i1 \in D /\ Cardinality(Before(i1)) = 0
  BY <1>5, FS_EmptySet
<1> DEFINE c == CHOOSE i \in D : Cardinality(Before(i)) = 0
<1>7. c \in D /\ Cardinality(Before(c)) = 0
  BY <1>6
<1>8. 1 \in 1..Cardinality(D)
  <2>1. Cardinality(D) \in Nat /\ Cardinality(D) # 0
    BY FS_CardinalityType, FS_EmptySet
  <2> QED BY <2>1
<1>9. /\ DOMAIN Ordered(s, way) = 1..Cardinality(D)
      /\ Ordered(s, way)[1] = s[CHOOSE i \in D : Cardinality(Before(i)) = 1 - 1]
  BY <1>8 DEF Ordered
<1>10. Ordered(s, way)[1] = s[c]
  <2>1. 1 - 1 = 0
    OBVIOUS
  <2> QED BY <1>9, <2>1
<1> HIDE DEF c
<1>11. Before(c) = {}
  BY <1>7, <1>f, FS_EmptySet
<1>12. \A j \in D : v(c) <= v(j)
  <2> TAKE j \in D
  <2>1. ~Ahead(s, way, j, c)
    BY <1>11
  <2>2. ~(v(j) < v(c)) /\ v(j) \in Int /\ v(c) \in Int
    BY <2>1, <1>7, <1>a, <1>v
  <2> QED BY <2>2
<1>13. Ordered(s, way) # <<>>
  <2> SUFFICES ASSUME Ordered(s, way) = <<>> PROVE FALSE
    OBVIOUS
  <2>1. DOMAIN Ordered(s, way) = {}
    OBVIOUS
  <2> QED BY <2>1, <1>8, <1>9
<1> QED BY <1>7, <1>10, <1>12, <1>13 DEF v

LEMMA NothingOrdered ==
  ASSUME NEW s, DOMAIN s = {}, NEW way
  PROVE  Ordered(s, way) = <<>>
<1>1. Cardinality(DOMAIN s) = 0
  BY FS_EmptySet
<1>2. DOMAIN Ordered(s, way) = 1..0 /\ Ordered(s, way) = [k \in 1..0 |-> Ordered(s, way)[k]]
  BY <1>1 DEF Ordered
<1>3. [k \in 1..0 |-> Ordered(s, way)[k]] \in Seq({}) /\ Len([k \in 1..0 |-> Ordered(s, way)[k]]) = 0
  OBVIOUS
<1> QED BY <1>2, <1>3, EmptySeq

(* max and min of a list.                                                   *)
LEMMA BestIs ==
  ASSUME NEW n \in Nat, NEW M, DOMAIN M = 1..n, M = <<>> <=> n = 0,
         \A i \in 1..n : M[i].value \in Int, NEW way \in {Ascending, Descending}
  PROVE  /\ n = 0 => Best(M, way) = <<>>
         /\ n > 0 => /\ Best(M, way) # <<>>
                     /\ \E i \in 1..n : /\ Best(M, way)[1] = M[i]
                                        /\ \A j \in 1..n : way * M[i].value <= way * M[j].value
<1>1. CASE n = 0
  BY <1>1 DEF Best
<1>2. CASE n > 0
  <2>1. IsFiniteSet(DOMAIN M) /\ DOMAIN M \subseteq Int /\ DOMAIN M # {}
    <3>0. 1 \in Int /\ n \in Int
      OBVIOUS
    <3>1. IsFiniteSet(1..n)
      BY <3>0, FS_Interval
    <3> QED BY <3>1, <1>2
  <2>2. PICK i \in 1..n : /\ Ordered(M, way)[1] = M[i]
                          /\ \A j \in 1..n : way * M[i].value <= way * M[j].value
    BY <2>1, HeadIsBest
  <2>3. Best(M, way) = <<Ordered(M, way)[1]>>
    BY <1>2 DEF Best
  <2>4. Best(M, way)[1] = M[i] /\ Best(M, way) # <<>>
    BY <2>2, <2>3
  <2> QED BY <2>2, <2>4, <1>2
<1> QED BY <1>1, <1>2

(* get_interval returns that stretch.                                        *)
LEMMA WindowIs ==
  ASSUME NEW S, Timed(S), NEW L \in Seq(S), StrictlySorted(L),
         NEW lo \in Int, NEW hi \in Int, lo < hi, hi > 0
  PROVE  \E a, e \in Int : Stretch(GetInterval(L, lo, hi), L, lo, hi, a, e)
<1>ts. Len(L) \in Nat /\ \A j \in 1..Len(L) : L[j] \in S /\ L[j].ts \in Int
  BY TsIsInt
<1>1. CASE L = <<>>
  <2>1. GetInterval(L, lo, hi) = <<>> /\ Len(L) = 0
    BY <1>1 DEF GetInterval
  <2>2. DOMAIN GetInterval(L, lo, hi) = 1..0 /\ Len(GetInterval(L, lo, hi)) = 0
    BY <2>1
  <2>3. Stretch(GetInterval(L, lo, hi), L, lo, hi, 0, 0)
    BY <2>1, <2>2 DEF Stretch
  <2> QED BY <2>3
<1>2. CASE L # <<>>
  <2> DEFINE a == GetIndex(L, lo, InsertIndex)
             b == GetIndex(L, hi, InsertIndex)
             P == GetInterval(L, lo, hi)
  <2>1. Divides(L, a, lo) /\ Divides(L, b, hi)
    BY GetIndexDivides
  <2>2. P = Slice(L, a, b, hi)
    <3>1. ~(hi <= 0)
      OBVIOUS
    <3> QED BY <1>2, <3>1 DEF GetInterval
  <2>3. \E e \in Int : Stretch(Slice(L, a, b, hi), L, lo, hi, a, e)
    BY <2>1, SliceRange
  <2>4. a \in Int
    BY <2>1 DEF Divides
  <2> HIDE DEF a, b
  <2> QED BY <2>2, <2>3, <2>4
<1> QED BY <1>1, <1>2

-----------------------------------------------------------------------------
(* get_max and get_min of a window: the best of the values it offers.       *)
Picks(best, V, way) ==
  IF V = {} THEN best = <<>>
  ELSE best # <<>> /\ best[1].value \in V /\ \A x \in V : way * best[1].value <= way * x

ReadingsIn(L, lo, hi) ==
  {L[k].value : k \in {i \in 1..Len(L) : lo <= L[i].ts /\ L[i].ts <= hi}}

IncreasesIn(L, lo, hi) ==
  {L[k+1].value - L[k].value : k \in {i \in 1..Len(L)-1 : lo <= L[i].ts /\ L[i+1].ts <= hi}}

LEMMA PicksBest ==
  ASSUME NEW n \in Nat, NEW M, NEW best, NEW V, NEW way,
         n = 0 => best = <<>>,
         n > 0 => /\ best # <<>>
                  /\ \E i \in 1..n : /\ best[1] = M[i]
                                     /\ \A j \in 1..n : way * M[i].value <= way * M[j].value,
         \A j \in 1..n : M[j].value \in V, \A x \in V : \E j \in 1..n : x = M[j].value
  PROVE  Picks(best, V, way)
<1>1. CASE n = 0
  <2>1. V = {}
    BY <1>1
  <2> QED BY <2>1, <1>1 DEF Picks
<1>2. CASE n > 0
  <2>1. PICK i \in 1..n : /\ best[1] = M[i]
                          /\ \A j \in 1..n : way * M[i].value <= way * M[j].value
    BY <1>2
  <2>2. best[1].value \in V
    BY <2>1
  <2>3. \A x \in V : way * best[1].value <= way * x
    <3> TAKE x \in V
    <3>1. PICK j \in 1..n : x = M[j].value
      OBVIOUS
    <3> QED BY <3>1, <2>1
  <2> QED BY <1>2, <2>2, <2>3 DEF Picks
<1> QED BY <1>1, <1>2

LEMMA MinPicks ==
  ASSUME NEW S, Timed(S), NEW L \in Seq(S), Metered(L),
         NEW lo \in Int, NEW hi \in Int, lo < hi, hi > 0
  PROVE  Picks(GetMin(L, FALSE, lo, hi), ReadingsIn(L, lo, hi), Ascending)
<1> DEFINE M == GetInterval(L, lo, hi)
           V == ReadingsIn(L, lo, hi)
<1>m. /\ Len(L) \in Nat /\ StrictlySorted(L)
      /\ \A j \in 1..Len(L) : L[j].ts \in Int /\ L[j].value \in Int
  BY DEF Metered
<1>1. PICK a, e \in Int : Stretch(M, L, lo, hi, a, e)
  BY <1>m, WindowIs
<1>2. GetMin(L, FALSE, lo, hi) = Best(M, Ascending)
  BY DEF GetMin, Measurements
<1> HIDE DEF M
<1>3. /\ a \in 0..Len(L) /\ e \in 0..Len(L) /\ a <= e
      /\ DOMAIN M = 1..e-a /\ (M = <<>> <=> e-a = 0) /\ \A j \in 1..e-a : M[j] = L[a+j]
      /\ \A k \in 1..Len(L) : lo <= L[k].ts /\ L[k].ts <= hi <=> a < k /\ k <= e
  BY <1>1 DEF Stretch
<1>4. e-a \in Nat /\ \A j \in 1..e-a : a+j \in 1..Len(L) /\ a < a+j /\ a+j <= e
  BY <1>3, <1>m
<1>5. \A j \in 1..e-a : M[j].value \in Int /\ M[j].value \in V
  <2> TAKE j \in 1..e-a
  <2>1. M[j] = L[a+j] /\ a+j \in 1..Len(L) /\ lo <= L[a+j].ts /\ L[a+j].ts <= hi
    BY <1>3, <1>4
  <2> QED BY <2>1, <1>m DEF ReadingsIn
<1>6. \A x \in V : \E j \in 1..e-a : x = M[j].value
  <2> TAKE x \in V
  <2>1. PICK k \in 1..Len(L) : x = L[k].value /\ lo <= L[k].ts /\ L[k].ts <= hi
    BY DEF ReadingsIn
  <2>2. k-a \in 1..e-a /\ a+(k-a) = k
    BY <2>1, <1>3
  <2> QED BY <2>1, <2>2, <1>3
<1> HIDE DEF V
<1>7. Ascending \in {Ascending, Descending}
  OBVIOUS
<1>8. /\ e-a = 0 => Best(M, Ascending) = <<>>
      /\ e-a > 0 => /\ Best(M, Ascending) # <<>>
                    /\ \E i \in 1..e-a : /\ Best(M, Ascending)[1] = M[i]
                                         /\ \A j \in 1..e-a : Ascending * M[i].value <= Ascending * M[j].value
  BY <1>3, <1>4, <1>5, <1>7, BestIs
<1>9. Picks(Best(M, Ascending), V, Ascending)
  BY <1>4, <1>5, <1>6, <1>8, PicksBest
<1> QED BY <1>2, <1>9 DEF V

LEMMA IncreasesAre ==
  ASSUME NEW S, Timed(S), NEW L \in Seq(S), Metered(L), S = Entry(Moments, Amounts),
         NEW M, NEW lo, NEW hi, NEW a \in Int, NEW e \in Int, Stretch(M, L, lo, hi, a, e), M # <<>>
  PROVE  /\ DOMAIN Increases(M) = 1..e-a-1
         /\ Increases(M) = <<>> <=> e-a-1 = 0
         /\ \A j \in 1..e-a-1 : Increases(M)[j].value = L[a+j+1].value - L[a+j].value
         /\ e-a-1 \in Nat
<1>3. /\ a \in 0..Len(L) /\ e \in 0..Len(L) /\ a <= e /\ Len(L) \in Nat
      /\ e-a # 0 /\ \A j \in 1..e-a : M[j] = L[a+j]
      /\ Len(M) = e-a
  BY DEF Stretch, Metered
<1>4. e-a-1 \in Nat /\ Len(M)-1 = e-a-1
  BY <1>3
<1>5. \A j \in 1..e-a-1 : /\ j \in 1..e-a /\ j+1 \in 1..e-a /\ a+(j+1) = a+j+1
                          /\ a+j \in 1..Len(L)
  BY <1>3
<1>6. DOMAIN Increases(M) = 1..e-a-1
  BY <1>4 DEF Increases
<1>7. ASSUME NEW j \in 1..e-a-1
      PROVE  Increases(M)[j].value = L[a+j+1].value - L[a+j].value
  <2>1. Increases(M)[j] = [M[j] EXCEPT !.value = M[j+1].value - M[j].value]
    BY <1>4 DEF Increases
  <2>2. M[j] = L[a+j] /\ M[j+1] = L[a+j+1]
    BY <1>3, <1>5
  <2>3. L[a+j] \in Entry(Moments, Amounts)
    BY <1>5, ElementOfSeq
  <2> QED BY <2>1, <2>2, <2>3 DEF Entry
<1>8. Increases(M) = <<>> <=> e-a-1 = 0
  <2> DEFINE n == e-a-1
             F == [i \in 1..n |-> [M[i] EXCEPT !.value = M[i+1].value - M[i].value]]
  <2>1. Increases(M) = F
    BY <1>4 DEF Increases
  <2>2. F \in Seq({F[i] : i \in 1..n}) /\ Len(F) = n
    <3> HIDE DEF n
    <3>1. n \in Nat
      BY <1>4 DEF n
    <3> QED BY <3>1
  <2> HIDE DEF F
  <2> QED BY <2>1, <2>2, EmptySeq
<1> QED BY <1>4, <1>6, <1>7, <1>8

LEMMA MaxPicks ==
  ASSUME NEW S, Timed(S), NEW L \in Seq(S), Metered(L), S = Entry(Moments, Amounts),
         NEW lo \in Int, NEW hi \in Int, lo < hi, hi > 0
  PROVE  Picks(GetMax(L, TRUE, lo, hi), IncreasesIn(L, lo, hi), Descending)
<1> DEFINE M == GetInterval(L, lo, hi)
           I == Increases(M)
           V == IncreasesIn(L, lo, hi)
<1>m. /\ Len(L) \in Nat /\ StrictlySorted(L)
      /\ \A j \in 1..Len(L) : L[j].ts \in Int /\ L[j].value \in Int
      /\ \A j, k \in 1..Len(L) : j < k => L[j].ts < L[k].ts
  BY DEF Metered, StrictlySorted
<1>1. PICK a, e \in Int : Stretch(M, L, lo, hi, a, e)
  BY <1>m, WindowIs
<1>2. GetMax(L, TRUE, lo, hi) = Best(IF M # <<>> THEN I ELSE M, Descending)
  BY DEF GetMax, Measurements
<1> HIDE DEF M, I
<1>3. /\ a \in 0..Len(L) /\ e \in 0..Len(L) /\ a <= e
      /\ M = <<>> <=> e-a = 0
      /\ \A k \in 1..Len(L) : lo <= L[k].ts /\ L[k].ts <= hi <=> a < k /\ k <= e
  BY <1>1 DEF Stretch
<1>4. \A x \in V : \E j \in 1..e-a-1 : x = L[a+j+1].value - L[a+j].value
  <2> TAKE x \in V
  <2>1. PICK k \in 1..Len(L)-1 : x = L[k+1].value - L[k].value /\ lo <= L[k].ts /\ L[k+1].ts <= hi
    BY DEF IncreasesIn
  <2>2. k \in 1..Len(L) /\ k+1 \in 1..Len(L) /\ L[k].ts < L[k+1].ts
    BY <2>1, <1>m
  <2>3. lo <= L[k+1].ts /\ L[k].ts <= hi
    BY <2>1, <2>2, <1>m
  <2>4. a < k /\ k+1 <= e
    BY <2>1, <2>2, <2>3, <1>3
  <2>5. k-a \in 1..e-a-1 /\ a+(k-a) = k /\ a+(k-a)+1 = k+1
    BY <2>1, <2>4, <1>3
  <2> QED BY <2>1, <2>5
<1>5. CASE M = <<>>
  <2>1. V = {}
    BY <1>3, <1>4, <1>5
  <2>2. GetMax(L, TRUE, lo, hi) = <<>>
    BY <1>2, <1>5 DEF Best
  <2> QED BY <2>1, <2>2 DEF Picks
<1>6. CASE M # <<>>
  <2>1. /\ DOMAIN I = 1..e-a-1 /\ (I = <<>> <=> e-a-1 = 0) /\ e-a-1 \in Nat
        /\ \A j \in 1..e-a-1 : I[j].value = L[a+j+1].value - L[a+j].value
    BY <1>1, <1>6, IncreasesAre DEF I
  <2>2. \A j \in 1..e-a-1 : I[j].value \in Int /\ I[j].value \in V
    <3> TAKE j \in 1..e-a-1
    <3>1. a+j \in 1..Len(L)-1 /\ a+j \in 1..Len(L) /\ a+j+1 \in 1..Len(L) /\ a < a+j /\ a+j <= e /\ a+j+1 <= e /\ a < a+j+1
      BY <1>3, <1>m
    <3>2. lo <= L[a+j].ts /\ L[a+j+1].ts <= hi
      BY <3>1, <1>3
    <3>3. L[a+j].value \in Int /\ L[a+j+1].value \in Int
      BY <3>1, <1>m
    <3> QED BY <3>1, <3>2, <3>3, <2>1 DEF IncreasesIn
  <2>3. \A x \in V : \E j \in 1..e-a-1 : x = I[j].value
    BY <1>4, <2>1
  <2> HIDE DEF V
  <2>4. Descending \in {Ascending, Descending}
    OBVIOUS
  <2> DEFINE n == e-a-1
  <2>5. n \in Nat /\ DOMAIN I = 1..n /\ (I = <<>> <=> n = 0) /\ (\A j \in 1..n : I[j].value \in Int)
    BY <2>1, <2>2
  <2>6. (\A j \in 1..n : I[j].value \in V) /\ (\A x \in V : \E j \in 1..n : x = I[j].value)
    BY <2>2, <2>3
  <2> HIDE DEF n
  <2>7. /\ n = 0 => Best(I, Descending) = <<>>
        /\ n > 0 => /\ Best(I, Descending) # <<>>
                    /\ \E i \in 1..n : /\ Best(I, Descending)[1] = I[i]
                                       /\ \A j \in 1..n : Descending * I[i].value <= Descending * I[j].value
    BY <2>4, <2>5, BestIs
  <2>8. Picks(Best(I, Descending), V, Descending)
    BY <2>5, <2>6, <2>7, PicksBest
  <2> QED BY <1>2, <1>6, <2>8 DEF V
<1> QED BY <1>5, <1>6

(* The windows that offer something, each with the best of it.              *)
HasBest(s, best, D) ==
  /\ DOMAIN s \subseteq D
  /\ \A f \in D : f \in DOMAIN s <=> best[f] # <<>>
  /\ \A f \in DOMAIN s : s[f] = best[f][1]

(* The head of a list of the best of several windows is the best of what    *)
(* any of them offers.                                                      *)
LEMMA HeadPicks ==
  ASSUME NEW D, IsFiniteSet(D), D \subseteq Int, NEW best, NEW V,
         NEW way \in {Ascending, Descending}, \A f \in D : Picks(best[f], V[f], way),
         NEW s, HasBest(s, best, D),
         NEW T, T \subseteq Int, \A f \in D : V[f] \subseteq T,
         \A x \in T : \E f \in D : x \in V[f]
  PROVE  Picks(Ordered(s, way), T, way)
<1> DEFINE list == Ordered(s, way)
<1>1. \A f \in D : f \in DOMAIN s <=> V[f] # {}
  BY DEF Picks, HasBest
<1>2. \A f \in DOMAIN s : /\ s[f].value \in T /\ s[f].value \in Int
                          /\ \A x \in V[f] : way * s[f].value <= way * x
  BY <1>1 DEF Picks, HasBest
<1>3. CASE T = {}
  <2>1. \A f \in D : V[f] = {}
    BY <1>3
  <2>2. DOMAIN s = {}
    BY <2>1, <1>1 DEF HasBest
  <2> QED BY <2>2, <1>3, NothingOrdered DEF Picks
<1>4. CASE T # {}
  <2>1. PICK g \in D : V[g] # {}
    BY <1>4
  <2>2. IsFiniteSet(DOMAIN s) /\ DOMAIN s \subseteq Int /\ DOMAIN s # {}
    <3>1. DOMAIN s \in SUBSET D /\ g \in DOMAIN s
      BY <1>1, <2>1 DEF HasBest
    <3>2. IsFiniteSet(DOMAIN s)
      BY <3>1, FS_Subset
    <3> QED BY <3>1, <3>2
  <2>3. \A f \in DOMAIN s : s[f].value \in Int
    BY <1>2
  <2>4. PICK h \in DOMAIN s : /\ list[1] = s[h]
                              /\ \A f \in DOMAIN s : way * s[h].value <= way * s[f].value
    BY <2>2, <2>3, HeadIsBest
  <2>5. list # <<>>
    BY <2>2, <2>3, HeadIsBest
  <2>6. \A x \in T : way * s[h].value <= way * x
    <3> TAKE x \in T
    <3>1. PICK f \in DOMAIN s : x \in V[f]
      BY <1>1 DEF HasBest
    <3>2. way * s[h].value <= way * s[f].value /\ way * s[f].value <= way * x
      BY <3>1, <2>4, <1>2
    <3>3. way \in Int
      BY DEF Ascending, Descending
    <3>4. s[h].value \in Int /\ s[f].value \in Int /\ x \in Int
      BY <1>2
    <3>5. way * s[h].value \in Int /\ way * s[f].value \in Int /\ way * x \in Int
      BY <3>3, <3>4
    <3> QED BY <3>2, <3>5
  <2>7. list[1].value \in T /\ \A x \in T : way * list[1].value <= way * x
    BY <2>4, <2>6, <1>2
  <2> HIDE DEF list
  <2>8. Picks(list, T, way)
    BY <2>5, <2>7, <1>4 DEF Picks
  <2> QED BY <2>8 DEF list
<1> QED BY <1>3, <1>4

(* The starts of the periods of a range that they divide.                   *)
LEMMA RemainderIs ==
  ASSUME NEW x \in Int, NEW d \in Int, d > 0
  PROVE  x = d * (x \div d) + (x % d) /\ x % d \in 0..d-1 /\ x \div d \in Int
BY SMT

LEMMA RemainderOfMultiple ==
  ASSUME NEW k \in Int, NEW d \in Int, d > 0
  PROVE  (k * d) % d = 0
<1> DEFINE x == k * d
<1>1. x \in Int /\ x = d * k
  OBVIOUS
<1>2. x \div d = k
  BY DivisionOfMultiple
<1> HIDE DEF x
<1>3. x = d * (x \div d) + (x % d) /\ x % d \in 0..d-1
  BY <1>1, RemainderIs
<1>4. x % d = 0
  BY <1>1, <1>2, <1>3
<1> QED BY <1>4 DEF x

LEMMA MultipleOfDivisor ==
  ASSUME NEW x \in Int, NEW d \in Int, d > 0, x % d = 0
  PROVE  \E n \in Int : x = n * d
<1>1. x = d * (x \div d) + (x % d) /\ x \div d \in Int
  BY RemainderIs
<1> DEFINE n == x \div d
<1>2. n \in Int /\ x = d * n + 0
  BY <1>1
<1> HIDE DEF n
<1>3. x = n * d
  BY <1>2
<1> QED BY <1>2, <1>3

LEMMA StartsAre ==
  ASSUME NEW from \in Int, NEW to \in Int, NEW d \in Int, d > 0, (to - from) % d = 0
  PROVE  /\ \A f \in Starts(from, to, d) :
              /\ f \in Int /\ from <= f /\ f + d <= to
              /\ \E n \in Nat : f = from + n * d
         /\ \A n \in Nat : from + n * d < to => from + n * d \in Starts(from, to, d)
         /\ IsFiniteSet(Starts(from, to, d)) /\ Starts(from, to, d) \subseteq Int
<1>1. PICK m \in Int : to - from = m * d
  <2>1. to - from \in Int
    OBVIOUS
  <2> QED BY <2>1, MultipleOfDivisor
<1>2. ASSUME NEW f \in Starts(from, to, d)
      PROVE  /\ f \in Int /\ from <= f /\ f + d <= to
             /\ \E n \in Nat : f = from + n * d
  <2>1. f \in from..to-1 /\ (f - from) % d = 0
    BY DEF Starts
  <2>2. f \in Int /\ from <= f /\ f < to /\ f - from \in Int
    BY <2>1
  <2>3. PICK n \in Int : f - from = n * d
    BY <2>1, <2>2, MultipleOfDivisor
  <2>4. n * d >= 0 /\ n * d < m * d
    BY <2>2, <2>3, <1>1
  <2>5. n >= 0
    <3> SUFFICES ASSUME n + 1 <= 0 PROVE FALSE
      OBVIOUS
    <3>1. (n + 1) * d <= 0
      BY SMT
    <3>2. (n + 1) * d = n * d + d /\ n * d \in Int
      OBVIOUS
    <3> QED BY <3>1, <3>2, <2>4
  <2>6. n + 1 <= m
    <3> SUFFICES ASSUME m <= n PROVE FALSE
      OBVIOUS
    <3>1. m * d <= n * d
      BY SMT
    <3>2. m * d \in Int /\ n * d \in Int
      OBVIOUS
    <3> QED BY <3>1, <3>2, <2>4
  <2>7. (n + 1) * d <= m * d
    BY <2>6, SMT
  <2>8. (n + 1) * d = n * d + d /\ n * d \in Int /\ m * d \in Int
    OBVIOUS
  <2>9. f + d <= to
    BY <2>2, <2>3, <2>7, <2>8, <1>1
  <2> QED BY <2>2, <2>3, <2>5, <2>9
<1>3. ASSUME NEW n \in Nat, from + n * d < to
      PROVE  from + n * d \in Starts(from, to, d)
  <2> DEFINE f == from + n * d
  <2>1. n * d \in Int /\ n * d >= 0
    BY SMT
  <2>2. f \in from..to-1 /\ f - from = n * d
    BY <2>1, <1>3
  <2>3. (n * d) % d = 0
    BY RemainderOfMultiple
  <2> QED BY <2>2, <2>3 DEF Starts
<1>4. Starts(from, to, d) \in SUBSET (from..to-1)
  BY DEF Starts
<1>5. IsFiniteSet(from..to-1)
  <2>1. to - 1 \in Int
    OBVIOUS
  <2> QED BY <2>1, FS_Interval
<1> QED BY <1>2, <1>3, <1>4, <1>5, FS_Subset

-----------------------------------------------------------------------------
(* FloatTimeBuffer: every list that insert_sorted builds is sorted, so that *)
(* its queries find their readings.                                         *)
FloatInv == sortedList \in Seq(Measured) /\ StrictlySorted(sortedList)

LEMMA MeasuredIsTimed == Timed(Measured)
<1>1. \A t \in Moments : t \in Int
  BY FloatAssumption
<1> QED BY <1>1 DEF Timed, Measured, Entry

LEMMA ListIsMetered ==
  ASSUME FloatInv
  PROVE  Metered(sortedList)
<1>1. Len(sortedList) \in Nat /\ \A j \in 1..Len(sortedList) : sortedList[j] \in Measured
  BY LenProperties, ElementOfSeq DEF FloatInv
<1>i. (\A t \in Moments : t \in Int) /\ (\A v \in Amounts : v \in Int)
  BY FloatAssumption
<1>2. \A e \in Measured : e.ts \in Int /\ e.value \in Int
  BY <1>i DEF Measured, Entry
<1>3. sortedList # <<>> => Len(sortedList) > 0
  BY <1>1, EmptySeq DEF FloatInv
<1> QED BY <1>1, <1>2, <1>3 DEF Metered, FloatInv

(* insert_sorted keeps the list sorted with one reading per timestamp       *)
(* (timebuffer.py:143).                                                     *)
THEOREM FloatTypes == FloatSpec => []FloatInv
<1>1. FloatInit => FloatInv
  <2> SUFFICES ASSUME FloatInit PROVE FloatInv
    OBVIOUS
  <2>1. <<>> \in Seq(Measured) /\ Len(<<>>) = 0
    OBVIOUS
  <2>2. StrictlySorted(<<>>)
    BY <2>1 DEF StrictlySorted
  <2> QED BY <2>1, <2>2 DEF FloatInit, FloatInv
<1>2. FloatInv /\ [FloatNext]_sortedList => FloatInv'
  <2> SUFFICES ASSUME FloatInv, [FloatNext]_sortedList PROVE FloatInv'
    OBVIOUS
  <2>1. CASE FloatNext
    <3>1. PICK e \in Measured : sortedList' = InsertSorted(sortedList, e)
      BY <2>1 DEF FloatNext
    <3> DEFINE i == GetIndex(sortedList, e.ts, InsertIndex)
    <3>2. Timed(Measured) /\ e.ts \in Int
      BY MeasuredIsTimed DEF Timed
    <3>3. Divides(sortedList, i, e.ts)
      BY <3>2, GetIndexDivides DEF FloatInv
    <3>4. sortedList' = PutAt(sortedList, i, e)
      BY <3>1 DEF InsertSorted
    <3> HIDE DEF i
    <3>5. sortedList' \in Seq(Measured) /\ StrictlySorted(sortedList')
      BY <3>2, <3>3, <3>4, PutAtIs DEF FloatInv
    <3>6. StrictlySorted(sortedList)'
      BY <3>5 DEF StrictlySorted
    <3> QED BY <3>5, <3>6 DEF FloatInv
  <2>2. CASE UNCHANGED sortedList
    BY <2>2 DEF FloatInv, StrictlySorted
  <2> QED BY <2>1, <2>2
<1> QED BY <1>1, <1>2, PTL DEF FloatSpec

(* get_index finds the index that divides the list, and with                *)
(* valid_read_index stays on it (timebuffer.py:72).                         *)
THEOREM FloatIndexes == FloatSpec => []IndexDivides
<1>1. FloatInv => IndexDivides
  <2> SUFFICES ASSUME FloatInv, NEW t \in Moments
               PROVE  /\ Divides(sortedList, GetIndex(sortedList, t, InsertIndex), t)
                      /\ sortedList # <<>> =>
                           GetIndex(sortedList, t, ReadIndex) =
                             Min({GetIndex(sortedList, t, InsertIndex), Len(sortedList) - 1})
    BY DEF IndexDivides
  <2> DEFINE i == GetIndex(sortedList, t, InsertIndex)
             k == GetIndex(sortedList, t, ReadIndex)
             n == Len(sortedList)
  <2>1. Timed(Measured) /\ t \in Int
    BY MeasuredIsTimed, FloatAssumption
  <2>2. /\ Divides(sortedList, i, t)
        /\ sortedList # <<>> => k = IF i < n THEN i ELSE n - 1
    BY <2>1, GetIndexDivides DEF FloatInv
  <2>3. i \in 0..n /\ n \in Nat
    BY <2>2, ListIsMetered DEF Divides, Metered
  <2> HIDE DEF i, k, n
  <2>4. sortedList # <<>> => k = Min({i, n - 1})
    <3> HAVE sortedList # <<>>
    <3>1. {i, n-1} \subseteq Int /\ k \in {i, n-1} /\ \A x \in {i, n-1} : k <= x
      BY <2>2, <2>3
    <3> DEFINE Ends == {i, n - 1}
    <3>2. Ends \subseteq Int /\ k \in Ends /\ \A x \in Ends : k <= x
      BY <3>1
    <3> HIDE DEF Ends
    <3>3. Min(Ends) = k
      BY <3>2, MinIs
    <3> QED BY <3>3 DEF Ends
  <2> QED BY <2>2, <2>4 DEF i, k, n
<1> QED BY <1>1, FloatTypes, PTL

(* integrate of power is the sum over every tick of the power in force,     *)
(* wherever the ends lie (float_tb.py:61).                                  *)
THEOREM FloatIntegrals == FloatSpec => []IntegralIsSumOfPower
<1>1. FloatInv => IntegralIsSumOfPower
  <2> SUFFICES ASSUME FloatInv, sortedList # <<>>, NEW a \in Moments, NEW b \in Moments, a <= b
               PROVE  Integrate(sortedList, FALSE, a, b) = Scale * Flow(sortedList, a, b)
    BY DEF IntegralIsSumOfPower
  <2>1. Timed(Measured) /\ a \in Int /\ b \in Int /\ Scale \in Int
    BY MeasuredIsTimed, FloatAssumption
  <2>2. sortedList \in Seq(Measured) /\ Metered(sortedList)
    BY ListIsMetered DEF FloatInv
  <2>3. HoldIntegral(sortedList, a, b) = Scale * Flow(sortedList, a, b)
    BY <2>1, <2>2, HoldIntegralIs
  <2> QED BY <2>3 DEF Integrate
<1> QED BY <1>1, FloatTypes, PTL

(* A meter whose counter does not run backward never shows a negative       *)
(* consumption (float_tb.py:61, get_value with selection 'inter').          *)
THEOREM FloatCounters == FloatSpec => []CounterNeverRunsBackward
<1>1. FloatInv => CounterNeverRunsBackward
  <2> SUFFICES ASSUME FloatInv,
                      \A i, j \in 1..Len(sortedList) :
                        i < j => sortedList[i].value <= sortedList[j].value,
                      NEW a \in Moments, NEW b \in Moments, a <= b
               PROVE  Integrate(sortedList, TRUE, a, b) >= 0
    BY DEF CounterNeverRunsBackward
  <2>1. CASE sortedList = <<>>
    BY <2>1 DEF Integrate
  <2>2. CASE sortedList # <<>>
    <3>1. Timed(Measured) /\ a \in Int /\ b \in Int /\ Scale \in Nat
      BY MeasuredIsTimed, FloatAssumption
    <3>2. /\ sortedList \in Seq(Measured) /\ Metered(sortedList) /\ StrictlySorted(sortedList)
      BY ListIsMetered DEF FloatInv
    <3>3. /\ Divides(sortedList, GetIndex(sortedList, a, InsertIndex), a)
          /\ Divides(sortedList, GetIndex(sortedList, b, InsertIndex), b)
      BY <3>1, <3>2, GetIndexDivides
    <3>4. GetValue(sortedList, b, "inter") - GetValue(sortedList, a, "inter") >= 0
      BY <3>1, <3>2, <3>3, <2>2, CounterRises
    <3> QED BY <2>2, <3>4 DEF Integrate
  <2> QED BY <2>1, <2>2
<1> QED BY <1>1, FloatTypes, PTL

(* What the periods of a range offer together: every increase within one    *)
(* of them, and every reading of the range.                                 *)
LEMMA PeriodsOfIncreases ==
  ASSUME FloatInv, NEW from \in Moments, NEW to \in Moments, NEW d \in Int, d > 0,
         (to - from) % d = 0, NEW x
  PROVE  x \in PeriodMaxima(from, to, d) <=>
           \E f \in Starts(from, to, d) : x \in IncreasesIn(sortedList, f, f + d)
<1> DEFINE L == sortedList
           F == Starts(from, to, d)
<1>m. /\ Len(L) \in Nat /\ \A j \in 1..Len(L) : L[j].ts \in Int
      /\ \A j, k \in 1..Len(L) : j < k => L[j].ts < L[k].ts
  BY ListIsMetered DEF Metered, StrictlySorted
<1>i. from \in Nat \ {0} /\ to \in Nat \ {0} /\ from \in Int /\ to \in Int
  BY FloatAssumption
<1>s. /\ \A f \in F : f \in Int /\ from <= f /\ f + d <= to /\ \E n \in Nat : f = from + n * d
      /\ \A n \in Nat : from + n * d < to => from + n * d \in F
  BY <1>i, StartsAre
<1>n. \A n \in Nat : n * d \in Int /\ n <= n * d /\ (n + 1) * d = n * d + d
  <2> TAKE n \in Nat
  <2>1. n * d = n + n * (d - 1)
    OBVIOUS
  <2>2. n * (d - 1) \in Nat
    <3>1. d - 1 \in Nat
      OBVIOUS
    <3> QED BY <3>1
  <2>3. (n + 1) * d = n * d + d
    OBVIOUS
  <2> QED BY <2>1, <2>2, <2>3
<1>k. \A k \in 1..Len(L)-1 : k \in 1..Len(L) /\ k+1 \in 1..Len(L) /\ L[k].ts < L[k+1].ts
                             /\ L[k].ts \in Int /\ L[k+1].ts \in Int
  BY <1>m
<1>p. \A a, b : InOnePeriod(a, b, from, d) <=>
        \E n \in 0..b : a >= from + n * d /\ b <= from + (n + 1) * d
  BY DEF InOnePeriod
<1> HIDE DEF F
<1>1. ASSUME x \in PeriodMaxima(from, to, d)
      PROVE  \E f \in F : x \in IncreasesIn(L, f, f + d)
  <2>1. PICK k \in 1..Len(L)-1 : /\ x = L[k+1].value - L[k].value
                                 /\ from <= L[k].ts /\ L[k+1].ts <= to
                                 /\ InOnePeriod(L[k].ts, L[k+1].ts, from, d)
    BY <1>1 DEF PeriodMaxima
  <2>2. PICK n \in 0..L[k+1].ts : L[k].ts >= from + n * d /\ L[k+1].ts <= from + (n + 1) * d
    BY <2>1, <1>p
  <2>3. n \in Nat
    BY <2>2, <1>k
  <2> DEFINE f == from + n * d
  <2>4. f \in Int /\ f <= L[k].ts /\ L[k+1].ts <= f + d
    BY <2>2, <2>3, <1>n, <1>i, <1>k
  <2>5. f < to
    BY <2>1, <2>4, <1>k, <1>i
  <2>6. f \in F
    BY <2>3, <2>5, <1>s
  <2>7. x \in IncreasesIn(L, f, f + d)
    BY <2>1, <2>4 DEF IncreasesIn
  <2> QED BY <2>6, <2>7
<1>2. ASSUME NEW f \in F, x \in IncreasesIn(L, f, f + d)
      PROVE  x \in PeriodMaxima(from, to, d)
  <2>1. PICK k \in 1..Len(L)-1 : /\ x = L[k+1].value - L[k].value
                                 /\ f <= L[k].ts /\ L[k+1].ts <= f + d
    BY <1>2 DEF IncreasesIn
  <2>2. f \in Int /\ from <= f /\ f + d <= to
    BY <1>s
  <2>3. PICK n \in Nat : f = from + n * d
    BY <1>s
  <2>4. n * d \in Int /\ n <= n * d /\ (n + 1) * d = n * d + d
    BY <1>n
  <2>5. L[k].ts >= from + n * d /\ L[k+1].ts <= from + (n + 1) * d
    BY <2>1, <2>2, <2>3, <2>4, <1>i, <1>k
  <2>6. n \in 0..L[k+1].ts
    <3> DEFINE b == L[k+1].ts
               y == n * d
    <3>1. b \in Int /\ y \in Int /\ n <= y /\ from + y < b
      BY <2>4, <2>5, <1>i, <1>k
    <3> HIDE DEF b, y
    <3>2. n \in 0..b
      BY <3>1, <1>i
    <3> QED BY <3>2 DEF b
  <2>7. InOnePeriod(L[k].ts, L[k+1].ts, from, d)
    BY <2>5, <2>6, <1>p
  <2>8. from <= L[k].ts /\ L[k+1].ts <= to
    BY <2>1, <2>2, <1>i, <1>k
  <2> QED BY <2>1, <2>7, <2>8 DEF PeriodMaxima
<1> QED BY <1>1, <1>2 DEF F

LEMMA PeriodsOfReadings ==
  ASSUME FloatInv, NEW from \in Moments, NEW to \in Moments, from < to, NEW d \in Int, d > 0,
         (to - from) % d = 0, NEW x
  PROVE  x \in ReadingsIn(sortedList, from, to) <=>
           \E f \in Starts(from, to, d) : x \in ReadingsIn(sortedList, f, f + d)
<1> DEFINE L == sortedList
           F == Starts(from, to, d)
<1>m. Len(L) \in Nat /\ \A j \in 1..Len(L) : L[j].ts \in Int
  BY ListIsMetered DEF Metered
<1>i. from \in Int /\ to \in Int /\ to - from \in Int
  BY FloatAssumption
<1>s. /\ \A f \in F : f \in Int /\ from <= f /\ f + d <= to
      /\ \A n \in Nat : from + n * d < to => from + n * d \in F
  BY <1>i, StartsAre
<1> HIDE DEF F
<1>1. ASSUME NEW t \in Int, from <= t, t <= to
      PROVE  \E f \in F : f <= t /\ t <= f + d
  <2>1. CASE t < to
    <3> DEFINE y == t - from
               n == y \div d
    <3>1. y \in Int /\ y >= 0
      BY <1>1, <1>i
    <3> HIDE DEF y
    <3>2. y = d * n + (y % d) /\ y % d \in 0..d-1 /\ n \in Int
      BY <3>1, RemainderIs
    <3> HIDE DEF n
    <3>3. d * n \in Int /\ n * d = d * n /\ n * d \in Int
      BY <3>2
    <3>4. n * d <= y /\ y <= n * d + d
      BY <3>1, <3>2, <3>3
    <3>5. n >= 0
      <4> SUFFICES ASSUME n + 1 <= 0 PROVE FALSE
        BY <3>2
      <4>1. 0 - (n + 1) \in Nat
        BY <3>2
      <4>2. d * (0 - (n + 1)) \in Nat
        BY <4>1
      <4>3. d * (0 - (n + 1)) = 0 - (d * n + d)
        BY <3>2
      <4>4. y < d * n + d
        BY <3>1, <3>2, <3>3
      <4> QED BY <4>2, <4>3, <4>4, <3>1, <3>3
    <3> DEFINE f == from + n * d
    <3>6. f <= t /\ t <= f + d
      BY <3>3, <3>4, <1>1, <1>i DEF y
    <3>7. f \in F
      BY <3>5, <3>6, <3>3, <3>2, <2>1, <1>1, <1>i, <1>s
    <3> QED BY <3>6, <3>7
  <2>2. CASE t = to
    <3>1. PICK m \in Int : to - from = m * d
      BY <1>i, MultipleOfDivisor
    <3>2. m >= 1
      <4> SUFFICES ASSUME m <= 0 PROVE FALSE
        OBVIOUS
      <4>1. 0 - m \in Nat
        OBVIOUS
      <4>2. (0 - m) * d \in Nat
        BY <4>1
      <4>3. (0 - m) * d = 0 - m * d /\ m * d \in Int
        OBVIOUS
      <4> QED BY <4>2, <4>3, <3>1, <1>i
    <3> DEFINE n == m - 1
               f == from + n * d
    <3>3. n \in Nat /\ n * d = m * d - d /\ m * d \in Int
      BY <3>2
    <3> HIDE DEF n
    <3>4. f < to /\ f + d = to /\ f <= to
      BY <3>1, <3>3, <1>i
    <3>5. f \in F
      BY <3>3, <3>4, <1>s
    <3> HIDE DEF f
    <3>6. f <= t /\ t <= f + d
      BY <3>4, <2>2, <1>i
    <3> QED BY <3>5, <3>6
  <2> QED BY <2>1, <2>2, <1>1, <1>i
<1>2. ASSUME x \in ReadingsIn(L, from, to)
      PROVE  \E f \in F : x \in ReadingsIn(L, f, f + d)
  <2>1. PICK k \in 1..Len(L) : x = L[k].value /\ from <= L[k].ts /\ L[k].ts <= to
    BY <1>2 DEF ReadingsIn
  <2>2. PICK f \in F : f <= L[k].ts /\ L[k].ts <= f + d
    BY <2>1, <1>1, <1>m
  <2> QED BY <2>1, <2>2 DEF ReadingsIn
<1>3. ASSUME NEW f \in F, x \in ReadingsIn(L, f, f + d)
      PROVE  x \in ReadingsIn(L, from, to)
  <2>1. PICK k \in 1..Len(L) : x = L[k].value /\ f <= L[k].ts /\ L[k].ts <= f + d
    BY <1>3 DEF ReadingsIn
  <2>2. from <= L[k].ts /\ L[k].ts <= to
    BY <2>1, <1>s, <1>m, <1>i
  <2> QED BY <2>1, <2>2 DEF ReadingsIn
<1> QED BY <1>2, <1>3 DEF F

LEMMA MaximaAreListed ==
  ASSUME FloatInv, NEW from \in Moments, NEW to \in Moments, from < to, NEW d \in 1..2,
         (to - from) % d = 0
  PROVE  Picks(PeriodMaxList(sortedList, TRUE, from, to, d), PeriodMaxima(from, to, d), Descending)
<1> DEFINE F == Starts(from, to, d)
           best == [f \in F |-> GetMax(sortedList, TRUE, f, f + d)]
           V == [f \in F |-> IncreasesIn(sortedList, f, f + d)]
           found == {f \in DOMAIN best : best[f] # <<>>}
           s == [f \in found |-> best[f][1]]
           T == PeriodMaxima(from, to, d)
<1>1. from \in Int /\ to \in Int /\ d \in Int /\ d > 0 /\ from > 0
  BY FloatAssumption
<1>2. \A f \in F : Picks(best[f], V[f], Descending)
  <2> TAKE f \in F
  <2>1. f \in Int /\ from <= f
    BY <1>1, StartsAre
  <2>2. f + d \in Int /\ f < f + d /\ f + d > 0
    BY <2>1, <1>1
  <2>3. Timed(Measured) /\ sortedList \in Seq(Measured) /\ Metered(sortedList)
    BY MeasuredIsTimed, ListIsMetered DEF FloatInv
  <2> HIDE DEF F
  <2>4. Picks(GetMax(sortedList, TRUE, f, f + d), IncreasesIn(sortedList, f, f + d), Descending)
    BY <2>1, <2>2, <2>3, MaxPicks DEF Measured
  <2> QED BY <2>4
<1>3. \A x : x \in T <=> \E f \in F : x \in V[f]
  <2> TAKE x
  <2>1. x \in T <=> \E f \in F : x \in IncreasesIn(sortedList, f, f + d)
    BY <1>1, PeriodsOfIncreases
  <2> QED BY <2>1
<1>4. T \subseteq Int
  <2> SUFFICES ASSUME NEW k \in 1..Len(sortedList)-1
               PROVE  sortedList[k+1].value - sortedList[k].value \in Int
    BY DEF PeriodMaxima
  <2> QED BY ListIsMetered DEF Metered
<1>5. PeriodMaxList(sortedList, TRUE, from, to, d) = Ordered(s, Descending)
  BY DEF PeriodMaxList
<1>6. HasBest(s, best, F)
  BY DEF HasBest
<1>7. IsFiniteSet(F) /\ F \subseteq Int
  BY <1>1, StartsAre
<1>8. (\A f \in F : V[f] \subseteq T) /\ \A x \in T : \E f \in F : x \in V[f]
  BY <1>3
<1>9. Descending \in {Ascending, Descending}
  OBVIOUS
<1> HIDE DEF F, best, V, s, T
<1>10. Picks(Ordered(s, Descending), T, Descending)
  BY <1>2, <1>4, <1>6, <1>7, <1>8, <1>9, HeadPicks
<1> QED BY <1>5, <1>10 DEF T

LEMMA MinimaAreListed ==
  ASSUME FloatInv, NEW from \in Moments, NEW to \in Moments, from < to, NEW d \in 1..2,
         (to - from) % d = 0
  PROVE  Picks(PeriodMinList(sortedList, FALSE, from, to, d), ReadingsIn(sortedList, from, to), Ascending)
<1> DEFINE F == Starts(from, to, d)
           best == [f \in F |-> GetMin(sortedList, FALSE, f, f + d)]
           V == [f \in F |-> ReadingsIn(sortedList, f, f + d)]
           found == {f \in DOMAIN best : best[f] # <<>>}
           s == [f \in found |-> best[f][1]]
           T == ReadingsIn(sortedList, from, to)
<1>1. from \in Int /\ to \in Int /\ d \in Int /\ d > 0 /\ from > 0
  BY FloatAssumption
<1>2. \A f \in F : Picks(best[f], V[f], Ascending)
  <2> TAKE f \in F
  <2>1. f \in Int /\ from <= f
    BY <1>1, StartsAre
  <2>2. f + d \in Int /\ f < f + d /\ f + d > 0
    BY <2>1, <1>1
  <2>3. Timed(Measured) /\ sortedList \in Seq(Measured) /\ Metered(sortedList)
    BY MeasuredIsTimed, ListIsMetered DEF FloatInv
  <2> HIDE DEF F
  <2>4. Picks(GetMin(sortedList, FALSE, f, f + d), ReadingsIn(sortedList, f, f + d), Ascending)
    BY <2>1, <2>2, <2>3, MinPicks
  <2> QED BY <2>4
<1>3. \A x : x \in T <=> \E f \in F : x \in V[f]
  <2> TAKE x
  <2>1. x \in T <=> \E f \in F : x \in ReadingsIn(sortedList, f, f + d)
    BY <1>1, PeriodsOfReadings
  <2> QED BY <2>1
<1>4. T \subseteq Int
  <2> SUFFICES ASSUME NEW k \in 1..Len(sortedList) PROVE sortedList[k].value \in Int
    BY DEF ReadingsIn
  <2> QED BY ListIsMetered DEF Metered
<1>5. PeriodMinList(sortedList, FALSE, from, to, d) = Ordered(s, Ascending)
  BY DEF PeriodMinList
<1>6. HasBest(s, best, F)
  BY DEF HasBest
<1>7. IsFiniteSet(F) /\ F \subseteq Int
  BY <1>1, StartsAre
<1>8. (\A f \in F : V[f] \subseteq T) /\ \A x \in T : \E f \in F : x \in V[f]
  BY <1>3
<1>9. Ascending \in {Ascending, Descending}
  OBVIOUS
<1> HIDE DEF F, best, V, s, T
<1>10. Picks(Ordered(s, Ascending), T, Ascending)
  BY <1>2, <1>4, <1>6, <1>7, <1>8, <1>9, HeadPicks
<1> QED BY <1>5, <1>10 DEF T

(* The lists of maxima and minima over periods are headed by the extreme of *)
(* all the periods; an increase across a boundary counts in none            *)
(* (float_tb.py:152).                                                       *)
THEOREM FloatExtremes == FloatSpec => []ExtremesOverPeriods
<1>1. FloatInv => MaximaOverPeriods
  <2> SUFFICES ASSUME FloatInv, NEW from \in Moments, NEW to \in Moments, NEW d \in 1..2,
                      from < to, (to - from) % d = 0
               PROVE  LET maxima == PeriodMaxList(sortedList, TRUE, from, to, d)
                          truth  == PeriodMaxima(from, to, d)
                      IN  IF truth = {} THEN maxima = <<>>
                          ELSE maxima # <<>> /\ maxima[1].value = Max(truth)
    BY DEF MaximaOverPeriods
  <2> DEFINE maxima == PeriodMaxList(sortedList, TRUE, from, to, d)
             truth == PeriodMaxima(from, to, d)
  <2>1. Picks(maxima, truth, Descending)
    BY MaximaAreListed
  <2>2. truth \subseteq Int
    <3> SUFFICES ASSUME NEW k \in 1..Len(sortedList)-1
                 PROVE  sortedList[k+1].value - sortedList[k].value \in Int
      BY DEF PeriodMaxima
    <3> QED BY ListIsMetered DEF Metered
  <2> HIDE DEF maxima, truth
  <2>3. CASE truth = {}
    BY <2>1, <2>3 DEF Picks, maxima, truth
  <2>4. CASE truth # {}
    <3>1. /\ maxima # <<>> /\ maxima[1].value \in truth
          /\ \A x \in truth : Descending * maxima[1].value <= Descending * x
      BY <2>1, <2>4 DEF Picks
    <3>2. \A x \in truth : x <= maxima[1].value
      <4> TAKE x \in truth
      <4>1. x \in Int /\ maxima[1].value \in Int /\ Descending * maxima[1].value <= Descending * x
        BY <3>1, <2>2
      <4> QED BY <4>1 DEF Descending
    <3>3. Max(truth) = maxima[1].value
      BY <3>1, <3>2, <2>2, MaxIs
    <3> QED BY <3>1, <3>3, <2>4 DEF maxima, truth
  <2> QED BY <2>3, <2>4
<1>2. FloatInv => MinimaOverPeriods
  <2> SUFFICES ASSUME FloatInv, NEW from \in Moments, NEW to \in Moments, NEW d \in 1..2,
                      from < to, (to - from) % d = 0
               PROVE  LET minima == PeriodMinList(sortedList, FALSE, from, to, d)
                          values == {sortedList[i].value : i \in {k \in 1..Len(sortedList) : sortedList[k].ts \in from..to}}
                      IN  IF values = {} THEN minima = <<>>
                          ELSE minima # <<>> /\ minima[1].value = Min(values)
    BY DEF MinimaOverPeriods
  <2> DEFINE minima == PeriodMinList(sortedList, FALSE, from, to, d)
             values == {sortedList[i].value : i \in {k \in 1..Len(sortedList) : sortedList[k].ts \in from..to}}
  <2>0. \A j \in 1..Len(sortedList) : sortedList[j].ts \in Int /\ sortedList[j].value \in Int
    BY ListIsMetered DEF Metered
  <2>i. from \in Int /\ to \in Int
    BY FloatAssumption
  <2>1. values = ReadingsIn(sortedList, from, to)
    BY <2>0, <2>i DEF ReadingsIn
  <2>2. values \subseteq Int
    BY <2>0
  <2> HIDE DEF minima, values
  <2>3. Picks(minima, values, Ascending)
    BY <2>1, MinimaAreListed DEF minima
  <2>4. CASE values = {}
    BY <2>3, <2>4 DEF Picks, minima, values
  <2>5. CASE values # {}
    <3>1. /\ minima # <<>> /\ minima[1].value \in values
          /\ \A x \in values : Ascending * minima[1].value <= Ascending * x
      BY <2>3, <2>5 DEF Picks
    <3>2. \A x \in values : minima[1].value <= x
      <4> TAKE x \in values
      <4>1. x \in Int /\ minima[1].value \in Int /\ Ascending * minima[1].value <= Ascending * x
        BY <3>1, <2>2
      <4> QED BY <4>1 DEF Ascending
    <3>3. Min(values) = minima[1].value
      BY <3>1, <3>2, <2>2, MinIs
    <3> QED BY <3>1, <3>3, <2>5 DEF minima, values
  <2> QED BY <2>4, <2>5
<1> QED BY <1>1, <1>2, FloatTypes, PTL DEF ExtremesOverPeriods
=============================================================================
