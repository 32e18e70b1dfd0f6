---------------------------- MODULE TimeoutsProofs ----------------------------
(***************************************************************************)
(* Proofs about Timeouts, for every list of periodic handlers, intervals,  *)
(* handlers of the application and size of the pool: the list of           *)
(* differences implements Agenda, and no timer of lwIP is lost or set      *)
(* twice.  What a sum over the list is, is shown by induction, and that    *)
(* from the least element of a set of numbers.                             *)
(***************************************************************************)
EXTENDS Timeouts, SequenceTheorems, FiniteSetTheorems, TLAPS

\* Numbers have a least element.
LEMMA Least ==
  ASSUME NEW T \in SUBSET Nat, T # {}
  PROVE  \E n \in T : \A m \in T : n <= m
<1> DEFINE R == OpToRel(<, Nat)
<1>1. IsWellFoundedOn(R, Nat)
  BY NatLessThanWellFounded
<1>2. \A x, y \in Nat : <<y, x>> \in R <=> y < x
  BY DEF OpToRel
<1> HIDE DEF R
<1>3. PICK n \in T : \A m \in T : ~(<<m, n>> \in R)
  BY <1>1, WFMin
<1>4. ASSUME NEW m \in T PROVE n <= m
  <2>1. m \in Nat /\ n \in Nat
    OBVIOUS
  <2>2. ~(m < n)
    BY <1>2, <1>3, <2>1
  <2>3. QED BY <2>1, <2>2
<1> QED BY <1>4

\* Induction: a set that holds 0 and with every number the next holds 0 .. n.
LEMMA Induct ==
  ASSUME NEW n \in Nat, NEW S, 0 \in S, \A k \in 0 .. (n - 1) : k \in S => k + 1 \in S
  PROVE  0 .. n \subseteq S
<1> SUFFICES ASSUME NEW T, T = {k \in 0 .. n : k \notin S}, T # {} PROVE FALSE
  OBVIOUS
<1>1. PICK k \in T : \A m \in T : k <= m
  <2>1. T \in SUBSET Nat
    OBVIOUS
  <2>2. QED BY <2>1, Least
<1>2. k \in 0 .. n /\ k \notin S /\ k # 0
  BY <1>1
<1>3. k - 1 \in 0 .. (n - 1) /\ k - 1 \notin T
  BY <1>1, <1>2
<1>4. k - 1 \in S
  BY <1>3, <1>2
<1>5. (k - 1) + 1 = k
  BY <1>2
<1> QED BY <1>2, <1>3, <1>4, <1>5

-----------------------------------------------------------------------------

\* A function that starts with 0 and adds the time of each entry.
Sums(f, list, n) ==
  f = [k \in 0 .. n |-> IF k = 0 THEN 0 ELSE f[k - 1] + list[k].time]

LEMMA SumsExist ==
  ASSUME NEW n \in Nat, NEW list
  PROVE  \E f : Sums(f, list, n)
<1> DEFINE S == {m \in 0 .. n : \E f : Sums(f, list, m)}
<1>1. 0 \in S
  <2> DEFINE g == [k \in 0 .. 0 |-> 0]
  <2>1. g = [k \in 0 .. 0 |-> IF k = 0 THEN 0 ELSE g[k - 1] + list[k].time]
    OBVIOUS
  <2> HIDE DEF g
  <2>2. QED BY <2>1 DEF Sums
<1>2. ASSUME NEW m \in 0 .. (n - 1), m \in S PROVE m + 1 \in S
  <2>1. PICK f : f = [k \in 0 .. m |-> IF k = 0 THEN 0 ELSE f[k - 1] + list[k].time]
    BY <1>2 DEF Sums
  <2> DEFINE g == [k \in 0 .. (m + 1) |->
                     IF k = m + 1 THEN f[m] + list[m + 1].time ELSE f[k]]
  <2>2. ASSUME NEW k \in 0 .. (m + 1)
        PROVE  g[k] = IF k = 0 THEN 0 ELSE g[k - 1] + list[k].time
    <3>1. CASE k = m + 1
      BY <3>1
    <3>2. CASE k # m + 1
      <4>1. /\ k \in 0 .. m
            /\ k # 0 => k - 1 \in 0 .. m /\ k - 1 # m + 1 /\ k - 1 \in 0 .. (m + 1)
        BY <3>2
      <4>2. f[k] = IF k = 0 THEN 0 ELSE f[k - 1] + list[k].time
        BY <2>1, <4>1
      <4>3. QED BY <4>1, <4>2, <3>2
    <3>3. QED BY <3>1, <3>2
  <2>3. g = [k \in 0 .. (m + 1) |-> IF k = 0 THEN 0 ELSE g[k - 1] + list[k].time]
    <3> HIDE DEF g
    <3>1. g = [k \in 0 .. (m + 1) |-> g[k]]
      BY DEF g
    <3>2. QED BY <3>1, <2>2
  <2> HIDE DEF g
  <2>4. QED BY <2>3 DEF Sums
<1>3. n \in S
  <2> HIDE DEF S
  <2>1. 0 .. n \subseteq S
    BY <1>1, <1>2, Induct
  <2>2. QED BY <2>1
<1> QED BY <1>3

\* Before satisfies the equation it is defined by.
LEMMA BeforeIs ==
  ASSUME NEW list, Len(list) \in Nat
  PROVE  /\ Before(list, 0) = 0
         /\ \A k \in 1 .. Len(list) : Before(list, k) = Before(list, k - 1) + list[k].time
<1> DEFINE sum == CHOOSE f : Sums(f, list, Len(list))
<1>1. Sums(sum, list, Len(list))
  BY SumsExist
<1>2. \A k : Before(list, k) = sum[k]
  BY DEF Before, Sums
<1> HIDE DEF sum
<1>3. sum = [k \in 0 .. Len(list) |-> IF k = 0 THEN 0 ELSE sum[k - 1] + list[k].time]
  BY <1>1 DEF Sums
<1>4. sum[0] = 0 /\ \A k \in 1 .. Len(list) : sum[k] = sum[k - 1] + list[k].time
  BY <1>3
<1>5. QED  BY <1>2, <1>4

\* Whatever satisfies it is Before.
LEMMA BeforeIsUnique ==
  ASSUME NEW list, NEW f, NEW n \in Nat, Len(list) = n, f[0] = 0,
         \A k \in 1 .. n : f[k] = f[k - 1] + list[k].time
  PROVE  \A k \in 0 .. n : Before(list, k) = f[k]
<1> DEFINE S == {k \in 0 .. n : Before(list, k) = f[k]}
<1>1. 0 \in S
  BY BeforeIs
<1>2. ASSUME NEW k \in 0 .. (n - 1), k \in S PROVE k + 1 \in S
  <2>1. k + 1 \in 1 .. n /\ (k + 1) - 1 = k
    OBVIOUS
  <2>2. Before(list, k + 1) = Before(list, k) + list[k + 1].time
    BY <2>1, BeforeIs
  <2>3. f[k + 1] = f[k] + list[k + 1].time
    BY <2>1
  <2>4. QED BY <1>2, <2>1, <2>2, <2>3
<1>3. 0 .. n \subseteq S
  <2> HIDE DEF S
  <2>1. QED BY <1>1, <1>2, Induct
<1>4. QED BY <1>3

-----------------------------------------------------------------------------

Entry == [h : Handlers, time : Nat]

LEMMA EntryTypes ==
  ASSUME NEW list \in Seq(Entry)
  PROVE  /\ Len(list) \in Nat /\ DOMAIN list = 1 .. Len(list)
         /\ \A k \in 1 .. Len(list) :
              list[k] \in Entry /\ list[k].h \in Handlers /\ list[k].time \in Nat
<1>1. \A k \in 1 .. Len(list) : list[k] \in Entry
  BY ElementOfSeq
<1>2. \A e \in Entry : e.h \in Handlers /\ e.time \in Nat
  BY DEF Entry
<1>3. QED  BY <1>1, <1>2, LenProperties

\* No entry has less time left than the one before it.
LEMMA BeforeGrows ==
  ASSUME NEW list \in Seq(Entry)
  PROVE  /\ \A k \in 0 .. Len(list) : Before(list, k) \in Nat
         /\ \A j, k \in 0 .. Len(list) : j <= k => Before(list, j) <= Before(list, k)
<1> DEFINE n == Len(list)
           S == {k \in 0 .. n : \A j \in 0 .. k : /\ Before(list, j) \in Nat
                                                /\ Before(list, j) <= Before(list, k)}
<1>1. n \in Nat /\ \A k \in 1 .. n : list[k].time \in Nat
  BY EntryTypes
<1>2. 0 \in S
  BY <1>1, BeforeIs
<1>3. ASSUME NEW k \in 0 .. (n - 1), k \in S PROVE k + 1 \in S
  <2>1. k + 1 \in 1 .. n /\ (k + 1) - 1 = k
    BY <1>1
  <2>2. Before(list, k + 1) = Before(list, k) + list[k + 1].time
    BY <1>1, <2>1, BeforeIs
  <2>3. Before(list, k) \in Nat /\ Before(list, k + 1) \in Nat
        /\ Before(list, k) <= Before(list, k + 1)
    BY <1>1, <1>3, <2>1, <2>2
  <2>4. ASSUME NEW j \in 0 .. (k + 1)
        PROVE  Before(list, j) \in Nat /\ Before(list, j) <= Before(list, k + 1)
    <3>1. CASE j = k + 1
      BY <3>1, <2>3
    <3>2. CASE j # k + 1
      <4>1. j \in 0 .. k
        BY <3>2
      <4>2. Before(list, j) \in Nat /\ Before(list, j) <= Before(list, k)
        BY <1>3, <4>1
      <4>3. QED  BY <4>2, <2>3
    <3>3. QED  BY <3>1, <3>2
  <2>5. QED  BY <2>1, <2>3, <2>4
<1>4. 0 .. n \subseteq S
  <2> HIDE DEF S
  <2>1. QED  BY <1>1, <1>2, <1>3, Induct
<1>5. ASSUME NEW k \in 0 .. n
      PROVE  \A j \in 0 .. k : Before(list, j) \in Nat /\ Before(list, j) <= Before(list, k)
  BY <1>4
<1>6. ASSUME NEW k \in 0 .. n, NEW j \in 0 .. n, j <= k
      PROVE  Before(list, j) <= Before(list, k)
  <2>1. j \in 0 .. k
    BY <1>6
  <2>2. QED  BY <1>5, <2>1
<1>7. QED  BY <1>1, <1>5, <1>6

\* sys_timeout's loop stops, after those that have as much time left or less.
LEMMA PlaceExists ==
  ASSUME NEW list \in Seq(Entry), NEW ms \in Nat
  PROVE  \E i \in 0 .. Len(list) : IsPlace(list, ms, i)
<1> DEFINE n == Len(list)
           T == {i \in 0 .. n : i = n \/ list[i + 1].time > ms - Before(list, i)}
<1>1. n \in Nat /\ T \in SUBSET Nat /\ n \in T
  OBVIOUS
<1>2. PICK i \in T : \A m \in T : i <= m
  <2> HIDE DEF T
  <2>1. QED  BY <1>1, Least
<1>3. i \in 0 .. n /\ (i = n \/ list[i + 1].time > ms - Before(list, i))
  BY <1>2
<1>4. ASSUME NEW j \in 0 .. (i - 1) PROVE list[j + 1].time <= ms - Before(list, j)
  <2>1. j \in 0 .. n /\ j # n /\ j \notin T /\ j + 1 \in 1 .. n
    BY <1>1, <1>2, <1>3
  <2>2. ~ (list[j + 1].time > ms - Before(list, j))
    BY <2>1
  <2>3. list[j + 1].time \in Nat /\ Before(list, j) \in Nat
    BY <2>1, BeforeGrows, EntryTypes
  <2>4. QED  BY <2>2, <2>3
<1>5. QED  BY <1>3, <1>4 DEF IsPlace

LEMMA PlaceSplits ==
  ASSUME NEW list \in Seq(Entry), NEW ms \in Nat, NEW i \in 0 .. Len(list),
         IsPlace(list, ms, i)
  PROVE  /\ Before(list, i) <= ms
         /\ i # Len(list) => ms < Before(list, i + 1)
         /\ \A j \in 1 .. Len(list) : Before(list, j) <= ms <=> j <= i
<1> DEFINE n == Len(list)
<1>1. /\ n \in Nat /\ \A k \in 1 .. n : list[k].time \in Nat
      /\ \A k \in 0 .. n : Before(list, k) \in Nat
      /\ Before(list, 0) = 0
      /\ \A k \in 1 .. n : Before(list, k) = Before(list, k - 1) + list[k].time
  BY BeforeGrows, BeforeIs, EntryTypes
<1>2. Before(list, i) <= ms
  <2>1. CASE i = 0
    BY <2>1, <1>1
  <2>2. CASE i # 0
    <3>1. i - 1 \in 0 .. (i - 1) /\ (i - 1) + 1 = i /\ i \in 1 .. n /\ i - 1 \in 0 .. n
      BY <2>2
    <3>2. list[i].time <= ms - Before(list, i - 1)
      BY <3>1 DEF IsPlace
    <3>3. QED  BY <1>1, <3>1, <3>2
  <2>3. QED  BY <2>1, <2>2
<1>3. ASSUME i # n PROVE ms < Before(list, i + 1)
  <2>1. i + 1 \in 1 .. n /\ (i + 1) - 1 = i
    BY <1>3
  <2>2. list[i + 1].time > ms - Before(list, i)
    BY <1>3 DEF IsPlace
  <2>3. Before(list, i + 1) = Before(list, i) + list[i + 1].time
    BY <1>1, <2>1
  <2>4. list[i + 1].time \in Nat /\ Before(list, i) \in Nat
    BY <1>1, <2>1
  <2>5. QED  BY <2>2, <2>3, <2>4
<1>4. ASSUME NEW j \in 1 .. n PROVE Before(list, j) <= ms <=> j <= i
  <2>1. j \in 0 .. n /\ Before(list, j) \in Nat /\ Before(list, i) \in Nat
    BY <1>1
  <2>2. CASE j <= i
    <3>1. Before(list, j) <= Before(list, i)
      BY <2>1, <2>2, BeforeGrows
    <3>2. QED  BY <1>2, <2>1, <2>2, <3>1
  <2>3. CASE ~ (j <= i)
    <3>1. i # n /\ i + 1 \in 0 .. n /\ i + 1 <= j
      BY <2>3
    <3>2. Before(list, i + 1) <= Before(list, j) /\ Before(list, i + 1) \in Nat
      BY <2>1, <3>1, <1>1, BeforeGrows
    <3>3. QED  BY <1>3, <2>1, <2>3, <3>1, <3>2
  <2>4. QED  BY <2>2, <2>3
<1>5. QED  BY <1>2, <1>3, <1>4

-----------------------------------------------------------------------------

\* In new an entry stands at place p, around it are those of list in their order.
Around(list, new, p) ==
  /\ Len(new) = Len(list) + 1 /\ p \in 1 .. Len(new)
  /\ \A j \in 1 .. (p - 1) : new[j].h = list[j].h
  /\ \A j \in p .. Len(list) : new[j + 1].h = list[j].h

\* Those entries have as much time left as in list.
KeepsTimes(list, new, p) ==
  /\ \A j \in 1 .. (p - 1) : Before(new, j) = Before(list, j)
  /\ \A j \in p .. Len(list) : Before(new, j + 1) = Before(list, j)

\* What InsertAt and RemoveAt leave at each place.
LEMMA Inserted ==
  ASSUME NEW S, NEW s \in Seq(S), NEW e \in S, NEW p \in 1 .. (Len(s) + 1)
  PROVE  /\ InsertAt(s, p, e) \in Seq(S) /\ Len(InsertAt(s, p, e)) = Len(s) + 1
         /\ \A j \in 1 .. (Len(s) + 1) :
              InsertAt(s, p, e)[j] = IF j < p THEN s[j] ELSE IF j = p THEN e ELSE s[j - 1]
<1> DEFINE n == Len(s)
           l == SubSeq(s, 1, p - 1)
           r == SubSeq(s, p, n)
           t == (l \o <<e>>) \o r
<1>1. n \in Nat /\ p - 1 \in 0 .. n
  BY LenProperties
<1>2. l \in Seq(S) /\ Len(l) = p - 1 /\ \A j \in 1 .. (p - 1) : l[j] = s[j]
  BY <1>1, SubSeqProperties
<1>3. r \in Seq(S) /\ Len(r) = n - p + 1 /\ \A j \in 1 .. (n - p + 1) : r[j] = s[p + j - 1]
  BY <1>1, SubSeqProperties
<1>4. <<e>> \in Seq(S) /\ Len(<<e>>) = 1 /\ <<e>>[1] = e
  OBVIOUS
<1> HIDE DEF l, r
<1>5. /\ l \o <<e>> \in Seq(S) /\ Len(l \o <<e>>) = p
      /\ \A j \in 1 .. p : (l \o <<e>>)[j] = IF j < p THEN s[j] ELSE e
  BY <1>1, <1>2, <1>4, ConcatProperties
<1>6. /\ t \in Seq(S) /\ Len(t) = n + 1
      /\ \A j \in 1 .. (n + 1) : t[j] = IF j <= p THEN (l \o <<e>>)[j] ELSE r[j - p]
  BY <1>1, <1>3, <1>5, ConcatProperties
<1> HIDE DEF t
<1>7. \A j \in 1 .. (n + 1) : t[j] = IF j < p THEN s[j] ELSE IF j = p THEN e ELSE s[j - 1]
  <2> SUFFICES ASSUME NEW j \in 1 .. (n + 1)
               PROVE  t[j] = IF j < p THEN s[j] ELSE IF j = p THEN e ELSE s[j - 1]
    OBVIOUS
  <2>1. CASE j <= p
    BY <2>1, <1>1, <1>5, <1>6
  <2>2. CASE ~ (j <= p)
    <3>1. j - p \in 1 .. (n - p + 1) /\ p + (j - p) - 1 = j - 1
      BY <2>2, <1>1
    <3>2. t[j] = r[j - p] /\ r[j - p] = s[p + (j - p) - 1]
      BY <2>2, <3>1, <1>3, <1>6
    <3>3. QED  BY <2>2, <3>1, <3>2
  <2>3. QED  BY <2>1, <2>2
<1>8. InsertAt(s, p, e) = t
  BY DEF InsertAt, t, l, r
<1>9. QED  BY <1>6, <1>7, <1>8

LEMMA InsertedAt ==
  ASSUME NEW S, NEW s \in Seq(S), NEW e \in S, NEW p \in 1 .. (Len(s) + 1),
         NEW j \in 1 .. (Len(s) + 1)
  PROVE  InsertAt(s, p, e)[j] = IF j < p THEN s[j] ELSE IF j = p THEN e ELSE s[j - 1]
<1>1. \A k \in 1 .. (Len(s) + 1) :
        InsertAt(s, p, e)[k] = IF k < p THEN s[k] ELSE IF k = p THEN e ELSE s[k - 1]
  BY Inserted
<1> DEFINE t == InsertAt(s, p, e)
<1> HIDE DEF t
<1>2. \A k \in 1 .. (Len(s) + 1) : t[k] = IF k < p THEN s[k] ELSE IF k = p THEN e ELSE s[k - 1]
  BY <1>1 DEF t
<1>3. t[j] = IF j < p THEN s[j] ELSE IF j = p THEN e ELSE s[j - 1]
  BY <1>2
<1>4. QED  BY <1>3 DEF t

LEMMA Removed ==
  ASSUME NEW S, NEW s \in Seq(S), NEW p \in 1 .. Len(s)
  PROVE  /\ RemoveAt(s, p) \in Seq(S) /\ Len(RemoveAt(s, p)) = Len(s) - 1
         /\ RemoveAt(s, p) = SubSeq(s, 1, p - 1) \o SubSeq(s, p + 1, Len(s))
         /\ \A j \in 1 .. (Len(s) - 1) :
              RemoveAt(s, p)[j] = IF j < p THEN s[j] ELSE s[j + 1]
<1> DEFINE n == Len(s)
           l == SubSeq(s, 1, p - 1)
           r == SubSeq(s, p + 1, n)
           t == l \o r
<1>1. n \in Nat /\ p - 1 \in 0 .. n
  BY LenProperties
<1>2. l \in Seq(S) /\ Len(l) = p - 1 /\ \A j \in 1 .. (p - 1) : l[j] = s[j]
  BY <1>1, SubSeqProperties
<1>3. r \in Seq(S) /\ Len(r) = n - p /\ \A j \in 1 .. (n - p) : r[j] = s[p + 1 + j - 1]
  BY <1>1, SubSeqProperties
<1> HIDE DEF l, r
<1>a. Len(l) + Len(r) = n - 1
  BY <1>1, <1>2, <1>3
<1>b. /\ t \in Seq(S) /\ Len(t) = Len(l) + Len(r)
      /\ \A j \in 1 .. (Len(l) + Len(r)) :
           t[j] = IF j <= Len(l) THEN l[j] ELSE r[j - Len(l)]
  BY <1>2, <1>3, ConcatProperties
<1>4. /\ t \in Seq(S) /\ Len(t) = n - 1
      /\ \A j \in 1 .. (n - 1) : t[j] = IF j <= p - 1 THEN l[j] ELSE r[j - (p - 1)]
  <2> HIDE DEF t
  <2>1. QED  BY <1>a, <1>b, <1>2
<1> HIDE DEF t
<1>5. \A j \in 1 .. (n - 1) : t[j] = IF j < p THEN s[j] ELSE s[j + 1]
  <2> SUFFICES ASSUME NEW j \in 1 .. (n - 1) PROVE t[j] = IF j < p THEN s[j] ELSE s[j + 1]
    OBVIOUS
  <2>1. CASE j < p
    BY <2>1, <1>1, <1>2, <1>4
  <2>2. CASE ~ (j < p)
    <3>1. j - (p - 1) \in 1 .. (n - p) /\ p + 1 + (j - (p - 1)) - 1 = j + 1
      BY <2>2, <1>1
    <3>2. t[j] = r[j - (p - 1)] /\ r[j - (p - 1)] = s[p + 1 + (j - (p - 1)) - 1]
      BY <2>2, <3>1, <1>3, <1>4
    <3>3. QED  BY <2>2, <3>1, <3>2
  <2>3. QED  BY <2>1, <2>2
<1>6. RemoveAt(s, p) = t
  BY DEF RemoveAt, t, l, r
<1>7. QED  BY <1>4, <1>5, <1>6 DEF t, l, r

-----------------------------------------------------------------------------

\* What sys_timeout links in: a new entry with as much time left as was asked for.
LEMMA LinkedIs ==
  ASSUME NEW list \in Seq(Entry), NEW h \in Handlers, NEW ms \in Nat,
         NEW i \in 0 .. Len(list), IsPlace(list, ms, i)
  PROVE  LET new == Linked(list, h, ms, i)
         IN  /\ new \in Seq(Entry)
             /\ Around(list, new, i + 1) /\ KeepsTimes(list, new, i + 1)
             /\ new[i + 1].h = h /\ Before(new, i + 1) = ms
<1> DEFINE n == Len(list)
           e == [h |-> h, time |-> ms - Before(list, i)]
           new == Linked(list, h, ms, i)
           less == [list EXCEPT ![i + 1].time = @ - e.time]
<1>1. /\ n \in Nat /\ \A k \in 1 .. n : list[k] \in Entry /\ list[k].time \in Nat
      /\ \A k \in 0 .. n : Before(list, k) \in Nat
      /\ Before(list, 0) = 0
      /\ \A k \in 1 .. n : Before(list, k) = Before(list, k - 1) + list[k].time
  BY BeforeGrows, BeforeIs, EntryTypes
<1>2. /\ e \in Entry /\ e.time = ms - Before(list, i) /\ e.h = h /\ e.time \in Nat
      /\ Before(list, i) + e.time = ms
  <2>1. Before(list, i) <= ms /\ Before(list, i) \in Nat
    BY PlaceSplits, <1>1
  <2>2. ms - Before(list, i) \in Nat /\ Before(list, i) + (ms - Before(list, i)) = ms
    BY <2>1
  <2>3. QED  BY <2>2 DEF Entry
<1>3. /\ new \in Seq(Entry) /\ Len(new) = n + 1
      /\ \A j \in 1 .. (n + 1) :
           /\ new[j].h = IF j < i + 1 THEN list[j].h ELSE IF j = i + 1 THEN h ELSE list[j - 1].h
           /\ new[j].time = IF j < i + 1 THEN list[j].time
                            ELSE IF j = i + 1 THEN e.time
                            ELSE IF j = i + 2 THEN list[i + 1].time - e.time
                            ELSE list[j - 1].time
  <2>1. CASE i = n
    <3>1. new = Append(list, e)
      BY <2>1 DEF Linked
    <3> HIDE DEF new, e
    <3>2. /\ new \in Seq(Entry) /\ Len(new) = n + 1
          /\ \A j \in 1 .. n : new[j] = list[j]
          /\ new[n + 1] = e
      BY <3>1, <1>2, AppendProperties
    <3>3. QED  BY <3>2, <2>1, <1>1, <1>2
  <2>2. CASE i # n
    <3>1. i + 1 \in 1 .. n /\ i + 1 \in 1 .. (n + 1)
      BY <2>2, <1>1
    <3>2. new = InsertAt(less, i + 1, e)
      BY <2>2 DEF Linked
    <3> DEFINE rest == [list[i + 1] EXCEPT !.time = @ - e.time]
    <3> HIDE DEF e
    <3>3. list[i + 1].time - e.time \in Nat
      <4>1. ms < Before(list, i + 1)
        BY <2>2, PlaceSplits
      <4>2. Before(list, i + 1) = Before(list, i) + list[i + 1].time
        BY <1>1, <3>1
      <4>3. list[i + 1].time \in Nat /\ Before(list, i) \in Nat
        BY <1>1, <3>1
      <4>4. QED  BY <4>1, <4>2, <4>3, <1>2
    <3>4. rest \in Entry /\ rest.h = list[i + 1].h /\ rest.time = list[i + 1].time - e.time
      BY <3>1, <3>3, <1>1 DEF Entry
    <3>5. less = [list EXCEPT ![i + 1] = rest]
      OBVIOUS
    <3> HIDE DEF rest, less, new
    <3>6. /\ less \in Seq(Entry) /\ Len(less) = n
          /\ \A j \in 1 .. n : less[j] = IF j = i + 1 THEN rest ELSE list[j]
      BY <3>1, <3>4, <3>5, ExceptSeq
    <3>7. /\ new \in Seq(Entry) /\ Len(new) = n + 1
          /\ \A j \in 1 .. (n + 1) : new[j] =
               IF j < i + 1 THEN less[j] ELSE IF j = i + 1 THEN e ELSE less[j - 1]
      <4>1. i + 1 \in 1 .. (Len(less) + 1) /\ e \in Entry
        BY <3>1, <3>6, <1>2
      <4> DEFINE into == InsertAt(less, i + 1, e)
      <4>2. /\ into \in Seq(Entry) /\ Len(into) = Len(less) + 1
            /\ \A j \in 1 .. (Len(less) + 1) : into[j] =
                 IF j < i + 1 THEN less[j] ELSE IF j = i + 1 THEN e ELSE less[j - 1]
        <5>1. less \in Seq(Entry)
          BY <3>6
        <5>2. into \in Seq(Entry) /\ Len(into) = Len(less) + 1
          BY <5>1, <4>1, Inserted
        <5> DEFINE p == i + 1
        <5>3. p \in 1 .. (Len(less) + 1)
          BY <4>1
        <5> HIDE DEF p
        <5>4. \A j \in 1 .. (Len(less) + 1) : InsertAt(less, p, e)[j] =
                IF j < p THEN less[j] ELSE IF j = p THEN e ELSE less[j - 1]
          BY <5>1, <4>1, <5>3, Inserted
        <5>5. QED  BY <5>2, <5>4 DEF p
      <4>3. into = new
        BY <3>2
      <4> HIDE DEF into
      <4>4. QED  BY <4>2, <4>3, <3>6
    <3>8. ASSUME NEW j \in 1 .. (n + 1)
          PROVE  /\ j < i + 1 => new[j] = list[j]
                 /\ j = i + 1 => new[j] = e
                 /\ j = i + 2 => new[j] = rest
                 /\ j > i + 2 => new[j] = list[j - 1]
      <4>1. CASE j <= i + 1
        BY <4>1, <3>1, <3>6, <3>7
      <4>2. CASE j > i + 1
        <5>1. j - 1 \in 1 .. n /\ new[j] = less[j - 1]
          BY <4>2, <3>1, <3>7
        <5>2. QED  BY <4>2, <5>1, <3>6
      <4>3. QED  BY <4>1, <4>2
    <3>9. ASSUME NEW j \in 1 .. (n + 1)
          PROVE  /\ new[j].h = IF j < i + 1 THEN list[j].h
                               ELSE IF j = i + 1 THEN h ELSE list[j - 1].h
                 /\ new[j].time = IF j < i + 1 THEN list[j].time
                                  ELSE IF j = i + 1 THEN e.time
                                  ELSE IF j = i + 2 THEN list[i + 1].time - e.time
                                  ELSE list[j - 1].time
      <4>1. j \in Int /\ i \in Int
        BY <1>1
      <4>2. CASE j < i + 1
        BY <4>2, <3>8
      <4>3. CASE j = i + 1
        BY <4>3, <3>8, <1>2
      <4>4. CASE j = i + 2
        <5>1. j - 1 = i + 1 /\ ~ (j < i + 1) /\ j # i + 1
          BY <4>4
        <5>2. QED  BY <4>4, <5>1, <3>8, <3>4
      <4>5. CASE j > i + 2
        BY <4>5, <3>8
      <4>6. j < i + 1 \/ j = i + 1 \/ j = i + 2 \/ j > i + 2
        BY <4>1
      <4>7. QED  BY <4>2, <4>3, <4>4, <4>5, <4>6
    <3>10. QED  BY <3>7, <3>9
  <2>3. QED  BY <2>1, <2>2
<1> HIDE DEF new, e
<1>4. Around(list, new, i + 1) /\ new[i + 1].h = h
  <2>1. ASSUME NEW j \in (i + 1) .. n PROVE new[j + 1].h = list[j].h
    <3>1. j + 1 \in 1 .. (n + 1) /\ ~ (j + 1 < i + 1) /\ j + 1 # i + 1 /\ (j + 1) - 1 = j
      BY <1>1
    <3>2. QED  BY <3>1, <1>3
  <2>2. ASSUME NEW j \in 1 .. ((i + 1) - 1) PROVE new[j].h = list[j].h
    <3>1. j \in 1 .. (n + 1) /\ j < i + 1
      BY <1>1
    <3>2. QED  BY <3>1, <1>3
  <2>3. i + 1 \in 1 .. (n + 1) /\ ~ (i + 1 < i + 1)
    BY <1>1
  <2>4. QED  BY <2>1, <2>2, <2>3, <1>3 DEF Around
<1>5. KeepsTimes(list, new, i + 1) /\ Before(new, i + 1) = ms
  <2> DEFINE f == [k \in 0 .. (n + 1) |-> IF k < i + 1 THEN Before(list, k)
                                          ELSE IF k = i + 1 THEN ms ELSE Before(list, k - 1)]
  <2>f. \A k \in 0 .. (n + 1) : f[k] = IF k < i + 1 THEN Before(list, k)
                                  ELSE IF k = i + 1 THEN ms ELSE Before(list, k - 1)
    OBVIOUS
  <2> HIDE DEF f
  <2>1. f[0] = 0
    BY <2>f, <1>1
  <2>2. ASSUME NEW k \in 1 .. (n + 1) PROVE f[k] = f[k - 1] + new[k].time
    <3>1. k - 1 \in 0 .. (n + 1) /\ k \in 0 .. (n + 1)
      BY <1>1
    <3>2. CASE k < i + 1
      <4>1. k \in 1 .. n /\ k - 1 < i + 1
        BY <3>2, <1>1
      <4>2. f[k] = Before(list, k) /\ f[k - 1] = Before(list, k - 1)
        BY <3>1, <3>2, <4>1, <2>f
      <4>3. new[k].time = list[k].time
        BY <3>2, <1>3
      <4>4. QED  BY <4>1, <4>2, <4>3, <1>1
    <3>3. CASE k = i + 1
      <4>1. k - 1 = i /\ i < i + 1 /\ ~ (k < i + 1)
        BY <3>3
      <4>2. f[k] = ms /\ f[k - 1] = Before(list, i)
        BY <3>1, <3>3, <4>1, <2>f
      <4>3. new[k].time = e.time
        BY <3>3, <4>1, <1>3
      <4>4. QED  BY <4>2, <4>3, <1>2
    <3>4. CASE k = i + 2
      <4>1. k - 1 = i + 1 /\ i + 1 \in 1 .. n /\ (i + 1) - 1 = i
        BY <3>4, <1>1
      <4>2. f[k] = Before(list, i + 1) /\ f[k - 1] = ms
        BY <3>1, <3>4, <4>1, <2>f
      <4>3. Before(list, i + 1) = Before(list, i) + list[i + 1].time
        BY <1>1, <4>1
      <4>4. new[k].time = list[i + 1].time - e.time
        BY <3>4, <1>3
      <4>5. list[i + 1].time \in Nat /\ Before(list, i) \in Nat
        BY <1>1, <4>1
      <4>6. QED  BY <4>2, <4>3, <4>4, <4>5, <1>2
    <3>5. CASE k > i + 2
      <4>1. k - 1 \in 1 .. n /\ k - 1 > i + 1
        BY <3>5, <1>1
      <4>2. f[k] = Before(list, k - 1) /\ f[k - 1] = Before(list, (k - 1) - 1)
        BY <3>1, <3>5, <4>1, <2>f
      <4>3. Before(list, k - 1) = Before(list, (k - 1) - 1) + list[k - 1].time
        BY <1>1, <4>1
      <4>4. new[k].time = list[k - 1].time
        BY <3>5, <1>3
      <4>5. QED  BY <4>2, <4>3, <4>4
    <3>6. QED  BY <3>2, <3>3, <3>4, <3>5
  <2>3. \A k \in 0 .. (n + 1) : Before(new, k) = f[k]
    <3>1. QED  BY <2>1, <2>2, <1>1, <1>3, BeforeIsUnique
  <2>4. \A k \in 0 .. (n + 1) : Before(new, k) = IF k < i + 1 THEN Before(list, k)
                                  ELSE IF k = i + 1 THEN ms ELSE Before(list, k - 1)
    BY <2>3, <2>f
  <2>5. \A j \in (i + 1) .. n : j + 1 \in 0 .. (n + 1) /\ j + 1 > i + 1 /\ (j + 1) - 1 = j
    BY <1>1
  <2>6. i + 1 \in 0 .. (n + 1) /\ \A j \in 1 .. ((i + 1) - 1) : j \in 0 .. (n + 1) /\ j < i + 1
    BY <1>1
  <2>7. QED  BY <2>4, <2>5, <2>6 DEF KeepsTimes
<1>6. QED  BY <1>3, <1>4, <1>5 DEF new

\* What sys_untimeout leaves: the other entries, with as much time left.
LEMMA UnlinkedIs ==
  ASSUME NEW list \in Seq(Entry), NEW i \in 1 .. Len(list)
  PROVE  LET new == Unlinked(list, i)
         IN  new \in Seq(Entry) /\ Around(new, list, i) /\ KeepsTimes(new, list, i)
<1> DEFINE n == Len(list)
           new == Unlinked(list, i)
           rest == [list[i + 1] EXCEPT !.time = @ + list[i].time]
           more == IF i = n THEN list ELSE [list EXCEPT ![i + 1] = rest]
<1>1. /\ n \in Nat /\ \A k \in 1 .. n : list[k] \in Entry /\ list[k].time \in Nat
      /\ \A k \in 0 .. n : Before(list, k) \in Nat
      /\ Before(list, 0) = 0
      /\ \A k \in 1 .. n : Before(list, k) = Before(list, k - 1) + list[k].time
  BY BeforeGrows, BeforeIs, EntryTypes
<1>2. ASSUME i # n
      PROVE  /\ i + 1 \in 1 .. n
             /\ rest \in Entry /\ rest.h = list[i + 1].h
             /\ rest.time = list[i + 1].time + list[i].time
  <2>1. i + 1 \in 1 .. n
    BY <1>1, <1>2
  <2>2. list[i + 1] \in Entry /\ list[i + 1].time + list[i].time \in Nat
    BY <1>1, <2>1
  <2>3. QED  BY <2>1, <2>2 DEF Entry
<1>3. new = RemoveAt(more, i)
  BY DEF Unlinked
<1> HIDE DEF rest
<1>4. /\ more \in Seq(Entry) /\ Len(more) = n
      /\ \A j \in 1 .. n : more[j] = IF j = i + 1 THEN rest ELSE list[j]
  <2>1. CASE i = n
    <3>1. \A j \in 1 .. n : j # i + 1
      BY <2>1, <1>1
    <3>2. QED  BY <2>1, <3>1
  <2>2. CASE i # n
    <3>1. more = [list EXCEPT ![i + 1] = rest]
      BY <2>2
    <3> HIDE DEF more
    <3>2. QED  BY <3>1, <2>2, <1>2, ExceptSeq
  <2>3. QED  BY <2>1, <2>2
<1> HIDE DEF more, new
<1>5. /\ new \in Seq(Entry) /\ Len(new) = n - 1
      /\ \A j \in 1 .. (n - 1) : new[j] = IF j < i THEN more[j] ELSE more[j + 1]
  <2>1. i \in 1 .. Len(more)
    BY <1>4
  <2>2. /\ RemoveAt(more, i) \in Seq(Entry) /\ Len(RemoveAt(more, i)) = Len(more) - 1
    BY <1>4, <2>1, Removed
  <2>3. \A j \in 1 .. (Len(more) - 1) :
          RemoveAt(more, i)[j] = IF j < i THEN more[j] ELSE more[j + 1]
    BY <1>4, <2>1, Removed
  <2>4. QED  BY <1>3, <1>4, <2>2, <2>3
<1>6. \A j \in 1 .. (n - 1) : /\ j < i => new[j] = list[j]
                              /\ j = i => new[j] = rest
                              /\ j > i => new[j] = list[j + 1]
  <2> TAKE j \in 1 .. (n - 1)
  <2>1. j \in 1 .. n /\ j + 1 \in 1 .. n /\ i \in Int
    BY <1>1
  <2>2. CASE j < i
    BY <2>1, <2>2, <1>4, <1>5
  <2>3. CASE j = i
    BY <2>1, <2>3, <1>4, <1>5
  <2>4. CASE j > i
    BY <2>1, <2>4, <1>4, <1>5
  <2>5. QED  BY <2>1, <2>2, <2>3, <2>4
<1>7. Around(new, list, i)
  <2>1. ASSUME NEW j \in 1 .. (i - 1) PROVE list[j].h = new[j].h
    <3>1. j \in 1 .. (n - 1) /\ j < i
      BY <1>1
    <3>2. QED  BY <3>1, <1>6
  <2>2. ASSUME NEW j \in i .. (n - 1) PROVE list[j + 1].h = new[j].h
    <3>1. j \in 1 .. (n - 1) /\ i # n /\ (j = i \/ j > i)
      BY <1>1
    <3>2. QED  BY <3>1, <1>2, <1>6
  <2>3. n = Len(new) + 1 /\ i \in 1 .. n /\ Len(new) = n - 1
    BY <1>1, <1>5
  <2>4. QED  BY <2>1, <2>2, <2>3 DEF Around
<1>8. KeepsTimes(new, list, i)
  <2> DEFINE f == [k \in 0 .. (n - 1) |-> IF k < i THEN Before(list, k) ELSE Before(list, k + 1)]
  <2>f. \A k \in 0 .. (n - 1) : f[k] = IF k < i THEN Before(list, k) ELSE Before(list, k + 1)
    OBVIOUS
  <2> HIDE DEF f
  <2>1. f[0] = 0
    <3>1. 0 \in 0 .. (n - 1) /\ 0 < i
      BY <1>1
    <3>2. QED  BY <3>1, <2>f, <1>1
  <2>2. ASSUME NEW k \in 1 .. (n - 1) PROVE f[k] = f[k - 1] + new[k].time
    <3>1. /\ k - 1 \in 0 .. (n - 1) /\ k \in 0 .. (n - 1) /\ k \in 1 .. n /\ k + 1 \in 1 .. n
          /\ (k + 1) - 1 = k /\ (k - 1) + 1 = k /\ i \in Int
      BY <1>1
    <3>2. CASE k < i
      <4>1. f[k] = Before(list, k) /\ f[k - 1] = Before(list, k - 1) /\ new[k].time = list[k].time
        BY <3>1, <3>2, <2>f, <1>6
      <4>2. QED  BY <4>1, <3>1, <1>1
    <3>3. CASE k = i
      <4>1. f[k] = Before(list, k + 1) /\ f[k - 1] = Before(list, k - 1)
        BY <3>1, <3>3, <2>f
      <4>2. i # n
        BY <3>3, <3>1
      <4>3. new[k].time = list[k + 1].time + list[k].time
        BY <3>3, <4>2, <1>2, <1>6
      <4>4. /\ Before(list, k + 1) = Before(list, k) + list[k + 1].time
            /\ Before(list, k) = Before(list, k - 1) + list[k].time
        BY <3>1, <1>1
      <4>5. Before(list, k - 1) \in Nat /\ list[k].time \in Nat /\ list[k + 1].time \in Nat
        <5>1. k - 1 \in 0 .. n
          BY <3>1
        <5>2. QED  BY <5>1, <3>1, <1>1
      <4>6. QED  BY <4>1, <4>3, <4>4, <4>5
    <3>4. CASE k > i
      <4>1. /\ f[k] = Before(list, k + 1) /\ f[k - 1] = Before(list, k)
            /\ new[k].time = list[k + 1].time
        BY <3>1, <3>4, <2>f, <1>6
      <4>2. Before(list, k + 1) = Before(list, k) + list[k + 1].time
        BY <3>1, <1>1
      <4>3. QED  BY <4>1, <4>2
    <3>5. QED  BY <3>1, <3>2, <3>3, <3>4
  <2>3. n - 1 \in Nat /\ Len(new) = n - 1
    BY <1>1, <1>5
  <2>4. \A k \in 0 .. (n - 1) : Before(new, k) = f[k]
    BY <2>1, <2>2, <2>3, BeforeIsUnique
  <2>5. ASSUME NEW j \in 1 .. (i - 1) PROVE Before(list, j) = Before(new, j)
    <3>1. j \in 0 .. (n - 1) /\ j < i
      BY <1>1
    <3>2. QED  BY <3>1, <2>4, <2>f
  <2>6. ASSUME NEW j \in i .. (n - 1) PROVE Before(list, j + 1) = Before(new, j)
    <3>1. j \in 0 .. (n - 1) /\ ~ (j < i)
      BY <1>1
    <3>2. QED  BY <3>1, <2>4, <2>f
  <2>7. QED  BY <2>3, <2>5, <2>6 DEF KeepsTimes
<1>9. QED  BY <1>5, <1>7, <1>8 DEF new

\* What an expiry leaves: the others, with less time left by what the first had.
LEMMA TailIs ==
  ASSUME NEW list \in Seq(Entry), list # <<>>
  PROVE  /\ Tail(list) \in Seq(Entry) /\ Around(Tail(list), list, 1)
         /\ Head(list) = list[1] /\ 1 \in 1 .. Len(list) /\ Before(list, 1) = list[1].time
         /\ \A k \in 0 .. (Len(list) - 1) :
              Before(Tail(list), k) = Before(list, k + 1) - Before(list, 1)
<1> DEFINE n == Len(list)
           new == Tail(list)
<1>1. /\ n \in Nat \ {0} /\ 1 \in 1 .. n /\ Before(list, 0) = 0
      /\ \A k \in 0 .. n : Before(list, k) \in Nat
      /\ \A k \in 1 .. n : Before(list, k) = Before(list, k - 1) + list[k].time
      /\ \A k \in 1 .. n : list[k].time \in Nat
  <2>1. n \in Nat \ {0}
    BY EmptySeq, EntryTypes
  <2>2. QED  BY <2>1, BeforeGrows, BeforeIs, EntryTypes
<1>2. /\ new \in Seq(Entry) /\ Len(new) = n - 1 /\ Head(list) = list[1]
      /\ \A k \in 1 .. (n - 1) : new[k] = list[k + 1]
  <2>1. new \in Seq(Entry) /\ Len(new) = n - 1 /\ \A k \in 1 .. Len(new) : new[k] = list[k + 1]
    BY HeadTailProperties
  <2>2. QED  BY <2>1
<1> HIDE DEF new
<1>3. Before(list, 1) = list[1].time
  BY <1>1
<1>4. Around(new, list, 1)
  BY <1>1, <1>2 DEF Around
<1>5. \A k \in 0 .. (n - 1) : Before(new, k) = Before(list, k + 1) - Before(list, 1)
  <2> DEFINE f == [k \in 0 .. (n - 1) |-> Before(list, k + 1) - Before(list, 1)]
  <2>f. \A k \in 0 .. (n - 1) : f[k] = Before(list, k + 1) - Before(list, 1)
    OBVIOUS
  <2> HIDE DEF f
  <2>1. f[0] = 0
    <3>1. 0 \in 0 .. (n - 1) /\ 0 + 1 = 1 /\ 1 \in 0 .. n
      BY <1>1
    <3>2. QED  BY <3>1, <2>f, <1>1
  <2>2. ASSUME NEW k \in 1 .. (n - 1) PROVE f[k] = f[k - 1] + new[k].time
    <3>1. /\ k \in 0 .. (n - 1) /\ k - 1 \in 0 .. (n - 1) /\ (k - 1) + 1 = k /\ (k + 1) - 1 = k
          /\ k + 1 \in 1 .. n /\ k \in 0 .. n /\ 1 \in 0 .. n
      BY <1>1
    <3>2. f[k] = Before(list, k + 1) - Before(list, 1) /\ f[k - 1] = Before(list, k) - Before(list, 1)
      BY <3>1, <2>f
    <3>3. Before(list, k + 1) = Before(list, k) + list[k + 1].time /\ new[k].time = list[k + 1].time
      BY <3>1, <1>1, <1>2
    <3>4. Before(list, k) \in Nat /\ Before(list, 1) \in Nat /\ list[k + 1].time \in Nat
      BY <3>1, <1>1
    <3>5. QED  BY <3>2, <3>3, <3>4
  <2>3. n - 1 \in Nat
    BY <1>1
  <2>4. \A k \in 0 .. (n - 1) : Before(new, k) = f[k]
    BY <2>1, <2>2, <2>3, <1>2, BeforeIsUnique
  <2>5. QED  BY <2>4, <2>f
<1>6. QED  BY <1>1, <1>2, <1>3, <1>4, <1>5 DEF new

-----------------------------------------------------------------------------

\* What sys_timeout does: nothing without room, otherwise the new entry is linked in.
LEMMA TimeoutIs ==
  ASSUME NEW list \in Seq(Entry), NEW h \in Handlers, NEW ms \in Nat
  PROVE  LET new == sys_timeout(list, ms, h)
         IN  /\ ~ PoolHasRoom(list) => new = list
             /\ PoolHasRoom(list) =>
                  \E i \in 0 .. Len(list) : IsPlace(list, ms, i) /\ new = Linked(list, h, ms, i)
<1> DEFINE place == CHOOSE i \in 0 .. Len(list) : IsPlace(list, ms, i)
<1>1. place \in 0 .. Len(list) /\ IsPlace(list, ms, place)
  BY PlaceExists
<1>2. PoolHasRoom(list) => sys_timeout(list, ms, h) = Linked(list, h, ms, place)
  BY DEF sys_timeout
<1>3. ~ PoolHasRoom(list) => sys_timeout(list, ms, h) = list
  BY DEF sys_timeout
<1> HIDE DEF place
<1>4. QED  BY <1>1, <1>2, <1>3

\* The agenda a list of differences stands for.
AgendaOf(list) == [i \in DOMAIN list |-> [h |-> list[i].h, left |-> Before(list, i)]]

Promise == [h : Handlers, left : Nat]

LEMMA AgendaIs ==
  ASSUME NEW list \in Seq(Entry)
  PROVE  /\ AgendaOf(list) \in Seq(Promise) /\ Len(AgendaOf(list)) = Len(list)
         /\ DOMAIN AgendaOf(list) = 1 .. Len(list)
         /\ \A k \in 1 .. Len(list) :
              /\ AgendaOf(list)[k] = [h |-> list[k].h, left |-> Before(list, k)]
              /\ AgendaOf(list)[k] \in Promise
              /\ AgendaOf(list)[k].h = list[k].h /\ AgendaOf(list)[k].left = Before(list, k)
<1> DEFINE n == Len(list)
           e(k) == [h |-> list[k].h, left |-> Before(list, k)]
<1>1. /\ n \in Nat /\ DOMAIN list = 1 .. n
      /\ \A k \in 1 .. n : list[k].h \in Handlers /\ Before(list, k) \in Nat
  BY EntryTypes, BeforeGrows
<1>2. \A k \in 1 .. n : e(k) \in Promise
  BY <1>1 DEF Promise
<1>3. AgendaOf(list) = [k \in 1 .. n |-> e(k)]
  BY <1>1 DEF AgendaOf
<1> HIDE DEF e
<1>4. AgendaOf(list) \in Seq(Promise) /\ Len(AgendaOf(list)) = n
      /\ DOMAIN AgendaOf(list) = 1 .. n
  BY <1>1, <1>2, <1>3
<1>5. \A k \in 1 .. n : AgendaOf(list)[k] = e(k)
  BY <1>3
<1>6. QED  BY <1>2, <1>4, <1>5 DEF e

\* A new entry comes where the agenda wants it, and moves no other.
LEMMA InsertionInAgenda ==
  ASSUME NEW list \in Seq(Entry), NEW new \in Seq(Entry), NEW i \in 0 .. Len(list),
         Around(list, new, i + 1), KeepsTimes(list, new, i + 1)
  PROVE  LET ag == AgendaOf(list)
         IN  AgendaOf(new) = SubSeq(ag, 1, i) \o <<AgendaOf(new)[i + 1]>>
                               \o SubSeq(ag, i + 1, Len(ag))
<1> DEFINE n == Len(list)
           ag == AgendaOf(list)
           ag2 == AgendaOf(new)
           p == i + 1
           e == ag2[p]
<1>1. /\ n \in Nat /\ ag \in Seq(Promise) /\ Len(ag) = n
      /\ \A k \in 1 .. n : ag[k] = [h |-> list[k].h, left |-> Before(list, k)]
  BY AgendaIs, EntryTypes
<1>2. /\ ag2 \in Seq(Promise) /\ Len(ag2) = n + 1
      /\ \A k \in 1 .. (n + 1) : /\ ag2[k] = [h |-> new[k].h, left |-> Before(new, k)]
                                 /\ ag2[k] \in Promise
  <2>1. Len(new) = n + 1
    BY DEF Around
  <2>2. QED  BY <2>1, AgendaIs
<1>3. p \in 1 .. (n + 1) /\ p - 1 = i /\ e \in Promise
  BY <1>1, <1>2
<1>4. /\ \A j \in 1 .. (p - 1) : new[j].h = list[j].h /\ Before(new, j) = Before(list, j)
      /\ \A j \in p .. n : new[j + 1].h = list[j].h /\ Before(new, j + 1) = Before(list, j)
  BY DEF Around, KeepsTimes
<1> HIDE DEF p, ag, ag2, e
<1>5. /\ InsertAt(ag, p, e) \in Seq(Promise) /\ Len(InsertAt(ag, p, e)) = n + 1
  BY <1>1, <1>3, Inserted
<1>6. \A j \in 1 .. (n + 1) :
        InsertAt(ag, p, e)[j] = IF j < p THEN ag[j] ELSE IF j = p THEN e ELSE ag[j - 1]
  <2> SUFFICES ASSUME NEW j \in 1 .. (n + 1)
               PROVE  InsertAt(ag, p, e)[j] =
                        IF j < p THEN ag[j] ELSE IF j = p THEN e ELSE ag[j - 1]
    OBVIOUS
  <2>1. p \in 1 .. (Len(ag) + 1) /\ ag \in Seq(Promise) /\ e \in Promise
        /\ j \in 1 .. (Len(ag) + 1)
    BY <1>1, <1>3
  <2>2. QED  BY <2>1, InsertedAt
<1>7. ASSUME NEW j \in 1 .. (n + 1) PROVE ag2[j] = InsertAt(ag, p, e)[j]
  <2>1. CASE j < p
    <3>1. j \in 1 .. n /\ j \in 1 .. (p - 1)
      BY <2>1, <1>1, <1>3
    <3>2. ag[j] = ag2[j]
      BY <3>1, <1>1, <1>2, <1>4
    <3>3. QED  BY <2>1, <3>2, <1>6
  <2>2. CASE j = p
    BY <2>2, <1>3, <1>6 DEF e
  <2>3. CASE j > p
    <3>1. j - 1 \in 1 .. n /\ j - 1 \in p .. n /\ (j - 1) + 1 = j /\ ~ (j < p) /\ j # p
      BY <2>3, <1>1, <1>3
    <3>2. new[j].h = list[j - 1].h /\ Before(new, j) = Before(list, j - 1)
      BY <3>1, <1>4
    <3>3. ag[j - 1] = ag2[j]
      BY <3>1, <3>2, <1>1, <1>2
    <3>4. QED  BY <3>1, <3>3, <1>6
  <2>4. QED  BY <2>1, <2>2, <2>3, <1>3
<1>8. ag2 = InsertAt(ag, p, e)
  BY <1>2, <1>5, <1>7, SeqEqual
<1>9. InsertAt(ag, p, e) = SubSeq(ag, 1, i) \o <<e>> \o SubSeq(ag, p, Len(ag))
  BY <1>3 DEF InsertAt
<1>10. QED  BY <1>8, <1>9 DEF ag, ag2, e, p

LEMMA RemovalInAgenda ==
  ASSUME NEW list \in Seq(Entry), NEW new \in Seq(Entry), NEW i \in 1 .. Len(list),
         Around(new, list, i), KeepsTimes(new, list, i)
  PROVE  LET ag == AgendaOf(list)
         IN  AgendaOf(new) = SubSeq(ag, 1, i - 1) \o SubSeq(ag, i + 1, Len(ag))
<1> DEFINE n == Len(list)
           ag == AgendaOf(list)
           ag2 == AgendaOf(new)
<1>1. /\ n \in Nat /\ ag \in Seq(Promise) /\ Len(ag) = n
      /\ \A k \in 1 .. n : ag[k] = [h |-> list[k].h, left |-> Before(list, k)]
  BY AgendaIs, EntryTypes
<1>2. /\ ag2 \in Seq(Promise) /\ Len(ag2) = n - 1 /\ Len(new) = n - 1
      /\ \A k \in 1 .. (n - 1) : ag2[k] = [h |-> new[k].h, left |-> Before(new, k)]
  <2>1. n = Len(new) + 1 /\ Len(new) \in Nat
    BY EntryTypes DEF Around
  <2>2. Len(new) = n - 1
    BY <2>1, <1>1
  <2>3. QED  BY <2>2, AgendaIs
<1>4. /\ \A j \in 1 .. (i - 1) : new[j].h = list[j].h /\ Before(new, j) = Before(list, j)
      /\ \A j \in i .. (n - 1) : new[j].h = list[j + 1].h /\ Before(new, j) = Before(list, j + 1)
  BY <1>2 DEF Around, KeepsTimes
<1> HIDE DEF ag, ag2
<1>5. /\ RemoveAt(ag, i) \in Seq(Promise) /\ Len(RemoveAt(ag, i)) = n - 1
      /\ RemoveAt(ag, i) = SubSeq(ag, 1, i - 1) \o SubSeq(ag, i + 1, Len(ag))
  BY <1>1, Removed
<1>6. \A j \in 1 .. (n - 1) : RemoveAt(ag, i)[j] = IF j < i THEN ag[j] ELSE ag[j + 1]
  BY <1>1, Removed
<1>7. ASSUME NEW j \in 1 .. (n - 1) PROVE ag2[j] = RemoveAt(ag, i)[j]
  <2>1. CASE j < i
    <3>1. j \in 1 .. n /\ j \in 1 .. (i - 1)
      BY <2>1, <1>1
    <3>2. ag[j] = ag2[j]
      BY <3>1, <1>1, <1>2, <1>4
    <3>3. QED  BY <2>1, <3>2, <1>6
  <2>2. CASE ~ (j < i)
    <3>1. j + 1 \in 1 .. n /\ j \in i .. (n - 1)
      BY <2>2, <1>1
    <3>2. ag[j + 1] = ag2[j]
      BY <3>1, <1>1, <1>2, <1>4
    <3>3. QED  BY <2>2, <3>2, <1>6
  <2>3. QED  BY <2>1, <2>2
<1>8. ag2 = RemoveAt(ag, i)
  BY <1>2, <1>5, <1>7, SeqEqual
<1>9. QED  BY <1>5, <1>8 DEF ag, ag2

LEMMA ExpiryInAgenda ==
  ASSUME NEW list \in Seq(Entry), list # <<>>
  PROVE  LET ag == AgendaOf(list)
         IN  /\ ag # <<>> /\ Head(ag).left = Head(list).time
             /\ AgendaOf(Tail(list)) =
                  [k \in 1 .. (Len(ag) - 1) |->
                     [ag[k + 1] EXCEPT !.left = @ - Head(ag).left]]
<1> DEFINE n == Len(list)
           ag == AgendaOf(list)
           new == Tail(list)
           ag2 == AgendaOf(new)
<1>1. /\ n \in Nat \ {0} /\ 1 \in 1 .. n /\ ag \in Seq(Promise) /\ Len(ag) = n
      /\ \A k \in 1 .. n : /\ ag[k] = [h |-> list[k].h, left |-> Before(list, k)]
                           /\ ag[k] \in Promise
  BY AgendaIs, EntryTypes, TailIs
<1>2. /\ ag2 \in Seq(Promise) /\ Len(ag2) = n - 1 /\ Len(new) = n - 1
      /\ DOMAIN ag2 = 1 .. (n - 1)
      /\ \A k \in 1 .. (n - 1) : ag2[k] = [h |-> new[k].h, left |-> Before(new, k)]
  <2>1. new \in Seq(Entry) /\ n = Len(new) + 1
    BY TailIs DEF Around
  <2>2. Len(new) = n - 1
    BY <2>1, <1>1, EntryTypes
  <2>3. QED  BY <2>1, <2>2, AgendaIs
<1>3. /\ \A k \in 1 .. (n - 1) : new[k].h = list[k + 1].h
      /\ \A k \in 0 .. (n - 1) : Before(new, k) = Before(list, k + 1) - Before(list, 1)
      /\ Before(list, 1) = list[1].time /\ Head(list) = list[1]
  BY <1>2, TailIs DEF Around
<1> HIDE DEF ag, ag2, new
<1>4. ag # <<>> /\ Head(ag) = ag[1]
  BY <1>1
<1>5. Head(ag).left = Before(list, 1) /\ Head(ag).left = Head(list).time
  <2>1. ag[1] = [h |-> list[1].h, left |-> Before(list, 1)]
    BY <1>1
  <2>2. ag[1].left = Before(list, 1)
    BY <2>1
  <2>3. QED  BY <2>2, <1>3, <1>4
<1>6. ASSUME NEW k \in 1 .. (n - 1)
      PROVE  ag2[k] = [ag[k + 1] EXCEPT !.left = @ - Head(ag).left]
  <2>1. k + 1 \in 1 .. n /\ k \in 0 .. (n - 1)
    BY <1>1
  <2>2. ag[k + 1] = [h |-> list[k + 1].h, left |-> Before(list, k + 1)]
    BY <1>1, <2>1
  <2>3. ag2[k] = [h |-> list[k + 1].h, left |-> Before(list, k + 1) - Before(list, 1)]
    BY <1>2, <1>3, <2>1
  <2>4. QED  BY <2>2, <2>3, <1>5
<1>7. ag2 = [k \in 1 .. (n - 1) |-> ag2[k]]
  BY <1>2
<1>8. ag2 = [k \in 1 .. (Len(ag) - 1) |-> [ag[k + 1] EXCEPT !.left = @ - Head(ag).left]]
  BY <1>1, <1>6, <1>7
<1>9. QED  BY <1>4, <1>5, <1>8 DEF ag, ag2, new

-----------------------------------------------------------------------------

\* The types; no time left, and so no entry's time, is too large for a u32_t.
TimerTypes ==
  /\ next_timeout \in Seq(Entry)
  /\ \A k \in 1 .. Len(next_timeout) : Before(next_timeout, k) < U32
  /\ tcpip_tcp_timer_active \in BOOLEAN /\ pcbs \in BOOLEAN
  /\ diff \in 0 .. (U32 - 1)
  /\ at \in Handlers \cup {"main", "check"}

LEMMA TimerConstants ==
  /\ U32 \in Nat /\ Tcp \in Handlers /\ Interval[Tcp] \in 0 .. (U32 - 1)
  /\ Interval[Tcp] \in Times
  /\ \A h \in Range(Periodic) :
       /\ h \in Handlers /\ h # Tcp /\ Interval[h] \in 0 .. (U32 - 1)
       /\ Interval[h] \in Times
  /\ App \subseteq Handlers /\ "main" \notin Handlers /\ "check" \notin Handlers
  /\ App \cap (Range(Periodic) \cup {Tcp}) = {}
  /\ \A ms \in AppTimes : ms \in 0 .. (U32 - 1) /\ ms \in Times
<1>1. /\ U32 \in Nat /\ Tcp \in Handlers /\ Tcp \in DOMAIN Interval
      /\ \A h \in DOMAIN Interval : Interval[h] \in 1 .. (U32 - 1)
      /\ App \subseteq Handlers /\ "main" \notin Handlers /\ "check" \notin Handlers
      /\ App \cap DOMAIN Interval = {}
  BY TimeoutsAssumption DEF Handlers
<1>2. \A h \in Range(Periodic) : h \in DOMAIN Interval \ {Tcp} /\ h \in Handlers
  <2>1. \A i \in DOMAIN Periodic : Periodic[i] \in DOMAIN Interval \ {Tcp}
    BY TimeoutsAssumption
  <2>2. QED  BY <2>1 DEF Range, Handlers
<1>3. \A h \in Range(Periodic) \cup {Tcp} : Interval[h] \in 0 .. (U32 - 1) /\ Interval[h] \in Times
  <2>1. \A h \in Range(Periodic) \cup {Tcp} : Interval[h] \in 1 .. (U32 - 1)
    BY <1>1, <1>2
  <2>2. QED  BY <1>1, <2>1 DEF Times
<1>4. \A ms \in AppTimes : ms \in 0 .. (U32 - 1) /\ ms \in Times
  BY TimeoutsAssumption DEF Times
<1>5. QED  BY <1>1, <1>2, <1>3, <1>4

\* A request for no more than a u32_t holds keeps the list one.
LEMMA TimeoutKeepsTypes ==
  ASSUME NEW list \in Seq(Entry), \A k \in 1 .. Len(list) : Before(list, k) < U32,
         NEW h \in Handlers, NEW ms \in 0 .. (U32 - 1)
  PROVE  LET new == sys_timeout(list, ms, h)
         IN  new \in Seq(Entry) /\ \A k \in 1 .. Len(new) : Before(new, k) < U32
<1> DEFINE new == sys_timeout(list, ms, h)
<1>1. ms \in Nat /\ ms < U32
  BY TimerConstants
<1>2. CASE ~ PoolHasRoom(list)
  BY <1>1, <1>2, TimeoutIs
<1>3. CASE PoolHasRoom(list)
  <2>1. PICK i \in 0 .. Len(list) : IsPlace(list, ms, i) /\ new = Linked(list, h, ms, i)
    BY <1>1, <1>3, TimeoutIs
  <2> HIDE DEF new
  <2>2. /\ new \in Seq(Entry) /\ Around(list, new, i + 1) /\ KeepsTimes(list, new, i + 1)
        /\ Before(new, i + 1) = ms
    BY <1>1, <2>1, LinkedIs
  <2>3. ASSUME NEW k \in 1 .. Len(new) PROVE Before(new, k) < U32
    <3>1. Len(new) = Len(list) + 1 /\ Len(list) \in Nat
      BY <2>2, EntryTypes DEF Around
    <3>2. CASE k < i + 1
      <4>1. k \in 1 .. ((i + 1) - 1) /\ k \in 1 .. Len(list)
        BY <3>1, <3>2
      <4>2. QED  BY <4>1, <2>2 DEF KeepsTimes
    <3>3. CASE k = i + 1
      BY <3>3, <2>2, <1>1
    <3>4. CASE k > i + 1
      <4>1. k - 1 \in (i + 1) .. Len(list) /\ k - 1 \in 1 .. Len(list) /\ (k - 1) + 1 = k
        BY <3>1, <3>4
      <4>2. Before(new, (k - 1) + 1) = Before(list, k - 1)
        BY <4>1, <2>2 DEF KeepsTimes
      <4>3. QED  BY <4>1, <4>2
    <3>5. QED  BY <3>2, <3>3, <3>4
  <2>4. QED  BY <2>2, <2>3 DEF new
<1>4. QED  BY <1>2, <1>3

\* Setting a timeout is Set of the agenda, or nothing when the pool is empty.
LEMMA TimeoutInAgenda ==
  ASSUME TimerTypes, NEW h \in Handlers, NEW ms \in 0 .. (U32 - 1),
         next_timeout' = sys_timeout(next_timeout, ms, h)
  PROVE  UNCHANGED next_timeout \/ A!Set(h, ms)
<1>1. ms \in Nat /\ next_timeout \in Seq(Entry)
  BY TimerConstants DEF TimerTypes
<1>2. CASE ~ PoolHasRoom(next_timeout)
  BY <1>1, <1>2, TimeoutIs
<1>3. CASE PoolHasRoom(next_timeout)
  <2> DEFINE list == next_timeout
             new == next_timeout'
             ag == AgendaOf(list)
  <2>1. PICK i \in 0 .. Len(list) : IsPlace(list, ms, i) /\ new = Linked(list, h, ms, i)
    BY <1>1, <1>3, TimeoutIs
  <2>2. /\ new \in Seq(Entry) /\ Around(list, new, i + 1) /\ KeepsTimes(list, new, i + 1)
        /\ new[i + 1].h = h /\ Before(new, i + 1) = ms
    BY <1>1, <2>1, LinkedIs
  <2>3. i + 1 \in 1 .. Len(new)
    BY <2>2 DEF Around
  <2>4. AgendaOf(new)[i + 1] = [h |-> h, left |-> ms]
    BY <2>2, <2>3, AgendaIs
  <2>5. AgendaOf(new) = SubSeq(ag, 1, i) \o <<[h |-> h, left |-> ms]>>
                          \o SubSeq(ag, i + 1, Len(ag))
    BY <1>1, <2>2, <2>4, InsertionInAgenda
  <2>6. \A j \in DOMAIN ag : ag[j].left <= ms <=> j <= i
    <3>1. \A j \in 1 .. Len(list) : Before(list, j) <= ms <=> j <= i
      BY <1>1, <2>1, PlaceSplits
    <3>2. DOMAIN ag = 1 .. Len(list) /\ \A j \in 1 .. Len(list) : ag[j].left = Before(list, j)
      BY <1>1, AgendaIs
    <3> HIDE DEF ag
    <3>3. QED  BY <3>1, <3>2
  <2>7. i \in 0 .. Len(ag)
    BY <1>1, AgendaIs
  <2>8. QED  BY <2>5, <2>6, <2>7 DEF A!Set, AgendaOf
<1>4. QED  BY <1>2, <1>3

LEMMA UntimeoutInAgenda ==
  ASSUME TimerTypes, NEW h \in App, sys_untimeout(h)
  PROVE  A!Cancel(h) /\ TimerTypes'
<1> DEFINE list == next_timeout
           new == next_timeout'
           ag == AgendaOf(list)
           i == CHOOSE i \in Of(h) : \A j \in Of(h) : i <= j
<1>1. list \in Seq(Entry) /\ Len(list) \in Nat /\ DOMAIN list = 1 .. Len(list)
  BY EntryTypes DEF TimerTypes
<1>2. i \in 1 .. Len(list) /\ list[i].h = h /\ \A j \in 1 .. (i - 1) : list[j].h # h
  <2>1. Of(h) \in SUBSET Nat /\ Of(h) # {} /\ Of(h) = {j \in 1 .. Len(list) : list[j].h = h}
    BY <1>1 DEF Of, sys_untimeout
  <2>2. i \in Of(h) /\ \A j \in Of(h) : i <= j
    <3>1. \E k \in Of(h) : \A j \in Of(h) : k <= j
      BY <2>1, Least
    <3>2. QED  BY <3>1
  <2> HIDE DEF i
  <2>3. i \in 1 .. Len(list) /\ list[i].h = h
    BY <2>1, <2>2
  <2>4. ASSUME NEW j \in 1 .. (i - 1) PROVE list[j].h # h
    <3>1. j \in 1 .. Len(list) /\ ~ (i <= j)
      BY <1>1, <2>3
    <3>2. QED  BY <2>1, <2>2, <3>1
  <2>5. QED  BY <2>3, <2>4
<1>3. new = Unlinked(list, i)
  BY DEF sys_untimeout
<1> HIDE DEF i
<1>4. new \in Seq(Entry) /\ Around(new, list, i) /\ KeepsTimes(new, list, i)
  BY <1>1, <1>2, <1>3, UnlinkedIs
<1>5. AgendaOf(new) = SubSeq(ag, 1, i - 1) \o SubSeq(ag, i + 1, Len(ag))
  BY <1>1, <1>2, <1>4, RemovalInAgenda
<1>6. i \in DOMAIN ag /\ ag[i].h = h /\ \A j \in 1 .. (i - 1) : ag[j].h # h
  <2>1. DOMAIN ag = 1 .. Len(list) /\ \A j \in 1 .. Len(list) : ag[j].h = list[j].h
    BY <1>1, AgendaIs
  <2> HIDE DEF ag
  <2>2. \A j \in 1 .. (i - 1) : j \in 1 .. Len(list)
    BY <1>1, <1>2
  <2>3. QED  BY <1>2, <2>1, <2>2
<1>7. A!Cancel(h)
  BY <1>5, <1>6 DEF A!Cancel, AgendaOf
<1>8. \A k \in 1 .. Len(new) : Before(new, k) < U32
  <2> SUFFICES ASSUME NEW k \in 1 .. Len(new) PROVE Before(new, k) < U32
    OBVIOUS
  <2>1. Len(list) = Len(new) + 1 /\ Len(new) \in Nat
    BY <1>4, EntryTypes DEF Around
  <2>2. CASE k < i
    <3>1. k \in 1 .. (i - 1) /\ k \in 1 .. Len(list)
      BY <1>2, <2>1, <2>2
    <3>2. Before(new, k) = Before(list, k)
      BY <1>4, <3>1 DEF KeepsTimes
    <3>3. QED  BY <3>1, <3>2 DEF TimerTypes
  <2>3. CASE ~ (k < i)
    <3>1. k \in i .. Len(new) /\ k + 1 \in 1 .. Len(list)
      BY <1>2, <2>1, <2>3
    <3>2. Before(new, k) = Before(list, k + 1)
      BY <1>4, <3>1 DEF KeepsTimes
    <3>3. QED  BY <3>1, <3>2 DEF TimerTypes
  <2>4. QED  BY <2>2, <2>3
<1>9. TimerTypes'
  BY <1>4, <1>8 DEF TimerTypes, sys_untimeout
<1>10. QED  BY <1>7, <1>9

LEMMA ExpireInAgenda ==
  ASSUME TimerTypes, Expire
  PROVE  A!Expire /\ TimerTypes'
<1> DEFINE list == next_timeout
           ag == AgendaOf(list)
<1>1. /\ list \in Seq(Entry) /\ list # <<>> /\ Len(list) \in Nat
      /\ at = "check" /\ Head(list).time <= diff /\ diff' = diff - Head(list).time
      /\ next_timeout' = Tail(list) /\ at' = Head(list).h
  BY EntryTypes DEF TimerTypes, Expire, IsDue
<1>2. /\ 1 \in 1 .. Len(list) /\ Head(list) = list[1] /\ Before(list, 1) = list[1].time
      /\ list[1].time \in Nat /\ list[1].h \in Handlers /\ Head(list).time \in Nat
      /\ Tail(list) \in Seq(Entry) /\ Around(Tail(list), list, 1)
      /\ \A k \in 0 .. (Len(list) - 1) :
           Before(Tail(list), k) = Before(list, k + 1) - Before(list, 1)
  BY <1>1, TailIs, EntryTypes
<1>3. /\ ag # <<>> /\ Head(ag).left = Head(list).time
      /\ AgendaOf(Tail(list)) = [k \in 1 .. (Len(ag) - 1) |->
                                   [ag[k + 1] EXCEPT !.left = @ - Head(ag).left]]
  BY <1>1, ExpiryInAgenda
<1>4. A!Expire
  <2>1. at' # "main" /\ at' # "check"
    BY <1>1, <1>2, TimerConstants
  <2>2. AgendaOf(next_timeout)' = [k \in 1 .. (Len(ag) - 1) |->
                                   [ag[k + 1] EXCEPT !.left = @ - Head(ag).left]]
    BY <1>1, <1>3 DEF AgendaOf
  <2>3. QED  BY <1>1, <1>3, <2>1, <2>2 DEF A!Expire, AgendaOf
<1>5. diff' \in 0 .. (U32 - 1)
  <2>1. diff \in 0 .. (U32 - 1) /\ U32 \in Nat
    BY TimerConstants DEF TimerTypes
  <2>2. QED  BY <2>1, <1>1, <1>2
<1>6. \A k \in 1 .. Len(Tail(list)) : Before(Tail(list), k) < U32
  <2> SUFFICES ASSUME NEW k \in 1 .. Len(Tail(list)) PROVE Before(Tail(list), k) < U32
    OBVIOUS
  <2>1. Len(list) = Len(Tail(list)) + 1 /\ Len(Tail(list)) \in Nat
    BY <1>2, EntryTypes DEF Around
  <2>2. k \in 0 .. (Len(list) - 1) /\ k + 1 \in 1 .. Len(list) /\ k + 1 \in 0 .. Len(list)
        /\ 1 \in 0 .. Len(list)
    BY <2>1
  <2>3. Before(list, k + 1) < U32
    BY <2>2 DEF TimerTypes
  <2>4. Before(list, k + 1) \in Nat /\ Before(list, 1) \in Nat /\ U32 \in Nat
    BY <1>1, <2>2, BeforeGrows, TimerConstants
  <2>5. Before(Tail(list), k) = Before(list, k + 1) - Before(list, 1)
    BY <1>2, <2>2
  <2>6. QED  BY <2>3, <2>4, <2>5
<1>7. TimerTypes'
  BY <1>1, <1>2, <1>5, <1>6 DEF TimerTypes, Expire
<1>8. QED  BY <1>4, <1>7

\* Setting a timeout, at any place of the code: a step of the agenda, or none.
LEMMA SetInAgenda ==
  ASSUME TimerTypes, NEW h \in Handlers, NEW ms \in 0 .. (U32 - 1),
         next_timeout' = sys_timeout(next_timeout, ms, h)
  PROVE  /\ UNCHANGED next_timeout \/ A!Set(h, ms)
         /\ next_timeout' \in Seq(Entry)
         /\ \A k \in 1 .. Len(next_timeout') : Before(next_timeout', k) < U32
<1>1. UNCHANGED next_timeout \/ A!Set(h, ms)
  BY TimeoutInAgenda
<1>2. next_timeout \in Seq(Entry) /\ \A k \in 1 .. Len(next_timeout) : Before(next_timeout, k) < U32
  BY DEF TimerTypes
<1>3. QED  BY <1>1, <1>2, TimeoutKeepsTypes

\* Every step of the code is a step of the agenda, or none.
LEMMA StepInAgenda == TimerTypes /\ [Next]_vars => [A!Next]_(A!agendaVars) /\ TimerTypes'
<1> SUFFICES ASSUME TimerTypes, [Next]_vars PROVE [A!Next]_(A!agendaVars) /\ TimerTypes'
  OBVIOUS
<1> USE TimerConstants
<1>a. next_timeout \in Seq(Entry) /\ DOMAIN next_timeout = 1 .. Len(next_timeout)
  BY EntryTypes DEF TimerTypes
<1>b. UNCHANGED next_timeout => AgendaOf(next_timeout)' = AgendaOf(next_timeout)
  BY DEF AgendaOf
<1>1. CASE sys_check_timeouts
  <2>1. TimerTypes' /\ diff' \in Nat /\ at = "main" /\ at' = "check"
        /\ next_timeout # <<>> /\ UNCHANGED next_timeout
    BY <1>1 DEF TimerTypes, sys_check_timeouts
  <2>2. AgendaOf(next_timeout) # <<>>
    BY <1>a, <2>1, ExpiryInAgenda
  <2>3. A!Open
    BY <1>b, <2>1, <2>2 DEF A!Open, AgendaOf
  <2>4. QED  BY <2>1, <2>3 DEF A!Next
<1>2. CASE Expire
  BY <1>2, ExpireInAgenda DEF A!Next
<1>3. CASE Done
  <2>1. TimerTypes' /\ at = "check" /\ at' = "main" /\ diff' = 0 /\ UNCHANGED next_timeout
    BY <1>3 DEF TimerTypes, Done
  <2>2. AgendaOf(next_timeout) = <<>> \/ Head(AgendaOf(next_timeout)).left > diff
    <3>1. CASE next_timeout = <<>>
      <4>1. Len(AgendaOf(next_timeout)) = 0 /\ AgendaOf(next_timeout) \in Seq(Promise)
        BY <1>a, <3>1, AgendaIs
      <4>2. QED  BY <4>1, EmptySeq
    <3>2. CASE next_timeout # <<>>
      <4>1. Head(AgendaOf(next_timeout)).left = Head(next_timeout).time
        BY <1>a, <3>2, ExpiryInAgenda
      <4>2. ~ (Head(next_timeout).time <= diff) /\ Head(next_timeout).time \in Nat
        BY <1>a, <1>3, <3>2, TailIs, EntryTypes DEF Done, IsDue
      <4>3. diff \in Nat
        BY DEF TimerTypes
      <4>4. QED  BY <4>1, <4>2, <4>3
    <3>3. QED  BY <3>1, <3>2
  <2>3. A!Close
    BY <1>b, <2>1, <2>2 DEF A!Close, AgendaOf
  <2>4. QED  BY <2>1, <2>3 DEF A!Next
<1>4. CASE HandlerReturns
  <2>1. at # "main" /\ at # "check" /\ at' = "check" /\ UNCHANGED diff
    BY <1>4 DEF HandlerReturns, PeriodicReturns, TcpReturns, AppReturns
  <2>2. \/ UNCHANGED next_timeout
        \/ \E h \in Handlers, ms \in Times :
             ms \in 0 .. (U32 - 1) /\ next_timeout' = sys_timeout(next_timeout, ms, h)
    BY <1>4 DEF HandlerReturns, PeriodicReturns, TcpReturns, AppReturns
  <2>3. /\ UNCHANGED next_timeout \/ \E h \in Handlers, ms \in Times : A!Set(h, ms)
        /\ next_timeout' \in Seq(Entry)
        /\ \A k \in 1 .. Len(next_timeout') : Before(next_timeout', k) < U32
    <3>1. CASE UNCHANGED next_timeout
      BY <3>1 DEF TimerTypes
    <3>2. CASE \E h \in Handlers, ms \in Times :
                 ms \in 0 .. (U32 - 1) /\ next_timeout' = sys_timeout(next_timeout, ms, h)
      <4>1. PICK h \in Handlers, ms \in Times :
                 ms \in 0 .. (U32 - 1) /\ next_timeout' = sys_timeout(next_timeout, ms, h)
        BY <3>2
      <4>2. /\ UNCHANGED next_timeout \/ A!Set(h, ms)
            /\ next_timeout' \in Seq(Entry)
            /\ \A k \in 1 .. Len(next_timeout') : Before(next_timeout', k) < U32
        BY <4>1, SetInAgenda
      <4>3. QED  BY <4>2
    <3>3. QED  BY <2>2, <3>1, <3>2
  <2>4. A!Finish
    <3>1. UNCHANGED AgendaOf(next_timeout) \/ \E h \in Handlers, ms \in Times : A!Set(h, ms)
      BY <1>b, <2>3
    <3>2. QED  BY <2>1, <3>1 DEF A!Finish, AgendaOf
  <2>5. TimerTypes'
    <3>1. tcpip_tcp_timer_active' \in BOOLEAN /\ pcbs' \in BOOLEAN
      BY <1>4 DEF HandlerReturns, PeriodicReturns, TcpReturns, AppReturns, TimerTypes
    <3>2. QED  BY <2>1, <2>3, <3>1 DEF TimerTypes
  <2>6. QED  BY <2>4, <2>5 DEF A!Next
<1>5. CASE Register
  <2>1. at # "check" /\ UNCHANGED <<diff, at>>
    BY <1>5 DEF Register
  <2>2. /\ UNCHANGED next_timeout \/ A!Set(Tcp, Interval[Tcp])
        /\ next_timeout' \in Seq(Entry)
        /\ \A k \in 1 .. Len(next_timeout') : Before(next_timeout', k) < U32
    <3>1. CASE UNCHANGED next_timeout
      BY <3>1 DEF TimerTypes
    <3>2. CASE next_timeout' = sys_timeout(next_timeout, Interval[Tcp], Tcp)
      BY <3>2, SetInAgenda
    <3>3. QED  BY <1>5, <3>1, <3>2 DEF Register
  <2>3. TimerTypes'
    BY <1>5, <2>1, <2>2 DEF TimerTypes, Register
  <2>4. CASE UNCHANGED next_timeout
    BY <1>b, <2>1, <2>3, <2>4 DEF A!agendaVars, AgendaOf
  <2>5. CASE A!Set(Tcp, Interval[Tcp])
    BY <2>1, <2>3, <2>5 DEF A!Next, A!Change
  <2>6. QED  BY <2>2, <2>4, <2>5
<1>6. CASE Unregister
  <2>1. UNCHANGED <<next_timeout, diff, at>> /\ TimerTypes'
    BY <1>6 DEF Unregister, TimerTypes
  <2>2. QED  BY <1>b, <2>1 DEF A!agendaVars, AgendaOf
<1>7. ASSUME NEW h \in App, sys_untimeout(h) PROVE [A!Next]_(A!agendaVars) /\ TimerTypes'
  <2>1. A!Cancel(h) /\ TimerTypes'
    BY <1>7, UntimeoutInAgenda
  <2>2. at = "main" /\ UNCHANGED <<diff, at>> /\ h \in Handlers
    BY <1>7 DEF sys_untimeout
  <2>3. QED  BY <2>1, <2>2 DEF A!Next, A!Change
<1>8. ASSUME NEW h \in App, NEW ms \in AppTimes, AppTimeout(h, ms)
      PROVE  [A!Next]_(A!agendaVars) /\ TimerTypes'
  <2>1. /\ at = "main" /\ UNCHANGED <<diff, at, tcpip_tcp_timer_active, pcbs>>
        /\ h \in Handlers /\ ms \in Times /\ ms \in 0 .. (U32 - 1)
        /\ next_timeout' = sys_timeout(next_timeout, ms, h)
    BY <1>8 DEF AppTimeout
  <2>2. /\ UNCHANGED next_timeout \/ A!Set(h, ms)
        /\ next_timeout' \in Seq(Entry)
        /\ \A k \in 1 .. Len(next_timeout') : Before(next_timeout', k) < U32
    BY <2>1, SetInAgenda
  <2>3. TimerTypes'
    BY <2>1, <2>2 DEF TimerTypes
  <2>4. CASE UNCHANGED next_timeout
    BY <1>b, <2>1, <2>3, <2>4 DEF A!agendaVars, AgendaOf
  <2>5. CASE A!Set(h, ms)
    BY <2>1, <2>3, <2>5 DEF A!Next, A!Change
  <2>6. QED  BY <2>2, <2>4, <2>5
<1>9. CASE UNCHANGED vars
  <2>1. UNCHANGED <<next_timeout, diff, at>> /\ TimerTypes'
    BY <1>9 DEF vars, TimerTypes
  <2>2. QED  BY <1>b, <2>1 DEF A!agendaVars, AgendaOf
<1>10. QED
  BY <1>1, <1>2, <1>3, <1>4, <1>5, <1>6, <1>7, <1>8, <1>9 DEF Next

-----------------------------------------------------------------------------

Own == Range(Periodic) \cup {Tcp}

\* The list holds no entry of x; it holds just one.
None(list, x) == \A j \in 1 .. Len(list) : list[j].h # x
Once(list, x) == \E i \in 1 .. Len(list) : \A j \in 1 .. Len(list) : list[j].h = x <=> j = i

Asked(list) == {j \in 1 .. Len(list) : list[j].h \in App}

\* Where an entry is put among the others, or taken from them, it counts for its
\* own handler only.
LEMMA AroundCounts ==
  ASSUME NEW list \in Seq(Entry), NEW new \in Seq(Entry), NEW p, Around(list, new, p)
  PROVE  /\ \A x : x # new[p].h =>
              (Once(new, x) <=> Once(list, x)) /\ (None(new, x) <=> None(list, x))
         /\ None(list, new[p].h) <=> Once(new, new[p].h)
<1> DEFINE n == Len(list)
           to(j) == IF j < p THEN j ELSE j + 1
           from(k) == IF k < p THEN k ELSE k - 1
<1>1. n \in Nat /\ Len(new) = n + 1 /\ p \in 1 .. (n + 1)
  BY EntryTypes DEF Around
<1>2. \A j \in 1 .. n : /\ to(j) \in 1 .. (n + 1) /\ to(j) # p /\ from(to(j)) = j
                        /\ new[to(j)].h = list[j].h
  BY <1>1 DEF Around
<1>3. \A k \in 1 .. (n + 1) : k # p => from(k) \in 1 .. n /\ to(from(k)) = k
  BY <1>1
<1> HIDE DEF to, from
<1>4. ASSUME NEW x, x # new[p].h PROVE None(new, x) <=> None(list, x)
  <2>1. ASSUME None(new, x), NEW j \in 1 .. n PROVE list[j].h # x
    BY <1>1, <1>2, <2>1 DEF None
  <2>2. ASSUME None(list, x), NEW k \in 1 .. (n + 1) PROVE new[k].h # x
    <3>1. CASE k = p
      BY <1>4, <3>1
    <3>2. CASE k # p
      <4>1. from(k) \in 1 .. n /\ to(from(k)) = k
        BY <3>2, <1>3
      <4>2. list[from(k)].h # x
        BY <4>1, <2>2 DEF None
      <4>3. QED  BY <4>1, <4>2, <1>2
    <3>3. QED  BY <3>1, <3>2
  <2>3. QED  BY <2>1, <2>2, <1>1 DEF None
<1>5. ASSUME NEW x, x # new[p].h PROVE Once(new, x) <=> Once(list, x)
  <2>1. ASSUME NEW i \in 1 .. n, \A j \in 1 .. n : list[j].h = x <=> j = i
        PROVE  \A k \in 1 .. (n + 1) : new[k].h = x <=> k = to(i)
    <3> TAKE k \in 1 .. (n + 1)
    <3>1. CASE k = p
      BY <3>1, <1>2, <1>5
    <3>2. CASE k # p
      <4>1. from(k) \in 1 .. n /\ to(from(k)) = k /\ new[k].h = list[from(k)].h
        BY <3>2, <1>2, <1>3
      <4>2. new[k].h = x <=> from(k) = i
        BY <4>1, <2>1
      <4>3. from(k) = i <=> k = to(i)
        BY <4>1, <1>2
      <4>4. QED  BY <4>2, <4>3
    <3>3. QED  BY <3>1, <3>2
  <2>2. ASSUME NEW i \in 1 .. (n + 1), \A k \in 1 .. (n + 1) : new[k].h = x <=> k = i
        PROVE  i # p /\ \A j \in 1 .. n : list[j].h = x <=> j = from(i)
    <3>1. i # p
      BY <2>2, <1>1, <1>5
    <3>2. from(i) \in 1 .. n /\ to(from(i)) = i
      BY <3>1, <1>3
    <3>3. ASSUME NEW j \in 1 .. n PROVE list[j].h = x <=> j = from(i)
      <4>1. list[j].h = x <=> to(j) = i
        BY <1>2, <2>2
      <4>2. to(j) = i <=> j = from(i)
        BY <3>2, <1>2
      <4>3. QED  BY <4>1, <4>2
    <3>4. QED  BY <3>1, <3>3
  <2>3. Once(list, x) => Once(new, x)
    <3> SUFFICES ASSUME Once(list, x) PROVE Once(new, x)
      OBVIOUS
    <3>1. PICK i \in 1 .. n : \A j \in 1 .. n : list[j].h = x <=> j = i
      BY DEF Once
    <3>2. to(i) \in 1 .. (n + 1)
      BY <1>2
    <3>3. \A k \in 1 .. (n + 1) : new[k].h = x <=> k = to(i)
      BY <3>1, <2>1
    <3>4. \E l \in 1 .. (n + 1) : \A k \in 1 .. (n + 1) : new[k].h = x <=> k = l
      BY <3>2, <3>3
    <3>5. QED  BY <3>4, <1>1 DEF Once
  <2>4. Once(new, x) => Once(list, x)
    <3> SUFFICES ASSUME Once(new, x) PROVE Once(list, x)
      OBVIOUS
    <3>1. PICK i \in 1 .. (n + 1) : \A k \in 1 .. (n + 1) : new[k].h = x <=> k = i
      BY <1>1 DEF Once
    <3>2. i # p /\ \A j \in 1 .. n : list[j].h = x <=> j = from(i)
      BY <3>1, <2>2
    <3>3. from(i) \in 1 .. n
      BY <3>2, <1>3
    <3>4. QED  BY <3>2, <3>3 DEF Once
  <2>5. QED  BY <2>3, <2>4
<1>6. ASSUME None(list, new[p].h) PROVE Once(new, new[p].h)
  <2>1. \A k \in 1 .. (n + 1) : new[k].h = new[p].h <=> k = p
    BY <1>2, <1>3, <1>6 DEF None
  <2>2. QED  BY <2>1, <1>1 DEF Once
<1>7. ASSUME Once(new, new[p].h) PROVE None(list, new[p].h)
  <2>1. PICK i \in 1 .. (n + 1) : \A k \in 1 .. (n + 1) : new[k].h = new[p].h <=> k = i
    BY <1>1, <1>7 DEF Once
  <2>2. i = p
    BY <2>1, <1>1
  <2>3. QED  BY <2>1, <2>2, <1>2 DEF None
<1>8. QED  BY <1>4, <1>5, <1>6, <1>7

\* The application's entries: one more if the entry is one of its own.
LEMMA AroundAsked ==
  ASSUME NEW list \in Seq(Entry), NEW new \in Seq(Entry), NEW p, Around(list, new, p)
  PROVE  /\ IsFiniteSet(Asked(list)) /\ IsFiniteSet(Asked(new))
         /\ Cardinality(Asked(list)) \in Nat /\ Cardinality(Asked(new)) \in Nat
         /\ Cardinality(Asked(list)) <= Cardinality(Asked(new))
         /\ Cardinality(Asked(new)) <= Cardinality(Asked(list)) + 1
         /\ new[p].h \notin App => Cardinality(Asked(new)) <= Cardinality(Asked(list))
<1> DEFINE n == Len(list)
           to == [j \in Asked(list) |-> IF j < p THEN j ELSE j + 1]
           rest == Asked(new) \ {p}
           from == [k \in rest |-> IF k < p THEN k ELSE k - 1]
<1>1. n \in Nat /\ Len(new) = n + 1 /\ p \in 1 .. (n + 1)
  BY EntryTypes DEF Around
<1>2. IsFiniteSet(Asked(list)) /\ IsFiniteSet(Asked(new)) /\ IsFiniteSet(rest)
  <2>1. IsFiniteSet(1 .. n) /\ IsFiniteSet(1 .. (n + 1))
    BY <1>1, FS_Interval
  <2>2. Asked(list) \in SUBSET (1 .. n) /\ Asked(new) \in SUBSET (1 .. (n + 1))
    BY <1>1 DEF Asked
  <2>3. IsFiniteSet(Asked(list)) /\ IsFiniteSet(Asked(new))
    BY <2>1, <2>2, FS_Subset
  <2>4. QED  BY <2>3, FS_Subset
<1>3. to \in Injection(Asked(list), Asked(new))
  <2>1. ASSUME NEW j \in Asked(list) PROVE to[j] \in Asked(new)
    <3>1. j \in 1 .. n /\ list[j].h \in App
      BY DEF Asked
    <3>2. CASE j < p
      <4>1. to[j] = j /\ j \in 1 .. (p - 1) /\ j \in 1 .. (n + 1)
        BY <1>1, <3>1, <3>2
      <4>2. new[j].h = list[j].h
        BY <4>1 DEF Around
      <4>3. QED  BY <4>1, <4>2, <3>1, <1>1 DEF Asked
    <3>3. CASE ~ (j < p)
      <4>1. to[j] = j + 1 /\ j \in p .. n /\ j + 1 \in 1 .. (n + 1)
        BY <1>1, <3>1, <3>3
      <4>2. new[j + 1].h = list[j].h
        BY <4>1 DEF Around
      <4>3. QED  BY <4>1, <4>2, <3>1, <1>1 DEF Asked
    <3>4. QED  BY <3>2, <3>3
  <2>2. ASSUME NEW j \in Asked(list), NEW k \in Asked(list), to[j] = to[k] PROVE j = k
    <3>1. j \in Int /\ k \in Int /\ p \in Int
      BY <1>1 DEF Asked
    <3>2. QED  BY <2>2, <3>1
  <2>3. to \in [Asked(list) -> Asked(new)]
    BY <2>1
  <2>4. DOMAIN to = Asked(list)
    OBVIOUS
  <2> HIDE DEF to
  <2>5. QED  BY <2>2, <2>3, <2>4 DEF Injection, IsInjective
<1>4. from \in Injection(rest, Asked(list))
  <2>1. ASSUME NEW k \in rest PROVE from[k] \in Asked(list)
    <3>1. k \in 1 .. (n + 1) /\ k # p /\ new[k].h \in App
      BY <1>1 DEF Asked
    <3>2. CASE k < p
      <4>1. from[k] = k /\ k \in 1 .. (p - 1) /\ k \in 1 .. n
        BY <1>1, <3>1, <3>2
      <4>2. new[k].h = list[k].h
        BY <4>1 DEF Around
      <4>3. QED  BY <4>1, <4>2, <3>1 DEF Asked
    <3>3. CASE ~ (k < p)
      <4>1. from[k] = k - 1 /\ k - 1 \in p .. n /\ k - 1 \in 1 .. n /\ (k - 1) + 1 = k
        BY <1>1, <3>1, <3>3
      <4>2. new[(k - 1) + 1].h = list[k - 1].h
        BY <4>1 DEF Around
      <4>3. QED  BY <4>1, <4>2, <3>1 DEF Asked
    <3>4. QED  BY <3>2, <3>3
  <2>2. ASSUME NEW j \in rest, NEW k \in rest, from[j] = from[k] PROVE j = k
    <3>1. j \in Int /\ k \in Int /\ p \in Int /\ j # p /\ k # p
      BY <1>1 DEF Asked
    <3>2. QED  BY <2>2, <3>1
  <2>3. from \in [rest -> Asked(list)]
    BY <2>1
  <2>4. DOMAIN from = rest
    OBVIOUS
  <2> HIDE DEF from, rest
  <2>5. QED  BY <2>2, <2>3, <2>4 DEF Injection, IsInjective
<1>5. Cardinality(Asked(list)) <= Cardinality(Asked(new))
  <2> HIDE DEF to
  <2>1. QED  BY <1>2, <1>3, FS_Injection
<1>6. Cardinality(rest) <= Cardinality(Asked(list))
  <2> HIDE DEF from, rest
  <2>1. QED  BY <1>2, <1>4, FS_Injection
<1>7. Cardinality(Asked(list)) \in Nat /\ Cardinality(Asked(new)) \in Nat
      /\ Cardinality(rest) \in Nat
  BY <1>2, FS_CardinalityType
<1>8. Cardinality(rest) = IF p \in Asked(new) THEN Cardinality(Asked(new)) - 1
                          ELSE Cardinality(Asked(new))
  BY <1>2, FS_RemoveElement
<1>9. new[p].h \notin App => p \notin Asked(new)
  BY DEF Asked
<1> HIDE DEF rest
<1>10. QED  BY <1>2, <1>5, <1>6, <1>7, <1>8, <1>9


\* What a request leaves of each handler's entries.
LEMMA TimeoutCounts ==
  ASSUME NEW list \in Seq(Entry), NEW h \in Handlers, NEW ms \in Nat
  PROVE  LET new == sys_timeout(list, ms, h)
         IN  /\ new \in Seq(Entry)
             /\ \A x : x # h => (Once(new, x) <=> Once(list, x)) /\ (None(new, x) <=> None(list, x))
             /\ PoolHasRoom(list) => Len(new) = Len(list) + 1
             /\ PoolHasRoom(list) /\ None(list, h) => Once(new, h)
             /\ Cardinality(Asked(list)) \in Nat /\ Cardinality(Asked(new)) \in Nat
             /\ Cardinality(Asked(new)) <= Cardinality(Asked(list)) + 1
             /\ h \notin App => Cardinality(Asked(new)) <= Cardinality(Asked(list))
<1> DEFINE new == sys_timeout(list, ms, h)
<1>1. CASE ~ PoolHasRoom(list)
  <2>1. new = list
    BY <1>1, TimeoutIs
  <2>2. Cardinality(Asked(list)) \in Nat
    <3>1. Len(list) \in Nat
      BY EntryTypes
    <3>2. IsFiniteSet(1 .. Len(list)) /\ Asked(list) \subseteq 1 .. Len(list)
      BY <3>1, FS_Interval DEF Asked
    <3>3. IsFiniteSet(Asked(list))
      BY <3>2, FS_Subset
    <3>4. QED  BY <3>3, FS_CardinalityType
  <2> HIDE DEF new
  <2>3. QED  BY <1>1, <2>1, <2>2 DEF new
<1>2. CASE PoolHasRoom(list)
  <2>1. PICK i \in 0 .. Len(list) : IsPlace(list, ms, i) /\ new = Linked(list, h, ms, i)
    BY <1>2, TimeoutIs
  <2> HIDE DEF new
  <2>2. new \in Seq(Entry) /\ Around(list, new, i + 1) /\ new[i + 1].h = h
    BY <2>1, LinkedIs
  <2>3. /\ \A x : x # h => (Once(new, x) <=> Once(list, x)) /\ (None(new, x) <=> None(list, x))
        /\ None(list, h) <=> Once(new, h)
    BY <2>2, AroundCounts
  <2>4. /\ Cardinality(Asked(list)) \in Nat /\ Cardinality(Asked(new)) \in Nat
        /\ Cardinality(Asked(new)) <= Cardinality(Asked(list)) + 1
        /\ h \notin App => Cardinality(Asked(new)) <= Cardinality(Asked(list))
    BY <2>2, AroundAsked
  <2>5. Len(new) = Len(list) + 1
    BY <2>2 DEF Around
  <2>6. QED  BY <2>2, <2>3, <2>4, <2>5 DEF new
<1>3. QED  BY <1>1, <1>2

\* What taking entry i away leaves of them.
LEMMA RemovalCounts ==
  ASSUME NEW list \in Seq(Entry), NEW new \in Seq(Entry), NEW i, Around(new, list, i)
  PROVE  /\ \A x : x # list[i].h =>
              (Once(new, x) <=> Once(list, x)) /\ (None(new, x) <=> None(list, x))
         /\ Once(list, list[i].h) => None(new, list[i].h)
         /\ Cardinality(Asked(list)) \in Nat /\ Cardinality(Asked(new)) \in Nat
         /\ Cardinality(Asked(new)) <= Cardinality(Asked(list))
<1>1. /\ \A x : x # list[i].h =>
           (Once(list, x) <=> Once(new, x)) /\ (None(list, x) <=> None(new, x))
      /\ None(new, list[i].h) <=> Once(list, list[i].h)
  BY AroundCounts
<1>2. /\ Cardinality(Asked(list)) \in Nat /\ Cardinality(Asked(new)) \in Nat
      /\ Cardinality(Asked(new)) <= Cardinality(Asked(list))
  BY AroundAsked
<1>3. QED  BY <1>1, <1>2

\* There are no more timers of lwIP than init.c counts.
LEMMA OwnAreFew ==
  /\ IsFiniteSet(Own) /\ Cardinality(Own) \in Nat
  /\ Len(Periodic) \in Nat /\ Cardinality(Own) <= Len(Periodic) + 1
<1> DEFINE n == Len(Periodic)
<1>1. n \in Nat /\ DOMAIN Periodic = 1 .. n
  BY TimeoutsAssumption, LenProperties
<1>2. IsFiniteSet(1 .. n) /\ Cardinality(1 .. n) = n
  <2>1. IsFiniteSet(1 .. n) /\ Cardinality(1 .. n) = IF 1 > n THEN 0 ELSE n - 1 + 1
    BY <1>1, FS_Interval
  <2>2. (IF 1 > n THEN 0 ELSE n - 1 + 1) = n
    BY <1>1
  <2>3. QED  BY <2>1, <2>2
<1>3. Periodic \in Surjection(1 .. n, Range(Periodic))
  <2>1. Periodic \in [1 .. n -> Range(Periodic)]
    BY <1>1, TimeoutsAssumption DEF Range
  <2>2. QED  BY <1>1, <2>1 DEF Surjection, Range
<1>4. IsFiniteSet(Range(Periodic)) /\ Cardinality(Range(Periodic)) <= n
  BY <1>2, <1>3, FS_Surjection
<1>5. /\ IsFiniteSet(Own)
      /\ Cardinality(Own) = IF Tcp \in Range(Periodic) THEN Cardinality(Range(Periodic))
                            ELSE Cardinality(Range(Periodic)) + 1
  BY <1>4, FS_AddElement DEF Own
<1>6. Cardinality(Range(Periodic)) \in Nat /\ Cardinality(Own) \in Nat
  BY <1>4, <1>5, FS_CardinalityType
<1>7. QED  BY <1>1, <1>4, <1>5, <1>6

\* The pool has a place for a timer of lwIP that is not in the list.
LEMMA RoomForOwn ==
  ASSUME NEW list \in Seq(Entry), NEW h \in Own, None(list, h),
         \A x \in Own : None(list, x) \/ Once(list, x),
         Cardinality(Asked(list)) <= AppMax
  PROVE  PoolHasRoom(list)
<1> DEFINE D == 1 .. Len(list)
           Mine == {j \in D : list[j].h \in Own}
           f == [j \in Mine |-> list[j].h]
<1>1. /\ Len(list) \in Nat /\ \A j \in D : list[j].h \in App \/ list[j].h \in Own
  BY EntryTypes DEF Own, Handlers
<1>2. IsFiniteSet(D) /\ Cardinality(D) = Len(list)
  <2>1. Cardinality(D) = IF 1 > Len(list) THEN 0 ELSE Len(list) - 1 + 1
    BY <1>1, FS_Interval
  <2>2. QED  BY <2>1, <1>1, FS_Interval
<1>3. IsFiniteSet(Mine) /\ IsFiniteSet(Asked(list)) /\ D = Mine \cup Asked(list)
  <2>1. D = Mine \cup Asked(list)
    BY <1>1 DEF Asked
  <2> HIDE DEF D, Mine
  <2>2. QED  BY <1>2, <2>1, FS_Subset
<1>4. f \in Injection(Mine, Own \ {h})
  <2>1. ASSUME NEW j \in Mine PROVE f[j] \in Own \ {h}
    BY DEF None
  <2>2. ASSUME NEW j \in Mine, NEW k \in Mine, f[j] = f[k] PROVE j = k
    <3>1. /\ j \in D /\ k \in D /\ list[j].h \in Own /\ list[k].h = list[j].h
      BY <2>2
    <3>2. Once(list, list[j].h)
      BY <3>1 DEF None
    <3>3. QED  BY <3>1, <3>2 DEF Once
  <2>3. f \in [Mine -> Own \ {h}] /\ DOMAIN f = Mine
    BY <2>1
  <2> HIDE DEF f, Mine
  <2>4. QED  BY <2>2, <2>3 DEF Injection, IsInjective
<1>5. IsFiniteSet(Own \ {h}) /\ Cardinality(Own \ {h}) = Cardinality(Own) - 1
  BY OwnAreFew, FS_RemoveElement
<1>6. Cardinality(Mine) <= Cardinality(Own \ {h})
  <2> HIDE DEF f, Mine
  <2>1. QED  BY <1>4, <1>5, FS_Injection
<1>7. /\ Cardinality(Mine) \in Nat /\ Cardinality(Asked(list)) \in Nat
      /\ Cardinality(Mine \cap Asked(list)) \in Nat
      /\ Cardinality(D) = Cardinality(Mine) + Cardinality(Asked(list))
                            - Cardinality(Mine \cap Asked(list))
  <2> HIDE DEF D, Mine
  <2>1. IsFiniteSet(Mine \cap Asked(list))
    BY <1>3, FS_Subset
  <2>2. QED  BY <1>3, <2>1, FS_Union, FS_CardinalityType
<1>8. /\ AppMax \in Nat /\ MEMP_NUM_SYS_TIMEOUT \in Nat
      /\ MEMP_NUM_SYS_TIMEOUT >= Len(Periodic) + 1 + AppMax
  BY TimeoutsAssumption
<1> HIDE DEF D, Mine
<1>9. Len(list) < MEMP_NUM_SYS_TIMEOUT
  BY <1>1, <1>2, <1>5, <1>6, <1>7, <1>8, OwnAreFew
<1>10. QED  BY <1>9 DEF PoolHasRoom

-----------------------------------------------------------------------------

\* The lists that sys_timeouts_init builds, one timer after the other.
Starts(f, n) ==
  f = [k \in 0 .. n |-> IF k = 0 THEN <<>>
                        ELSE sys_timeout(f[k - 1], Interval[Periodic[k]], Periodic[k])]

LEMMA StartsExist ==
  ASSUME NEW n \in Nat
  PROVE  \E f : Starts(f, n)
<1> DEFINE S == {m \in 0 .. n : \E f : Starts(f, m)}
           Add(list, k) == sys_timeout(list, Interval[Periodic[k]], Periodic[k])
<1>1. 0 \in S
  <2> DEFINE g == [k \in 0 .. 0 |-> <<>>]
  <2>1. g = [k \in 0 .. 0 |-> IF k = 0 THEN <<>> ELSE Add(g[k - 1], k)]
    OBVIOUS
  <2> HIDE DEF g
  <2>2. QED BY <2>1 DEF Starts
<1>2. ASSUME NEW m \in 0 .. (n - 1), m \in S PROVE m + 1 \in S
  <2>1. PICK f : f = [k \in 0 .. m |-> IF k = 0 THEN <<>> ELSE Add(f[k - 1], k)]
    BY <1>2 DEF Starts
  <2> HIDE DEF Add
  <2> DEFINE g == [k \in 0 .. (m + 1) |-> IF k = m + 1 THEN Add(f[m], m + 1) ELSE f[k]]
  <2>2. ASSUME NEW k \in 0 .. (m + 1)
        PROVE  g[k] = IF k = 0 THEN <<>> ELSE Add(g[k - 1], k)
    <3>1. CASE k = m + 1
      BY <3>1
    <3>2. CASE k # m + 1
      <4>1. /\ k \in 0 .. m
            /\ k # 0 => k - 1 \in 0 .. m /\ k - 1 # m + 1 /\ k - 1 \in 0 .. (m + 1)
        BY <3>2
      <4>2. f[k] = IF k = 0 THEN <<>> ELSE Add(f[k - 1], k)
        BY <2>1, <4>1
      <4>3. QED BY <4>1, <4>2, <3>2
    <3>3. QED BY <3>1, <3>2
  <2>3. g = [k \in 0 .. (m + 1) |-> IF k = 0 THEN <<>> ELSE Add(g[k - 1], k)]
    <3> HIDE DEF g
    <3>1. g = [k \in 0 .. (m + 1) |-> g[k]]
      BY DEF g
    <3>2. QED BY <3>1, <2>2
  <2> HIDE DEF g
  <2>4. QED BY <2>3 DEF Starts, Add
<1>3. n \in S
  <2> HIDE DEF S
  <2>1. 0 .. n \subseteq S
    BY <1>1, <1>2, Induct
  <2>2. QED BY <2>1
<1> QED BY <1>3

\* sys_timeouts_init sets each of its timers once and nothing else.
LEMMA StartIs ==
  LET list == sys_timeouts_init
  IN  /\ list \in Seq(Entry) /\ \A k \in 1 .. Len(list) : Before(list, k) < U32
      /\ \A x \in Range(Periodic) : Once(list, x)
      /\ \A x : x \notin Range(Periodic) => None(list, x)
<1> DEFINE n == Len(Periodic)
           L == CHOOSE f : Starts(f, n)
           P(k) == {Periodic[i] : i \in 1 .. k}
           S == {k \in 0 .. n : /\ L[k] \in Seq(Entry) /\ Len(L[k]) = k
                                /\ \A j \in 1 .. k : Before(L[k], j) < U32
                                /\ \A x \in P(k) : Once(L[k], x)
                                /\ \A x : x \notin P(k) => None(L[k], x)}
<1>1. n \in Nat /\ DOMAIN Periodic = 1 .. n
  BY TimeoutsAssumption, LenProperties
<1>2. Starts(L, n)
  BY <1>1, StartsExist
<1>3. sys_timeouts_init = L[n]
  BY DEF sys_timeouts_init, Starts
<1> HIDE DEF L
<1>4. /\ L[0] = <<>>
      /\ \A k \in 1 .. n : L[k] = sys_timeout(L[k - 1], Interval[Periodic[k]], Periodic[k])
  BY <1>1, <1>2 DEF Starts
<1>5. 0 \in S
  <2>1. L[0] \in Seq(Entry) /\ Len(L[0]) = 0
    BY <1>4
  <2>2. (\A j \in 1 .. 0 : Before(L[0], j) < U32) /\ \A x : None(L[0], x)
    BY <2>1 DEF None
  <2>3. P(0) = {}
    OBVIOUS
  <2>4. QED  BY <1>1, <2>1, <2>2, <2>3
<1>6. ASSUME NEW k \in 0 .. (n - 1), k \in S PROVE k + 1 \in S
  <2> DEFINE h == Periodic[k + 1]
             list == L[k]
             new == L[k + 1]
  <2>1. k + 1 \in 1 .. n /\ (k + 1) - 1 = k /\ k + 1 \in 0 .. n /\ k \in Nat
    BY <1>1
  <2>2. h \in Range(Periodic) /\ h \in Handlers /\ Interval[h] \in 0 .. (U32 - 1) /\ U32 \in Nat
    BY <1>1, <2>1, TimerConstants DEF Range
  <2>3. new = sys_timeout(list, Interval[h], h)
    BY <1>4, <2>1
  <2>4. /\ list \in Seq(Entry) /\ Len(list) = k
        /\ \A j \in 1 .. Len(list) : Before(list, j) < U32
        /\ \A x \in P(k) : Once(list, x)
        /\ \A x : x \notin P(k) => None(list, x)
    BY <1>6
  <2>5. PoolHasRoom(list)
    <3>1. MEMP_NUM_SYS_TIMEOUT \in Nat /\ MEMP_NUM_SYS_TIMEOUT >= n + 1 + AppMax /\ AppMax \in Nat
      BY TimeoutsAssumption
    <3>2. Len(list) < MEMP_NUM_SYS_TIMEOUT
      BY <3>1, <2>4, <1>1, <2>1
    <3>3. QED  BY <3>2 DEF PoolHasRoom
  <2>6. h \notin P(k) /\ P(k + 1) = P(k) \cup {h}
    <3>1. \A i \in 1 .. k : i \in DOMAIN Periodic /\ i # k + 1 /\ k + 1 \in DOMAIN Periodic
      BY <1>1, <2>1
    <3>2. \A i \in 1 .. k : Periodic[i] # h
      BY <3>1, TimeoutsAssumption DEF IsInjective
    <3>3. 1 .. (k + 1) = (1 .. k) \cup {k + 1}
      BY <2>1
    <3>4. QED  BY <3>2, <3>3
  <2> HIDE DEF P, L, S
  <2>7. Interval[h] \in Nat
    BY <2>2
  <2> HIDE DEF h, list, new
  <2>8. /\ new \in Seq(Entry) /\ Len(new) = Len(list) + 1
        /\ \A x : x # h => (Once(new, x) <=> Once(list, x)) /\ (None(new, x) <=> None(list, x))
        /\ None(list, h) => Once(new, h)
    BY <2>2, <2>3, <2>4, <2>5, <2>7, TimeoutCounts
  <2>9. \A j \in 1 .. Len(new) : Before(new, j) < U32
    BY <2>2, <2>3, <2>4, TimeoutKeepsTypes
  <2>10. \A x \in P(k + 1) : Once(new, x)
    BY <2>4, <2>6, <2>8
  <2>11. \A x : x \notin P(k + 1) => None(new, x)
    BY <2>4, <2>6, <2>8
  <2>12. Len(new) = k + 1
    BY <2>4, <2>8
  <2>13. QED  BY <2>1, <2>8, <2>9, <2>10, <2>11, <2>12 DEF S, new
<1>7. n \in S
  <2> HIDE DEF S
  <2>1. 0 .. n \subseteq S
    BY <1>1, <1>5, <1>6, Induct
  <2>2. QED BY <1>1, <2>1
<1>8. P(n) = Range(Periodic)
  BY <1>1 DEF Range
<1> HIDE DEF P
<1>9. QED  BY <1>3, <1>7, <1>8

-----------------------------------------------------------------------------

\* The list holds x once, or not at all.
Sits(list, x, once) == IF once THEN Once(list, x) ELSE None(list, x)

\* Each timer of lwIP has its one entry unless its handler runs; that of TCP has
\* one only while its flag is set, which it is while its handler runs.  The
\* application's entries leave the others their places in the pool.
TimersInv ==
  /\ TimerTypes
  /\ \A x \in Range(Periodic) : Sits(next_timeout, x, at # x)
  /\ Sits(next_timeout, Tcp, tcpip_tcp_timer_active /\ at # Tcp)
  /\ at = Tcp \/ pcbs => tcpip_tcp_timer_active
  /\ Cardinality(Asked(next_timeout)) \in Nat /\ Cardinality(Asked(next_timeout)) <= AppMax

LEMMA InitTimers == Init => TimersInv
<1> SUFFICES ASSUME Init PROVE TimersInv
  OBVIOUS
<1>1. /\ next_timeout \in Seq(Entry) /\ \A k \in 1 .. Len(next_timeout) : Before(next_timeout, k) < U32
      /\ \A x \in Range(Periodic) : Once(next_timeout, x)
      /\ \A x : x \notin Range(Periodic) => None(next_timeout, x)
  BY StartIs DEF Init
<1>2. /\ at = "main" /\ tcpip_tcp_timer_active = FALSE /\ pcbs = FALSE /\ diff = 0
  BY DEF Init
<1>3. /\ U32 \in Nat /\ Interval[Tcp] \in 0 .. (U32 - 1) /\ Tcp \notin Range(Periodic)
      /\ "main" \notin Handlers /\ Tcp \in Handlers
      /\ Range(Periodic) \subseteq Handlers /\ App \cap Range(Periodic) = {}
  BY TimerConstants
<1>4. TimerTypes
  <2>1. diff \in 0 .. (U32 - 1)
    BY <1>2, <1>3
  <2>2. QED  BY <1>1, <1>2, <2>1 DEF TimerTypes
<1>5. Asked(next_timeout) = {}
  BY <1>1, <1>3 DEF Asked, None
<1>6. Cardinality(Asked(next_timeout)) = 0 /\ AppMax \in Nat
  BY <1>5, FS_EmptySet, TimeoutsAssumption
<1>7. \A x \in Range(Periodic) : Sits(next_timeout, x, at # x)
  BY <1>1, <1>2, <1>3 DEF Sits
<1>8. Sits(next_timeout, Tcp, tcpip_tcp_timer_active /\ at # Tcp)
  BY <1>1, <1>2, <1>3 DEF Sits
<1>9. at # Tcp
  BY <1>2, <1>3
<1>10. QED  BY <1>2, <1>4, <1>6, <1>7, <1>8, <1>9 DEF TimersInv

LEMMA StepTimers == TimersInv /\ [Next]_vars => TimersInv'
<1> SUFFICES ASSUME TimersInv, [Next]_vars PROVE TimersInv'
  OBVIOUS
<1> DEFINE list == next_timeout
           new == next_timeout'
           n == Cardinality(Asked(list))
           m == Cardinality(Asked(new))
<1>1. TimerTypes' /\ TimerTypes
  BY StepInAgenda DEF TimersInv
<1>2. /\ list \in Seq(Entry) /\ Len(list) \in Nat /\ DOMAIN list = 1 .. Len(list)
      /\ \A x \in Range(Periodic) : Sits(list, x, at # x)
      /\ Sits(list, Tcp, tcpip_tcp_timer_active /\ at # Tcp)
      /\ at = Tcp \/ pcbs => tcpip_tcp_timer_active
      /\ tcpip_tcp_timer_active \in BOOLEAN /\ pcbs \in BOOLEAN
      /\ at \in Handlers \cup {"main", "check"}
      /\ n \in Nat /\ n <= AppMax /\ AppMax \in Nat
  BY <1>1, EntryTypes, TimeoutsAssumption DEF TimersInv, TimerTypes
<1>3. /\ Tcp \in Handlers /\ Interval[Tcp] \in Nat /\ Tcp \notin App
      /\ \A h \in Range(Periodic) :
           h \in Handlers /\ h # Tcp /\ Interval[h] \in Nat /\ h \notin App
      /\ App \subseteq Handlers /\ "main" \notin Handlers /\ "check" \notin Handlers
      /\ \A ms \in AppTimes : ms \in Nat
      /\ Own = Range(Periodic) \cup {Tcp} /\ Handlers = Own \cup App
  <2>1. \A k \in 0 .. (U32 - 1) : k \in Nat
    OBVIOUS
  <2>2. QED  BY <2>1, TimerConstants DEF Own, Handlers
<1> HIDE DEF n, m
\* It is enough to look at the entries.
<1>4. ASSUME \A x \in Range(Periodic) : Sits(new, x, at' # x),
             Sits(new, Tcp, tcpip_tcp_timer_active' /\ at' # Tcp),
             at' = Tcp \/ pcbs' => tcpip_tcp_timer_active',
             m \in Nat, m <= AppMax
      PROVE  TimersInv'
  BY <1>1, <1>4 DEF TimersInv, m
\* The list stays, and the handler that runs changes for another place of the code.
<1>5. ASSUME UNCHANGED <<list, tcpip_tcp_timer_active, pcbs>>,
             at = at' \/ (at \notin Own /\ at' \notin Own)
      PROVE  TimersInv'
  <2>1. \A x \in Own : at' # x <=> at # x
    BY <1>5, <1>3
  <2>2. \A x \in Range(Periodic) : Sits(new, x, at' # x)
    BY <1>5, <2>1, <1>2, <1>3
  <2>3. Sits(new, Tcp, tcpip_tcp_timer_active' /\ at' # Tcp)
    BY <1>5, <2>1, <1>2, <1>3
  <2>4. m \in Nat /\ m <= AppMax
    BY <1>5, <1>2 DEF m, n
  <2>5. at' = Tcp \/ pcbs' => tcpip_tcp_timer_active'
    BY <1>5, <2>1, <1>2, <1>3
  <2>6. QED  BY <1>4, <2>2, <2>3, <2>4, <2>5
\* A timer of lwIP that has no entry is set, and its handler, if it ran, is done.
<1>6. ASSUME NEW h \in Own, None(list, h), new = sys_timeout(list, Interval[h], h),
             \A x \in Own : x # h => (at' # x <=> at # x), at' # h,
             tcpip_tcp_timer_active' = (h = Tcp \/ tcpip_tcp_timer_active),
             pcbs' => tcpip_tcp_timer_active'
      PROVE  TimersInv'
  <2>1. PoolHasRoom(list)
    <3>1. \A x \in Own : None(list, x) \/ Once(list, x)
      BY <1>2, <1>3 DEF Sits
    <3>2. QED  BY <3>1, <1>2, <1>6, RoomForOwn DEF n
  <2>2. h \in Handlers /\ Interval[h] \in Nat /\ h \notin App
    BY <1>3
  <2>3. /\ \A x : x # h => (Once(new, x) <=> Once(list, x)) /\ (None(new, x) <=> None(list, x))
        /\ Once(new, h) /\ m \in Nat /\ m <= n
    BY <1>2, <1>6, <2>1, <2>2, TimeoutCounts DEF n, m
  <2>4. ASSUME NEW x \in Range(Periodic) PROVE Sits(new, x, at' # x)
    BY <1>2, <1>3, <1>6, <2>3 DEF Sits
  <2>5. Sits(new, Tcp, tcpip_tcp_timer_active' /\ at' # Tcp)
    BY <1>2, <1>3, <1>6, <2>3 DEF Sits
  <2>6. m <= AppMax
    BY <1>2, <2>3
  <2>7. at' = Tcp => tcpip_tcp_timer_active'
    BY <1>2, <1>3, <1>6
  <2>8. QED  BY <1>4, <1>6, <2>3, <2>4, <2>5, <2>6, <2>7
<1>7. CASE sys_check_timeouts
  BY <1>3, <1>5, <1>7 DEF sys_check_timeouts
<1>8. CASE Done
  BY <1>3, <1>5, <1>8 DEF Done
<1>9. CASE Expire
  <2>1. /\ list # <<>> /\ at = "check" /\ new = Tail(list) /\ at' = Head(list).h
        /\ UNCHANGED <<tcpip_tcp_timer_active, pcbs>>
    BY <1>9 DEF Expire, IsDue
  <2>2. /\ new \in Seq(Entry) /\ Around(new, list, 1)
        /\ Head(list) = list[1] /\ 1 \in 1 .. Len(list)
    BY <1>2, <2>1, TailIs
  <2>3. /\ \A x : x # at' => (Once(new, x) <=> Once(list, x)) /\ (None(new, x) <=> None(list, x))
        /\ Once(list, at') => None(new, at')
        /\ m \in Nat /\ m <= n
    <3>1. /\ \A x : x # list[1].h =>
                (Once(new, x) <=> Once(list, x)) /\ (None(new, x) <=> None(list, x))
          /\ Once(list, list[1].h) => None(new, list[1].h)
          /\ m \in Nat /\ m <= n
      <4> HIDE DEF list, new
      <4>1. QED  BY <1>2, <2>2, RemovalCounts DEF n, m
    <3>2. at' = list[1].h
      BY <2>1, <2>2
    <3>3. QED  BY <3>1, <3>2
  <2>4. at' \in Handlers /\ ~ None(list, at')
    BY <1>2, <2>1, <2>2, EntryTypes DEF None
  <2>5. \A x \in Own : at # x
    BY <1>3, <2>1
  <2>6. ASSUME NEW x \in Range(Periodic) PROVE Sits(new, x, at' # x)
    BY <1>2, <1>3, <2>3, <2>4, <2>5 DEF Sits
  <2>7. Sits(new, Tcp, tcpip_tcp_timer_active' /\ at' # Tcp)
    BY <1>2, <1>3, <2>1, <2>3, <2>4, <2>5 DEF Sits
  <2>8. at' = Tcp \/ pcbs' => tcpip_tcp_timer_active'
    BY <1>2, <1>3, <2>1, <2>4, <2>5 DEF Sits
  <2>9. m <= AppMax
    BY <1>2, <2>3
  <2>10. QED  BY <1>4, <2>3, <2>6, <2>7, <2>8, <2>9
<1>10. CASE PeriodicReturns
  <2>1. /\ at \in Range(Periodic) /\ at' = "check" /\ new = sys_timeout(list, Interval[at], at)
        /\ UNCHANGED <<tcpip_tcp_timer_active, pcbs>>
    BY <1>10 DEF PeriodicReturns
  <2>2. at \in Own /\ None(list, at)
    BY <1>2, <1>3, <2>1 DEF Sits
  <2>3. at # Tcp /\ at' # at /\ \A x \in Own : at' # x
    BY <1>3, <2>1
  <2>4. \A x \in Own : x # at => (at' # x <=> at # x)
    BY <2>3
  <2>5. tcpip_tcp_timer_active' = (at = Tcp \/ tcpip_tcp_timer_active)
    BY <1>2, <2>1, <2>3
  <2>6. pcbs' => tcpip_tcp_timer_active'
    BY <1>2, <2>1
  <2>7. QED  BY <1>6, <2>1, <2>2, <2>3, <2>4, <2>5, <2>6
<1>11. CASE TcpReturns
  <2>1. at = Tcp /\ at' = "check" /\ UNCHANGED pcbs
    BY <1>11 DEF TcpReturns
  <2>2. Tcp \in Own /\ None(list, Tcp) /\ tcpip_tcp_timer_active
    BY <1>2, <1>3, <2>1 DEF Sits
  <2>3. \A x \in Own : at' # x
    BY <1>3, <2>1
  <2>4. CASE new = sys_timeout(list, Interval[Tcp], Tcp) /\ UNCHANGED tcpip_tcp_timer_active
    <3>1. \A x \in Own : x # Tcp => (at' # x <=> at # x)
      BY <2>1, <2>3
    <3>2. tcpip_tcp_timer_active' = (Tcp = Tcp \/ tcpip_tcp_timer_active)
      BY <1>2, <2>2, <2>4
    <3>3. pcbs' => tcpip_tcp_timer_active'
      BY <2>2, <2>4
    <3>4. QED  BY <1>6, <2>2, <2>3, <2>4, <3>1, <3>2, <3>3
  <2>5. CASE ~ pcbs /\ tcpip_tcp_timer_active' = FALSE /\ UNCHANGED list
    <3>1. ASSUME NEW x \in Range(Periodic) PROVE Sits(new, x, at' # x)
      <4>1. Once(list, x)
        BY <1>2, <1>3, <2>1 DEF Sits
      <4>2. at' # x
        BY <1>3, <2>3
      <4>3. QED  BY <2>5, <4>1, <4>2 DEF Sits
    <3>2. Sits(new, Tcp, tcpip_tcp_timer_active' /\ at' # Tcp)
      BY <2>2, <2>5 DEF Sits
    <3>3. ~ (at' = Tcp \/ pcbs')
      BY <2>1, <2>2, <2>3, <2>5
    <3>4. m \in Nat /\ m <= AppMax
      BY <1>2, <2>5 DEF m, n
    <3>5. QED  BY <1>4, <3>1, <3>2, <3>3, <3>4
  <2>6. QED  BY <1>11, <2>4, <2>5 DEF TcpReturns
<1>12. CASE AppReturns
  <2>1. at \in App /\ at' = "check" /\ UNCHANGED <<list, tcpip_tcp_timer_active, pcbs>>
    BY <1>12 DEF AppReturns
  <2>2. at \notin Own /\ at' \notin Own
    BY <1>3, <2>1
  <2>3. QED  BY <1>5, <2>1, <2>2
<1>13. CASE Register
  <2>1. /\ pcbs' /\ tcpip_tcp_timer_active' = TRUE /\ UNCHANGED at
        /\ new = IF tcpip_tcp_timer_active THEN list ELSE sys_timeout(list, Interval[Tcp], Tcp)
    BY <1>13 DEF Register
  <2>2. CASE tcpip_tcp_timer_active
    <3>1. UNCHANGED list /\ tcpip_tcp_timer_active' = tcpip_tcp_timer_active
      BY <1>2, <2>1, <2>2
    <3>2. \A x \in Range(Periodic) : Sits(new, x, at' # x)
      BY <1>2, <2>1, <3>1
    <3>3. Sits(new, Tcp, tcpip_tcp_timer_active' /\ at' # Tcp)
      BY <1>2, <2>1, <3>1
    <3>4. m \in Nat /\ m <= AppMax
      BY <1>2, <3>1 DEF m, n
    <3>5. QED  BY <1>4, <2>1, <3>2, <3>3, <3>4
  <2>3. CASE ~ tcpip_tcp_timer_active
    <3>1. Tcp \in Own /\ None(list, Tcp) /\ at' # Tcp
      BY <1>2, <1>3, <2>1, <2>3 DEF Sits
    <3>2. \A x \in Own : x # Tcp => (at' # x <=> at # x)
      BY <2>1
    <3>3. tcpip_tcp_timer_active' = (Tcp = Tcp \/ tcpip_tcp_timer_active)
      BY <2>1
    <3>4. QED  BY <1>6, <2>1, <2>3, <3>1, <3>2, <3>3
  <2>4. QED  BY <2>2, <2>3
<1>14. CASE Unregister
  <2>1. pcbs' = FALSE /\ UNCHANGED <<list, tcpip_tcp_timer_active, at>>
    BY <1>14 DEF Unregister
  <2>2. \A x \in Range(Periodic) : Sits(new, x, at' # x)
    BY <1>2, <2>1
  <2>3. Sits(new, Tcp, tcpip_tcp_timer_active' /\ at' # Tcp)
    BY <1>2, <2>1
  <2>4. at' = Tcp \/ pcbs' => tcpip_tcp_timer_active'
    BY <1>2, <2>1
  <2>5. m \in Nat /\ m <= AppMax
    BY <1>2, <2>1 DEF m, n
  <2>6. QED  BY <1>4, <2>2, <2>3, <2>4, <2>5
\* The application's own timeouts.
<1>15. ASSUME at = "main", UNCHANGED <<tcpip_tcp_timer_active, pcbs, at>>,
              \A x \in Own : (Once(new, x) <=> Once(list, x)) /\ (None(new, x) <=> None(list, x)),
              m \in Nat, m <= AppMax
       PROVE  TimersInv'
  <2>1. ASSUME NEW x \in Range(Periodic) PROVE Sits(new, x, at' # x)
    BY <1>2, <1>3, <1>15 DEF Sits
  <2>2. Sits(new, Tcp, tcpip_tcp_timer_active' /\ at' # Tcp)
    BY <1>2, <1>3, <1>15 DEF Sits
  <2>3. QED  BY <1>2, <1>4, <1>15, <2>1, <2>2
<1>16. ASSUME NEW h \in App, NEW ms \in AppTimes, AppTimeout(h, ms) PROVE TimersInv'
  <2>1. /\ at = "main" /\ UNCHANGED <<tcpip_tcp_timer_active, pcbs, at>>
        /\ new = sys_timeout(list, ms, h) /\ h \in Handlers /\ ms \in Nat
    BY <1>3, <1>16 DEF AppTimeout
  <2>2. n < AppMax
    <3>1. UNION {Of(g) : g \in App} = Asked(list)
      BY <1>2 DEF Of, Asked
    <3>2. QED  BY <1>16, <3>1 DEF AppTimeout, n
  <2>3. /\ \A x : x # h => (Once(new, x) <=> Once(list, x)) /\ (None(new, x) <=> None(list, x))
        /\ m \in Nat /\ m <= n + 1
    BY <1>2, <2>1, TimeoutCounts DEF n, m
  <2>4. \A x \in Own : x # h
    BY <1>3
  <2>5. m <= AppMax
    BY <1>2, <2>2, <2>3
  <2>6. \A x \in Own : (Once(new, x) <=> Once(list, x)) /\ (None(new, x) <=> None(list, x))
    BY <2>3, <2>4
  <2>7. QED  BY <1>15, <2>1, <2>3, <2>5, <2>6
<1>17. ASSUME NEW h \in App, sys_untimeout(h) PROVE TimersInv'
  <2> DEFINE i == CHOOSE i \in Of(h) : \A j \in Of(h) : i <= j
  <2>1. /\ at = "main" /\ UNCHANGED <<tcpip_tcp_timer_active, pcbs, at>>
        /\ Of(h) # {} /\ new = Unlinked(list, i)
    BY <1>17 DEF sys_untimeout
  <2>2. i \in 1 .. Len(list) /\ list[i].h = h
    <3>1. Of(h) \in SUBSET Nat /\ Of(h) = {j \in 1 .. Len(list) : list[j].h = h}
      BY <1>2 DEF Of
    <3>2. \E k \in Of(h) : \A j \in Of(h) : k <= j
      BY <2>1, <3>1, Least
    <3>3. i \in Of(h)
      BY <3>2
    <3> HIDE DEF i
    <3>4. QED  BY <3>1, <3>3
  <2> HIDE DEF i
  <2>3. new \in Seq(Entry) /\ Around(new, list, i)
    BY <1>2, <2>1, <2>2, UnlinkedIs
  <2>4. /\ \A x : x # h => (Once(new, x) <=> Once(list, x)) /\ (None(new, x) <=> None(list, x))
        /\ m \in Nat /\ m <= n
    BY <1>2, <2>2, <2>3, RemovalCounts DEF n, m
  <2>5. \A x \in Own : (Once(new, x) <=> Once(list, x)) /\ (None(new, x) <=> None(list, x))
    BY <1>3, <2>4
  <2>6. m <= AppMax
    BY <1>2, <2>4
  <2>7. QED  BY <1>15, <2>1, <2>4, <2>5, <2>6
<1>18. CASE UNCHANGED vars
  BY <1>5, <1>18 DEF vars
<1>19. QED
  BY <1>7, <1>8, <1>9, <1>10, <1>11, <1>12, <1>13, <1>14, <1>16, <1>17, <1>18 DEF Next, HandlerReturns

THEOREM TimersAreKept == Spec => []TimersInv
<1>1. QED  BY InitTimers, StepTimers, PTL DEF Spec

\* The list, the flag and the place in the code are what the code declares them to
\* be; in particular no entry has more time left than a u32_t holds, so that
\* nothing sys_timeout, sys_untimeout and sys_check_timeouts add or subtract wraps.
THEOREM TimesFit == Spec => []TimerTypes
<1>1. TimersInv => TimerTypes
  BY DEF TimersInv
<1>2. QED  BY <1>1, TimersAreKept, PTL

\* Each timer of lwIP is in the list once, or its handler runs and is about to
\* set it again; that of TCP exactly while its flag says so, and the flag is set
\* while there is a connection.  No request of lwIP's own handlers ever finds the
\* pool empty, whatever the application sets and cancels up to its share.
THEOREM TimersAreSet == Spec => []EveryTimerIsSet
<1>1. TimersInv => EveryTimerIsSet
  <2> SUFFICES ASSUME TimersInv PROVE EveryTimerIsSet
    OBVIOUS
  <2>1. /\ DOMAIN next_timeout = 1 .. Len(next_timeout)
        /\ \A x \in Range(Periodic) : Sits(next_timeout, x, at # x)
        /\ Sits(next_timeout, Tcp, tcpip_tcp_timer_active /\ at # Tcp)
        /\ at = Tcp \/ pcbs => tcpip_tcp_timer_active
    BY EntryTypes DEF TimersInv, TimerTypes
  <2>2. ASSUME NEW x, None(next_timeout, x) PROVE Cardinality(Of(x)) = 0
    <3>1. Of(x) = {}
      BY <2>1, <2>2 DEF Of, None
    <3>2. QED  BY <3>1, FS_EmptySet
  <2>3. ASSUME NEW x, Once(next_timeout, x) PROVE Cardinality(Of(x)) = 1
    <3>1. PICK i \in 1 .. Len(next_timeout) :
            \A j \in 1 .. Len(next_timeout) : next_timeout[j].h = x <=> j = i
      BY <2>3 DEF Once
    <3>2. Of(x) = {i}
      BY <2>1, <3>1 DEF Of
    <3>3. QED  BY <3>2, FS_Singleton
  <2>4. ASSUME NEW x \in Range(Periodic) PROVE Entries(x) = 1
    BY <2>1, <2>2, <2>3 DEF Entries, Sits
  <2>5. Entries(Tcp) = IF tcpip_tcp_timer_active THEN 1 ELSE 0
    BY <2>1, <2>2, <2>3 DEF Entries, Sits
  <2>6. QED  BY <2>1, <2>4, <2>5 DEF EveryTimerIsSet
<1>2. QED  BY <1>1, TimersAreKept, PTL

LEMMA InitInAgenda == Init => A!Init
<1> SUFFICES ASSUME Init PROVE A!Init
  OBVIOUS
<1>1. next_timeout \in Seq(Entry) /\ at = "main" /\ diff = 0
  BY StartIs DEF Init
<1>2. ASSUME NEW i \in 1 .. (Len(AgendaOf(next_timeout)) - 1)
      PROVE  AgendaOf(next_timeout)[i].left <= AgendaOf(next_timeout)[i + 1].left
  <2>1. /\ Len(AgendaOf(next_timeout)) = Len(next_timeout) /\ Len(next_timeout) \in Nat
        /\ \A k \in 1 .. Len(next_timeout) :
             AgendaOf(next_timeout)[k].left = Before(next_timeout, k)
    BY <1>1, AgendaIs, EntryTypes
  <2>2. i \in 1 .. Len(next_timeout) /\ i + 1 \in 1 .. Len(next_timeout) /\ (i + 1) - 1 = i
        /\ i \in 0 .. Len(next_timeout)
    BY <2>1
  <2>3. /\ Before(next_timeout, i + 1) = Before(next_timeout, i) + next_timeout[i + 1].time
        /\ Before(next_timeout, i) \in Nat /\ next_timeout[i + 1].time \in Nat
    BY <1>1, <2>1, <2>2, BeforeIs, BeforeGrows, EntryTypes
  <2>4. QED  BY <2>1, <2>2, <2>3
<1>3. QED  BY <1>1, <1>2 DEF A!Init, AgendaOf

\* The list of differences implements the agenda: whatever is set, cancelled and
\* expires before it, each timeout keeps its time, and they expire in the order
\* they are due, equal ones in the order they were set.  That a check comes to an
\* end is all that AgendaSpec asks besides.
THEOREM ListIsAgenda == Spec => A!Safety /\ (A!ChecksEnd => AgendaSpec)
<1>1. Spec => [][A!Next]_(A!agendaVars)
  BY TimesFit, StepInAgenda, PTL DEF Spec
<1>2. Spec => A!Safety
  BY <1>1, InitInAgenda, PTL DEF Spec, A!Safety
<1>3. QED  BY <1>2, PTL DEF AgendaSpec, A!Spec
===============================================================================
