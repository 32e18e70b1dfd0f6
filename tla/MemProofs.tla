------------------------------ MODULE MemProofs ------------------------------
(***************************************************************************)
(* Proofs about Mem, for every size of the heap and of struct mem and for  *)
(* every set of requests: with one caller the list stays sound, regions    *)
(* never overlap, a refusal is right, and nothing is lost by               *)
(* fragmentation once everything was given back.                           *)
(***************************************************************************)
EXTENDS Mem, TLAPS

\* mem.c has no lock in this build: nothing below holds with two callers.
OneCaller == \A c, d \in Contexts : c = d

Rams == [Offsets -> [next : Offsets, prev : Offsets, used : BOOLEAN]]

\* ListIsLinked of any ram and any set of offsets.
Linked(r, B) ==
  /\ 0 \in B
  /\ r[0].prev = 0
  /\ r[ram_end].used /\ r[ram_end].next = ram_end
  /\ \A o \in B :
       /\ r[o].next \in B \cup {ram_end}
       /\ r[o].next >= o + SIZEOF_STRUCT_MEM + MIN_SIZE_ALIGNED
       /\ \A b \in B : b <= o \/ r[o].next <= b
       /\ r[o].next # ram_end => r[r[o].next].prev = o
       /\ o # 0 => r[o].prev \in B /\ r[r[o].prev].next = o

-----------------------------------------------------------------------------

LEMMA Widths ==
  /\ SIZEOF_STRUCT_MEM \in Nat \ {0} /\ MIN_SIZE_ALIGNED \in Nat \ {0}
  /\ ram_end \in Nat /\ ram_end = MEM_SIZE_ALIGNED
  /\ SIZEOF_STRUCT_MEM + MIN_SIZE_ALIGNED <= ram_end
  /\ MemSizeT \in Nat /\ ram_end < MemSizeT
  /\ 0 \in Offsets /\ ram_end \in Offsets
  BY MemAssumption DEF ram_end, Offsets

\* Rounding up to a multiple gives no less.
LEMMA RoundingUp ==
  ASSUME NEW s \in Nat, NEW a \in Nat \ {0}
  PROVE  /\ ((s + a - 1) \div a) * a \in Nat
         /\ ((s + a - 1) \div a) * a >= s
         /\ ((s + a - 1) \div a) * a < s + a
<1> DEFINE q == (s + a - 1) \div a
           r == (s + a - 1) % a
<1>1. s + a - 1 \in Nat
  OBVIOUS
<1>2. q \in Nat /\ r \in 0 .. (a - 1) /\ s + a - 1 = a * q + r
  BY <1>1
<1> HIDE DEF q, r
<1>3. q * a = a * q /\ a * q \in Nat
  BY <1>2
<1>4. q * a \in Nat /\ q * a >= s /\ q * a < s + a
  BY <1>2, <1>3
<1>5. QED  BY <1>4 DEF q

\* The size mem_malloc works with is at least MIN_SIZE_ALIGNED and, if it can be
\* rounded up at all, at least what was asked for.
LEMMA RoundedIs ==
  ASSUME NEW s \in 0 .. (MemSizeT - 1)
  PROVE  /\ Rounded(s) \in Nat
         /\ Rounded(s) >= MIN_SIZE_ALIGNED
         /\ Representable(s) => Rounded(s) >= s
<1> DEFINE x == ((s + MEM_ALIGNMENT - 1) \div MEM_ALIGNMENT) * MEM_ALIGNMENT
<1>1. s \in Nat /\ MEM_ALIGNMENT \in Nat \ {0} /\ MemSizeT \in Nat \ {0}
  BY MemAssumption
<1>2. x \in Nat /\ x >= s /\ x < s + MEM_ALIGNMENT
  BY <1>1, RoundingUp
<1> HIDE DEF x
<1>3. LWIP_MEM_ALIGN_SIZE(s) = x % MemSizeT
  BY DEF LWIP_MEM_ALIGN_SIZE, x
<1>4. x % MemSizeT \in Nat /\ (x < MemSizeT => x % MemSizeT = x)
  BY <1>1, <1>2
<1>5. Representable(s) => x < MemSizeT
  BY <1>1, <1>2 DEF Representable
<1>6. QED  BY <1>2, <1>3, <1>4, <1>5, Widths DEF Rounded

-----------------------------------------------------------------------------

\* What Insert writes.
LEMMA InsertFields ==
  ASSUME NEW r \in Rams, NEW o \in Offsets, NEW p2 \in Offsets, NEW n \in Offsets,
         o # p2, n # p2, n # o
  PROVE  /\ Insert(r, o, p2, n) \in Rams
         /\ Insert(r, o, p2, n)[o].next = p2
         /\ Insert(r, o, p2, n)[o].prev = r[o].prev
         /\ Insert(r, o, p2, n)[o].used = r[o].used
         /\ Insert(r, o, p2, n)[p2] = [next |-> n, prev |-> o, used |-> FALSE]
         /\ Insert(r, o, p2, n)[n].next = r[n].next
         /\ Insert(r, o, p2, n)[n].used = r[n].used
         /\ n # ram_end => Insert(r, o, p2, n)[n].prev = p2
         /\ \A x \in Offsets \ {o, p2, n} : Insert(r, o, p2, n)[x] = r[x]
<1> DEFINE q == [r EXCEPT ![p2] = [next |-> n, prev |-> o, used |-> FALSE]]
           s == [q EXCEPT ![o] = [next |-> p2, prev |-> q[o].prev, used |-> q[o].used]]
<1>a. q \in Rams
  BY DEF Rams
<1>b. q[p2] = [next |-> n, prev |-> o, used |-> FALSE]
      /\ \A x \in Offsets \ {p2} : q[x] = r[x]
  BY DEF Rams
<1>c. [r EXCEPT ![p2] = [next |-> n, prev |-> o, used |-> FALSE], ![o].next = p2]
        = [q EXCEPT ![o].next = p2]
  OBVIOUS
<1> HIDE DEF q
<1>d. q[o] = [next |-> q[o].next, prev |-> q[o].prev, used |-> q[o].used]
  BY <1>a DEF Rams
<1>e. [q EXCEPT ![o].next = p2] = s
  <2>1. [q[o] EXCEPT !.next = p2] = [next |-> p2, prev |-> q[o].prev, used |-> q[o].used]
    BY <1>a DEF Rams
  <2>2. QED  BY <2>1
<1>1. s \in Rams
  BY <1>a DEF Rams
<1>2. /\ s[o].next = p2 /\ s[o].prev = r[o].prev /\ s[o].used = r[o].used
      /\ s[p2] = [next |-> n, prev |-> o, used |-> FALSE]
      /\ \A x \in Offsets \ {o, p2} : s[x] = r[x]
  BY <1>a, <1>b DEF Rams
<1>3. Insert(r, o, p2, n) = IF n # ram_end THEN [s EXCEPT ![n].prev = p2] ELSE s
  BY <1>c, <1>e DEF Insert
<1> HIDE DEF s
<1>4. CASE n # ram_end
  <2>1. Insert(r, o, p2, n) = [s EXCEPT ![n].prev = p2]
    BY <1>3, <1>4
  <2>2. Insert(r, o, p2, n) \in Rams
    BY <1>1, <2>1 DEF Rams
  <2>3. /\ Insert(r, o, p2, n)[n].prev = p2
        /\ Insert(r, o, p2, n)[n].next = s[n].next
        /\ Insert(r, o, p2, n)[n].used = s[n].used
        /\ \A x \in Offsets \ {n} : Insert(r, o, p2, n)[x] = s[x]
    BY <1>1, <2>1 DEF Rams
  <2>4. QED  BY <1>2, <2>2, <2>3
<1>5. CASE n = ram_end
  BY <1>1, <1>2, <1>3, <1>5
<1>6. QED  BY <1>4, <1>5

\* A struct mem put between o and its successor keeps the list linked.
LEMMA InsertLinked ==
  ASSUME NEW r \in Rams, NEW B \in SUBSET (Offsets \ {ram_end}), Linked(r, B),
         NEW o \in B, NEW p2 \in Nat, NEW n, n = r[o].next,
         p2 >= o + SIZEOF_STRUCT_MEM + MIN_SIZE_ALIGNED,
         n >= p2 + SIZEOF_STRUCT_MEM + MIN_SIZE_ALIGNED
  PROVE  /\ p2 \in Offsets \ {ram_end} /\ p2 \notin B
         /\ Linked(Insert(r, o, p2, n), B \cup {p2})
<1> DEFINE t == Insert(r, o, p2, n)
<1>1. /\ o \in Offsets \ {ram_end} /\ n \in Offsets /\ o \in Nat /\ n \in Nat
      /\ n \in B \cup {ram_end}
  BY DEF Rams, Linked, Offsets
<1>2. /\ p2 \in Offsets \ {ram_end} /\ p2 \notin B
      /\ o < p2 /\ p2 < n /\ o # p2 /\ n # p2 /\ n # o
  BY <1>1, Widths DEF Linked, Offsets
<1>3. /\ t[o].next = p2 /\ t[o].prev = r[o].prev
      /\ t[p2].next = n /\ t[p2].prev = o
      /\ t[n].next = r[n].next /\ t[n].used = r[n].used
      /\ n # ram_end => t[n].prev = p2
      /\ \A x \in Offsets \ {o, p2, n} : t[x] = r[x]
  <2>1. o \in Offsets /\ p2 \in Offsets /\ n \in Offsets /\ o # p2 /\ n # p2 /\ n # o
    BY <1>1, <1>2
  <2>2. /\ Insert(r, o, p2, n)[o].next = p2
        /\ Insert(r, o, p2, n)[o].prev = r[o].prev
        /\ Insert(r, o, p2, n)[p2] = [next |-> n, prev |-> o, used |-> FALSE]
        /\ Insert(r, o, p2, n)[n].next = r[n].next
        /\ Insert(r, o, p2, n)[n].used = r[n].used
        /\ n # ram_end => Insert(r, o, p2, n)[n].prev = p2
        /\ \A x \in Offsets \ {o, p2, n} : Insert(r, o, p2, n)[x] = r[x]
    BY <2>1, InsertFields
  <2>3. QED  BY <2>2
<1> HIDE DEF t
<1>4. 0 \in B \cup {p2} /\ t[0].prev = 0
  BY <1>1, <1>2, <1>3, Widths DEF Linked
<1>5. t[ram_end].used /\ t[ram_end].next = ram_end
  BY <1>1, <1>2, <1>3, Widths DEF Linked
<1>6. ASSUME NEW x \in B \cup {p2}
      PROVE  /\ t[x].next \in B \cup {p2} \cup {ram_end}
             /\ t[x].next >= x + SIZEOF_STRUCT_MEM + MIN_SIZE_ALIGNED
             /\ \A b \in B \cup {p2} : b <= x \/ t[x].next <= b
             /\ t[x].next # ram_end => t[t[x].next].prev = x
             /\ x # 0 => t[x].prev \in B \cup {p2} /\ t[t[x].prev].next = x
  <2>1. CASE x = o
    <3>1. \A b \in B : b <= o \/ n <= b
      BY DEF Linked
    <3>2. \A b \in B \cup {p2} : b <= o \/ p2 <= b
      BY <1>1, <1>2, <3>1 DEF Offsets
    <3>3. o # 0 => r[o].prev \in B /\ r[r[o].prev].next = o
      BY DEF Linked
    <3>4. o # 0 => r[o].prev \notin {o, p2, n}
      BY <1>1, <1>2, <3>3, Widths DEF Linked, Offsets
    <3>5. QED  BY <1>1, <1>2, <1>3, <2>1, <3>2, <3>3, <3>4
  <2>2. CASE x = p2
    <3>1. \A b \in B : b <= o \/ n <= b
      BY DEF Linked
    <3>2. \A b \in B \cup {p2} : b <= p2 \/ n <= b
      BY <1>1, <1>2, <3>1 DEF Offsets
    <3>3. QED  BY <1>1, <1>2, <1>3, <2>2, <3>2
  <2>3. CASE x \in B /\ x = n
    <3>1. /\ r[n].next \in B \cup {ram_end}
          /\ r[n].next >= n + SIZEOF_STRUCT_MEM + MIN_SIZE_ALIGNED
          /\ \A b \in B : b <= n \/ r[n].next <= b
          /\ r[n].next # ram_end => r[r[n].next].prev = n
      BY <2>3 DEF Linked
    <3>2. r[n].next \in Offsets /\ r[n].next \notin {o, p2, n}
      <4>1. r[n].next \in Offsets /\ r[n].next \in Nat
        BY <1>1 DEF Rams, Offsets
      <4>2. r[n].next > n
        BY <1>1, <3>1, <4>1, Widths
      <4>3. QED  BY <1>1, <1>2, <4>1, <4>2 DEF Offsets
    <3>3. n # ram_end /\ n # 0
      BY <1>1, <1>2, <2>3, Widths DEF Offsets
    <3>4. \A b \in B \cup {p2} : b <= n \/ r[n].next <= b
      BY <1>1, <1>2, <3>1
    <3>5. QED  BY <1>1, <1>2, <1>3, <2>3, <3>1, <3>2, <3>3, <3>4
  <2>4. CASE x \in B \ {o, n}
    <3>1. x \in Offsets /\ x \notin {o, p2, n} /\ x \in Nat /\ t[x] = r[x]
      BY <1>2, <1>3, <2>4 DEF Offsets
    <3>2. /\ r[x].next \in B \cup {ram_end}
          /\ r[x].next >= x + SIZEOF_STRUCT_MEM + MIN_SIZE_ALIGNED
          /\ \A b \in B : b <= x \/ r[x].next <= b
          /\ r[x].next # ram_end => r[r[x].next].prev = x
          /\ x # 0 => r[x].prev \in B /\ r[r[x].prev].next = x
      BY <2>4 DEF Linked
    <3>3. \A b \in B : b <= o \/ n <= b
      BY DEF Linked
    <3>4. r[x].next \in Nat /\ (x < o \/ n < x)
      BY <1>1, <2>4, <3>1, <3>3 DEF Rams, Offsets
    <3>5. \A b \in B \cup {p2} : b <= x \/ r[x].next <= b
      BY <1>1, <1>2, <3>1, <3>2, <3>4 DEF Offsets
    <3>6. r[x].next # n /\ r[x].next # p2
      <4>1. r[x].next # n
        <5>1. n # ram_end => r[n].prev = o
          BY <1>1 DEF Linked
        <5>2. n # ram_end /\ r[x].next = n => x = o
          BY <3>2, <5>1
        <5>3. r[x].next = ram_end => \A b \in B : b <= x \/ ram_end <= b
          BY <3>2
        <5>4. n = ram_end /\ r[x].next = n => x = o
          BY <1>1, <1>2, <2>4, <3>1, <3>3, <5>3, Widths DEF Offsets
        <5>5. QED  BY <2>4, <5>2, <5>4
      <4>2. r[x].next # p2
        BY <1>2, <3>2, Widths
      <4>3. QED  BY <4>1, <4>2
    <3>7. x # 0 => r[x].prev # o /\ r[x].prev # p2
      BY <1>2, <2>4, <3>2
    <3>8. r[x].next # ram_end => t[r[x].next].prev = x
      BY <1>1, <1>2, <1>3, <3>1, <3>2, <3>6 DEF Rams
    <3>9. x # 0 => t[r[x].prev].next = x
      BY <1>1, <1>2, <1>3, <3>1, <3>2, <3>7
    <3>10. QED  BY <3>1, <3>2, <3>5, <3>8, <3>9
  <2>5. QED  BY <2>1, <2>2, <2>3, <2>4
<1>7. Linked(t, B \cup {p2})
  BY <1>4, <1>5, <1>6 DEF Linked
<1>8. QED  BY <1>2, <1>7 DEF t

-----------------------------------------------------------------------------

\* What Join writes.
LEMMA JoinFields ==
  ASSUME NEW r \in Rams, NEW o \in Offsets, NEW n \in Offsets, NEW m \in Offsets,
         m = r[n].next, m # o
  PROVE  /\ Join(r, o, n) \in Rams
         /\ Join(r, o, n)[o].next = m
         /\ Join(r, o, n)[o].prev = r[o].prev
         /\ Join(r, o, n)[o].used = r[o].used
         /\ Join(r, o, n)[m].next = r[m].next
         /\ Join(r, o, n)[m].prev = o
         /\ Join(r, o, n)[m].used = r[m].used
         /\ \A x \in Offsets \ {o, m} : Join(r, o, n)[x] = r[x]
<1> DEFINE q == [r EXCEPT ![o].next = m]
<1>1. q \in Rams
  BY DEF Rams
<1>2. /\ q[o].next = m /\ q[o].prev = r[o].prev /\ q[o].used = r[o].used
      /\ \A x \in Offsets \ {o} : q[x] = r[x]
  BY DEF Rams
<1>3. Join(r, o, n) = [q EXCEPT ![m].prev = o]
  BY DEF Join
<1> HIDE DEF q
<1>4. Join(r, o, n) \in Rams
  BY <1>1, <1>3 DEF Rams
<1>5. /\ Join(r, o, n)[m].prev = o /\ Join(r, o, n)[m].next = q[m].next
      /\ Join(r, o, n)[m].used = q[m].used
      /\ \A x \in Offsets \ {m} : Join(r, o, n)[x] = q[x]
  BY <1>1, <1>3 DEF Rams
<1>6. QED  BY <1>2, <1>4, <1>5

\* A struct mem and its successor joined: the list stays linked.
LEMMA JoinLinked ==
  ASSUME NEW r \in Rams, NEW B \in SUBSET (Offsets \ {ram_end}), Linked(r, B),
         NEW o \in B, NEW n, n = r[o].next, n # ram_end
  PROVE  /\ n \in B /\ n # 0 /\ o < n /\ r[n].next > n /\ r[n].next # o
         /\ Linked(Join(r, o, n), B \ {n})
<1> DEFINE t == Join(r, o, n)
           m == r[n].next
<1>1. /\ o \in Offsets \ {ram_end} /\ o \in Nat
      /\ n \in B /\ n \in Offsets /\ n \in Nat
      /\ m \in Offsets /\ m \in Nat /\ m \in B \cup {ram_end}
  BY DEF Rams, Linked, Offsets
<1>2. n # 0 /\ o < n /\ n < m /\ m # o
  BY <1>1, Widths DEF Linked
<1>3. /\ t[o].next = m /\ t[o].prev = r[o].prev
      /\ t[m].next = r[m].next /\ t[m].prev = o /\ t[m].used = r[m].used
      /\ \A x \in Offsets \ {o, m} : t[x] = r[x]
  <2>1. o \in Offsets /\ n \in Offsets /\ m \in Offsets /\ m # o
    BY <1>1, <1>2
  <2> HIDE DEF m
  <2>2. m = r[n].next
    BY DEF m
  <2>3. QED  BY <2>1, <2>2, JoinFields
<1> HIDE DEF t
<1>4. 0 \in B \ {n} /\ t[0].prev = 0
  BY <1>1, <1>2, <1>3, Widths DEF Linked
<1>5. t[ram_end].used /\ t[ram_end].next = ram_end
  BY <1>1, <1>2, <1>3, Widths DEF Linked
<1>6. ASSUME NEW x \in B \ {n}
      PROVE  /\ t[x].next \in (B \ {n}) \cup {ram_end}
             /\ t[x].next >= x + SIZEOF_STRUCT_MEM + MIN_SIZE_ALIGNED
             /\ \A b \in B \ {n} : b <= x \/ t[x].next <= b
             /\ t[x].next # ram_end => t[t[x].next].prev = x
             /\ x # 0 => t[x].prev \in B \ {n} /\ t[t[x].prev].next = x
  <2>1. CASE x = o
    <3>1. /\ \A b \in B : b <= o \/ n <= b
          /\ \A b \in B : b <= n \/ m <= b
          /\ m >= n + SIZEOF_STRUCT_MEM + MIN_SIZE_ALIGNED
      BY <1>1 DEF Linked
    <3>2. ASSUME NEW b \in B \ {n} PROVE b <= o \/ m <= b
      <4>1. b \in Nat /\ b # n
        BY DEF Offsets
      <4>2. (b <= o \/ n <= b) /\ (b <= n \/ m <= b)
        BY <3>1
      <4> HIDE DEF m
      <4>3. QED  BY <1>1, <4>1, <4>2
    <3>3. m >= o + SIZEOF_STRUCT_MEM + MIN_SIZE_ALIGNED
      BY <1>1, <1>2, <3>1, Widths
    <3>4. o # 0 => r[o].prev \in B /\ r[r[o].prev].next = o
      BY DEF Linked
    <3>5. ASSUME o # 0
          PROVE  r[o].prev \in Nat /\ r[o].prev < o
      <4> DEFINE p == r[o].prev
      <4>1. p \in B /\ r[p].next = o
        BY <3>4, <3>5
      <4>2. p \in Nat /\ r[p].next >= p + SIZEOF_STRUCT_MEM + MIN_SIZE_ALIGNED
        <5>1. r[p].next >= p + SIZEOF_STRUCT_MEM + MIN_SIZE_ALIGNED
          BY <4>1 DEF Linked
        <5>2. B \subseteq Nat
          BY DEF Offsets
        <5>3. QED  BY <4>1, <5>1, <5>2
      <4> HIDE DEF p
      <4>3. p < o
        BY <1>1, <4>1, <4>2, Widths
      <4>4. QED  BY <4>2, <4>3 DEF p
    <3>6. o # 0 => r[o].prev \notin {o, m, n}
      BY <1>1, <1>2, <3>4, <3>5
    <3>7. t[o].next \in (B \ {n}) \cup {ram_end}
      BY <1>1, <1>2, <1>3
    <3>8. t[o].next # ram_end => t[t[o].next].prev = o
      BY <1>3
    <3>9. o # 0 => t[o].prev \in B \ {n} /\ t[t[o].prev].next = o
      <4>1. o # 0 => r[o].prev \in Offsets \ {o, m}
        BY <3>4, <3>6
      <4>2. o # 0 => t[r[o].prev] = r[r[o].prev]
        BY <1>3, <4>1
      <4>3. QED  BY <1>3, <3>4, <3>6, <4>2
    <3>10. t[o].next >= o + SIZEOF_STRUCT_MEM + MIN_SIZE_ALIGNED
      BY <1>3, <3>3
    <3>11. \A b \in B \ {n} : b <= o \/ t[o].next <= b
      BY <1>3, <3>2
    <3>12. QED  BY <2>1, <3>7, <3>8, <3>9, <3>10, <3>11
  <2>2. CASE x = m
    <3>1. x \in B /\ m # ram_end /\ m # 0
      BY <1>1, <1>2, <2>2, Widths DEF Offsets
    <3>2. /\ r[m].next \in B \cup {ram_end}
          /\ r[m].next >= m + SIZEOF_STRUCT_MEM + MIN_SIZE_ALIGNED
          /\ \A b \in B : b <= m \/ r[m].next <= b
          /\ r[m].next # ram_end => r[r[m].next].prev = m
      BY <2>2, <3>1 DEF Linked
    <3>3. r[m].next \in Offsets /\ r[m].next \in Nat /\ r[m].next > m
      <4>1. r[m].next \in Offsets /\ r[m].next \in Nat
        BY <1>1 DEF Rams, Offsets
      <4>2. m \in Nat /\ r[m].next >= m + SIZEOF_STRUCT_MEM + MIN_SIZE_ALIGNED
        BY <1>1, <3>2
      <4>3. QED  BY <4>1, <4>2, Widths
    <3>4. r[m].next \notin {o, n, m}
      BY <1>1, <1>2, <3>3
    <3>5. o \in B \ {n}
      BY <1>1, <1>2
    <3>6. QED  BY <1>3, <2>2, <3>2, <3>3, <3>4, <3>5
  <2>3. CASE x \notin {o, m}
    <3>1. x \in Offsets /\ x \in Nat /\ t[x] = r[x]
      BY <1>3, <2>3 DEF Offsets
    <3>2. /\ r[x].next \in B \cup {ram_end}
          /\ r[x].next >= x + SIZEOF_STRUCT_MEM + MIN_SIZE_ALIGNED
          /\ \A b \in B : b <= x \/ r[x].next <= b
          /\ r[x].next # ram_end => r[r[x].next].prev = x
          /\ x # 0 => r[x].prev \in B /\ r[r[x].prev].next = x
      BY DEF Linked
    <3>3. /\ r[n].prev = o /\ (m # ram_end => r[m].prev = n)
          /\ \A b \in B : b <= n \/ m <= b
      BY <1>1 DEF Linked
    <3>4. r[x].next \in Offsets /\ r[x].next \in Nat
      BY <3>1 DEF Rams, Offsets
    <3>5. r[x].next # n
      BY <1>1, <2>3, <3>2, <3>3
    <3>6. r[x].next # m \/ m = ram_end
      BY <3>2, <3>3
    <3>7. r[x].next # ram_end => t[r[x].next].prev = x
      BY <1>1, <1>3, <2>3, <3>2, <3>4, <3>6
    <3>8. x # 0 => r[x].prev # n
      BY <2>3, <3>2
    <3>9. x # 0 => r[x].prev # o
      BY <1>1, <3>2
    <3>10. x # 0 => t[r[x].prev].next = x
      BY <1>1, <1>3, <3>2, <3>9
    <3>11. QED  BY <3>1, <3>2, <3>5, <3>7, <3>8, <3>10
  <2>4. QED  BY <2>1, <2>2, <2>3
<1>7. Linked(t, B \ {n})
  BY <1>4, <1>5, <1>6 DEF Linked
<1>8. QED  BY <1>1, <1>2, <1>7 DEF t

\* Only what lies under a struct mem, and at ram_end, matters.
LEMMA AgreeLinked ==
  ASSUME NEW r \in Rams, NEW t \in Rams, NEW B \in SUBSET (Offsets \ {ram_end}),
         Linked(r, B), \A o \in B : t[o].next = r[o].next /\ t[o].prev = r[o].prev,
         t[ram_end].used, t[ram_end].next = ram_end
  PROVE  Linked(t, B)
<1>1. 0 \in B /\ t[0].prev = 0
  BY DEF Linked
<1>2. ASSUME NEW o \in B
      PROVE  /\ t[o].next \in B \cup {ram_end}
             /\ t[o].next >= o + SIZEOF_STRUCT_MEM + MIN_SIZE_ALIGNED
             /\ \A b \in B : b <= o \/ t[o].next <= b
             /\ t[o].next # ram_end => t[t[o].next].prev = o
             /\ o # 0 => t[o].prev \in B /\ t[t[o].prev].next = o
  BY DEF Linked
<1>3. QED  BY <1>1, <1>2 DEF Linked

\* Forget changes only what lies under no struct mem.
LEMMA ForgetFields ==
  ASSUME NEW r \in Rams, NEW gone \in SUBSET Offsets
  PROVE  /\ Forget(r, gone) \in Rams
         /\ \A o \in Offsets \ gone : Forget(r, gone)[o] = r[o]
<1>1. Data \in [next : Offsets, prev : Offsets, used : BOOLEAN]
  BY Widths DEF Data
<1>2. [o \in Offsets |-> IF o \in gone THEN Data ELSE r[o]] \in Rams
  BY <1>1 DEF Rams
<1>3. QED  BY <1>2 DEF Forget

-----------------------------------------------------------------------------

\* The free list, whatever context looks at it: l is the lowest of the free ones.
Lowest(r, l, B) ==
  /\ l \in B \cup {ram_end}
  /\ l # ram_end => ~r[l].used
  /\ \A x \in B : ~r[x].used => l <= x

Owned(r, B, lv) ==
  \A x \in Offsets :
    /\ lv[x] # 0 <=> x \in B /\ r[x].used
    /\ lv[x] # 0 => x + SIZEOF_STRUCT_MEM + Rounded(lv[x]) <= r[x].next

\* What MemInv says of the heap while no mem_malloc is in progress.
Calm(r, l, B, lv) ==
  /\ r \in Rams /\ l \in Offsets
  /\ B \in SUBSET (Offsets \ {ram_end})
  /\ lv \in [Offsets -> 0 .. (MemSizeT - 1)]
  /\ Linked(r, B)
  /\ \A x \in B : r[x].used \/ r[r[x].next].used
  /\ Owned(r, B, lv)
  /\ Lowest(r, l, B)

\* The first half of plug_holes, when only o may have a free neighbour.
LEMMA Forward ==
  ASSUME NEW r \in Rams, NEW B \in SUBSET (Offsets \ {ram_end}), Linked(r, B),
         NEW o \in B, NEW l, Lowest(r, l, B), ~r[o].used,
         \A x \in B : r[x].used \/ r[r[x].next].used \/ x = o \/ r[x].next = o
  PROVE  LET f == PlugForward(r, l, o)
         IN  /\ f.ram \in Rams
             /\ f.gone \in SUBSET (B \ {0, o})
             /\ Linked(f.ram, B \ f.gone)
             /\ Lowest(f.ram, f.lfree, B \ f.gone)
             /\ f.ram[o].prev = r[o].prev
             /\ f.ram[f.ram[o].next].used
             /\ \A x \in Offsets : f.ram[x].used = r[x].used
             /\ \A x \in f.gone : ~r[x].used
             /\ \A x \in B \ f.gone : x # o => f.ram[x].next = r[x].next
             /\ \A x \in B \ f.gone :
                  \/ f.ram[x].used \/ f.ram[f.ram[x].next].used \/ f.ram[x].next = o
<1> DEFINE n == r[o].next
           f == PlugForward(r, l, o)
<1>1. /\ o \in Offsets \ {ram_end} /\ o \in Nat /\ n \in Offsets /\ n \in Nat
      /\ n \in B \cup {ram_end} /\ n > o
  <2>1. o \in Nat /\ n \in Nat /\ n \in Offsets
    BY DEF Rams, Offsets
  <2>2. n >= o + SIZEOF_STRUCT_MEM + MIN_SIZE_ALIGNED /\ n \in B \cup {ram_end}
    BY DEF Linked
  <2>3. QED  BY <2>1, <2>2, Widths
<1>2. CASE ~r[n].used /\ n # ram_end
  <2> DEFINE t == Join(r, o, n)
             k == IF l = n THEN o ELSE l
  <2>1. f.ram = t /\ f.lfree = k /\ f.gone = {n}
    BY <1>1, <1>2 DEF PlugForward
  <2>2. /\ n \in B /\ n # 0 /\ o < n /\ r[n].next > n /\ r[n].next # o
        /\ Linked(t, B \ {n})
    BY <1>2, JoinLinked
  <2>3. n \in Offsets /\ r[n].next \in Offsets /\ r[n].next \in Nat
    BY <1>1 DEF Rams, Offsets
  <2>4. /\ t \in Rams
        /\ t[o].next = r[n].next /\ t[o].prev = r[o].prev /\ t[o].used = r[o].used
        /\ t[r[n].next].next = r[r[n].next].next
        /\ t[r[n].next].used = r[r[n].next].used
        /\ \A x \in Offsets \ {o, r[n].next} : t[x] = r[x]
    <3> HIDE DEF n
    <3>1. n \in Offsets /\ r[n].next \in Offsets /\ r[n].next # o
      BY <2>2, <2>3
    <3>2. QED  BY <3>1, JoinFields
  <2> HIDE DEF t, f
  <2>5. \A x \in Offsets : t[x].used = r[x].used
    BY <2>3, <2>4
  <2>6. \A x \in B \ {n} : x # o => t[x].next = r[x].next
    BY <2>3, <2>4
  <2>7. r[r[n].next].used
    BY <1>1, <1>2, <2>2
  <2>8. Lowest(t, k, B \ {n})
    <3>1. \A x \in B \ {n} : ~r[x].used => k <= x
      <4>1. l = n => \A x \in B : ~r[x].used => n <= x
        BY DEF Lowest
      <4>2. \A x \in B : x \in Nat
        BY DEF Offsets
      <4>3. QED  BY <1>1, <4>1, <4>2 DEF Lowest
    <3>2. k \in (B \ {n}) \cup {ram_end}
      BY <1>1 DEF Lowest
    <3>3. k # ram_end => ~r[k].used
      BY DEF Lowest
    <3>4. k \in Offsets
      BY <3>2, Widths
    <3> HIDE DEF k
    <3>5. QED  BY <2>5, <3>1, <3>2, <3>3, <3>4 DEF Lowest
  <2>9. \A x \in B \ {n} : t[x].used \/ t[t[x].next].used \/ t[x].next = o
    <3>1. TAKE x \in B \ {n}
    <3>2. CASE x = o
      BY <2>3, <2>4, <2>5, <2>7, <3>2
    <3>3. CASE x # o
      <4>1. t[x].next = r[x].next /\ r[x].next \in Offsets
        BY <2>6, <3>3 DEF Rams
      <4>2. QED  BY <2>5, <3>3, <4>1
    <3>4. QED  BY <3>2, <3>3
  <2>10. t[t[o].next].used
    BY <2>3, <2>4, <2>5, <2>7
  <2>11. {n} \in SUBSET (B \ {0, o})
    BY <1>1, <2>2
  <2>12. QED  BY <1>2, <2>1, <2>2, <2>4, <2>5, <2>6, <2>8, <2>9, <2>10, <2>11 DEF f
<1>3. CASE r[n].used \/ n = ram_end
  <2>1. f = [ram |-> r, lfree |-> l, gone |-> {}]
    BY <1>1, <1>3 DEF PlugForward
  <2>2. r[n].used
    BY <1>3 DEF Linked
  <2>3. B \ {} = B
    OBVIOUS
  <2>4. \A x \in B : r[x].used \/ r[r[x].next].used \/ r[x].next = o
    BY <2>2
  <2> HIDE DEF f
  <2>5. QED  BY <2>1, <2>2, <2>3, <2>4 DEF f
<1>4. QED  BY <1>2, <1>3

\* The second half: o is joined to the free struct mem below it.
LEMMA Backward ==
  ASSUME NEW r \in Rams, NEW B \in SUBSET (Offsets \ {ram_end}), Linked(r, B),
         NEW o \in B, NEW l, Lowest(r, l, B), ~r[o].used, r[r[o].next].used,
         \A x \in B : r[x].used \/ r[r[x].next].used \/ r[x].next = o
  PROVE  LET f == PlugBackward(r, l, o)
         IN  /\ f.ram \in Rams
             /\ f.gone \in SUBSET (B \cap {o}) /\ 0 \notin f.gone
             /\ Linked(f.ram, B \ f.gone)
             /\ Lowest(f.ram, f.lfree, B \ f.gone)
             /\ \A x \in Offsets : f.ram[x].used = r[x].used
             /\ \A x \in B \ f.gone : r[x].used => f.ram[x].next = r[x].next
             /\ \A x \in B \ f.gone : f.ram[x].used \/ f.ram[f.ram[x].next].used
<1> DEFINE p == r[o].prev
           f == PlugBackward(r, l, o)
<1>1. o \in Offsets \ {ram_end} /\ o \in Nat /\ p \in Offsets /\ p \in Nat
  BY DEF Rams, Offsets
<1>2. CASE p # o /\ ~r[p].used
  <2> DEFINE t == Join(r, p, o)
             k == IF l = o THEN p ELSE l
  <2>1. f.ram = t /\ f.lfree = k /\ f.gone = {o}
    BY <1>2 DEF PlugBackward
  <2>2. o # 0 /\ p \in B /\ r[p].next = o
    BY <1>1, <1>2 DEF Linked
  <2> HIDE DEF p
  <2>3. o # ram_end
    BY <1>1
  <2>4. p < o /\ r[o].next > o /\ r[o].next # p /\ Linked(t, B \ {o})
    BY <2>2, <2>3, JoinLinked
  <2>5. r[o].next \in Offsets /\ r[o].next \in Nat
    BY <1>1 DEF Rams, Offsets
  <2>6. /\ t \in Rams
        /\ t[p].next = r[o].next /\ t[p].used = r[p].used
        /\ t[r[o].next].next = r[r[o].next].next
        /\ t[r[o].next].used = r[r[o].next].used
        /\ \A x \in Offsets \ {p, r[o].next} : t[x] = r[x]
    <3> DEFINE m == r[o].next
    <3>1. p \in Offsets /\ o \in Offsets /\ m \in Offsets /\ m # p /\ m = r[o].next
      BY <1>1, <2>4, <2>5
    <3> HIDE DEF m
    <3>2. /\ Join(r, p, o) \in Rams
          /\ Join(r, p, o)[p].next = m /\ Join(r, p, o)[p].used = r[p].used
          /\ Join(r, p, o)[m].next = r[m].next /\ Join(r, p, o)[m].used = r[m].used
          /\ \A x \in Offsets \ {p, m} : Join(r, p, o)[x] = r[x]
      BY <3>1, JoinFields
    <3>3. QED  BY <3>2 DEF t, m
  <2> HIDE DEF t, f
  <2>7. \A x \in Offsets : t[x].used = r[x].used
    BY <2>5, <2>6
  <2>8. \A x \in B \ {o} : x # p => t[x].next = r[x].next
    BY <2>5, <2>6
  <2>9. \A x \in B \ {o} : r[x].used => t[x].next = r[x].next
    BY <1>2, <2>8
  <2>10. Lowest(t, k, B \ {o})
    <3>1. \A x \in B \ {o} : ~r[x].used => k <= x
      <4>1. l = o => \A x \in B : ~r[x].used => o <= x
        BY DEF Lowest
      <4>2. \A x \in B : x \in Nat
        BY DEF Offsets
      <4>3. QED  BY <1>1, <2>4, <4>1, <4>2 DEF Lowest
    <3>2. k \in (B \ {o}) \cup {ram_end}
      BY <1>1, <1>2, <2>2 DEF Lowest
    <3>3. k # ram_end => ~r[k].used
      BY <1>2 DEF Lowest
    <3>4. k \in Offsets
      BY <3>2, Widths
    <3> HIDE DEF k
    <3>5. QED  BY <2>7, <3>1, <3>2, <3>3, <3>4 DEF Lowest
  <2>11. \A x \in B \ {o} : t[x].used \/ t[t[x].next].used
    <3>1. TAKE x \in B \ {o}
    <3>2. CASE x = p
      BY <2>5, <2>6, <3>2
    <3>3. CASE x # p
      <4>1. t[x].next = r[x].next /\ r[x].next \in Offsets /\ x \in Offsets
        BY <2>8, <3>3 DEF Rams
      <4>2. r[x].next # o
        BY <1>1, <3>3, <2>2 DEF Linked, p
      <4>3. QED  BY <2>7, <4>1, <4>2
    <3>4. QED  BY <3>2, <3>3
  <2>12. {o} \in SUBSET (B \cap {o}) /\ 0 \notin {o}
    BY <2>2
  <2>13. QED  BY <2>1, <2>4, <2>6, <2>7, <2>9, <2>10, <2>11, <2>12 DEF f
<1>3. CASE p = o \/ r[p].used
  <2>1. f = [ram |-> r, lfree |-> l, gone |-> {}]
    BY <1>3 DEF PlugBackward
  <2>2. B \ {} = B
    OBVIOUS
  <2>3. \A x \in B : r[x].used \/ r[r[x].next].used
    <3>1. TAKE x \in B
    <3>2. CASE r[x].next = o
      <4>1. r[o].prev = x
        BY <1>1, <3>2 DEF Linked
      <4>2. x # o
        <5>1. x \in Nat /\ r[x].next >= x + SIZEOF_STRUCT_MEM + MIN_SIZE_ALIGNED
          BY DEF Linked, Offsets
        <5>2. QED  BY <1>1, <3>2, <5>1, Widths
      <4>3. QED  BY <1>3, <4>1, <4>2
    <3>3. CASE r[x].next # o
      BY <3>3
    <3>4. QED  BY <3>2, <3>3
  <2> HIDE DEF f
  <2>4. QED  BY <2>1, <2>2, <2>3 DEF f
<1>4. QED  BY <1>2, <1>3

-----------------------------------------------------------------------------

\* A call of mem_free, seen from outside.
LEMMA FreeKeepsCalm ==
  ASSUME Calm(ram, lfree, blocks, live), NEW c \in Contexts, NEW o \in blocks,
         mem_free(c, o)
  PROVE  Calm(ram', lfree', blocks', live')
<1> DEFINE r0 == [ram EXCEPT ![o].used = FALSE]
           l0 == Lowered(o)
           f  == PlugForward(r0, l0, o)
           g  == PlugBackward(f.ram, f.lfree, o)
           B  == blocks \ f.gone
<1>1. /\ ram \in Rams /\ blocks \in SUBSET (Offsets \ {ram_end})
      /\ Linked(ram, blocks) /\ Lowest(ram, lfree, blocks) /\ Owned(ram, blocks, live)
      /\ live \in [Offsets -> 0 .. (MemSizeT - 1)]
      /\ o \in Offsets /\ o \in Nat /\ o # ram_end /\ lfree \in Nat
      /\ \A x \in blocks : ram[x].used \/ ram[ram[x].next].used
  BY DEF Calm, Offsets
<1>2. /\ ram' = Forget(g.ram, f.gone \cup g.gone)
      /\ lfree' = g.lfree /\ blocks' = blocks \ (f.gone \cup g.gone)
      /\ live' = [live EXCEPT ![o] = 0]
      /\ live[o] # 0
  BY DEF mem_free
<1>3. /\ r0 \in Rams
      /\ r0[o].used = FALSE
      /\ \A x \in Offsets : r0[x].next = ram[x].next /\ r0[x].prev = ram[x].prev
      /\ \A x \in Offsets \ {o} : r0[x] = ram[x]
  <2>1. \A x \in Offsets \ {o} : r0[x] = ram[x]
    BY <1>1 DEF Rams
  <2>2. r0[o].used = FALSE /\ r0[o].next = ram[o].next /\ r0[o].prev = ram[o].prev
    BY <1>1 DEF Rams
  <2>3. r0 \in Rams
    BY <1>1 DEF Rams
  <2> HIDE DEF r0
  <2>4. QED  BY <2>1, <2>2, <2>3
<1>4. Lowest(r0, l0, blocks)
  <2>1. \A x \in blocks : x \in Nat /\ x \in Offsets /\ x # ram_end
    BY <1>1 DEF Offsets
  <2>2. l0 \in blocks \cup {ram_end}
    BY <1>1 DEF Lowered, Lowest
  <2>3. \A x \in blocks : ~r0[x].used => l0 <= x
    <3>1. \A x \in blocks : x # o /\ ~r0[x].used => lfree <= x
      BY <1>1, <1>3, <2>1 DEF Lowest
    <3>2. l0 <= lfree /\ l0 <= o /\ l0 \in Nat
      BY <1>1 DEF Lowered
    <3> HIDE DEF l0, r0
    <3>3. QED  BY <1>1, <2>1, <3>1, <3>2
  <2>4. l0 # ram_end => ~r0[l0].used
    <3>1. CASE l0 = o
      BY <1>3, <3>1
    <3>2. CASE l0 # o
      <4>1. l0 = lfree
        BY <3>2 DEF Lowered
      <4>2. l0 # ram_end => l0 \in Offsets \ {o}
        BY <2>1, <2>2, <3>2
      <4> HIDE DEF r0
      <4>3. QED  BY <1>1, <1>3, <4>1, <4>2 DEF Lowest
    <3>3. QED  BY <3>1, <3>2
  <2> HIDE DEF r0, l0
  <2>5. QED  BY <2>2, <2>3, <2>4 DEF Lowest
<1> HIDE DEF r0, l0
<1>5. Linked(r0, blocks)
  <2>1. r0[ram_end].used /\ r0[ram_end].next = ram_end
    BY <1>1, <1>3, Widths DEF Linked
  <2>2. \A x \in blocks : r0[x].next = ram[x].next /\ r0[x].prev = ram[x].prev
    BY <1>1, <1>3
  <2>3. QED  BY <1>1, <1>3, <2>1, <2>2, AgreeLinked
<1>6. \A x \in blocks :
        r0[x].used \/ r0[r0[x].next].used \/ x = o \/ r0[x].next = o
  <2>1. \A x \in blocks : ram[x].next \in Offsets /\ x \in Offsets
    BY <1>1 DEF Rams
  <2>2. QED  BY <1>1, <1>3, <2>1
<1>7. /\ f.ram \in Rams
      /\ f.gone \in SUBSET (blocks \ {0, o})
      /\ Linked(f.ram, B)
      /\ Lowest(f.ram, f.lfree, B)
      /\ f.ram[o].prev = r0[o].prev
      /\ f.ram[f.ram[o].next].used
      /\ \A x \in Offsets : f.ram[x].used = r0[x].used
      /\ \A x \in f.gone : ~r0[x].used
      /\ \A x \in B : x # o => f.ram[x].next = r0[x].next
      /\ \A x \in B : f.ram[x].used \/ f.ram[f.ram[x].next].used \/ f.ram[x].next = o
  <2>1. r0 \in Rams /\ blocks \in SUBSET (Offsets \ {ram_end}) /\ o \in blocks /\ ~r0[o].used
    BY <1>1, <1>3
  <2>2. LET f0 == PlugForward(r0, l0, o)
        IN  /\ f0.ram \in Rams
            /\ f0.gone \in SUBSET (blocks \ {0, o})
            /\ Linked(f0.ram, blocks \ f0.gone)
            /\ Lowest(f0.ram, f0.lfree, blocks \ f0.gone)
            /\ f0.ram[o].prev = r0[o].prev
            /\ f0.ram[f0.ram[o].next].used
            /\ \A x \in Offsets : f0.ram[x].used = r0[x].used
            /\ \A x \in f0.gone : ~r0[x].used
            /\ \A x \in blocks \ f0.gone : x # o => f0.ram[x].next = r0[x].next
            /\ \A x \in blocks \ f0.gone :
                 \/ f0.ram[x].used \/ f0.ram[f0.ram[x].next].used \/ f0.ram[x].next = o
    BY <2>1, <1>4, <1>5, <1>6, Forward
  <2>3. QED  BY <2>2
<1> HIDE DEF f
<1>8. o \in B /\ ~f.ram[o].used /\ B \in SUBSET (Offsets \ {ram_end})
  BY <1>1, <1>3, <1>7
<1> HIDE DEF B
<1>9. /\ g.ram \in Rams
      /\ g.gone \in SUBSET (B \cap {o}) /\ 0 \notin g.gone
      /\ Linked(g.ram, B \ g.gone)
      /\ Lowest(g.ram, g.lfree, B \ g.gone)
      /\ \A x \in Offsets : g.ram[x].used = f.ram[x].used
      /\ \A x \in B \ g.gone : f.ram[x].used => g.ram[x].next = f.ram[x].next
      /\ \A x \in B \ g.gone : g.ram[x].used \/ g.ram[g.ram[x].next].used
  <2> DEFINE r == f.ram
             l == f.lfree
  <2>1. /\ r \in Rams /\ Linked(r, B) /\ Lowest(r, l, B)
        /\ ~r[o].used /\ r[r[o].next].used /\ o \in B
        /\ B \in SUBSET (Offsets \ {ram_end})
        /\ \A x \in B : r[x].used \/ r[r[x].next].used \/ r[x].next = o
    BY <1>7, <1>8
  <2>2. g = PlugBackward(r, l, o)
    OBVIOUS
  <2> HIDE DEF r, l, g
  <2>3. LET h == PlugBackward(r, l, o)
        IN  /\ h.ram \in Rams
            /\ h.gone \in SUBSET (B \cap {o}) /\ 0 \notin h.gone
            /\ Linked(h.ram, B \ h.gone)
            /\ Lowest(h.ram, h.lfree, B \ h.gone)
            /\ \A x \in Offsets : h.ram[x].used = r[x].used
            /\ \A x \in B \ h.gone : r[x].used => h.ram[x].next = r[x].next
            /\ \A x \in B \ h.gone : h.ram[x].used \/ h.ram[h.ram[x].next].used
    BY <2>1, Backward
  <2>4. QED  BY <2>2, <2>3 DEF r
<1> HIDE DEF g
<1>10. blocks' = B \ g.gone
  BY <1>2 DEF B
<1>11. /\ ram' \in Rams
       /\ \A x \in blocks' \cup {ram_end} : x \in Offsets /\ ram'[x] = g.ram[x]
  <2>1. f.gone \cup g.gone \in SUBSET (Offsets \ {ram_end})
    BY <1>1, <1>7, <1>8, <1>9
  <2>2. /\ ram' \in Rams
        /\ \A x \in Offsets \ (f.gone \cup g.gone) : ram'[x] = g.ram[x]
    BY <1>2, <1>9, <2>1, ForgetFields
  <2>3. \A x \in blocks' \cup {ram_end} : x \in Offsets \ (f.gone \cup g.gone)
    BY <1>1, <1>2, <2>1, Widths
  <2>4. QED  BY <2>2, <2>3
<1>12. blocks' \in SUBSET (Offsets \ {ram_end})
  BY <1>8, <1>10
<1>13. Linked(ram', blocks')
  <2>1. g.ram[ram_end].used /\ g.ram[ram_end].next = ram_end
    BY <1>9 DEF Linked
  <2>2. ram'[ram_end].used /\ ram'[ram_end].next = ram_end
    BY <1>11, <2>1
  <2>3. \A x \in blocks' : ram'[x].next = g.ram[x].next /\ ram'[x].prev = g.ram[x].prev
    BY <1>11
  <2>4. Linked(g.ram, blocks')
    BY <1>9, <1>10
  <2>5. QED  BY <1>9, <1>11, <1>12, <2>2, <2>3, <2>4, AgreeLinked
<1>14. \A x \in blocks' : ram'[x].used \/ ram'[ram'[x].next].used
  <2>1. \A x \in blocks' : g.ram[x].next \in blocks' \cup {ram_end}
    BY <1>9, <1>10 DEF Linked
  <2>2. QED  BY <1>9, <1>10, <1>11, <2>1
<1>15. Lowest(ram', lfree', blocks')
  BY <1>2, <1>9, <1>10, <1>11 DEF Lowest
<1>16. lfree' \in Offsets
  BY <1>12, <1>15, Widths DEF Lowest
<1>17. live' \in [Offsets -> 0 .. (MemSizeT - 1)]
  BY <1>1, <1>2, MemAssumption
<1>18. Owned(ram', blocks', live')
  <2> SUFFICES ASSUME NEW x \in Offsets
               PROVE  /\ live'[x] # 0 <=> x \in blocks' /\ ram'[x].used
                      /\ live'[x] # 0 =>
                           x + SIZEOF_STRUCT_MEM + Rounded(live'[x]) <= ram'[x].next
    BY DEF Owned
  <2>1. CASE x = o
    <3>1. live'[x] = 0
      BY <1>1, <1>2, <2>1
    <3>2. x \in blocks' => ~ram'[x].used
      BY <1>8, <1>9, <1>11, <2>1
    <3>3. QED  BY <3>1, <3>2
  <2>2. CASE x # o
    <3>1. live'[x] = live[x]
      BY <1>1, <1>2, <2>2
    <3>2. live[x] # 0 <=> x \in blocks /\ ram[x].used
      BY <1>1 DEF Owned
    <3>3. x \in blocks /\ ram[x].used => x \in blocks'
      BY <1>3, <1>7, <1>9, <1>10, <2>2 DEF B
    <3>4. x \in blocks' => x \in blocks /\ ram'[x].used = ram[x].used
      <4>1. g.ram[x].used = ram[x].used
        BY <1>3, <1>7, <1>9, <2>2
      <4>2. x \in blocks' => x \in blocks
        BY <1>2
      <4>3. x \in blocks' => ram'[x] = g.ram[x]
        BY <1>11
      <4>4. QED  BY <4>1, <4>2, <4>3
    <3>5. x \in blocks' /\ ram[x].used => ram'[x].next = ram[x].next
      BY <1>3, <1>7, <1>9, <1>10, <1>11, <2>2
    <3>6. live[x] # 0 => x + SIZEOF_STRUCT_MEM + Rounded(live[x]) <= ram[x].next
      BY <1>1 DEF Owned
    <3>7. QED  BY <3>1, <3>2, <3>3, <3>4, <3>5, <3>6
  <2>3. QED  BY <2>1, <2>2
<1>19. QED
  BY <1>11, <1>12, <1>13, <1>14, <1>15, <1>16, <1>17, <1>18 DEF Calm

\* No two free ones side by side, and the used ones are the regions handed out.
Settled(r, B, lv) ==
  /\ \A x \in B : r[x].used \/ r[r[x].next].used
  /\ Owned(r, B, lv)

\* The heap after a free struct mem was put at p2, below n, in what belonged to the
\* region at o, where B is what is left of the struct mems apart from it.
LEMMA SplitKeepsOwned ==
  ASSUME NEW r \in Rams, NEW B \in SUBSET (Offsets \ {ram_end}),
         NEW lv \in [Offsets -> 0 .. (MemSizeT - 1)], NEW lv2 \in [Offsets -> 0 .. (MemSizeT - 1)],
         NEW o \in B, NEW p2 \in Offsets \ {ram_end}, NEW n \in Offsets, NEW t \in Rams,
         Linked(r, B), r[o].next = n, r[n].used, p2 \notin B, o < p2,
         Settled(r, B, lv),
         t[p2].next = n, ~t[p2].used,
         t[o].used, t[o].next = p2, n # p2,
         \A x \in Offsets \ {p2} : x \in B \cup {ram_end} => t[x].used = r[x].used,
         \A x \in B \ {o} : t[x].next = r[x].next,
         \A x \in Offsets \ {o} : lv2[x] = lv[x],
         lv2[o] # 0, o + SIZEOF_STRUCT_MEM + Rounded(lv2[o]) <= p2
  PROVE  Settled(t, B \cup {p2}, lv2)
<1> USE DEF Settled
<1>1. \A x \in B : x \in Offsets /\ x # ram_end /\ x # p2 /\ r[x].next \in B \cup {ram_end}
  BY DEF Linked
<1>2. \A x \in B \cup {p2} : t[x].used \/ t[t[x].next].used
  <2>1. TAKE x \in B \cup {p2}
  <2>2. CASE x = p2
    <3>1. n \in B \cup {ram_end}
      BY <1>1
    <3>2. t[n].used = r[n].used
      BY <3>1
    <3>3. QED  BY <2>2, <3>2
  <2>3. CASE x = o
    BY <2>3
  <2>4. CASE x \in B \ {o}
    <3>1. t[x].used = r[x].used /\ t[x].next = r[x].next
      BY <1>1, <2>4
    <3>2. r[x].next \in Offsets \ {p2} /\ r[x].next \in B \cup {ram_end}
      BY <1>1, <2>4, Widths
    <3>3. t[r[x].next].used = r[r[x].next].used
      BY <3>2
    <3>4. QED  BY <2>4, <3>1, <3>3
  <2>5. QED  BY <2>2, <2>3, <2>4
<1>3. Owned(t, B \cup {p2}, lv2)
  <2> SUFFICES ASSUME NEW x \in Offsets
               PROVE  /\ lv2[x] # 0 <=> x \in B \cup {p2} /\ t[x].used
                      /\ lv2[x] # 0 =>
                           x + SIZEOF_STRUCT_MEM + Rounded(lv2[x]) <= t[x].next
    BY DEF Owned
  <2>1. CASE x = o
    BY <2>1
  <2>2. CASE x = p2
    <3>1. lv[p2] = 0
      BY DEF Owned
    <3>2. QED  BY <1>1, <2>2, <3>1
  <2>3. CASE x \notin {o, p2}
    <3>1. lv2[x] = lv[x]
      BY <2>3
    <3>2. x \in B => t[x].used = r[x].used /\ t[x].next = r[x].next
      BY <1>1, <2>3
    <3>3. QED  BY <2>3, <3>1, <3>2 DEF Owned
  <2>4. QED  BY <2>1, <2>2, <2>3
<1>4. QED  BY <1>2, <1>3

\* A call of mem_trim, seen from outside.
LEMMA TrimKeepsCalm ==
  ASSUME Calm(ram, lfree, blocks, live), NEW c \in Contexts, NEW o \in blocks,
         NEW newsize \in Sizes, mem_trim(c, o, newsize)
  PROVE  Calm(ram', lfree', blocks', live')
<1> DEFINE s  == Rounded(newsize)
           n  == ram[o].next
           p2 == o + SIZEOF_STRUCT_MEM + s
<1>1. /\ ram \in Rams /\ blocks \in SUBSET (Offsets \ {ram_end})
      /\ Linked(ram, blocks) /\ Lowest(ram, lfree, blocks) /\ Owned(ram, blocks, live)
      /\ live \in [Offsets -> 0 .. (MemSizeT - 1)]
      /\ o \in Offsets /\ o \in Nat /\ o # ram_end /\ lfree \in Nat
      /\ n \in Offsets /\ n \in Nat
      /\ \A x \in blocks : ram[x].used \/ ram[ram[x].next].used
  BY DEF Calm, Offsets, Rams
<1>2. /\ newsize \in 0 .. (MemSizeT - 1) /\ newsize # 0
      /\ live' = [live EXCEPT ![o] = newsize]
      /\ live[o] # 0 /\ ram[o].used
      /\ s <= n - (o + SIZEOF_STRUCT_MEM)
  BY <1>1, MemAssumption DEF mem_trim, Room, Owned
<1>3. s \in Nat /\ s >= MIN_SIZE_ALIGNED
  BY <1>2, RoundedIs
<1>4. /\ live' \in [Offsets -> 0 .. (MemSizeT - 1)] /\ live'[o] = newsize
      /\ \A x \in Offsets \ {o} : live'[x] = live[x]
  BY <1>1, <1>2
<1>5. p2 \in Nat /\ p2 >= o + SIZEOF_STRUCT_MEM + MIN_SIZE_ALIGNED /\ o < p2 /\ p2 <= n
  BY <1>1, <1>2, <1>3, Widths
<1>6. n \in blocks \cup {ram_end} /\ \A x \in blocks : x <= o \/ n <= x
  BY <1>1 DEF Linked
<1>7. CASE s # Room(ram, o) /\ ~ram[n].used
  <2> DEFINE m == ram[n].next
             t == Join(ram, o, n)
             C == blocks \ {n}
             u == Insert(t, o, p2, m)
             v == Insert(ram, o, p2, m)
             k == IF lfree = n THEN p2 ELSE lfree
  <2>1. /\ ram' = Forget(v, {n})
        /\ lfree' = k /\ blocks' = C \cup {p2}
    BY <1>7 DEF mem_trim
  <2>2. n # ram_end /\ n \in blocks
    BY <1>1, <1>6, <1>7 DEF Linked
  <2>3. p2 < n
    BY <1>1, <1>2, <1>3, <1>5, <1>7, Widths DEF Room
  <2> HIDE DEF n, p2, s
  <2>4. /\ n # 0 /\ o < n /\ m > n /\ m # o /\ Linked(t, C)
    <3>1. n = ram[o].next
      BY DEF n
    <3>2. QED  BY <1>1, <2>2, <3>1, JoinLinked
  <2>5. /\ m \in Offsets /\ m \in Nat /\ m >= n + SIZEOF_STRUCT_MEM + MIN_SIZE_ALIGNED
        /\ ram[m].used /\ m \in blocks \cup {ram_end}
    BY <1>1, <1>7, <2>2 DEF Rams, Offsets, Linked
  <2> HIDE DEF m
  <2>6. m = ram[n].next
    BY DEF m
  <2>7. /\ t \in Rams /\ t[o].next = m /\ t[o].prev = ram[o].prev
        /\ t[o].used = ram[o].used
        /\ t[m].next = ram[m].next /\ t[m].prev = o /\ t[m].used = ram[m].used
        /\ \A x \in Offsets \ {o, m} : t[x] = ram[x]
    <3>1. ram \in Rams /\ o \in Offsets /\ n \in Offsets /\ m \in Offsets /\ m # o
      BY <1>1, <2>4, <2>5
    <3>2. QED  BY <3>1, <2>6, JoinFields
  <2> HIDE DEF t
  <2>8. /\ C \in SUBSET (Offsets \ {ram_end}) /\ o \in C
        /\ m >= p2 + SIZEOF_STRUCT_MEM + MIN_SIZE_ALIGNED
    BY <1>1, <1>5, <2>3, <2>4, <2>5, Widths
  <2>9. p2 \in Offsets \ {ram_end} /\ p2 \notin C /\ Linked(u, C \cup {p2})
    <3>1. m = t[o].next
      BY <2>7
    <3>2. QED  BY <1>5, <2>4, <2>7, <2>8, <3>1, InsertLinked
  <2>10. o # p2 /\ m # p2 /\ m # o /\ n # p2 /\ n # o /\ n # m
    BY <1>1, <1>5, <2>3, <2>4, <2>5
  <2>11. /\ u \in Rams /\ u[o].next = p2 /\ u[o].prev = t[o].prev /\ u[o].used = t[o].used
         /\ u[p2] = [next |-> m, prev |-> o, used |-> FALSE]
         /\ u[m].next = t[m].next /\ u[m].used = t[m].used
         /\ m # ram_end => u[m].prev = p2
         /\ \A x \in Offsets \ {o, p2, m} : u[x] = t[x]
    <3>1. t \in Rams /\ o \in Offsets /\ p2 \in Offsets /\ m \in Offsets
      BY <1>1, <2>5, <2>7, <2>9
    <3>2. QED  BY <3>1, <2>10, InsertFields
  <2>12. /\ v \in Rams /\ v[o].next = p2 /\ v[o].prev = ram[o].prev /\ v[o].used = ram[o].used
         /\ v[p2] = [next |-> m, prev |-> o, used |-> FALSE]
         /\ v[m].next = ram[m].next /\ v[m].used = ram[m].used
         /\ m # ram_end => v[m].prev = p2
         /\ \A x \in Offsets \ {o, p2, m} : v[x] = ram[x]
    <3>1. ram \in Rams /\ o \in Offsets /\ p2 \in Offsets /\ m \in Offsets
      BY <1>1, <2>5, <2>9
    <3>2. QED  BY <3>1, <2>10, InsertFields
  <2> HIDE DEF u, v
  <2>13. {n} \in SUBSET Offsets
    BY <1>1
  <2>14. /\ ram' \in Rams /\ \A x \in Offsets \ {n} : ram'[x] = v[x]
    BY <2>1, <2>12, <2>13, ForgetFields
  <2>15. \A x \in C \cup {p2} : /\ x \in Offsets \ {n}
                               /\ ram'[x].next = u[x].next /\ ram'[x].prev = u[x].prev
    <3>1. TAKE x \in C \cup {p2}
    <3>2. x \in Offsets \ {n} /\ x # ram_end
      BY <2>8, <2>9, <2>10
    <3>3. ram'[x] = v[x]
      BY <2>14, <3>2
    <3>4. v[x].next = u[x].next /\ v[x].prev = u[x].prev
      <4>1. CASE x \in {o, p2}
        BY <2>7, <2>11, <2>12, <4>1
      <4>2. CASE x = m
        BY <2>7, <2>11, <2>12, <3>2, <4>2
      <4>3. CASE x \notin {o, p2, m}
        BY <2>7, <2>11, <2>12, <3>2, <4>3
      <4>4. QED  BY <4>1, <4>2, <4>3
    <3>5. QED  BY <3>2, <3>3, <3>4
  <2>16. \A x \in Offsets \ {n, p2} : ram'[x].used = ram[x].used
    BY <2>12, <2>14
  <2>17. ram'[ram_end].used /\ ram'[ram_end].next = ram_end
    <3>1. ram_end \in Offsets \ {n, o, p2}
      BY <1>1, <2>2, <2>9, Widths
    <3>2. v[ram_end].next = ram[ram_end].next
      BY <2>12, <3>1
    <3>3. QED  BY <1>1, <2>14, <2>16, <3>1, <3>2 DEF Linked
  <2>18. Linked(ram', C \cup {p2})
    <3>1. C \cup {p2} \in SUBSET (Offsets \ {ram_end})
      BY <2>8, <2>9
    <3>2. \A x \in C \cup {p2} : ram'[x].next = u[x].next /\ ram'[x].prev = u[x].prev
      BY <2>15
    <3>3. QED  BY <2>9, <2>11, <2>14, <2>17, <3>1, <3>2, AgreeLinked
  <2>19. \A x \in C \ {o} : ram'[x].next = t[x].next
    <3>1. TAKE x \in C \ {o}
    <3>2. ram'[x].next = u[x].next /\ x \in Offsets /\ x # p2
      BY <2>9, <2>15
    <3>3. u[x].next = t[x].next
      BY <2>11, <3>2
    <3>4. QED  BY <3>2, <3>3
  <2>20. Lowest(ram', k, C \cup {p2})
    <3>1. \A x \in blocks : x \in Nat /\ x \in Offsets /\ x # ram_end
      BY <1>1 DEF Offsets
    <3>2. lfree <= n
      BY <1>7, <2>2, <1>1 DEF Lowest
    <3>3. lfree \in blocks
      BY <1>1, <1>6, <2>2, <3>1, <3>2, Widths DEF Lowest, Offsets
    <3>4. lfree # n => lfree < o
      <4>1. lfree <= o \/ n <= lfree
        BY <1>6, <3>3
      <4>2. lfree # o
        BY <1>1, <1>2, <3>1, <3>3 DEF Lowest
      <4>3. QED  BY <1>1, <3>1, <3>2, <3>3, <4>1, <4>2
    <3>5. k \in C \cup {p2} /\ k \in Nat /\ k <= p2
      BY <1>1, <1>5, <3>1, <3>3, <3>4
    <3>6. ~ram'[k].used
      <4>1. CASE lfree = n
        BY <2>10, <2>12, <2>14, <2>9, <4>1
      <4>2. CASE lfree # n
        <5>1. k = lfree /\ lfree \in Offsets \ {n, p2}
          BY <1>1, <1>5, <3>1, <3>3, <3>4, <4>2
        <5>2. ~ram[lfree].used
          BY <1>1, <3>1, <3>3 DEF Lowest
        <5>3. QED  BY <2>16, <5>1, <5>2
      <4>3. QED  BY <4>1, <4>2
    <3>7. \A x \in C \cup {p2} : ~ram'[x].used => k <= x
      <4>1. TAKE x \in C \cup {p2}
      <4>2. CASE x = p2
        BY <3>5, <4>2
      <4>3. CASE x \in C /\ x # p2
        <5>1. ram'[x].used = ram[x].used
          BY <2>16, <3>1, <4>3
        <5>2. ~ram[x].used => lfree <= x
          BY <1>1, <4>3 DEF Lowest
        <5>3. k <= lfree
          BY <1>1, <1>5, <2>3
        <5>4. x \in Nat
          BY <3>1, <4>3
        <5> HIDE DEF k
        <5>5. QED  BY <1>1, <3>5, <5>1, <5>2, <5>3, <5>4
      <4>4. QED  BY <4>2, <4>3
    <3> HIDE DEF k
    <3>8. QED  BY <3>5, <3>6, <3>7 DEF Lowest
  <2> HIDE DEF k
  <2>21. \A x \in C : t[x].used \/ t[t[x].next].used
    <3>1. TAKE x \in C
    <3>2. x \in Offsets /\ ram[x].next \in Offsets
      BY <1>1, <2>8 DEF Rams
    <3>3. CASE x = o
      BY <1>2, <2>7, <3>3
    <3>4. CASE x # o
      <4>1. t[x].next = ram[x].next /\ t[x].used = ram[x].used
        BY <2>7, <3>2, <3>4
      <4>2. t[ram[x].next].used = ram[ram[x].next].used
        BY <2>7, <3>2
      <4>3. QED  BY <1>1, <4>1, <4>2
    <3>5. QED  BY <3>3, <3>4
  <2>22. Owned(t, C, live)
    <3> SUFFICES ASSUME NEW x \in Offsets
                 PROVE  /\ live[x] # 0 <=> x \in C /\ t[x].used
                        /\ live[x] # 0 =>
                             x + SIZEOF_STRUCT_MEM + Rounded(live[x]) <= t[x].next
      BY DEF Owned
    <3>1. /\ live[x] # 0 <=> x \in blocks /\ ram[x].used
          /\ live[x] # 0 => x + SIZEOF_STRUCT_MEM + Rounded(live[x]) <= ram[x].next
      BY <1>1 DEF Owned
    <3>2. t[x].used = ram[x].used
      BY <2>7
    <3>3. live[x] # 0 => x # n
      BY <1>7, <3>1
    <3>4. x # o => t[x].next = ram[x].next
      BY <2>7
    <3>5. ASSUME x = o
          PROVE  x + SIZEOF_STRUCT_MEM + Rounded(live[x]) <= t[x].next
      <4>1. o + SIZEOF_STRUCT_MEM + Rounded(live[o]) <= n
        BY <1>2, <3>1, <3>5 DEF n
      <4>2. Rounded(live[o]) \in Nat
        BY <1>1, RoundedIs
      <4>3. QED  BY <1>1, <2>4, <2>5, <2>7, <3>5, <4>1, <4>2, Widths
    <3>6. QED  BY <3>1, <3>2, <3>3, <3>4, <3>5
  <2>23. o + SIZEOF_STRUCT_MEM + Rounded(live'[o]) <= p2
    <3>1. Rounded(live'[o]) = s
      BY <1>4 DEF s
    <3>2. QED  BY <1>1, <1>3, <3>1, Widths DEF p2
  <2>24. /\ ram'[p2].next = m /\ ~ram'[p2].used /\ ram'[o].used /\ ram'[o].next = p2
    <3>1. ram'[p2] = v[p2] /\ ram'[o] = v[o]
      BY <1>1, <2>9, <2>10, <2>14
    <3>2. v[p2].next = m /\ v[p2].used = FALSE
      BY <2>12
    <3>3. v[o].used /\ v[o].next = p2
      BY <1>2, <2>12
    <3> HIDE DEF C, k
    <3>4. QED  BY <3>1, <3>2, <3>3
  <2>25. \A x \in Offsets \ {p2} : x \in C \cup {ram_end} => ram'[x].used = t[x].used
    BY <2>2, <2>7, <2>16
  <2>26. t[o].used /\ t[m].used /\ live'[o] # 0 /\ \A x \in Offsets \ {o} : live'[x] = live[x]
    BY <1>2, <1>4, <2>5, <2>7
  <2> HIDE DEF C
  <2>27. Calm(ram', k, C \cup {p2}, live')
    <3>1. Settled(t, C, live)
      BY <2>21, <2>22 DEF Settled
    <3>2. Settled(ram', C \cup {p2}, live')
      BY <1>1, <1>4, <1>5, <2>4, <2>5, <2>7, <2>8, <2>9, <2>10, <2>14, <2>19,
         <2>23, <2>24, <2>25, <2>26, <3>1, SplitKeepsOwned
    <3>3. C \cup {p2} \in SUBSET (Offsets \ {ram_end}) /\ k \in Offsets
      BY <2>8, <2>9, <2>20, Widths DEF Lowest
    <3>4. QED  BY <1>4, <2>14, <2>18, <2>20, <3>2, <3>3 DEF Calm, Settled
  <2>28. QED  BY <2>1, <2>27
<1>8. CASE s # Room(ram, o) /\ ram[n].used
           /\ s + SIZEOF_STRUCT_MEM + MIN_SIZE_ALIGNED <= Room(ram, o)
  <2> DEFINE u == Insert(ram, o, p2, n)
  <2>1. ram' = u /\ lfree' = Lowered(p2) /\ blocks' = blocks \cup {p2}
    BY <1>8 DEF mem_trim
  <2>2. n >= p2 + SIZEOF_STRUCT_MEM + MIN_SIZE_ALIGNED
    BY <1>1, <1>3, <1>8, Widths DEF Room
  <2> HIDE DEF p2, s
  <2>3. n = ram[o].next
    OBVIOUS
  <2> HIDE DEF n
  <2>4. /\ p2 \in Offsets \ {ram_end} /\ p2 \notin blocks
        /\ Linked(u, blocks \cup {p2})
    BY <1>1, <1>5, <2>2, <2>3, InsertLinked
  <2>5. o # p2 /\ n # p2 /\ n # o
    BY <1>1, <1>5, <2>2, Widths
  <2>6. /\ u \in Rams /\ u[o].next = p2 /\ u[o].used = ram[o].used
        /\ u[p2] = [next |-> n, prev |-> o, used |-> FALSE]
        /\ u[n].next = ram[n].next /\ u[n].used = ram[n].used
        /\ \A x \in Offsets \ {o, p2, n} : u[x] = ram[x]
    <3>1. ram \in Rams /\ o \in Offsets /\ p2 \in Offsets /\ n \in Offsets
      BY <1>1, <2>4
    <3>2. QED  BY <3>1, <2>5, InsertFields
  <2> HIDE DEF u
  <2>7. \A x \in Offsets \ {p2} : u[x].used = ram[x].used
    BY <2>6
  <2>8. \A x \in blocks \ {o} : u[x].next = ram[x].next
    BY <1>1, <2>4, <2>6
  <2>9. Lowest(u, Lowered(p2), blocks \cup {p2})
    <3> DEFINE k == Lowered(p2)
    <3>1. \A x \in blocks : x \in Nat /\ x \in Offsets /\ x # p2
      BY <1>1, <2>4 DEF Offsets
    <3>2. /\ k \in blocks \cup {p2, ram_end} /\ k \in Nat /\ k <= p2 /\ k <= lfree
          /\ k \in {lfree, p2}
      BY <1>1, <1>5 DEF Lowered, Lowest
    <3> HIDE DEF k
    <3>3. k # ram_end => ~u[k].used
      <4>1. CASE k = p2
        BY <2>6, <4>1
      <4>2. CASE k = lfree /\ k # p2
        <5>1. k # ram_end => ~ram[k].used /\ k \in Offsets
          BY <1>1, <3>1, <4>2 DEF Lowest
        <5>2. QED  BY <2>7, <4>2, <5>1
      <4>3. QED  BY <3>2, <4>1, <4>2
    <3>4. \A x \in blocks \cup {p2} : ~u[x].used => k <= x
      <4>1. TAKE x \in blocks \cup {p2}
      <4>2. CASE x = p2
        BY <3>2, <4>2
      <4>3. CASE x \in blocks
        <5>1. ~u[x].used => lfree <= x
          BY <1>1, <2>7, <3>1, <4>3 DEF Lowest
        <5>2. QED  BY <1>1, <3>1, <3>2, <4>3, <5>1
      <4>4. QED  BY <4>2, <4>3
    <3>5. QED  BY <3>2, <3>3, <3>4 DEF Lowest, k
  <2>10. o + SIZEOF_STRUCT_MEM + Rounded(live'[o]) <= p2
    <3>1. Rounded(live'[o]) = s
      BY <1>4 DEF s
    <3>2. QED  BY <1>1, <1>3, <3>1, Widths DEF p2
  <2>11. /\ u[p2].next = n /\ ~u[p2].used /\ u[o].used
         /\ live'[o] # 0
         /\ \A x \in Offsets \ {p2} : x \in blocks \cup {ram_end} => u[x].used = ram[x].used
    BY <1>2, <1>4, <2>6, <2>7
  <2>12. Calm(u, Lowered(p2), blocks \cup {p2}, live')
    <3>1. Settled(ram, blocks, live)
      BY <1>1 DEF Settled
    <3>2. Settled(u, blocks \cup {p2}, live')
      BY <1>1, <1>2, <1>4, <1>5, <1>8, <2>3, <2>4, <2>5, <2>6, <2>8, <2>10, <2>11,
         <3>1, SplitKeepsOwned
    <3>3. blocks \cup {p2} \in SUBSET (Offsets \ {ram_end}) /\ Lowered(p2) \in Offsets
      BY <1>1, <2>4, <2>9, Widths DEF Lowest
    <3>4. QED  BY <1>4, <2>4, <2>6, <2>9, <3>2, <3>3 DEF Calm, Settled
  <2>13. QED  BY <2>1, <2>12
<1>9. CASE \/ s = Room(ram, o)
           \/ ram[n].used /\ ~(s + SIZEOF_STRUCT_MEM + MIN_SIZE_ALIGNED <= Room(ram, o))
  <2>1. UNCHANGED <<ram, lfree, blocks>>
    BY <1>9 DEF mem_trim
  <2>2. Owned(ram, blocks, live')
    <3> SUFFICES ASSUME NEW x \in Offsets
                 PROVE  /\ live'[x] # 0 <=> x \in blocks /\ ram[x].used
                        /\ live'[x] # 0 =>
                             x + SIZEOF_STRUCT_MEM + Rounded(live'[x]) <= ram[x].next
      BY DEF Owned
    <3>1. CASE x = o
      BY <1>1, <1>2, <1>3, <1>4, <3>1, Widths
    <3>2. CASE x # o
      BY <1>1, <1>4, <3>2 DEF Owned
    <3>3. QED  BY <3>1, <3>2
  <2>3. QED  BY <1>1, <1>4, <2>1, <2>2 DEF Calm
<1>10. QED
  BY <1>7, <1>8, <1>9

-----------------------------------------------------------------------------

\* The locals of mem_malloc.
LocalsOK ==
  /\ pc \in [Contexts -> {"idle", "scan", "take", "adjust"}]
  /\ arg \in [Contexts -> 0 .. (MemSizeT - 1)]
  /\ size \in [Contexts -> 0 .. MEM_SIZE_ALIGNED]
  /\ ptr \in [Contexts -> Offsets] /\ cur \in [Contexts -> Offsets]

LEMMA InvParts ==
  ASSUME MemInv
  PROVE  /\ ram \in Rams /\ lfree \in Offsets /\ lfree \in Nat
         /\ blocks \in SUBSET (Offsets \ {ram_end})
         /\ live \in [Offsets -> 0 .. (MemSizeT - 1)]
         /\ LocalsOK
         /\ Linked(ram, blocks)
         /\ Owned(ram, blocks, live)
         /\ \A x \in blocks : ram[x].used \/ ram[ram[x].next].used
         /\ (\A c \in Contexts : pc[c] # "adjust") =>
              Lowest(ram, lfree, blocks) /\ Calm(ram, lfree, blocks, live)
<1>1. /\ ram \in Rams /\ lfree \in Offsets /\ lfree \in Nat
      /\ blocks \in SUBSET (Offsets \ {ram_end})
      /\ live \in [Offsets -> 0 .. (MemSizeT - 1)]
  BY DEF MemInv, TypeOK, Rams, Offsets
<1>2. LocalsOK
  BY DEF MemInv, TypeOK, LocalsOK
<1>3. \A x \in Offsets : x \in Nat /\ ram[x].next \in Nat
  BY <1>1 DEF Rams, Offsets
<1>4. Linked(ram, blocks)
  <2>1. \A x \in blocks : ram[x].next >= x + SIZEOF_STRUCT_MEM + MIN_SIZE_ALIGNED
    BY <1>1, <1>3, Widths DEF MemInv, ListIsLinked, Room
  <2>2. QED  BY <2>1 DEF MemInv, ListIsLinked, Linked
<1>5. Owned(ram, blocks, live)
  <2>1. \A x \in Offsets : Rounded(live[x]) \in Nat
    BY <1>1, RoundedIs
  <2>2. QED  BY <1>3, <2>1, Widths DEF MemInv, UsedIsLive, Owned, Room
<1>6. \A x \in blocks : ram[x].used \/ ram[ram[x].next].used
  BY DEF MemInv, NoHoles
<1>7. ASSUME \A c \in Contexts : pc[c] # "adjust"
      PROVE  Lowest(ram, lfree, blocks)
  BY <1>7 DEF MemInv, LowestFree, Lowest
<1>8. QED  BY <1>1, <1>2, <1>4, <1>5, <1>6, <1>7 DEF Calm

LEMMA InvFromParts ==
  ASSUME ram' \in Rams, lfree' \in Offsets,
         blocks' \in SUBSET (Offsets \ {ram_end}),
         live' \in [Offsets -> 0 .. (MemSizeT - 1)],
         LocalsOK', Linked(ram', blocks'), Owned(ram', blocks', live'),
         \A x \in blocks' : ram'[x].used \/ ram'[ram'[x].next].used,
         LowestFree', ScanIsSound'
  PROVE  MemInv'
<1>1. TypeOK'
  BY DEF TypeOK, LocalsOK, Rams
<1>2. \A x \in Offsets : x \in Nat /\ ram'[x].next \in Nat
  BY DEF Rams, Offsets
<1>3. ListIsLinked'
  <2>1. \A x \in blocks' : Room(ram, x)' >= MIN_SIZE_ALIGNED
    BY <1>2, Widths DEF Linked, Room
  <2>2. QED  BY <2>1 DEF Linked, ListIsLinked
<1>4. UsedIsLive'
  <2>1. \A x \in Offsets : Rounded(live'[x]) \in Nat
    BY RoundedIs
  <2>2. QED  BY <1>2, <2>1, Widths DEF UsedIsLive, Owned, Room
<1>5. NoHoles'
  BY DEF NoHoles
<1>6. QED  BY <1>1, <1>3, <1>4, <1>5 DEF MemInv

\* A step that leaves nobody in mem_malloc's second loop.
LEMMA InvFromCalm ==
  ASSUME Calm(ram', lfree', blocks', live'), LocalsOK', ScanIsSound',
         \A c \in Contexts : pc'[c] # "adjust"
  PROVE  MemInv'
<1>1. LowestFree'
  BY DEF Calm, Lowest, LowestFree
<1>2. QED  BY <1>1, InvFromParts DEF Calm

LEMMA InitInv ==
  ASSUME Init
  PROVE  MemInv
<1>1. 0 \in Offsets /\ ram_end \in Offsets /\ ram_end # 0 /\ ram_end \in Nat
  BY Widths
<1>2. /\ ram \in [Offsets -> [next : Offsets, prev : Offsets, used : BOOLEAN]]
      /\ ram[0] = [next |-> ram_end, prev |-> 0, used |-> FALSE]
      /\ ram[ram_end] = [next |-> ram_end, prev |-> ram_end, used |-> TRUE]
  BY <1>1 DEF Init, Data
<1>3. TypeOK
  BY <1>1, <1>2, Widths DEF Init, TypeOK
<1>4. ListIsLinked
  BY <1>1, <1>2, Widths DEF Init, ListIsLinked, Room
<1>5. NoHoles
  BY <1>2 DEF Init, NoHoles
<1>6. UsedIsLive
  BY <1>2 DEF Init, UsedIsLive
<1>7. LowestFree
  BY <1>1, <1>2 DEF Init, LowestFree
<1>8. ScanIsSound
  BY DEF Init, ScanIsSound
<1>9. QED  BY <1>3, <1>4, <1>5, <1>6, <1>7, <1>8 DEF MemInv

LEMMA CallMallocInv ==
  ASSUME MemInv, OneCaller, NEW c \in Contexts, NEW s \in Sizes, CallMalloc(c, s)
  PROVE  MemInv'
<1>1. \A d \in Contexts : d = c
  BY DEF OneCaller
<1>2. pc[c] = "idle" /\ LocalsOK
  BY InvParts DEF CallMalloc, At
<1>3. Calm(ram', lfree', blocks', live')
  BY <1>1, <1>2, InvParts DEF CallMalloc, heap
<1>4. s \in 0 .. (MemSizeT - 1)
  BY MemAssumption
<1>5. CASE UNCHANGED locals
  <2>1. LocalsOK' /\ pc' = pc
    BY <1>2, <1>5 DEF locals, LocalsOK
  <2>2. \A d \in Contexts : pc'[d] = "idle"
    BY <1>1, <1>2, <2>1
  <2>3. QED  BY <1>3, <2>1, <2>2, InvFromCalm DEF ScanIsSound
<1>6. CASE /\ s # 0 /\ Rounded(s) <= MEM_SIZE_ALIGNED
           /\ pc' = [pc EXCEPT ![c] = "scan"]
           /\ arg' = [arg EXCEPT ![c] = s]
           /\ size' = [size EXCEPT ![c] = Rounded(s)]
           /\ ptr' = [ptr EXCEPT ![c] = lfree]
           /\ UNCHANGED cur
  <2>1. Rounded(s) \in 0 .. MEM_SIZE_ALIGNED /\ lfree \in Offsets
    BY <1>4, <1>6, RoundedIs, InvParts, Widths
  <2>2. LocalsOK'
    BY <1>2, <1>4, <1>6, <2>1 DEF LocalsOK
  <2>3. pc'[c] = "scan" /\ arg'[c] = s /\ size'[c] = Rounded(s) /\ ptr'[c] = lfree
    BY <1>2, <1>6 DEF LocalsOK
  <2>4. ScanIsSound'
    <3>1. lfree' = lfree /\ Lowest(ram', lfree, blocks')
      BY <1>3 DEF Calm, CallMalloc, heap
    <3>2. \A o \in blocks' : o \in Nat /\ (o < lfree => ram'[o].used)
      <4>1. \A o \in blocks' : o \in Nat
        BY <1>3 DEF Calm, Offsets
      <4>2. lfree \in Nat
        BY InvParts
      <4>3. QED  BY <3>1, <4>1, <4>2 DEF Lowest
    <3>3. \A o \in blocks' : o < ptr'[c] => ~Fits(ram', o, size'[c])
      BY <2>3, <3>2 DEF Fits
    <3>4. QED  BY <1>1, <1>6, <2>3, <3>1, <3>3 DEF ScanIsSound, Lowest
  <2>5. QED  BY <1>1, <1>3, <2>2, <2>3, <2>4, InvFromCalm
<1>7. QED  BY <1>5, <1>6 DEF CallMalloc

LEMMA ScanInv ==
  ASSUME MemInv, OneCaller, NEW c \in Contexts, Scan(c)
  PROVE  MemInv'
<1>1. \A d \in Contexts : d = c
  BY DEF OneCaller
<1>2. pc[c] = "scan" /\ LocalsOK /\ UNCHANGED <<ram, lfree, live, blocks, arg, size, cur>>
  BY InvParts DEF Scan, At, heap
<1>3. Calm(ram', lfree', blocks', live')
  BY <1>1, <1>2, InvParts
<1>4. /\ ptr[c] \in blocks \cup {ram_end} /\ ptr[c] \in Nat
      /\ size[c] = Rounded(arg[c]) /\ arg[c] # 0 /\ size[c] \in Nat
      /\ \A o \in blocks : o < ptr[c] => ~Fits(ram, o, size[c])
  BY <1>2 DEF MemInv, ScanIsSound, LocalsOK, Offsets
<1>5. ptr[c] # ram_end /\ ptr[c] \in blocks
  BY <1>4, Widths DEF Scan
<1>6. CASE Fits(ram, ptr[c], size[c])
  <2>1. pc' = [pc EXCEPT ![c] = "take"] /\ ptr' = ptr
    BY <1>6 DEF Scan
  <2>2. LocalsOK' /\ pc'[c] = "take"
    BY <1>2, <2>1 DEF LocalsOK
  <2>3. ScanIsSound'
    BY <1>1, <1>2, <1>4, <1>5, <1>6, <2>1, <2>2 DEF ScanIsSound
  <2>4. QED  BY <1>1, <1>3, <2>2, <2>3, InvFromCalm
<1>7. CASE ~Fits(ram, ptr[c], size[c])
  <2> DEFINE n == ram[ptr[c]].next
  <2>1. ptr' = [ptr EXCEPT ![c] = n] /\ pc' = pc
    BY <1>7 DEF Scan
  <2>2. n \in blocks \cup {ram_end} /\ n \in Offsets /\ \A b \in blocks : b <= ptr[c] \/ n <= b
    BY <1>5, InvParts DEF Linked, Rams
  <2> HIDE DEF n
  <2>3. LocalsOK' /\ ptr'[c] = n
    BY <1>2, <2>1, <2>2 DEF LocalsOK
  <2>4. \A o \in blocks : o < n => ~Fits(ram, o, size[c])
    <3>1. TAKE o \in blocks
    <3>2. o \in Nat /\ n \in Nat
      BY <2>2, InvParts DEF Offsets
    <3>3. o < n => o = ptr[c] \/ o < ptr[c]
      BY <1>4, <2>2, <3>2
    <3>4. QED  BY <1>4, <1>7, <3>3
  <2>5. ScanIsSound'
    BY <1>1, <1>2, <1>4, <2>1, <2>2, <2>3, <2>4 DEF ScanIsSound
  <2>6. QED  BY <1>1, <1>2, <1>3, <2>1, <2>3, <2>5, InvFromCalm
<1>8. QED  BY <1>6, <1>7

\* mem_malloc returns from the scan, or from its second loop.
LEMMA ReturnedLocals ==
  ASSUME LocalsOK, OneCaller, NEW c \in Contexts, Return(c)
  PROVE  LocalsOK' /\ ScanIsSound' /\ \A d \in Contexts : pc'[d] = "idle"
<1>1. \A d \in Contexts : d = c
  BY DEF OneCaller
<1>2. 0 \in 0 .. (MemSizeT - 1) /\ 0 \in 0 .. MEM_SIZE_ALIGNED /\ 0 \in Offsets
  BY Widths DEF ram_end
<1>3. LocalsOK'
  BY <1>2 DEF Return, LocalsOK
<1>4. \A d \in Contexts : pc'[d] = "idle"
  BY <1>1 DEF Return, LocalsOK
<1>5. QED  BY <1>3, <1>4 DEF ScanIsSound

LEMMA NoRoomInv ==
  ASSUME MemInv, OneCaller, NEW c \in Contexts, NoRoom(c)
  PROVE  MemInv'
<1>1. \A d \in Contexts : d = c
  BY DEF OneCaller
<1>2. pc[c] = "scan" /\ Return(c) /\ UNCHANGED <<ram, lfree, live, blocks>>
  BY DEF NoRoom, At, heap
<1>3. Calm(ram', lfree', blocks', live')
  BY <1>1, <1>2, InvParts
<1>4. LocalsOK' /\ ScanIsSound' /\ \A d \in Contexts : pc'[d] = "idle"
  BY <1>2, InvParts, ReturnedLocals
<1>5. QED  BY <1>3, <1>4, InvFromCalm

LEMMA AdjustInv ==
  ASSUME MemInv, OneCaller, NEW c \in Contexts, Adjust(c)
  PROVE  MemInv'
<1> DEFINE n == ram[cur[c]].next
<1>1. \A d \in Contexts : d = c
  BY DEF OneCaller
<1>2. /\ pc[c] = "adjust" /\ LocalsOK /\ UNCHANGED <<ram, lfree, live, blocks, pc, arg, size, ptr>>
      /\ cur' = [cur EXCEPT ![c] = n] /\ ram[cur[c]].used /\ cur[c] # ram_end
  BY InvParts DEF Adjust, At, heap
<1>3. /\ cur[c] \in blocks /\ cur[c] \in Nat
      /\ \A o \in blocks : ~ram[o].used => cur[c] <= o
  BY <1>2 DEF MemInv, LowestFree, LocalsOK, Offsets
<1>4. n \in blocks \cup {ram_end} /\ n \in Offsets /\ \A b \in blocks : b <= cur[c] \/ n <= b
  BY <1>3, InvParts DEF Linked, Rams
<1> HIDE DEF n
<1>5. LocalsOK' /\ cur'[c] = n
  BY <1>2, <1>4 DEF LocalsOK
<1>6. \A o \in blocks : ~ram[o].used => n <= o
  <2>1. TAKE o \in blocks
  <2>2. o \in Nat
    BY InvParts DEF Offsets
  <2>3. ~ram[o].used => cur[c] <= o /\ o # cur[c]
    BY <1>2, <1>3
  <2>4. QED  BY <1>3, <1>4, <2>2, <2>3
<1>7. LowestFree'
  BY <1>1, <1>2, <1>4, <1>5, <1>6 DEF MemInv, LowestFree
<1>8. ScanIsSound'
  BY <1>1, <1>2 DEF ScanIsSound
<1>9. QED  BY <1>2, <1>5, <1>7, <1>8, InvParts, InvFromParts

LEMMA AdjustedInv ==
  ASSUME MemInv, OneCaller, NEW c \in Contexts, Adjusted(c)
  PROVE  MemInv'
<1>1. /\ pc[c] = "adjust" /\ LocalsOK /\ UNCHANGED <<ram, live, blocks>>
      /\ lfree' = cur[c] /\ Return(c) /\ (~ram[cur[c]].used \/ cur[c] = ram_end)
  BY InvParts DEF Adjusted, At
<1>2. /\ cur[c] \in blocks \cup {ram_end} /\ cur[c] \in Offsets
      /\ \A o \in blocks : ~ram[o].used => cur[c] <= o
  BY <1>1 DEF MemInv, LowestFree, LocalsOK
<1>3. LocalsOK' /\ ScanIsSound' /\ \A d \in Contexts : pc'[d] = "idle"
  BY <1>1, ReturnedLocals
<1>4. LowestFree'
  BY <1>1, <1>2, <1>3 DEF LowestFree
<1>5. QED  BY <1>1, <1>2, <1>3, <1>4, InvParts, InvFromParts

\* What taking the struct mem does to the heap, whether it is split or not.
LEMMA TakenHeap ==
  ASSUME MemInv, OneCaller, NEW c \in Contexts, Take(c)
  PROVE  /\ ptr[c] \in blocks /\ ~ram[ptr[c]].used
         /\ ram' \in Rams
         /\ blocks' \in SUBSET (Offsets \ {ram_end}) /\ blocks \subseteq blocks'
         /\ live' \in [Offsets -> 0 .. (MemSizeT - 1)]
         /\ Linked(ram', blocks') /\ Owned(ram', blocks', live')
         /\ \A x \in blocks' : ram'[x].used \/ ram'[ram'[x].next].used
         /\ \A x \in blocks' \ blocks : x > ptr[c]
         /\ \A x \in blocks \ {ptr[c]} : ram'[x].used = ram[x].used
         /\ ram'[ptr[c]].used
<1> DEFINE m  == ptr[c]
           n  == ram[m].next
           z  == size[c]
           p2 == m + SIZEOF_STRUCT_MEM + z
           split == Room(ram, m) >= z + SIZEOF_STRUCT_MEM + MIN_SIZE_ALIGNED
           r  == [ram EXCEPT ![m].used = TRUE]
<1>1. \A d \in Contexts : d = c
  BY DEF OneCaller
<1>2. /\ ram \in Rams /\ blocks \in SUBSET (Offsets \ {ram_end})
      /\ Linked(ram, blocks) /\ Owned(ram, blocks, live)
      /\ live \in [Offsets -> 0 .. (MemSizeT - 1)]
      /\ \A x \in blocks : ram[x].used \/ ram[ram[x].next].used
      /\ LocalsOK
  BY InvParts
<1>3. pc[c] = "take" /\ live' = [live EXCEPT ![m] = arg[c]]
  BY DEF Take, At
<1>4. /\ m \in blocks /\ m \in Nat /\ m \in Offsets /\ m # ram_end /\ ~ram[m].used
      /\ Room(ram, m) >= z
      /\ z = Rounded(arg[c]) /\ arg[c] # 0 /\ arg[c] \in 0 .. (MemSizeT - 1)
      /\ z \in Nat
  <2>1. m \in Offsets /\ m \in Nat /\ z \in Nat /\ arg[c] \in 0 .. (MemSizeT - 1)
    BY <1>2 DEF LocalsOK, Offsets
  <2>2. m \in blocks \cup {ram_end} /\ m # ram_end /\ Fits(ram, m, z)
        /\ z = Rounded(arg[c]) /\ arg[c] # 0
    BY <1>3 DEF MemInv, ScanIsSound
  <2>3. QED  BY <2>1, <2>2 DEF Fits
<1>5. /\ n \in Offsets /\ n \in Nat /\ n \in blocks \cup {ram_end}
      /\ n >= m + SIZEOF_STRUCT_MEM + z /\ z >= MIN_SIZE_ALIGNED /\ n > m
  <2>1. n \in Offsets /\ n \in Nat /\ n \in blocks \cup {ram_end}
    BY <1>2, <1>4 DEF Rams, Linked, Offsets
  <2>2. z >= MIN_SIZE_ALIGNED
    BY <1>4, RoundedIs
  <2>3. QED  BY <1>4, <2>1, <2>2, Widths DEF Room
<1>6. /\ live' \in [Offsets -> 0 .. (MemSizeT - 1)] /\ live'[m] = arg[c]
      /\ \A x \in Offsets \ {m} : live'[x] = live[x]
  BY <1>2, <1>3, <1>4
<1>7. /\ r \in Rams /\ r[m].used /\ r[m].next = n /\ r[m].prev = ram[m].prev
      /\ \A x \in Offsets \ {m} : r[x] = ram[x]
  <2>1. r \in Rams
    BY <1>2 DEF Rams
  <2>2. r[m].used /\ r[m].next = n /\ r[m].prev = ram[m].prev
    BY <1>2, <1>4 DEF Rams
  <2>3. \A x \in Offsets \ {m} : r[x] = ram[x]
    BY <1>2 DEF Rams
  <2> HIDE DEF r
  <2>4. QED  BY <2>1, <2>2, <2>3
<1> HIDE DEF r
<1>8. Linked(r, blocks)
  <2>1. r[ram_end].used /\ r[ram_end].next = ram_end
    BY <1>2, <1>4, <1>7, Widths DEF Linked
  <2>2. \A x \in blocks : r[x].next = ram[x].next /\ r[x].prev = ram[x].prev
    BY <1>2, <1>7
  <2>3. QED  BY <1>2, <1>7, <2>1, <2>2, AgreeLinked
<1>9. \A x \in blocks : r[x].used \/ r[r[x].next].used
  <2>1. \A x \in blocks : x \in Offsets /\ ram[x].next \in Offsets
    BY <1>2 DEF Rams
  <2>2. QED  BY <1>2, <1>7, <2>1
<1>10. Owned(r, blocks, live')
  <2> SUFFICES ASSUME NEW x \in Offsets
               PROVE  /\ live'[x] # 0 <=> x \in blocks /\ r[x].used
                      /\ live'[x] # 0 =>
                           x + SIZEOF_STRUCT_MEM + Rounded(live'[x]) <= r[x].next
    BY DEF Owned
  <2>1. CASE x = m
    <3>1. Rounded(live'[m]) = z
      BY <1>4, <1>6
    <3>2. QED  BY <1>4, <1>5, <1>6, <1>7, <2>1, <3>1
  <2>2. CASE x # m
    BY <1>2, <1>6, <1>7, <2>2 DEF Owned
  <2>3. QED  BY <2>1, <2>2
<1>11. CASE ~split
  <2>1. ram' = r /\ blocks' = blocks
    BY <1>11 DEF Take, r
  <2>2. \A x \in blocks \ {m} : r[x].used = ram[x].used
    BY <1>2, <1>7
  <2>3. QED  BY <1>2, <1>4, <1>6, <1>7, <1>8, <1>9, <1>10, <2>1, <2>2
<1>12. CASE split
  <2> DEFINE u == Insert(ram, m, p2, n)
  <2>1. ram' = [u EXCEPT ![m].used = TRUE] /\ blocks' = blocks \cup {p2}
    BY <1>12 DEF Take
  <2>2. /\ p2 \in Nat /\ p2 >= m + SIZEOF_STRUCT_MEM + MIN_SIZE_ALIGNED
        /\ n >= p2 + SIZEOF_STRUCT_MEM + MIN_SIZE_ALIGNED
        /\ m < p2 /\ p2 < n
    BY <1>4, <1>5, <1>12, Widths DEF Room
  <2>3. m + SIZEOF_STRUCT_MEM + Rounded(live'[m]) <= p2
    <3>1. Rounded(live'[m]) = z
      BY <1>4, <1>6
    <3>2. QED  BY <1>4, <2>2, <3>1, Widths
  <2>4. n = ram[m].next
    OBVIOUS
  <2> HIDE DEF n, p2, m, z
  <2>5. p2 \in Offsets \ {ram_end} /\ p2 \notin blocks /\ Linked(u, blocks \cup {p2})
    BY <1>2, <1>4, <2>2, <2>4, InsertLinked
  <2>6. m # p2 /\ n # p2 /\ n # m
    BY <1>4, <1>5, <2>2
  <2>7. /\ u \in Rams /\ u[m].next = p2 /\ u[m].prev = ram[m].prev
        /\ u[p2] = [next |-> n, prev |-> m, used |-> FALSE]
        /\ u[n].next = ram[n].next /\ u[n].used = ram[n].used
        /\ \A x \in Offsets \ {m, p2, n} : u[x] = ram[x]
    <3>1. ram \in Rams /\ m \in Offsets /\ p2 \in Offsets /\ n \in Offsets
      BY <1>2, <1>4, <1>5, <2>5
    <3>2. QED  BY <3>1, <2>6, InsertFields
  <2> HIDE DEF u
  <2>8. /\ ram' \in Rams
        /\ ram'[m].used /\ ram'[m].next = p2 /\ ram'[m].prev = u[m].prev
        /\ \A x \in Offsets \ {m} : ram'[x] = u[x]
    <3>1. ram' \in Rams
      BY <2>1, <2>7 DEF Rams
    <3>2. ram'[m].used /\ ram'[m].next = p2 /\ ram'[m].prev = u[m].prev
      BY <1>4, <2>1, <2>7 DEF Rams
    <3>3. \A x \in Offsets \ {m} : ram'[x] = u[x]
      BY <2>1, <2>7 DEF Rams
    <3>4. QED  BY <3>1, <3>2, <3>3
  <2>9. blocks \cup {p2} \in SUBSET (Offsets \ {ram_end})
    BY <1>2, <2>5
  <2>10. Linked(ram', blocks \cup {p2})
    <3>1. ram'[ram_end].used /\ ram'[ram_end].next = ram_end
      BY <1>4, <2>5, <2>8, Widths DEF Linked
    <3>2. \A x \in blocks \cup {p2} : ram'[x].next = u[x].next /\ ram'[x].prev = u[x].prev
      BY <2>7, <2>8, <2>9
    <3>3. QED  BY <2>5, <2>7, <2>8, <2>9, <3>1, <3>2, AgreeLinked
  <2>11. \A x \in Offsets \ {m, p2} : ram'[x].used = ram[x].used /\ ram'[x].next = ram[x].next
    BY <2>7, <2>8
  <2>12. /\ ram'[p2].next = n /\ ~ram'[p2].used
    <3>1. ram'[p2] = [next |-> n, prev |-> m, used |-> FALSE]
      BY <2>5, <2>6, <2>7, <2>8
    <3>2. QED  BY <3>1
  <2>13. r[n].used
    <3>1. ram[n].used
      BY <1>2, <1>4, <2>4
    <3>2. QED  BY <1>5, <1>7, <2>6, <3>1
  <2>14. \A x \in Offsets \ {p2} : x \in blocks \cup {ram_end} => ram'[x].used = r[x].used
    <3>1. TAKE x \in Offsets \ {p2}
    <3>2. CASE x = m
      BY <1>7, <2>8, <3>2
    <3>3. CASE x # m
      BY <1>7, <2>11, <3>3
    <3>4. QED  BY <3>2, <3>3
  <2>15. \A x \in blocks \ {m} : ram'[x].next = r[x].next
    BY <1>2, <1>7, <2>5, <2>11
  <2>16. live'[m] # 0
    BY <1>4, <1>6
  <2>17. Settled(ram', blocks \cup {p2}, live')
    <3>1. Settled(r, blocks, live')
      BY <1>9, <1>10 DEF Settled
    <3>2. QED
      BY <1>2, <1>4, <1>5, <1>6, <1>7, <1>8, <2>2, <2>3, <2>5, <2>6, <2>8, <2>12,
         <2>13, <2>14, <2>15, <2>16, <3>1, SplitKeepsOwned
  <2>18. \A x \in blocks \ {m} : ram'[x].used = ram[x].used
    BY <1>2, <2>5, <2>11
  <2>19. \A x \in blocks' \ blocks : x > m
    BY <1>4, <2>1, <2>2
  <2>20. QED
    BY <1>4, <1>6, <2>1, <2>8, <2>9, <2>10, <2>17, <2>18, <2>19
    DEF m, Settled
<1>13. QED  BY <1>11, <1>12

LEMMA TakeInv ==
  ASSUME MemInv, OneCaller, NEW c \in Contexts, Take(c)
  PROVE  MemInv'
<1> DEFINE m == ptr[c]
<1>1. \A d \in Contexts : d = c
  BY DEF OneCaller
<1>2. pc[c] = "take" /\ lfree' = lfree /\ LocalsOK /\ m \in Nat /\ lfree \in Offsets
  BY InvParts DEF Take, At, LocalsOK, Offsets
<1>3. Lowest(ram, lfree, blocks)
  BY <1>1, <1>2, InvParts
<1>4. /\ m \in blocks /\ ~ram[m].used
      /\ blocks' \in SUBSET (Offsets \ {ram_end}) /\ blocks \subseteq blocks'
      /\ \A x \in blocks' \ blocks : x > m
      /\ \A x \in blocks \ {m} : ram'[x].used = ram[x].used
      /\ ram'[m].used
  BY TakenHeap
<1>5. lfree \in blocks /\ lfree \in Nat /\ lfree <= m
  <2>1. lfree <= m /\ lfree \in Nat
    BY <1>2, <1>3, <1>4 DEF Lowest, Offsets
  <2>2. m < ram_end
    BY <1>2, <1>4, InvParts, Widths DEF Offsets
  <2>3. QED  BY <1>2, <1>3, <2>1, <2>2, Widths DEF Lowest
<1>6. \A x \in blocks' : ~ram'[x].used => lfree <= x
  <2>1. TAKE x \in blocks'
  <2>2. x \in Nat
    BY <1>4 DEF Offsets
  <2>3. x \in blocks => x = m \/ (ram'[x].used = ram[x].used)
    BY <1>4
  <2>4. x \notin blocks => x > m
    BY <1>4
  <2>5. QED  BY <1>2, <1>3, <1>4, <1>5, <2>2, <2>3, <2>4 DEF Lowest
<1>7. CASE m = lfree
  <2>1. /\ pc' = [pc EXCEPT ![c] = "adjust"] /\ cur' = [cur EXCEPT ![c] = lfree]
        /\ UNCHANGED <<arg, size, ptr>>
    BY <1>7 DEF Take
  <2>2. LocalsOK' /\ pc'[c] = "adjust" /\ cur'[c] = lfree
    BY <1>2, <2>1 DEF LocalsOK
  <2>3. LowestFree'
    BY <1>1, <1>2, <1>4, <1>5, <1>6, <2>2 DEF LowestFree
  <2>4. ScanIsSound'
    BY <1>1, <2>2 DEF ScanIsSound
  <2>5. QED  BY <1>2, <2>2, <2>3, <2>4, TakenHeap, InvFromParts
<1>8. CASE m # lfree
  <2>1. Return(c)
    BY <1>8 DEF Take
  <2>2. LocalsOK' /\ ScanIsSound' /\ \A d \in Contexts : pc'[d] = "idle"
    BY <1>2, <2>1, ReturnedLocals
  <2>3. ~ram'[lfree].used
    <3>1. ~ram[lfree].used
      BY <1>3, <1>4, <1>5, InvParts DEF Lowest
    <3>2. QED  BY <1>4, <1>5, <1>8, <3>1
  <2>4. LowestFree'
    BY <1>2, <1>4, <1>5, <1>6, <2>2, <2>3 DEF LowestFree
  <2>5. QED  BY <1>2, <2>2, <2>4, TakenHeap, InvFromParts
<1>9. QED  BY <1>7, <1>8

-----------------------------------------------------------------------------

LEMMA FreeInv ==
  ASSUME MemInv, OneCaller, NEW c \in Contexts, NEW o \in blocks, mem_free(c, o)
  PROVE  MemInv'
<1>1. pc[c] = "idle" /\ LocalsOK /\ UNCHANGED locals
  BY InvParts DEF mem_free, At
<1>2. \A d \in Contexts : pc[d] = "idle"
  BY <1>1 DEF OneCaller
<1>3. Calm(ram, lfree, blocks, live)
  BY <1>2, InvParts
<1>4. Calm(ram', lfree', blocks', live')
  BY <1>3, FreeKeepsCalm
<1>5. LocalsOK' /\ \A d \in Contexts : pc'[d] = "idle"
  BY <1>1, <1>2 DEF LocalsOK, locals
<1>6. QED  BY <1>4, <1>5, InvFromCalm DEF ScanIsSound

LEMMA TrimInv ==
  ASSUME MemInv, OneCaller, NEW c \in Contexts, NEW o \in blocks, NEW s \in Sizes,
         mem_trim(c, o, s)
  PROVE  MemInv'
<1>1. pc[c] = "idle" /\ LocalsOK /\ UNCHANGED locals
  BY InvParts DEF mem_trim, At
<1>2. \A d \in Contexts : pc[d] = "idle"
  BY <1>1 DEF OneCaller
<1>3. Calm(ram, lfree, blocks, live)
  BY <1>2, InvParts
<1>4. Calm(ram', lfree', blocks', live')
  BY <1>3, TrimKeepsCalm
<1>5. LocalsOK' /\ \A d \in Contexts : pc'[d] = "idle"
  BY <1>1, <1>2 DEF LocalsOK, locals
<1>6. QED  BY <1>4, <1>5, InvFromCalm DEF ScanIsSound

LEMMA StutterInv ==
  ASSUME MemInv, UNCHANGED vars
  PROVE  MemInv'
<1>1. UNCHANGED <<ram, lfree, live, blocks, pc, arg, size, ptr, cur>>
  BY DEF vars, heap, locals
<1>2. QED
  BY <1>1 DEF MemInv, TypeOK, ListIsLinked, NoHoles, UsedIsLive, LowestFree, ScanIsSound,
              Room, Fits

\* The list of mem.c is sound after every call and in the middle of mem_malloc, whatever
\* was called before, if there is one caller.
THEOREM MemIsSound == OneCaller /\ Spec => []MemInv
<1> SUFFICES ASSUME OneCaller
             PROVE  Spec => []MemInv
  OBVIOUS
<1>1. Init => MemInv
  BY InitInv
<1>2. ASSUME MemInv, [Next]_vars
      PROVE  MemInv'
  <2>1. ASSUME NEW c \in Contexts, Continue(c)
        PROVE  MemInv'
    <3>1. CASE Scan(c)
      BY <1>2, <3>1, ScanInv
    <3>2. CASE NoRoom(c)
      BY <1>2, <3>2, NoRoomInv
    <3>3. CASE Take(c)
      BY <1>2, <3>3, TakeInv
    <3>4. CASE Adjust(c)
      BY <1>2, <3>4, AdjustInv
    <3>5. CASE Adjusted(c)
      BY <1>2, <3>5, AdjustedInv
    <3>6. QED  BY <2>1, <3>1, <3>2, <3>3, <3>4, <3>5 DEF Continue
  <2>2. ASSUME NEW c \in Contexts, NEW s \in Sizes, CallMalloc(c, s)
        PROVE  MemInv'
    BY <1>2, <2>2, CallMallocInv
  <2>3. ASSUME NEW c \in Contexts, NEW o \in blocks, mem_free(c, o)
        PROVE  MemInv'
    BY <1>2, <2>3, FreeInv
  <2>4. ASSUME NEW c \in Contexts, NEW o \in blocks, NEW s \in Sizes, mem_trim(c, o, s)
        PROVE  MemInv'
    BY <1>2, <2>4, TrimInv
  <2>5. CASE UNCHANGED vars
    BY <1>2, <2>5, StutterInv
  <2>6. QED  BY <1>2, <2>1, <2>2, <2>3, <2>4, <2>5 DEF Next
<1>3. QED  BY <1>1, <1>2, PTL DEF Spec

LEMMA InvNoOverlap ==
  ASSUME MemInv
  PROVE  NoOverlap
<1>1. /\ ram \in Rams /\ blocks \in SUBSET (Offsets \ {ram_end})
      /\ live \in [Offsets -> 0 .. (MemSizeT - 1)]
      /\ Linked(ram, blocks) /\ Owned(ram, blocks, live)
  BY InvParts
<1>2. ASSUME NEW o \in Offsets, live[o] # 0, Representable(live[o])
      PROVE  /\ o \in blocks /\ o \in Nat /\ ram[o].next \in Nat /\ ram[o].next <= ram_end
             /\ live[o] \in Nat
             /\ o + SIZEOF_STRUCT_MEM + live[o] <= ram[o].next
  <2>1. o \in blocks /\ o \in Nat /\ ram[o].next \in Nat /\ ram[o].next <= ram_end
    BY <1>1, <1>2, Widths DEF Owned, Rams, Offsets, ram_end
  <2>2. live[o] \in 0 .. (MemSizeT - 1) /\ live[o] \in Nat
    BY <1>1
  <2>3. Rounded(live[o]) \in Nat /\ Rounded(live[o]) >= live[o]
    BY <1>2, <2>2, RoundedIs
  <2>4. o + SIZEOF_STRUCT_MEM + Rounded(live[o]) <= ram[o].next
    BY <1>1, <1>2 DEF Owned
  <2>5. QED  BY <2>1, <2>2, <2>3, <2>4, Widths
<1>3. ASSUME NEW o \in Offsets, live[o] # 0, Representable(live[o])
      PROVE  /\ Bytes(o) \subseteq 0 .. (MEM_SIZE_ALIGNED - 1)
             /\ \A b \in blocks : Bytes(o) \cap b .. (b + SIZEOF_STRUCT_MEM - 1) = {}
             /\ \A b \in Offsets \ {o} : Representable(live[b]) => Bytes(o) \cap Bytes(b) = {}
  <2>1. /\ o \in blocks /\ o \in Nat /\ ram[o].next \in Nat /\ ram[o].next <= ram_end
        /\ live[o] \in Nat
        /\ o + SIZEOF_STRUCT_MEM + live[o] <= ram[o].next
    BY <1>2, <1>3
  <2>2. \A b \in blocks : b \in Nat /\ (b <= o \/ ram[o].next <= b)
    BY <1>1, <2>1 DEF Linked, Offsets
  <2>3. \A b \in blocks : b < o => ram[b].next \in Nat /\ ram[b].next <= o
    BY <1>1, <2>1, <2>2 DEF Linked, Rams, Offsets
  <2>4. Bytes(o) \subseteq 0 .. (MEM_SIZE_ALIGNED - 1)
    BY <2>1, Widths DEF Bytes
  <2>5. ASSUME NEW b \in blocks
        PROVE  Bytes(o) \cap b .. (b + SIZEOF_STRUCT_MEM - 1) = {}
    <3>1. CASE b < o
      <4>1. ram[b].next >= b + SIZEOF_STRUCT_MEM + MIN_SIZE_ALIGNED
        BY <1>1 DEF Linked
      <4>2. b + SIZEOF_STRUCT_MEM <= o
        BY <2>1, <2>2, <2>3, <3>1, <4>1, Widths
      <4>3. QED  BY <2>1, <2>2, <4>2, Widths DEF Bytes
    <3>2. CASE b = o
      BY <2>1, <3>2, Widths DEF Bytes
    <3>3. CASE b > o
      <4>1. ram[o].next <= b
        BY <2>1, <2>2, <3>3
      <4>2. QED  BY <2>1, <2>2, <4>1, Widths DEF Bytes
    <3>4. QED  BY <2>1, <2>2, <3>1, <3>2, <3>3
  <2>6. ASSUME NEW b \in Offsets \ {o}, Representable(live[b])
        PROVE  Bytes(o) \cap Bytes(b) = {}
    <3>1. CASE live[b] = 0
      <4>1. b \in Nat
        BY DEF Offsets
      <4>2. Bytes(b) = {}
        BY <3>1, <4>1, Widths DEF Bytes
      <4>3. QED  BY <4>2
    <3>2. CASE live[b] # 0
      <4>1. /\ b \in blocks /\ b \in Nat /\ ram[b].next \in Nat /\ live[b] \in Nat
            /\ b + SIZEOF_STRUCT_MEM + live[b] <= ram[b].next
        BY <1>2, <2>6, <3>2
      <4>2. CASE b < o
        <5>1. ram[b].next <= o
          BY <2>3, <4>1, <4>2
        <5>2. QED  BY <2>1, <4>1, <5>1, Widths DEF Bytes
      <4>3. CASE b > o
        <5>1. ram[o].next <= b
          BY <2>1, <2>2, <4>1, <4>3
        <5>2. QED  BY <2>1, <4>1, <5>1, Widths DEF Bytes
      <4>4. QED  BY <2>1, <4>1, <4>2, <4>3
    <3>3. QED  BY <3>1, <3>2
  <2>7. QED  BY <2>4, <2>5, <2>6
<1>4. QED  BY <1>3 DEF NoOverlap

\* No byte belongs to two holders, none lies outside the heap or under a struct mem.
THEOREM RegionsAreDisjoint == OneCaller /\ Spec => []NoOverlap
<1>1. MemInv => NoOverlap
  BY InvNoOverlap
<1>2. QED  BY <1>1, MemIsSound, PTL

\* When everything was given back the heap is one free struct mem again.
THEOREM HeapComesBack == OneCaller /\ Spec => []NothingLeaks
<1>1. ASSUME MemInv, \A o \in Offsets : live[o] = 0
      PROVE  blocks = {0} /\ ram[0].next = ram_end
  <2>1. /\ ram \in Rams /\ blocks \in SUBSET (Offsets \ {ram_end})
        /\ Linked(ram, blocks) /\ Owned(ram, blocks, live)
        /\ \A x \in blocks : ram[x].used \/ ram[ram[x].next].used
    BY <1>1, InvParts
  <2>2. \A x \in blocks : x \in Offsets /\ x \in Nat /\ x < ram_end /\ ~ram[x].used
    BY <1>1, <2>1, Widths DEF Owned, Offsets, ram_end
  <2>3. 0 \in blocks /\ ram[0].next \in blocks \cup {ram_end}
    BY <2>1 DEF Linked
  <2>4. ram[0].next = ram_end
    BY <2>1, <2>2, <2>3
  <2>5. \A b \in blocks : b <= 0 \/ ram_end <= b
    BY <2>1, <2>3, <2>4 DEF Linked
  <2>6. \A b \in blocks : b = 0
    BY <2>2, <2>5, Widths
  <2>7. QED  BY <2>3, <2>4, <2>6
<1>2. MemInv => NothingLeaks
  BY <1>1 DEF NothingLeaks
<1>3. QED  BY <1>2, MemIsSound, PTL

\* mem_malloc returns NULL after a scan only if no free struct mem is large enough.
THEOREM RefusalIsRight == OneCaller /\ Spec => RefusedRightly
<1>1. ASSUME MemInv
      PROVE  \A c \in Contexts : NoRoom(c) => \A o \in blocks : ~Fits(ram, o, size[c])
  <2>1. SUFFICES ASSUME NEW c \in Contexts, NoRoom(c), NEW o \in blocks
                 PROVE  ~Fits(ram, o, size[c])
    OBVIOUS
  <2>2. /\ ram \in Rams /\ blocks \in SUBSET (Offsets \ {ram_end}) /\ Linked(ram, blocks)
        /\ LocalsOK
    BY <1>1, InvParts
  <2>3. /\ pc[c] = "scan" /\ ptr[c] >= MEM_SIZE_ALIGNED - size[c]
        /\ ptr[c] \in Nat /\ size[c] \in Nat /\ o \in Nat /\ ram[o].next \in Nat
        /\ ram[o].next <= MEM_SIZE_ALIGNED
    BY <2>1, <2>2 DEF NoRoom, At, LocalsOK, Rams, Offsets
  <2>4. o < ptr[c] => ~Fits(ram, o, size[c])
    BY <1>1, <2>3 DEF MemInv, ScanIsSound
  <2>5. o >= ptr[c] => Room(ram, o) < size[c]
    BY <2>3, Widths DEF Room
  <2>6. o >= ptr[c] => ~Fits(ram, o, size[c])
    BY <2>3, <2>5, Widths DEF Fits, Room
  <2>7. QED  BY <2>3, <2>4, <2>6
<1>2. QED  BY <1>1, MemIsSound, PTL DEF RefusedRightly

==============================================================================
