--------------------------- MODULE CaptureProofs ---------------------------
(***************************************************************************)
(* Theorems about Capture, for every configuration, every size of the      *)
(* reads, of the ring buffer and of the log file, and any output: first    *)
(* the ring buffer and the log files; then that whatever a program prints  *)
(* and however the pipe cuts it into chunks, what is captured and the      *)
(* lines that are forwarded are its output, with strip_ansi without the    *)
(* escape sequences.                                                       *)
(***************************************************************************)
EXTENDS Capture, SequenceTheorems, FiniteSetTheorems, WellFoundedInduction, TLAPS

-----------------------------------------------------------------------------
(***************************************************************************)
(* Induction, and what a recursive function is.                            *)
(***************************************************************************)
\* A set of numbers has a least one.
LEMMA Least ==
  ASSUME NEW T, T \subseteq Nat, T # {}
  PROVE  \E x \in T : \A y \in T : x <= y
<1>1. PICK x \in T : \A y \in T : ~ (<<y, x>> \in OpToRel(<, Nat))
  BY NatLessThanWellFounded, WFMin, Zenon
<1>2. \A y \in T : ~ (y < x)
  BY <1>1 DEF OpToRel
<1> QED BY <1>2

\* A set with zero and the successors of its members has every number.
LEMMA Induct ==
  ASSUME NEW T, 0 \in T, \A n \in Nat : n \in T => n + 1 \in T
  PROVE  \A n \in Nat : n \in T
<1> SUFFICES ASSUME Nat \ T # {} PROVE FALSE
  OBVIOUS
<1>1. PICK x \in Nat \ T : \A y \in Nat \ T : x <= y
  BY Least
<1>2. x # 0 /\ x - 1 \in Nat
  OBVIOUS
<1>3. x - 1 \in T
  BY <1>1, <1>2
<1> QED BY <1>2, <1>3

\* What is left when a number below twice the divisor is divided.
LEMMA Mod ==
  ASSUME NEW R \in Nat \ {0}
  PROVE  /\ \A x \in 0..R - 1 : x % R = x
         /\ \A x \in R..2 * R - 1 : x % R = x - R
<1>1. ASSUME NEW x \in 0..R - 1 PROVE x % R = x
  OBVIOUS
<1>2. ASSUME NEW x \in R..2 * R - 1 PROVE x % R = x - R
  OBVIOUS
<1> QED BY <1>1, <1>2

-----------------------------------------------------------------------------
(***************************************************************************)
(* The ring buffer.                                                        *)
(***************************************************************************)
RingType == [buf : [0..RingSize - 1 -> Int], pos : 0..RingSize - 1, full : BOOLEAN]

\* The first n bytes of s were put into the ring r, which has the last of them: up to pos
\* those since it wrapped around, and behind pos those from before.
RingHas(r, s, n) ==
  /\ r \in RingType
  /\ r.full <=> n >= RingSize
  /\ ~r.full => r.pos = n
  /\ \A i \in 0..RingSize - 1 : i < r.pos => r.buf[i] = s[n - r.pos + i + 1]
  /\ \A i \in 0..RingSize - 1 : r.full /\ i >= r.pos => r.buf[i] = s[n - r.pos - RingSize + i + 1]

\* One turn of the loop of RingBuffer.Write.
LEMMA PutHas ==
  ASSUME NEW s \in Seq(Int), NEW n \in Nat, n < Len(s), NEW r, RingHas(r, s, n)
  PROVE  RingHas(RingPut(r, s[n + 1]), s, n + 1)
<1> DEFINE q == RingPut(r, s[n + 1])
<1>1. RingSize \in Nat \ {0} /\ Len(s) \in Nat
  BY CaptureConstants, LenProperties
<1>2. s[n + 1] \in Int
  BY <1>1, ElementOfSeq
<1>3. /\ r.buf \in [0..RingSize - 1 -> Int] /\ r.pos \in 0..RingSize - 1 /\ r.full \in BOOLEAN
      /\ r.full => n >= RingSize
      /\ ~r.full => r.pos = n
  BY DEF RingHas, RingType
<1>4. CASE r.pos + 1 < RingSize
  <2>1. (r.pos + 1) % RingSize = r.pos + 1
    BY <1>1, <1>3, <1>4, Mod
  <2>2. /\ q.buf = [r.buf EXCEPT ![r.pos] = s[n + 1]] /\ q.pos = r.pos + 1 /\ q.full = r.full
        /\ q \in RingType
    <3>1. q = [buf |-> [r.buf EXCEPT ![r.pos] = s[n + 1]], pos |-> r.pos + 1, full |-> r.full]
      <4>1. r.pos + 1 # 0
        BY <1>3
      <4> QED BY <1>3, <2>1, <4>1 DEF RingPut
    <3>2. [r.buf EXCEPT ![r.pos] = s[n + 1]] \in [0..RingSize - 1 -> Int]
      BY <1>2, <1>3
    <3>3. r.pos + 1 \in 0..RingSize - 1
      <4>1. r.pos \in 0..RingSize - 1
        BY <1>3
      <4> QED BY <1>1, <1>4, <4>1
    <3> QED BY <1>3, <3>1, <3>2, <3>3 DEF RingType
  <2>3. \A i \in 0..RingSize - 1 : i < r.pos + 1 => q.buf[i] = s[(n + 1) - (r.pos + 1) + i + 1]
    <3> TAKE i \in 0..RingSize - 1
    <3>1. CASE i < r.pos
      <4>1. (n + 1) - (r.pos + 1) + i + 1 = n - r.pos + i + 1
        BY <1>3, SMTT(30)
      <4>2. q.buf[i] = r.buf[i]
        BY <1>3, <2>2, <3>1
      <4> QED BY <3>1, <4>1, <4>2 DEF RingHas
    <3>2. CASE i = r.pos
      <4>1. (n + 1) - (r.pos + 1) + i + 1 = n + 1
        BY <1>3, <3>2
      <4>2. q.buf[i] = s[n + 1]
        BY <1>3, <2>2, <3>2
      <4> QED BY <4>1, <4>2
    <3> QED BY <1>3, <3>1, <3>2
  <2>4. \A i \in 0..RingSize - 1 : r.full /\ i >= r.pos + 1 =>
          q.buf[i] = s[(n + 1) - (r.pos + 1) - RingSize + i + 1]
    <3> SUFFICES ASSUME NEW i \in 0..RingSize - 1, r.full, i >= r.pos + 1
        PROVE  q.buf[i] = s[(n + 1) - (r.pos + 1) - RingSize + i + 1]
      OBVIOUS
    <3>1. (n + 1) - (r.pos + 1) - RingSize + i + 1 = n - r.pos - RingSize + i + 1
      BY <1>1, <1>3
    <3>2. q.buf[i] = r.buf[i] /\ i >= r.pos
      BY <1>3, <2>2
    <3> QED BY <3>1, <3>2 DEF RingHas
  <2>5. (r.full <=> n + 1 >= RingSize) /\ (~r.full => r.pos + 1 = n + 1)
    BY <1>1, <1>3, <1>4
  <2> HIDE DEF q
  <2>6. /\ q.full <=> n + 1 >= RingSize
        /\ ~q.full => q.pos = n + 1
        /\ \A i \in 0..RingSize - 1 : i < q.pos => q.buf[i] = s[(n + 1) - q.pos + i + 1]
        /\ \A i \in 0..RingSize - 1 : q.full /\ i >= q.pos => q.buf[i] = s[(n + 1) - q.pos - RingSize + i + 1]
    BY <2>2, <2>3, <2>4, <2>5
  <2>7. RingHas(q, s, n + 1)
    BY <2>2, <2>6 DEF RingHas
  <2> QED BY <2>7 DEF q
<1>5. CASE r.pos + 1 = RingSize
  <2>1. (r.pos + 1) % RingSize = 0
    BY <1>1, <1>5, Mod
  <2>2. /\ q.buf = [r.buf EXCEPT ![r.pos] = s[n + 1]] /\ q.pos = 0 /\ q.full = TRUE
        /\ q \in RingType
    <3>1. q = [buf |-> [r.buf EXCEPT ![r.pos] = s[n + 1]], pos |-> 0, full |-> TRUE]
      BY <2>1 DEF RingPut
    <3>2. [r.buf EXCEPT ![r.pos] = s[n + 1]] \in [0..RingSize - 1 -> Int]
      BY <1>2, <1>3
    <3>3. 0 \in 0..RingSize - 1
      BY <1>1
    <3> QED BY <3>1, <3>2, <3>3 DEF RingType
  <2>3. \A i \in 0..RingSize - 1 : q.buf[i] = s[(n + 1) - 0 - RingSize + i + 1]
    <3> TAKE i \in 0..RingSize - 1
    <3>1. CASE i < r.pos
      <4>1. (n + 1) - 0 - RingSize + i + 1 = n - r.pos + i + 1
        BY <1>1, <1>3, <1>5, SMTT(30)
      <4>2. q.buf[i] = r.buf[i]
        BY <1>3, <2>2, <3>1
      <4> QED BY <3>1, <4>1, <4>2 DEF RingHas
    <3>2. CASE i = r.pos
      <4>1. (n + 1) - 0 - RingSize + i + 1 = n + 1
        BY <1>1, <1>3, <1>5, <3>2, SMTT(30)
      <4>2. q.buf[i] = s[n + 1]
        BY <1>3, <2>2, <3>2
      <4> QED BY <4>1, <4>2
    <3> QED BY <1>1, <1>3, <1>5, <3>1, <3>2
  <2>4. n + 1 >= RingSize
    BY <1>1, <1>3, <1>5
  <2>5. \A i \in 0..RingSize - 1 : ~(i < 0)
    BY <1>1
  <2> HIDE DEF q
  <2>6. /\ q.full <=> n + 1 >= RingSize
        /\ ~q.full => q.pos = n + 1
        /\ \A i \in 0..RingSize - 1 : i < q.pos => q.buf[i] = s[(n + 1) - q.pos + i + 1]
        /\ \A i \in 0..RingSize - 1 : q.full /\ i >= q.pos => q.buf[i] = s[(n + 1) - q.pos - RingSize + i + 1]
    BY <2>2, <2>3, <2>4, <2>5
  <2>7. RingHas(q, s, n + 1)
    BY <2>2, <2>6 DEF RingHas
  <2> QED BY <2>7 DEF q
<1>6. r.pos + 1 < RingSize \/ r.pos + 1 = RingSize
  <2>1. r.pos \in 0..RingSize - 1
    BY <1>3
  <2> QED BY <1>1, <2>1
<1> QED BY <1>4, <1>5, <1>6

\* The whole loop.
LEMMA WriteHas ==
  ASSUME NEW s \in Seq(Int), NEW data \in Seq(Int), NEW r, RingHas(r, s, Len(s))
  PROVE  RingHas(RingWrite(r, data), s \o data, Len(s) + Len(data))
<1> DEFINE all == s \o data
           Put(f, k) == f = [i \in 0..k |-> IF i = 0 THEN r ELSE RingPut(f[i - 1], data[i])]
           put == CHOOSE f : Put(f, Len(data))
<1>1. Len(s) \in Nat /\ Len(data) \in Nat
  BY LenProperties
<1>2. /\ all \in Seq(Int) /\ Len(all) = Len(s) + Len(data)
      /\ \A i \in 1..Len(s) : all[i] = s[i]
      /\ \A i \in 1..Len(data) : all[Len(s) + i] = data[i]
  BY <1>1, ConcatProperties
<1>3. \A k \in Nat : \E f : Put(f, k)
  <2> DEFINE T == {k \in Nat : \E f : Put(f, k)}
  <2>1. 0 \in T
    <3>1. Put([i \in 0..0 |-> r], 0)
      OBVIOUS
    <3> QED BY <3>1
  <2>2. ASSUME NEW k \in Nat, k \in T PROVE k + 1 \in T
    <3>1. PICK f : Put(f, k)
      BY <2>2
    <3> DEFINE g == [i \in 0..k + 1 |-> IF i = k + 1 THEN RingPut(f[k], data[k + 1]) ELSE f[i]]
    <3>2. \A i \in 0..k + 1 : g[i] = IF i = 0 THEN r ELSE RingPut(g[i - 1], data[i])
      BY <3>1
    <3>3. Put(g, k + 1)
      BY <3>2
    <3> HIDE DEF g, Put
    <3> QED BY <3>3
  <2> HIDE DEF T
  <2>3. \A k \in Nat : k \in T
    BY <2>1, <2>2, Induct
  <2> QED BY <2>3 DEF T
<1>4. Put(put, Len(data))
  <2>1. \E f : Put(f, Len(data))
    BY <1>1, <1>3
  <2> HIDE DEF Put
  <2> QED BY <2>1
<1>5. put[0] = r /\ \A i \in 1..Len(data) : put[i] = RingPut(put[i - 1], data[i])
  <2> HIDE DEF put
  <2>1. \A i \in 0..Len(data) : put[i] = IF i = 0 THEN r ELSE RingPut(put[i - 1], data[i])
    BY <1>4
  <2> QED BY <1>1, <2>1
<1>6. RingWrite(r, data) = put[Len(data)]
  BY DEF RingWrite
<1> HIDE DEF all, put, Put
<1>7. \A k \in Nat : k <= Len(data) => RingHas(put[k], all, Len(s) + k)
  <2> DEFINE T == {k \in Nat : k <= Len(data) => RingHas(put[k], all, Len(s) + k)}
  <2>1. 0 \in T
    <3>1. RingSize \in Nat \ {0} /\ r.pos \in 0..RingSize - 1
      BY CaptureConstants DEF RingHas, RingType
    <3>2. \A i \in 0..RingSize - 1 :
            /\ i < r.pos => Len(s) - r.pos + i + 1 \in 1..Len(s)
            /\ r.full /\ i >= r.pos => Len(s) - r.pos - RingSize + i + 1 \in 1..Len(s)
      <4>1. r.full => Len(s) >= RingSize
        BY DEF RingHas
      <4>2. r.pos <= Len(s)
        BY <1>1, <3>1, <4>1 DEF RingHas
      <4>3. ASSUME NEW i \in 0..RingSize - 1, i < r.pos PROVE Len(s) - r.pos + i + 1 \in 1..Len(s)
        BY <1>1, <3>1, <4>2, <4>3
      <4>4. ASSUME NEW i \in 0..RingSize - 1, r.full, i >= r.pos
            PROVE  Len(s) - r.pos - RingSize + i + 1 \in 1..Len(s)
        <5>1. Len(s) >= RingSize
          BY <4>1, <4>4
        <5>2. r.pos \in Nat /\ i \in Nat /\ i <= RingSize - 1 /\ i >= r.pos
          BY <3>1, <4>4
        <5> QED BY <1>1, <3>1, <5>1, <5>2, SMTT(30)
      <4> QED BY <4>3, <4>4
    <3>3. RingHas(r, all, Len(s))
      BY <1>2, <3>2 DEF RingHas
    <3> QED BY <1>1, <1>5, <3>3
  <2>2. ASSUME NEW k \in Nat, k \in T PROVE k + 1 \in T
    <3> SUFFICES ASSUME k + 1 <= Len(data) PROVE RingHas(put[k + 1], all, Len(s) + k + 1)
      BY <1>1
    <3>1. RingHas(put[k], all, Len(s) + k)
      BY <1>1, <2>2
    <3>2. Len(s) + k \in Nat /\ Len(s) + k < Len(all) /\ all[Len(s) + k + 1] = data[k + 1]
      <4>1. k + 1 \in 1..Len(data) /\ Len(s) + k + 1 = Len(s) + (k + 1)
        BY <1>1
      <4> QED BY <1>1, <1>2, <4>1, SMTT(30)
    <3>3. RingHas(RingPut(put[k], data[k + 1]), all, Len(s) + k + 1)
      BY <1>2, <3>1, <3>2, PutHas
    <3>4. put[k + 1] = RingPut(put[k], data[k + 1])
      BY <1>1, <1>5
    <3> QED BY <3>3, <3>4
  <2> HIDE DEF T
  <2>3. \A k \in Nat : k \in T
    BY <2>1, <2>2, Induct
  <2> QED BY <2>3 DEF T
<1> QED BY <1>1, <1>6, <1>7 DEF all

\* What is read are the last bytes that were put into the ring.
LEMMA ReadIsTail ==
  ASSUME NEW s \in Seq(Int), NEW r, RingHas(r, s, Len(s)), NEW n \in 1..MaxReadAlloc
  PROVE  LET count == Min({n, RingSize, Len(s)})
         IN  RingRead(r, n) = SubSeq(s, Len(s) - count + 1, Len(s))
<1> DEFINE R == RingSize
           L == Len(s)
           count == IF n > RingLen(r) THEN RingLen(r) ELSE n
           start == IF r.pos < count THEN r.pos - count + RingSize ELSE r.pos - count
           tail == SubSeq(s, L - count + 1, L)
<1>1. R \in Nat \ {0} /\ L \in Nat /\ n \in Nat
  BY CaptureConstants, LenProperties
<1>2. r.pos \in Nat /\ r.pos <= R - 1 /\ r.full \in BOOLEAN
  BY <1>1 DEF RingHas, RingType
<1>3. (r.full => L >= R) /\ (~r.full => r.pos = L /\ L < R)
  BY <1>1, <1>2 DEF RingHas
<1>4. RingLen(r) = IF L < R THEN L ELSE R
  BY <1>1, <1>2, <1>3 DEF RingLen
<1> HIDE DEF R, L
<1>5. count \in Nat /\ count <= n /\ count <= R /\ count <= L /\ count \in {n, R, L}
  BY <1>1, <1>4
<1>6. Min({n, R, L}) = count
  <2>1. \A y \in {n, R, L} : count <= y
    BY <1>5
  <2>2. \A x \in {n, R, L} : (\A y \in {n, R, L} : x <= y) => x = count
    BY <1>1, <1>5, <2>1
  <2> HIDE DEF count
  <2> QED BY <1>5, <2>1, <2>2 DEF Min
<1>7. start \in 0..R - 1 /\ start = IF r.pos < count THEN r.pos + R - count ELSE r.pos - count
  BY <1>1, <1>2, <1>5, SMTT(30) DEF R
<1>8. RingRead(r, n) = [i \in 1..count |-> r.buf[(start + i - 1) % R]]
  BY DEF RingRead, R
<1>9. tail \in Seq(Int) /\ Len(tail) = count /\ \A i \in 1..count : tail[i] = s[L - count + i]
  <2> HIDE DEF count
  <2>1. \A i \in L - count + 1..L : s[i] \in Int
    BY <1>1, <1>5, ElementOfSeq DEF L
  <2>2. L - count + 1 \in Int /\ L \in Int
    BY <1>1, <1>5
  <2>3. /\ tail \in Seq(Int)
        /\ Len(tail) = IF L - count + 1 <= L THEN L - (L - count + 1) + 1 ELSE 0
        /\ \A i \in 1..L - (L - count + 1) + 1 : tail[i] = s[L - count + 1 + i - 1]
    BY <2>1, <2>2, SubSeqProperties
  <2>4. /\ L - (L - count + 1) + 1 = count /\ (~(L - count + 1 <= L) => count = 0)
        /\ \A i \in 1..count : L - count + 1 + i - 1 = L - count + i
    BY <1>1, <1>5
  <2> HIDE DEF tail
  <2> QED BY <2>3, <2>4
<1>10. \A i \in 1..count : r.buf[(start + i - 1) % R] = s[L - count + i]
  <2> HIDE DEF count, start
  <2> TAKE i \in 1..count
  <2>1. /\ \A j \in 0..R - 1 : j < r.pos => r.buf[j] = s[L - r.pos + j + 1]
        /\ \A j \in 0..R - 1 : r.full /\ j >= r.pos => r.buf[j] = s[L - r.pos - R + j + 1]
    BY DEF RingHas, R, L
  <2> DEFINE p == r.pos
  <2>0. /\ R \in Nat /\ L \in Nat /\ p \in Nat /\ count \in Nat /\ start \in Nat /\ i \in Nat
        /\ p <= R - 1 /\ count <= R /\ count <= L /\ start <= R - 1 /\ 1 <= i /\ i <= count
        /\ p < count => start = p + R - count
        /\ ~(p < count) => start = p - count
    BY <1>1, <1>2, <1>5, <1>7
  <2>5. (\A j \in 0..R - 1 : j % R = j) /\ (\A j \in R..2 * R - 1 : j % R = j - R)
    BY <1>1, Mod
  <2> HIDE DEF p
  <2>2. CASE p >= count
    <3>1. start + i - 1 \in 0..R - 1 /\ start + i - 1 < p /\ L - p + (start + i - 1) + 1 = L - count + i
      BY <2>0, <2>2
    <3>2. (start + i - 1) % R = start + i - 1
      BY <3>1, <2>5
    <3> QED BY <2>1, <3>1, <3>2 DEF p
  <2>3. CASE p < count /\ start + i - 1 < R
    <3>1. /\ start + i - 1 \in 0..R - 1 /\ start + i - 1 >= p
          /\ L - p - R + (start + i - 1) + 1 = L - count + i
      BY <2>0, <2>3
    <3>2. (start + i - 1) % R = start + i - 1
      BY <3>1, <2>5
    <3>3. r.full
      <4>1. p # L
        BY <2>0, <2>3
      <4> QED BY <1>3, <4>1 DEF p
    <3> QED BY <2>1, <3>1, <3>2, <3>3 DEF p
  <2>4. CASE p < count /\ start + i - 1 >= R
    <3>1. /\ start + i - 1 \in R..2 * R - 1
          /\ start + i - 1 - R \in 0..R - 1 /\ start + i - 1 - R < p
          /\ L - p + (start + i - 1 - R) + 1 = L - count + i
      BY <2>0, <2>4
    <3>2. (start + i - 1) % R = start + i - 1 - R
      <4>1. (start + i - 1) % R = (start + i - 1) - R
        BY <3>1, <2>5
      <4> QED BY <2>0, <4>1
    <3> QED BY <2>1, <3>1, <3>2 DEF p
  <2> QED BY <2>0, <2>2, <2>3, <2>4
<1>11. RingRead(r, n) = tail
  <2> HIDE DEF count, start, tail
  <2>1. tail = [i \in 1..count |-> tail[i]]
    BY <1>5, <1>9, LenProperties
  <2> QED BY <1>8, <1>9, <1>10, <2>1, SMTT(30)
<1> QED BY <1>6, <1>11 DEF R, L

-----------------------------------------------------------------------------
(***************************************************************************)
(* The stripper leaves bytes out; it neither moves nor repeats any.        *)
(***************************************************************************)
\* t has bytes of d from the position i on, in their order.
Picks(t, d, i) ==
  /\ t \in Seq(Int) /\ Len(t) <= Len(d) + 1 - i /\ Increasing(t)
  /\ \A m \in 1..Len(t) : \E j \in i..Len(d) : t[m] = d[j]

\* An escape sequence ends behind its introducer, within the data.
LEMMA SkipIsForward ==
  ASSUME NEW k, NEW d \in Seq(Int), NEW i \in 1..Len(d) + 1
  PROVE  SkipCSI(k, d, i) \in i..Len(d) + 1
<1> DEFINE ends == {j \in i..Len(d) : IsFinal(k[d[j]])}
<1>1. Len(d) \in Nat
  BY LenProperties
<1>2. CASE ends = {}
  BY <1>1, <1>2 DEF SkipCSI
<1>3. CASE ends # {}
  <2>1. \E j \in ends : \A m \in ends : j <= m
    <3>1. ends \subseteq Nat
      BY <1>1
    <3> HIDE DEF ends
    <3> QED BY <1>3, <3>1, Least
  <2> DEFINE least == CHOOSE j \in ends : \A m \in ends : j <= m
  <2>2. least \in ends
    BY <2>1
  <2>3. SkipCSI(k, d, i) = least + 1
    BY <1>3 DEF SkipCSI
  <2> HIDE DEF least
  <2> QED BY <1>1, <2>2, <2>3
<1> QED BY <1>2, <1>3

\* A byte in front of picked ones that come after it.
LEMMA PickNext ==
  ASSUME NEW d \in Seq(Int), Increasing(d), NEW i \in 1..Len(d), NEW t, Picks(t, d, i + 1)
  PROVE  Picks(<<d[i]>> \o t, d, i)
<1> DEFINE u == <<d[i]>> \o t
<1>1. Len(d) \in Nat /\ t \in Seq(Int) /\ Len(t) \in Nat
  BY LenProperties DEF Picks
<1>2. d[i] \in Int /\ <<d[i]>> \in Seq(Int) /\ Len(<<d[i]>>) = 1 /\ <<d[i]>>[1] = d[i]
  BY ElementOfSeq
<1>3. /\ u \in Seq(Int) /\ Len(u) = 1 + Len(t)
      /\ \A m \in 1..1 + Len(t) : u[m] = IF m <= 1 THEN <<d[i]>>[m] ELSE t[m - 1]
  BY <1>1, <1>2, ConcatProperties
<1>4. u[1] = d[i] /\ \A m \in 2..1 + Len(t) : u[m] = t[m - 1]
  BY <1>1, <1>2, <1>3
<1> HIDE DEF u
<1>5. \A m \in 1..Len(t) : t[m] \in Int /\ d[i] < t[m]
  <2> TAKE m \in 1..Len(t)
  <2>1. PICK j \in i + 1..Len(d) : t[m] = d[j]
    BY DEF Picks
  <2>2. j \in 1..Len(d) /\ i < j
    BY <1>1, <2>1
  <2> QED BY <1>1, <2>1, <2>2, ElementOfSeq DEF Increasing
<1>6. Increasing(u)
  <2> SUFFICES ASSUME NEW a \in 1..Len(u), NEW b \in 1..Len(u), a < b PROVE u[a] < u[b]
    BY DEF Increasing
  <2>1. CASE a = 1
    <3>1. b \in 2..1 + Len(t) /\ b - 1 \in 1..Len(t)
      BY <1>1, <1>3, <2>1
    <3> QED BY <1>4, <1>5, <2>1, <3>1
  <2>2. CASE a # 1
    <3>1. /\ a \in 2..1 + Len(t) /\ b \in 2..1 + Len(t)
          /\ a - 1 \in 1..Len(t) /\ b - 1 \in 1..Len(t) /\ a - 1 < b - 1
      BY <1>1, <1>3, <2>2
    <3>2. t[a - 1] < t[b - 1]
      BY <3>1 DEF Picks, Increasing
    <3> QED BY <1>4, <3>1, <3>2
  <2> QED BY <2>1, <2>2
<1>7. \A m \in 1..Len(u) : \E j \in i..Len(d) : u[m] = d[j]
  <2> TAKE m \in 1..Len(u)
  <2>1. CASE m = 1
    BY <1>1, <1>4, <2>1
  <2>2. CASE m # 1
    <3>0. m \in 1..1 + Len(t)
      BY <1>3
    <3>1. m \in 2..1 + Len(t) /\ m - 1 \in 1..Len(t)
      BY <1>1, <2>2, <3>0
    <3>2. PICK j \in i + 1..Len(d) : t[m - 1] = d[j]
      BY <3>1 DEF Picks
    <3> QED BY <1>1, <1>4, <3>1, <3>2
  <2> QED BY <2>1, <2>2
<1>8. Len(u) <= Len(d) + 1 - i
  <2>1. Len(t) <= Len(d) + 1 - (i + 1)
    BY DEF Picks
  <2> QED BY <1>1, <1>3, <2>1
<1> QED BY <1>3, <1>6, <1>7, <1>8 DEF Picks, u

\* One turn of the loop of StripANSI at the position i, with the results further on.
StripTurn(k, d, f, i) ==
  IF i > Len(d) THEN <<>>
  ELSE IF StartsCSI(k, d, i) THEN f[SkipCSI(k, d, i + 2)]
  ELSE <<d[i]>> \o f[i + 1]

\* An escape sequence ends behind its ESC.
LEMMA SkipGoesOn ==
  ASSUME NEW k, NEW d \in Seq(Int), NEW i \in 1..Len(d), StartsCSI(k, d, i)
  PROVE  SkipCSI(k, d, i + 2) \in i + 1..Len(d) + 1
<1>1. Len(d) \in Nat
  BY LenProperties
<1>2. i + 2 \in 1..Len(d) + 1
  BY <1>1 DEF StartsCSI
<1>3. SkipCSI(k, d, i + 2) \in i + 2..Len(d) + 1
  BY <1>2, SkipIsForward
<1> QED BY <1>1, <1>3

\* What StripANSI computes from each position on.
LEMMA StripIs ==
  ASSUME NEW k, NEW d \in Seq(Int)
  PROVE  \E rest : /\ StripANSI(k, d) = rest[1]
                   /\ \A i \in 1..Len(d) + 1 : rest[i] = StripTurn(k, d, rest, i)
<1> DEFINE n == Len(d)
           Body(f, i) == IF i > Len(d) THEN <<>>
                         ELSE IF StartsCSI(k, d, i) THEN f[SkipCSI(k, d, i + 2)]
                         ELSE <<d[i]>> \o f[i + 1]
           Rest(f, m) == f = [i \in m..Len(d) + 1 |-> Body(f, i)]
           rest == CHOOSE f : Rest(f, 1)
<1>1. n \in Nat
  BY LenProperties
<1>2. \A i \in 1..n : StartsCSI(k, d, i) => SkipCSI(k, d, i + 2) \in i + 1..n + 1
  BY SkipGoesOn
<1>3. ASSUME NEW f, NEW g, NEW i \in 1..n + 1, \A j \in i + 1..n + 1 : f[j] = g[j]
      PROVE  Body(f, i) = Body(g, i)
  <2>1. CASE i > n
    BY <2>1
  <2>2. CASE i \in 1..n
    <3>1. i + 1 \in i + 1..n + 1
      BY <1>1, <2>2
    <3> QED BY <1>2, <1>3, <2>2, <3>1
  <2> QED BY <1>1, <2>1, <2>2
<1>4. \A m \in Nat : m <= n => \E f : Rest(f, n + 1 - m)
  <2> DEFINE T == {m \in Nat : m <= n => \E f : Rest(f, n + 1 - m)}
  <2>1. 0 \in T
    <3>1. Rest([i \in n + 1..n + 1 |-> <<>>], n + 1)
      BY <1>1
    <3> HIDE DEF Rest
    <3> QED BY <1>1, <3>1
  <2>2. ASSUME NEW m \in Nat, m \in T PROVE m + 1 \in T
    <3> HIDE DEF Rest
    <3> SUFFICES ASSUME m + 1 <= n PROVE \E f : Rest(f, n + 1 - (m + 1))
      BY <1>1
    <3>1. PICK f : Rest(f, n + 1 - m)
      <4>1. m <= n
        BY <1>1
      <4> QED BY <2>2, <4>1
    <3> DEFINE g == [i \in n - m..n + 1 |-> IF i = n - m THEN Body(f, i) ELSE f[i]]
    <3> HIDE DEF Body
    <3>2. n - m \in 1..n /\ n + 1 - m = (n - m) + 1
      BY <1>1
    <3>3. \A i \in (n - m) + 1..n + 1 : g[i] = f[i] /\ f[i] = Body(f, i)
      <4>1. \A i \in n + 1 - m..n + 1 : f[i] = Body(f, i)
        BY <3>1 DEF Rest
      <4>2. \A i \in (n - m) + 1..n + 1 : i \in n + 1 - m..n + 1 /\ i \in n - m..n + 1 /\ i # n - m
        BY <1>1, <3>2
      <4> QED BY <4>1, <4>2
    <3>4. g[n - m] = Body(f, n - m)
      BY <1>1, <3>2
    <3>5. DOMAIN g = n - m..n + 1 /\ g = [i \in n - m..n + 1 |-> g[i]]
      OBVIOUS
    <3> HIDE DEF g
    <3>6. \A i \in n - m..n + 1 : g[i] = Body(g, i)
      <4> TAKE i \in n - m..n + 1
      <4>1. i \in 1..n + 1 /\ \A j \in i + 1..n + 1 : j \in (n - m) + 1..n + 1
        BY <1>1, <3>2
      <4>2. \A j \in i + 1..n + 1 : f[j] = g[j]
        BY <3>3, <4>1
      <4>3. Body(f, i) = Body(g, i)
        BY <1>3, <4>1, <4>2
      <4>4. g[i] = Body(f, i)
        <5>1. i = n - m \/ i \in (n - m) + 1..n + 1
          BY <1>1
        <5> QED BY <3>3, <3>4, <5>1
      <4> QED BY <4>3, <4>4
    <3>7. g = [i \in n - m..n + 1 |-> Body(g, i)]
      BY <3>5, <3>6
    <3>8. Rest(g, n + 1 - (m + 1))
      <4>1. n + 1 - (m + 1) = n - m
        BY <1>1
      <4> QED BY <3>7, <4>1 DEF Rest
    <3> QED BY <3>8
  <2> HIDE DEF T
  <2>3. \A m \in Nat : m \in T
    BY <2>1, <2>2, Induct
  <2> QED BY <2>3 DEF T
<1>5. Rest(rest, 1)
  <2>1. n + 1 - n = 1 /\ n <= n
    BY <1>1
  <2>2. \E f : Rest(f, 1)
    BY <1>1, <1>4, <2>1
  <2> HIDE DEF Rest
  <2> QED BY <2>2
<1>6. StripANSI(k, d) = rest[1]
  BY DEF StripANSI
<1> HIDE DEF rest
<1>7. \A i \in 1..n + 1 : rest[i] = Body(rest, i)
  <2> HIDE DEF Body
  <2> QED BY <1>5
<1>8. \A i \in 1..n + 1 : rest[i] = StripTurn(k, d, rest, i)
  BY <1>7 DEF StripTurn
<1> QED BY <1>6, <1>8

\* The bytes it keeps, in their order.
LEMMA StripPicks ==
  ASSUME NEW k, NEW d \in Seq(Int), Increasing(d)
  PROVE  Picks(StripANSI(k, d), d, 1)
<1> DEFINE n == Len(d)
<1>1. n \in Nat
  BY LenProperties
<1>2. \A i \in 1..n : StartsCSI(k, d, i) => SkipCSI(k, d, i + 2) \in i + 1..n + 1
  BY SkipGoesOn
<1>3. PICK rest : /\ StripANSI(k, d) = rest[1]
                  /\ \A i \in 1..n + 1 : rest[i] = StripTurn(k, d, rest, i)
  BY StripIs
<1>4. \A m \in Nat : m <= n => \A i \in n + 1 - m..n + 1 : Picks(rest[i], d, i)
  <2> DEFINE T == {m \in Nat : m <= n => \A i \in n + 1 - m..n + 1 : Picks(rest[i], d, i)}
  <2>1. 0 \in T
    <3>1. rest[n + 1] = <<>>
      <4>1. n + 1 \in 1..n + 1 /\ n + 1 > n
        BY <1>1
      <4>2. rest[n + 1] = StripTurn(k, d, rest, n + 1)
        BY <1>3, <4>1
      <4> QED BY <4>1, <4>2 DEF StripTurn
    <3>2. Picks(<<>>, d, n + 1)
      BY <1>1, EmptySeq DEF Picks, Increasing
    <3>3. \A i \in n + 1 - 0..n + 1 : i = n + 1
      BY <1>1
    <3> QED BY <3>1, <3>2, <3>3
  <2>2. ASSUME NEW m \in Nat, m \in T PROVE m + 1 \in T
    <3> SUFFICES ASSUME m + 1 <= n, NEW i \in n + 1 - (m + 1)..n + 1 PROVE Picks(rest[i], d, i)
      BY <1>1
    <3>1. \A j \in n + 1 - m..n + 1 : Picks(rest[j], d, j)
      BY <1>1, <2>2
    <3>2. CASE i \in n + 1 - m..n + 1
      BY <3>1, <3>2
    <3>3. CASE i = n - m
      <4>1. i \in 1..n /\ i + 1 = n + 1 - m /\ ~(i > n) /\ i \in 1..n + 1
        BY <1>1, <3>3
      <4>0. rest[i] = StripTurn(k, d, rest, i)
        BY <1>3, <4>1
      <4>2. CASE StartsCSI(k, d, i)
        <5> DEFINE j == SkipCSI(k, d, i + 2)
        <5>1. rest[i] = rest[j]
          BY <4>0, <4>1, <4>2 DEF StripTurn
        <5>2. j \in i + 1..n + 1
          BY <1>2, <4>1, <4>2
        <5>3. Picks(rest[j], d, j)
          BY <3>1, <4>1, <5>2
        <5> HIDE DEF j
        <5>4. Picks(rest[j], d, i)
          <6>1. Len(rest[j]) \in Nat /\ i \in Nat /\ j \in Nat /\ i < j
            BY <4>1, <5>2, <5>3, LenProperties, SMTT(30) DEF Picks
          <6>2. Len(rest[j]) <= n + 1 - i /\ \A a \in j..n : a \in i..n
            BY <1>1, <5>3, <6>1, SMTT(30) DEF Picks
          <6> QED BY <5>3, <6>2 DEF Picks
        <5> QED BY <5>1, <5>4
      <4>3. CASE ~StartsCSI(k, d, i)
        <5>1. rest[i] = <<d[i]>> \o rest[i + 1]
          BY <4>0, <4>1, <4>3 DEF StripTurn
        <5>2. Picks(rest[i + 1], d, i + 1)
          <6>1. i + 1 \in n + 1 - m..n + 1
            BY <1>1, <4>1
          <6> QED BY <3>1, <6>1
        <5> QED BY <4>1, <5>1, <5>2, PickNext
      <4> QED BY <4>2, <4>3
    <3> QED BY <1>1, <3>2, <3>3
  <2> HIDE DEF T
  <2>3. \A m \in Nat : m \in T
    BY <2>1, <2>2, Induct
  <2> QED BY <2>3 DEF T
<1>5. Picks(rest[1], d, 1)
  <2>1. n + 1 - n = 1 /\ n <= n /\ 1 \in 1..n + 1
    BY <1>1
  <2> QED BY <1>1, <1>4, <2>1
<1> QED BY <1>3, <1>5

\* What Strip passes on and what it holds back.
LEMMA StripHas ==
  ASSUME NEW k, NEW held \in Seq(Int), NEW raw \in Seq(Int), Increasing(held \o raw)
  PROVE  LET s == Strip(k, held, raw) IN
         /\ s.data \in Seq(Int) /\ Increasing(s.data) /\ Len(s.data) <= Len(held) + Len(raw)
         /\ s.pending \in Seq(Int) /\ Increasing(s.pending) /\ Len(s.pending) <= MaxPending
         /\ ToSet(s.data) \cup ToSet(s.pending) \subseteq ToSet(held \o raw)
         /\ \A b \in ToSet(s.data), c \in ToSet(s.pending) : b < c
<1> DEFINE all == held \o raw
           n == Len(all)
           cut == unfinishedEscape(k, all)
           front == SubSeq(all, 1, cut - 1)
           end == SubSeq(all, cut, n)
           data == StripANSI(k, front)
           left == IF Len(end) <= MaxPending THEN end ELSE <<>>
<1>1. all \in Seq(Int) /\ n \in Nat /\ n = Len(held) + Len(raw) /\ MaxPending \in Nat
  BY ConcatProperties, LenProperties, CaptureConstants
<1>2. Strip(k, held, raw) = [pending |-> left, data |-> data]
  BY DEF Strip
<1>3. cut \in 1..n + 1
  <2> DEFINE Open(i) == /\ k[all[i]] = "esc"
                        /\ i = n \/ k[all[i + 1]] = "["
                        /\ \A j \in i + 2..n : k[all[j]] = "param"
             at == {i \in 1..n : n - i + 1 <= MaxPending + 1 /\ Open(i)}
  <2>1. cut = IF at = {} THEN n + 1 ELSE CHOOSE i \in at : TRUE
    BY DEF unfinishedEscape
  <2>2. at \subseteq 1..n
    OBVIOUS
  <2>3. at # {} => (CHOOSE i \in at : TRUE) \in 1..n
    <3> HIDE DEF at, n
    <3> QED BY <2>2
  <2> HIDE DEF at, cut, n
  <2>4. n + 1 \in 1..n + 1 /\ 1..n \subseteq 1..n + 1
    BY <1>1
  <2> QED BY <2>1, <2>3, <2>4
<1>4. Increasing(all)
  OBVIOUS
<1> HIDE DEF all, n, cut
<1>0. n \in Nat /\ cut \in Nat /\ 1 <= cut /\ cut <= n + 1
  BY <1>1, <1>3
<1>5. \A i \in 1..n : all[i] \in Int
  BY <1>1, ElementOfSeq DEF n
<1>6. /\ front \in Seq(Int) /\ Len(front) = cut - 1
      /\ \A i \in 1..cut - 1 : front[i] = all[i]
  <2>1. cut \in Nat /\ cut - 1 \in Nat /\ \A i \in 1..cut - 1 : all[i] \in Int
    BY <1>1, <1>3, <1>5
  <2> QED BY <2>1, SubSeqProperties
<1>7. /\ end \in Seq(Int) /\ Len(end) = n + 1 - cut
      /\ \A i \in 1..n + 1 - cut : end[i] = all[cut + i - 1]
  <2>1. cut \in Int /\ n \in Int /\ \A i \in cut..n : all[i] \in Int
    BY <1>1, <1>3, <1>5
  <2>2. /\ end \in Seq(Int) /\ Len(end) = IF cut <= n THEN n - cut + 1 ELSE 0
        /\ \A i \in 1..n - cut + 1 : end[i] = all[cut + i - 1]
    BY <2>1, SubSeqProperties
  <2>3. n - cut + 1 = n + 1 - cut /\ (~(cut <= n) => n + 1 - cut = 0)
    BY <1>0
  <2> HIDE DEF end
  <2> QED BY <2>2, <2>3
<1> HIDE DEF front, end
<1>8. Increasing(front)
  <2> SUFFICES ASSUME NEW i \in 1..cut - 1, NEW j \in 1..cut - 1, i < j PROVE front[i] < front[j]
    BY <1>6 DEF Increasing
  <2>1. i \in 1..n /\ j \in 1..n
    BY <1>0
  <2> QED BY <1>4, <1>6, <2>1 DEF Increasing, n
<1>9. Picks(data, front, 1)
  BY <1>6, <1>8, StripPicks
<1>10. /\ left \in Seq(Int) /\ Len(left) <= MaxPending /\ Len(left) \in Nat /\ Len(left) <= n + 1 - cut
       /\ \A i \in 1..Len(left) : left[i] = all[cut + i - 1]
  BY <1>1, <1>3, <1>7, EmptySeq, LenProperties
<1> HIDE DEF data, left
<1>11. data \in Seq(Int) /\ Increasing(data) /\ Len(data) \in Nat /\ Len(data) <= cut - 1
  <2>1. data \in Seq(Int) /\ Increasing(data) /\ Len(data) <= (cut - 1) + 1 - 1
    BY <1>6, <1>9 DEF Picks
  <2>2. (cut - 1) + 1 - 1 = cut - 1
    BY <1>3
  <2> QED BY <2>1, <2>2, LenProperties
<1>12. \A b \in ToSet(data) : \E j \in 1..cut - 1 : b = all[j]
  <2>1. \A m \in 1..Len(data) : \E j \in 1..cut - 1 : data[m] = all[j]
    BY <1>6, <1>9 DEF Picks
  <2> QED BY <1>11, <2>1, LenProperties DEF ToSet
<1>13. \A c \in ToSet(left) : \E j \in cut..n : c = all[j]
  <2>1. \A i \in 1..Len(left) : cut + i - 1 \in cut..n
    BY <1>1, <1>3, <1>10
  <2> QED BY <1>10, <2>1, LenProperties DEF ToSet
<1>14. ToSet(all) = {all[j] : j \in 1..n}
  BY <1>1, LenProperties DEF ToSet, n
<1>15. Increasing(left)
  <2> SUFFICES ASSUME NEW i \in 1..Len(left), NEW j \in 1..Len(left), i < j PROVE left[i] < left[j]
    BY DEF Increasing
  <2>1. cut + i - 1 \in 1..n /\ cut + j - 1 \in 1..n /\ cut + i - 1 < cut + j - 1
    BY <1>1, <1>3, <1>10, SMTT(30)
  <2> QED BY <1>4, <1>10, <2>1 DEF Increasing, n
<1>16. \A b \in ToSet(data), c \in ToSet(left) : b < c
  <2> SUFFICES ASSUME NEW b \in ToSet(data), NEW c \in ToSet(left) PROVE b < c
    OBVIOUS
  <2>1. PICK i \in 1..cut - 1 : b = all[i]
    BY <1>12
  <2>2. PICK j \in cut..n : c = all[j]
    BY <1>13
  <2>3. i \in 1..n /\ j \in 1..n /\ i < j
    BY <1>1, <1>3
  <2> QED BY <1>4, <2>1, <2>2, <2>3 DEF Increasing, n
<1>17. ToSet(data) \cup ToSet(left) \subseteq ToSet(all)
  <2>1. \A j \in 1..cut - 1 : j \in 1..n
    BY <1>1, <1>3
  <2>2. \A j \in cut..n : j \in 1..n
    BY <1>1, <1>3
  <2> QED BY <1>12, <1>13, <1>14, <2>1, <2>2
<1>18. Len(data) <= Len(held) + Len(raw)
  BY <1>1, <1>3, <1>11
<1> QED BY <1>2, <1>10, <1>11, <1>15, <1>16, <1>17, <1>18 DEF all

-----------------------------------------------------------------------------
(***************************************************************************)
(* Rotation.                                                               *)
(***************************************************************************)
Files == [0..MaxBackups -> Seq(Int)]

-----------------------------------------------------------------------------
(***************************************************************************)
(* The log file and its backups as the last part of what was written.      *)
(***************************************************************************)
BytesIn(d) == UNION {ToSet(d[i]) : i \in 0..MaxBackups}

\* LogIsSuffix of the files d, the bytes m that were moved away, all bytes w and what
\* failed f.
Suffix(d, m, w, f) ==
  /\ \A i \in 0..MaxBackups : Increasing(d[i])
  /\ \A i, j \in 0..MaxBackups : i < j => \A b \in ToSet(d[j]), c \in ToSet(d[i]) : b < c
  /\ BytesIn(d) \subseteq w \ m
  /\ "backup" \notin f => \A b \in BytesIn(d), c \in w : b < c => c \in BytesIn(d) \cup m

\* Bytes that come after all of those in w, in their order.
Fresh(bytes, w) ==
  /\ bytes \in Seq(Int) /\ Increasing(bytes)
  /\ \A b \in ToSet(bytes), c \in w : c < b

\* What a sequence has after others were added to its end.
LEMMA ConcatHas ==
  ASSUME NEW a \in Seq(Int), NEW b \in Seq(Int)
  PROVE  /\ a \o b \in Seq(Int) /\ ToSet(a \o b) = ToSet(a) \cup ToSet(b)
         /\ /\ Increasing(a) /\ Increasing(b)
            /\ \A x \in ToSet(a), y \in ToSet(b) : x < y
            => Increasing(a \o b)
<1> DEFINE t == a \o b
<1>1. Len(a) \in Nat /\ Len(b) \in Nat /\ DOMAIN a = 1..Len(a) /\ DOMAIN b = 1..Len(b)
  BY LenProperties
<1>2. /\ t \in Seq(Int) /\ Len(t) = Len(a) + Len(b)
      /\ \A i \in 1..Len(a) + Len(b) : t[i] = IF i <= Len(a) THEN a[i] ELSE b[i - Len(a)]
  BY ConcatProperties
<1> HIDE DEF t
<1>3. DOMAIN t = 1..Len(a) + Len(b)
  BY <1>2, LenProperties
<1>4. ASSUME NEW i \in 1..Len(a) + Len(b)
      PROVE  \/ i \in 1..Len(a) /\ t[i] = a[i]
             \/ i > Len(a) /\ i - Len(a) \in 1..Len(b) /\ t[i] = b[i - Len(a)]
  BY <1>1, <1>2
<1>5. /\ \A i \in 1..Len(a) : i \in 1..Len(a) + Len(b) /\ t[i] = a[i]
      /\ \A i \in 1..Len(b) : Len(a) + i \in 1..Len(a) + Len(b) /\ t[Len(a) + i] = b[i]
  <2>1. ASSUME NEW i \in 1..Len(a) PROVE i \in 1..Len(a) + Len(b) /\ t[i] = a[i]
    BY <1>1, <1>2
  <2>2. ASSUME NEW i \in 1..Len(b) PROVE Len(a) + i \in 1..Len(a) + Len(b) /\ t[Len(a) + i] = b[i]
    <3>1. /\ Len(a) + i \in 1..Len(a) + Len(b) /\ ~(Len(a) + i <= Len(a))
          /\ Len(a) + i - Len(a) = i
      BY <1>1
    <3> QED BY <1>2, <3>1, SMTT(30)
  <2> QED BY <2>1, <2>2
<1>6. ToSet(t) = ToSet(a) \cup ToSet(b)
  <2>1. \A x \in ToSet(t) : x \in ToSet(a) \cup ToSet(b)
    BY <1>1, <1>3, <1>4 DEF ToSet
  <2>2. \A x \in ToSet(a) \cup ToSet(b) : x \in ToSet(t)
    BY <1>1, <1>3, <1>5 DEF ToSet
  <2> QED BY <2>1, <2>2
<1>7. ASSUME Increasing(a), Increasing(b), \A x \in ToSet(a), y \in ToSet(b) : x < y
      PROVE  Increasing(t)
  <2> SUFFICES ASSUME NEW i \in 1..Len(a) + Len(b), NEW j \in 1..Len(a) + Len(b), i < j
      PROVE  t[i] < t[j]
    BY <1>2 DEF Increasing
  <2>1. CASE j \in 1..Len(a)
    <3>1. i \in 1..Len(a)
      BY <1>1, <2>1
    <3> QED BY <1>5, <1>7, <2>1, <3>1 DEF Increasing
  <2>2. CASE i \in 1..Len(a) /\ j > Len(a)
    <3>1. t[i] = a[i] /\ t[i] \in ToSet(a)
      BY <1>1, <1>5, <2>2 DEF ToSet
    <3>2. j - Len(a) \in 1..Len(b) /\ t[j] = b[j - Len(a)]
      BY <1>1, <1>4, <2>2, SMTT(30)
    <3>3. t[j] \in ToSet(b)
      BY <1>1, <3>2 DEF ToSet
    <3> QED BY <1>7, <3>1, <3>3
  <2>3. CASE i > Len(a)
    <3>1. /\ i - Len(a) \in 1..Len(b) /\ j - Len(a) \in 1..Len(b) /\ i - Len(a) < j - Len(a)
          /\ t[i] = b[i - Len(a)] /\ t[j] = b[j - Len(a)]
      <4>1. j > Len(a) /\ i - Len(a) < j - Len(a)
        BY <1>1, <2>3
      <4>2. i - Len(a) \in 1..Len(b) /\ t[i] = b[i - Len(a)]
        <5>1. i - Len(a) \in 1..Len(b) /\ ~(i <= Len(a))
          BY <1>1, <2>3
        <5> QED BY <1>4, <2>3, <5>1
      <4>3. j - Len(a) \in 1..Len(b) /\ t[j] = b[j - Len(a)]
        BY <1>1, <1>4, <4>1
      <4> QED BY <4>1, <4>2, <4>3
    <3> QED BY <1>7, <3>1 DEF Increasing
  <2> QED BY <1>1, <2>1, <2>2, <2>3
<1> QED BY <1>2, <1>6, <1>7 DEF t

\* Bytes of files are bytes of one of them.
LEMMA InOneFile ==
  ASSUME NEW d
  PROVE  \A b : b \in BytesIn(d) <=> \E i \in 0..MaxBackups : b \in ToSet(d[i])
BY DEF BytesIn

\* Without a log file and backups there is nothing to lose.
LEMMA NoFiles ==
  ASSUME NEW d, NEW m, NEW w, NEW f, \A i \in 0..MaxBackups : d[i] = <<>>
  PROVE  Suffix(d, m, w, f)
<1>1. ToSet(<<>>) = {} /\ Increasing(<<>>)
  BY DEF ToSet, Increasing
<1>2. BytesIn(d) = {}
  BY <1>1 DEF BytesIn
<1> QED BY <1>1, <1>2 DEF Suffix

\* What is written goes to the end of the log file.
LEMMA AppendToFile ==
  ASSUME NEW d \in Files, NEW w \in SUBSET Int, NEW m \in SUBSET w, NEW f,
         Suffix(d, m, w, f), NEW put, Fresh(put, w)
  PROVE  Suffix([d EXCEPT ![0] = d[0] \o put], m, w \cup ToSet(put), f)
<1> DEFINE e == [d EXCEPT ![0] = d[0] \o put]
<1>1. 0 \in 0..MaxBackups /\ MaxBackups \in Nat
  BY CaptureConstants
<1>2. e[0] = d[0] \o put /\ \A i \in 0..MaxBackups : i # 0 => e[i] = d[i]
  BY <1>1 DEF Files
<1>3. d[0] \in Seq(Int) /\ put \in Seq(Int)
  BY <1>1 DEF Files, Fresh
<1> HIDE DEF e
<1>4. ToSet(e[0]) = ToSet(d[0]) \cup ToSet(put)
  BY <1>2, <1>3, ConcatHas
<1>5. \A x \in ToSet(d[0]) : x \in w
  BY <1>1 DEF Suffix, BytesIn
<1>6. Increasing(e[0])
  BY <1>1, <1>2, <1>3, <1>5, ConcatHas DEF Suffix, Fresh
<1>7. \A b : b \in BytesIn(e) <=> b \in BytesIn(d) \cup ToSet(put)
  BY <1>1, <1>2, <1>4, InOneFile
<1>8. \A i, j \in 0..MaxBackups : i < j => \A b \in ToSet(e[j]), c \in ToSet(e[i]) : b < c
  <2> SUFFICES ASSUME NEW i \in 0..MaxBackups, NEW j \in 0..MaxBackups, i < j,
                      NEW b \in ToSet(e[j]), NEW c \in ToSet(e[i])
      PROVE  b < c
    OBVIOUS
  <2>1. j # 0 /\ b \in ToSet(d[j])
    BY <1>1, <1>2
  <2>2. b \in w
    BY <2>1 DEF Suffix, BytesIn
  <2>3. CASE c \in ToSet(d[i])
    BY <2>1, <2>3 DEF Suffix
  <2>4. CASE c \in ToSet(put)
    BY <2>2, <2>4 DEF Fresh
  <2> QED BY <1>2, <1>4, <2>3, <2>4
<1>9. \A x \in ToSet(put) : x \notin w
  <2> SUFFICES ASSUME NEW x \in ToSet(put), x \in w PROVE FALSE
    OBVIOUS
  <2>1. x < x /\ x \in Int
    BY DEF Fresh
  <2> QED BY <2>1
<1>10. BytesIn(e) \subseteq (w \cup ToSet(put)) \ m
  BY <1>7, <1>9 DEF Suffix
<1>11. ASSUME "backup" \notin f
       PROVE  \A b \in BytesIn(e), c \in w \cup ToSet(put) : b < c => c \in BytesIn(e) \cup m
  <2> SUFFICES ASSUME NEW b \in BytesIn(e), NEW c \in w, b < c PROVE c \in BytesIn(e) \cup m
    BY <1>7
  <2>1. CASE b \in BytesIn(d)
    BY <1>7, <1>11, <2>1 DEF Suffix
  <2>2. CASE b \in ToSet(put)
    <3>1. c < b /\ b \in Int /\ c \in Int
      <4>1. \A i \in 1..Len(put) : put[i] \in Int
        BY <1>3, ElementOfSeq
      <4> QED BY <1>3, <2>2, <4>1, LenProperties DEF Fresh, ToSet
    <3> QED BY <3>1
  <2> QED BY <1>7, <2>1, <2>2
<1> QED BY <1>2, <1>6, <1>8, <1>10, <1>11 DEF Suffix, e

\* What is written to a file that was moved away comes after all that is left.
LEMMA AppendToMoved ==
  ASSUME NEW d \in Files, NEW w \in SUBSET Int, NEW m \in SUBSET w, NEW f,
         Suffix(d, m, w, f), NEW put, Fresh(put, w)
  PROVE  Suffix(d, m \cup ToSet(put), w \cup ToSet(put), f)
<1>1. \A x \in ToSet(put) : x \notin w
  <2> SUFFICES ASSUME NEW x \in ToSet(put), x \in w PROVE FALSE
    OBVIOUS
  <2>1. x < x /\ x \in Int
    BY DEF Fresh
  <2> QED BY <2>1
<1> QED BY <1>1 DEF Suffix

\* A log file that is moved away was the newest of the files.
LEMMA MoveFile ==
  ASSUME NEW d \in Files, NEW w \in SUBSET Int, NEW m \in SUBSET w, NEW f,
         Suffix(d, m, w, f)
  PROVE  Suffix([d EXCEPT ![0] = <<>>], m \cup ToSet(d[0]), w, f)
<1> DEFINE e == [d EXCEPT ![0] = <<>>]
<1>1. 0 \in 0..MaxBackups /\ MaxBackups \in Nat
  BY CaptureConstants
<1>2. e[0] = <<>> /\ \A i \in 0..MaxBackups : i # 0 => e[i] = d[i]
  BY <1>1 DEF Files
<1>3. ToSet(<<>>) = {} /\ Increasing(<<>>)
  BY DEF ToSet, Increasing
<1> HIDE DEF e
<1>4. \A b : b \in BytesIn(d) <=> b \in BytesIn(e) \cup ToSet(d[0])
  BY <1>1, <1>2, <1>3, InOneFile
<1>5. \A i \in 0..MaxBackups : Increasing(e[i])
  BY <1>2, <1>3 DEF Suffix
<1>6. \A i, j \in 0..MaxBackups : i < j => \A b \in ToSet(e[j]), c \in ToSet(e[i]) : b < c
  BY <1>2, <1>3 DEF Suffix
<1>7. \A b \in BytesIn(e) : b \notin ToSet(d[0])
  <2> SUFFICES ASSUME NEW b \in BytesIn(e), b \in ToSet(d[0]) PROVE FALSE
    OBVIOUS
  <2>1. PICK i \in 0..MaxBackups : b \in ToSet(e[i])
    BY InOneFile
  <2>2. i # 0 /\ b \in ToSet(d[i]) /\ 0 < i
    BY <1>1, <1>2, <1>3, <2>1
  <2>3. b < b
    BY <1>1, <2>1, <2>2 DEF Suffix
  <2>4. b \in Int
    BY <1>4 DEF Suffix
  <2> QED BY <2>3, <2>4
<1>8. BytesIn(e) \subseteq w \ (m \cup ToSet(d[0]))
  BY <1>4, <1>7 DEF Suffix
<1>9. "backup" \notin f =>
        \A b \in BytesIn(e), c \in w : b < c => c \in BytesIn(e) \cup (m \cup ToSet(d[0]))
  BY <1>4 DEF Suffix
<1> QED BY <1>5, <1>6, <1>8, <1>9 DEF Suffix, e

\* The oldest file is removed.
LEMMA RemoveOldest ==
  ASSUME NEW d \in Files, NEW w \in SUBSET Int, NEW m \in SUBSET w, NEW f,
         Suffix(d, m, w, f),
         NEW n \in 1..MaxBackups, \A i \in 0..MaxBackups : i > n => d[i] = <<>>,
         NEW e \in Files, e[n] = <<>>, \A i \in 0..MaxBackups : i # n => e[i] = d[i]
  PROVE  /\ Suffix(e, m, w, f)
         /\ \A i \in 0..MaxBackups : i > n => e[i] = <<>>
         /\ \A i \in 0..MaxBackups : e[i] = d[i] \/ e[i] = <<>>
         /\ e[0] = d[0]
<1>1. /\ MaxBackups \in Nat /\ n \in Nat /\ 1 <= n /\ n <= MaxBackups /\ 0 \in 0..MaxBackups
      /\ n \in 0..MaxBackups /\ n # 0
  BY CaptureConstants
<1>2. ToSet(<<>>) = {} /\ Increasing(<<>>) /\ <<>> \in Seq(Int)
  BY DEF ToSet, Increasing
<1>3. e \in Files /\ e[n] = <<>> /\ \A i \in 0..MaxBackups : i # n => e[i] = d[i]
  OBVIOUS
<1>4. \A i \in 0..MaxBackups : i > n => e[i] = <<>>
  BY <1>1, <1>3
<1>5. \A i \in 0..MaxBackups : e[i] = d[i] \/ e[i] = <<>>
  BY <1>3
<1>6. \A b \in BytesIn(e) : b \in BytesIn(d)
  BY <1>2, <1>5, InOneFile
<1>7. /\ \A i \in 0..MaxBackups : Increasing(e[i])
      /\ \A i, j \in 0..MaxBackups : i < j => \A b \in ToSet(e[j]), c \in ToSet(e[i]) : b < c
  BY <1>2, <1>5 DEF Suffix
<1>8. ASSUME "backup" \notin f, NEW b \in BytesIn(e), NEW c \in w, b < c, c \notin m
      PROVE  c \in BytesIn(e)
  <2>1. c \in BytesIn(d) /\ b \in Int /\ c \in Int
    BY <1>6, <1>8 DEF Suffix
  <2>2. PICK j \in 0..MaxBackups : c \in ToSet(d[j])
    BY <2>1, InOneFile
  <2>3. ASSUME j = n PROVE FALSE
    <3>1. PICK i \in 0..MaxBackups : b \in ToSet(e[i])
      BY InOneFile
    <3>2. i # n /\ ~(i > n) /\ b \in ToSet(d[i])
      BY <1>2, <1>3, <1>4, <3>1
    <3>3. i < n
      BY <1>1, <3>2
    <3>4. c < b
      BY <1>1, <2>2, <2>3, <3>2, <3>3 DEF Suffix
    <3> QED BY <1>8, <2>1, <3>4
  <2> QED BY <1>3, <2>2, <2>3, InOneFile
<1>9. Suffix(e, m, w, f)
  BY <1>6, <1>7, <1>8 DEF Suffix
<1> QED BY <1>1, <1>3, <1>4, <1>5, <1>9

\* One file gets the next number: that makes a hole only if it replaces one that is not the
\* oldest.
LEMMA RenameFile ==
  ASSUME NEW d \in Files, NEW w \in SUBSET Int, NEW m \in SUBSET w, NEW f, NEW g,
         Suffix(d, m, w, f),
         NEW n \in 1..MaxBackups, \A i \in 0..MaxBackups : i > n => d[i] = <<>>,
         NEW k \in 0..n - 1,
         "backup" \notin g => "backup" \notin f /\ (k + 1 = n \/ d[k + 1] = <<>>)
  PROVE  LET e == Rename(d, k, k + 1) IN
         /\ e \in Files /\ Suffix(e, m, w, g)
         /\ \A i \in 0..MaxBackups : i > n => e[i] = <<>>
         /\ e[k] = <<>> /\ e[k + 1] \in {d[k], d[k + 1]}
         /\ \A i \in 0..MaxBackups : i # k /\ i # k + 1 => e[i] = d[i]
<1> DEFINE e == Rename(d, k, k + 1)
<1>1. /\ MaxBackups \in Nat /\ n \in Nat /\ 1 <= n /\ n <= MaxBackups /\ 0 \in 0..MaxBackups
      /\ k \in Nat /\ k < n /\ k \in 0..MaxBackups /\ k + 1 \in 0..MaxBackups /\ k # k + 1
      /\ k < k + 1
  BY CaptureConstants
<1>2. ToSet(<<>>) = {} /\ Increasing(<<>>) /\ <<>> \in Seq(Int)
  BY DEF ToSet, Increasing
<1>3. CASE d[k] = <<>>
  <2>1. Rename(d, k, k + 1) = d
    BY <1>3 DEF Rename
  <2>2. Suffix(d, m, w, g)
    BY DEF Suffix
  <2> QED BY <1>3, <2>1, <2>2
<1>4. CASE d[k] # <<>>
  <2>1. /\ e \in Files /\ e[k] = <<>> /\ e[k + 1] = d[k]
        /\ \A i \in 0..MaxBackups : i # k /\ i # k + 1 => e[i] = d[i]
    BY <1>1, <1>2, <1>4 DEF Rename, Files
  <2> HIDE DEF e
  <2>2. \A i \in 0..MaxBackups : i > n => e[i] = <<>>
    BY <1>1, <2>1
  <2> DEFINE from(i) == IF i = k + 1 THEN k ELSE i
  <2>3. \A i \in 0..MaxBackups : e[i] = <<>> \/ (i # k /\ from(i) \in 0..MaxBackups /\ e[i] = d[from(i)])
    BY <1>1, <2>1
  <2>4. \A i, j \in 0..MaxBackups : i < j /\ i # k /\ j # k => from(i) < from(j)
    BY <1>1
  <2> HIDE DEF from
  <2>5. \A i \in 0..MaxBackups : Increasing(e[i])
    BY <1>2, <2>3 DEF Suffix
  <2>6. \A i, j \in 0..MaxBackups : i < j => \A b \in ToSet(e[j]), c \in ToSet(e[i]) : b < c
    <3> SUFFICES ASSUME NEW i \in 0..MaxBackups, NEW j \in 0..MaxBackups, i < j,
                        NEW b \in ToSet(e[j]), NEW c \in ToSet(e[i])
        PROVE  b < c
      OBVIOUS
    <3>1. /\ i # k /\ j # k /\ from(i) \in 0..MaxBackups /\ from(j) \in 0..MaxBackups
          /\ b \in ToSet(d[from(j)]) /\ c \in ToSet(d[from(i)])
      BY <1>2, <2>3
    <3>2. from(i) < from(j)
      BY <2>4, <3>1
    <3> QED BY <3>1, <3>2 DEF Suffix
  <2>7. \A b \in BytesIn(e) : b \in BytesIn(d)
    BY <1>2, <2>3, InOneFile
  <2>8. ASSUME "backup" \notin g, NEW b \in BytesIn(e), NEW c \in w, b < c, c \notin m
        PROVE  c \in BytesIn(e)
    <3>1. c \in BytesIn(d) /\ b \in Int /\ c \in Int
      BY <2>7, <2>8 DEF Suffix
    <3>2. PICK j \in 0..MaxBackups : c \in ToSet(d[j])
      BY <3>1, InOneFile
    <3>3. CASE j # k + 1
      <4>1. CASE j = k
        BY <1>1, <2>1, <3>2, <4>1, InOneFile
      <4>2. CASE j # k
        BY <2>1, <3>2, <3>3, <4>2, InOneFile
      <4> QED BY <4>1, <4>2
    <3>4. CASE j = k + 1
      <4>1. k + 1 = n
        BY <1>2, <2>8, <3>2, <3>4
      <4>2. PICK i \in 0..MaxBackups : b \in ToSet(e[i])
        BY InOneFile
      <4>3. i # k /\ from(i) \in 0..MaxBackups /\ b \in ToSet(d[from(i)]) /\ ~(i > n)
        BY <1>2, <2>2, <2>3, <4>2
      <4>4. from(i) < n
        BY <1>1, <4>1, <4>3 DEF from
      <4>5. c < b
        BY <1>1, <3>2, <3>4, <4>1, <4>3, <4>4 DEF Suffix
      <4> QED BY <2>8, <3>1, <4>5
    <3> QED BY <3>3, <3>4
  <2>9. Suffix(e, m, w, g)
    BY <2>5, <2>6, <2>7, <2>8 DEF Suffix
  <2> QED BY <2>1, <2>2, <2>9 DEF e
<1> QED BY <1>3, <1>4

\* A rotation, whichever of its calls fail: it changes no order, loses nothing but the
\* oldest file unless a backup is replaced, and makes no file longer.
LEMMA RotateFiles ==
  ASSUME NEW d \in Files, NEW w \in SUBSET Int, NEW m \in SUBSET w, NEW f,
         Suffix(d, m, w, f),
         NEW n \in 1..MaxBackups, \A i \in 0..MaxBackups : i > n => d[i] = <<>>,
         NEW ok \in [0..n -> BOOLEAN]
  PROVE  LET e == rotateFile(d, n, ok) IN
         /\ e \in Files
         /\ Suffix(e, m, w, f \cup (IF Replaces(ok, n) THEN {"backup"} ELSE {}))
         /\ \A i \in 0..MaxBackups : i > n => e[i] = <<>>
         /\ \A i \in 0..MaxBackups : e[i] = <<>> \/ \E j \in 0..MaxBackups : e[i] = d[j]
         /\ ok[0] => e[0] = <<>>
<1> DEFINE Removed == IF ok[n] THEN [d EXCEPT ![n] = <<>>] ELSE d
           Turn(h, i) == IF i = n THEN IF ok[i] THEN [d EXCEPT ![i] = <<>>] ELSE d
                         ELSE IF ok[i] THEN Rename(h[i + 1], i, i + 1) ELSE h[i + 1]
           Is(h, k) == h = [i \in k..n |-> Turn(h, i)]
           shifted == CHOOSE h : Is(h, 0)
           g == f \cup (IF Replaces(ok, n) THEN {"backup"} ELSE {})
           Good(e, i) ==
             /\ e \in Files /\ Suffix(e, m, w, g)
             /\ \A j \in 0..MaxBackups : j > n => e[j] = <<>>
             /\ \A j \in 0..MaxBackups : e[j] = <<>> \/ \E l \in 0..MaxBackups : e[j] = d[l]
             /\ i # n /\ ok[i] => e[i] = <<>>
<1>1. MaxBackups \in Nat /\ n \in Nat /\ 1 <= n /\ n <= MaxBackups
  BY CaptureConstants
<1>2. \A q \in Nat : q <= n => \E h : Is(h, n - q)
  <2> DEFINE T == {q \in Nat : q <= n => \E h : Is(h, n - q)}
  <2>1. 0 \in T
    <3> DEFINE h == [i \in n..n |-> Removed]
    <3>1. \A i \in n..n : h[i] = Turn(h, i)
      BY <1>1
    <3>2. n - 0 = n /\ h = [i \in n..n |-> h[i]]
      BY <1>1
    <3>3. Is(h, n - 0)
      <4> HIDE DEF h, Turn
      <4> QED BY <3>1, <3>2
    <3> HIDE DEF h, Is
    <3> QED BY <3>3
  <2>2. ASSUME NEW q \in Nat, q \in T PROVE q + 1 \in T
    <3> SUFFICES ASSUME q + 1 <= n PROVE \E h : Is(h, n - (q + 1))
      OBVIOUS
    <3> DEFINE k == n - (q + 1)
    <3>1. k \in Nat /\ k + 1 = n - q /\ k < n /\ q <= n
      BY <1>1
    <3> HIDE DEF k
    <3>2. PICK h : Is(h, k + 1)
      BY <2>2, <3>1
    <3> DEFINE e == [i \in k..n |-> IF i = k THEN Turn(h, k) ELSE h[i]]
    <3>3. /\ \A i \in k..n : i = k \/ i \in k + 1..n
          /\ \A i \in k..n : i # n => i + 1 \in k + 1..n
          /\ \A i \in k + 1..n : i \in k..n /\ i # k
          /\ k \in k..n /\ k # n
      BY <1>1, <3>1
    <3>4. \A i \in k + 1..n : e[i] = h[i]
      BY <3>3
    <3>5. \A i \in k..n : Turn(e, i) = Turn(h, i)
      <4> HIDE DEF e
      <4> QED BY <3>3, <3>4
    <3>6. \A i \in k + 1..n : h[i] = Turn(h, i)
      <4> HIDE DEF Turn
      <4> QED BY <3>2
    <3>7. \A i \in k..n : e[i] = Turn(e, i)
      <4> HIDE DEF Turn
      <4> QED BY <3>3, <3>5, <3>6
    <3>8. e = [i \in k..n |-> e[i]]
      OBVIOUS
    <3>9. Is(e, k)
      <4> HIDE DEF e, Turn
      <4> QED BY <3>7, <3>8
    <3> HIDE DEF Is, e
    <3> QED BY <3>9 DEF k
  <2> HIDE DEF T
  <2>3. \A q \in Nat : q \in T
    BY <2>1, <2>2, Induct
  <2> QED BY <2>3 DEF T
<1>3. Is(shifted, 0)
  <2>1. \E h : Is(h, 0)
    <3> HIDE DEF Is
    <3>1. n <= n /\ n - n = 0
      BY <1>1
    <3> QED BY <1>1, <1>2, <3>1
  <2> HIDE DEF Is
  <2> QED BY <2>1
<1>4. rotateFile(d, n, ok) = shifted[0]
  BY DEF rotateFile
<1>5. \A i \in 0..n : shifted[i] = Turn(shifted, i)
  <2> HIDE DEF Turn, shifted
  <2> QED BY <1>3
<1> HIDE DEF shifted
<1>6. \A i \in 0..n : ok[i] \in BOOLEAN
  OBVIOUS
<1>7. Good(shifted[n], n)
  <2>1. n \in 0..n /\ Suffix(d, m, w, g)
    <3>1. "backup" \notin g => "backup" \notin f
      OBVIOUS
    <3> HIDE DEF g
    <3>2. Suffix(d, m, w, g)
      BY <3>1 DEF Suffix
    <3> QED BY <1>1, <3>2
  <2>2. shifted[n] = IF ok[n] THEN [d EXCEPT ![n] = <<>>] ELSE d
    BY <1>5, <2>1
  <2>3. CASE ok[n]
    <3> DEFINE e == [d EXCEPT ![n] = <<>>]
    <3>1. /\ e \in Files /\ Suffix(e, m, w, g)
          /\ \A i \in 0..MaxBackups : i > n => e[i] = <<>>
          /\ \A i \in 0..MaxBackups : e[i] = d[i] \/ e[i] = <<>>
      <4>1. \A i \in 0..MaxBackups : i > n => d[i] = <<>>
        OBVIOUS
      <4>2. e \in Files /\ e[n] = <<>> /\ \A i \in 0..MaxBackups : i # n => e[i] = d[i]
        <5>1. <<>> \in Seq(Int) /\ n \in 0..MaxBackups
          BY <1>1
        <5> QED BY <5>1 DEF Files
      <4> HIDE DEF g, e
      <4> QED BY <2>1, <4>1, <4>2, RemoveOldest
    <3>2. shifted[n] = e
      BY <2>2, <2>3
    <3> HIDE DEF e
    <3> HIDE DEF g
    <3> QED BY <3>1, <3>2
  <2>4. CASE ~ok[n]
    <3> HIDE DEF g
    <3> QED BY <2>1, <2>2, <2>4
  <2> QED BY <1>6, <2>3, <2>4
<1>8. ASSUME NEW i \in 0..n - 1, Good(shifted[i + 1], i + 1)
      PROVE  Good(shifted[i], i)
  <2>1. /\ i \in Nat /\ i + 1 \in 0..n /\ i \in 0..n /\ i # n /\ i < n
        /\ i \in 0..MaxBackups /\ i + 1 \in 0..MaxBackups
    BY <1>1
  <2> DEFINE s == shifted[i + 1]
  <2>2. shifted[i] = IF ok[i] THEN Rename(s, i, i + 1) ELSE s
    BY <1>5, <2>1
  <2>3. /\ s \in Files /\ Suffix(s, m, w, g)
        /\ \A j \in 0..MaxBackups : j > n => s[j] = <<>>
        /\ \A j \in 0..MaxBackups : s[j] = <<>> \/ \E l \in 0..MaxBackups : s[j] = d[l]
        /\ i + 1 # n /\ ok[i + 1] => s[i + 1] = <<>>
    BY <1>8
  <2> HIDE DEF s
  <2>4. CASE ok[i]
    <3>1. "backup" \notin g => i + 1 = n \/ s[i + 1] = <<>>
      <4> SUFFICES ASSUME "backup" \notin g, i + 1 # n PROVE s[i + 1] = <<>>
        OBVIOUS
      <4>1. ~Replaces(ok, n)
        OBVIOUS
      <4>2. i + 1 \in 1..n - 1 /\ (i + 1) - 1 = i
        BY <1>1, <2>1
      <4>3. ok[i + 1]
        BY <2>4, <4>1, <4>2 DEF Replaces
      <4> QED BY <2>3, <4>3
    <3> DEFINE e == Rename(s, i, i + 1)
    <3>2. /\ e \in Files /\ Suffix(e, m, w, g)
          /\ \A j \in 0..MaxBackups : j > n => e[j] = <<>>
          /\ e[i] = <<>> /\ e[i + 1] \in {s[i], s[i + 1]}
          /\ \A j \in 0..MaxBackups : j # i /\ j # i + 1 => e[j] = s[j]
      <4> HIDE DEF g
      <4>1. "backup" \notin g => "backup" \notin g /\ (i + 1 = n \/ s[i + 1] = <<>>)
        BY <3>1
      <4>2. s \in Files /\ Suffix(s, m, w, g) /\ \A j \in 0..MaxBackups : j > n => s[j] = <<>>
        BY <2>3
      <4> QED BY <4>1, <4>2, RenameFile, SMTT(60)
    <3> HIDE DEF e, g
    <3>3. \A j \in 0..MaxBackups : e[j] = <<>> \/ \E l \in 0..MaxBackups : e[j] = d[l]
      <4> TAKE j \in 0..MaxBackups
      <4>1. e[j] = <<>> \/ \E l \in 0..MaxBackups : e[j] = s[l]
        BY <2>1, <3>2
      <4> QED BY <2>3, <4>1
    <3>4. shifted[i] = e
      BY <2>2, <2>4 DEF e
    <3> QED BY <3>2, <3>3, <3>4
  <2>5. CASE ~ok[i]
    <3>1. shifted[i] = s
      BY <2>2, <2>5
    <3> HIDE DEF g
    <3> QED BY <2>3, <2>5, <3>1
  <2> QED BY <1>6, <2>1, <2>4, <2>5
<1>9. \A q \in Nat : q <= n => Good(shifted[n - q], n - q)
  <2> DEFINE T == {q \in Nat : q <= n => Good(shifted[n - q], n - q)}
  <2> HIDE DEF Good
  <2>1. 0 \in T
    <3>1. n - 0 = n
      BY <1>1
    <3> QED BY <1>7, <3>1
  <2>2. ASSUME NEW q \in Nat, q \in T PROVE q + 1 \in T
    <3> SUFFICES ASSUME q + 1 <= n PROVE Good(shifted[n - (q + 1)], n - (q + 1))
      OBVIOUS
    <3> DEFINE i == n - (q + 1)
    <3>1. i \in 0..n - 1 /\ i + 1 = n - q /\ q <= n
      BY <1>1
    <3> HIDE DEF i
    <3>2. Good(shifted[i + 1], i + 1)
      BY <2>2, <3>1
    <3>3. Good(shifted[i], i)
      BY <1>8, <3>1, <3>2
    <3> QED BY <3>3 DEF i
  <2> HIDE DEF T
  <2>3. \A q \in Nat : q \in T
    BY <2>1, <2>2, Induct
  <2> QED BY <2>3 DEF T
<1>10. Good(shifted[0], 0)
  <2> HIDE DEF Good
  <2>1. n <= n /\ n - n = 0
    BY <1>1
  <2> QED BY <1>1, <1>9, <2>1
<1>11. 0 # n
  BY <1>1
<1> HIDE DEF g
<1> QED BY <1>4, <1>10, <1>11 DEF g

-----------------------------------------------------------------------------
(***************************************************************************)
(* The inductive invariant.                                                *)
(***************************************************************************)
TypeOK ==
  /\ cfg \in Configs /\ input \in Seq(Kinds)
  /\ pending \in Seq(Int) /\ captured \in Seq(Int)
  /\ handle \in {"nil", "closed", "path", "away"}
  /\ dir \in Files /\ away \in Seq(Seq(Int)) /\ written \in SUBSET Int
  /\ failed \in SUBSET {"file", "backup"}

\* What went to the ring or to the log file.
Given == written \cup ToSet(captured)

\* What the stripper holds back comes after all of that and before what is read next.
HeldBack ==
  /\ Increasing(captured)
  /\ Fresh(pending, Given) /\ Len(pending) <= MaxPending
  /\ \A b \in Given \cup ToSet(pending) : b <= Len(input)

\* The open log file that was moved away is the last one that was, and there is none in its
\* place; there are no backups but the configured ones.
FilesOK ==
  /\ handle = "away" => away # <<>> /\ dir[0] = <<>>
  /\ \A i \in 0..MaxBackups : i > cfg.backups => dir[i] = <<>>
  /\ Moved \subseteq written

Inv ==
  /\ TypeOK /\ HeldBack /\ FilesOK /\ LogIsSuffix
  /\ RingHas(ring, captured, Len(captured))

\* What is known of the configuration.
LEMMA ConfigHas ==
  ASSUME TypeOK
  PROVE  /\ cfg.maxBytes \in Nat /\ cfg.backups \in 0..MaxBackups /\ cfg.prints \subseteq Kinds
         /\ MaxBackups \in Nat /\ 0 \in 0..MaxBackups
BY CaptureConstants DEF TypeOK

\* The bytes in the files that were moved away.
BytesOf(a) == UNION {ToSet(a[k]) : k \in 1..Len(a)}

\* One more file.
LEMMA AppendMoved ==
  ASSUME NEW c \in Seq(Seq(Int)), NEW x \in Seq(Int)
  PROVE  /\ Append(c, x) \in Seq(Seq(Int)) /\ Append(c, x) # <<>>
         /\ BytesOf(Append(c, x)) = BytesOf(c) \cup ToSet(x)
<1> DEFINE e == Append(c, x)
<1>1. /\ e \in Seq(Seq(Int)) /\ Len(e) = Len(c) + 1 /\ Len(c) \in Nat /\ e[Len(c) + 1] = x
      /\ \A k \in 1..Len(c) : e[k] = c[k]
  BY AppendProperties, LenProperties
<1> HIDE DEF e
<1>2. \A k \in 1..Len(c) + 1 : k \in 1..Len(c) \/ k = Len(c) + 1
  BY <1>1
<1>3. \A k \in 1..Len(c) : k \in 1..Len(c) + 1
  BY <1>1
<1>4. Len(c) + 1 \in 1..Len(c) + 1 /\ Len(e) # 0
  BY <1>1
<1>5. \A y \in BytesOf(e) : y \in BytesOf(c) \cup ToSet(x)
  <2> TAKE y \in BytesOf(e)
  <2>1. PICK k \in 1..Len(c) + 1 : y \in ToSet(e[k])
    BY <1>1 DEF BytesOf
  <2> QED BY <1>1, <1>2, <2>1 DEF BytesOf
<1>6. \A y \in BytesOf(c) \cup ToSet(x) : y \in BytesOf(e)
  <2> TAKE y \in BytesOf(c) \cup ToSet(x)
  <2>1. \E k \in 1..Len(c) + 1 : y \in ToSet(e[k])
    <3>1. CASE y \in ToSet(x)
      BY <1>1, <1>4, <3>1
    <3>2. CASE y \in BytesOf(c)
      <4>1. PICK k \in 1..Len(c) : y \in ToSet(c[k])
        BY <3>2 DEF BytesOf
      <4> QED BY <1>1, <1>3, <4>1
    <3> QED BY <3>1, <3>2
  <2> QED BY <1>1, <2>1 DEF BytesOf
<1> QED BY <1>1, <1>4, <1>5, <1>6, EmptySeq DEF e

\* More in the last file.
LEMMA MovedHas ==
  ASSUME NEW a \in Seq(Seq(Int)), a # <<>>, NEW x \in Seq(Int)
  PROVE  LET b == Front(a) \o <<x>> IN
         /\ b \in Seq(Seq(Int)) /\ b # <<>> /\ Last(a) \in Seq(Int)
         /\ BytesOf(a) = BytesOf(Front(a)) \cup ToSet(Last(a))
         /\ BytesOf(b) = BytesOf(Front(a)) \cup ToSet(x)
<1>1. /\ Front(a) \in Seq(Seq(Int)) /\ Last(a) \in Seq(Int)
      /\ a = Append(Front(a), Last(a))
  <2>1. Len(a) \in Nat \ {0}
    BY EmptySeq
  <2>2. \A i \in 1..Len(a) : a[i] \in Seq(Int)
    BY ElementOfSeq
  <2>3. /\ 1 \in Int /\ Len(a) - 1 \in Int /\ \A i \in 1..Len(a) - 1 : i \in 1..Len(a)
        /\ Len(a) \in 1..Len(a)
    BY <2>1
  <2> DEFINE f == SubSeq(a, 1, Len(a) - 1)
  <2>4. /\ f \in Seq(Seq(Int)) /\ Len(f) = IF 1 <= Len(a) - 1 THEN Len(a) - 1 - 1 + 1 ELSE 0
        /\ \A i \in 1..Len(a) - 1 - 1 + 1 : f[i] = a[1 + i - 1]
    BY <2>2, <2>3, SubSeqProperties
  <2>5. /\ Len(a) - 1 - 1 + 1 = Len(a) - 1 /\ (~(1 <= Len(a) - 1) => Len(a) - 1 = 0)
        /\ \A i \in 1..Len(a) - 1 : 1 + i - 1 = i
    <3> DEFINE n == Len(a)
    <3>1. n \in Nat /\ n >= 1
      BY <2>1
    <3> HIDE DEF n
    <3>2. n - 1 - 1 + 1 = n - 1 /\ (~(1 <= n - 1) => n - 1 = 0)
      BY <3>1
    <3>3. \A i \in 1..n - 1 : 1 + i - 1 = i
      BY <3>1
    <3> QED BY <3>2, <3>3 DEF n
  <2> HIDE DEF f
  <2>6. Len(f) = Len(a) - 1 /\ \A i \in 1..Len(a) - 1 : f[i] = a[i]
    BY <2>4, <2>5
  <2> DEFINE e == Append(f, a[Len(a)])
  <2>7. /\ e \in Seq(Seq(Int)) /\ Len(e) = Len(f) + 1 /\ e[Len(f) + 1] = a[Len(a)]
        /\ \A i \in 1..Len(f) : e[i] = f[i]
    <3> DEFINE S == Seq(Int)
               y == a[Len(a)]
    <3>1. f \in Seq(S) /\ y \in S
      BY <2>2, <2>3, <2>4
    <3> HIDE DEF S, y
    <3>2. /\ Append(f, y) \in Seq(S) /\ Len(Append(f, y)) = Len(f) + 1
          /\ \A i \in 1..Len(f) : Append(f, y)[i] = f[i]
          /\ Append(f, y)[Len(f) + 1] = y
      BY <3>1, AppendProperties
    <3> QED BY <3>2 DEF S, y
  <2> HIDE DEF e
  <2>8. \A i \in 1..Len(e) : e[i] = a[i]
    <3>1. \A i \in 1..Len(e) : i \in 1..Len(f) \/ (i = Len(f) + 1 /\ i = Len(a))
      BY <2>1, <2>6, <2>7
    <3> QED BY <2>6, <2>7, <3>1
  <2>9. Len(e) = Len(a)
    BY <2>1, <2>6, <2>7
  <2>10. e = a
    BY <2>7, <2>8, <2>9, SeqEqual
  <2> QED BY <2>2, <2>3, <2>4, <2>10 DEF e, f, Front, Last
<1>2. Front(a) \o <<x>> = Append(Front(a), x)
  BY <1>1, AppendIsConcat
<1>3. BytesOf(a) = BytesOf(Front(a)) \cup ToSet(Last(a))
  BY <1>1, AppendMoved
<1>4. /\ Append(Front(a), x) \in Seq(Seq(Int)) /\ Append(Front(a), x) # <<>>
      /\ BytesOf(Append(Front(a), x)) = BytesOf(Front(a)) \cup ToSet(x)
  BY <1>1, AppendMoved
<1> QED BY <1>1, <1>2, <1>3, <1>4

\* LogIsSuffix in the words of the lemmas on files.
LEMMA SuffixIs ==
  /\ LogIsSuffix <=> Suffix(dir, BytesOf(away), written, failed)
  /\ LogIsSuffix' <=> Suffix(dir', BytesOf(away'), written', failed')
  /\ Moved = BytesOf(away) /\ Moved' = BytesOf(away')
BY DEF LogIsSuffix, Suffix, Logged, Moved, BytesIn, BytesOf

\* The files d, a after a write of put through the open handle.
Wrote(put, d, a) ==
  /\ d \in Files /\ a \in Seq(Seq(Int)) /\ Fresh(put, written)
  /\ written' = written \cup ToSet(put)
  /\ Suffix(d, BytesOf(a), written', failed) /\ BytesOf(a) \subseteq written'
  /\ \A i \in 1..MaxBackups : d[i] = dir[i]
  /\ handle = "path" => d[0] = dir[0] \o put
  /\ handle = "away" => d[0] = <<>> /\ a # <<>>

\* What a rotation may fail at, of whose calls those in ok work.
Failures(ok) == (IF ok[0] THEN {} ELSE {"file"})
                  \cup (IF Replaces(ok, cfg.backups) THEN {"backup"} ELSE {})

\* What follows the write: nothing, also if the file is too large, a truncation, or a
\* rotation that may fail.
Outcome(put, d, a) ==
  /\ IsOpen(handle) /\ Wrote(put, d, a)
  /\ \/ /\ dir' = d /\ away' = a /\ UNCHANGED <<handle, failed>>
        /\ handle = "path" => ~TooLarge(d[0])
     \/ /\ dir' = d /\ away' = a /\ UNCHANGED handle
        /\ failed' = failed \cup {"file"}
     \/ /\ cfg.backups = 0 /\ UNCHANGED <<handle, failed>>
        /\ dir' = [d EXCEPT ![0] = <<>>] /\ away' \in Seq(Seq(Int))
        /\ BytesOf(away') \subseteq written'
        /\ handle = "away" => away' # <<>>
     \/ /\ cfg.backups # 0 /\ away' = a /\ handle' \in {"path", "nil"}
        /\ \E ok \in [0..cfg.backups -> BOOLEAN] :
             dir' = rotateFile(d, cfg.backups, ok) /\ failed' = failed \cup Failures(ok)

\* What was written of some bytes are the first of them.
LEMMA StartHas ==
  ASSUME NEW data, NEW w, Fresh(data, w), NEW put \in Starts(data)
  PROVE  /\ Fresh(put, w) /\ ToSet(put) \subseteq ToSet(data)
         /\ Len(put) \in Nat /\ Len(data) \in Nat /\ Len(put) <= Len(data)
<1>1. data \in Seq(Int) /\ Len(data) \in Nat /\ DOMAIN data = 1..Len(data)
  BY LenProperties DEF Fresh
<1>2. PICK n \in 0..Len(data) : put = SubSeq(data, 1, n)
  BY DEF Starts
<1>3. n \in Nat /\ n <= Len(data) /\ \A i \in 1..n : i \in 1..Len(data)
  BY <1>1
<1>4. \A i \in 1..n : data[i] \in Int
  BY <1>1, <1>3, ElementOfSeq
<1>5. /\ put \in Seq(Int) /\ Len(put) = IF 1 <= n THEN n - 1 + 1 ELSE 0
      /\ \A i \in 1..n - 1 + 1 : put[i] = data[1 + i - 1]
  BY <1>2, <1>3, <1>4, SubSeqProperties
<1>6. Len(put) = n /\ \A i \in 1..n : put[i] = data[i]
  BY <1>3, <1>5
<1>7. DOMAIN put = 1..n
  BY <1>5, <1>6, LenProperties
<1>8. ToSet(put) \subseteq ToSet(data)
  BY <1>1, <1>3, <1>6, <1>7 DEF ToSet
<1>9. Increasing(put)
  BY <1>3, <1>6 DEF Fresh, Increasing
<1> QED BY <1>1, <1>3, <1>5, <1>6, <1>8, <1>9 DEF Fresh

\* WriteLog does nothing, or it writes with one of those outcomes.
LEMMA WriteLogIs ==
  ASSUME TypeOK, FilesOK, LogIsSuffix, NEW data, Fresh(data, written), WriteLog(data)
  PROVE  \/ UNCHANGED <<handle, dir, away, written, failed>>
         \/ \E put \in Starts(data), d \in Files, a \in Seq(Seq(Int)) : Outcome(put, d, a)
<1>0. MaxBackups \in Nat /\ 0 \in 0..MaxBackups
  BY ConfigHas
<1>1. CASE ~IsOpen(handle)
  BY <1>1 DEF WriteLog, logs
<1>2. CASE IsOpen(handle)
  <2>1. PICK put \in Starts(data) :
          LET content == Content(handle, dir, away) \o put IN
          /\ written' = written \cup ToSet(put)
          /\ \/ /\ ~TooLarge(content)
                /\ SetContent(content)
                /\ UNCHANGED <<handle, failed>>
             \/ /\ TooLarge(content) /\ cfg.backups = 0
                /\ SetContent(<<>>)
                /\ UNCHANGED <<handle, failed>>
             \/ /\ TooLarge(content)
                /\ SetContent(content)
                /\ failed' = failed \cup {"file"}
                /\ UNCHANGED handle
             \/ /\ TooLarge(content) /\ cfg.backups # 0
                /\ \E ok \in [0..cfg.backups -> BOOLEAN], opened \in BOOLEAN :
                     LET d == IF handle = "path" THEN [dir EXCEPT ![0] = content] ELSE dir
                     IN  /\ dir' = rotateFile(d, cfg.backups, ok)
                         /\ away' = IF handle = "path" THEN away ELSE Front(away) \o <<content>>
                         /\ handle' = IF opened THEN "path" ELSE "nil"
                         /\ failed' = failed \cup (IF ok[0] THEN {} ELSE {"file"})
                                             \cup (IF Replaces(ok, cfg.backups) THEN {"backup"} ELSE {})
    BY <1>2 DEF WriteLog
  <2> DEFINE content == Content(handle, dir, away) \o put
             d == IF handle = "path" THEN [dir EXCEPT ![0] = content] ELSE dir
             a == IF handle = "path" THEN away ELSE Front(away) \o <<content>>
  <2>2. handle \in {"path", "away"}
    BY <1>2 DEF IsOpen
  <2>3. Fresh(put, written)
    BY StartHas
  <2>4. dir \in Files /\ away \in Seq(Seq(Int)) /\ written \in SUBSET Int /\ put \in Seq(Int)
    BY <2>3 DEF TypeOK, Fresh
  <2>5. Suffix(dir, BytesOf(away), written, failed) /\ BytesOf(away) \subseteq written
    BY SuffixIs DEF FilesOK
  <2>6. written' = written \cup ToSet(put)
    BY <2>1
  <2>7. ASSUME handle = "path"
        PROVE  /\ Content(handle, dir, away) = dir[0] /\ content \in Seq(Int)
               /\ d = [dir EXCEPT ![0] = content] /\ a = away
               /\ d[0] = content /\ content = dir[0] \o put
               /\ Wrote(put, d, a)
    <3>1. Content(handle, dir, away) = dir[0] /\ content = dir[0] \o put
      BY <2>7 DEF Content
    <3>2. dir[0] \in Seq(Int) /\ content \in Seq(Int)
      BY <1>0, <2>4, <3>1, ConcatHas DEF Files
    <3>3. d = [dir EXCEPT ![0] = dir[0] \o put] /\ a = away
      BY <2>7, <3>1
    <3>4. Suffix(d, BytesOf(a), written', failed)
      <4>1. BytesOf(away) \in SUBSET written
        BY <2>5
      <4>2. Suffix([dir EXCEPT ![0] = dir[0] \o put], BytesOf(away), written \cup ToSet(put), failed)
        BY <2>3, <2>4, <2>5, <4>1, AppendToFile
      <4> HIDE DEF d, a, content
      <4> QED BY <2>6, <3>3, <4>2
    <3> HIDE DEF content
    <3>5. d \in Files /\ d[0] = content /\ \A i \in 1..MaxBackups : d[i] = dir[i]
      BY <1>0, <2>4, <2>7, <3>2 DEF Files
    <3> HIDE DEF d, a
    <3>6. Wrote(put, d, a)
      BY <2>3, <2>4, <2>5, <2>6, <2>7, <3>1, <3>3, <3>4, <3>5 DEF Wrote
    <3> QED BY <3>1, <3>2, <3>3, <3>5, <3>6
  <2>8. ASSUME handle = "away"
        PROVE  /\ away # <<>> /\ content \in Seq(Int)
               /\ d = dir /\ a = Front(away) \o <<content>>
               /\ Wrote(put, d, a)
    <3>1. away # <<>> /\ dir[0] = <<>>
      BY <2>8 DEF FilesOK
    <3>2. content = Last(away) \o put /\ Last(away) \in Seq(Int)
      BY <2>4, <2>8, <3>1, MovedHas DEF Content
    <3>3. content \in Seq(Int) /\ ToSet(content) = ToSet(Last(away)) \cup ToSet(put)
      BY <2>4, <3>2, ConcatHas
    <3>4. d = dir /\ a = Front(away) \o <<content>>
      BY <2>8
    <3> HIDE DEF content, d, a
    <3>5. /\ a \in Seq(Seq(Int)) /\ a # <<>>
          /\ BytesOf(a) = BytesOf(away) \cup ToSet(put)
      BY <2>4, <3>1, <3>3, <3>4, MovedHas
    <3>6. Suffix(d, BytesOf(a), written', failed)
      <4>1. BytesOf(away) \in SUBSET written
        BY <2>5
      <4>2. Suffix(dir, BytesOf(away) \cup ToSet(put), written \cup ToSet(put), failed)
        BY <2>3, <2>4, <2>5, <4>1, AppendToMoved
      <4> QED BY <2>6, <3>4, <3>5, <4>2
    <3>7. Wrote(put, d, a)
      BY <2>3, <2>4, <2>5, <2>6, <2>8, <3>1, <3>4, <3>5, <3>6 DEF Wrote
    <3> QED BY <3>1, <3>3, <3>4, <3>7
  <2>9. Wrote(put, d, a) /\ d \in Files /\ a \in Seq(Seq(Int)) /\ content \in Seq(Int)
    <3> HIDE DEF d, a, content
    <3>1. Wrote(put, d, a) /\ content \in Seq(Int)
      BY <2>2, <2>7, <2>8
    <3> QED BY <3>1 DEF Wrote
  <2>10. CASE ~TooLarge(content) /\ SetContent(content) /\ UNCHANGED <<handle, failed>>
    <3>1. dir' = d /\ away' = a
      BY <2>2, <2>10 DEF SetContent
    <3>2. handle = "path" => ~TooLarge(d[0])
      <4> HIDE DEF content, d, a
      <4> QED BY <2>7, <2>10
    <3> HIDE DEF content, d, a
    <3> QED BY <1>2, <2>9, <2>10, <3>1, <3>2 DEF Outcome
  <2>11. CASE cfg.backups = 0 /\ SetContent(<<>>) /\ UNCHANGED <<handle, failed>>
    <3>1. CASE handle = "path"
      <4>1. dir' = [dir EXCEPT ![0] = <<>>] /\ away' = away
        BY <2>11, <3>1 DEF SetContent
      <4>2. dir' = [d EXCEPT ![0] = <<>>]
        <5> HIDE DEF content
        <5> QED BY <1>0, <2>4, <3>1, <4>1 DEF Files
      <4>3. BytesOf(away') \subseteq written'
        BY <2>5, <2>6, <4>1
      <4> HIDE DEF content, d, a
      <4> QED BY <1>2, <2>4, <2>9, <2>11, <3>1, <4>1, <4>2, <4>3 DEF Outcome
    <3>2. CASE handle = "away"
      <4>1. away' = Front(away) \o <<<<>>>> /\ dir' = dir
        BY <2>11, <3>2 DEF SetContent
      <4>2. d = dir /\ dir[0] = <<>> /\ away # <<>>
        BY <3>2 DEF FilesOK
      <4>3. dir' = [d EXCEPT ![0] = <<>>]
        BY <1>0, <2>4, <4>1, <4>2 DEF Files
      <4>4. /\ away' \in Seq(Seq(Int)) /\ away' # <<>>
            /\ BytesOf(away') = BytesOf(Front(away)) \cup ToSet(<<>>)
            /\ BytesOf(away) = BytesOf(Front(away)) \cup ToSet(Last(away))
        BY <2>4, <4>1, <4>2, MovedHas, EmptySeq
      <4>5. BytesOf(away') \subseteq written'
        BY <2>5, <2>6, <4>4 DEF ToSet
      <4> HIDE DEF content, d, a
      <4> QED BY <1>2, <2>9, <2>11, <4>3, <4>4, <4>5 DEF Outcome
    <3> QED BY <2>2, <3>1, <3>2
  <2>12. CASE TooLarge(content) /\ SetContent(content) /\ failed' = failed \cup {"file"} /\ UNCHANGED handle
    <3>1. dir' = d /\ away' = a
      BY <2>2, <2>12 DEF SetContent
    <3> HIDE DEF content, d, a
    <3> QED BY <1>2, <2>9, <2>12, <3>1 DEF Outcome
  <2>13. \/ ~TooLarge(content) /\ SetContent(content) /\ UNCHANGED <<handle, failed>>
         \/ TooLarge(content) /\ SetContent(content) /\ failed' = failed \cup {"file"} /\ UNCHANGED handle
         \/ cfg.backups = 0 /\ SetContent(<<>>) /\ UNCHANGED <<handle, failed>>
         \/ /\ cfg.backups # 0
            /\ \E ok \in [0..cfg.backups -> BOOLEAN], opened \in BOOLEAN :
                 /\ dir' = rotateFile(d, cfg.backups, ok)
                 /\ away' = a
                 /\ handle' = IF opened THEN "path" ELSE "nil"
                 /\ failed' = failed \cup (IF ok[0] THEN {} ELSE {"file"})
                                     \cup (IF Replaces(ok, cfg.backups) THEN {"backup"} ELSE {})
    BY <2>1
  <2> HIDE DEF content, d, a
  <2>14. CASE /\ cfg.backups # 0
              /\ \E ok \in [0..cfg.backups -> BOOLEAN], opened \in BOOLEAN :
                   /\ dir' = rotateFile(d, cfg.backups, ok)
                   /\ away' = a
                   /\ handle' = IF opened THEN "path" ELSE "nil"
                   /\ failed' = failed \cup (IF ok[0] THEN {} ELSE {"file"})
                                       \cup (IF Replaces(ok, cfg.backups) THEN {"backup"} ELSE {})
    <3>1. PICK ok \in [0..cfg.backups -> BOOLEAN], opened \in BOOLEAN :
            /\ dir' = rotateFile(d, cfg.backups, ok)
            /\ away' = a
            /\ handle' = IF opened THEN "path" ELSE "nil"
            /\ failed' = failed \cup (IF ok[0] THEN {} ELSE {"file"})
                                \cup (IF Replaces(ok, cfg.backups) THEN {"backup"} ELSE {})
      BY <2>14
    <3>2. failed' = failed \cup Failures(ok)
      BY <3>1 DEF Failures
    <3>3. \E o \in [0..cfg.backups -> BOOLEAN] :
            dir' = rotateFile(d, cfg.backups, o) /\ failed' = failed \cup Failures(o)
      BY <3>1, <3>2
    <3>4. handle' \in {"path", "nil"}
      BY <3>1
    <3> QED BY <1>2, <2>9, <2>14, <3>1, <3>3, <3>4 DEF Outcome
  <2> QED BY <2>10, <2>11, <2>12, <2>13, <2>14
<1> QED BY <1>1, <1>2

\* Whatever WriteLog does, the files stay what they should be.
LEMMA WriteLogStep ==
  ASSUME TypeOK, FilesOK, LogIsSuffix, UNCHANGED cfg, NEW data, Fresh(data, written), WriteLog(data)
  PROVE  /\ FilesOK' /\ LogIsSuffix'
         /\ handle' \in {"nil", "closed", "path", "away"}
         /\ dir' \in Files /\ away' \in Seq(Seq(Int)) /\ failed' \in SUBSET {"file", "backup"}
         /\ written' \subseteq written \cup ToSet(data)
<1>0. /\ handle \in {"nil", "closed", "path", "away"} /\ failed \in SUBSET {"file", "backup"}
      /\ dir \in Files /\ away \in Seq(Seq(Int)) /\ written \in SUBSET Int
      /\ MaxBackups \in Nat /\ 0 \in 0..MaxBackups /\ cfg.backups \in 0..MaxBackups
  BY ConfigHas DEF TypeOK
<1>1. CASE UNCHANGED <<handle, dir, away, written, failed>>
  BY <1>0, <1>1, SuffixIs DEF FilesOK
<1>2. ASSUME NEW put \in Starts(data), NEW d \in Files, NEW a \in Seq(Seq(Int)), Outcome(put, d, a)
      PROVE  /\ FilesOK' /\ LogIsSuffix'
             /\ handle' \in {"nil", "closed", "path", "away"}
             /\ dir' \in Files /\ away' \in Seq(Seq(Int)) /\ failed' \in SUBSET {"file", "backup"}
             /\ written' \subseteq written \cup ToSet(data)
  <2>1. written' = written \cup ToSet(put) /\ Fresh(put, written)
    BY <1>2 DEF Wrote, Outcome
  <2>2. written' \subseteq written \cup ToSet(data) /\ written' \in SUBSET Int
    <3>1. ToSet(put) \subseteq ToSet(data)
      BY StartHas
    <3>2. \A x \in ToSet(put) : x \in Int
      <4>1. put \in Seq(Int) /\ DOMAIN put = 1..Len(put)
        BY <2>1, LenProperties DEF Fresh
      <4>2. \A i \in 1..Len(put) : put[i] \in Int
        BY <4>1, ElementOfSeq
      <4> QED BY <4>1, <4>2 DEF ToSet
    <3> QED BY <1>0, <2>1, <3>1, <3>2
  <2>3. /\ Suffix(d, BytesOf(a), written', failed) /\ BytesOf(a) \in SUBSET written'
        /\ handle = "away" => d[0] = <<>> /\ a # <<>>
    BY <1>2 DEF Wrote, Outcome
  <2>4. \A i \in 0..MaxBackups : i > cfg.backups => d[i] = <<>>
    <3>1. \A i \in 0..MaxBackups : i > cfg.backups => i \in 1..MaxBackups /\ dir[i] = <<>>
      BY <1>0 DEF FilesOK
    <3> QED BY <1>2, <3>1 DEF Wrote, Outcome
  <2>5. CASE dir' = d /\ away' = a /\ UNCHANGED <<handle, failed>>
    BY <1>0, <1>2, <2>2, <2>3, <2>4, <2>5, SuffixIs DEF FilesOK
  <2>6. CASE /\ cfg.backups = 0 /\ UNCHANGED <<handle, failed>>
             /\ dir' = [d EXCEPT ![0] = <<>>] /\ away' \in Seq(Seq(Int))
             /\ BytesOf(away') \subseteq written'
             /\ handle = "away" => away' # <<>>
    <3>1. \A i \in 0..MaxBackups : dir'[i] = <<>>
      <4>1. \A i \in 0..MaxBackups : i # 0 => d[i] = <<>>
        BY <1>0, <2>4, <2>6
      <4> QED BY <1>0, <2>6, <4>1 DEF Files
    <3>2. dir' \in Files
      BY <1>0, <2>6, EmptySeq DEF Files
    <3>3. LogIsSuffix'
      BY <3>1, NoFiles, SuffixIs
    <3>4. FilesOK'
      BY <1>0, <2>6, <3>1, SuffixIs DEF FilesOK
    <3> QED BY <1>0, <2>2, <2>6, <3>2, <3>3, <3>4
  <2>7. CASE /\ dir' = d /\ away' = a /\ UNCHANGED handle
             /\ failed' = failed \cup {"file"}
    <3>1. Suffix(d, BytesOf(a), written', failed')
      BY <2>3, <2>7 DEF Suffix
    <3>2. failed' \in SUBSET {"file", "backup"}
      BY <1>0, <2>7
    <3> QED BY <1>0, <1>2, <2>2, <2>3, <2>4, <2>7, <3>1, <3>2, SuffixIs DEF FilesOK
  <2>8. CASE /\ cfg.backups # 0 /\ away' = a /\ handle' \in {"path", "nil"}
             /\ \E ok \in [0..cfg.backups -> BOOLEAN] :
                  dir' = rotateFile(d, cfg.backups, ok) /\ failed' = failed \cup Failures(ok)
    <3>0. PICK ok \in [0..cfg.backups -> BOOLEAN] :
            dir' = rotateFile(d, cfg.backups, ok) /\ failed' = failed \cup Failures(ok)
      BY <2>8
    <3>1. cfg.backups \in 1..MaxBackups
      BY <1>0, <2>8
    <3>2. /\ dir' \in Files
          /\ Suffix(dir', BytesOf(a), written',
                    failed \cup (IF Replaces(ok, cfg.backups) THEN {"backup"} ELSE {}))
          /\ \A i \in 0..MaxBackups : i > cfg.backups => dir'[i] = <<>>
      BY <1>2, <2>2, <2>3, <2>4, <3>0, <3>1, RotateFiles
    <3>5. Suffix(dir', BytesOf(a), written', failed')
      <4>1. "backup" \notin failed' =>
              "backup" \notin failed \cup (IF Replaces(ok, cfg.backups) THEN {"backup"} ELSE {})
        BY <3>0 DEF Failures
      <4> QED BY <3>2, <4>1 DEF Suffix
    <3>3. LogIsSuffix'
      BY <2>8, <3>5, SuffixIs
    <3>4. FilesOK'
      BY <1>2, <2>3, <2>8, <3>2, SuffixIs DEF FilesOK
    <3>6. failed' \in SUBSET {"file", "backup"}
      BY <1>0, <3>0 DEF Failures
    <3> QED BY <1>0, <1>2, <2>2, <2>8, <3>2, <3>3, <3>4, <3>6
  <2> QED BY <1>2, <2>5, <2>6, <2>7, <2>8 DEF Outcome
<1> HIDE DEF FilesOK, LogIsSuffix, Files
<1> QED BY <1>1, <1>2, WriteLogIs

\* What a read passes on to the ring and to the log file: bytes that come after all that
\* was given to them, and before those that are held back.
ReadsOn(data) ==
  /\ Fresh(data, Given) /\ Len(data) <= MaxRead + MaxPending
  /\ captured' = captured \o data /\ ring' = RingWrite(ring, data) /\ WriteLog(data)
  /\ input' \in Seq(Kinds) /\ Len(input) <= Len(input')
  /\ Fresh(pending', Given \cup ToSet(data)) /\ Len(pending') <= MaxPending
  /\ \A b \in ToSet(data) \cup ToSet(pending') : b <= Len(input')
  /\ UNCHANGED cfg

\* The bytes of a chunk are the next ones of the stream.
LEMMA ReadBytes ==
  ASSUME TypeOK, NEW n \in 1..MaxRead, NEW chunk \in [1..n -> cfg.prints], Read(chunk)
  PROVE  LET raw == [i \in 1..Len(chunk) |-> Len(input) + i] IN
         /\ n \in Nat /\ n <= MaxRead /\ Len(chunk) = n /\ Len(input) \in Nat
         /\ input' \in Seq(Kinds) /\ Len(input') = Len(input) + n
         /\ \A i \in 1..Len(input) : input'[i] = input[i]
         /\ raw \in Seq(Int) /\ Len(raw) = n /\ \A i \in 1..n : raw[i] = Len(input) + i
<1> DEFINE L == Len(input)
           raw == [i \in 1..Len(chunk) |-> L + i]
<1>0. MaxRead \in Nat /\ n \in Nat /\ n <= MaxRead
  BY CaptureConstants
<1>1. chunk \in Seq(Kinds) /\ Len(chunk) = n
  <2>1. chunk \in [1..n -> Kinds]
    BY ConfigHas
  <2>2. chunk \in Seq(Kinds)
    BY <1>0, <2>1, SeqDef
  <2>3. DOMAIN chunk = 1..n
    BY <2>1
  <2> QED BY <1>0, <2>2, <2>3, LenProperties
<1>2. input \in Seq(Kinds) /\ L \in Nat
  BY LenProperties DEF TypeOK
<1>3. input' \in Seq(Kinds) /\ Len(input') = L + n /\ \A i \in 1..L : input'[i] = input[i]
  <2>1. input' = input \o chunk
    BY DEF Read
  <2>2. /\ input \o chunk \in Seq(Kinds) /\ Len(input \o chunk) = L + Len(chunk)
        /\ \A i \in 1..L : (input \o chunk)[i] = input[i]
    <3>1. chunk \in Seq(Kinds) /\ Len(chunk) \in Nat
      BY <1>1, LenProperties
    <3>2. /\ input \o chunk \in Seq(Kinds) /\ Len(input \o chunk) = Len(input) + Len(chunk)
          /\ \A i \in 1..Len(input) + Len(chunk) : (input \o chunk)[i] =
                IF i <= Len(input) THEN input[i] ELSE chunk[i - Len(input)]
      BY <1>2, <3>1, ConcatProperties
    <3>3. \A i \in 1..Len(input) : i \in 1..Len(input) + Len(chunk) /\ i <= Len(input)
      BY <1>2, <3>1
    <3> QED BY <3>2, <3>3
  <2> QED BY <1>1, <2>1, <2>2
<1>4. raw \in Seq(Int) /\ Len(raw) = n /\ \A i \in 1..n : raw[i] = L + i
  <2> HIDE DEF L
  <2>1. raw = [i \in 1..n |-> L + i]
    BY <1>1 DEF L
  <2> HIDE DEF raw
  <2>2. raw \in [1..n -> Int] /\ DOMAIN raw = 1..n
    BY <1>2, <2>1
  <2>3. raw \in Seq(Int)
    BY <1>0, <2>2, SeqDef
  <2>4. Len(raw) = n
    BY <1>0, <2>2, <2>3, LenProperties
  <2> QED BY <2>1, <2>3, <2>4
<1> QED BY <1>0, <1>1, <1>2, <1>3, <1>4

\* Read, with or without strip_ansi.
LEMMA ReadHas ==
  ASSUME TypeOK, HeldBack, NEW n \in 1..MaxRead, NEW chunk \in [1..n -> cfg.prints], Read(chunk)
  PROVE  \E data \in Seq(Int) : ReadsOn(data)
<1> DEFINE raw == [i \in 1..Len(chunk) |-> Len(input) + i]
           strip == IF cfg.strip THEN Strip(input', pending, raw) ELSE [pending |-> <<>>, data |-> raw]
           L == Len(input)
<1>0. MaxRead \in Nat /\ MaxPending \in Nat /\ n \in Nat /\ n <= MaxRead
  BY CaptureConstants
<1>2. /\ L \in Nat /\ input' \in Seq(Kinds) /\ Len(input') = L + n
      /\ raw \in Seq(Int) /\ Len(raw) = n /\ \A i \in 1..n : raw[i] = L + i
  BY ReadBytes
<1>3. pending \in Seq(Int) /\ Given \in SUBSET Int
  <2>1. captured \in Seq(Int) /\ DOMAIN captured = 1..Len(captured)
    BY LenProperties DEF TypeOK
  <2>2. \A i \in 1..Len(captured) : captured[i] \in Int
    BY <2>1, ElementOfSeq
  <2> QED BY <2>1, <2>2 DEF TypeOK, Given, ToSet
<1>4. Increasing(raw) /\ \A b \in ToSet(raw) : L < b /\ b <= L + n
  <2> HIDE DEF L, raw
  <2>1. Increasing(raw)
    BY <1>0, <1>2 DEF Increasing
  <2>2. DOMAIN raw = 1..n /\ \A i \in 1..n : L < raw[i] /\ raw[i] <= L + n
    BY <1>0, <1>2, LenProperties
  <2> QED BY <2>1, <2>2 DEF ToSet
<1>5. /\ pending' = strip.pending /\ ring' = RingWrite(ring, strip.data)
      /\ captured' = captured \o strip.data /\ WriteLog(strip.data) /\ UNCHANGED cfg
  BY DEF Read
<1>6. /\ Increasing(pending) /\ Len(pending) <= MaxPending /\ Len(pending) \in Nat
      /\ \A b \in ToSet(pending), c \in Given : c < b
      /\ \A b \in Given \cup ToSet(pending) : b <= L
  BY <1>3, LenProperties DEF HeldBack, Fresh
<1>7. \A b \in ToSet(pending) : b \in Int
  <2>1. \A i \in 1..Len(pending) : pending[i] \in Int
    BY <1>3, ElementOfSeq
  <2> QED BY <1>3, <2>1, LenProperties DEF ToSet
<1>8. \A b \in ToSet(raw) : b \in Int
  <2>1. \A i \in 1..Len(raw) : raw[i] \in Int
    BY <1>2, ElementOfSeq
  <2> HIDE DEF raw
  <2> QED BY <1>2, <2>1, LenProperties DEF ToSet
<1> HIDE DEF raw, L
<1>9. /\ Increasing(pending \o raw) /\ ToSet(pending \o raw) = ToSet(pending) \cup ToSet(raw)
  <2>1. \A x \in ToSet(pending), y \in ToSet(raw) : x < y
    <3> SUFFICES ASSUME NEW x \in ToSet(pending), NEW y \in ToSet(raw) PROVE x < y
      OBVIOUS
    <3>1. x <= L /\ L < y /\ x \in Int /\ y \in Int
      BY <1>4, <1>6, <1>7, <1>8
    <3> QED BY <1>2, <3>1
  <2> QED BY <1>2, <1>3, <1>4, <1>6, <2>1, ConcatHas
<1>10. \A x \in ToSet(pending) \cup ToSet(raw), c \in Given : c < x /\ x <= L + n /\ x \in Int
  <2> SUFFICES ASSUME NEW x \in ToSet(pending) \cup ToSet(raw), NEW c \in Given
      PROVE  c < x /\ x <= L + n /\ x \in Int
    OBVIOUS
  <2>1. c \in Int /\ c <= L
    BY <1>3, <1>6
  <2>2. CASE x \in ToSet(pending)
    <3>1. c < x /\ x <= L /\ x \in Int
      BY <1>6, <1>7, <2>2
    <3> QED BY <1>0, <1>2, <3>1
  <2>3. CASE x \in ToSet(raw)
    <3>1. L < x /\ x <= L + n /\ x \in Int
      BY <1>4, <1>8, <2>3
    <3> QED BY <1>2, <2>1, <3>1
  <2> QED BY <2>2, <2>3
<1>11. \A x \in ToSet(pending) \cup ToSet(raw) : x <= L + n
  <2> TAKE x \in ToSet(pending) \cup ToSet(raw)
  <2>1. CASE x \in ToSet(pending)
    <3>1. x <= L /\ x \in Int
      BY <1>6, <1>7, <2>1
    <3> QED BY <1>0, <1>2, <3>1
  <2> QED BY <1>4, <2>1
<1>12. /\ strip.data \in Seq(Int) /\ Increasing(strip.data) /\ Len(strip.data) <= MaxRead + MaxPending
       /\ strip.pending \in Seq(Int) /\ Increasing(strip.pending) /\ Len(strip.pending) <= MaxPending
       /\ ToSet(strip.data) \cup ToSet(strip.pending) \subseteq ToSet(pending) \cup ToSet(raw)
       /\ \A b \in ToSet(strip.data), c \in ToSet(strip.pending) : b < c
  <2>1. CASE cfg.strip
    <3> DEFINE s == Strip(input', pending, raw)
    <3>1. /\ s.data \in Seq(Int) /\ Increasing(s.data) /\ Len(s.data) <= Len(pending) + Len(raw)
          /\ s.pending \in Seq(Int) /\ Increasing(s.pending) /\ Len(s.pending) <= MaxPending
          /\ ToSet(s.data) \cup ToSet(s.pending) \subseteq ToSet(pending \o raw)
          /\ \A b \in ToSet(s.data), c \in ToSet(s.pending) : b < c
      BY <1>2, <1>3, <1>9, StripHas
    <3>2. strip = s
      BY <2>1
    <3> HIDE DEF s, strip
    <3>3. Len(s.data) <= MaxRead + MaxPending
      <4>1. Len(s.data) \in Nat
        BY <3>1, LenProperties
      <4> QED BY <1>0, <1>2, <1>6, <3>1, <4>1
    <3> QED BY <1>9, <3>1, <3>2, <3>3
  <2>2. CASE ~cfg.strip
    <3>1. strip = [pending |-> <<>>, data |-> raw]
      BY <2>2
    <3>2. strip.pending = <<>> /\ strip.data = raw
      BY <3>1
    <3> HIDE DEF strip
    <3>3. ToSet(<<>>) = {} /\ Increasing(<<>>) /\ <<>> \in Seq(Int) /\ Len(<<>>) = 0
      BY DEF ToSet, Increasing
    <3>4. Len(raw) <= MaxRead + MaxPending /\ 0 <= MaxPending
      BY <1>0, <1>2
    <3> QED BY <1>2, <1>4, <3>2, <3>3, <3>4
  <2> QED BY <2>1, <2>2
<1> HIDE DEF strip
<1>13. Fresh(strip.data, Given)
  BY <1>10, <1>12 DEF Fresh
<1>14. Fresh(pending', Given \cup ToSet(strip.data))
  BY <1>5, <1>10, <1>12 DEF Fresh
<1>15. \A b \in ToSet(strip.data) \cup ToSet(pending') : b <= Len(input')
  BY <1>2, <1>5, <1>11, <1>12
<1>16. Len(input) <= Len(input')
  BY <1>0, <1>2 DEF L
<1>17. ReadsOn(strip.data)
  BY <1>2, <1>5, <1>12, <1>13, <1>14, <1>15, <1>16 DEF ReadsOn
<1> QED BY <1>12, <1>17

\* At first nothing was captured; of an earlier run there are backups of one byte each.
LEMMA InitInv == Init => Inv /\ LogBounded
<1> SUFFICES ASSUME Init PROVE Inv /\ LogBounded
  OBVIOUS
<1>0. /\ cfg \in Configs /\ cfg.backups \in 0..MaxBackups /\ cfg.maxBytes \in Nat
      /\ MaxBackups \in Nat /\ MaxPending \in Nat /\ MaxRead \in Nat \ {0} /\ RingSize \in Nat \ {0}
  BY CaptureConstants DEF Init
<1>1. ToSet(<<>>) = {} /\ Increasing(<<>>) /\ <<>> \in Seq(Int) /\ Len(<<>>) = 0
  BY DEF ToSet, Increasing
<1>2. PICK old \in SUBSET (1..cfg.backups) : dir = [i \in 0..MaxBackups |-> IF i \in old THEN <<-i>> ELSE <<>>]
  BY DEF Init
<1>3. \A i \in 0..MaxBackups : /\ <<-i>> \in Seq(Int) /\ Len(<<-i>>) = 1
                               /\ ToSet(<<-i>>) = {-i} /\ Increasing(<<-i>>)
  BY DEF ToSet, Increasing
<1>4. dir \in Files
  BY <1>1, <1>2, <1>3 DEF Files
<1>5. /\ input = <<>> /\ pending = <<>> /\ captured = <<>> /\ away = <<>> /\ failed = {}
      /\ handle \in {"nil", "path"} /\ written = BytesIn(dir) /\ ring = NewRing
  BY DEF Init, Logged, BytesIn
<1>6. \A b \in BytesIn(dir) : b \in Int /\ b <= 0
  <2> TAKE b \in BytesIn(dir)
  <2>1. PICK i \in 0..MaxBackups : b \in ToSet(dir[i])
    BY InOneFile
  <2>2. b = -i
    BY <1>1, <1>2, <1>3, <2>1
  <2> QED BY <1>0, <2>2
<1>7. TypeOK
  <2>1. <<>> \in Seq(Kinds) /\ <<>> \in Seq(Int) /\ <<>> \in Seq(Seq(Int))
    OBVIOUS
  <2>2. written \in SUBSET Int
    BY <1>5, <1>6
  <2> QED BY <1>0, <1>4, <1>5, <2>1, <2>2 DEF TypeOK
<1>8. HeldBack
  BY <1>0, <1>1, <1>5, <1>6 DEF HeldBack, Fresh, Given
<1>9. FilesOK
  <2>1. \A i \in 0..MaxBackups : i > cfg.backups => dir[i] = <<>>
    BY <1>0, <1>2
  <2>2. BytesOf(<<>>) = {}
    BY <1>1 DEF BytesOf
  <2> QED BY <1>5, <2>1, <2>2, SuffixIs DEF FilesOK
<1>10. Suffix(dir, {}, BytesIn(dir), {})
  <2>1. \A i \in 0..MaxBackups : Increasing(dir[i])
    BY <1>1, <1>2, <1>3
  <2>2. \A i, j \in 0..MaxBackups : i < j => \A b \in ToSet(dir[j]), c \in ToSet(dir[i]) : b < c
    <3> SUFFICES ASSUME NEW i \in 0..MaxBackups, NEW j \in 0..MaxBackups, i < j,
                        NEW b \in ToSet(dir[j]), NEW c \in ToSet(dir[i])
        PROVE  b < c
      OBVIOUS
    <3>1. b = -j /\ c = -i
      BY <1>1, <1>2, <1>3
    <3> QED BY <1>0, <3>1
  <2> QED BY <2>1, <2>2 DEF Suffix
<1>11. LogIsSuffix
  <2>1. BytesOf(<<>>) = {}
    BY <1>1 DEF BytesOf
  <2> QED BY <1>5, <1>10, <2>1, SuffixIs
<1>12. RingHas(ring, captured, Len(captured))
  <2>1. NewRing \in RingType /\ NewRing.pos = 0 /\ NewRing.full = FALSE
    BY <1>0 DEF NewRing, RingType
  <2>2. \A i \in 0..RingSize - 1 : ~(i < 0)
    BY <1>0
  <2>3. ~(0 >= RingSize)
    BY <1>0
  <2> QED BY <1>1, <1>5, <2>1, <2>2, <2>3 DEF RingHas
<1>13. LogBounded
  <2> SUFFICES ASSUME cfg.maxBytes # 0
      PROVE  /\ Len(dir[0]) < cfg.maxBytes
             /\ \A i \in 1..MaxBackups : Len(dir[i]) < cfg.maxBytes + MaxRead + MaxPending
    BY DEF LogBounded
  <2>1. dir[0] = <<>>
    BY <1>0, <1>2
  <2>2. \A i \in 0..MaxBackups : Len(dir[i]) \in {0, 1}
    BY <1>1, <1>2, <1>3
  <2>3. \A i \in 1..MaxBackups : i \in 0..MaxBackups
    OBVIOUS
  <2>4. 0 < cfg.maxBytes /\ 0 < cfg.maxBytes + MaxRead + MaxPending /\ 1 < cfg.maxBytes + MaxRead + MaxPending
    BY <1>0
  <2>5. \A i \in 1..MaxBackups : Len(dir[i]) = 0 \/ Len(dir[i]) = 1
    BY <2>2, <2>3
  <2> QED BY <1>1, <2>1, <2>4, <2>5
<1> QED BY <1>7, <1>8, <1>9, <1>11, <1>12, <1>13 DEF Inv

\* logrotate takes the log file away, and the open handle with it.
LEMMA MoveAwayStep ==
  ASSUME TypeOK, FilesOK, LogIsSuffix, MoveAway
  PROVE  /\ FilesOK' /\ LogIsSuffix'
         /\ handle' \in {"nil", "closed", "path", "away"}
         /\ dir' \in Files /\ away' \in Seq(Seq(Int))
<1>0. /\ handle \in {"nil", "closed", "path", "away"}
      /\ dir \in Files /\ away \in Seq(Seq(Int)) /\ written \in SUBSET Int
      /\ MaxBackups \in Nat /\ 0 \in 0..MaxBackups
  BY ConfigHas DEF TypeOK
<1>1. /\ dir' = [dir EXCEPT ![0] = <<>>] /\ away' = Append(away, dir[0])
      /\ handle' = IF handle = "path" THEN "away" ELSE handle
      /\ UNCHANGED <<cfg, written, failed>> /\ dir[0] # <<>>
  BY DEF MoveAway
<1>2. dir[0] \in Seq(Int)
  BY <1>0 DEF Files
<1>3. dir' \in Files /\ dir'[0] = <<>> /\ \A i \in 0..MaxBackups : i # 0 => dir'[i] = dir[i]
  BY <1>0, <1>1, EmptySeq DEF Files
<1>4. away' \in Seq(Seq(Int)) /\ away' # <<>> /\ BytesOf(away') = BytesOf(away) \cup ToSet(dir[0])
  BY <1>0, <1>1, <1>2, AppendMoved
<1>5. Suffix(dir, BytesOf(away), written, failed) /\ BytesOf(away) \in SUBSET written
  BY SuffixIs DEF FilesOK
<1>6. LogIsSuffix'
  <2>1. Suffix([dir EXCEPT ![0] = <<>>], BytesOf(away) \cup ToSet(dir[0]), written, failed)
    BY <1>0, <1>5, MoveFile
  <2> QED BY <1>1, <1>4, <2>1, SuffixIs
<1>7. BytesOf(away') \subseteq written
  <2>1. ToSet(dir[0]) \subseteq written
    BY <1>0, <1>5 DEF Suffix, BytesIn
  <2> QED BY <1>4, <1>5, <2>1
<1>8. FilesOK'
  <2>1. \A i \in 0..MaxBackups : i > cfg.backups => dir'[i] = <<>>
    BY <1>3 DEF FilesOK
  <2> QED BY <1>1, <1>3, <1>4, <1>7, <2>1, SuffixIs DEF FilesOK
<1> QED BY <1>0, <1>1, <1>3, <1>4, <1>6, <1>8

\* Every step keeps the invariant.
LEMMA InvStep == Inv /\ [Next]_vars => Inv'
<1> SUFFICES ASSUME Inv, [Next]_vars PROVE Inv'
  OBVIOUS
<1>0. TypeOK /\ HeldBack /\ FilesOK /\ LogIsSuffix /\ RingHas(ring, captured, Len(captured))
  BY DEF Inv
<1>1. ASSUME NEW n \in 1..MaxRead, NEW chunk \in [1..n -> cfg.prints], Read(chunk)
      PROVE  Inv'
  <2>1. PICK data \in Seq(Int) : ReadsOn(data)
    BY <1>0, <1>1, ReadHas
  <2>7. Fresh(data, written)
    BY <2>1 DEF ReadsOn, Fresh, Given
  <2>2. /\ FilesOK' /\ LogIsSuffix'
        /\ handle' \in {"nil", "closed", "path", "away"}
        /\ dir' \in Files /\ away' \in Seq(Seq(Int)) /\ failed' \in SUBSET {"file", "backup"}
        /\ written' \subseteq written \cup ToSet(data)
    BY <1>0, <2>1, <2>7, WriteLogStep DEF ReadsOn
  <2>3. RingHas(ring', captured', Len(captured'))
    <3>1. captured \in Seq(Int) /\ captured' = captured \o data /\ ring' = RingWrite(ring, data)
      BY <1>0, <2>1 DEF TypeOK, ReadsOn
    <3>2. Len(captured') = Len(captured) + Len(data)
      BY <3>1, ConcatProperties
    <3> QED BY <1>0, <3>1, <3>2, WriteHas
  <2>4. written \in SUBSET Int /\ \A b \in ToSet(data) : b \in Int
    <3>1. data \in Seq(Int) /\ DOMAIN data = 1..Len(data) /\ \A i \in 1..Len(data) : data[i] \in Int
      BY LenProperties, ElementOfSeq
    <3> QED BY <1>0, <3>1 DEF TypeOK, ToSet
  <2>5. TypeOK'
    <3>1. captured' \in Seq(Int)
      BY <1>0, <2>1, ConcatProperties DEF TypeOK, ReadsOn
    <3>2. cfg' \in Configs /\ input' \in Seq(Kinds) /\ pending' \in Seq(Int)
      BY <1>0, <2>1 DEF TypeOK, ReadsOn, Fresh
    <3> QED BY <2>2, <2>4, <3>1, <3>2 DEF TypeOK
  <2>6. HeldBack'
    <3>1. captured \in Seq(Int) /\ captured' = captured \o data
      BY <1>0, <2>1 DEF TypeOK, ReadsOn
    <3>2. ToSet(captured') = ToSet(captured) \cup ToSet(data) /\ Increasing(captured')
      BY <1>0, <2>1, <3>1, ConcatHas DEF HeldBack, ReadsOn, Fresh, Given
    <3>3. Given' \subseteq Given \cup ToSet(data)
      BY <2>2, <3>2 DEF Given
    <3>4. Fresh(pending', Given')
      BY <2>1, <3>3 DEF ReadsOn, Fresh
    <3>5. \A b \in Given' \cup ToSet(pending') : b <= Len(input')
      <4> SUFFICES ASSUME NEW b \in Given PROVE b <= Len(input')
        BY <2>1, <3>3 DEF ReadsOn
      <4>1. b <= Len(input) /\ Len(input) <= Len(input')
        BY <1>0, <2>1 DEF HeldBack, ReadsOn
      <4>2. b \in Int /\ Len(input) \in Nat /\ Len(input') \in Nat
        <5>1. DOMAIN captured = 1..Len(captured) /\ \A i \in 1..Len(captured) : captured[i] \in Int
          BY <3>1, LenProperties, ElementOfSeq
        <5> QED BY <1>0, <2>1, <5>1, LenProperties DEF TypeOK, ReadsOn, Given, ToSet
      <4> QED BY <4>1, <4>2
    <3> QED BY <2>1, <3>2, <3>4, <3>5 DEF HeldBack, ReadsOn
  <2> QED BY <2>2, <2>3, <2>5, <2>6 DEF Inv
<1>2. ASSUME MoveAway PROVE Inv'
  <2>1. /\ FilesOK' /\ LogIsSuffix' /\ handle' \in {"nil", "closed", "path", "away"}
        /\ dir' \in Files /\ away' \in Seq(Seq(Int))
    BY <1>0, <1>2, MoveAwayStep
  <2>2. UNCHANGED <<cfg, input, pending, ring, captured, written, failed>>
    BY <1>2 DEF MoveAway, stream
  <2> HIDE DEF LogIsSuffix, FilesOK
  <2> QED BY <1>0, <2>1, <2>2 DEF Inv, TypeOK, HeldBack, Given
<1>3. ASSUME UNCHANGED <<cfg, stream, dir, away, written, failed>>,
             handle' = handle \/ handle' \in {"nil", "closed", "path"}
      PROVE  Inv'
  <2>1. LogIsSuffix'
    BY <1>0, <1>3, SuffixIs
  <2>2. FilesOK'
    BY <1>0, <1>3 DEF FilesOK, Moved
  <2> HIDE DEF LogIsSuffix, FilesOK
  <2> QED BY <1>0, <1>3, <2>1, <2>2 DEF Inv, TypeOK, HeldBack, Given, stream
<1>4. Start \/ Reopen \/ Close \/ StreamEnd \/ UNCHANGED vars => Inv'
  BY <1>3 DEF Start, EnsureOpen, Reopen, Close, IsOpen, StreamEnd, vars, logs, stream
<1> QED BY <1>1, <1>2, <1>4 DEF Next

\* The inductive invariant holds always.
LEMMA Invariant == Spec => []Inv
BY InitInv, InvStep, PTL DEF Spec

-----------------------------------------------------------------------------
\* Whatever the sizes of the ring and of the writes: the log request of the API returns the
\* last bytes that were captured (RingBuffer.Write, RingBuffer.Read).
THEOREM RingAlwaysTail == Spec => []RingIsTail
<1>1. Inv => RingIsTail
  <2> SUFFICES ASSUME Inv, NEW length \in 0..MaxReadAlloc + 1, ~(length > MaxReadAlloc)
      PROVE  LET asked == IF length = 0 THEN DefaultLength ELSE length
                 count == Min({asked, RingSize, Len(captured)})
             IN  ReadLog(length) =
                   [status |-> "ok",
                    data |-> SubSeq(captured, Len(captured) - count + 1, Len(captured))]
    BY DEF RingIsTail, ReadLog
  <2> DEFINE asked == IF length = 0 THEN DefaultLength ELSE length
  <2>1. captured \in Seq(Int) /\ RingHas(ring, captured, Len(captured))
    BY DEF Inv, TypeOK
  <2>2. asked \in 1..MaxReadAlloc
    BY CaptureConstants
  <2>3. ReadLog(length) = [status |-> "ok", data |-> RingRead(ring, asked)]
    BY CaptureConstants DEF ReadLog
  <2> HIDE DEF asked
  <2>4. LET count == Min({asked, RingSize, Len(captured)})
        IN  RingRead(ring, asked) = SubSeq(captured, Len(captured) - count + 1, Len(captured))
    BY <2>1, <2>2, ReadIsTail
  <2>5. LET count == Min({asked, RingSize, Len(captured)})
        IN  ReadLog(length) =
              [status |-> "ok",
               data |-> SubSeq(captured, Len(captured) - count + 1, Len(captured))]
    BY <2>3, <2>4
  <2> QED BY <2>5 DEF asked
<1> QED BY <1>1, Invariant, PTL

\* Whatever the limit, the number of backups and the output: rotations, failed writes and
\* renames, reopening and logrotate leave the log and its backups the last part of what
\* was written (CaptureWriter.Capture, rotateIfNeeded, rotateFile, Reopen).
THEOREM LogAlwaysSuffix == Spec => []LogIsSuffix
BY Invariant, PTL DEF Inv

\* As long as files can be renamed, neither the log file nor a backup outgrows its limit
\* (rotateIfNeeded).
THEOREM LogAlwaysBounded == Spec => []LogBounded
<1>1. Inv /\ LogBounded /\ [Next]_vars => LogBounded'
  <2> SUFFICES ASSUME Inv, LogBounded, [Next]_vars, cfg'.maxBytes # 0, "file" \notin failed'
      PROVE  /\ Len(dir'[0]) < cfg'.maxBytes
             /\ \A i \in 1..MaxBackups : Len(dir'[i]) < cfg'.maxBytes + MaxRead + MaxPending
    BY DEF LogBounded
  <2> DEFINE Bounded(d) == /\ Len(d[0]) < cfg.maxBytes
                           /\ \A i \in 1..MaxBackups : Len(d[i]) < cfg.maxBytes + MaxRead + MaxPending
  <2>0. /\ TypeOK /\ HeldBack /\ FilesOK /\ LogIsSuffix
        /\ cfg.maxBytes \in Nat /\ MaxBackups \in Nat /\ 0 \in 0..MaxBackups /\ dir \in Files
        /\ cfg.backups \in 0..MaxBackups /\ MaxRead \in Nat /\ MaxPending \in Nat
    BY ConfigHas, CaptureConstants DEF Inv, TypeOK
  <2>1. UNCHANGED cfg
    BY DEF Next, vars, Read, StreamEnd, Start, Reopen, Close, MoveAway
  <2>2. ASSUME UNCHANGED <<dir, failed>> PROVE Bounded(dir')
    BY <2>1, <2>2 DEF LogBounded
  <2>3. ASSUME MoveAway PROVE Bounded(dir')
    <3>1. "file" \notin failed /\ cfg.maxBytes # 0 /\ dir' = [dir EXCEPT ![0] = <<>>]
      BY <2>1, <2>3 DEF MoveAway
    <3>2. dir'[0] = <<>> /\ \A i \in 1..MaxBackups : dir'[i] = dir[i]
      BY <2>0, <3>1 DEF Files
    <3>3. Len(<<>>) < cfg.maxBytes
      BY <2>0, <3>1, EmptySeq
    <3> QED BY <3>1, <3>2, <3>3 DEF LogBounded
  <2>4. ASSUME NEW n \in 1..MaxRead, NEW chunk \in [1..n -> cfg.prints], Read(chunk)
        PROVE  Bounded(dir')
    <3>1. PICK data \in Seq(Int) : ReadsOn(data)
      BY <2>0, <2>4, ReadHas
    <3>2. Fresh(data, written) /\ WriteLog(data) /\ Len(data) <= MaxRead + MaxPending
      BY <3>1 DEF ReadsOn, Fresh, Given
    <3>3. ASSUME NEW put \in Starts(data), NEW d \in Files, NEW a \in Seq(Seq(Int)), Outcome(put, d, a)
          PROVE  Bounded(dir')
      <4>1. "file" \notin failed /\ cfg.maxBytes # 0
        BY <2>1, <3>3 DEF Outcome
      <4>2. Bounded(dir)
        BY <4>1 DEF LogBounded
      <4>3. \A i \in 1..MaxBackups : d[i] = dir[i]
        BY <3>3 DEF Outcome, Wrote
      <4>4. \A i \in 0..MaxBackups : Len(dir[i]) \in Nat /\ Len(d[i]) \in Nat
        <5>1. \A i \in 0..MaxBackups : dir[i] \in Seq(Int) /\ d[i] \in Seq(Int)
          BY <2>0, <3>3 DEF Files
        <5> QED BY <5>1, LenProperties
      <4>5. Len(<<>>) = 0 /\ 0 < cfg.maxBytes
        BY <2>0, <4>1
      <4>6. Len(d[0]) < cfg.maxBytes + MaxRead + MaxPending
        <5>1. Len(put) \in Nat /\ Len(put) <= MaxRead + MaxPending
          <6>1. Len(put) \in Nat /\ Len(data) \in Nat /\ Len(put) <= Len(data)
            BY <3>2, StartHas
          <6> QED BY <2>0, <3>2, <6>1
        <5>2. handle = "path" \/ d[0] = <<>>
          BY <3>3 DEF Outcome, Wrote, IsOpen
        <5>3. CASE handle = "path"
          <6>1. d[0] = dir[0] \o put /\ dir[0] \in Seq(Int) /\ put \in Seq(Int)
            BY <2>0, <3>3, <5>3 DEF Outcome, Wrote, Files, Fresh
          <6>2. Len(d[0]) = Len(dir[0]) + Len(put)
            BY <6>1, ConcatProperties
          <6>3. Len(dir[0]) < cfg.maxBytes /\ Len(dir[0]) \in Nat
            BY <2>0, <4>2, <4>4
          <6> QED BY <2>0, <5>1, <6>2, <6>3, SMTT(30)
        <5>4. CASE d[0] = <<>>
          BY <2>0, <4>5, <5>4
        <5> QED BY <5>2, <5>3, <5>4
      <4>7. \A i \in 1..MaxBackups : Len(d[i]) < cfg.maxBytes + MaxRead + MaxPending
        BY <4>2, <4>3
      <4>8. CASE dir' = d /\ (handle = "path" => ~TooLarge(d[0]))
        <5>1. Len(d[0]) < cfg.maxBytes
          <6>1. CASE handle = "path"
            BY <2>0, <4>1, <4>4, <4>8, <6>1 DEF TooLarge
          <6>2. CASE handle # "path"
            <7>1. d[0] = <<>>
              BY <3>3, <6>2 DEF Outcome, Wrote, IsOpen
            <7> QED BY <4>5, <7>1
          <6> QED BY <6>1, <6>2
        <5> QED BY <4>7, <4>8, <5>1
      <4>9. CASE dir' = [d EXCEPT ![0] = <<>>]
        <5>1. dir'[0] = <<>> /\ \A i \in 1..MaxBackups : dir'[i] = d[i]
          BY <2>0, <4>9 DEF Files
        <5> QED BY <4>5, <4>7, <5>1
      <4>10. ASSUME cfg.backups # 0, NEW ok \in [0..cfg.backups -> BOOLEAN],
                    dir' = rotateFile(d, cfg.backups, ok), failed' = failed \cup Failures(ok)
             PROVE  Bounded(dir')
        <5>1. cfg.backups \in 1..MaxBackups
          BY <2>0, <4>10
        <5>2. \A i \in 0..MaxBackups : i > cfg.backups => d[i] = <<>>
          <6>1. \A i \in 0..MaxBackups : i > cfg.backups => i \in 1..MaxBackups /\ dir[i] = <<>>
            BY <2>0 DEF FilesOK
          <6> QED BY <4>3, <6>1
        <5>3. /\ Suffix(d, BytesOf(a), written', failed)
              /\ BytesOf(a) \in SUBSET written' /\ written' \in SUBSET Int
          <6>1. written' \subseteq written \cup ToSet(data)
            BY <2>0, <2>1, <3>2, WriteLogStep
          <6>2. \A b \in ToSet(data) : b \in Int
            <7>1. data \in Seq(Int) /\ DOMAIN data = 1..Len(data) /\ \A i \in 1..Len(data) : data[i] \in Int
              BY LenProperties, ElementOfSeq
            <7> QED BY <7>1 DEF ToSet
          <6> QED BY <2>0, <3>3, <6>1, <6>2 DEF Outcome, Wrote, TypeOK
        <5>4. ok[0]
          BY <2>1, <4>10 DEF Failures
        <5>5. /\ dir'[0] = <<>>
              /\ \A i \in 0..MaxBackups : dir'[i] = <<>> \/ \E j \in 0..MaxBackups : dir'[i] = d[j]
          BY <4>10, <5>1, <5>2, <5>3, <5>4, RotateFiles
        <5>6. \A i \in 0..MaxBackups : Len(d[i]) < cfg.maxBytes + MaxRead + MaxPending
          <6>1. \A i \in 0..MaxBackups : i = 0 \/ i \in 1..MaxBackups
            BY <2>0
          <6> QED BY <4>6, <4>7, <6>1
        <5>7. 0 < cfg.maxBytes + MaxRead + MaxPending
          BY <2>0, <4>1
        <5>8. \A i \in 1..MaxBackups : Len(dir'[i]) < cfg.maxBytes + MaxRead + MaxPending
          <6> TAKE i \in 1..MaxBackups
          <6>1. i \in 0..MaxBackups
            BY <2>0
          <6> QED BY <4>5, <5>5, <5>6, <5>7, <6>1
        <5> QED BY <4>5, <5>5, <5>8
      <4>11. CASE failed' = failed \cup {"file"}
        BY <2>1, <4>11
      <4>12. CASE \E ok \in [0..cfg.backups -> BOOLEAN] :
                    dir' = rotateFile(d, cfg.backups, ok) /\ failed' = failed \cup Failures(ok)
        <5>1. CASE cfg.backups # 0
          <6> HIDE DEF Bounded
          <6> QED BY <4>10, <4>12, <5>1
        <5> QED BY <3>3, <4>8, <4>9, <4>11, <5>1 DEF Outcome
      <4> QED BY <3>3, <4>1, <4>8, <4>9, <4>11, <4>12 DEF Outcome
    <3>4. \/ UNCHANGED <<handle, dir, away, written, failed>>
          \/ \E put \in Starts(data), d \in Files, a \in Seq(Seq(Int)) : Outcome(put, d, a)
      BY <2>0, <3>2, WriteLogIs
    <3> HIDE DEF Bounded
    <3> QED BY <2>2, <3>3, <3>4
  <2>5. Bounded(dir')
    <3> HIDE DEF Bounded
    <3> QED BY <2>2, <2>3, <2>4 DEF Next, vars, logs, StreamEnd, Start, Reopen, Close
  <2> QED BY <2>1, <2>5
<1> QED BY <1>1, InitInv, Invariant, PTL DEF Spec


-----------------------------------------------------------------------------
(***************************************************************************)
(* Escape sequences of a stream.                                           *)
(***************************************************************************)
\* An escape sequence begins at j, and only its parameters have come before i.
Opens(k, j) == k[j] = "esc" /\ j < Len(k) /\ k[j + 1] = "["

Runs(k, j, i) == Opens(k, j) /\ \A m \in Nat : j + 2 <= m /\ m < i => k[m] = "param"

\* i does not continue an escape sequence.
Clear(k, i) == \A j \in Nat : 1 <= j /\ j < i => ~Runs(k, j, i)

\* The bytes of the stream k from a to b that are not part of an escape sequence.
Plain(k, a, b) == {i \in a..b : ~InCSI(k, i)}

\* InCSI in these words.
LEMMA InCSIs ==
  ASSUME NEW k, NEW i \in Nat
  PROVE  InCSI(k, i) <=> \E j \in 1..i : Runs(k, j, i)
<1>1. ASSUME NEW j \in 1..i
      PROVE  (\A m \in j + 2..i - 1 : k[m] = "param") <=> \A m \in Nat : j + 2 <= m /\ m < i => k[m] = "param"
  <2>1. \A m : m \in j + 2..i - 1 <=> m \in Nat /\ j + 2 <= m /\ m < i
    OBVIOUS
  <2> QED BY <2>1
<1> QED BY <1>1 DEF InCSI, Runs, Opens

\* What was known of the stream when it ended at n, if it goes on.
LEMMA Prefix ==
  ASSUME NEW k \in Seq(Kinds), NEW l \in Seq(Kinds), Len(k) <= Len(l),
         \A i \in 1..Len(k) : l[i] = k[i]
  PROVE  /\ WellFormed(l) => WellFormed(k)
         /\ \A i \in 1..Len(k) + 1 : Clear(k, i) /\ (i = Len(k) + 1 /\ i > 1 => k[i - 1] # "esc") => Clear(l, i)
         /\ \A i \in 1..Len(k) : ~(i = Len(k) /\ k[i] = "esc") => (InCSI(k, i) <=> InCSI(l, i))
<1>1. Len(k) \in Nat /\ Len(l) \in Nat
  BY LenProperties
<1>2. WellFormed(l) => WellFormed(k)
  <2> SUFFICES ASSUME WellFormed(l), NEW j \in 1..Len(k) - 1, k[j] = "esc", k[j + 1] = "[",
                      NEW i \in j + 2..Len(k), \A m \in j + 2..i - 1 : k[m] = "param"
      PROVE  IsFinal(k[i]) \/ (k[i] = "param" /\ i - j < MaxPending)
    BY DEF WellFormed
  <2>1. j \in 1..Len(l) - 1 /\ i \in j + 2..Len(l)
    BY <1>1
  <2>2. l[j] = "esc" /\ l[j + 1] = "[" /\ l[i] = k[i]
    <3>1. j \in 1..Len(k) /\ j + 1 \in 1..Len(k) /\ i \in 1..Len(k)
      BY <1>1
    <3> QED BY <3>1
  <2>3. \A m \in j + 2..i - 1 : l[m] = "param"
    <3>1. \A m \in j + 2..i - 1 : m \in 1..Len(k)
      BY <1>1
    <3> QED BY <3>1
  <2>4. IsFinal(l[i]) \/ (l[i] = "param" /\ i - j < MaxPending)
    BY <2>1, <2>2, <2>3 DEF WellFormed
  <2> QED BY <2>2, <2>4
<1>3. ASSUME NEW i \in 1..Len(k) + 1, NEW j \in Nat, 1 <= j, j < i, Runs(l, j, i),
             i = Len(k) + 1 /\ i > 1 => k[i - 1] # "esc"
      PROVE  Runs(k, j, i)
  <2>1. j \in 1..Len(k) /\ \A m \in Nat : j + 2 <= m /\ m < i => m \in 1..Len(k)
    BY <1>1, <1>3
  <2>2. j < Len(k)
    <3>1. j = Len(k) => i = Len(k) + 1 /\ i > 1 /\ i - 1 = j
      BY <1>1, <1>3, <2>1
    <3> QED BY <1>1, <1>3, <2>1, <3>1 DEF Runs, Opens
  <2>3. j + 1 \in 1..Len(k)
    BY <1>1, <2>1, <2>2
  <2> QED BY <1>3, <2>1, <2>2, <2>3 DEF Runs, Opens
<1>4. ASSUME NEW i \in 1..Len(k), ~(i = Len(k) /\ k[i] = "esc"), NEW j \in 1..i
      PROVE  Runs(k, j, i) <=> Runs(l, j, i)
  <2>1. j \in 1..Len(k) /\ \A m \in Nat : j + 2 <= m /\ m < i => m \in 1..Len(k)
    BY <1>1
  <2>2. CASE j < Len(k)
    <3>1. j + 1 \in 1..Len(k) /\ j < Len(l)
      BY <1>1, <2>1, <2>2
    <3> QED BY <2>1, <2>2, <3>1 DEF Runs, Opens
  <2>3. CASE ~(j < Len(k))
    <3>1. j = Len(k) /\ i = Len(k)
      BY <1>1, <2>1, <2>3
    <3> QED BY <1>4, <2>1, <3>1 DEF Runs, Opens
  <2> QED BY <2>2, <2>3
<1>5. \A i \in 1..Len(k) : ~(i = Len(k) /\ k[i] = "esc") => (InCSI(k, i) <=> InCSI(l, i))
  BY <1>4, InCSIs
<1>6. \A i \in 1..Len(k) + 1 : Clear(k, i) /\ (i = Len(k) + 1 /\ i > 1 => k[i - 1] # "esc") => Clear(l, i)
  BY <1>3 DEF Clear
<1> QED BY <1>2, <1>5, <1>6

-----------------------------------------------------------------------------
(***************************************************************************)
(* StripANSI leaves out the escape sequences of a piece of the stream that *)
(* neither begins nor, unless the stream does, ends in the middle of one.  *)
(***************************************************************************)
\* d are the bytes of the stream k behind the first c.
Piece(k, d, c) ==
  /\ k \in Seq(Kinds) /\ d \in Seq(Int) /\ c \in Nat /\ c + Len(d) <= Len(k)
  /\ \A i \in 1..Len(d) : d[i] = c + i

\* A byte that begins no escape sequence is plain, and what follows it continues none.
LEMMA PlainByte ==
  ASSUME NEW k, NEW d, NEW c, Piece(k, d, c), NEW i \in 1..Len(d), Clear(k, c + i),
         Clear(k, c + Len(d) + 1) \/ c + Len(d) = Len(k), ~StartsCSI(k, d, i)
  PROVE  ~InCSI(k, c + i) /\ Clear(k, c + i + 1)
<1>1. Len(k) \in Nat /\ Len(d) \in Nat /\ c \in Nat /\ c + Len(d) <= Len(k)
  BY LenProperties DEF Piece
<1>2. ~Opens(k, c + i)
  <2>1. CASE i < Len(d)
    <3>1. d[i] = c + i /\ d[i + 1] = c + i + 1
      <4>1. i + 1 \in 1..Len(d) /\ c + (i + 1) = c + i + 1
        BY <1>1, <2>1
      <4> QED BY <4>1 DEF Piece
    <3> QED BY <2>1, <3>1 DEF StartsCSI, Opens
  <2>2. CASE i = Len(d) /\ Clear(k, c + Len(d) + 1)
    <3>1. c + i \in Nat /\ 1 <= c + i /\ c + i < c + Len(d) + 1
      BY <1>1, <2>2
    <3>2. ~Runs(k, c + i, c + Len(d) + 1)
      BY <2>2, <3>1 DEF Clear
    <3>3. \A m \in Nat : ~(c + i + 2 <= m /\ m < c + Len(d) + 1)
      BY <1>1, <2>2
    <3> QED BY <1>1, <3>2, <3>3 DEF Runs
  <2>3. CASE i = Len(d) /\ c + Len(d) = Len(k)
    BY <1>1, <2>3 DEF Opens
  <2> QED BY <1>1, <2>1, <2>2, <2>3
<1>3. ASSUME NEW j \in Nat, 1 <= j, j <= c + i PROVE ~Runs(k, j, c + i) /\ ~Runs(k, j, c + i + 1)
  <2>1. CASE j = c + i
    BY <1>2, <2>1 DEF Runs
  <2>2. CASE j # c + i
    <3>1. j < c + i /\ \A m \in Nat : m < c + i => m < c + i + 1
      BY <1>1, <1>3, <2>2
    <3>2. ~Runs(k, j, c + i)
      BY <1>3, <3>1 DEF Clear
    <3> QED BY <3>1, <3>2 DEF Runs
  <2> QED BY <2>1, <2>2
<1>4. c + i \in Nat /\ \A j \in Nat : j < c + i + 1 => j <= c + i
  BY <1>1
<1> QED BY <1>3, <1>4, InCSIs DEF Clear

\* An escape sequence is left out as a whole.
LEMMA SkippedBytes ==
  ASSUME NEW k, NEW d, NEW c, Piece(k, d, c), WellFormed(k), NEW i \in 1..Len(d), Clear(k, c + i),
         StartsCSI(k, d, i)
  PROVE  LET e == SkipCSI(k, d, i + 2) IN
         /\ e \in i + 1..Len(d) + 1 /\ \A m \in i..e - 1 : InCSI(k, c + m)
         /\ Clear(k, c + e) \/ e = Len(d) + 1
<1> DEFINE n == Len(d)
           ends == {j \in i + 2..n : IsFinal(k[d[j]])}
           e == SkipCSI(k, d, i + 2)
<1>1. Len(k) \in Nat /\ n \in Nat /\ c \in Nat /\ c + n <= Len(k) /\ d \in Seq(Int)
  BY LenProperties DEF Piece
<1>2. i + 1 \in 1..n /\ d[i] = c + i /\ d[i + 1] = c + (i + 1)
  BY <1>1 DEF StartsCSI, Piece
<1>3. Opens(k, c + i) /\ c + i + 1 = c + (i + 1) /\ c + i \in 1..Len(k) - 1
  <2>1. c + i + 1 = c + (i + 1) /\ c + i < Len(k) /\ c + i \in 1..Len(k) - 1
    BY <1>1, <1>2
  <2> QED BY <1>2, <2>1 DEF StartsCSI, Opens
<1>4. \A m \in i + 2..n : d[m] = c + m /\ m \in 1..n
  BY <1>1 DEF Piece
<1>5. e \in i + 1..n + 1
  BY <1>1, SkipGoesOn
<1>6. e = IF ends = {} THEN n + 1 ELSE (CHOOSE j \in ends : \A m \in ends : j <= m) + 1
  BY DEF SkipCSI
<1>7. e - 1 \in i..n /\ (e = n + 1 \/ e - 1 \in ends) /\ \A m \in i + 2..e - 2 : m \notin ends
  <2>1. CASE ends = {}
    BY <1>1, <1>5, <1>6, <2>1, SMTT(30)
  <2>2. CASE ends # {}
    <3>1. ends \subseteq Nat
      BY <1>1
    <3>2. \E j \in ends : \A m \in ends : j <= m
      <4> HIDE DEF ends
      <4> QED BY <2>2, <3>1, Least
    <3> DEFINE l == CHOOSE j \in ends : \A m \in ends : j <= m
    <3>3. l \in ends /\ \A m \in ends : l <= m
      BY <3>2
    <3>4. e = l + 1
      BY <1>6, <2>2
    <3> HIDE DEF l, e
    <3>5. l \in i + 2..n /\ e - 1 = l /\ e - 2 = l - 1
      BY <1>1, <3>3, <3>4
    <3>6. \A m \in i + 2..l - 1 : m \notin ends
      <4> HIDE DEF ends
      <4>1. \A m \in i + 2..l - 1 : ~(l <= m)
        BY <1>1, <3>5
      <4> QED BY <3>3, <4>1
    <3> QED BY <1>1, <3>3, <3>5, <3>6, SMTT(30)
  <2> QED BY <2>1, <2>2
<1> HIDE DEF e
<1>8. \A m \in Nat : i + 2 <= m /\ m < e - 1 => k[c + m] = "param"
  <2> DEFINE T == {m \in Nat : i + 2 <= m /\ m < e - 1 /\ k[c + m] # "param"}
  <2> SUFFICES ASSUME T # {} PROVE FALSE
    OBVIOUS
  <2>1. T \subseteq Nat
    OBVIOUS
  <2>2. PICK m \in T : \A l \in T : m <= l
    <3> HIDE DEF T
    <3> QED BY <2>1, Least
  <2>3. m \in i + 2..n /\ m \notin ends
    <3>1. m \in Nat /\ i + 2 <= m /\ m < e - 1
      BY <2>2
    <3>2. m \in i + 2..e - 2 /\ m \in i + 2..n
      BY <1>1, <1>5, <3>1
    <3> QED BY <1>7, <3>2
  <2>4. \A l \in c + i + 2..c + m - 1 : k[l] = "param"
    <3> SUFFICES ASSUME NEW l \in c + i + 2..c + m - 1 PROVE k[l] = "param"
      OBVIOUS
    <3>1. l - c \in Nat /\ i + 2 <= l - c /\ l - c < m /\ c + (l - c) = l
      BY <1>1, <2>3
    <3>2. l - c < e - 1 /\ ~(m <= l - c)
      <4>1. m < e - 1 /\ m \in Nat
        BY <2>2
      <4> QED BY <1>1, <1>5, <3>1, <4>1
    <3> QED BY <2>2, <3>1, <3>2
  <2>5. \A l \in (c + i) + 2..(c + m) - 1 : k[l] = "param"
    <3>1. (c + i) + 2 = c + i + 2 /\ (c + m) - 1 = c + m - 1
      BY <1>1, <2>3
    <3> QED BY <2>4, <3>1
  <2>6. c + m \in (c + i) + 2..Len(k)
    BY <1>1, <2>3
  <2>7. IsFinal(k[c + m]) \/ k[c + m] = "param"
    <3>1. k[c + i] = "esc" /\ k[(c + i) + 1] = "["
      BY <1>3 DEF Opens
    <3> QED BY <1>3, <2>5, <2>6, <3>1 DEF WellFormed
  <2> QED BY <1>4, <2>2, <2>3, <2>7
<1>9. \A l \in Nat : (c + i) + 2 <= l /\ l < c + (e - 1) => k[l] = "param"
  <2> SUFFICES ASSUME NEW l \in Nat, (c + i) + 2 <= l, l < c + (e - 1) PROVE k[l] = "param"
    OBVIOUS
  <2>1. l - c \in Nat /\ i + 2 <= l - c /\ l - c < e - 1 /\ c + (l - c) = l
    BY <1>1, <1>5
  <2> QED BY <1>8, <2>1
<1>10. \A m \in i..e - 1 : InCSI(k, c + m)
  <2> SUFFICES ASSUME NEW m \in i..e - 1 PROVE InCSI(k, c + m)
    OBVIOUS
  <2>1. c + i \in 1..c + m /\ c + m \in Nat /\ \A l \in Nat : l < c + m => l < c + (e - 1)
    BY <1>1, <1>5
  <2>2. Runs(k, c + i, c + m)
    BY <1>3, <1>9, <2>1 DEF Runs
  <2> QED BY <2>1, <2>2, InCSIs
<1>11. ASSUME e # n + 1 PROVE Clear(k, c + e)
  <2>1. IsFinal(k[c + (e - 1)]) /\ e - 1 \in i + 2..n
    <3>1. e - 1 \in ends
      BY <1>7, <1>11
    <3>2. e - 1 \in i + 2..n /\ IsFinal(k[d[e - 1]])
      BY <3>1
    <3>3. d[e - 1] = c + (e - 1)
      BY <1>4, <3>2
    <3> QED BY <3>2, <3>3
  <2> SUFFICES ASSUME NEW j \in Nat, 1 <= j, j < c + e, Runs(k, j, c + e) PROVE FALSE
    BY DEF Clear
  <2>2. CASE j < c + i
    <3>1. \A m \in Nat : m < c + i => m < c + e
      BY <1>1, <1>5
    <3>2. Runs(k, j, c + i)
      BY <3>1 DEF Runs
    <3> QED BY <2>2, <3>2 DEF Clear
  <2>3. CASE j = c + i
    <3>1. c + (e - 1) \in Nat /\ j + 2 <= c + (e - 1) /\ c + (e - 1) < c + e
      BY <1>1, <1>5, <2>1, <2>3
    <3>2. k[c + (e - 1)] = "param"
      BY <3>1 DEF Runs
    <3> QED BY <2>1, <3>2 DEF IsFinal
  <2>4. CASE j > c + i
    <3>1. k[j] = "esc"
      BY DEF Runs, Opens
    <3>2. j = (c + i) + 1 \/ ((c + i) + 2 <= j /\ j < c + (e - 1)) \/ j = c + (e - 1)
      BY <1>1, <1>5, <2>4
    <3>3. k[(c + i) + 1] = "["
      BY <1>3 DEF Opens
    <3> QED BY <1>9, <2>1, <3>1, <3>2, <3>3 DEF IsFinal
  <2>5. c + i \in Nat
    BY <1>1
  <2> QED BY <2>2, <2>3, <2>4, <2>5
<1> QED BY <1>5, <1>10, <1>11 DEF e

\* Plain bytes, one after the other.
LEMMA PlainNext ==
  ASSUME NEW k, NEW a \in Nat, NEW b \in Nat
  PROVE  /\ a > b => Plain(k, a, b) = {}
         /\ a <= b /\ ~InCSI(k, a) => Plain(k, a, b) = {a} \cup Plain(k, a + 1, b)
         /\ \A e \in Nat : a <= e /\ e <= b + 1 /\ (\A i \in a..e - 1 : InCSI(k, i)) => Plain(k, a, b) = Plain(k, e, b)
<1>1. a <= b /\ ~InCSI(k, a) => Plain(k, a, b) = {a} \cup Plain(k, a + 1, b)
  <2> SUFFICES ASSUME a <= b, ~InCSI(k, a) PROVE Plain(k, a, b) = {a} \cup Plain(k, a + 1, b)
    OBVIOUS
  <2>1. \A i : i \in a..b <=> i = a \/ i \in a + 1..b
    OBVIOUS
  <2> QED BY <2>1 DEF Plain
<1>2. ASSUME NEW e \in Nat, a <= e, e <= b + 1, \A i \in a..e - 1 : InCSI(k, i)
      PROVE  Plain(k, a, b) = Plain(k, e, b)
  <2>1. \A i : i \in a..b /\ i \notin a..e - 1 <=> i \in e..b
    BY <1>2
  <2> QED BY <1>2, <2>1 DEF Plain
<1> QED BY <1>1, <1>2 DEF Plain

\* Of such a piece StripANSI returns the plain bytes.
LEMMA StripIsPlain ==
  ASSUME NEW k, NEW d, NEW c, Piece(k, d, c), WellFormed(k), Clear(k, c + 1),
         Clear(k, c + Len(d) + 1) \/ c + Len(d) = Len(k)
  PROVE  ToSet(StripANSI(k, d)) = Plain(k, c + 1, c + Len(d))
<1> DEFINE n == Len(d)
<1>1. Len(k) \in Nat /\ n \in Nat /\ c \in Nat /\ c + n <= Len(k) /\ d \in Seq(Int)
  BY LenProperties DEF Piece
<1>2. PICK rest : /\ StripANSI(k, d) = rest[1]
                  /\ \A i \in 1..n + 1 : rest[i] = StripTurn(k, d, rest, i)
  BY <1>1, StripIs
<1> DEFINE Good(i) == /\ rest[i] \in Seq(Int)
                      /\ i = n + 1 \/ Clear(k, c + i) => ToSet(rest[i]) = Plain(k, c + i, c + n)
<1>3. Good(n + 1)
  <2>1. rest[n + 1] = <<>>
    <3>1. n + 1 \in 1..n + 1 /\ n + 1 > n
      BY <1>1
    <3> QED BY <1>2, <3>1 DEF StripTurn
  <2>2. Plain(k, c + (n + 1), c + n) = {}
    <3>1. c + (n + 1) \in Nat /\ c + n \in Nat /\ c + (n + 1) > c + n
      BY <1>1
    <3> QED BY <3>1, PlainNext
  <2> QED BY <2>1, <2>2 DEF ToSet
<1>4. ASSUME NEW i \in 1..n, \A j \in i + 1..n + 1 : Good(j) PROVE Good(i)
  <2>0. rest[i] = StripTurn(k, d, rest, i) /\ ~(i > n) /\ i # n + 1
    BY <1>1, <1>2
  <2>1. CASE StartsCSI(k, d, i)
    <3> DEFINE e == SkipCSI(k, d, i + 2)
    <3>1. rest[i] = rest[e] /\ e \in i + 1..n + 1
      BY <1>1, <2>0, <2>1, SkipGoesOn DEF StripTurn
    <3> HIDE DEF e
    <3>2. Good(e)
      BY <1>4, <3>1
    <3>3. ASSUME Clear(k, c + i) PROVE ToSet(rest[i]) = Plain(k, c + i, c + n)
      <4>1. (\A m \in i..e - 1 : InCSI(k, c + m)) /\ (Clear(k, c + e) \/ e = n + 1)
        BY <2>1, <3>3, SkippedBytes DEF e
      <4>2. ToSet(rest[i]) = Plain(k, c + e, c + n)
        BY <3>1, <3>2, <4>1
      <4>3. Plain(k, c + i, c + n) = Plain(k, c + e, c + n)
        <5>1. c + i \in Nat /\ c + e \in Nat /\ c + n \in Nat /\ c + i <= c + e /\ c + e <= (c + n) + 1
          BY <1>1, <3>1
        <5>2. ASSUME NEW l \in c + i..(c + e) - 1 PROVE InCSI(k, l)
          <6>1. l - c \in i..e - 1 /\ c + (l - c) = l
            BY <1>1, <3>1
          <6> QED BY <4>1, <6>1
        <5> QED BY <5>1, <5>2, PlainNext
      <4> QED BY <4>2, <4>3
    <3> QED BY <2>0, <3>1, <3>2, <3>3
  <2>2. CASE ~StartsCSI(k, d, i)
    <3>1. rest[i] = <<d[i]>> \o rest[i + 1] /\ d[i] = c + i
      BY <2>0, <2>2 DEF StripTurn, Piece
    <3>2. Good(i + 1)
      <4>1. i + 1 \in i + 1..n + 1
        BY <1>1
      <4> QED BY <1>4, <4>1
    <3>3. c + i \in Int /\ <<c + i>> \in Seq(Int) /\ ToSet(<<c + i>>) = {c + i}
      BY <1>1 DEF ToSet
    <3>4. rest[i] \in Seq(Int) /\ ToSet(rest[i]) = {c + i} \cup ToSet(rest[i + 1])
      <4> DEFINE s == <<c + i>>
                 t == rest[i + 1]
      <4>1. s \in Seq(Int) /\ t \in Seq(Int) /\ ToSet(s) = {c + i} /\ rest[i] = s \o t
        BY <3>1, <3>2, <3>3
      <4> HIDE DEF s, Good
      <4>2. ToSet(rest[i]) = ToSet(s) \cup ToSet(t) /\ rest[i] \in Seq(Int)
        <5> HIDE DEF t
        <5> QED BY <4>1, ConcatHas
      <4> QED BY <4>1, <4>2
    <3>5. ASSUME Clear(k, c + i) PROVE ToSet(rest[i]) = Plain(k, c + i, c + n)
      <4>1. ~InCSI(k, c + i) /\ Clear(k, c + i + 1)
        BY <2>2, <3>5, PlainByte
      <4>2. c + i + 1 = c + (i + 1) /\ c + (i + 1) = (c + i) + 1 /\ c + i \in Nat /\ c + n \in Nat /\ c + i <= c + n
        BY <1>1
      <4>3. ToSet(rest[i + 1]) = Plain(k, c + (i + 1), c + n)
        BY <3>2, <4>1, <4>2
      <4>4. Plain(k, c + i, c + n) = {c + i} \cup Plain(k, (c + i) + 1, c + n)
        BY <4>1, <4>2, PlainNext
      <4> QED BY <3>4, <4>2, <4>3, <4>4
    <3> QED BY <2>0, <3>4, <3>5
  <2> QED BY <2>1, <2>2
<1> HIDE DEF Good
<1>5. \A m \in Nat : m <= n => \A i \in n + 1 - m..n + 1 : Good(i)
  <2> DEFINE T == {m \in Nat : m <= n => \A i \in n + 1 - m..n + 1 : Good(i)}
  <2>1. 0 \in T
    <3>1. \A i \in n + 1 - 0..n + 1 : i = n + 1
      BY <1>1
    <3> QED BY <1>3, <3>1
  <2>2. ASSUME NEW m \in Nat, m \in T PROVE m + 1 \in T
    <3> SUFFICES ASSUME m + 1 <= n, NEW i \in n + 1 - (m + 1)..n + 1 PROVE Good(i)
      BY <1>1
    <3>1. \A j \in n + 1 - m..n + 1 : Good(j)
      BY <1>1, <2>2
    <3>2. CASE i \in n + 1 - m..n + 1
      BY <3>1, <3>2
    <3>3. CASE i = n - m
      <4>1. i \in 1..n /\ \A j \in i + 1..n + 1 : j \in n + 1 - m..n + 1
        BY <1>1, <3>3
      <4> QED BY <1>4, <3>1, <4>1
    <3> QED BY <1>1, <3>2, <3>3
  <2> HIDE DEF T
  <2>3. \A m \in Nat : m \in T
    BY <2>1, <2>2, Induct
  <2> QED BY <2>3 DEF T
<1>6. Good(1)
  <2>1. n + 1 - n = 1 /\ n <= n /\ 1 \in 1..n + 1
    BY <1>1
  <2> QED BY <1>1, <1>5, <2>1
<1> QED BY <1>2, <1>6 DEF Good

-----------------------------------------------------------------------------
(***************************************************************************)
(* Where the stripper cuts.                                                *)
(***************************************************************************)
\* At p begins an escape sequence that the stream ends in; a last ESC may be one.
OpenAt(k, p) ==
  /\ p \in 1..Len(k) /\ k[p] = "esc"
  /\ p = Len(k) \/ k[p + 1] = "["
  /\ \A m \in Nat : p + 2 <= m /\ m <= Len(k) => k[m] = "param"

\* p is where Strip cuts: what is behind it is unfinished, what comes before is not.
CutsAt(k, p) ==
  /\ p \in 1..Len(k) + 1 /\ Clear(k, p)
  /\ p <= Len(k) => OpenAt(k, p)
  /\ p = Len(k) + 1 /\ p > 1 => k[p - 1] # "esc"

\* Such a sequence is not inside of another one, and it is short enough to be held back.
LEMMA OpenIsShort ==
  ASSUME NEW k \in Seq(Kinds), WellFormed(k), NEW p, OpenAt(k, p)
  PROVE  Clear(k, p) /\ Len(k) - p + 1 <= MaxPending
<1>1. MaxPending \in Nat /\ MaxPending >= 2 /\ Len(k) \in Nat /\ p \in 1..Len(k)
  BY CaptureConstants, LenProperties DEF OpenAt
<1>2. ASSUME NEW j \in Nat, 1 <= j, j < p, Runs(k, j, p) PROVE FALSE
  <2>1. k[j] = "esc" /\ k[j + 1] = "[" /\ k[p] = "esc" /\ j \in 1..Len(k) - 1
    BY <1>1, <1>2 DEF Runs, Opens, OpenAt
  <2>2. p \in j + 2..Len(k) /\ \A m \in j + 2..p - 1 : k[m] = "param"
    <3>1. p # j + 1
      BY <2>1
    <3>2. \A m \in j + 2..p - 1 : m \in Nat /\ j + 2 <= m /\ m < p
      BY <1>1
    <3> QED BY <1>1, <1>2, <3>1, <3>2 DEF Runs
  <2>3. IsFinal(k[p]) \/ k[p] = "param"
    BY <2>1, <2>2 DEF WellFormed
  <2> QED BY <2>1, <2>3 DEF IsFinal
<1>3. CASE p + 2 <= Len(k)
  <2>1. k[p] = "esc" /\ k[p + 1] = "[" /\ p \in 1..Len(k) - 1 /\ Len(k) \in p + 2..Len(k)
    BY <1>1, <1>3 DEF OpenAt
  <2>2. k[Len(k)] = "param" /\ \A m \in p + 2..Len(k) - 1 : k[m] = "param"
    <3>1. \A m \in p + 2..Len(k) : m \in Nat /\ p + 2 <= m /\ m <= Len(k)
      BY <1>1
    <3>2. \A m \in p + 2..Len(k) - 1 : m \in p + 2..Len(k)
      BY <1>1
    <3> QED BY <2>1, <3>1, <3>2 DEF OpenAt
  <2>3. Len(k) - p < MaxPending
    BY <2>1, <2>2 DEF WellFormed, IsFinal
  <2> QED BY <1>1, <1>2, <2>3 DEF Clear
<1>4. CASE ~(p + 2 <= Len(k))
  <2>1. Len(k) - p + 1 <= 2
    BY <1>1, <1>4
  <2> QED BY <1>1, <1>2, <2>1 DEF Clear
<1> QED BY <1>3, <1>4

\* What is read is cut where a sequence begins that the stream ends in, or not at all.
LEMMA CutIs ==
  ASSUME NEW k, NEW d, NEW c, Piece(k, d, c), c + Len(d) = Len(k), Len(d) > 0,
         WellFormed(k), Clear(k, c + 1)
  PROVE  LET cut == unfinishedEscape(k, d) IN
         cut \in 1..Len(d) + 1 /\ Len(d) - cut + 1 <= MaxPending /\ CutsAt(k, c + cut)
<1> DEFINE n == Len(d)
           Open(i) == /\ k[d[i]] = "esc"
                      /\ i = n \/ k[d[i + 1]] = "["
                      /\ \A j \in i + 2..n : k[d[j]] = "param"
           at == {i \in 1..n : n - i + 1 <= MaxPending + 1 /\ Open(i)}
           cut == unfinishedEscape(k, d)
<1>1. /\ MaxPending \in Nat /\ MaxPending >= 2 /\ k \in Seq(Kinds) /\ Len(k) \in Nat /\ n \in Nat
      /\ c \in Nat /\ c + n = Len(k) /\ n > 0
  BY CaptureConstants, LenProperties DEF Piece
<1>2. cut = IF at = {} THEN n + 1 ELSE CHOOSE i \in at : TRUE
  BY DEF unfinishedEscape
<1>3. ASSUME NEW i \in 1..n PROVE Open(i) <=> OpenAt(k, c + i)
  <2>1. d[i] = c + i /\ (i = n <=> c + i = Len(k)) /\ c + i \in 1..Len(k)
    BY <1>1 DEF Piece
  <2>2. i # n => d[i + 1] = (c + i) + 1
    <3>1. i # n => i + 1 \in 1..n /\ c + (i + 1) = (c + i) + 1
      BY <1>1
    <3> QED BY <3>1 DEF Piece
  <2>3. ASSUME NEW j \in i + 2..n
        PROVE  d[j] = c + j /\ c + j \in Nat /\ (c + i) + 2 <= c + j /\ c + j <= Len(k)
    <3>1. j \in 1..n
      BY <1>1
    <3> QED BY <1>1, <3>1 DEF Piece
  <2>4. ASSUME NEW m \in Nat, (c + i) + 2 <= m, m <= Len(k)
        PROVE  m - c \in i + 2..n /\ d[m - c] = m
    <3>1. m - c \in i + 2..n /\ m - c \in 1..n /\ c + (m - c) = m
      BY <1>1, <2>4
    <3> QED BY <3>1 DEF Piece
  <2>5. (\A j \in i + 2..n : k[d[j]] = "param")
        <=> \A m \in Nat : (c + i) + 2 <= m /\ m <= Len(k) => k[m] = "param"
    BY <2>3, <2>4
  <2> QED BY <2>1, <2>2, <2>5 DEF OpenAt
<1> HIDE DEF Open
<1>4. CASE at # {}
  <2>1. cut \in at
    BY <1>2, <1>4
  <2>2. cut \in 1..n /\ OpenAt(k, c + cut)
    <3> HIDE DEF cut
    <3> QED BY <1>3, <2>1
  <2> HIDE DEF cut, at
  <2>3. Clear(k, c + cut) /\ Len(k) - (c + cut) + 1 <= MaxPending
    BY <1>1, <2>2, OpenIsShort
  <2> QED BY <1>1, <2>2, <2>3 DEF CutsAt, cut
<1>5. CASE at = {}
  <2>1. cut = n + 1 /\ c + cut = Len(k) + 1
    BY <1>1, <1>2, <1>5
  <2>2. ASSUME NEW j \in Nat, 1 <= j, j < Len(k) + 1, c < j, OpenAt(k, j) PROVE FALSE
    <3>1. j - c \in 1..n /\ c + (j - c) = j
      BY <1>1, <2>2
    <3>2. Len(k) - j + 1 <= MaxPending
      BY <1>1, <2>2, OpenIsShort
    <3>3. n - (j - c) + 1 <= MaxPending + 1
      BY <1>1, <2>2, <3>2
    <3>4. j - c \in at
      BY <1>3, <2>2, <3>1, <3>3
    <3> QED BY <1>5, <3>4
  <2> HIDE DEF at, cut
  <2>3. k[Len(k)] # "esc"
    <3>1. k[Len(k)] = "esc" => OpenAt(k, Len(k))
      BY <1>1 DEF OpenAt
    <3> QED BY <1>1, <2>2, <3>1
  <2>4. ASSUME NEW j \in Nat, 1 <= j, j < Len(k) + 1, Runs(k, j, Len(k) + 1) PROVE FALSE
    <3>1. CASE j <= c
      <4>1. c + 1 <= Len(k) + 1 /\ j < c + 1
        BY <1>1, <3>1
      <4>2. \A m \in Nat : m < c + 1 => m < Len(k) + 1
        BY <1>1
      <4>3. Runs(k, j, c + 1)
        BY <2>4, <4>2 DEF Runs
      <4> QED BY <2>4, <4>1, <4>3 DEF Clear
    <3>2. CASE c < j
      <4>1. OpenAt(k, j)
        BY <1>1, <2>4 DEF Runs, Opens, OpenAt
      <4> QED BY <2>2, <2>4, <3>2, <4>1
    <3> QED BY <1>1, <3>1, <3>2
  <2>5. CutsAt(k, Len(k) + 1)
    BY <1>1, <2>3, <2>4 DEF CutsAt, Clear
  <2> QED BY <1>1, <2>1, <2>5 DEF cut
<1> QED BY <1>4, <1>5

-----------------------------------------------------------------------------
(***************************************************************************)
(* What is captured.                                                       *)
(***************************************************************************)
\* The bytes of a chunk.
Raw(chunk) == [i \in 1..Len(chunk) |-> Len(input) + i]

\* What is held back of the stream is what Strip cut off, and all plain bytes before it
\* were passed on.
HeldIs ==
  LET c == Len(input) - Len(pending)
  IN  /\ Piece(input, pending, c) /\ CutsAt(input, c + 1)
      /\ ToSet(captured) = Plain(input, 1, c)

StreamInv ==
  /\ ~cfg.strip => pending = <<>> /\ ToSet(captured) = 1..Len(input)
  /\ cfg.strip /\ WellFormed(input) => HeldIs

\* The bytes held back and the next ones are a piece of the stream.
LEMMA PieceGoesOn ==
  ASSUME NEW k \in Seq(Kinds), NEW held \in Seq(Int), NEW raw \in Seq(Int), NEW c \in Nat,
         c + (Len(held) + Len(raw)) = Len(k),
         \A i \in 1..Len(held) : held[i] = c + i,
         \A i \in 1..Len(raw) : raw[i] = c + Len(held) + i
  PROVE  Piece(k, held \o raw, c) /\ c + Len(held \o raw) = Len(k)
<1> DEFINE h == Len(held)
           n == Len(raw)
           all == held \o raw
<1>1. /\ all \in Seq(Int) /\ Len(all) = h + n /\ h \in Nat /\ n \in Nat
      /\ \A i \in 1..h + n : all[i] = IF i <= h THEN held[i] ELSE raw[i - h]
  BY ConcatProperties, LenProperties
<1>2. /\ \A i \in 1..h : held[i] = c + i
      /\ \A i \in 1..n : raw[i] = c + h + i
  OBVIOUS
<1>3. c + Len(all) = Len(k)
  BY <1>1
<1> HIDE DEF h, n, all
<1>4. ASSUME NEW i \in 1..h + n PROVE all[i] = c + i
  <2>1. CASE i <= h
    <3>1. i \in 1..h
      BY <1>1, <2>1
    <3>2. all[i] = held[i]
      BY <1>1, <2>1
    <3> QED BY <1>2, <3>1, <3>2
  <2>2. CASE ~(i <= h)
    <3>1. i - h \in 1..n /\ c + h + (i - h) = c + i
      BY <1>1, <2>2
    <3>2. all[i] = raw[i - h]
      BY <1>1, <2>2
    <3> QED BY <1>2, <3>1, <3>2
  <2> QED BY <2>1, <2>2
<1>5. \A i \in 1..Len(all) : all[i] = c + i
  BY <1>1, <1>4
<1>6. all \in Seq(Int) /\ c + Len(all) <= Len(k)
  <2>1. Len(k) \in Nat
    BY LenProperties
  <2> QED BY <1>1, <1>3, <2>1
<1> HIDE DEF Kinds
<1>7. Piece(k, all, c)
  BY <1>5, <1>6 DEF Piece
<1> QED BY <1>3, <1>7 DEF all

\* A piece cut in two.
LEMMA PieceCut ==
  ASSUME NEW k, NEW d, NEW c, Piece(k, d, c), NEW cut \in 1..Len(d) + 1
  PROVE  /\ Piece(k, SubSeq(d, 1, cut - 1), c) /\ Len(SubSeq(d, 1, cut - 1)) = cut - 1
         /\ Piece(k, SubSeq(d, cut, Len(d)), c + cut - 1)
         /\ Len(SubSeq(d, cut, Len(d))) = Len(d) - cut + 1
<1> DEFINE n == Len(d)
           s == SubSeq(d, 1, cut - 1)
           t == SubSeq(d, cut, n)
<1>1. /\ n \in Nat /\ c \in Nat /\ c + n <= Len(k) /\ Len(k) \in Nat /\ d \in Seq(Int) /\ k \in Seq(Kinds)
      /\ \A i \in 1..n : d[i] = c + i /\ d[i] \in Int
  BY LenProperties, ElementOfSeq DEF Piece
<1>2. s \in Seq(Int) /\ Len(s) = cut - 1 /\ \A i \in 1..cut - 1 : s[i] = d[i]
  <2>1. 1 \in Int /\ cut - 1 \in Int /\ \A i \in 1..cut - 1 : d[i] \in Int
    BY <1>1
  <2>2. /\ s \in Seq(Int) /\ Len(s) = IF 1 <= cut - 1 THEN cut - 1 - 1 + 1 ELSE 0
        /\ \A i \in 1..cut - 1 - 1 + 1 : s[i] = d[1 + i - 1]
    BY <2>1, SubSeqProperties
  <2>3. /\ cut - 1 - 1 + 1 = cut - 1 /\ (~(1 <= cut - 1) => cut - 1 = 0)
        /\ \A i \in 1..cut - 1 : 1 + i - 1 = i
    BY <1>1
  <2> HIDE DEF s
  <2> QED BY <2>2, <2>3
<1>3. t \in Seq(Int) /\ Len(t) = n - cut + 1 /\ \A i \in 1..n - cut + 1 : t[i] = d[cut + i - 1]
  <2>1. cut \in Int /\ n \in Int /\ \A i \in cut..n : d[i] \in Int
    BY <1>1
  <2>2. /\ t \in Seq(Int) /\ Len(t) = IF cut <= n THEN n - cut + 1 ELSE 0
        /\ \A i \in 1..n - cut + 1 : t[i] = d[cut + i - 1]
    BY <2>1, SubSeqProperties
  <2>3. ~(cut <= n) => n - cut + 1 = 0
    BY <1>1
  <2> HIDE DEF t
  <2> QED BY <2>2, <2>3
<1> HIDE DEF s, t
<1>4. Piece(k, s, c)
  <2>1. \A i \in 1..cut - 1 : i \in 1..n
    BY <1>1
  <2> QED BY <1>1, <1>2, <2>1 DEF Piece
<1>5. Piece(k, t, c + cut - 1)
  <2>1. \A i \in 1..n - cut + 1 : cut + i - 1 \in 1..n /\ c + (cut + i - 1) = c + cut - 1 + i
    BY <1>1
  <2>2. c + cut - 1 \in Nat /\ c + cut - 1 + (n - cut + 1) = c + n
    BY <1>1
  <2> QED BY <1>1, <1>3, <2>1, <2>2 DEF Piece
<1> QED BY <1>2, <1>3, <1>4, <1>5 DEF s, t

\* A read keeps what StreamInv says of a stripped stream.
LEMMA StripStep ==
  ASSUME TypeOK, cfg.strip, WellFormed(input) => HeldIs, WellFormed(input'),
         NEW n \in 1..MaxRead, NEW chunk \in [1..n -> cfg.prints], Read(chunk)
  PROVE  HeldIs'
<1> DEFINE raw == Raw(chunk)
           all == pending \o raw
           L == Len(input)
           c == L - Len(pending)
           cut == unfinishedEscape(input', all)
           first == SubSeq(all, 1, cut - 1)
           end == SubSeq(all, cut, Len(all))
<1>1. /\ n \in Nat /\ n > 0 /\ L \in Nat /\ input \in Seq(Kinds) /\ input' \in Seq(Kinds)
      /\ Len(input') = L + n /\ \A i \in 1..L : input'[i] = input[i]
  <2>1. n \in Nat /\ n > 0
    BY CaptureConstants
  <2> QED BY <2>1, ReadBytes DEF TypeOK
<1>2. raw \in Seq(Int) /\ Len(raw) = n /\ \A i \in 1..n : raw[i] = L + i
  BY ReadBytes DEF Raw
<1>3. /\ pending' = Strip(input', pending, raw).pending
      /\ captured' = captured \o Strip(input', pending, raw).data
  BY DEF Read, Raw
<1>4. /\ WellFormed(input)
      /\ \A i \in 1..L + 1 : Clear(input, i) /\ (i = L + 1 /\ i > 1 => input[i - 1] # "esc") => Clear(input', i)
      /\ \A i \in 1..L : ~(i = L /\ input[i] = "esc") => (InCSI(input, i) <=> InCSI(input', i))
  <2>1. L <= Len(input')
    BY <1>1
  <2> QED BY <1>1, <2>1, Prefix
<1>5. /\ Piece(input, pending, c) /\ CutsAt(input, c + 1) /\ ToSet(captured) = Plain(input, 1, c)
      /\ c \in Nat /\ Len(pending) \in Nat /\ c + Len(pending) = L
  <2>1. HeldIs
    BY <1>4
  <2>2. Piece(input, pending, c)
    BY <2>1 DEF HeldIs
  <2>3. c \in Nat /\ Len(pending) \in Nat
    BY <2>2, LenProperties DEF Piece
  <2> QED BY <1>1, <2>1, <2>3 DEF HeldIs
<1> HIDE DEF raw, c
<1>6. Clear(input', c + 1)
  <2>1. c + 1 \in 1..L + 1
    BY <1>1, <1>5
  <2> QED BY <1>4, <1>5, <2>1 DEF CutsAt
<1>7. ToSet(captured) = Plain(input', 1, c)
  <2>1. ASSUME NEW i \in 1..c PROVE InCSI(input, i) <=> InCSI(input', i)
    <3>1. i \in 1..L /\ (i = L => c + 1 = L + 1 /\ c + 1 > 1 /\ (c + 1) - 1 = L)
      BY <1>1, <1>5
    <3>2. ~(i = L /\ input[i] = "esc")
      BY <1>5, <3>1 DEF CutsAt
    <3> QED BY <1>4, <3>1, <3>2
  <2> QED BY <1>5, <2>1 DEF Plain
<1>8. Piece(input', all, c) /\ c + Len(all) = Len(input') /\ all \in Seq(Int) /\ Len(all) \in Nat
  <2>1. pending \in Seq(Int) /\ \A i \in 1..Len(pending) : pending[i] = c + i
    BY <1>5 DEF Piece
  <2>2. Piece(input', all, c) /\ c + Len(all) = Len(input')
    <3>1. c + (Len(pending) + Len(raw)) = Len(input')
      BY <1>1, <1>2, <1>5
    <3>2. \A i \in 1..Len(raw) : raw[i] = c + Len(pending) + i
      BY <1>2, <1>5
    <3> HIDE DEF L
    <3> QED BY <1>1, <1>2, <1>5, <2>1, <3>1, <3>2, PieceGoesOn
  <2>3. all \in Seq(Int) /\ Len(all) \in Nat
    BY <2>2, LenProperties DEF Piece
  <2> QED BY <2>2, <2>3
<1> HIDE DEF all
<1>9. Len(all) > 0
  BY <1>1, <1>5, <1>8
<1>10. cut \in 1..Len(all) + 1 /\ Len(all) - cut + 1 <= MaxPending /\ CutsAt(input', c + cut)
  BY <1>6, <1>8, <1>9, CutIs
<1>11. /\ pending' = IF Len(end) <= MaxPending THEN end ELSE <<>>
       /\ captured' = captured \o StripANSI(input', first)
  <2>1. Strip(input', pending, raw) = [pending |-> IF Len(end) <= MaxPending THEN end ELSE <<>>,
                                       data |-> StripANSI(input', first)]
    BY DEF Strip, all
  <2> HIDE DEF end, first
  <2>2. /\ Strip(input', pending, raw).pending = IF Len(end) <= MaxPending THEN end ELSE <<>>
        /\ Strip(input', pending, raw).data = StripANSI(input', first)
    BY <2>1
  <2> QED BY <1>3, <2>2
<1> HIDE DEF cut
<1>12. /\ Piece(input', first, c) /\ Len(first) = cut - 1
       /\ Piece(input', end, c + cut - 1) /\ Len(end) = Len(all) - cut + 1
  BY <1>8, <1>10, PieceCut
<1> HIDE DEF first, end
<1>13. pending' = end /\ Len(input') - Len(pending') = c + cut - 1 /\ c + cut - 1 \in Nat
  <2>1. pending' = end /\ Len(pending') = Len(all) - cut + 1
    BY <1>10, <1>11, <1>12
  <2>2. Len(input') = c + Len(all)
    BY <1>8
  <2> QED BY <1>5, <1>8, <1>10, <2>1, <2>2
<1>14. CutsAt(input', c + cut - 1 + 1)
  <2>1. c + cut - 1 + 1 = c + cut
    BY <1>5, <1>8, <1>10
  <2> QED BY <1>10, <2>1
<1>15. ToSet(captured') = Plain(input', 1, c + cut - 1)
  <2>1. ToSet(StripANSI(input', first)) = Plain(input', c + 1, c + cut - 1)
    <3>1. c + Len(first) = c + cut - 1 /\ c + Len(first) + 1 = c + cut
      BY <1>5, <1>8, <1>10, <1>12
    <3>2. Clear(input', c + Len(first) + 1)
      BY <1>10, <3>1 DEF CutsAt
    <3>3. ToSet(StripANSI(input', first)) = Plain(input', c + 1, c + Len(first))
      BY <1>6, <1>12, <3>2, StripIsPlain
    <3> QED BY <3>1, <3>3
  <2>2. StripANSI(input', first) \in Seq(Int) /\ captured \in Seq(Int)
    <3>1. first \in Seq(Int) /\ \A i \in 1..Len(first) : first[i] = c + i
      BY <1>12 DEF Piece
    <3>2. Increasing(first)
      <4>1. Len(first) \in Nat
        BY <3>1, LenProperties
      <4>2. \A i, j \in Nat : i < j => c + i < c + j
        BY <1>5
      <4>3. ASSUME NEW i \in 1..Len(first), NEW j \in 1..Len(first), i < j PROVE first[i] < first[j]
        <5>1. i \in Nat /\ j \in Nat
          BY <4>1
        <5> QED BY <3>1, <4>2, <4>3, <5>1
      <4> QED BY <4>3 DEF Increasing
    <3> QED BY <3>1, <3>2, StripPicks DEF Picks, TypeOK
  <2>3. ToSet(captured') = Plain(input', 1, c) \cup Plain(input', c + 1, c + cut - 1)
    BY <1>7, <1>11, <2>1, <2>2, ConcatHas
  <2>4. \A i : i \in 1..c + cut - 1 <=> i \in 1..c \/ i \in c + 1..c + cut - 1
    BY <1>5, <1>8, <1>10
  <2> QED BY <2>3, <2>4 DEF Plain
<1>16. Piece(input', pending', c + cut - 1)
  BY <1>12, <1>13
<1> QED BY <1>13, <1>14, <1>15, <1>16 DEF HeldIs

\* At first the stream is empty.
LEMMA StreamStart == Init => StreamInv
<1> SUFFICES ASSUME Init PROVE StreamInv
  OBVIOUS
<1>1. input = <<>> /\ pending = <<>> /\ captured = <<>> /\ Len(<<>>) = 0 /\ ToSet(<<>>) = {}
  BY DEF Init, ToSet
<1>2. Piece(<<>>, <<>>, 0)
  BY DEF Piece
<1>3. CutsAt(<<>>, 0 + 1)
  BY DEF CutsAt, Clear
<1>4. Plain(<<>>, 1, 0) = {} /\ 1..0 = {}
  BY DEF Plain
<1>5. 0 - 0 = 0
  OBVIOUS
<1> QED BY <1>1, <1>2, <1>3, <1>4, <1>5 DEF StreamInv, HeldIs

\* Only a read changes what is captured.
LEMMA StreamStep == Inv /\ StreamInv /\ [Next]_vars => StreamInv'
<1> SUFFICES ASSUME Inv, StreamInv, [Next]_vars PROVE StreamInv'
  OBVIOUS
<1>0. TypeOK
  BY DEF Inv
<1>1. ASSUME NEW n \in 1..MaxRead, NEW chunk \in [1..n -> cfg.prints], Read(chunk)
      PROVE  StreamInv'
  <2>1. cfg' = cfg
    BY <1>1 DEF Read
  <2>2. ASSUME cfg.strip, WellFormed(input') PROVE HeldIs'
    BY <1>0, <1>1, <2>2, StripStep DEF StreamInv
  <2>3. ASSUME ~cfg.strip PROVE pending' = <<>> /\ ToSet(captured') = 1..Len(input')
    <3> DEFINE raw == Raw(chunk)
    <3>1. /\ Len(input) \in Nat /\ n \in Nat /\ Len(input') = Len(input) + n
          /\ raw \in Seq(Int) /\ Len(raw) = n /\ \A i \in 1..n : raw[i] = Len(input) + i
      BY <1>0, <1>1, ReadBytes DEF Raw
    <3>2. pending' = <<>> /\ captured' = captured \o raw /\ captured \in Seq(Int)
      BY <1>0, <1>1, <2>3 DEF Read, Raw, TypeOK
    <3> HIDE DEF raw
    <3>3. ToSet(raw) = Len(input) + 1..Len(input) + n
      <4>1. DOMAIN raw = 1..n
        BY <3>1, LenProperties
      <4>2. \A b \in Len(input) + 1..Len(input) + n : b - Len(input) \in 1..n /\ Len(input) + (b - Len(input)) = b
        BY <3>1
      <4>3. \A i \in 1..n : Len(input) + i \in Len(input) + 1..Len(input) + n
        BY <3>1
      <4>4. ToSet(raw) = {raw[i] : i \in 1..n}
        BY <4>1 DEF ToSet
      <4>5. ASSUME NEW b \in Len(input) + 1..Len(input) + n PROVE b \in ToSet(raw)
        <5>1. b - Len(input) \in 1..n /\ raw[b - Len(input)] = b
          BY <3>1, <4>2
        <5> QED BY <4>4, <5>1
      <4>6. ASSUME NEW b \in ToSet(raw) PROVE b \in Len(input) + 1..Len(input) + n
        BY <3>1, <4>3, <4>4
      <4> QED BY <4>5, <4>6
    <3>4. ToSet(captured') = 1..Len(input) \cup ToSet(raw)
      BY <2>3, <3>1, <3>2, ConcatHas DEF StreamInv
    <3>5. \A i : i \in 1..Len(input) + n <=> i \in 1..Len(input) \/ i \in Len(input) + 1..Len(input) + n
      BY <3>1
    <3> QED BY <3>1, <3>2, <3>3, <3>4, <3>5
  <2> QED BY <2>1, <2>2, <2>3 DEF StreamInv
<1>2. ASSUME UNCHANGED <<cfg, stream>> PROVE StreamInv'
  BY <1>2 DEF StreamInv, HeldIs, stream
<1>3. StreamEnd \/ Start \/ Reopen \/ Close \/ MoveAway \/ UNCHANGED vars => UNCHANGED <<cfg, stream>>
  BY DEF StreamEnd, Start, Reopen, Close, MoveAway, vars
<1> QED BY <1>1, <1>2, <1>3 DEF Next

\* However the pipe cuts the output of a program into chunks: the capture is the whole
\* output in order, with strip_ansi without its escape sequences (readPipe,
\* CaptureWriter.Capture, ANSIStripper.Strip).
THEOREM StreamAlwaysFaithful == Spec => []StreamFaithful
<1>1. Inv /\ StreamInv => StreamFaithful
  <2> SUFFICES ASSUME Inv, StreamInv PROVE StreamFaithful
    OBVIOUS
  <2>1. ASSUME cfg.strip, WellFormed(input)
        PROVE  ToSet(captured) = {i \in 1..Len(input) :
                                    ~InCSI(input, i) /\ ~(i = Len(input) /\ input[i] = "esc")}
    <3> DEFINE L == Len(input)
               c == L - Len(pending)
    <3>1. Piece(input, pending, c) /\ CutsAt(input, c + 1) /\ ToSet(captured) = Plain(input, 1, c)
      BY <2>1 DEF StreamInv, HeldIs
    <3>2. c \in Nat /\ L \in Nat /\ c <= L
      BY <3>1, LenProperties DEF Piece
    <3> HIDE DEF c
    <3>3. ASSUME NEW i \in 1..c PROVE i \in 1..L /\ ~(i = L /\ input[i] = "esc")
      <4>1. i \in 1..L /\ (i = L => c + 1 = L + 1 /\ c + 1 > 1 /\ (c + 1) - 1 = L)
        BY <3>2
      <4> QED BY <3>1, <4>1 DEF CutsAt
    <3>4. ASSUME NEW i \in 1..L, i \notin 1..c PROVE InCSI(input, i) \/ (i = L /\ input[i] = "esc")
      <4>1. c + 1 <= i /\ c + 1 <= L /\ c + 1 \in 1..i /\ i \in Nat
        BY <3>2, <3>4
      <4>2. OpenAt(input, c + 1)
        BY <3>1, <4>1 DEF CutsAt
      <4>3. CASE c + 1 = L
        <5>1. i = L
          BY <3>2, <4>1, <4>3
        <5> QED BY <4>2, <4>3, <5>1 DEF OpenAt
      <4>4. CASE c + 1 # L
        <5>1. c + 1 < L /\ \A m \in Nat : m < i => m <= L
          BY <3>2, <4>1, <4>4
        <5>2. Runs(input, c + 1, i)
          BY <4>2, <4>4, <5>1 DEF OpenAt, Runs, Opens
        <5> QED BY <4>1, <5>2, InCSIs
      <4> QED BY <4>3, <4>4
    <3> QED BY <3>1, <3>3, <3>4 DEF Plain
  <2> QED BY <2>1 DEF StreamFaithful, StreamInv, Inv, HeldBack
<1>2. Spec => []StreamInv
  BY StreamStart, StreamStep, Invariant, PTL DEF Spec
<1> QED BY <1>1, <1>2, Invariant, PTL

-----------------------------------------------------------------------------
(***************************************************************************)
(* The line splitter.                                                      *)
(***************************************************************************)
\* One turn of the loop of LineSplitter.Write at the position i, with the results further on.
SplitTurn(k, d, f, i) ==
  LET ends == {j \in Newlines(k, d) : i <= j}
      e    == CHOOSE e \in ends : \A j \in ends : e <= j
      Line(line, rest) == [lines |-> <<line>> \o rest.lines, rest |-> rest.rest]
  IN  IF ends # {} THEN Line(TrimCR(k, SubSeq(d, i, e - 1)), f[e + 1])
      ELSE IF Len(d) - i + 1 >= MaxLine THEN Line(SubSeq(d, i, i + MaxLine - 1), f[i + MaxLine])
      ELSE [lines |-> <<>>, rest |-> SubSeq(d, i, Len(d))]

\* The next newline, if there is one.
LEMMA NextNewline ==
  ASSUME NEW k, NEW d \in Seq(Int), NEW i \in 1..Len(d) + 1
  PROVE  LET ends == {j \in Newlines(k, d) : i <= j}
             e    == CHOOSE e \in ends : \A j \in ends : e <= j
         IN  ends # {} => /\ e \in i..Len(d) /\ k[d[e]] = "nl"
                          /\ \A j \in i..e - 1 : k[d[j]] # "nl"
<1> DEFINE ends == {j \in Newlines(k, d) : i <= j}
           e == CHOOSE e \in ends : \A j \in ends : e <= j
<1> SUFFICES ASSUME ends # {}
    PROVE  e \in i..Len(d) /\ k[d[e]] = "nl" /\ \A j \in i..e - 1 : k[d[j]] # "nl"
  OBVIOUS
<1>1. Len(d) \in Nat
  BY LenProperties
<1>2. ends \subseteq Nat
  BY <1>1 DEF Newlines
<1>3. \E x \in ends : \A j \in ends : x <= j
  <2> HIDE DEF ends
  <2> QED BY <1>2, Least
<1>4. e \in ends /\ \A j \in ends : e <= j
  BY <1>3
<1> HIDE DEF e
<1>5. e \in i..Len(d) /\ k[d[e]] = "nl"
  BY <1>1, <1>4 DEF Newlines
<1>6. ASSUME NEW j \in i..e - 1, k[d[j]] = "nl" PROVE FALSE
  <2>1. j \in 1..Len(d) /\ i <= j /\ ~(e <= j)
    BY <1>1, <1>5
  <2>2. j \in ends
    BY <1>6, <2>1 DEF Newlines
  <2> QED BY <1>4, <2>1, <2>2
<1> QED BY <1>5, <1>6

\* What Split computes from each position on.
LEMMA SplitIs ==
  ASSUME NEW k, NEW d \in Seq(Int)
  PROVE  \E split : /\ Split(k, d) = split[1]
                    /\ \A i \in 1..Len(d) + 1 : split[i] = SplitTurn(k, d, split, i)
<1> DEFINE n == Len(d)
           Body(f, i) ==
             LET ends == {j \in Newlines(k, d) : i <= j}
                 Line(line, rest) == [lines |-> <<line>> \o rest.lines, rest |-> rest.rest]
             IN  IF ends # {}
                 THEN LET e == CHOOSE e \in ends : \A j \in ends : e <= j
                      IN  Line(TrimCR(k, SubSeq(d, i, e - 1)), f[e + 1])
                 ELSE IF Len(d) - i + 1 >= MaxLine
                 THEN Line(SubSeq(d, i, i + MaxLine - 1), f[i + MaxLine])
                 ELSE [lines |-> <<>>, rest |-> SubSeq(d, i, Len(d))]
           Splits(f, m) == f = [i \in m..Len(d) + 1 |-> Body(f, i)]
           split == CHOOSE f : Splits(f, 1)
<1>1. n \in Nat /\ MaxLine \in Nat \ {0}
  BY CaptureConstants, LenProperties
<1>2. ASSUME NEW f, NEW g, NEW i \in 1..n + 1, \A j \in i + 1..n + 1 : f[j] = g[j]
      PROVE  Body(f, i) = Body(g, i)
  <2> DEFINE ends == {j \in Newlines(k, d) : i <= j}
             e == CHOOSE e \in ends : \A j \in ends : e <= j
  <2>1. CASE ends # {}
    <3>1. e \in i..n
      BY <2>1, NextNewline
    <3>2. f[e + 1] = g[e + 1]
      <4> HIDE DEF e
      <4>1. e + 1 \in i + 1..n + 1
        BY <1>1, <3>1
      <4> QED BY <1>2, <4>1
    <3> QED BY <2>1, <3>2
  <2>2. CASE ends = {} /\ n - i + 1 >= MaxLine
    <3>1. i + MaxLine \in i + 1..n + 1
      BY <1>1, <2>2
    <3>2. f[i + MaxLine] = g[i + MaxLine]
      BY <1>2, <3>1
    <3> QED BY <2>2, <3>2
  <2>3. CASE ends = {} /\ ~(n - i + 1 >= MaxLine)
    BY <2>3
  <2> QED BY <2>1, <2>2, <2>3
<1>3. \A m \in Nat : m <= n => \E f : Splits(f, n + 1 - m)
  <2> DEFINE T == {m \in Nat : m <= n => \E f : Splits(f, n + 1 - m)}
  <2>1. 0 \in T
    <3> DEFINE f == [i \in n + 1..n + 1 |-> Body(<<>>, i)]
    <3>1. \A i \in n + 1..n + 1 : Body(f, i) = Body(<<>>, i)
      <4> HIDE DEF Body, f
      <4>1. \A i \in n + 1..n + 1 : i \in 1..n + 1 /\ \A j \in i + 1..n + 1 : f[j] = <<>>[j]
        BY <1>1
      <4> QED BY <1>2, <4>1
    <3>2. Splits(f, n + 1)
      <4> HIDE DEF Body
      <4> QED BY <3>1
    <3> HIDE DEF Splits, f
    <3>3. n + 1 - 0 = n + 1
      BY <1>1
    <3> QED BY <3>2, <3>3
  <2>2. ASSUME NEW m \in Nat, m \in T PROVE m + 1 \in T
    <3> HIDE DEF Splits
    <3> SUFFICES ASSUME m + 1 <= n PROVE \E f : Splits(f, n + 1 - (m + 1))
      BY <1>1
    <3>1. PICK f : Splits(f, n + 1 - m)
      <4>1. m <= n
        BY <1>1
      <4> QED BY <2>2, <4>1
    <3> DEFINE g == [i \in n - m..n + 1 |-> IF i = n - m THEN Body(f, i) ELSE f[i]]
    <3> HIDE DEF Body
    <3>2. n - m \in 1..n /\ n + 1 - m = (n - m) + 1
      BY <1>1
    <3>3. \A i \in (n - m) + 1..n + 1 : g[i] = f[i] /\ f[i] = Body(f, i)
      <4>1. \A i \in n + 1 - m..n + 1 : f[i] = Body(f, i)
        BY <3>1 DEF Splits
      <4>2. \A i \in (n - m) + 1..n + 1 : i \in n + 1 - m..n + 1 /\ i \in n - m..n + 1 /\ i # n - m
        BY <1>1, <3>2
      <4> QED BY <4>1, <4>2
    <3>4. g[n - m] = Body(f, n - m)
      BY <1>1, <3>2
    <3>5. DOMAIN g = n - m..n + 1 /\ g = [i \in n - m..n + 1 |-> g[i]]
      OBVIOUS
    <3> HIDE DEF g
    <3>6. \A i \in n - m..n + 1 : g[i] = Body(g, i)
      <4> TAKE i \in n - m..n + 1
      <4>1. i \in 1..n + 1 /\ \A j \in i + 1..n + 1 : j \in (n - m) + 1..n + 1
        BY <1>1, <3>2
      <4>2. \A j \in i + 1..n + 1 : f[j] = g[j]
        BY <3>3, <4>1
      <4>3. Body(f, i) = Body(g, i)
        BY <1>2, <4>1, <4>2
      <4>4. g[i] = Body(f, i)
        <5>1. i = n - m \/ i \in (n - m) + 1..n + 1
          BY <1>1
        <5> QED BY <3>3, <3>4, <5>1
      <4> QED BY <4>3, <4>4
    <3>7. g = [i \in n - m..n + 1 |-> Body(g, i)]
      BY <3>5, <3>6
    <3>8. Splits(g, n + 1 - (m + 1))
      <4>1. n + 1 - (m + 1) = n - m
        BY <1>1
      <4> QED BY <3>7, <4>1 DEF Splits
    <3> QED BY <3>8
  <2> HIDE DEF T
  <2>3. \A m \in Nat : m \in T
    BY <2>1, <2>2, Induct
  <2> QED BY <2>3 DEF T
<1>4. Splits(split, 1)
  <2>1. n + 1 - n = 1 /\ n <= n
    BY <1>1
  <2> HIDE DEF Splits
  <2>2. \E f : Splits(f, 1)
    BY <1>1, <1>3, <2>1
  <2> QED BY <2>2
<1>5. Split(k, d) = split[1]
  BY DEF Split
<1> HIDE DEF split
<1>6. \A i \in 1..n + 1 : split[i] = Body(split, i)
  <2> HIDE DEF Body
  <2> QED BY <1>4
<1>7. \A i \in 1..n + 1 : split[i] = SplitTurn(k, d, split, i)
  BY <1>6 DEF SplitTurn
<1> QED BY <1>5, <1>7

\* The newlines of the stream k from a to b, and whether i begins a line.
NL(k, a, b) == {i \in a..b : k[i] = "nl"}

StartsLine(k, i) == i = 1 \/ k[i - 1] = "nl"

\* The text of the stream k from a to b: no newlines, and no carriage returns before them.
Text(k, a, b) ==
  {i \in a..b : k[i] # "nl" /\ ~(k[i] = "cr" /\ i + 1 <= b /\ k[i + 1] = "nl")}

\* Forwarded lines, each in order and all of them in order.
Ordered(ls) ==
  /\ \A n \in 1..Len(ls) : Increasing(ls[n])
  /\ \A m, n \in 1..Len(ls) : m < n => \A b \in ToSet(ls[m]), c \in ToSet(ls[n]) : b < c

\* The lines ls are what is forwarded of the stream k from a to b: at least a line for each
\* newline, and if there are no others, each line ended with one.
Forwards(k, ls, a, b) ==
  /\ ls \in Seq(Seq(Int)) /\ Ordered(ls) /\ BytesOf(ls) \subseteq (a..b) \ NL(k, a, b)
  /\ ~cfg.strip => /\ Text(k, a, b) \subseteq BytesOf(ls)
                   /\ \A n \in 1..Len(ls) : Consecutive(ls[n])
  /\ Len(ls) >= Cardinality(NL(k, a, b))
  /\ Len(ls) = Cardinality(NL(k, a, b)) /\ StartsLine(k, a) =>
       /\ StartsLine(k, b + 1)
       /\ ~cfg.strip => BytesOf(ls) = Text(k, a, b)
       /\ cfg.strip /\ WellFormed(k) => BytesOf(ls) = Plain(k, a, b) \cap Text(k, a, b)

\* The text of two parts of the stream.
LEMMA TextOfParts ==
  ASSUME NEW k, NEW a \in Nat, NEW b \in Nat, NEW c \in Nat, 1 <= a, a <= b + 1, b <= c
  PROVE  /\ Text(k, a, c) \subseteq Text(k, a, b) \cup Text(k, b + 1, c)
         /\ StartsLine(k, b + 1) => Text(k, a, c) = Text(k, a, b) \cup Text(k, b + 1, c)
<1>1. \A i : i \in a..c <=> i \in a..b \/ i \in b + 1..c
  OBVIOUS
<1>2. /\ \A i \in a..b : i + 1 <= b => i + 1 <= c
      /\ \A i \in a..b : ~(i + 1 <= b) => i = b
      /\ (b + 1) - 1 = b
  OBVIOUS
<1>3. Text(k, a, c) \subseteq Text(k, a, b) \cup Text(k, b + 1, c)
  BY <1>1, <1>2 DEF Text
<1>4. ASSUME StartsLine(k, b + 1), NEW i \in Text(k, a, b) PROVE i \in Text(k, a, c)
  <2>1. i = b => k[i] = "nl"
    <3>1. i = b => b + 1 # 1
      BY DEF Text
    <3> QED BY <1>2, <1>4, <3>1 DEF StartsLine
  <2>2. i \in a..b /\ k[i] # "nl"
    BY DEF Text
  <2>3. i # b
    BY <2>1, <2>2
  <2> QED BY <1>1, <1>2, <2>2, <2>3 DEF Text
<1>5. \A i \in Text(k, b + 1, c) : i \in Text(k, a, c)
  BY <1>1 DEF Text
<1> QED BY <1>3, <1>4, <1>5

\* The newlines of two parts of the stream.
LEMMA NewlinesOfParts ==
  ASSUME NEW k, NEW a \in Nat, NEW b \in Nat, NEW c \in Nat, a <= b + 1, b <= c
  PROVE  /\ Cardinality(NL(k, a, b)) \in Nat /\ Cardinality(NL(k, b + 1, c)) \in Nat
         /\ NL(k, a, c) = NL(k, a, b) \cup NL(k, b + 1, c)
         /\ Cardinality(NL(k, a, c)) = Cardinality(NL(k, a, b)) + Cardinality(NL(k, b + 1, c))
<1>1. ASSUME NEW x \in Nat, NEW y \in Nat
      PROVE  IsFiniteSet(NL(k, x, y)) /\ Cardinality(NL(k, x, y)) \in Nat
  <2>1. IsFiniteSet(x..y)
    BY FS_Interval
  <2>2. NL(k, x, y) \in SUBSET (x..y)
    BY DEF NL
  <2>3. IsFiniteSet(NL(k, x, y))
    BY <2>1, <2>2, FS_Subset
  <2> QED BY <2>3, FS_CardinalityType
<1>2. b + 1 \in Nat
  OBVIOUS
<1>3. NL(k, a, c) = NL(k, a, b) \cup NL(k, b + 1, c) /\ NL(k, a, b) \cap NL(k, b + 1, c) = {}
  <2>1. \A i : i \in a..c <=> i \in a..b \/ i \in b + 1..c
    OBVIOUS
  <2>2. \A i \in a..b : i \notin b + 1..c
    OBVIOUS
  <2> QED BY <2>1, <2>2 DEF NL
<1> DEFINE S == NL(k, a, b)
           T == NL(k, b + 1, c)
<1>4. IsFiniteSet(S) /\ IsFiniteSet(T) /\ Cardinality(S) \in Nat /\ Cardinality(T) \in Nat
  BY <1>1, <1>2
<1> HIDE DEF S, T
<1>5. Cardinality(S \cup T) = Cardinality(S) + Cardinality(T) - Cardinality(S \cap T)
  BY <1>4, FS_Union
<1>6. Cardinality(S \cap T) = 0
  BY <1>3, FS_EmptySet DEF S, T
<1>7. Cardinality(S \cup T) = Cardinality(S) + Cardinality(T)
  BY <1>4, <1>5, <1>6
<1> QED BY <1>3, <1>4, <1>7 DEF S, T

\* A byte of lines is one of a line.
LEMMA InOneLine ==
  ASSUME NEW ls
  PROVE  \A b : b \in BytesOf(ls) <=> \E n \in 1..Len(ls) : b \in ToSet(ls[n])
BY DEF BytesOf

\* Lines behind others.
LEMMA LinesConcat ==
  ASSUME NEW x \in Seq(Seq(Int)), NEW y \in Seq(Seq(Int))
  PROVE  /\ x \o y \in Seq(Seq(Int)) /\ Len(x \o y) = Len(x) + Len(y)
         /\ BytesOf(x \o y) = BytesOf(x) \cup BytesOf(y)
         /\ Ordered(x) /\ Ordered(y) /\ (\A b \in BytesOf(x), c \in BytesOf(y) : b < c) => Ordered(x \o y)
         /\ (\A n \in 1..Len(x) : Consecutive(x[n])) /\ (\A n \in 1..Len(y) : Consecutive(y[n])) =>
              \A n \in 1..Len(x \o y) : Consecutive((x \o y)[n])
<1> DEFINE t == x \o y
           p == Len(x)
           q == Len(y)
<1>1. /\ p \in Nat /\ q \in Nat /\ t \in Seq(Seq(Int)) /\ Len(t) = p + q
      /\ \A i \in 1..p + q : t[i] = IF i <= p THEN x[i] ELSE y[i - p]
  BY ConcatProperties, LenProperties
<1> HIDE DEF t, p, q
<1>2. ASSUME NEW i \in 1..p + q
      PROVE  \/ i \in 1..p /\ t[i] = x[i]
             \/ i > p /\ i - p \in 1..q /\ t[i] = y[i - p]
  BY <1>1
<1>3. \A i \in 1..p : i \in 1..p + q /\ t[i] = x[i]
  BY <1>1
<1>4. \A i \in 1..q : p + i \in 1..p + q /\ t[p + i] = y[i]
  <2> TAKE i \in 1..q
  <2>1. p + i \in 1..p + q /\ ~(p + i <= p) /\ (p + i) - p = i
    BY <1>1
  <2> QED BY <1>1, <2>1
<1>5. BytesOf(t) = BytesOf(x) \cup BytesOf(y)
  <2>1. ASSUME NEW b \in BytesOf(t) PROVE b \in BytesOf(x) \cup BytesOf(y)
    <3>1. PICK i \in 1..p + q : b \in ToSet(t[i])
      BY <1>1, InOneLine
    <3> QED BY <1>2, <3>1, InOneLine DEF p, q
  <2>2. ASSUME NEW b \in BytesOf(x) PROVE b \in BytesOf(t)
    <3>1. PICK i \in 1..p : b \in ToSet(x[i])
      BY InOneLine DEF p
    <3> QED BY <1>1, <1>3, <3>1, InOneLine
  <2>3. ASSUME NEW b \in BytesOf(y) PROVE b \in BytesOf(t)
    <3>1. PICK i \in 1..q : b \in ToSet(y[i])
      BY InOneLine DEF q
    <3> QED BY <1>1, <1>4, <3>1, InOneLine
  <2> QED BY <2>1, <2>2, <2>3
<1>6. ASSUME Ordered(x), Ordered(y), \A b \in BytesOf(x), c \in BytesOf(y) : b < c PROVE Ordered(t)
  <2>1. ASSUME NEW i \in 1..p + q PROVE Increasing(t[i])
    BY <1>2, <1>6, <2>1 DEF Ordered, p, q
  <2>2. ASSUME NEW i \in 1..p + q, NEW j \in 1..p + q, i < j, NEW b \in ToSet(t[i]), NEW c \in ToSet(t[j])
        PROVE  b < c
    <3>1. CASE j \in 1..p
      <4>1. i \in 1..p
        BY <1>1, <2>2, <3>1
      <4> QED BY <1>3, <1>6, <2>2, <3>1, <4>1 DEF Ordered, p
    <3>2. CASE i \in 1..p /\ j > p
      <4>1. b \in BytesOf(x)
        BY <1>3, <2>2, <3>2, InOneLine DEF p
      <4>2. j - p \in 1..q /\ t[j] = y[j - p]
        <5>1. j \notin 1..p
          BY <1>1, <3>2
        <5> QED BY <1>2, <5>1
      <4>3. c \in BytesOf(y)
        BY <2>2, <4>2, InOneLine DEF q
      <4> QED BY <1>6, <4>1, <4>3
    <3>3. CASE i > p
      <4>1. j > p /\ i - p < j - p /\ i \notin 1..p /\ j \notin 1..p
        BY <1>1, <2>2, <3>3
      <4>2. i - p \in 1..q /\ t[i] = y[i - p] /\ j - p \in 1..q /\ t[j] = y[j - p]
        BY <1>2, <4>1
      <4> QED BY <1>6, <2>2, <4>1, <4>2 DEF Ordered, q
    <3> QED BY <1>1, <3>1, <3>2, <3>3
  <2> QED BY <1>1, <2>1, <2>2 DEF Ordered
<1>7. ASSUME \A n \in 1..p : Consecutive(x[n]), \A n \in 1..q : Consecutive(y[n]),
             NEW n \in 1..p + q
      PROVE  Consecutive(t[n])
  BY <1>2, <1>7
<1> QED BY <1>1, <1>5, <1>6, <1>7 DEF t, p, q

\* What is forwarded of two parts of the stream.
LEMMA ForwardsBoth ==
  ASSUME NEW k, NEW x, NEW y, NEW a \in Nat, NEW b \in Nat, NEW c \in Nat,
         1 <= a, a <= b + 1, b <= c,
         Forwards(k, x, a, b), Forwards(k, y, b + 1, c)
  PROVE  Forwards(k, x \o y, a, c)
<1>1. /\ Cardinality(NL(k, a, b)) \in Nat /\ Cardinality(NL(k, b + 1, c)) \in Nat
      /\ NL(k, a, c) = NL(k, a, b) \cup NL(k, b + 1, c)
      /\ Cardinality(NL(k, a, c)) = Cardinality(NL(k, a, b)) + Cardinality(NL(k, b + 1, c))
  BY NewlinesOfParts
<1>2. /\ x \in Seq(Seq(Int)) /\ Ordered(x) /\ BytesOf(x) \subseteq (a..b) \ NL(k, a, b)
      /\ y \in Seq(Seq(Int)) /\ Ordered(y) /\ BytesOf(y) \subseteq (b + 1..c) \ NL(k, b + 1, c)
      /\ Len(x) >= Cardinality(NL(k, a, b)) /\ Len(y) >= Cardinality(NL(k, b + 1, c))
      /\ Len(x) \in Nat /\ Len(y) \in Nat
  BY LenProperties DEF Forwards
<1>3. /\ \A i : i \in a..c <=> i \in a..b \/ i \in b + 1..c
      /\ \A i \in a..b, j \in b + 1..c : i < j
  OBVIOUS
<1>4. /\ x \o y \in Seq(Seq(Int)) /\ Len(x \o y) = Len(x) + Len(y)
      /\ BytesOf(x \o y) = BytesOf(x) \cup BytesOf(y)
  BY <1>2, LinesConcat
<1>5. Ordered(x \o y) /\ BytesOf(x \o y) \subseteq (a..c) \ NL(k, a, c)
  <2>1. \A i \in BytesOf(x), j \in BytesOf(y) : i < j
    BY <1>2, <1>3
  <2>2. Ordered(x \o y)
    BY <1>2, <2>1, LinesConcat
  <2>3. \A i \in BytesOf(x) \cup BytesOf(y) : i \in a..c /\ k[i] # "nl"
    BY <1>2, <1>3 DEF NL
  <2>4. BytesOf(x \o y) \subseteq (a..c) \ NL(k, a, c)
    BY <1>4, <2>3 DEF NL
  <2> QED BY <2>2, <2>4
<1>9. /\ Text(k, a, c) \subseteq Text(k, a, b) \cup Text(k, b + 1, c)
      /\ StartsLine(k, b + 1) => Text(k, a, c) = Text(k, a, b) \cup Text(k, b + 1, c)
  BY TextOfParts
<1>6. ASSUME ~cfg.strip
      PROVE  /\ Text(k, a, c) \subseteq BytesOf(x \o y)
             /\ \A n \in 1..Len(x \o y) : Consecutive((x \o y)[n])
  <2>1. /\ Text(k, a, b) \subseteq BytesOf(x) /\ \A n \in 1..Len(x) : Consecutive(x[n])
        /\ Text(k, b + 1, c) \subseteq BytesOf(y) /\ \A n \in 1..Len(y) : Consecutive(y[n])
    BY <1>6 DEF Forwards
  <2>2. \A n \in 1..Len(x \o y) : Consecutive((x \o y)[n])
    BY <1>2, <2>1, LinesConcat
  <2>3. Text(k, a, c) \subseteq BytesOf(x \o y)
    BY <1>4, <1>9, <2>1
  <2> QED BY <2>2, <2>3
<1>7. Len(x \o y) >= Cardinality(NL(k, a, c))
  BY <1>1, <1>2, <1>4
<1>8. ASSUME Len(x \o y) = Cardinality(NL(k, a, c)), StartsLine(k, a)
      PROVE  /\ StartsLine(k, c + 1)
             /\ ~cfg.strip => BytesOf(x \o y) = Text(k, a, c)
             /\ cfg.strip /\ WellFormed(k) => BytesOf(x \o y) = Plain(k, a, c) \cap Text(k, a, c)
  <2>1. Len(x) = Cardinality(NL(k, a, b)) /\ Len(y) = Cardinality(NL(k, b + 1, c))
    BY <1>1, <1>2, <1>4, <1>8
  <2>2. /\ StartsLine(k, b + 1)
        /\ ~cfg.strip => BytesOf(x) = Text(k, a, b)
        /\ cfg.strip /\ WellFormed(k) => BytesOf(x) = Plain(k, a, b) \cap Text(k, a, b)
    BY <1>8, <2>1 DEF Forwards
  <2>3. /\ StartsLine(k, c + 1)
        /\ ~cfg.strip => BytesOf(y) = Text(k, b + 1, c)
        /\ cfg.strip /\ WellFormed(k) => BytesOf(y) = Plain(k, b + 1, c) \cap Text(k, b + 1, c)
    BY <1>8, <2>1, <2>2 DEF Forwards
  <2>4. Text(k, a, c) = Text(k, a, b) \cup Text(k, b + 1, c)
    BY <1>9, <2>2
  <2>5. \A i \in Text(k, a, b) : i \in Plain(k, a, c) <=> i \in Plain(k, a, b)
    BY <1>3 DEF Plain, Text
  <2>6. \A i \in Text(k, b + 1, c) : i \in Plain(k, a, c) <=> i \in Plain(k, b + 1, c)
    BY <1>3 DEF Plain, Text
  <2>7. Plain(k, a, c) \cap Text(k, a, c) =
          (Plain(k, a, b) \cap Text(k, a, b)) \cup (Plain(k, b + 1, c) \cap Text(k, b + 1, c))
    BY <2>4, <2>5, <2>6
  <2> QED BY <1>4, <2>2, <2>3, <2>4, <2>7
<1> QED BY <1>4, <1>5, <1>6, <1>7, <1>8 DEF Forwards

\* One line of the bytes of a sequence.
LEMMA OneLine ==
  ASSUME NEW line \in Seq(Int)
  PROVE  /\ <<line>> \in Seq(Seq(Int)) /\ Len(<<line>>) = 1 /\ <<line>>[1] = line
         /\ BytesOf(<<line>>) = ToSet(line) /\ (Increasing(line) => Ordered(<<line>>))
<1>1. <<line>> \in Seq(Seq(Int)) /\ Len(<<line>>) = 1 /\ <<line>>[1] = line
  OBVIOUS
<1>2. \A n \in 1..1 : n = 1
  OBVIOUS
<1> QED BY <1>1, <1>2 DEF BytesOf, Ordered

\* A line behind which another one can begin: the stream goes on with no part of a sequence.
LEMMA LineIsClear ==
  ASSUME NEW k \in Seq(Kinds), NEW i \in 1..Len(k) + 1, StartsLine(k, i)
  PROVE  Clear(k, i)
<1> SUFFICES ASSUME NEW j \in Nat, 1 <= j, j < i, Runs(k, j, i) PROVE FALSE
  BY DEF Clear
<1>1. i # 1 /\ k[i - 1] = "nl"
  BY DEF StartsLine
<1>2. k[j] = "esc" /\ k[j + 1] = "[" /\ \A m \in Nat : j + 2 <= m /\ m < i => k[m] = "param"
  BY DEF Runs, Opens
<1>3. Len(k) \in Nat
  BY LenProperties
<1>4. i - 1 = j \/ i - 1 = j + 1 \/ (i - 1 \in Nat /\ j + 2 <= i - 1 /\ i - 1 < i)
  BY <1>3
<1> QED BY <1>1, <1>2, <1>4

\* No well-formed escape sequence goes on in a newline or a carriage return.
LEMMA NewlineIsClear ==
  ASSUME NEW k \in Seq(Kinds), WellFormed(k), NEW i \in 1..Len(k), k[i] \in {"nl", "cr"}
  PROVE  Clear(k, i)
<1> SUFFICES ASSUME NEW j \in Nat, 1 <= j, j < i, Runs(k, j, i) PROVE FALSE
  BY DEF Clear
<1>1. k[j] = "esc" /\ k[j + 1] = "[" /\ \A m \in Nat : j + 2 <= m /\ m < i => k[m] = "param"
  BY DEF Runs, Opens
<1>2. Len(k) \in Nat /\ i # j + 1
  BY <1>1, LenProperties
<1>3. j \in 1..Len(k) - 1 /\ i \in j + 2..Len(k) /\ \A m \in j + 2..i - 1 : k[m] = "param"
  <2>1. \A m \in j + 2..i - 1 : m \in Nat /\ j + 2 <= m /\ m < i
    BY <1>2
  <2> QED BY <1>1, <1>2, <2>1
<1>4. IsFinal(k[i]) \/ k[i] = "param"
  BY <1>1, <1>3 DEF WellFormed
<1> QED BY <1>4 DEF IsFinal

\* The bytes of a piece, in order, and what is forwarded of it.
LEMMA PieceBytes ==
  ASSUME NEW k, NEW d, NEW c, Piece(k, d, c)
  PROVE  /\ ToSet(d) = c + 1..c + Len(d) /\ Increasing(d) /\ Consecutive(d)
         /\ Forwarded(k, d) \in Seq(Int) /\ Increasing(Forwarded(k, d))
         /\ ToSet(Forwarded(k, d)) \subseteq c + 1..c + Len(d)
<1> DEFINE n == Len(d)
<1>1. /\ d \in Seq(Int) /\ n \in Nat /\ c \in Nat /\ DOMAIN d = 1..n /\ \A i \in 1..n : d[i] = c + i
  BY LenProperties DEF Piece
<1> HIDE DEF n
<1>2. ToSet(d) = c + 1..c + n
  <2>1. ToSet(d) = {d[i] : i \in 1..n}
    BY <1>1 DEF ToSet
  <2>2. \A i \in 1..n : d[i] \in c + 1..c + n
    BY <1>1
  <2>3. \A b \in c + 1..c + n : b - c \in 1..n /\ d[b - c] = b
    <3> TAKE b \in c + 1..c + n
    <3>1. b - c \in 1..n /\ c + (b - c) = b
      BY <1>1
    <3> QED BY <1>1, <3>1
  <2> QED BY <2>1, <2>2, <2>3
<1>3. Increasing(d)
  <2> SUFFICES ASSUME NEW i \in 1..n, NEW j \in 1..n, i < j PROVE d[i] < d[j]
    BY DEF Increasing, n
  <2> QED BY <1>1
<1>4. Consecutive(d)
  <2> SUFFICES ASSUME NEW i \in 1..n - 1 PROVE d[i + 1] = d[i] + 1
    BY DEF Consecutive, n
  <2>1. i \in 1..n /\ i + 1 \in 1..n /\ c + (i + 1) = c + i + 1
    BY <1>1
  <2> QED BY <1>1, <2>1
<1>5. ASSUME NEW t, Picks(t, d, 1) PROVE t \in Seq(Int) /\ Increasing(t) /\ ToSet(t) \subseteq ToSet(d)
  <2>1. t \in Seq(Int) /\ Increasing(t) /\ \A m \in 1..Len(t) : \E j \in 1..n : t[m] = d[j]
    BY <1>5 DEF Picks, n
  <2>2. DOMAIN t = 1..Len(t)
    BY <2>1, LenProperties
  <2> QED BY <1>1, <2>1, <2>2 DEF ToSet
<1>6. Picks(StripANSI(k, d), d, 1)
  BY <1>1, <1>3, StripPicks
<1> QED BY <1>1, <1>2, <1>3, <1>4, <1>5, <1>6 DEF Forwarded, n

\* A line without a carriage return at its end.
LEMMA Trimmed ==
  ASSUME NEW k, NEW d, NEW c, Piece(k, d, c)
  PROVE  LET t == TrimCR(k, d) IN
         /\ Piece(k, t, c)
         /\ \/ Len(t) = Len(d) /\ (Len(d) = 0 \/ k[c + Len(d)] # "cr")
            \/ Len(t) = Len(d) - 1 /\ Len(d) # 0 /\ k[c + Len(d)] = "cr"
<1> DEFINE n == Len(d)
           t == TrimCR(k, d)
<1>1. /\ d \in Seq(Int) /\ n \in Nat /\ c \in Nat /\ c + n <= Len(k) /\ Len(k) \in Nat
      /\ k \in Seq(Kinds) /\ \A i \in 1..n : d[i] = c + i /\ d[i] \in Int
      /\ d = <<>> <=> n = 0
  BY LenProperties, ElementOfSeq, EmptySeq DEF Piece
<1>2. CASE d # <<>> /\ k[d[n]] = "cr"
  <2>1. t = SubSeq(d, 1, n - 1) /\ k[c + n] = "cr" /\ n # 0
    <3>1. n \in 1..n
      BY <1>1, <1>2
    <3>2. d[n] = c + n
      BY <1>1, <3>1
    <3> QED BY <1>1, <1>2, <3>2 DEF TrimCR
  <2>2. \A i \in 1..n - 1 : i \in 1..n
    BY <1>1
  <2>3. /\ SubSeq(d, 1, n - 1) \in Seq(Int)
        /\ Len(SubSeq(d, 1, n - 1)) = IF 1 <= n - 1 THEN (n - 1) - 1 + 1 ELSE 0
        /\ \A i \in 1..(n - 1) - 1 + 1 : SubSeq(d, 1, n - 1)[i] = d[1 + i - 1]
    <3>1. \A i \in 1..n - 1 : d[i] \in Int
      BY <1>1, <2>2
    <3>2. 1 \in Int /\ n - 1 \in Int
      BY <1>1
    <3> QED BY <3>1, <3>2, SubSeqProperties
  <2> HIDE DEF n, t
  <2>4. Len(t) = n - 1 /\ t \in Seq(Int) /\ \A i \in 1..n - 1 : t[i] = d[i]
    BY <1>1, <2>1, <2>3
  <2>5. c + (n - 1) <= Len(k)
    BY <1>1
  <2>6. Piece(k, t, c)
    BY <1>1, <2>2, <2>4, <2>5 DEF Piece
  <2> QED BY <2>1, <2>4, <2>6 DEF n, t
<1>3. CASE ~(d # <<>> /\ k[d[n]] = "cr")
  <2>1. t = d
    BY <1>3 DEF TrimCR
  <2>2. n # 0 => k[c + n] # "cr"
    <3> SUFFICES ASSUME n # 0 PROVE k[c + n] # "cr"
      OBVIOUS
    <3>1. n \in 1..n
      BY <1>1
    <3>2. d[n] = c + n
      BY <1>1, <3>1
    <3> QED BY <1>1, <1>3, <3>2
  <2> QED BY <2>1, <2>2
<1> QED BY <1>2, <1>3

\* A line that ended at maxLineBytes or with the child, or with the newline at e.
LEMMA ForwardsLine ==
  ASSUME NEW k, NEW d, NEW c, Piece(k, d, c), NL(k, c + 1, c + Len(d)) = {}, NEW e, NEW t,
         \/ e = c + Len(d) /\ t = d
         \/ e = c + Len(d) + 1 /\ e <= Len(k) /\ k[e] = "nl" /\ t = TrimCR(k, d)
  PROVE  Forwards(k, <<Forwarded(k, t)>>, c + 1, e)
<1> DEFINE f == Forwarded(k, t)
           n == Len(d)
           p == Len(t)
           ls == <<f>>
<1>1. /\ Piece(k, t, c) /\ p \in Nat /\ n \in Nat /\ p <= n
      /\ p # n => p = n - 1 /\ n # 0 /\ k[c + n] = "cr"
      /\ p = n => t = d \/ n = 0 \/ k[c + n] # "cr"
  <2>1. /\ Piece(k, TrimCR(k, d), c) /\ Len(d) \in Nat
        /\ \/ Len(TrimCR(k, d)) = Len(d) /\ (Len(d) = 0 \/ k[c + Len(d)] # "cr")
           \/ Len(TrimCR(k, d)) = Len(d) - 1 /\ Len(d) # 0 /\ k[c + Len(d)] = "cr"
    <3>1. Len(d) \in Nat
      BY LenProperties DEF Piece
    <3> QED BY <3>1, Trimmed
  <2>2. Len(TrimCR(k, d)) \in Nat
    BY <2>1, LenProperties DEF Piece
  <2> QED BY <2>1, <2>2
<1>2. /\ ToSet(t) = c + 1..c + p /\ Increasing(t) /\ Consecutive(t)
      /\ f \in Seq(Int) /\ Increasing(f) /\ ToSet(f) \subseteq c + 1..c + p
  BY <1>1, PieceBytes
<1>3. c \in Nat /\ Len(k) \in Nat /\ k \in Seq(Kinds) /\ e \in Nat /\ c + n <= e
  <2>1. c \in Nat /\ Len(k) \in Nat /\ k \in Seq(Kinds)
    BY LenProperties DEF Piece
  <2> QED BY <1>1, <2>1
<1>4. /\ ls \in Seq(Seq(Int)) /\ Len(ls) = 1 /\ ls[1] = f
      /\ BytesOf(ls) = ToSet(f) /\ Ordered(ls)
  BY <1>2, OneLine
<1>5. /\ ~cfg.strip => f = t
      /\ cfg.strip => f = StripANSI(k, t)
  BY DEF Forwarded
<1>6. \A i \in c + 1..c + n : k[i] # "nl"
  BY DEF NL
<1> HIDE DEF f, n, p, ls
<1>7. c + 1..c + p \subseteq c + 1..c + n /\ c + 1..c + n \subseteq c + 1..e
  BY <1>1, <1>3
<1>8. BytesOf(ls) \subseteq (c + 1..e) \ NL(k, c + 1, e)
  BY <1>2, <1>4, <1>6, <1>7 DEF NL
<1>9. ~cfg.strip => \A m \in 1..Len(ls) : Consecutive(ls[m])
  <2>1. \A m \in 1..Len(ls) : m = 1
    BY <1>4
  <2> QED BY <1>2, <1>4, <1>5, <2>1
<1>10. CASE e = c + n /\ t = d
  <2>1. NL(k, c + 1, e) = {} /\ Cardinality(NL(k, c + 1, e)) = 0
    BY <1>10, FS_EmptySet DEF n
  <2>2. ~cfg.strip => Text(k, c + 1, e) \subseteq BytesOf(ls)
    <3>1. p = n
      BY <1>10 DEF p, n
    <3> QED BY <1>2, <1>4, <1>5, <1>10, <3>1 DEF Text
  <2>3. Len(ls) >= Cardinality(NL(k, c + 1, e)) /\ Len(ls) # Cardinality(NL(k, c + 1, e))
    BY <1>4, <2>1
  <2>4. Forwards(k, ls, c + 1, e)
    BY <1>4, <1>8, <1>9, <2>2, <2>3 DEF Forwards
  <2> QED BY <2>4 DEF ls, f
<1>11. CASE e = c + n + 1 /\ e <= Len(k) /\ k[e] = "nl" /\ t = TrimCR(k, d)
  <2>1. \A i : i \in c + 1..e <=> i \in c + 1..c + n \/ i = e
    BY <1>1, <1>3, <1>11
  <2>2. NL(k, c + 1, e) = {e} /\ Cardinality(NL(k, c + 1, e)) = 1
    <3>1. NL(k, c + 1, e) = {e}
      BY <1>6, <1>11, <2>1 DEF NL
    <3> QED BY <3>1, FS_Singleton
  <2>3. Text(k, c + 1, e) = c + 1..c + p
    <3>1. ASSUME NEW i \in c + 1..c + n
          PROVE  (k[i] = "cr" /\ i + 1 <= e /\ k[i + 1] = "nl") <=> (i = c + n /\ k[i] = "cr")
      <4>1. CASE i = c + n
        <5>1. i + 1 = e /\ i + 1 <= e
          BY <1>1, <1>3, <1>11, <4>1
        <5> QED BY <1>11, <4>1, <5>1
      <4>2. CASE i # c + n
        <5>1. i + 1 \in c + 1..c + n
          BY <1>1, <1>3, <4>2
        <5> QED BY <1>6, <4>2, <5>1
      <4> QED BY <4>1, <4>2
    <3>2. CASE p = n
      <4>1. \A i \in c + 1..c + n : ~(i = c + n /\ k[i] = "cr")
        <5>1. n = 0 \/ k[c + n] # "cr"
          <6>1. \/ Len(t) = Len(d) /\ (Len(d) = 0 \/ k[c + Len(d)] # "cr")
                \/ Len(t) = Len(d) - 1 /\ Len(d) # 0 /\ k[c + Len(d)] = "cr"
            BY <1>11, Trimmed
          <6> QED BY <1>1, <3>2, <6>1 DEF n, p
        <5> QED BY <1>3, <5>1
      <4>2. \A i : i \in Text(k, c + 1, e) <=> i \in c + 1..c + n
        BY <1>6, <1>11, <2>1, <3>1, <4>1 DEF Text
      <4> QED BY <3>2, <4>2
    <3>3. CASE p # n
      <4>1. p = n - 1 /\ k[c + n] = "cr"
        BY <1>1, <3>3
      <4>2. \A i : i \in c + 1..c + p <=> i \in c + 1..c + n /\ i # c + n
        BY <1>1, <1>3, <4>1
      <4>3. \A i : i \in Text(k, c + 1, e) <=> i \in c + 1..c + n /\ i # c + n
        BY <1>6, <1>11, <2>1, <3>1, <4>1 DEF Text
      <4> QED BY <4>2, <4>3
    <3> QED BY <3>2, <3>3
  <2>4. ~cfg.strip => BytesOf(ls) = Text(k, c + 1, e)
    BY <1>2, <1>4, <1>5, <2>3
  <2>5. ASSUME cfg.strip, WellFormed(k), StartsLine(k, c + 1)
        PROVE  BytesOf(ls) = Plain(k, c + 1, e) \cap Text(k, c + 1, e)
    <3>1. c + 1 \in 1..Len(k) + 1 /\ e \in 1..Len(k) /\ c + p + 1 \in 1..Len(k)
      BY <1>1, <1>3, <1>11
    <3>2. k[c + p + 1] \in {"nl", "cr"}
      <4>1. CASE p = n
        BY <1>11, <4>1
      <4>2. CASE p # n
        <5>1. c + p + 1 = c + n /\ k[c + n] = "cr"
          BY <1>1, <1>3, <4>2
        <5> QED BY <5>1
      <4> QED BY <4>1, <4>2
    <3>3. Clear(k, c + 1) /\ Clear(k, c + p + 1)
      BY <1>3, <2>5, <3>1, <3>2, LineIsClear, NewlineIsClear
    <3>4. ToSet(f) = Plain(k, c + 1, c + p)
      <4>1. ToSet(StripANSI(k, t)) = Plain(k, c + 1, c + Len(t))
        BY <1>1, <2>5, <3>3, StripIsPlain DEF p
      <4> QED BY <1>5, <2>5, <4>1 DEF p
    <3>5. \A i \in c + 1..c + p : i \in c + 1..e
      BY <1>7
    <3> QED BY <1>4, <2>3, <3>4, <3>5 DEF Plain
  <2>6. StartsLine(k, e + 1)
    <3>1. (e + 1) - 1 = e
      BY <1>3
    <3> QED BY <1>11, <3>1 DEF StartsLine
  <2>7. Len(ls) >= Cardinality(NL(k, c + 1, e))
    BY <1>4, <2>2
  <2>8. ~cfg.strip => Text(k, c + 1, e) \subseteq BytesOf(ls)
    BY <2>4
  <2>9. Forwards(k, ls, c + 1, e)
    BY <1>4, <1>8, <1>9, <2>4, <2>5, <2>6, <2>7, <2>8 DEF Forwards
  <2> QED BY <2>9 DEF ls, f
<1> QED BY <1>10, <1>11 DEF f, n

\* Of no bytes, no lines are forwarded.
LEMMA ForwardsNone ==
  ASSUME NEW k, NEW a \in Nat
  PROVE  Forwards(k, <<>>, a + 1, a)
<1>1. a + 1..a = {} /\ (a + 1) - 1 = a
  OBVIOUS
<1>2. /\ NL(k, a + 1, a) = {} /\ Plain(k, a + 1, a) = {} /\ Text(k, a + 1, a) = {}
      /\ Cardinality(NL(k, a + 1, a)) = 0
  BY <1>1, FS_EmptySet DEF NL, Plain, Text
<1>3. /\ <<>> \in Seq(Seq(Int)) /\ Len(<<>>) = 0 /\ BytesOf(<<>>) = {} /\ Ordered(<<>>)
      /\ \A n \in 1..0 : FALSE
  BY DEF BytesOf, Ordered
<1> QED BY <1>1, <1>2, <1>3 DEF Forwards

\* What is forwarded of the lines that Split returns.
Sent(k, ls) == [i \in DOMAIN ls |-> Forwarded(k, ls[i])]

\* Of a line before others.
LEMMA SentLine ==
  ASSUME NEW k, NEW d \in Seq(Int), NEW ls \in Seq(Seq(Int)),
         Forwarded(k, d) \in Seq(Int), Sent(k, ls) \in Seq(Seq(Int))
  PROVE  Sent(k, <<d>> \o ls) = <<Forwarded(k, d)>> \o Sent(k, ls)
<1> DEFINE x == <<d>>
           y == <<Forwarded(k, d)>>
           t == x \o ls
           u == y \o Sent(k, ls)
           n == Len(ls)
<1>1. /\ x \in Seq(Seq(Int)) /\ Len(x) = 1 /\ x[1] = d
      /\ y \in Seq(Seq(Int)) /\ Len(y) = 1 /\ y[1] = Forwarded(k, d)
  OBVIOUS
<1> HIDE DEF x, y
<1>2. n \in Nat /\ DOMAIN ls = 1..n /\ Len(Sent(k, ls)) = n /\ \A i \in 1..n : Sent(k, ls)[i] = Forwarded(k, ls[i])
  <2>1. n \in Nat /\ DOMAIN ls = 1..n
    BY LenProperties
  <2>2. DOMAIN Sent(k, ls) = 1..n
    BY <2>1 DEF Sent
  <2>3. Len(Sent(k, ls)) = n
    BY <2>1, <2>2, LenProperties
  <2> QED BY <2>1, <2>3 DEF Sent
<1>3. /\ t \in Seq(Seq(Int)) /\ Len(t) = 1 + n
      /\ \A i \in 1..1 + n : t[i] = IF i <= 1 THEN x[i] ELSE ls[i - 1]
  <2>1. /\ t \in Seq(Seq(Int)) /\ Len(t) = Len(x) + n
        /\ \A i \in 1..Len(x) + n : t[i] = IF i <= Len(x) THEN x[i] ELSE ls[i - Len(x)]
    BY <1>1, ConcatProperties
  <2> HIDE DEF t
  <2> QED BY <1>1, <2>1
<1>4. /\ u \in Seq(Seq(Int)) /\ Len(u) = 1 + n
      /\ \A i \in 1..1 + n : u[i] = IF i <= 1 THEN y[i] ELSE Sent(k, ls)[i - 1]
  <2> DEFINE z == Sent(k, ls)
  <2>1. z \in Seq(Seq(Int)) /\ Len(z) = n
    BY <1>2
  <2> HIDE DEF z, n
  <2>2. /\ y \o z \in Seq(Seq(Int)) /\ Len(y \o z) = Len(y) + Len(z)
        /\ \A i \in 1..Len(y) + Len(z) : (y \o z)[i] = IF i <= Len(y) THEN y[i] ELSE z[i - Len(y)]
    BY <1>1, <2>1, ConcatProperties
  <2>3. u = y \o z
    BY DEF z
  <2> HIDE DEF u
  <2> QED BY <1>1, <2>1, <2>2, <2>3 DEF z
<1> HIDE DEF t, u, n
<1>5. DOMAIN t = 1..1 + n /\ DOMAIN u = 1..1 + n /\ u = [i \in 1..1 + n |-> u[i]]
  BY <1>3, <1>4, LenProperties
<1>6. ASSUME NEW i \in 1..1 + n PROVE Forwarded(k, t[i]) = u[i]
  <2>1. CASE i = 1
    <3>1. t[i] = d /\ u[i] = Forwarded(k, d)
      BY <1>1, <1>3, <1>4, <2>1
    <3> QED BY <3>1
  <2>2. CASE i # 1
    <3>1. ~(i <= 1) /\ i - 1 \in 1..n
      BY <1>2, <2>2
    <3>2. t[i] = ls[i - 1] /\ u[i] = Sent(k, ls)[i - 1]
      BY <1>3, <1>4, <3>1
    <3> QED BY <1>2, <3>1, <3>2
  <2> QED BY <2>1, <2>2
<1>7. Sent(k, t) = [i \in 1..1 + n |-> Forwarded(k, t[i])]
  BY <1>5 DEF Sent
<1> QED BY <1>5, <1>6, <1>7 DEF t, u, x, y

\* A part of a piece.
LEMMA PiecePart ==
  ASSUME NEW k, NEW d, NEW c, Piece(k, d, c), NEW i \in 1..Len(d) + 1, NEW j \in i - 1..Len(d)
  PROVE  Piece(k, SubSeq(d, i, j), c + i - 1) /\ Len(SubSeq(d, i, j)) = j - i + 1
<1> DEFINE n == Len(d)
           t == SubSeq(d, i, j)
<1>1. /\ n \in Nat /\ c \in Nat /\ c + n <= Len(k) /\ Len(k) \in Nat /\ d \in Seq(Int) /\ k \in Seq(Kinds)
      /\ \A l \in 1..n : d[l] = c + l /\ d[l] \in Int
  BY LenProperties, ElementOfSeq DEF Piece
<1>2. t \in Seq(Int) /\ Len(t) = j - i + 1 /\ \A l \in 1..j - i + 1 : t[l] = d[i + l - 1]
  <2>1. i \in Int /\ j \in Int /\ \A l \in i..j : d[l] \in Int
    <3>1. \A l \in i..j : l \in 1..n
      BY <1>1
    <3> QED BY <1>1, <3>1
  <2>2. /\ t \in Seq(Int) /\ Len(t) = IF i <= j THEN j - i + 1 ELSE 0
        /\ \A l \in 1..j - i + 1 : t[l] = d[i + l - 1]
    BY <2>1, SubSeqProperties, SMTT(30)
  <2>3. ~(i <= j) => j - i + 1 = 0
    BY <1>1
  <2> HIDE DEF t
  <2> QED BY <2>2, <2>3
<1> HIDE DEF t
<1>3. \A l \in 1..j - i + 1 : i + l - 1 \in 1..n /\ c + (i + l - 1) = c + i - 1 + l
  BY <1>1
<1>4. c + i - 1 \in Nat /\ c + i - 1 + (j - i + 1) = c + j /\ c + j <= Len(k)
  BY <1>1
<1> QED BY <1>1, <1>2, <1>3, <1>4 DEF Piece, t

\* Where no byte of a part is a newline.
LEMMA NoNewline ==
  ASSUME NEW k, NEW d, NEW c, Piece(k, d, c), NEW i \in 1..Len(d) + 1, NEW j \in i - 1..Len(d),
         \A l \in i..j : k[d[l]] # "nl"
  PROVE  NL(k, c + i, c + j) = {}
<1>1. Len(d) \in Nat /\ c \in Nat /\ \A l \in 1..Len(d) : d[l] = c + l
  BY LenProperties DEF Piece
<1> SUFFICES ASSUME NEW b \in c + i..c + j, k[b] = "nl" PROVE FALSE
  BY DEF NL
<1>2. b - c \in i..j /\ b - c \in 1..Len(d) /\ c + (b - c) = b
  BY <1>1
<1> QED BY <1>1, <1>2

\* What Split makes of a piece d of the stream k: lines that are forwarded, and the rest, in
\* which there is no newline.
Splits(k, d, c, i, r) ==
  LET n == Len(d)
  IN  /\ r.lines \in Seq(Seq(Int))
      /\ \E m \in c + i - 1..c + n : /\ Forwards(k, Sent(k, r.lines), c + i, m)
                                     /\ Piece(k, r.rest, m) /\ m + Len(r.rest) = c + n
                                     /\ NL(k, m + 1, c + n) = {}

\* A line before what is split further on.
LEMMA SplitsOn ==
  ASSUME NEW k, NEW d, NEW c, Piece(k, d, c), NEW i \in 1..Len(d), NEW j \in i - 1..Len(d),
         NEW e \in i + 1..Len(d) + 1, NEW r, Splits(k, d, c, e, r), NL(k, c + i, c + j) = {},
         NEW t, \/ e = j + 1 /\ t = SubSeq(d, i, j)
                \/ e = j + 2 /\ k[c + j + 1] = "nl" /\ t = TrimCR(k, SubSeq(d, i, j))
  PROVE  Splits(k, d, c, i, [lines |-> <<t>> \o r.lines, rest |-> r.rest])
<1> DEFINE n == Len(d)
           line == SubSeq(d, i, j)
           q == [lines |-> <<t>> \o r.lines, rest |-> r.rest]
<1>1. /\ n \in Nat /\ c \in Nat /\ c + n <= Len(k) /\ Len(k) \in Nat
  BY LenProperties DEF Piece
<1>2. Piece(k, line, c + i - 1) /\ Len(line) = j - i + 1
  <2>1. i \in 1..Len(d) + 1
    BY <1>1
  <2> QED BY <2>1, PiecePart
<1>13. Piece(k, t, c + i - 1) /\ t \in Seq(Int)
  <2>1. t = line \/ t = TrimCR(k, line)
    OBVIOUS
  <2> HIDE DEF line
  <2>2. Piece(k, t, c + i - 1)
    BY <1>2, <2>1, Trimmed
  <2> QED BY <2>2 DEF Piece
<1>3. PICK m \in c + e - 1..c + n : /\ Forwards(k, Sent(k, r.lines), c + e, m)
                                    /\ Piece(k, r.rest, m) /\ m + Len(r.rest) = c + n
                                    /\ NL(k, m + 1, c + n) = {}
  BY DEF Splits
<1>4. r.lines \in Seq(Seq(Int))
  BY DEF Splits
<1>14. \/ e = j + 1 /\ t = line
       \/ e = j + 2 /\ k[c + j + 1] = "nl" /\ t = TrimCR(k, line)
  OBVIOUS
<1> HIDE DEF line, n
<1>5. Forwards(k, <<Forwarded(k, t)>>, c + i, c + e - 1)
  <2>1. c + i - 1 + 1 = c + i /\ c + i - 1 + Len(line) = c + j
    BY <1>1, <1>2
  <2>2. \/ c + e - 1 = c + i - 1 + Len(line) /\ t = line
        \/ /\ c + e - 1 = c + i - 1 + Len(line) + 1 /\ c + e - 1 <= Len(k)
           /\ k[c + e - 1] = "nl" /\ t = TrimCR(k, line)
    <3>1. CASE e = j + 1 /\ t = line
      BY <1>1, <2>1, <3>1
    <3>2. CASE e = j + 2 /\ k[c + j + 1] = "nl" /\ t = TrimCR(k, line)
      <4>1. c + e - 1 = c + j + 1 /\ c + e - 1 <= Len(k)
        BY <1>1, <3>2 DEF n
      <4> QED BY <2>1, <3>2, <4>1
    <3> QED BY <1>14, <3>1, <3>2
  <2>3. NL(k, c + i - 1 + 1, c + i - 1 + Len(line)) = {}
    BY <2>1
  <2>4. Forwards(k, <<Forwarded(k, t)>>, c + i - 1 + 1, c + e - 1)
    BY <1>2, <2>2, <2>3, ForwardsLine
  <2> QED BY <2>1, <2>4
<1>6. Forwarded(k, t) \in Seq(Int) /\ Sent(k, r.lines) \in Seq(Seq(Int))
  BY <1>13, <1>3, PieceBytes DEF Forwards
<1>7. Sent(k, <<t>> \o r.lines) = <<Forwarded(k, t)>> \o Sent(k, r.lines)
  BY <1>13, <1>4, <1>6, SentLine
<1>8. Forwards(k, Sent(k, <<t>> \o r.lines), c + i, m)
  <2>1. /\ c + i \in Nat /\ c + e - 1 \in Nat /\ m \in Nat /\ c + i <= (c + e - 1) + 1
        /\ 1 <= c + i /\ c + e - 1 <= m /\ (c + e - 1) + 1 = c + e
    BY <1>1
  <2> QED BY <1>3, <1>5, <1>7, <2>1, ForwardsBoth
<1>9. <<t>> \o r.lines \in Seq(Seq(Int))
  BY <1>13, <1>4, OneLine, ConcatProperties
<1>10. m \in c + i - 1..c + n
  BY <1>1
<1>11. q.lines = <<t>> \o r.lines /\ q.rest = r.rest
  OBVIOUS
<1> HIDE DEF q
<1>12. Splits(k, d, c, i, q)
  BY <1>3, <1>8, <1>9, <1>10, <1>11 DEF Splits, n
<1> QED BY <1>12 DEF q

\* One turn of the loop.
LEMMA SplitTurnHas ==
  ASSUME NEW k, NEW d, NEW c, Piece(k, d, c), NEW f, NEW i \in 1..Len(d) + 1,
         \A j \in i + 1..Len(d) + 1 : Splits(k, d, c, j, f[j])
  PROVE  Splits(k, d, c, i, SplitTurn(k, d, f, i))
<1> DEFINE n == Len(d)
           ends == {j \in Newlines(k, d) : i <= j}
           e == CHOOSE e \in ends : \A j \in ends : e <= j
<1>1. /\ n \in Nat /\ c \in Nat /\ c + n <= Len(k) /\ Len(k) \in Nat /\ MaxLine \in Nat \ {0}
      /\ d \in Seq(Int) /\ \A l \in 1..n : d[l] = c + l
  BY CaptureConstants, LenProperties DEF Piece
<1>2. CASE ends # {}
  <2>1. e \in i..n /\ k[d[e]] = "nl" /\ \A l \in i..e - 1 : k[d[l]] # "nl"
    BY <1>1, <1>2, NextNewline
  <2>2. SplitTurn(k, d, f, i) = [lines |-> <<TrimCR(k, SubSeq(d, i, e - 1))>> \o f[e + 1].lines, rest |-> f[e + 1].rest]
    BY <1>2 DEF SplitTurn
  <2> HIDE DEF e, ends
  <2>3. /\ i \in 1..n /\ e - 1 \in i - 1..n /\ e + 1 \in i + 1..n + 1 /\ e + 1 = (e - 1) + 2
        /\ i \in 1..n + 1 /\ e \in 1..n /\ c + e = c + (e - 1) + 1
    BY <1>1, <2>1
  <2>4. NL(k, c + i, c + (e - 1)) = {}
    BY <2>1, <2>3, NoNewline
  <2>5. k[c + (e - 1) + 1] = "nl"
    BY <1>1, <2>1, <2>3
  <2>6. Splits(k, d, c, e + 1, f[e + 1])
    BY <2>3
  <2>7. Splits(k, d, c, i, [lines |-> <<TrimCR(k, SubSeq(d, i, e - 1))>> \o f[e + 1].lines, rest |-> f[e + 1].rest])
    <3> HIDE DEF n
    <3>1. \A r : Splits(k, d, c, e + 1, r) =>
            Splits(k, d, c, i, [lines |-> <<TrimCR(k, SubSeq(d, i, e - 1))>> \o r.lines, rest |-> r.rest])
      BY <2>3, <2>4, <2>5, SplitsOn DEF n
    <3> QED BY <2>6, <3>1
  <2> QED BY <2>2, <2>7
<1>3. ASSUME ends = {}, NEW l \in i..n PROVE k[d[l]] # "nl"
  <2> SUFFICES ASSUME k[d[l]] = "nl" PROVE FALSE
    OBVIOUS
  <2>1. l \in 1..n /\ i <= l
    BY <1>1
  <2>2. l \in ends
    BY <2>1 DEF Newlines
  <2> QED BY <1>3, <2>2
<1>4. CASE ends = {} /\ n - i + 1 >= MaxLine
  <2> DEFINE j == i + MaxLine - 1
  <2>1. SplitTurn(k, d, f, i) = [lines |-> <<SubSeq(d, i, j)>> \o f[i + MaxLine].lines, rest |-> f[i + MaxLine].rest]
    BY <1>4 DEF SplitTurn
  <2>2. /\ i \in 1..n /\ j \in i - 1..n /\ i + MaxLine \in i + 1..n + 1 /\ i + MaxLine = j + 1
        /\ \A l \in i..j : l \in i..n
    BY <1>1, <1>4
  <2> HIDE DEF j
  <2>3. NL(k, c + i, c + j) = {}
    BY <1>3, <1>4, <2>2, NoNewline
  <2>4. Splits(k, d, c, i + MaxLine, f[i + MaxLine])
    BY <2>2
  <2>5. Splits(k, d, c, i, [lines |-> <<SubSeq(d, i, j)>> \o f[i + MaxLine].lines, rest |-> f[i + MaxLine].rest])
    <3> HIDE DEF n
    <3>1. \A r : Splits(k, d, c, i + MaxLine, r) =>
            Splits(k, d, c, i, [lines |-> <<SubSeq(d, i, j)>> \o r.lines, rest |-> r.rest])
      BY <2>2, <2>3, SplitsOn DEF n
    <3> QED BY <2>4, <3>1
  <2> QED BY <2>1, <2>5
<1>5. CASE ends = {} /\ ~(n - i + 1 >= MaxLine)
  <2> DEFINE t == SubSeq(d, i, n)
             r == [lines |-> <<>>, rest |-> t]
             m == c + i - 1
  <2>1. SplitTurn(k, d, f, i) = r
    BY <1>5 DEF SplitTurn
  <2>2. Piece(k, t, m) /\ Len(t) = n - i + 1
    <3>1. n \in i - 1..n
      BY <1>1
    <3> QED BY <3>1, PiecePart
  <2>3. m \in Nat /\ m \in c + i - 1..c + n /\ m + (n - i + 1) = c + n /\ m + 1 = c + i
    BY <1>1
  <2>4. NL(k, c + i, c + n) = {}
    <3>1. n \in i - 1..n
      BY <1>1
    <3> QED BY <1>3, <1>5, <3>1, NoNewline
  <2> HIDE DEF t, m
  <2>5. Forwards(k, <<>>, m + 1, m)
    BY <2>3, ForwardsNone
  <2>6. Sent(k, <<>>) = <<>> /\ <<>> \in Seq(Seq(Int))
    BY DEF Sent
  <2>7. r.lines = <<>> /\ r.rest = t
    OBVIOUS
  <2> HIDE DEF r
  <2>8. Splits(k, d, c, i, r)
    BY <2>2, <2>3, <2>4, <2>5, <2>6, <2>7 DEF Splits
  <2> QED BY <2>1, <2>8
<1> QED BY <1>2, <1>4, <1>5

\* The whole loop.
LEMMA SplitHas ==
  ASSUME NEW k, NEW d, NEW c, Piece(k, d, c)
  PROVE  Splits(k, d, c, 1, Split(k, d))
<1> DEFINE n == Len(d)
<1>1. n \in Nat /\ d \in Seq(Int)
  BY LenProperties DEF Piece
<1>2. PICK split : /\ Split(k, d) = split[1]
                   /\ \A i \in 1..n + 1 : split[i] = SplitTurn(k, d, split, i)
  BY <1>1, SplitIs
<1> DEFINE Good(i) == Splits(k, d, c, i, split[i])
<1>3. ASSUME NEW i \in 1..n + 1, \A j \in i + 1..n + 1 : Good(j) PROVE Good(i)
  <2>1. Splits(k, d, c, i, SplitTurn(k, d, split, i))
    BY <1>3, SplitTurnHas
  <2> QED BY <1>2, <2>1
<1> HIDE DEF Good
<1>4. \A m \in Nat : m <= n => \A i \in n + 1 - m..n + 1 : Good(i)
  <2> DEFINE T == {m \in Nat : m <= n => \A i \in n + 1 - m..n + 1 : Good(i)}
  <2>1. 0 \in T
    <3>1. ASSUME NEW i \in n + 1 - 0..n + 1 PROVE Good(i)
      <4>1. i \in 1..n + 1 /\ \A j \in i + 1..n + 1 : FALSE
        BY <1>1
      <4> QED BY <1>3, <4>1
    <3> QED BY <3>1
  <2>2. ASSUME NEW m \in Nat, m \in T PROVE m + 1 \in T
    <3> SUFFICES ASSUME m + 1 <= n, NEW i \in n + 1 - (m + 1)..n + 1 PROVE Good(i)
      BY <1>1
    <3>1. \A j \in n + 1 - m..n + 1 : Good(j)
      BY <1>1, <2>2
    <3>2. CASE i \in n + 1 - m..n + 1
      BY <3>1, <3>2
    <3>3. CASE i = n - m
      <4>1. i \in 1..n + 1 /\ \A j \in i + 1..n + 1 : j \in n + 1 - m..n + 1
        BY <1>1, <3>3
      <4> QED BY <1>3, <3>1, <4>1
    <3> QED BY <1>1, <3>2, <3>3
  <2> HIDE DEF T
  <2>3. \A m \in Nat : m \in T
    BY <2>1, <2>2, Induct
  <2> QED BY <2>3 DEF T
<1>5. Good(1)
  <2>1. n + 1 - n = 1 /\ n <= n /\ 1 \in 1..n + 1
    BY <1>1
  <2> QED BY <1>1, <1>4, <2>1
<1> QED BY <1>2, <1>5 DEF Good

\* What was forwarded of the stream when it ended at Len(k), if it goes on.
LEMMA ForwardsStill ==
  ASSUME NEW k \in Seq(Kinds), NEW l \in Seq(Kinds), Len(k) <= Len(l),
         \A i \in 1..Len(k) : l[i] = k[i],
         NEW ls, NEW q \in 0..Len(k), Forwards(k, ls, 1, q)
  PROVE  Forwards(l, ls, 1, q)
<1>1. Len(k) \in Nat /\ Len(l) \in Nat /\ q \in Nat /\ \A i \in 1..q : i \in 1..Len(k)
  BY LenProperties
<1>2. NL(k, 1, q) = NL(l, 1, q)
  BY <1>1 DEF NL
<1>4. Text(k, 1, q) = Text(l, 1, q)
  <2>1. \A i \in 1..q : i + 1 <= q => i + 1 \in 1..Len(k)
    BY <1>1
  <2> QED BY <1>1, <2>1 DEF Text
<1>3. ASSUME Len(ls) = Cardinality(NL(l, 1, q)), StartsLine(l, 1)
      PROVE  /\ StartsLine(l, q + 1)
             /\ ~cfg.strip => BytesOf(ls) = Text(l, 1, q)
             /\ cfg.strip /\ WellFormed(l) => BytesOf(ls) = Plain(l, 1, q) \cap Text(l, 1, q)
  <2>1. /\ WellFormed(l) => WellFormed(k)
        /\ \A i \in 1..Len(k) : ~(i = Len(k) /\ k[i] = "esc") => (InCSI(k, i) <=> InCSI(l, i))
    BY Prefix
  <2>2. /\ StartsLine(k, q + 1)
        /\ ~cfg.strip => BytesOf(ls) = Text(k, 1, q)
        /\ cfg.strip /\ WellFormed(k) => BytesOf(ls) = Plain(k, 1, q) \cap Text(k, 1, q)
    <3>1. StartsLine(k, 1)
      BY DEF StartsLine
    <3> QED BY <1>2, <1>3, <3>1 DEF Forwards
  <2>3. (q + 1) - 1 = q /\ (q + 1 = 1 \/ q \in 1..Len(k))
    BY <1>1
  <2>4. StartsLine(l, q + 1)
    BY <2>2, <2>3 DEF StartsLine
  <2>5. Plain(k, 1, q) = Plain(l, 1, q)
    <3>1. ASSUME NEW i \in 1..q PROVE ~(i = Len(k) /\ k[i] = "esc")
      <4>1. i = Len(k) => q + 1 # 1 /\ i = q
        BY <1>1
      <4> QED BY <2>2, <2>3, <4>1 DEF StartsLine
    <3> QED BY <1>1, <2>1, <3>1 DEF Plain
  <2> QED BY <1>4, <2>1, <2>2, <2>4, <2>5
<1> QED BY <1>2, <1>3, <1>4 DEF Forwards

-----------------------------------------------------------------------------
(***************************************************************************)
(* What is forwarded.                                                      *)
(***************************************************************************)
\* The buffer has what followed the last line; there is no newline in it.
LinesInv ==
  ~cfg.logfile =>
    LET q == Len(input) - Len(partial)
    IN  /\ Piece(input, partial, q) /\ NL(input, q + 1, Len(input)) = {}
        /\ Forwards(input, lines, 1, q)

\* At first nothing is forwarded.
LEMMA LinesStart == Init => LinesInv
<1> SUFFICES ASSUME Init PROVE LinesInv
  OBVIOUS
<1>1. input = <<>> /\ partial = <<>> /\ lines = <<>> /\ Len(<<>>) = 0 /\ 0 - 0 = 0
  BY DEF Init
<1>2. Piece(<<>>, <<>>, 0)
  BY DEF Piece
<1>3. NL(<<>>, 0 + 1, 0) = {}
  BY DEF NL
<1>4. Forwards(<<>>, <<>>, 1, 0)
  <2>1. Forwards(<<>>, <<>>, 0 + 1, 0)
    BY ForwardsNone
  <2> QED BY <2>1
<1> QED BY <1>1, <1>2, <1>3, <1>4 DEF LinesInv

\* A line behind all others, at the end of the stream.
LEMMA LastLine ==
  ASSUME NEW k, NEW d, NEW ls, NEW q \in Nat, Piece(k, d, q), q + Len(d) = Len(k),
         NL(k, q + 1, Len(k)) = {}, Forwards(k, ls, 1, q)
  PROVE  Forwards(k, Append(ls, Forwarded(k, d)), 1, Len(k))
<1>1. Len(d) \in Nat /\ Len(k) \in Nat
  BY LenProperties DEF Piece
<1>2. Forwards(k, <<Forwarded(k, d)>>, q + 1, Len(k))
  <2>1. Len(k) = q + Len(d)
    OBVIOUS
  <2> QED BY <2>1, ForwardsLine
<1>3. Forwards(k, ls \o <<Forwarded(k, d)>>, 1, Len(k))
  <2>1. 1 \in Nat /\ 1 <= 1 /\ 1 <= q + 1 /\ q <= Len(k)
    BY <1>1
  <2> QED BY <1>1, <1>2, <2>1, ForwardsBoth
<1>4. Append(ls, Forwarded(k, d)) = ls \o <<Forwarded(k, d)>>
  <2>1. ls \in Seq(Seq(Int)) /\ Forwarded(k, d) \in Seq(Int)
    BY PieceBytes DEF Forwards
  <2> QED BY <2>1, AppendIsConcat
<1> QED BY <1>3, <1>4

\* A read forwards the lines that Split returns, the end of the stream what is left.
LEMMA LinesStep == Inv /\ LinesInv /\ [Next]_vars => LinesInv'
<1> SUFFICES ASSUME Inv, LinesInv, [Next]_vars, ~cfg'.logfile
    PROVE  LET q == Len(input') - Len(partial')
           IN  /\ Piece(input', partial', q) /\ NL(input', q + 1, Len(input')) = {}
               /\ Forwards(input, lines, 1, Len(input) - Len(partial))'
  BY DEF LinesInv
<1> DEFINE q == Len(input) - Len(partial)
<1>1. UNCHANGED cfg
  BY DEF Next, vars, Read, StreamEnd, Start, Reopen, Close, MoveAway
<1>2. /\ Piece(input, partial, q) /\ NL(input, q + 1, Len(input)) = {}
      /\ Forwards(input, lines, 1, q)
  BY <1>1 DEF LinesInv
<1>3. /\ TypeOK /\ input \in Seq(Kinds) /\ partial \in Seq(Int) /\ q \in Nat
      /\ Len(input) \in Nat /\ Len(partial) \in Nat /\ q + Len(partial) = Len(input)
  <2>1. input \in Seq(Kinds) /\ partial \in Seq(Int) /\ q \in Nat
    BY <1>2 DEF Piece
  <2> QED BY <2>1, LenProperties DEF Inv
<1> HIDE DEF q
<1>4. ASSUME NEW m, m = Len(input') - Len(partial'), Forwards(input', lines', 1, m)
      PROVE  Forwards(input, lines, 1, Len(input) - Len(partial))'
  BY <1>1, <1>4 DEF Forwards
<1>5. ASSUME NEW n \in 1..MaxRead, NEW chunk \in [1..n -> cfg.prints], Read(chunk)
      PROVE  \E m : /\ m = Len(input') - Len(partial') /\ Piece(input', partial', m)
                    /\ NL(input', m + 1, Len(input')) = {} /\ Forwards(input', lines', 1, m)
  <2> DEFINE raw == Raw(chunk)
             all == partial \o raw
             split == Split(input', all)
  <2>1. /\ n \in Nat /\ input' \in Seq(Kinds) /\ Len(input') = Len(input) + n
        /\ \A i \in 1..Len(input) : input'[i] = input[i]
        /\ raw \in Seq(Int) /\ Len(raw) = n /\ \A i \in 1..n : raw[i] = Len(input) + i
    BY <1>3, <1>5, ReadBytes DEF Raw
  <2>2. partial' = split.rest /\ lines' = lines \o Sent(input', split.lines)
    BY <1>1, <1>5 DEF Read, Raw, Sent
  <2> HIDE DEF raw
  <2>3. Piece(input', all, q) /\ q + Len(all) = Len(input')
    <3>1. q + (Len(partial) + Len(raw)) = Len(input') /\ q + Len(partial) = Len(input)
      <4>1. \A w, x, y, z \in Nat : w + x = y => w + (x + z) = y + z
        OBVIOUS
      <4>2. Len(raw) = n /\ Len(input') = Len(input) + Len(raw) /\ Len(raw) \in Nat
        BY <2>1
      <4>3. q \in Nat /\ Len(partial) \in Nat /\ q + Len(partial) = Len(input) /\ Len(input) \in Nat
        BY <1>3
      <4> QED BY <4>1, <4>2, <4>3
    <3>2. \A i \in 1..Len(partial) : partial[i] = q + i
      BY <1>2 DEF Piece
    <3>3. \A i \in 1..Len(raw) : raw[i] = q + Len(partial) + i
      BY <2>1, <3>1
    <3> QED BY <1>3, <2>1, <3>1, <3>2, <3>3, PieceGoesOn
  <2> HIDE DEF all
  <2>4. Splits(input', all, q, 1, split)
    BY <2>3, SplitHas
  <2> HIDE DEF split
  <2>5. PICK m \in q + 1 - 1..q + Len(all) :
          /\ Forwards(input', Sent(input', split.lines), q + 1, m)
          /\ Piece(input', split.rest, m) /\ m + Len(split.rest) = q + Len(all)
          /\ NL(input', m + 1, q + Len(all)) = {}
    BY <2>4 DEF Splits
  <2>6. m \in Nat /\ q <= m /\ m <= Len(input') /\ Len(input') \in Nat /\ Len(split.rest) \in Nat
    <3>1. Len(input') \in Nat /\ Len(split.rest) \in Nat
      BY <2>1, <2>5, LenProperties DEF Piece
    <3> QED BY <1>3, <2>3, <3>1
  <2>7. Forwards(input', lines, 1, q)
    <3>1. Len(input) <= Len(input') /\ q \in 0..Len(input)
      BY <1>3, <2>1
    <3> QED BY <1>2, <1>3, <2>1, <3>1, ForwardsStill
  <2>8. Forwards(input', lines \o Sent(input', split.lines), 1, m)
    <3>1. 1 \in Nat /\ 1 <= q + 1
      BY <1>3
    <3> QED BY <1>3, <2>5, <2>6, <2>7, <3>1, ForwardsBoth
  <2>9. m = Len(input') - Len(partial')
    <3>1. \A x, y, z \in Nat : x + y = z => x = z - y
      OBVIOUS
    <3>2. m + Len(partial') = Len(input')
      BY <2>2, <2>3, <2>5
    <3>3. Len(partial') \in Nat
      BY <2>2, <2>6
    <3> QED BY <2>6, <3>1, <3>2, <3>3
  <2> QED BY <2>2, <2>3, <2>5, <2>8, <2>9
<1>6. ASSUME StreamEnd
      PROVE  \E m : /\ m = Len(input') - Len(partial') /\ Piece(input', partial', m)
                    /\ NL(input', m + 1, Len(input')) = {} /\ Forwards(input', lines', 1, m)
  <2>1. input' = input /\ partial' = <<>> /\ Len(<<>>) = 0
    BY <1>6 DEF StreamEnd, stream
  <2>2. Forwards(input, lines', 1, Len(input))
    <3>1. CASE partial = <<>>
      <4>1. q = Len(input) /\ lines' = lines
        BY <1>3, <1>6, <2>1, <3>1 DEF StreamEnd
      <4> QED BY <1>2, <4>1
    <3>2. CASE partial # <<>>
      <4>1. lines' = Append(lines, Forwarded(input, partial))
        BY <1>6, <3>2 DEF StreamEnd
      <4> QED BY <1>2, <1>3, <4>1, LastLine
    <3> QED BY <3>1, <3>2
  <2>3. Piece(input, <<>>, Len(input))
    BY <1>3 DEF Piece
  <2>4. NL(input, Len(input) + 1, Len(input)) = {}
    BY <1>3 DEF NL
  <2>5. Len(input) - 0 = Len(input)
    BY <1>3
  <2> QED BY <2>1, <2>2, <2>3, <2>4, <2>5
<1>7. ASSUME UNCHANGED <<input, partial, lines>>
      PROVE  \E m : /\ m = Len(input') - Len(partial') /\ Piece(input', partial', m)
                    /\ NL(input', m + 1, Len(input')) = {} /\ Forwards(input', lines', 1, m)
  BY <1>2, <1>7 DEF q
<1>8. \E m : /\ m = Len(input') - Len(partial') /\ Piece(input', partial', m)
             /\ NL(input', m + 1, Len(input')) = {} /\ Forwards(input', lines', 1, m)
  <2>1. Start \/ Reopen \/ Close \/ MoveAway \/ UNCHANGED vars => UNCHANGED <<input, partial, lines>>
    BY DEF Start, Reopen, Close, MoveAway, vars, stream, forwarded
  <2> QED BY <1>5, <1>6, <1>7, <2>1 DEF Next
<1> QED BY <1>4, <1>8

\* However the pipe cuts the output of a program into chunks: what is forwarded of it, with
\* what is left in the buffer, is its text, in order and complete but for the carriage
\* returns before newlines, and if no line was cut off exactly that, with strip_ansi
\* without its escape sequences (LineSplitter.Write and Flush).
THEOREM LinesAlwaysFaithful == Spec => []LinesFaithful
<1>1. LinesInv => LinesFaithful
  <2> SUFFICES ASSUME LinesInv, ~cfg.logfile PROVE LinesFaithful
    BY DEF LinesFaithful
  <2> DEFINE L == Len(input)
             q == L - Len(partial)
             pieces == Append(lines, Forwarded(input, partial))
             text == {i \in 1..L : input[i] # "nl"}
             newline == (1..L) \ text
             trimmed == {i \in text : input[i] = "cr" /\ i + 1 \in newline}
  <2>1. /\ Piece(input, partial, q) /\ NL(input, q + 1, L) = {}
        /\ Forwards(input, lines, 1, q)
    BY DEF LinesInv
  <2>2. /\ L \in Nat /\ q \in Nat /\ q + Len(partial) = L /\ q <= L
        /\ lines \in Seq(Seq(Int)) /\ Forwarded(input, partial) \in Seq(Int)
    <3>1. input \in Seq(Kinds) /\ partial \in Seq(Int) /\ q \in Nat
      BY <2>1 DEF Piece
    <3>2. L \in Nat /\ Len(partial) \in Nat
      BY <3>1, LenProperties
    <3>3. lines \in Seq(Seq(Int)) /\ Forwarded(input, partial) \in Seq(Int)
      BY <2>1, PieceBytes DEF Forwards
    <3> HIDE DEF L
    <3>4. q + Len(partial) = L /\ q <= L
      BY <3>1, <3>2
    <3> QED BY <3>1, <3>2, <3>3, <3>4
  <2> HIDE DEF q
  <2>3. Forwards(input, pieces, 1, L)
    BY <2>1, <2>2, LastLine
  <2>4. newline = NL(input, 1, L) /\ text = (1..L) \ NL(input, 1, L)
    BY DEF NL
  <2>9. text \ trimmed = Text(input, 1, L)
    <3>1. \A i \in 1..L : i + 1 \in 1..L <=> i + 1 <= L
      BY <2>2
    <3> HIDE DEF L
    <3> QED BY <3>1 DEF Text
  <2>5. BytesOf(pieces) = BytesOf(lines) \cup ToSet(Forwarded(input, partial))
    BY <2>2, AppendMoved
  <2>6. ASSUME Len(lines) = Cardinality(newline)
        PROVE  /\ ~cfg.strip => BytesOf(pieces) = Text(input, 1, L)
               /\ cfg.strip /\ WellFormed(input) =>
                    BytesOf(pieces) = {i \in Text(input, 1, L) : ~InCSI(input, i)}
    <3>1. NL(input, 1, L) = NL(input, 1, q) /\ \A i : i \in 1..L <=> i \in 1..q \/ i \in q + 1..L
      <4>1. \A i : i \in 1..L <=> i \in 1..q \/ i \in q + 1..L
        BY <2>2
      <4> QED BY <2>1, <4>1 DEF NL
    <3>2. /\ StartsLine(input, q + 1)
          /\ ~cfg.strip => BytesOf(lines) = Text(input, 1, q)
          /\ cfg.strip /\ WellFormed(input) => BytesOf(lines) = Plain(input, 1, q) \cap Text(input, 1, q)
      <4>1. StartsLine(input, 1) /\ Len(lines) = Cardinality(NL(input, 1, q))
        BY <2>4, <2>6, <3>1 DEF StartsLine
      <4> QED BY <2>1, <4>1 DEF Forwards
    <3>3. Text(input, 1, L) = Text(input, 1, q) \cup (q + 1..L)
      <4>1. Text(input, 1, L) = Text(input, 1, q) \cup Text(input, q + 1, L)
        <5>1. 1 \in Nat /\ 1 <= 1 /\ 1 <= q + 1 /\ q <= L
          BY <2>2
        <5> QED BY <2>2, <3>2, <5>1, TextOfParts
      <4>2. Text(input, q + 1, L) = q + 1..L
        <5>1. \A i \in q + 1..L : input[i] # "nl"
          BY <2>1 DEF NL
        <5>2. \A i \in q + 1..L : i + 1 <= L => i + 1 \in q + 1..L
          BY <2>2
        <5> HIDE DEF L
        <5> QED BY <5>1, <5>2 DEF Text
      <4> QED BY <4>1, <4>2
    <3>4. ~cfg.strip => BytesOf(pieces) = Text(input, 1, L)
      <4> SUFFICES ASSUME ~cfg.strip PROVE BytesOf(pieces) = Text(input, 1, L)
        OBVIOUS
      <4>1. ToSet(Forwarded(input, partial)) = q + 1..q + Len(partial)
        BY <2>1, PieceBytes DEF Forwarded
      <4> QED BY <2>2, <2>5, <3>2, <3>3, <4>1
    <3>5. ASSUME cfg.strip, WellFormed(input)
          PROVE  BytesOf(pieces) = {i \in Text(input, 1, L) : ~InCSI(input, i)}
      <4>1. Clear(input, q + 1)
        <5>1. q + 1 \in 1..L + 1 /\ input \in Seq(Kinds)
          BY <2>1, <2>2 DEF Piece
        <5> QED BY <3>2, <5>1, LineIsClear
      <4>2. ToSet(Forwarded(input, partial)) = Plain(input, q + 1, L)
        <5>1. ToSet(StripANSI(input, partial)) = Plain(input, q + 1, q + Len(partial))
          BY <2>1, <2>2, <3>5, <4>1, StripIsPlain
        <5> QED BY <2>2, <3>5, <5>1 DEF Forwarded
      <4>3. BytesOf(lines) = {i \in Text(input, 1, q) : ~InCSI(input, i)}
        <5>1. \A i \in Text(input, 1, q) : i \in 1..q
          BY DEF Text
        <5> QED BY <3>2, <3>5, <5>1 DEF Plain
      <4> QED BY <2>5, <3>3, <4>2, <4>3 DEF Plain
    <3> QED BY <3>4, <3>5
  <2>7. UNION {ToSet(pieces[n]) : n \in 1..Len(pieces)} = BytesOf(pieces)
    BY DEF BytesOf
  <2> HIDE DEF pieces, text, newline, trimmed
  <2>8. /\ \A n \in 1..Len(pieces) : Increasing(pieces[n])
        /\ \A m, n \in 1..Len(pieces) : m < n =>
             \A b \in ToSet(pieces[m]), c \in ToSet(pieces[n]) : b < c
        /\ BytesOf(pieces) \subseteq text
        /\ ~cfg.strip => /\ text \ trimmed \subseteq BytesOf(pieces)
                         /\ \A n \in 1..Len(pieces) : Consecutive(pieces[n])
    BY <2>3, <2>4, <2>9 DEF Forwards, Ordered
  <2> QED BY <2>6, <2>7, <2>8, <2>9 DEF LinesFaithful, pieces, text, newline, trimmed
<1>2. Spec => []LinesInv
  BY LinesStart, LinesStep, Invariant, PTL DEF Spec
<1> QED BY <1>1, <1>2, PTL

=============================================================================
