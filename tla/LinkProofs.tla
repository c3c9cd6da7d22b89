----------------------------- MODULE LinkProofs -----------------------------
(***************************************************************************)
(* Proofs about Link and LinkBuffer, for buffers of all sizes and streams  *)
(* of any bytes.  First the buffers, without their bytes.  Then the        *)
(* protocol: what Packet writes, Parse reads, whatever follows it; bytes   *)
(* behind a packet do not change it; and what Parse reads could have been  *)
(* sent.  The functions that Framing defines by recursion are unfolded     *)
(* once each (a function that satisfies the equation exists, so the one    *)
(* CHOOSE picks does), and then reasoned about by induction over a set of  *)
(* positions or lengths.  Last, the invariants of Link.                    *)
(***************************************************************************)
EXTENDS Link, SequenceTheorems, WellFoundedInduction, TLAPS

(* A sound buffer is not empty of bytes and holds its data.                 *)
Sound(b) == b \in Buffers /\ b.total >= 1 /\ space(b) >= 0

(* A buffer that cannot be read into has data, which a parser has to take.  *)
RoomOrEmpty(b) == b.size = 0 \/ space(b) > 0

IInv == /\ Sound(input) /\ Sound(output)
        /\ pc \in {"read", "recv", "send", "write", "result", "dropped"}
        /\ pc = "read" => RoomOrEmpty(input)

-----------------------------------------------------------------------------
(* The operations of Buffer keep a buffer sound and never lose room.        *)

LEMMA GrowMakesRoom ==
    ASSUME NEW b, Sound(b)
    PROVE  Sound(grow(b)) /\ space(grow(b)) > space(b) /\ grow(b).size = b.size
  BY BufferAssumption DEF Sound, Buffers, grow, space

LEMMA NiceKeepsRoom ==
    ASSUME NEW b, Sound(b)
    PROVE  /\ Sound(nice(b)) /\ space(nice(b)) >= space(b) /\ nice(b).size = b.size
           /\ nice(b).off <= nice(b).total \div 2
  BY DEF Sound, Buffers, nice, Moves, space

LEMMA IncrWithinRoom ==
    ASSUME NEW b, Sound(b), NEW n \in Nat, n <= space(b)
    PROVE  Sound(incr(b, n))
  BY DEF Sound, Buffers, incr, space

LEMMA DecrWithinSize ==
    ASSUME NEW b, Sound(b), NEW n \in 0..b.size
    PROVE  Sound(decr(b, n)) /\ space(decr(b, n)) = space(b)
  BY DEF Sound, Buffers, decr, space

LEMMA NewIsSound == Sound(NewBuffer) /\ RoomOrEmpty(NewBuffer)
  BY BufferAssumption DEF Sound, Buffers, NewBuffer, space, RoomOrEmpty

(* A buffer with room, or without data, has room when it is read into: data *)
(* that was consumed to the very end of the block starts over.              *)
LEMMA ReadyHasRoom ==
    ASSUME NEW b, Sound(b), RoomOrEmpty(b)
    PROVE  Sound(ReadyToRead(b)) /\ space(ReadyToRead(b)) > 0
  <1> DEFINE g == IF b.total = INIT_BUFFER_SIZE THEN grow(b) ELSE b
  <1>1. Sound(g) /\ RoomOrEmpty(g)
    BY GrowMakesRoom DEF RoomOrEmpty, Sound, Buffers, space
  <1>2. Sound(nice(g)) /\ space(nice(g)) >= space(g) /\ nice(g).size = g.size
        /\ nice(g).off <= nice(g).total \div 2
    BY <1>1, NiceKeepsRoom
  <1>3. ReadyToRead(b) = nice(g)
    BY DEF ReadyToRead
  <1> HIDE DEF g
  <1>4. space(nice(g)) > 0
    <2>1. CASE space(g) > 0
      BY <1>1, <1>2, <2>1 DEF Sound, Buffers, space
    <2>2. CASE g.size = 0
      BY <1>2, <2>2 DEF Sound, Buffers, space
    <2> QED BY <1>1, <2>1, <2>2 DEF RoomOrEmpty
  <1> QED BY <1>2, <1>3, <1>4

LEMMA MadeRoomHasRoom ==
    ASSUME NEW b, Sound(b)
    PROVE  Sound(MadeRoom(b)) /\ RoomOrEmpty(MadeRoom(b))
  <1>1. Sound(nice(b)) /\ space(nice(b)) >= 0
    BY NiceKeepsRoom DEF Sound
  <1>2. Sound(grow(nice(b))) /\ space(grow(nice(b))) > space(nice(b))
    BY <1>1, GrowMakesRoom
  <1>3. space(b) \in Int /\ space(nice(b)) \in Int /\ space(grow(nice(b))) \in Int
    BY <1>1, <1>2 DEF Sound, Buffers, space
  <1>4. CASE space(b) # 0
    BY <1>3, <1>4 DEF MadeRoom, Sound, RoomOrEmpty
  <1>5. CASE space(b) = 0 /\ space(nice(b)) # 0
    BY <1>1, <1>3, <1>5 DEF MadeRoom, RoomOrEmpty
  <1>6. CASE space(b) = 0 /\ space(nice(b)) = 0
    BY <1>2, <1>3, <1>6 DEF MadeRoom, RoomOrEmpty
  <1> QED BY <1>4, <1>5, <1>6

LEMMA AfterWriteIsSound ==
    ASSUME NEW b, Sound(b), NEW n \in 0..b.size
    PROVE  Sound(AfterWrite(b, n))
  BY DecrWithinSize, NiceKeepsRoom DEF AfterWrite

-----------------------------------------------------------------------------
(* IInv is an inductive invariant: every action keeps both buffers sound,   *)
(* and the two ways to wait for input leave room or an empty buffer.        *)

LEMMA InitInvariant == BufInit => IInv
  BY NewIsSound DEF BufInit, IInv

LEMMA StepInvariant == IInv /\ [BufNext]_bufVars => IInv'
  <1> SUFFICES ASSUME IInv, [BufNext]_bufVars PROVE IInv'
    OBVIOUS
  <1>1. ASSUME NEW n \in Nat \ {0}, Read(n) PROVE IInv'
    <2>1. Sound(ReadyToRead(input)) /\ n <= space(ReadyToRead(input))
      BY <1>1, ReadyHasRoom DEF Read, IInv, Sound, Buffers, space
    <2>2. Sound(input')
      BY <1>1, <2>1, IncrWithinRoom DEF Read
    <2> QED BY <1>1, <2>2 DEF Read, IInv
  <1>2. ASSUME NEW n \in Nat \ {0}, RecvPacket(n) PROVE IInv'
    <2>1. n \in 0..input.size
      BY <1>2 DEF RecvPacket, IInv, Sound, Buffers
    <2>2. Sound(input')
      BY <1>2, <2>1, DecrWithinSize DEF RecvPacket, IInv
    <2> QED BY <1>2, <2>2 DEF RecvPacket, IInv
  <1>3. ASSUME RecvNotReady PROVE IInv'
    BY <1>3, MadeRoomHasRoom DEF RecvNotReady, IInv
  <1>4. ASSUME RecvBad PROVE IInv'
    BY <1>4 DEF RecvBad, IInv
  <1>5. ASSUME NEW need \in Nat, Grow(need) PROVE IInv'
    BY <1>5, GrowMakesRoom DEF Grow, IInv
  <1>6. ASSUME NEW need \in Nat, NEW n \in Nat, AppendRoom(need, n) PROVE IInv'
    <2>1. n <= space(output)
      BY <1>6 DEF AppendRoom, IInv, Sound, Buffers, space
    <2>2. Sound(output')
      BY <1>6, <2>1, IncrWithinRoom DEF AppendRoom, IInv
    <2> QED BY <1>6, <2>2 DEF AppendRoom, IInv
  <1>7. ASSUME Sent PROVE IInv'
    BY <1>7 DEF Sent, IInv
  <1>8. ASSUME NEW n \in Nat, WorkerWrite(n) PROVE IInv'
    BY <1>8, AfterWriteIsSound DEF WorkerWrite, IInv
  <1>9. ASSUME NEW n \in Nat, Result(n) PROVE IInv'
    <2>1. Sound(output')
      BY <1>9, AfterWriteIsSound DEF Result, IInv
    <2> QED BY <1>9, <2>1 DEF Result, IInv, RoomOrEmpty
  <1>10. ASSUME UNCHANGED bufVars PROVE IInv'
    BY <1>10 DEF bufVars, IInv
  <1> QED
    BY <1>1, <1>2, <1>3, <1>4, <1>5, <1>6, <1>7, <1>8, <1>9, <1>10 DEF BufNext

LEMMA Invariant == BufSpec => []IInv
  BY InitInvariant, StepInvariant, PTL DEF BufSpec

-----------------------------------------------------------------------------
(* For all sizes of buffers, whatever arrives and is written: the data      *)
(* stays within its block, and moving it to the start never overlaps.       *)
THEOREM DataStaysWithin == BufSpec => []BuffersWithin
  <1>1. ASSUME NEW b, Sound(b) PROVE Within(b)
    BY <1>1 DEF Sound, Buffers, Within, Moves, space
  <1>2. IInv => BuffersWithin
    BY <1>1 DEF IInv, BuffersWithin
  <1> QED BY Invariant, <1>2, PTL

(* Whenever the server waits for input of a link, the next read has room,   *)
(* so that a full buffer is never taken for the end of the connection.      *)
THEOREM ReadAlwaysHasRoom == BufSpec => []ReadHasRoom
  <1>1. IInv => ReadHasRoom
    BY ReadyHasRoom DEF IInv, ReadHasRoom
  <1> QED BY Invariant, <1>1, PTL

-----------------------------------------------------------------------------
(* Induction over the natural numbers, upwards and downwards, in the form   *)
(* of a set that is closed: the predicate to be shown is "is in S".         *)
LEMMA UpInduction ==
    ASSUME NEW S, \A n \in Nat : (\A m \in Nat : m < n => m \in S) => n \in S
    PROVE  Nat \subseteq S
  <1> DEFINE T == Nat \ S
             R == OpToRel(<, Nat)
  <1>1. SUFFICES ASSUME T # {} PROVE FALSE
    OBVIOUS
  <1>2. \A x, y \in Nat : x < y => <<x, y>> \in R
    BY DEF OpToRel
  <1>3. PICK m \in T : \A y \in T : ~(<<y, m>> \in R)
    <2> HIDE DEF R
    <2>1. IsWellFoundedOn(R, Nat)
      BY NatLessThanWellFounded DEF R
    <2> HIDE DEF T
    <2>2. T \subseteq Nat
      BY DEF T
    <2> QED
      BY <1>1, <2>1, <2>2, WFMin
  <1>4. m \in Nat /\ m \notin S
    OBVIOUS
  <1>5. \A y \in Nat : y < m => y \in S
    <2> HIDE DEF R
    <2> QED
      BY <1>2, <1>3, <1>4
  <1> QED
    BY <1>4, <1>5

LEMMA StepInduction ==
    ASSUME NEW S, 0 \in S, \A n \in Nat : n \in S => n + 1 \in S
    PROVE  Nat \subseteq S
  <1>1. ASSUME NEW n \in Nat, \A m \in Nat : m < n => m \in S PROVE n \in S
    <2>1. CASE n = 0
      BY <2>1
    <2>2. CASE n # 0
      <3>1. n - 1 \in Nat /\ n - 1 < n /\ n - 1 + 1 = n
        BY <2>2
      <3> QED
        BY <1>1, <3>1
    <2> QED
      BY <2>1, <2>2
  <1> QED
    BY <1>1, UpInduction

LEMMA DownInduction ==
    ASSUME NEW n \in Nat, NEW S,
           \A h \in 1..n : (\A j \in 1..n : h < j => j \in S) => h \in S
    PROVE  1..n \subseteq S
  <1> DEFINE T == {k \in Nat : k < n => n - k \in S}
  <1>1. ASSUME NEW k \in Nat, \A m \in Nat : m < k => m \in T PROVE k \in T
    <2>1. SUFFICES ASSUME k < n PROVE n - k \in S
      OBVIOUS
    <2>2. n - k \in 1..n
      BY <2>1
    <2>3. ASSUME NEW j \in 1..n, n - k < j PROVE j \in S
      <3>1. n - j \in Nat /\ n - j < k /\ n - j < n /\ n - (n - j) = j
        BY <2>3
      <3>2. n - j \in T
        BY <1>1, <3>1
      <3> QED
        BY <3>1, <3>2
    <2> QED
      BY <2>2, <2>3
  <1>2. Nat \subseteq T
    <2> HIDE DEF T
    <2> QED
      BY <1>1, UpInduction
  <1>3. ASSUME NEW h \in 1..n PROVE h \in S
    <2>1. n - h \in Nat /\ n - h < n /\ n - (n - h) = h
      OBVIOUS
    <2> QED
      BY <1>2, <2>1
  <1> QED
    BY <1>3

-----------------------------------------------------------------------------
(* Searching the bytes.                                                     *)
LEMMA LeastIs ==
    ASSUME NEW S, S \subseteq Nat, S # {}
    PROVE  Least(S) \in S /\ \A y \in S : Least(S) <= y
  <1>1. \E x \in S : \A y \in S : x <= y
    <2> SUFFICES ASSUME \A x \in S : \E y \in S : ~(x <= y) PROVE FALSE
      OBVIOUS
    <2> DEFINE T == Nat \ S
    <2>1. ASSUME NEW n \in Nat, \A m \in Nat : m < n => m \in T PROVE n \in T
      BY <2>1
    <2>2. Nat \subseteq T
      <3> HIDE DEF T
      <3> QED
        BY <2>1, UpInduction
    <2> QED
      BY <2>2
  <1> QED
    BY <1>1, Zenon DEF Least

Extends(c, b) == Len(b) <= Len(c) /\ \A i \in 1..Len(b) : c[i] = b[i]

LEMMA NextLFIs ==
    ASSUME NEW b \in Seq(Bytes), NEW h \in 1..Len(b) + 1
    PROVE  \/ NextLF(b, h) = 0 /\ \A i \in h..Len(b) : b[i] # LF
           \/ /\ NextLF(b, h) \in h..Len(b) /\ b[NextLF(b, h)] = LF
              /\ \A i \in h..NextLF(b, h) - 1 : b[i] # LF
  <1> DEFINE at == {i \in h..Len(b) : b[i] = LF}
  <1>1. CASE at = {}
    BY <1>1 DEF NextLF
  <1>2. CASE at # {}
    <2>1. at \subseteq Nat
      OBVIOUS
    <2>2. Least(at) \in at /\ \A y \in at : Least(at) <= y
      BY <1>2, <2>1, LeastIs
    <2>3. NextLF(b, h) = Least(at)
      BY <1>2 DEF NextLF
    <2> DEFINE lf == Least(at)
    <2>4. ASSUME NEW i \in h..lf - 1 PROVE b[i] # LF
      <3>1. lf \in h..Len(b)
        BY <2>2
      <3> HIDE DEF lf
      <3>2. i \in h..Len(b) /\ ~(lf <= i)
        BY <3>1
      <3> QED
        BY <2>2, <3>2 DEF lf
    <2> QED
      BY <2>2, <2>3, <2>4
  <1> QED
    BY <1>1, <1>2

LEMMA NextLFExtends ==
    ASSUME NEW b \in Seq(Bytes), NEW c \in Seq(Bytes), Extends(c, b),
           NEW h \in 1..Len(b) + 1, NextLF(b, h) # 0
    PROVE  NextLF(c, h) = NextLF(b, h)
  <1>1. h \in 1..Len(c) + 1 /\ Len(b) \in Nat /\ Len(c) \in Nat
    BY DEF Extends
  <1>2. NextLF(b, h) \in h..Len(b) /\ b[NextLF(b, h)] = LF
        /\ \A i \in h..NextLF(b, h) - 1 : b[i] # LF
    BY NextLFIs
  <1>3. \/ NextLF(c, h) = 0 /\ \A i \in h..Len(c) : c[i] # LF
        \/ /\ NextLF(c, h) \in h..Len(c) /\ c[NextLF(c, h)] = LF
           /\ \A i \in h..NextLF(c, h) - 1 : c[i] # LF
    BY <1>1, NextLFIs
  <1> DEFINE m == NextLF(b, h)
             n == NextLF(c, h)
  <1> HIDE DEF m, n
  <1>4. m \in h..Len(c) /\ c[m] = LF
    BY <1>1, <1>2 DEF Extends, m
  <1>5. n \in h..Len(c) /\ c[n] = LF /\ \A i \in h..n - 1 : c[i] # LF
    BY <1>3, <1>4 DEF n
  <1>6. ~(m < n)
    BY <1>1, <1>4, <1>5
  <1>7. ~(n < m)
    BY <1>1, <1>2, <1>5 DEF Extends, m
  <1> QED
    BY <1>1, <1>4, <1>5, <1>6, <1>7 DEF m, n

LEMMA SkipBlankIs ==
    ASSUME NEW b \in Seq(Bytes)
    PROVE  /\ SkipBlank(b, 1) \in 1..Len(b) + 1
           /\ SkipBlank(b, 1) <= Len(b) => b[SkipBlank(b, 1)] \notin {LF, CR}
           /\ \A i \in 1..SkipBlank(b, 1) - 1 : b[i] \in {LF, CR}
  <1> DEFINE at == {i \in 1..Len(b) : b[i] \notin {LF, CR}} \cup {Len(b) + 1}
             s == Least(at)
  <1>1. Len(b) \in Nat
    OBVIOUS
  <1>2. s \in at /\ \A y \in at : s <= y
    <2>1. at \subseteq Nat /\ at # {}
      BY <1>1
    <2> HIDE DEF at
    <2> QED
      BY <2>1, LeastIs
  <1>3. SkipBlank(b, 1) = s
    BY DEF SkipBlank
  <1> HIDE DEF s
  <1>4. s \in 1..Len(b) + 1
    BY <1>1, <1>2
  <1>5. ASSUME NEW i \in 1..s - 1 PROVE b[i] \in {LF, CR}
    <2>1. i \in 1..Len(b) /\ ~(s <= i)
      BY <1>1, <1>4
    <2> QED
      BY <1>2, <2>1
  <1>6. s <= Len(b) => b[s] \notin {LF, CR}
    BY <1>1, <1>2, <1>4
  <1> QED
    BY <1>3, <1>4, <1>5, <1>6

LEMMA SkipBlankUnique ==
    ASSUME NEW b \in Seq(Bytes), NEW s \in 1..Len(b), b[s] \notin {LF, CR},
           \A i \in 1..s - 1 : b[i] \in {LF, CR}
    PROVE  SkipBlank(b, 1) = s
  <1> DEFINE z == SkipBlank(b, 1)
  <1>1. /\ z \in 1..Len(b) + 1
        /\ z <= Len(b) => b[z] \notin {LF, CR}
        /\ \A i \in 1..z - 1 : b[i] \in {LF, CR}
    BY SkipBlankIs
  <1> HIDE DEF z
  <1>2. Len(b) \in Nat
    OBVIOUS
  <1>3. ~(z < s) /\ ~(s < z)
    BY <1>1, <1>2
  <1> QED
    BY <1>1, <1>2, <1>3 DEF z

(* The digits b[h], ..., b[last] read as a number.                          *)
IsValue(f, b, h, last) ==
    f = [i \in (h - 1)..last |-> IF i = h - 1 THEN 0 ELSE 10 * f[i - 1] + b[i] - 48]

LEMMA ValueExists ==
    ASSUME NEW b, NEW h \in Nat \ {0}, NEW last \in Nat, h - 1 <= last
    PROVE  \E f : IsValue(f, b, h, last)
  <1> DEFINE P(k) == \E f : IsValue(f, b, h, h - 1 + k)
             S == {k \in Nat : P(k)}
  <1>1. P(0)
    <2> DEFINE f == [i \in (h - 1)..(h - 1) |-> 0]
    <2>1. f = [i \in (h - 1)..(h - 1) |-> IF i = h - 1 THEN 0 ELSE 10 * f[i - 1] + b[i] - 48]
      OBVIOUS
    <2>2. h - 1 + 0 = h - 1
      OBVIOUS
    <2> HIDE DEF f
    <2> QED
      BY <2>1, <2>2 DEF IsValue
  <1>2. ASSUME NEW k \in Nat, P(k) PROVE P(k + 1)
    <2> DEFINE n == h - 1 + k
    <2>1. PICK f : f = [i \in (h - 1)..n |->
                          IF i = h - 1 THEN 0 ELSE 10 * f[i - 1] + b[i] - 48]
      BY <1>2 DEF IsValue
    <2>2. n \in Nat /\ h - 1 <= n /\ h - 1 + (k + 1) = n + 1 /\ h - 1 \in Nat
      OBVIOUS
    <2> HIDE DEF n
    <2> DEFINE g == [i \in (h - 1)..n + 1 |->
                       IF i = n + 1 THEN 10 * f[n] + b[n + 1] - 48 ELSE f[i]]
               r == [i \in (h - 1)..n + 1 |->
                       IF i = h - 1 THEN 0 ELSE 10 * g[i - 1] + b[i] - 48]
    <2>3. \A i \in (h - 1)..n + 1 :
             g[i] = IF i = n + 1 THEN 10 * f[n] + b[n + 1] - 48 ELSE f[i]
      OBVIOUS
    <2>4. DOMAIN g = (h - 1)..n + 1 /\ g = [i \in DOMAIN g |-> g[i]]
      OBVIOUS
    <2> HIDE DEF g
    <2>5. \A i \in (h - 1)..n : i \in (h - 1)..n + 1 /\ g[i] = f[i]
      BY <2>2, <2>3
    <2>6. ASSUME NEW i \in (h - 1)..n + 1
          PROVE  g[i] = IF i = h - 1 THEN 0 ELSE 10 * g[i - 1] + b[i] - 48
      <3>1. CASE i = n + 1
        <4>1. i # h - 1 /\ i - 1 = n /\ n \in (h - 1)..n
          BY <2>2, <3>1
        <4> QED
          BY <2>3, <2>5, <3>1, <4>1
      <3>2. CASE i = h - 1
        <4>1. h - 1 \in (h - 1)..n
          BY <2>2
        <4> QED
          BY <2>1, <2>5, <3>2, <4>1
      <3>3. CASE i # n + 1 /\ i # h - 1
        <4>1. i \in (h - 1)..n /\ i - 1 \in (h - 1)..n
          BY <2>2, <3>3
        <4>2. f[i] = 10 * f[i - 1] + b[i] - 48
          BY <2>1, <3>3, <4>1
        <4> QED
          BY <2>5, <3>3, <4>1, <4>2
      <3> QED
        BY <3>1, <3>2, <3>3
    <2>7. g = r
      BY <2>4, <2>6
    <2>8. IsValue(g, b, h, n + 1)
      BY <2>7 DEF IsValue
    <2> HIDE DEF IsValue
    <2> QED
      BY <2>2, <2>8
  <1>3. last - (h - 1) \in Nat /\ h - 1 + (last - (h - 1)) = last
    OBVIOUS
  <1>4. last - (h - 1) \in S
    <2> HIDE DEF P
    <2>1. 0 \in S /\ \A k \in Nat : k \in S => k + 1 \in S
      BY <1>1, <1>2
    <2> HIDE DEF S
    <2> QED
      BY <1>3, <2>1, StepInduction
  <1> QED
    BY <1>3, <1>4

(* Digit by digit.                                                          *)
ByDigit(f, b, h, last) ==
    /\ f[h - 1] = 0
    /\ \A i \in h..last : f[i] = 10 * f[i - 1] + b[i] - 48

ValueOf(b, h, last) == CHOOSE f : IsValue(f, b, h, last)

LastDigit(b, h, end) == Least({i \in h..end : b[i] \notin Digits}) - 1

LEMMA ValueIs ==
    ASSUME NEW b, NEW h \in Nat \ {0}, NEW last \in Nat, h - 1 <= last
    PROVE  ByDigit(ValueOf(b, h, last), b, h, last)
  <1> DEFINE f == ValueOf(b, h, last)
  <1>1. IsValue(f, b, h, last)
    BY ValueExists, Zenon DEF ValueOf
  <1> HIDE DEF f
  <1>2. f = [i \in (h - 1)..last |-> IF i = h - 1 THEN 0 ELSE 10 * f[i - 1] + b[i] - 48]
    BY <1>1 DEF IsValue
  <1>3. f[h - 1] = 0
    <2>1. h - 1 \in (h - 1)..last
      OBVIOUS
    <2> QED
      BY <1>2, <2>1
  <1>4. ASSUME NEW i \in h..last PROVE f[i] = 10 * f[i - 1] + b[i] - 48
    <2>1. i \in (h - 1)..last /\ i # h - 1
      OBVIOUS
    <2> QED
      BY <1>2, <2>1
  <1> QED
    BY <1>3, <1>4 DEF ByDigit, f

LEMMA AtoiIs ==
    ASSUME NEW b, NEW h, NEW end
    PROVE  Atoi(b, h, end) = ValueOf(b, h, LastDigit(b, h, end))[LastDigit(b, h, end)]
  BY DEF Atoi, ValueOf, LastDigit, IsValue

LEMMA LastDigitIs ==
    ASSUME NEW b, NEW h \in Nat \ {0}, NEW end \in Nat, h <= end, b[end] \notin Digits
    PROVE  /\ LastDigit(b, h, end) \in (h - 1)..(end - 1)
           /\ \A i \in h..LastDigit(b, h, end) : b[i] \in Digits
           /\ b[LastDigit(b, h, end) + 1] \notin Digits
  <1> DEFINE at == {i \in h..end : b[i] \notin Digits}
             m == Least(at)
  <1>1. m \in at /\ \A y \in at : m <= y
    <2>1. at \subseteq Nat /\ at # {}
      OBVIOUS
    <2> HIDE DEF at
    <2> QED
      BY <2>1, LeastIs
  <1> HIDE DEF m
  <1>2. m \in h..end /\ b[m] \notin Digits /\ m - 1 + 1 = m
    BY <1>1
  <1>3. ASSUME NEW i \in h..m - 1 PROVE b[i] \in Digits
    <2>1. i \in h..end /\ ~(m <= i)
      BY <1>2
    <2> QED
      BY <1>1, <2>1
  <1>4. LastDigit(b, h, end) = m - 1
    BY DEF LastDigit, m
  <1> QED
    BY <1>2, <1>3, <1>4

(* A number read is a natural number.                                       *)
LEMMA ValueType ==
    ASSUME NEW b, NEW h \in Nat \ {0}, NEW last \in Nat, h - 1 <= last,
           \A i \in h..last : b[i] \in Digits, NEW f, ByDigit(f, b, h, last)
    PROVE  \A i \in (h - 1)..last : f[i] \in Nat
  <1> DEFINE P(k) == h - 1 + k <= last => f[h - 1 + k] \in Nat
             S == {k \in Nat : P(k)}
  <1>1. P(0)
    <2>1. h - 1 + 0 = h - 1
      OBVIOUS
    <2> QED
      BY <2>1 DEF ByDigit
  <1>2. ASSUME NEW k \in Nat, P(k) PROVE P(k + 1)
    <2>1. SUFFICES ASSUME h - 1 + (k + 1) <= last PROVE f[h - 1 + (k + 1)] \in Nat
      OBVIOUS
    <2> DEFINE i == h - 1 + (k + 1)
    <2>2. i \in h..last /\ i - 1 = h - 1 + k /\ h - 1 + k <= last
      BY <2>1
    <2> HIDE DEF i
    <2>3. f[i - 1] \in Nat
      BY <1>2, <2>2
    <2>4. f[i] = 10 * f[i - 1] + b[i] - 48 /\ b[i] \in 48..57
      BY <2>2 DEF ByDigit, Digits
    <2>5. f[i] \in Nat
      BY <2>3, <2>4
    <2> QED
      BY <2>5 DEF i
  <1>3. Nat \subseteq S
    <2> HIDE DEF P
    <2>1. 0 \in S /\ \A k \in Nat : k \in S => k + 1 \in S
      BY <1>1, <1>2
    <2> HIDE DEF S
    <2> QED
      BY <2>1, StepInduction
  <1>4. ASSUME NEW i \in (h - 1)..last PROVE f[i] \in Nat
    <2> DEFINE k == i - (h - 1)
    <2>1. k \in Nat /\ h - 1 + k = i /\ i <= last
      OBVIOUS
    <2> HIDE DEF k
    <2>2. P(k)
      BY <1>3, <2>1
    <2> QED
      BY <2>1, <2>2
  <1> QED
    BY <1>4

LEMMA AtoiType ==
    ASSUME NEW b, NEW h \in Nat \ {0}, NEW end \in Nat, h <= end, b[end] \notin Digits
    PROVE  Atoi(b, h, end) \in Nat
  <1> DEFINE last == LastDigit(b, h, end)
  <1>1. last \in (h - 1)..(end - 1) /\ \A i \in h..last : b[i] \in Digits
    BY LastDigitIs
  <1> HIDE DEF last
  <1>2. last \in Nat /\ h - 1 <= last /\ last \in (h - 1)..last
    BY <1>1
  <1>3. ValueOf(b, h, last)[last] \in Nat
    BY <1>1, <1>2, ValueIs, ValueType
  <1> QED
    BY <1>3, AtoiIs DEF last

(* Reading the same digits gives the same number.                           *)
LEMMA ValueUnique ==
    ASSUME NEW b, NEW c, NEW h \in Nat \ {0}, NEW last \in Nat, h - 1 <= last,
           \A i \in h..last : b[i] = c[i],
           NEW f, ByDigit(f, b, h, last), NEW g, ByDigit(g, c, h, last)
    PROVE  f[last] = g[last]
  <1> DEFINE P(k) == h - 1 + k <= last => f[h - 1 + k] = g[h - 1 + k]
             S == {k \in Nat : P(k)}
  <1>1. P(0)
    <2>1. h - 1 + 0 = h - 1
      OBVIOUS
    <2> QED
      BY <2>1 DEF ByDigit
  <1>2. ASSUME NEW k \in Nat, P(k) PROVE P(k + 1)
    <2>1. SUFFICES ASSUME h - 1 + (k + 1) <= last
                   PROVE  f[h - 1 + (k + 1)] = g[h - 1 + (k + 1)]
      OBVIOUS
    <2> DEFINE i == h - 1 + (k + 1)
    <2>2. i \in h..last /\ i - 1 = h - 1 + k /\ h - 1 + k <= last
      BY <2>1
    <2> HIDE DEF i
    <2>3. f[i - 1] = g[i - 1]
      BY <1>2, <2>2
    <2>4. f[i] = 10 * f[i - 1] + b[i] - 48 /\ g[i] = 10 * g[i - 1] + c[i] - 48 /\ b[i] = c[i]
      BY <2>2 DEF ByDigit
    <2>5. f[i] = g[i]
      BY <2>3, <2>4
    <2> QED
      BY <2>5 DEF i
  <1>3. Nat \subseteq S
    <2> HIDE DEF P
    <2>1. 0 \in S /\ \A k \in Nat : k \in S => k + 1 \in S
      BY <1>1, <1>2
    <2> HIDE DEF S
    <2> QED
      BY <2>1, StepInduction
  <1>4. last - (h - 1) \in Nat /\ h - 1 + (last - (h - 1)) = last
    OBVIOUS
  <1> QED
    BY <1>3, <1>4

LEMMA AtoiSame ==
    ASSUME NEW b, NEW c, NEW h \in Nat \ {0}, NEW end \in Nat, h <= end, b[end] \notin Digits,
           \A i \in h..end : b[i] = c[i]
    PROVE  Atoi(b, h, end) = Atoi(c, h, end)
  <1> DEFINE last == LastDigit(b, h, end)
  <1>1. last \in (h - 1)..(end - 1)
    BY LastDigitIs
  <1>2. LastDigit(c, h, end) = last
    <2>1. {i \in h..end : b[i] \notin Digits} = {i \in h..end : c[i] \notin Digits}
      OBVIOUS
    <2> QED
      BY <2>1 DEF LastDigit
  <1>3. /\ Atoi(b, h, end) = ValueOf(b, h, last)[last]
        /\ Atoi(c, h, end) = ValueOf(c, h, last)[last]
    BY <1>2, AtoiIs
  <1> HIDE DEF last
  <1>4. last \in Nat /\ h - 1 <= last /\ \A i \in h..last : b[i] = c[i]
    BY <1>1
  <1>5. /\ ByDigit(ValueOf(b, h, last), b, h, last)
        /\ ByDigit(ValueOf(c, h, last), c, h, last)
    BY <1>4, ValueIs
  <1> QED
    BY <1>3, <1>4, <1>5, ValueUnique

-----------------------------------------------------------------------------
(* Decimal numbers.                                                         *)
LEMMA Tenth ==
    ASSUME NEW n \in Nat
    PROVE  /\ n \div 10 \in Nat /\ n % 10 \in 0..9
           /\ n = 10 * (n \div 10) + (n % 10)
           /\ n >= 10 => n \div 10 < n /\ n \div 10 > 0
  OBVIOUS

IsDigits(f, n) ==
    f = [k \in 0..n |-> IF k < 10 THEN <<48 + k>> ELSE f[k \div 10] \o <<48 + (k % 10)>>]

LEMMA DigitsExist ==
    ASSUME NEW n \in Nat
    PROVE  \E f : IsDigits(f, n)
  <1> DEFINE P(k) == \E f : IsDigits(f, k)
             S == {k \in Nat : P(k)}
  <1>1. P(0)
    <2> DEFINE f == [k \in 0..0 |-> <<48 + k>>]
    <2>1. f = [k \in 0..0 |-> IF k < 10 THEN <<48 + k>> ELSE f[k \div 10] \o <<48 + (k % 10)>>]
      OBVIOUS
    <2> HIDE DEF f
    <2> QED
      BY <2>1 DEF IsDigits
  <1>2. ASSUME NEW m \in Nat, P(m) PROVE P(m + 1)
    <2>1. PICK f : f = [k \in 0..m |->
                          IF k < 10 THEN <<48 + k>> ELSE f[k \div 10] \o <<48 + (k % 10)>>]
      BY <1>2 DEF IsDigits
    <2> DEFINE V(k, e) == IF k < 10 THEN <<48 + k>> ELSE e \o <<48 + (k % 10)>>
    <2> HIDE DEF V
    <2>2. f = [k \in 0..m |-> V(k, f[k \div 10])]
      BY <2>1 DEF V
    <2>3. ASSUME NEW k, k < 10, NEW d, NEW e PROVE V(k, d) = V(k, e)
      BY <2>3 DEF V
    <2> DEFINE g == [k \in 0..m + 1 |-> IF k = m + 1 THEN V(k, f[k \div 10]) ELSE f[k]]
               r == [k \in 0..m + 1 |-> V(k, g[k \div 10])]
    <2>4. \A k \in 0..m + 1 : g[k] = IF k = m + 1 THEN V(k, f[k \div 10]) ELSE f[k]
      OBVIOUS
    <2>5. DOMAIN g = 0..m + 1 /\ g = [k \in DOMAIN g |-> g[k]]
      OBVIOUS
    <2> HIDE DEF g
    <2>6. \A k \in 0..m : k \in 0..m + 1 /\ g[k] = f[k]
      BY <2>4
    <2>7. ASSUME NEW k \in 0..m + 1 PROVE g[k] = V(k, g[k \div 10])
      <3>1. g[k] = V(k, f[k \div 10])
        <4>1. CASE k = m + 1
          BY <2>4, <4>1
        <4>2. CASE k # m + 1
          <5>1. k \in 0..m
            BY <4>2
          <5> QED
            BY <2>2, <2>6, <5>1
        <4> QED
          BY <4>1, <4>2
      <3>2. CASE k < 10
        BY <2>3, <3>1, <3>2
      <3>3. CASE ~(k < 10)
        <4>1. k \div 10 \in 0..m
          BY <3>3, Tenth
        <4> QED
          BY <2>6, <3>1, <4>1
      <3> QED
        BY <3>2, <3>3
    <2>8. g = r
      BY <2>5, <2>7
    <2>9. IsDigits(g, m + 1)
      BY <2>8 DEF IsDigits, V
    <2> QED
      BY <2>9
  <1>3. Nat \subseteq S
    <2> HIDE DEF P
    <2>1. 0 \in S /\ \A k \in Nat : k \in S => k + 1 \in S
      BY <1>1, <1>2
    <2> HIDE DEF S
    <2> QED
      BY <2>1, StepInduction
  <1> QED
    BY <1>3

DigitsOf(n) == CHOOSE f : IsDigits(f, n)

ByTens(f, n) ==
    \A k \in 0..n : f[k] = IF k < 10 THEN <<48 + k>> ELSE f[k \div 10] \o <<48 + (k % 10)>>

LEMMA DigitsAre ==
    ASSUME NEW n \in Nat
    PROVE  ByTens(DigitsOf(n), n) /\ Decimal(n) = DigitsOf(n)[n]
  <1> DEFINE f == DigitsOf(n)
  <1>1. IsDigits(f, n)
    BY DigitsExist, Zenon DEF DigitsOf
  <1>2. Decimal(n) = f[n]
    BY DEF Decimal, DigitsOf, IsDigits
  <1> HIDE DEF f
  <1>3. ByTens(f, n)
    BY <1>1 DEF IsDigits, ByTens
  <1> QED
    BY <1>2, <1>3 DEF f

LEMMA DigitsAgree ==
    ASSUME NEW m \in Nat, NEW n \in Nat, m <= n, NEW f, ByTens(f, m), NEW g, ByTens(g, n)
    PROVE  f[m] = g[m]
  <1> DEFINE S == {k \in Nat : k <= m => f[k] = g[k]}
  <1>1. ASSUME NEW k \in Nat, \A j \in Nat : j < k => j \in S PROVE k \in S
    <2>1. SUFFICES ASSUME k <= m PROVE f[k] = g[k]
      OBVIOUS
    <2>2. k \in 0..m /\ k \in 0..n
      BY <2>1
    <2>3. /\ f[k] = IF k < 10 THEN <<48 + k>> ELSE f[k \div 10] \o <<48 + (k % 10)>>
          /\ g[k] = IF k < 10 THEN <<48 + k>> ELSE g[k \div 10] \o <<48 + (k % 10)>>
      BY <2>2 DEF ByTens
    <2>4. CASE k < 10
      BY <2>3, <2>4
    <2>5. CASE ~(k < 10)
      <3>1. k \div 10 \in Nat /\ k \div 10 < k /\ k \div 10 <= m
        BY <2>1, <2>5, Tenth
      <3>2. f[k \div 10] = g[k \div 10]
        BY <1>1, <3>1
      <3> QED
        BY <2>3, <2>5, <3>2
    <2> QED
      BY <2>4, <2>5
  <1>2. Nat \subseteq S
    <2> HIDE DEF S
    <2> QED
      BY <1>1, UpInduction
  <1> QED
    BY <1>2

LEMMA DecimalIs ==
    ASSUME NEW n \in Nat
    PROVE  Decimal(n) = IF n < 10 THEN <<48 + n>> ELSE Decimal(n \div 10) \o <<48 + (n % 10)>>
  <1>1. n \in 0..n /\ ByTens(DigitsOf(n), n) /\ Decimal(n) = DigitsOf(n)[n]
    BY DigitsAre
  <1>2. Decimal(n) = IF n < 10 THEN <<48 + n>> ELSE DigitsOf(n)[n \div 10] \o <<48 + (n % 10)>>
    BY <1>1 DEF ByTens
  <1>3. CASE n < 10
    BY <1>2, <1>3
  <1>4. CASE ~(n < 10)
    <2>1. n \div 10 \in Nat /\ n \div 10 <= n
      BY <1>4, Tenth
    <2>2. ByTens(DigitsOf(n \div 10), n \div 10) /\ Decimal(n \div 10) = DigitsOf(n \div 10)[n \div 10]
      BY <2>1, DigitsAre
    <2>3. DigitsOf(n \div 10)[n \div 10] = DigitsOf(n)[n \div 10]
      BY <1>1, <2>1, <2>2, DigitsAgree
    <2> QED
      BY <1>2, <1>4, <2>2, <2>3
  <1> QED
    BY <1>3, <1>4

LEMMA DecimalType ==
    ASSUME NEW n \in Nat
    PROVE  Decimal(n) \in Seq(Digits) /\ Len(Decimal(n)) \in Nat \ {0}
  <1> DEFINE P(k) == Decimal(k) \in Seq(Digits) /\ Len(Decimal(k)) \in Nat \ {0}
             S == {k \in Nat : P(k)}
  <1>1. ASSUME NEW k \in Nat, \A j \in Nat : j < k => j \in S PROVE P(k)
    <2>1. CASE k < 10
      <3>1. Decimal(k) = <<48 + k>>
        BY <2>1, DecimalIs
      <3>2. 48 + k \in Digits
        BY <2>1 DEF Digits
      <3> QED
        BY <3>1, <3>2
    <2>2. CASE ~(k < 10)
      <3>1. k \div 10 \in Nat /\ k \div 10 < k /\ 48 + (k % 10) \in Digits
        BY <2>2, Tenth DEF Digits
      <3>2. P(k \div 10)
        BY <1>1, <3>1
      <3>3. Decimal(k) = Decimal(k \div 10) \o <<48 + (k % 10)>>
        BY <2>2, DecimalIs
      <3>4. <<48 + (k % 10)>> \in Seq(Digits)
        BY <3>1
      <3> QED
        BY <3>2, <3>3, <3>4
    <2> QED
      BY <2>1, <2>2
  <1>2. Nat \subseteq S
    <2> HIDE DEF P
    <2>1. \A k \in Nat : (\A j \in Nat : j < k => j \in S) => k \in S
      BY <1>1
    <2> HIDE DEF S
    <2> QED
      BY <2>1, UpInduction
  <1> QED
    BY <1>2

(* The bytes from h on are s.                                               *)
Holds(b, h, s) == \A i \in 1..Len(s) : b[h - 1 + i] = s[i]

LEMMA DecimalRead ==
    ASSUME NEW b, NEW h \in Nat \ {0}, NEW last \in Nat, NEW f, ByDigit(f, b, h, last),
           NEW n \in Nat, h - 1 + Len(Decimal(n)) <= last, Holds(b, h, Decimal(n))
    PROVE  f[h - 1 + Len(Decimal(n))] = n
  <1> DEFINE P(k) == h - 1 + Len(Decimal(k)) <= last /\ Holds(b, h, Decimal(k)) =>
                        f[h - 1 + Len(Decimal(k))] = k
             S == {k \in Nat : P(k)}
  <1>1. ASSUME NEW k \in Nat, \A j \in Nat : j < k => j \in S PROVE P(k)
    <2> DEFINE D == Decimal(k)
               i == h - 1 + Len(D)
    <2>1. SUFFICES ASSUME i <= last, Holds(b, h, D) PROVE f[i] = k
      OBVIOUS
    <2>2. D \in Seq(Digits) /\ Len(D) > 0 /\ Len(D) \in Nat
      BY ONLY k \in Nat, DecimalType
    <2>3. i \in h..last /\ i - 1 = h - 1 + (Len(D) - 1)
      BY <2>1, <2>2
    <2>4. f[i] = 10 * f[i - 1] + D[Len(D)] - 48
      <3>1. Len(D) \in 1..Len(D)
        BY <2>2
      <3>2. b[i] = D[Len(D)]
        BY <2>1, <3>1 DEF Holds
      <3> QED
        BY <2>3, <3>2 DEF ByDigit
    <2>5. CASE k < 10
      <3>1. D = <<48 + k>>
        BY <2>5, DecimalIs
      <3>2. Len(D) = 1 /\ D[1] = 48 + k
        BY <3>1
      <3>3. i - 1 = h - 1 /\ f[i - 1] = 0
        BY <2>3, <3>2 DEF ByDigit
      <3> QED
        BY <2>4, <3>2, <3>3
    <2>6. CASE ~(k < 10)
      <3> DEFINE m == k \div 10
                 E == Decimal(m)
                 x == 48 + (k % 10)
      <3>1. m \in Nat /\ m < k /\ k = 10 * m + (k % 10) /\ k % 10 \in 0..9
        BY <2>6, Tenth
      <3>2. D = E \o <<x>>
        BY <2>6, DecimalIs
      <3>3. E \in Seq(Digits)
        BY <3>1, DecimalType
      <3> HIDE DEF D, E, m
      <3>4. Len(D) = Len(E) + 1 /\ D[Len(D)] = x /\ \A j \in 1..Len(E) : D[j] = E[j]
        BY <3>2, <3>3
      <3>5. Holds(b, h, E)
        BY <2>1, <3>3, <3>4 DEF Holds
      <3>6. i - 1 = h - 1 + Len(E) /\ h - 1 + Len(E) <= last
        BY <2>1, <2>3, <3>3, <3>4
      <3>7. f[i - 1] = m
        <4>1. P(m)
          BY <1>1, <3>1
        <4> QED
          BY <3>5, <3>6, <4>1 DEF E
      <3>8. f[i] = 10 * m + x - 48
        BY <2>4, <3>4, <3>7
      <3> HIDE DEF i
      <3> QED
        BY <3>1, <3>8
    <2> QED
      BY <2>5, <2>6
  <1>2. Nat \subseteq S
    <2> HIDE DEF P
    <2>1. \A k \in Nat : (\A j \in Nat : j < k => j \in S) => k \in S
      BY <1>1
    <2> HIDE DEF S
    <2> QED
      BY <2>1, UpInduction
  <1> QED
    BY <1>2

(* No digits are fewer than the decimal number has.                         *)
LEMMA DecimalShort ==
    ASSUME NEW b, NEW h \in Nat \ {0}, NEW last \in Nat, h <= last, NEW f,
           ByDigit(f, b, h, last), \A i \in h..last : b[i] \in Digits
    PROVE  \A i \in h..last : Len(Decimal(f[i])) <= i - h + 1
  <1> DEFINE P(k) == h + k <= last => Len(Decimal(f[h + k])) <= k + 1
             S == {k \in Nat : P(k)}
  <1>0. \A i \in h..last : f[i] \in Nat /\ f[i - 1] \in Nat
    <2>1. \A i \in (h - 1)..last : f[i] \in Nat
      BY ValueType
    <2>2. \A i \in h..last : i \in (h - 1)..last /\ i - 1 \in (h - 1)..last
      OBVIOUS
    <2> QED
      BY <2>1, <2>2
  <1>1. P(0)
    <2>1. h + 0 = h /\ h \in h..last
      OBVIOUS
    <2>2. f[h] = b[h] - 48 /\ b[h] \in 48..57
      BY <2>1 DEF ByDigit, Digits
    <2>3. f[h] \in Nat /\ f[h] < 10
      BY <2>2
    <2>4. Decimal(f[h]) = <<48 + f[h]>>
      BY <2>3, DecimalIs
    <2>5. Len(Decimal(f[h])) = 1
      BY <2>4
    <2>6. ASSUME NEW k \in Nat, k = 0 PROVE P(k)
      <3>1. h + k = h /\ 1 <= k + 1
        BY <2>6
      <3>2. f[h + k] = f[h]
        BY <3>1
      <3>3. Len(Decimal(f[h + k])) = 1
        BY ONLY <2>5, <3>2
      <3> QED
        BY <3>1, <3>3
    <2> QED
      BY <2>6
  <1>2. ASSUME NEW k \in Nat, P(k) PROVE P(k + 1)
    <2> DEFINE i == h + (k + 1)
    <2>1. SUFFICES ASSUME i <= last PROVE Len(Decimal(f[i])) <= k + 1 + 1
      OBVIOUS
    <2>2. i \in h..last /\ i - 1 = h + k /\ h + k <= last /\ h + k \in h..last
      BY <2>1
    <2> DEFINE m == f[h + k]
    <2>3. f[i] = 10 * m + b[i] - 48 /\ b[i] \in 48..57 /\ f[i] \in Nat /\ m \in Nat
      BY <1>0, <2>2 DEF ByDigit, Digits
    <2>4. Len(Decimal(m)) <= k + 1
      BY <1>2, <2>2
    <2> HIDE DEF i, m
    <2>5. CASE f[i] < 10
      <3>1. Decimal(f[i]) = <<48 + f[i]>>
        BY <2>3, <2>5, DecimalIs
      <3>2. Len(Decimal(f[i])) = 1
        BY <3>1
      <3> QED
        BY <3>2
    <2>6. CASE ~(f[i] < 10)
      <3>1. f[i] \div 10 = m
        BY <2>3
      <3>2. Decimal(f[i]) = Decimal(m) \o <<48 + (f[i] % 10)>>
        BY <2>3, <2>6, <3>1, DecimalIs
      <3>3. Decimal(m) \in Seq(Digits) /\ Len(Decimal(m)) \in Nat
        BY <2>3, DecimalType
      <3>4. Len(Decimal(f[i])) = Len(Decimal(m)) + 1
        BY <3>2, <3>3
      <3> QED
        BY <2>4, <3>3, <3>4
    <2> QED
      BY <2>5, <2>6
  <1>3. Nat \subseteq S
    <2> HIDE DEF P
    <2>1. 0 \in S /\ \A k \in Nat : k \in S => k + 1 \in S
      BY <1>1, <1>2
    <2> HIDE DEF S
    <2> QED
      BY <2>1, StepInduction
  <1>4. ASSUME NEW i \in h..last PROVE Len(Decimal(f[i])) <= i - h + 1
    <2> DEFINE k == i - h
    <2>1. k \in Nat /\ h + k = i /\ i <= last
      OBVIOUS
    <2> HIDE DEF k
    <2>2. P(k)
      BY <1>3, <2>1
    <2> QED
      BY <2>1, <2>2 DEF k
  <1> QED
    BY <1>4

LEMMA AtoiShort ==
    ASSUME NEW b, NEW h \in Nat \ {0}, NEW end \in Nat, h <= end,
           b[h] \in Digits, b[end] \notin Digits
    PROVE  Len(Decimal(Atoi(b, h, end))) <= end - h
  <1> DEFINE last == LastDigit(b, h, end)
             f == ValueOf(b, h, last)
  <1>1. /\ last \in (h - 1)..(end - 1) /\ \A i \in h..last : b[i] \in Digits
        /\ b[last + 1] \notin Digits
    BY LastDigitIs
  <1>2. Atoi(b, h, end) = f[last]
    BY AtoiIs
  <1> HIDE DEF last
  <1>3. last \in Nat /\ h <= last /\ h - 1 <= last /\ last \in h..last
    BY <1>1
  <1>4. ByDigit(f, b, h, last)
    BY <1>3, ValueIs
  <1> HIDE DEF f
  <1>5. Len(Decimal(f[last])) <= last - h + 1
    BY <1>1, <1>3, <1>4, DecimalShort
  <1>6. ASSUME NEW n, n \in Int, n <= last - h + 1 PROVE n <= end - h
    BY <1>1, <1>3, <1>6
  <1>7. f[last] \in Nat
    BY <1>1, <1>2, AtoiType
  <1>8. Len(Decimal(f[last])) \in Int
    BY <1>7, DecimalType
  <1> QED
    BY <1>2, <1>5, <1>6, <1>8

(* A length line that was sent.                                             *)
LEMMA DecimalLine ==
    ASSUME NEW b \in Seq(Bytes), NEW h \in 1..Len(b), NEW n \in Nat,
           Holds(b, h, Decimal(n)), h + Len(Decimal(n)) <= Len(b), b[h + Len(Decimal(n))] = LF
    PROVE  /\ NextLF(b, h) = h + Len(Decimal(n))
           /\ Atoi(b, h, h + Len(Decimal(n))) = n
           /\ b[h] \in Digits
  <1> DEFINE D == Decimal(n)
             end == h + Len(D)
  <1>1. D \in Seq(Digits) /\ Len(D) > 0 /\ Len(D) \in Nat
    BY DecimalType
  <1>2. h \in Nat /\ h # 0 /\ h \in 1..Len(b) + 1 /\ end \in h + 1..Len(b) /\ Len(b) \in Nat
    BY <1>1
  <1>3. \A i \in h..end - 1 : b[i] \in Digits
    <2>1. ASSUME NEW i \in h..end - 1 PROVE b[i] \in Digits
      <3> DEFINE j == i - h + 1
      <3>1. j \in 1..Len(D) /\ h - 1 + j = i
        BY <1>1
      <3> HIDE DEF j
      <3>2. b[i] = D[j] /\ D[j] \in Digits
        BY <1>1, <3>1 DEF Holds
      <3> QED
        BY <3>2
    <2> QED
      BY <2>1
  <1>4. LF \notin Digits
    BY DEF LF, Digits
  <1> HIDE DEF D, end
  <1>5. NextLF(b, h) = end
    <2> DEFINE lf == NextLF(b, h)
    <2>1. \/ lf = 0 /\ \A i \in h..Len(b) : b[i] # LF
          \/ /\ lf \in h..Len(b) /\ b[lf] = LF
             /\ \A i \in h..lf - 1 : b[i] # LF
      BY <1>2, NextLFIs
    <2> HIDE DEF lf
    <2>2. end \in h..Len(b) /\ b[end] = LF
      BY <1>2 DEF end, D
    <2>3. lf \in h..Len(b) /\ b[lf] = LF /\ \A i \in h..lf - 1 : b[i] # LF
      BY <2>1, <2>2
    <2>4. ~(lf < end)
      BY <1>2, <1>3, <1>4, <2>3
    <2>5. ~(end < lf)
      BY <1>2, <2>2, <2>3
    <2> QED
      BY <1>2, <2>3, <2>4, <2>5 DEF lf
  <1>6. b[end] \notin Digits
    BY <1>4 DEF end, D
  <1>7. LastDigit(b, h, end) = end - 1
    <2> DEFINE z == LastDigit(b, h, end)
    <2>1. /\ z \in (h - 1)..(end - 1)
          /\ b[z + 1] \notin Digits
      BY <1>2, <1>6, LastDigitIs
    <2> HIDE DEF z
    <2>2. ~(z < end - 1)
      BY <1>2, <1>3, <2>1
    <2> QED
      BY <1>2, <2>1, <2>2 DEF z
  <1>8. Atoi(b, h, end) = ValueOf(b, h, end - 1)[end - 1]
    BY <1>7, AtoiIs
  <1>9. end - 1 \in Nat /\ h - 1 <= end - 1 /\ end - 1 = h - 1 + Len(D)
    BY <1>1, <1>2 DEF end
  <1>10. ByDigit(ValueOf(b, h, end - 1), b, h, end - 1)
    BY <1>2, <1>9, ValueIs
  <1>11. ValueOf(b, h, end - 1)[h - 1 + Len(D)] = n
    <2>1. h - 1 + Len(D) <= end - 1
      BY <1>9
    <2> QED
      BY <1>2, <1>9, <1>10, <2>1, DecimalRead DEF D
  <1>12. b[h] \in Digits
    BY <1>2, <1>3
  <1> QED
    BY <1>5, <1>8, <1>9, <1>11, <1>12 DEF end, D

-----------------------------------------------------------------------------
(* The parser, line by line.                                                *)
BodyEnd(b, h) == NextLF(b, h) + 1 + Atoi(b, h, NextLF(b, h))
NextLine(b, h) == AfterBody(b, BodyEnd(b, h))
Body(b, h) == SubSeq(b, NextLF(b, h) + 1, BodyEnd(b, h) - 1)

EndsPacket(b, h) ==
    NextLF(b, h) # 0 /\ (NextLF(b, h) = h \/ (NextLF(b, h) = h + 1 /\ b[h] = CR))

(* What looks like a length line at h.                                      *)
IsHead(b, h) ==
    /\ NextLF(b, h) # 0 /\ ~EndsPacket(b, h)
    /\ b[h] \in Digits /\ NextLF(b, h) - h + 1 <= MaxHead

(* A whole record at h, after which the loop goes on.                       *)
GoesOn(b, h) ==
    /\ IsHead(b, h)
    /\ BodyEnd(b, h) <= Len(b) + 1
    /\ NextLine(b, h) # -1 /\ NextLine(b, h) # 0
    /\ NextLine(b, h) - 1 <= MAX_PACKET_SIZE

(* The result when the loop ends at h.                                      *)
Stopped(b, h) ==
    IF NextLF(b, h) = 0 THEN More
    ELSE IF EndsPacket(b, h) THEN Whole(NextLF(b, h))
    ELSE IF ~IsHead(b, h) THEN Bad
    ELSE IF BodyEnd(b, h) > Len(b) + 1 THEN More
    ELSE IF NextLine(b, h) = -1 THEN Bad
    ELSE IF NextLine(b, h) = 0 THEN More
    ELSE Bad

(* A record before what was parsed behind it.                               *)
Before(s, r) == IF r.status # "packet" THEN r ELSE [r EXCEPT !.packet = <<s>> \o @]

LineResult(b, h, from) ==
    IF GoesOn(b, h) THEN Before(Body(b, h), from[NextLine(b, h)]) ELSE Stopped(b, h)

LEMMA HeadIs ==
    ASSUME NEW b \in Seq(Bytes), NEW h \in 1..Len(b) + 1, IsHead(b, h)
    PROVE  /\ NextLF(b, h) \in h + 1..Len(b) /\ h \in 1..Len(b)
           /\ b[NextLF(b, h)] = LF /\ LF \notin Digits
           /\ Atoi(b, h, NextLF(b, h)) \in Nat
           /\ BodyEnd(b, h) \in Nat /\ BodyEnd(b, h) > NextLF(b, h)
  <1> DEFINE lf == NextLF(b, h)
  <1>1. lf # 0 /\ ~EndsPacket(b, h)
    BY DEF IsHead
  <1>2. lf \in h..Len(b) /\ b[lf] = LF
    BY <1>1, NextLFIs
  <1>3. lf # h
    BY <1>1 DEF EndsPacket
  <1>4. LF \notin Digits
    BY DEF LF, Digits
  <1> HIDE DEF lf
  <1>5. lf \in h + 1..Len(b) /\ lf \in Nat /\ h <= lf /\ h \in Nat \ {0} /\ h \in 1..Len(b)
    BY <1>2, <1>3
  <1>6. Atoi(b, h, lf) \in Nat
    BY <1>2, <1>4, <1>5, AtoiType
  <1>7. BodyEnd(b, h) = lf + 1 + Atoi(b, h, lf)
    BY DEF BodyEnd, lf
  <1>8. BodyEnd(b, h) \in Nat /\ BodyEnd(b, h) > lf
    BY <1>5, <1>6, <1>7
  <1> QED
    BY <1>2, <1>4, <1>5, <1>6, <1>8 DEF lf

LEMMA AfterBodyIs ==
    ASSUME NEW b \in Seq(Bytes), NEW i \in Nat
    PROVE  \/ /\ i <= Len(b)
              /\ AfterBody(b, i) \in {i + 1, i + 2} /\ AfterBody(b, i) <= Len(b) + 1
              /\ b[AfterBody(b, i) - 1] = LF
           \/ AfterBody(b, i) \in {-1, 0}
  BY DEF AfterBody, StartsLine, StartsCRLine

LEMMA GoesOnIs ==
    ASSUME NEW b \in Seq(Bytes), NEW h \in 1..Len(b) + 1, GoesOn(b, h)
    PROVE  /\ NextLF(b, h) \in h + 1..Len(b) /\ h \in 1..Len(b)
           /\ BodyEnd(b, h) \in NextLF(b, h) + 1..Len(b)
           /\ NextLine(b, h) \in {BodyEnd(b, h) + 1, BodyEnd(b, h) + 2}
           /\ NextLine(b, h) \in 1..Len(b) + 1 /\ h < NextLine(b, h)
           /\ b[NextLine(b, h) - 1] = LF
           /\ NextLine(b, h) - 1 <= MAX_PACKET_SIZE
           /\ Body(b, h) \in Seq(Bytes) /\ Len(Body(b, h)) = Atoi(b, h, NextLF(b, h))
  <1> DEFINE lf == NextLF(b, h)
             e == BodyEnd(b, h)
             n == NextLine(b, h)
  <1>1. /\ lf \in h + 1..Len(b) /\ h \in 1..Len(b)
        /\ Atoi(b, h, lf) \in Nat
        /\ e \in Nat /\ e > lf
    BY HeadIs DEF GoesOn
  <1>2. e = lf + 1 + Atoi(b, h, lf)
    BY DEF BodyEnd
  <1>3. /\ n # -1 /\ n # 0 /\ n - 1 <= MAX_PACKET_SIZE
    BY DEF GoesOn
  <1>4. n = AfterBody(b, e)
    BY DEF NextLine
  <1>5. Body(b, h) = SubSeq(b, lf + 1, e - 1)
    BY DEF Body
  <1> HIDE DEF lf, e, n
  <1>6. e <= Len(b) /\ n \in {e + 1, e + 2} /\ n <= Len(b) + 1 /\ b[n - 1] = LF
    BY <1>1, <1>3, <1>4, AfterBodyIs
  <1>7. e \in lf + 1..Len(b) /\ n \in 1..Len(b) + 1 /\ h < n
    BY <1>1, <1>6
  <1>8. Body(b, h) \in Seq(Bytes) /\ Len(Body(b, h)) = Atoi(b, h, lf)
    <2>1. \A i \in lf + 1..e - 1 : i \in 1..Len(b)
      BY <1>1, <1>7
    <2>2. SubSeq(b, lf + 1, e - 1) \in Seq(Bytes)
      BY <1>1, <1>7, <2>1, SubSeqProperties
    <2>3. Len(SubSeq(b, lf + 1, e - 1)) = e - 1 - (lf + 1) + 1
      BY <1>1, <1>7, <2>1, SubSeqProperties
    <2> QED
      BY <1>1, <1>2, <1>5, <2>2, <2>3
  <1> QED
    BY <1>1, <1>3, <1>6, <1>7, <1>8 DEF lf, e, n

LEMMA LineIs ==
    ASSUME NEW b \in Seq(Bytes), NEW h \in 1..Len(b) + 1, NEW from
    PROVE  ParseLine(b, h, from) = LineResult(b, h, from)
  <1> DEFINE lf == NextLF(b, h)
             next == BodyEnd(b, h)
             rest == NextLine(b, h)
             r == from[rest]
  <1>1. /\ lf \in Nat /\ MaxHead \in Nat /\ MAX_PACKET_SIZE \in Nat /\ Len(b) \in Nat
        /\ h \in Nat
    BY FramingAssumption, NextLFIs
  <1>2. next = lf + 1 + Atoi(b, h, lf) /\ rest = AfterBody(b, next)
    BY DEF BodyEnd, NextLine
  <1>3. ParseLine(b, h, from) =
          IF lf = 0 THEN More
          ELSE IF lf = h \/ (lf = h + 1 /\ b[h] = CR) THEN Whole(lf)
          ELSE IF b[h] \notin Digits \/ lf - h + 1 > MaxHead THEN Bad
          ELSE IF next > Len(b) + 1 THEN More
          ELSE IF rest = -1 THEN Bad
          ELSE IF rest = 0 THEN More
          ELSE IF rest - 1 > MAX_PACKET_SIZE THEN Bad
          ELSE IF r.status # "packet" THEN r
          ELSE [r EXCEPT !.packet = <<SubSeq(b, lf + 1, next - 1)>> \o @]
    BY <1>2, Zenon DEF ParseLine
  <1>4. Before(Body(b, h), r) = IF r.status # "packet" THEN r
          ELSE [r EXCEPT !.packet = <<SubSeq(b, lf + 1, next - 1)>> \o @]
    BY DEF Before, Body
  <1> HIDE DEF lf, next, rest, r
  <1>5. /\ EndsPacket(b, h) <=> lf # 0 /\ (lf = h \/ (lf = h + 1 /\ b[h] = CR))
        /\ IsHead(b, h) <=> /\ lf # 0 /\ ~EndsPacket(b, h)
                            /\ b[h] \in Digits /\ lf - h + 1 <= MaxHead
        /\ GoesOn(b, h) <=> /\ IsHead(b, h) /\ next <= Len(b) + 1
                            /\ rest # -1 /\ rest # 0 /\ rest - 1 <= MAX_PACKET_SIZE
    BY DEF EndsPacket, IsHead, GoesOn, lf, next, rest
  <1>6. Stopped(b, h) =
          IF lf = 0 THEN More
          ELSE IF EndsPacket(b, h) THEN Whole(lf)
          ELSE IF ~IsHead(b, h) THEN Bad
          ELSE IF next > Len(b) + 1 THEN More
          ELSE IF rest = -1 THEN Bad
          ELSE IF rest = 0 THEN More
          ELSE Bad
    BY DEF Stopped, lf, next, rest
  <1>7. LineResult(b, h, from) =
          IF GoesOn(b, h) THEN Before(Body(b, h), r) ELSE Stopped(b, h)
    BY DEF LineResult, r, rest
  <1>8. IsHead(b, h) => next \in Nat /\ rest \in Int
    <2>1. ASSUME IsHead(b, h) PROVE next \in Nat
      <3>1. BodyEnd(b, h) \in Nat
        BY <2>1, HeadIs
      <3> QED
        BY <3>1 DEF next
    <2>2. next \in Nat => rest \in Int
      BY <1>1, <1>2, AfterBodyIs
    <2> QED
      BY <2>1, <2>2
  <1>12. ASSUME IsHead(b, h)
         PROVE  ParseLine(b, h, from) =
                  IF next > Len(b) + 1 THEN More
                  ELSE IF rest = -1 THEN Bad
                  ELSE IF rest = 0 THEN More
                  ELSE IF rest - 1 > MAX_PACKET_SIZE THEN Bad
                  ELSE IF r.status # "packet" THEN r
                  ELSE [r EXCEPT !.packet = <<SubSeq(b, lf + 1, next - 1)>> \o @]
    <2>1. lf # 0 /\ ~(lf = h \/ (lf = h + 1 /\ b[h] = CR))
      BY <1>5, <1>12
    <2>2. ~(b[h] \notin Digits \/ lf - h + 1 > MaxHead)
      BY <1>1, <1>5, <1>12
    <2> QED
      BY <1>3, <2>1, <2>2, Zenon
  <1>13. IsHead(b, h) => /\ next > Len(b) + 1 <=> ~(next <= Len(b) + 1)
                         /\ rest - 1 > MAX_PACKET_SIZE <=> ~(rest - 1 <= MAX_PACKET_SIZE)
    BY <1>1, <1>8
  <1>9. CASE ~IsHead(b, h)
    BY <1>1, <1>3, <1>5, <1>6, <1>7, <1>9
  <1>10. CASE IsHead(b, h) /\ ~GoesOn(b, h)
    BY <1>5, <1>6, <1>7, <1>10, <1>12, <1>13
  <1>11. CASE GoesOn(b, h)
    <2>1. ParseLine(b, h, from) = IF r.status # "packet" THEN r
                    ELSE [r EXCEPT !.packet = <<SubSeq(b, lf + 1, next - 1)>> \o @]
      BY <1>5, <1>11, <1>12, <1>13
    <2> QED
      BY <1>4, <1>7, <1>11, <2>1
  <1> QED
    BY <1>5, <1>9, <1>10, <1>11

(* f holds what is parsed from each position from n on.                     *)
IsParse(f, b, n) == f = [h \in n..Len(b) + 1 |-> ParseLine(b, h, f)]

LEMMA ParseLineReads ==
    ASSUME NEW b \in Seq(Bytes), NEW h \in 1..Len(b) + 1, NEW f, NEW g,
           \A j \in 1..Len(b) + 1 : h < j => f[j] = g[j]
    PROVE  ParseLine(b, h, f) = ParseLine(b, h, g)
  BY LineIs, GoesOnIs DEF LineResult

LEMMA ParseExists ==
    ASSUME NEW b \in Seq(Bytes)
    PROVE  \E f : IsParse(f, b, 1)
  <1> DEFINE L == Len(b) + 1
             P(h) == \E f : IsParse(f, b, h)
             S == {h \in 1..L : P(h)}
  <1>0. L \in Nat /\ 1 \in 1..L /\ L = Len(b) + 1
    OBVIOUS
  <1> HIDE DEF L
  <1>1. P(L + 1)
    <2> DEFINE f == [h \in L + 1..L |-> Bad]
    <2>1. f = [h \in L + 1..L |-> ParseLine(b, h, f)]
      BY <1>0
    <2> HIDE DEF f
    <2> QED
      BY <1>0, <2>1 DEF IsParse
  <1>2. ASSUME NEW h \in 1..L, P(h + 1) PROVE P(h)
    <2>1. PICK f : IsParse(f, b, h + 1)
      BY <1>2
    <2>2. f = [j \in h + 1..L |-> ParseLine(b, j, f)]
      BY <1>0, <2>1 DEF IsParse
    <2> DEFINE g == [j \in h..L |-> IF j = h THEN ParseLine(b, h, f) ELSE f[j]]
               r == [j \in h..L |-> ParseLine(b, j, g)]
    <2>3. \A j \in h..L : g[j] = IF j = h THEN ParseLine(b, h, f) ELSE f[j]
      OBVIOUS
    <2>4. DOMAIN g = h..L /\ g = [j \in DOMAIN g |-> g[j]]
      OBVIOUS
    <2> HIDE DEF g
    <2>5. ASSUME NEW j \in h..L PROVE g[j] = ParseLine(b, j, g)
      <3>1. j \in 1..Len(b) + 1
        BY <1>0
      <3>2. \A i \in 1..Len(b) + 1 : j < i => f[i] = g[i]
        BY <1>0, <2>3
      <3>3. ParseLine(b, j, f) = ParseLine(b, j, g)
        BY <3>1, <3>2, ParseLineReads
      <3>4. CASE j = h
        BY <2>3, <3>3, <3>4
      <3>5. CASE j # h
        <4>1. j \in h + 1..L
          BY <1>0, <3>5
        <4> QED
          BY <2>2, <2>3, <3>3, <3>5, <4>1
      <3> QED
        BY <3>4, <3>5
    <2>6. g = r
      BY <2>4, <2>5
    <2>7. IsParse(g, b, h)
      BY <1>0, <2>6 DEF IsParse
    <2> QED
      BY <2>7
  <1>3. 1..L \subseteq S
    <2> HIDE DEF P
    <2>1. \A h \in 1..L : (\A j \in 1..L : h < j => j \in S) => h \in S
      <3> SUFFICES ASSUME NEW h \in 1..L, \A j \in 1..L : h < j => j \in S PROVE P(h)
        OBVIOUS
      <3>1. CASE h = L
        BY <1>1, <1>2, <3>1
      <3>2. CASE h # L
        <4>1. h + 1 \in 1..L /\ h < h + 1
          BY <1>0, <3>2
        <4> QED
          BY <1>2, <4>1
      <3> QED
        BY <3>1, <3>2
    <2> HIDE DEF S
    <2> QED
      BY <1>0, <2>1, DownInduction
  <1> QED
    BY <1>0, <1>3

ParseOf(b) == CHOOSE f : IsParse(f, b, 1)

ByLine(f, b) == \A h \in 1..Len(b) + 1 : f[h] = LineResult(b, h, f)

LEMMA ParseIs ==
    ASSUME NEW b \in Seq(Bytes)
    PROVE  ByLine(ParseOf(b), b) /\ Parse(b) = ParseOf(b)[SkipBlank(b, 1)]
  <1> DEFINE f == ParseOf(b)
  <1>1. IsParse(f, b, 1)
    BY ParseExists, Zenon DEF ParseOf
  <1>3. Parse(b) = f[SkipBlank(b, 1)]
    BY DEF Parse, ParseOf, IsParse
  <1> HIDE DEF f
  <1>4. ByLine(f, b)
    BY <1>1, LineIs DEF IsParse, ByLine
  <1> QED
    BY <1>3, <1>4 DEF f

-----------------------------------------------------------------------------
(* What the parser returns.                                                 *)
Results == [status : {"more", "bad", "packet"}, packet : Seq(Seq(Bytes)), used : Nat]

LEMMA BeforeType ==
    ASSUME NEW s \in Seq(Bytes), NEW r \in Results
    PROVE  /\ Before(s, r) \in Results
           /\ Before(s, r).status = r.status /\ Before(s, r).used = r.used
           /\ r.status = "packet" => Before(s, r).packet = <<s>> \o r.packet
           /\ r.status # "packet" => Before(s, r) = r
  <1>1. r.packet \in Seq(Seq(Bytes)) /\ <<s>> \in Seq(Seq(Bytes))
    BY DEF Results
  <1>2. <<s>> \o r.packet \in Seq(Seq(Bytes))
    BY <1>1
  <1> QED
    BY <1>2 DEF Results, Before

LEMMA StoppedIs ==
    ASSUME NEW b \in Seq(Bytes), NEW h \in 1..Len(b) + 1, ~GoesOn(b, h)
    PROVE  /\ Stopped(b, h) \in Results
           /\ Stopped(b, h).packet = <<>>
           /\ Stopped(b, h).status = "packet" => EndsPacket(b, h)
           /\ EndsPacket(b, h) => /\ Stopped(b, h) = Whole(NextLF(b, h))
                                  /\ NextLF(b, h) \in h..Len(b)
  <1>1. NextLF(b, h) # 0 => NextLF(b, h) \in h..Len(b)
    BY NextLFIs
  <1>2. More \in Results /\ More.status = "more" /\ More.packet = <<>>
    BY DEF More, Results
  <1>3. Bad \in Results /\ Bad.status = "bad" /\ Bad.packet = <<>>
    BY DEF Bad, Results
  <1>4. ASSUME NEW n \in Nat
        PROVE  Whole(n) \in Results /\ Whole(n).status = "packet" /\ Whole(n).packet = <<>>
    BY DEF Whole, Results
  <1>5. CASE EndsPacket(b, h)
    <2>1. NextLF(b, h) # 0
      BY <1>5 DEF EndsPacket
    <2>2. Stopped(b, h) = Whole(NextLF(b, h))
      BY <1>5, <2>1 DEF Stopped
    <2> QED
      BY <1>1, <1>4, <1>5, <2>1, <2>2
  <1>6. CASE ~EndsPacket(b, h)
    <2>1. Stopped(b, h) = More \/ Stopped(b, h) = Bad
      BY <1>6 DEF Stopped
    <2> QED
      BY <1>2, <1>3, <1>6, <2>1
  <1> QED
    BY <1>5, <1>6

(* A packet ends within the bytes, and is not empty unless it starts with   *)
(* its end.                                                                 *)
ResultOf(b, h, r) ==
    /\ r \in Results
    /\ r.status = "packet" =>
          /\ r.used \in h..Len(b)
          /\ r.packet = <<>> => EndsPacket(b, h)

LEMMA ResultsAre ==
    ASSUME NEW b \in Seq(Bytes), NEW f, ByLine(f, b)
    PROVE  \A h \in 1..Len(b) + 1 : ResultOf(b, h, f[h])
  <1> DEFINE L == Len(b) + 1
             S == {h \in 1..L : ResultOf(b, h, f[h])}
  <1>0. L \in Nat /\ L = Len(b) + 1
    OBVIOUS
  <1> HIDE DEF L
  <1>1. ASSUME NEW h \in 1..L, \A j \in 1..L : h < j => j \in S PROVE ResultOf(b, h, f[h])
    <2>1. h \in 1..Len(b) + 1 /\ f[h] = LineResult(b, h, f)
      BY <1>0 DEF ByLine
    <2>2. CASE GoesOn(b, h)
      <3> DEFINE n == NextLine(b, h)
                 s == Body(b, h)
      <3>1. n \in 1..Len(b) + 1 /\ h < n /\ s \in Seq(Bytes)
        BY <2>1, <2>2, GoesOnIs
      <3>2. ResultOf(b, n, f[n])
        BY <1>0, <1>1, <3>1
      <3>3. f[h] = Before(s, f[n])
        BY <2>1, <2>2 DEF LineResult
      <3> HIDE DEF n, s
      <3>4. f[n] \in Results
        BY <3>2 DEF ResultOf
      <3> DEFINE q == f[h]
                 r == f[n]
      <3>5. /\ q \in Results /\ q.status = r.status /\ q.used = r.used
            /\ r.status = "packet" => q.packet = <<s>> \o r.packet
        <4>1. /\ Before(s, f[n]) \in Results
              /\ Before(s, f[n]).status = f[n].status /\ Before(s, f[n]).used = f[n].used
              /\ f[n].status = "packet" => Before(s, f[n]).packet = <<s>> \o f[n].packet
          BY <3>1, <3>4, BeforeType
        <4> QED
          BY <3>3, <4>1
      <3>6. r.packet \in Seq(Seq(Bytes))
        BY <3>4 DEF Results
      <3> HIDE DEF q, r
      <3>7. r.status = "packet" => q.packet # <<>>
        <4>1. Len(<<s>> \o r.packet) = 1 + Len(r.packet) /\ Len(r.packet) \in Nat
          BY <3>6
        <4> QED
          BY <3>5, <4>1
      <3>8. r.status = "packet" => r.used \in h..Len(b)
        BY <2>1, <3>1, <3>2 DEF ResultOf, r
      <3> QED
        BY <3>5, <3>7, <3>8 DEF ResultOf, q
    <2>3. CASE ~GoesOn(b, h)
      <3>1. f[h] = Stopped(b, h)
        BY <2>1, <2>3 DEF LineResult
      <3>2. /\ f[h] \in Results
            /\ f[h].status = "packet" => EndsPacket(b, h)
            /\ EndsPacket(b, h) => /\ f[h] = Whole(NextLF(b, h))
                                   /\ NextLF(b, h) \in h..Len(b)
        BY <2>1, <2>3, <3>1, StoppedIs
      <3>3. EndsPacket(b, h) => f[h].used \in h..Len(b)
        BY <3>2 DEF Whole
      <3> QED
        BY <3>2, <3>3 DEF ResultOf
    <2> QED
      BY <2>2, <2>3
  <1>2. 1..L \subseteq S
    <2>1. \A h \in 1..L : (\A j \in 1..L : h < j => j \in S) => h \in S
      BY <1>1
    <2> HIDE DEF S
    <2> QED
      BY <1>0, <2>1, DownInduction
  <1> QED
    BY <1>0, <1>2

LEMMA ParseType ==
    ASSUME NEW b \in Seq(Bytes)
    PROVE  /\ Parse(b) \in Results
           /\ Parse(b).status = "packet" =>
                 Parse(b).used \in 1..Len(b) /\ Parse(b).packet # <<>>
           /\ b = <<>> => Parse(b).status = "more"
  <1> DEFINE f == ParseOf(b)
             s == SkipBlank(b, 1)
  <1>1. ByLine(f, b) /\ Parse(b) = f[s]
    BY ParseIs
  <1>2. s \in 1..Len(b) + 1 /\ (s <= Len(b) => b[s] \notin {LF, CR})
    BY SkipBlankIs
  <1> HIDE DEF f, s
  <1>3. ResultOf(b, s, f[s])
    BY <1>1, <1>2, ResultsAre
  <1>4. ~EndsPacket(b, s)
    <2> SUFFICES ASSUME EndsPacket(b, s) PROVE FALSE
      OBVIOUS
    <2>1. NextLF(b, s) # 0 /\ (NextLF(b, s) = s \/ (NextLF(b, s) = s + 1 /\ b[s] = CR))
      BY DEF EndsPacket
    <2>2. NextLF(b, s) \in s..Len(b) /\ b[NextLF(b, s)] = LF
      BY <1>2, <2>1, NextLFIs
    <2>3. s <= Len(b)
      BY <1>2, <2>2
    <2> QED
      BY <1>2, <2>1, <2>2, <2>3
  <1>5. ASSUME b = <<>> PROVE Parse(b).status = "more"
    <2>1. s = 1 /\ Len(b) = 0
      BY <1>2, <1>5
    <2>2. NextLF(b, 1) = 0
      <3>1. 1 \in 1..Len(b) + 1
        BY <2>1
      <3>2. NextLF(b, 1) = 0 \/ NextLF(b, 1) \in 1..Len(b)
        BY <3>1, NextLFIs
      <3> QED
        BY <2>1, <3>2
    <2>3. ~GoesOn(b, 1) /\ Stopped(b, 1) = More
      BY <2>2 DEF GoesOn, IsHead, Stopped
    <2>4. f[1] = More
      BY <1>1, <1>2, <2>1, <2>3 DEF ByLine, LineResult
    <2> QED
      BY <1>1, <2>1, <2>4 DEF More
  <1>6. f[s].status = "packet" => f[s].used \in 1..Len(b)
    BY <1>2, <1>3 DEF ResultOf
  <1> QED
    BY <1>1, <1>3, <1>4, <1>5, <1>6 DEF ResultOf

-----------------------------------------------------------------------------
(* More bytes do not change what was parsed from fewer.                     *)
LEMMA HeadExtends ==
    ASSUME NEW b \in Seq(Bytes), NEW c \in Seq(Bytes), Extends(c, b),
           NEW h \in 1..Len(b) + 1, NextLF(b, h) # 0
    PROVE  /\ h \in 1..Len(b) /\ h \in 1..Len(c) + 1
           /\ NextLF(c, h) = NextLF(b, h)
           /\ EndsPacket(c, h) <=> EndsPacket(b, h)
           /\ IsHead(c, h) <=> IsHead(b, h)
           /\ IsHead(b, h) => BodyEnd(c, h) = BodyEnd(b, h)
  <1> DEFINE lf == NextLF(b, h)
  <1>1. lf \in h..Len(b) /\ b[lf] = LF
    BY NextLFIs
  <1>2. NextLF(c, h) = lf
    BY NextLFExtends
  <1>3. ASSUME IsHead(b, h) PROVE Atoi(c, h, lf) = Atoi(b, h, lf)
    <2>1. lf \in h + 1..Len(b) /\ b[lf] = LF /\ LF \notin Digits
      BY <1>3, HeadIs
    <2> HIDE DEF lf
    <2>2. h \in Nat \ {0} /\ lf \in Nat /\ h <= lf
      BY <2>1
    <2>3. \A i \in h..lf : b[i] = c[i]
      BY <1>1, <2>2 DEF Extends
    <2> QED
      BY <2>1, <2>2, <2>3, AtoiSame
  <1>4. h \in 1..Len(b) /\ h \in 1..Len(c) + 1 /\ c[h] = b[h]
    <2> HIDE DEF lf
    <2>1. Len(b) \in Nat /\ Len(c) \in Nat /\ Len(b) <= Len(c)
      BY DEF Extends
    <2>2. h \in 1..Len(b)
      BY <1>1
    <2> QED
      BY <2>1, <2>2 DEF Extends
  <1>5. EndsPacket(c, h) <=> EndsPacket(b, h)
    BY <1>2, <1>4 DEF EndsPacket
  <1>6. IsHead(c, h) <=> IsHead(b, h)
    BY <1>2, <1>4, <1>5 DEF IsHead
  <1>7. IsHead(b, h) => BodyEnd(c, h) = BodyEnd(b, h)
    BY <1>2, <1>3 DEF BodyEnd
  <1> QED
    BY <1>2, <1>4, <1>5, <1>6, <1>7

LEMMA AfterBodyExtends ==
    ASSUME NEW b \in Seq(Bytes), NEW c \in Seq(Bytes), Extends(c, b),
           NEW i \in 1..Len(b) + 1, AfterBody(b, i) # 0
    PROVE  AfterBody(c, i) = AfterBody(b, i)
  <1>1. Len(b) \in Nat /\ Len(c) \in Nat /\ Len(b) <= Len(c)
    BY DEF Extends
  <1>2. i <= Len(b)
    BY <1>1 DEF AfterBody, StartsLine, StartsCRLine
  <1>3. c[i] = b[i] /\ (i < Len(b) => c[i + 1] = b[i + 1])
    BY <1>1, <1>2 DEF Extends
  <1>4. LF # CR
    BY DEF LF, CR
  <1> QED
    BY <1>1, <1>2, <1>3, <1>4 DEF AfterBody, StartsLine, StartsCRLine

LEMMA LineExtends ==
    ASSUME NEW b \in Seq(Bytes), NEW c \in Seq(Bytes), Extends(c, b), NEW h \in 1..Len(b) + 1
    PROVE  /\ GoesOn(b, h) => /\ GoesOn(c, h)
                              /\ NextLine(c, h) = NextLine(b, h) /\ Body(c, h) = Body(b, h)
           /\ ~GoesOn(b, h) /\ Stopped(b, h).status # "more" =>
                 ~GoesOn(c, h) /\ Stopped(c, h) = Stopped(b, h)
  <1>1. Len(b) \in Nat /\ Len(c) \in Nat /\ Len(b) <= Len(c)
    BY DEF Extends
  <1>2. More.status = "more"
    BY DEF More
  <1>3. CASE NextLF(b, h) = 0
    BY <1>2, <1>3 DEF GoesOn, IsHead, Stopped
  <1>4. CASE NextLF(b, h) # 0 /\ ~IsHead(b, h)
    <2>1. /\ NextLF(c, h) = NextLF(b, h) /\ ~IsHead(c, h)
          /\ EndsPacket(c, h) <=> EndsPacket(b, h)
      BY <1>4, HeadExtends
    <2> QED
      BY <1>4, <2>1 DEF GoesOn, Stopped
  <1>5. CASE IsHead(b, h)
    <2>1. NextLF(b, h) # 0 /\ ~EndsPacket(b, h)
      BY <1>5 DEF IsHead
    <2>2. /\ NextLF(c, h) = NextLF(b, h) /\ IsHead(c, h) /\ ~EndsPacket(c, h)
          /\ BodyEnd(c, h) = BodyEnd(b, h)
      BY <1>5, <2>1, HeadExtends
    <2>3. BodyEnd(b, h) \in Nat /\ BodyEnd(b, h) > NextLF(b, h) /\ NextLF(b, h) \in 1..Len(b)
      BY <1>5, HeadIs
    <2> DEFINE e == BodyEnd(b, h)
               n == NextLine(b, h)
    <2>4. n = AfterBody(b, e) /\ NextLine(c, h) = AfterBody(c, e)
      BY <2>2 DEF NextLine
    <2> HIDE DEF e, n
    <2>5. CASE e > Len(b) + 1
      <3>1. ~GoesOn(b, h)
        BY <1>1, <2>3, <2>5 DEF GoesOn, e
      <3>2. Stopped(b, h) = More
        BY <1>5, <2>1, <2>5 DEF Stopped, e
      <3> QED
        BY <1>2, <3>1, <3>2
    <2>6. CASE e <= Len(b) + 1 /\ n = 0
      <3>1. ~GoesOn(b, h)
        BY <2>6 DEF GoesOn, n
      <3>2. Stopped(b, h) = More
        <4>1. ~(BodyEnd(b, h) > Len(b) + 1) /\ NextLine(b, h) = 0
          BY <1>1, <2>3, <2>6 DEF e, n
        <4> QED
          BY <1>5, <2>1, <4>1 DEF Stopped
      <3> QED
        BY <1>2, <3>1, <3>2
    <2>7. CASE e <= Len(b) + 1 /\ n # 0
      <3>1. e \in 1..Len(b) + 1
        BY <1>1, <2>3, <2>7 DEF e
      <3>2. NextLine(c, h) = n
        BY <2>4, <2>7, <3>1, AfterBodyExtends
      <3>3. BodyEnd(b, h) <= Len(b) + 1 /\ BodyEnd(c, h) <= Len(c) + 1
            /\ ~(BodyEnd(b, h) > Len(b) + 1) /\ ~(BodyEnd(c, h) > Len(c) + 1)
        BY <1>1, <2>2, <2>3, <2>7 DEF e
      <3>4. NextLine(c, h) = NextLine(b, h)
        BY <3>2 DEF n
      <3>5. GoesOn(c, h) <=> GoesOn(b, h)
        BY <1>5, <2>2, <3>3, <3>4 DEF GoesOn
      <3>6. Stopped(c, h) = Stopped(b, h)
        BY <1>5, <2>1, <2>2, <3>3, <3>4 DEF Stopped
      <3>7. ASSUME GoesOn(b, h) PROVE Body(c, h) = Body(b, h)
        <4> DEFINE l == NextLF(b, h)
        <4>1. e \in l + 1..Len(b) /\ l \in Nat
          BY <2>3, <3>7, GoesOnIs DEF e
        <4>2. Body(c, h) = SubSeq(c, l + 1, e - 1) /\ Body(b, h) = SubSeq(b, l + 1, e - 1)
          BY <2>2 DEF Body, e
        <4> HIDE DEF l
        <4>3. \A i \in l + 1..e - 1 : i \in 1..Len(b) /\ i \in 1..Len(c) /\ c[i] = b[i]
          BY <1>1, <3>1, <4>1 DEF Extends
        <4>4. SubSeq(c, l + 1, e - 1) = SubSeq(b, l + 1, e - 1)
          BY <3>1, <4>1, <4>3
        <4> QED
          BY <4>2, <4>4
      <3> QED
        BY <3>4, <3>5, <3>6, <3>7
    <2>8. n \in Int
      BY <2>3, <2>4, AfterBodyIs DEF e
    <2> QED
      BY <1>1, <2>3, <2>5, <2>6, <2>7 DEF e
  <1> QED
    BY <1>3, <1>4, <1>5

LEMMA ParseExtends ==
    ASSUME NEW b \in Seq(Bytes), NEW c \in Seq(Bytes), Extends(c, b),
           Parse(b).status # "more"
    PROVE  Parse(c) = Parse(b)
  <1> DEFINE f == ParseOf(b)
             g == ParseOf(c)
             s == SkipBlank(b, 1)
             L == Len(b) + 1
             P(h) == f[h].status # "more" => g[h] = f[h]
             S == {h \in 1..L : P(h)}
  <1>0. L \in Nat /\ L = Len(b) + 1 /\ Len(b) \in Nat /\ Len(c) \in Nat /\ Len(b) <= Len(c)
    BY DEF Extends
  <1>1. ByLine(f, b) /\ ByLine(g, c) /\ Parse(b) = f[s] /\ Parse(c) = g[SkipBlank(c, 1)]
    BY ParseIs
  <1>2. /\ s \in 1..Len(b) + 1 /\ (s <= Len(b) => b[s] \notin {LF, CR})
        /\ \A i \in 1..s - 1 : b[i] \in {LF, CR}
    BY SkipBlankIs
  <1> HIDE DEF f, g, s, L
  <1>3. ASSUME NEW h \in 1..L, \A j \in 1..L : h < j => j \in S PROVE P(h)
    <2>1. h \in 1..Len(b) + 1 /\ h \in 1..Len(c) + 1
      BY <1>0
    <2>2. f[h] = LineResult(b, h, f) /\ g[h] = LineResult(c, h, g)
      BY <1>1, <2>1 DEF ByLine
    <2>3. CASE GoesOn(b, h)
      <3> DEFINE n == NextLine(b, h)
                 t == Body(b, h)
      <3>1. n \in 1..L /\ h < n /\ t \in Seq(Bytes)
        BY <1>0, <2>1, <2>3, GoesOnIs
      <3>2. GoesOn(c, h) /\ NextLine(c, h) = n /\ Body(c, h) = t
        BY <2>1, <2>3, LineExtends
      <3>3. f[h] = Before(t, f[n]) /\ g[h] = Before(t, g[n])
        BY <2>2, <2>3, <3>2 DEF LineResult
      <3> HIDE DEF n, t
      <3>4. P(n)
        BY <1>3, <3>1
      <3>5. f[n].status = "more" => f[h] = f[n]
        BY <3>3 DEF Before
      <3> QED
        BY <3>3, <3>4, <3>5
    <2>4. CASE ~GoesOn(b, h)
      <3>1. f[h] = Stopped(b, h)
        BY <2>2, <2>4 DEF LineResult
      <3>2. ASSUME f[h].status # "more" PROVE g[h] = f[h]
        <4>1. ~GoesOn(c, h) /\ Stopped(c, h) = Stopped(b, h)
          BY <2>1, <2>4, <3>1, <3>2, LineExtends
        <4> QED
          BY <2>2, <3>1, <4>1 DEF LineResult
      <3> QED
        BY <3>2
    <2> QED
      BY <2>3, <2>4
  <1>4. 1..L \subseteq S
    <2> HIDE DEF P
    <2>1. \A h \in 1..L : (\A j \in 1..L : h < j => j \in S) => h \in S
      BY <1>3
    <2> HIDE DEF S
    <2> QED
      BY <1>0, <2>1, DownInduction
  <1>5. g[s] = f[s]
    BY <1>0, <1>1, <1>2, <1>4
  <1>6. s <= Len(b)
    <2> SUFFICES ASSUME s = Len(b) + 1 PROVE FALSE
      BY <1>0, <1>2
    <2>1. NextLF(b, s) = 0
      <3>1. NextLF(b, s) = 0 \/ NextLF(b, s) \in s..Len(b)
        BY <1>2, NextLFIs
      <3> QED
        BY <1>0, <3>1
    <2>2. ~GoesOn(b, s) /\ Stopped(b, s) = More
      BY <2>1 DEF GoesOn, IsHead, Stopped
    <2>3. f[s] = More
      BY <1>1, <1>2, <2>2 DEF ByLine, LineResult
    <2> QED
      BY <1>1, <2>3 DEF More
  <1>7. SkipBlank(c, 1) = s
    <2>1. s \in 1..Len(c) /\ s \in 1..Len(b) /\ c[s] = b[s]
      BY <1>0, <1>2, <1>6 DEF Extends
    <2>2. \A i \in 1..s - 1 : c[i] \in {LF, CR}
      BY <1>0, <1>2, <1>6 DEF Extends
    <2> QED
      BY <1>2, <1>6, <2>1, <2>2, SkipBlankUnique
  <1> QED
    BY <1>1, <1>5, <1>7

-----------------------------------------------------------------------------
(* A stream is decoded packet by packet.                                    *)
Suffix(b, h) == SubSeq(b, h, Len(b))
Decodings == [status : {"more", "bad"}, packets : Seq(Seq(Seq(Bytes)) \ {<<>>})]

DecodeAt(b, h, from) ==
    LET r == Parse(SubSeq(b, h, Len(b)))
    IN  IF r.status # "packet" THEN [status |-> r.status, packets |-> <<>>]
        ELSE [from[h + r.used] EXCEPT !.packets = <<r.packet>> \o @]

IsDecode(f, b, n) == f = [h \in n..(Len(b) + 1) |-> DecodeAt(b, h, f)]

LEMMA SuffixIs ==
    ASSUME NEW b \in Seq(Bytes), NEW h \in 1..Len(b) + 1
    PROVE  /\ Suffix(b, h) \in Seq(Bytes) /\ Len(Suffix(b, h)) = Len(b) - h + 1
           /\ \A i \in 1..Len(b) - h + 1 : Suffix(b, h)[i] = b[h - 1 + i]
  <1>1. Len(b) \in Nat
    OBVIOUS
  <1>2. \A i \in h..Len(b) : i \in 1..Len(b)
    BY <1>1
  <1>3. Suffix(b, h) \in Seq(Bytes)
    BY <1>1, <1>2, SubSeqProperties DEF Suffix
  <1>4. Len(Suffix(b, h)) = Len(b) - h + 1
    BY <1>1, <1>2, SubSeqProperties DEF Suffix
  <1>5. ASSUME NEW i \in 1..Len(b) - h + 1 PROVE Suffix(b, h)[i] = b[h - 1 + i]
    <2>1. Suffix(b, h)[i] = b[h + i - 1]
      BY <1>1, <1>2, SubSeqProperties DEF Suffix
    <2>2. h + i - 1 = h - 1 + i
      OBVIOUS
    <2> QED
      BY <2>1, <2>2
  <1> QED
    BY <1>3, <1>4, <1>5

LEMMA SuffixAll ==
    ASSUME NEW b \in Seq(Bytes)
    PROVE  Suffix(b, 1) = b
  <1>1. Len(b) \in Nat /\ 1 \in 1..Len(b) + 1
    OBVIOUS
  <1>2. /\ Suffix(b, 1) \in Seq(Bytes) /\ Len(Suffix(b, 1)) = Len(b) - 1 + 1
        /\ \A i \in 1..Len(b) - 1 + 1 : Suffix(b, 1)[i] = b[1 - 1 + i]
    BY <1>1, SuffixIs
  <1>3. Len(Suffix(b, 1)) = Len(b)
    BY <1>1, <1>2
  <1>4. ASSUME NEW i \in 1..Len(b) PROVE Suffix(b, 1)[i] = b[i]
    <2>1. i \in 1..Len(b) - 1 + 1 /\ 1 - 1 + i = i
      BY <1>1
    <2> QED
      BY <1>2, <2>1
  <1> QED
    BY <1>2, <1>3, <1>4, SeqEqual

LEMMA SuffixTwice ==
    ASSUME NEW b \in Seq(Bytes), NEW k \in 0..Len(b), NEW h \in 1..Len(b) - k + 1
    PROVE  Suffix(Suffix(b, k + 1), h) = Suffix(b, k + h)
  <1> DEFINE c == Suffix(b, k + 1)
             d == Suffix(c, h)
             e == Suffix(b, k + h)
  <1>1. Len(b) \in Nat /\ k + 1 \in 1..Len(b) + 1 /\ k + h \in 1..Len(b) + 1
    OBVIOUS
  <1>2. c \in Seq(Bytes) /\ Len(c) = Len(b) - (k + 1) + 1
        /\ \A i \in 1..Len(b) - (k + 1) + 1 : c[i] = b[k + 1 - 1 + i]
    BY <1>1, SuffixIs
  <1>3. e \in Seq(Bytes) /\ Len(e) = Len(b) - (k + h) + 1
        /\ \A i \in 1..Len(b) - (k + h) + 1 : e[i] = b[k + h - 1 + i]
    BY <1>1, SuffixIs
  <1> HIDE DEF c
  <1>4. h \in 1..Len(c) + 1
    BY <1>1, <1>2
  <1>5. d \in Seq(Bytes) /\ Len(d) = Len(c) - h + 1
        /\ \A i \in 1..Len(c) - h + 1 : d[i] = c[h - 1 + i]
    BY <1>2, <1>4, SuffixIs
  <1> HIDE DEF d, e
  <1>6. Len(d) = Len(e)
    BY <1>1, <1>2, <1>3, <1>5
  <1>7. ASSUME NEW i \in 1..Len(d) PROVE d[i] = e[i]
    <2> DEFINE j == h - 1 + i
    <2>1. j \in 1..Len(b) - (k + 1) + 1 /\ k + 1 - 1 + j = k + h - 1 + i
          /\ i \in 1..Len(c) - h + 1 /\ i \in 1..Len(b) - (k + h) + 1
      <3> DEFINE B == Len(b)
                 C == Len(c)
                 D == Len(d)
      <3>1. B \in Nat /\ C = B - (k + 1) + 1 /\ D = C - h + 1 /\ i \in 1..D
        BY <1>1, <1>2, <1>5
      <3> HIDE DEF B, C, D
      <3>2. /\ j \in 1..B - (k + 1) + 1 /\ k + 1 - 1 + j = k + h - 1 + i
            /\ i \in 1..C - h + 1 /\ i \in 1..B - (k + h) + 1
        BY <3>1
      <3> QED
        BY <3>2 DEF B, C
    <2>2. d[i] = c[j] /\ e[i] = b[k + h - 1 + i]
      BY <1>3, <1>5, <2>1
    <2> HIDE DEF j
    <2>3. c[j] = b[k + 1 - 1 + j]
      BY <1>2, <2>1
    <2> QED
      BY <2>1, <2>2, <2>3
  <1>8. d = e
    BY <1>3, <1>5, <1>6, <1>7, SeqEqual
  <1> QED
    BY <1>8 DEF c, d, e

LEMMA DecodeAtReads ==
    ASSUME NEW b \in Seq(Bytes), NEW h \in 1..Len(b) + 1, NEW f, NEW g,
           \A j \in 1..Len(b) + 1 : h < j => f[j] = g[j]
    PROVE  DecodeAt(b, h, f) = DecodeAt(b, h, g)
  <1> DEFINE r == Parse(Suffix(b, h))
  <1>1. r.status = "packet" => r.used \in 1..Len(Suffix(b, h))
    BY SuffixIs, ParseType
  <1>2. Len(Suffix(b, h)) = Len(b) - h + 1 /\ Len(b) \in Nat
    BY SuffixIs
  <1>3. ASSUME NEW from
        PROVE  DecodeAt(b, h, from) =
                 IF r.status # "packet" THEN [status |-> r.status, packets |-> <<>>]
                 ELSE [from[h + r.used] EXCEPT !.packets = <<r.packet>> \o @]
    BY DEF DecodeAt, Suffix
  <1> HIDE DEF r
  <1>4. r.status = "packet" => f[h + r.used] = g[h + r.used]
    <2> SUFFICES ASSUME r.status = "packet" PROVE f[h + r.used] = g[h + r.used]
      OBVIOUS
    <2>1. h + r.used \in 1..Len(b) + 1 /\ h < h + r.used
      BY <1>1, <1>2
    <2> QED
      BY <2>1
  <1> QED
    BY <1>3, <1>4

LEMMA DecodeExists ==
    ASSUME NEW b \in Seq(Bytes)
    PROVE  \E f : IsDecode(f, b, 1)
  <1> DEFINE L == Len(b) + 1
             P(h) == \E f : IsDecode(f, b, h)
             S == {h \in 1..L : P(h)}
  <1>0. L \in Nat /\ 1 \in 1..L /\ L = Len(b) + 1
    OBVIOUS
  <1> HIDE DEF L
  <1>1. P(L + 1)
    <2> DEFINE f == [h \in L + 1..L |-> Bad]
    <2>1. f = [h \in L + 1..L |-> DecodeAt(b, h, f)]
      BY <1>0
    <2> HIDE DEF f
    <2> QED
      BY <1>0, <2>1 DEF IsDecode
  <1>2. ASSUME NEW h \in 1..L, P(h + 1) PROVE P(h)
    <2>1. PICK f : IsDecode(f, b, h + 1)
      BY <1>2
    <2>2. f = [j \in h + 1..L |-> DecodeAt(b, j, f)]
      BY <1>0, <2>1 DEF IsDecode
    <2> DEFINE g == [j \in h..L |-> IF j = h THEN DecodeAt(b, h, f) ELSE f[j]]
               r == [j \in h..L |-> DecodeAt(b, j, g)]
    <2>3. \A j \in h..L : g[j] = IF j = h THEN DecodeAt(b, h, f) ELSE f[j]
      OBVIOUS
    <2>4. DOMAIN g = h..L /\ g = [j \in DOMAIN g |-> g[j]]
      OBVIOUS
    <2> HIDE DEF g
    <2>5. ASSUME NEW j \in h..L PROVE g[j] = DecodeAt(b, j, g)
      <3>1. j \in 1..Len(b) + 1
        BY <1>0
      <3>2. \A i \in 1..Len(b) + 1 : j < i => f[i] = g[i]
        BY <1>0, <2>3
      <3>3. DecodeAt(b, j, f) = DecodeAt(b, j, g)
        BY <3>1, <3>2, DecodeAtReads
      <3>4. CASE j = h
        BY <2>3, <3>3, <3>4
      <3>5. CASE j # h
        <4>1. j \in h + 1..L
          BY <1>0, <3>5
        <4> QED
          BY <2>2, <2>3, <3>3, <3>5, <4>1
      <3> QED
        BY <3>4, <3>5
    <2>6. g = r
      BY <2>4, <2>5
    <2>7. IsDecode(g, b, h)
      BY <1>0, <2>6 DEF IsDecode
    <2> QED
      BY <2>7
  <1>3. 1..L \subseteq S
    <2> HIDE DEF P
    <2>1. \A h \in 1..L : (\A j \in 1..L : h < j => j \in S) => h \in S
      <3> SUFFICES ASSUME NEW h \in 1..L, \A j \in 1..L : h < j => j \in S PROVE P(h)
        OBVIOUS
      <3>1. CASE h = L
        BY <1>1, <1>2, <3>1
      <3>2. CASE h # L
        <4>1. h + 1 \in 1..L /\ h < h + 1
          BY <1>0, <3>2
        <4> QED
          BY <1>2, <4>1
      <3> QED
        BY <3>1, <3>2
    <2> HIDE DEF S
    <2> QED
      BY <1>0, <2>1, DownInduction
  <1> QED
    BY <1>0, <1>3

DecodeOf(b) == CHOOSE f : IsDecode(f, b, 1)

ByPacket(f, b) == \A h \in 1..Len(b) + 1 : f[h] = DecodeAt(b, h, f)

LEMMA DecodeIs ==
    ASSUME NEW b \in Seq(Bytes)
    PROVE  ByPacket(DecodeOf(b), b) /\ Decoded(b) = DecodeOf(b)[1]
  <1> DEFINE f == DecodeOf(b)
  <1>1. IsDecode(f, b, 1)
    BY DecodeExists, Zenon DEF DecodeOf
  <1>2. Decoded(b) = f[1]
    BY DEF Decoded, DecodeOf, IsDecode, DecodeAt
  <1> HIDE DEF f
  <1>3. ByPacket(f, b)
    BY <1>1 DEF IsDecode, ByPacket
  <1> QED
    BY <1>2, <1>3 DEF f

(* One step of the decoding, and its type.                                  *)
LEMMA DecodeStep ==
    ASSUME NEW b \in Seq(Bytes), NEW f, ByPacket(f, b), NEW h \in 1..Len(b) + 1
    PROVE  LET r == Parse(Suffix(b, h))
           IN  /\ r.status # "packet" =>
                     f[h] = [status |-> r.status, packets |-> <<>>] /\ r.status \in {"more", "bad"}
               /\ r.status = "packet" =>
                     /\ r.used \in 1..Len(b) - h + 1 /\ h + r.used \in 1..Len(b) + 1
                     /\ r.packet \in Seq(Seq(Bytes)) \ {<<>>}
                     /\ f[h] = [f[h + r.used] EXCEPT !.packets = <<r.packet>> \o @]
  <1> DEFINE r == Parse(Suffix(b, h))
  <1>1. /\ r \in Results
        /\ r.status = "packet" => r.used \in 1..Len(Suffix(b, h)) /\ r.packet # <<>>
    BY SuffixIs, ParseType
  <1>2. Len(Suffix(b, h)) = Len(b) - h + 1 /\ Len(b) \in Nat
    BY SuffixIs
  <1>3. f[h] = IF r.status # "packet" THEN [status |-> r.status, packets |-> <<>>]
               ELSE [f[h + r.used] EXCEPT !.packets = <<r.packet>> \o @]
    BY DEF ByPacket, DecodeAt, Suffix
  <1> HIDE DEF r
  <1>4. r.status \in {"more", "bad", "packet"} /\ r.packet \in Seq(Seq(Bytes))
    BY <1>1 DEF Results
  <1>5. r.status = "packet" => r.used \in 1..Len(b) - h + 1 /\ h + r.used \in 1..Len(b) + 1
    BY <1>1, <1>2
  <1> QED
    BY <1>1, <1>3, <1>4, <1>5 DEF r

LEMMA DecodeType ==
    ASSUME NEW b \in Seq(Bytes), NEW f, ByPacket(f, b)
    PROVE  \A h \in 1..Len(b) + 1 : f[h] \in Decodings
  <1> DEFINE L == Len(b) + 1
             P(h) == f[h] \in Decodings
             S == {h \in 1..L : P(h)}
  <1>0. L \in Nat /\ L = Len(b) + 1
    OBVIOUS
  <1> HIDE DEF L
  <1>1. ASSUME NEW h \in 1..L, \A j \in 1..L : h < j => j \in S PROVE P(h)
    <2> DEFINE r == Parse(Suffix(b, h))
               n == h + r.used
               d == f[n]
    <2>1. /\ r.status # "packet" =>
                f[h] = [status |-> r.status, packets |-> <<>>] /\ r.status \in {"more", "bad"}
          /\ r.status = "packet" =>
                /\ r.used \in 1..Len(b) - h + 1 /\ n \in 1..Len(b) + 1
                /\ r.packet \in Seq(Seq(Bytes)) \ {<<>>}
                /\ f[h] = [d EXCEPT !.packets = <<r.packet>> \o @]
      BY <1>0, DecodeStep
    <2>2. r.status = "packet" => h < n
      BY <2>1
    <2> HIDE DEF r, n
    <2>3. CASE r.status # "packet"
      <3>1. <<>> \in Seq(Seq(Seq(Bytes)) \ {<<>>})
        OBVIOUS
      <3> QED
        <4> DEFINE none == [status |-> r.status, packets |-> <<>>]
        <4>1. none \in Decodings
          BY <2>1, <2>3, <3>1, Zenon DEF Decodings
        <4>2. f[h] = none
          BY <2>1, <2>3
        <4> QED
          BY <4>1, <4>2
    <2>4. CASE r.status = "packet"
      <3>1. d \in Decodings
        BY <1>0, <1>1, <2>1, <2>2, <2>4
      <3> HIDE DEF d
      <3>2. /\ d.packets \in Seq(Seq(Seq(Bytes)) \ {<<>>})
            /\ <<r.packet>> \in Seq(Seq(Seq(Bytes)) \ {<<>>})
        BY <2>1, <2>4, <3>1 DEF Decodings
      <3>3. <<r.packet>> \o d.packets \in Seq(Seq(Seq(Bytes)) \ {<<>>})
        BY <3>2
      <3> QED
        BY <2>1, <2>4, <3>1, <3>3 DEF Decodings
    <2> QED
      BY <2>3, <2>4
  <1>2. 1..L \subseteq S
    <2> HIDE DEF P
    <2>1. \A h \in 1..L : (\A j \in 1..L : h < j => j \in S) => h \in S
      BY <1>1
    <2> HIDE DEF S
    <2> QED
      BY <1>0, <2>1, DownInduction
  <1> QED
    BY <1>0, <1>2

(* What is decoded from a position does not depend on the bytes before it.  *)
LEMMA DecodeShift ==
    ASSUME NEW b \in Seq(Bytes), NEW f, ByPacket(f, b), NEW k \in 0..Len(b),
           NEW g, ByPacket(g, Suffix(b, k + 1))
    PROVE  g[1] = f[k + 1]
  <1> DEFINE c == Suffix(b, k + 1)
             L == Len(c) + 1
             P(h) == g[h] = f[k + h]
             S == {h \in 1..L : P(h)}
  <1>0. c \in Seq(Bytes) /\ Len(c) = Len(b) - k /\ Len(b) \in Nat
    BY SuffixIs
  <1>1. L \in Nat /\ L = Len(c) + 1 /\ 1 \in 1..L
    BY <1>0
  <1>2. ByPacket(g, c)
    OBVIOUS
  <1> HIDE DEF L
  <1>3. ASSUME NEW h \in 1..L, \A j \in 1..L : h < j => j \in S PROVE P(h)
    <2> DEFINE r == Parse(Suffix(c, h))
               m == k + h
    <2>1. h \in 1..Len(c) + 1 /\ m \in 1..Len(b) + 1 /\ h \in 1..Len(b) - k + 1
      BY <1>0, <1>1
    <2>2. Suffix(c, h) = Suffix(b, m)
      BY <2>1, SuffixTwice
    <2> HIDE DEF c, m
    <2>3. /\ r.status # "packet" => g[h] = [status |-> r.status, packets |-> <<>>]
          /\ r.status = "packet" =>
                /\ r.used \in 1..Len(c) - h + 1
                /\ g[h] = [g[h + r.used] EXCEPT !.packets = <<r.packet>> \o @]
      BY <1>0, <1>2, <2>1, DecodeStep
    <2>4. /\ r.status # "packet" => f[m] = [status |-> r.status, packets |-> <<>>]
          /\ r.status = "packet" =>
                f[m] = [f[m + r.used] EXCEPT !.packets = <<r.packet>> \o @]
      <3> DEFINE q == Parse(Suffix(b, m))
      <3>1. /\ q.status # "packet" => f[m] = [status |-> q.status, packets |-> <<>>]
            /\ q.status = "packet" =>
                  f[m] = [f[m + q.used] EXCEPT !.packets = <<q.packet>> \o @]
        BY <2>1, DecodeStep
      <3>2. q = r
        BY <2>2
      <3> HIDE DEF q, r
      <3> QED
        BY <3>1, <3>2
    <2> HIDE DEF r
    <2>5. r.status = "packet" => g[h + r.used] = f[m + r.used]
      <3> SUFFICES ASSUME r.status = "packet" PROVE g[h + r.used] = f[m + r.used]
        OBVIOUS
      <3> DEFINE j == h + r.used
      <3>1. j \in 1..L /\ h < j /\ k + j = m + r.used
        BY <1>1, <2>1, <2>3 DEF m
      <3> HIDE DEF j
      <3>2. g[j] = f[k + j]
        BY <1>3, <3>1
      <3> QED
        BY <3>1, <3>2 DEF j
    <2>6. g[h] = f[m]
      BY <2>3, <2>4, <2>5
    <2> QED
      BY <2>6 DEF m
  <1>4. 1..L \subseteq S
    <2> HIDE DEF P, c
    <2>1. \A h \in 1..L : (\A j \in 1..L : h < j => j \in S) => h \in S
      BY <1>3
    <2> HIDE DEF S
    <2> QED
      BY <1>1, <2>1, DownInduction
  <1> QED
    BY <1>1, <1>4

LEMMA DecodedType ==
    ASSUME NEW b \in Seq(Bytes)
    PROVE  Decoded(b) \in Decodings
  <1>1. 1 \in 1..Len(b) + 1
    OBVIOUS
  <1> QED
    BY <1>1, DecodeIs, DecodeType

LEMMA DecodedIs ==
    ASSUME NEW b \in Seq(Bytes)
    PROVE  LET r == Parse(b)
               d == Decoded(SubSeq(b, r.used + 1, Len(b)))
           IN  /\ r.status # "packet" => Decoded(b) = [status |-> r.status, packets |-> <<>>]
               /\ r.status = "packet" =>
                     Decoded(b) = [status |-> d.status, packets |-> <<r.packet>> \o d.packets]
  <1> DEFINE r == Parse(b)
             f == DecodeOf(b)
             c == Suffix(b, r.used + 1)
             d == Decoded(c)
  <1>1. ByPacket(f, b) /\ Decoded(b) = f[1]
    BY DecodeIs
  <1>2. Suffix(b, 1) = b /\ 1 \in 1..Len(b) + 1
    BY SuffixAll
  <1> HIDE DEF f
  <1>3. /\ r.status # "packet" => f[1] = [status |-> r.status, packets |-> <<>>]
        /\ r.status = "packet" =>
              /\ r.used \in 1..Len(b) - 1 + 1
              /\ f[1] = [f[1 + r.used] EXCEPT !.packets = <<r.packet>> \o @]
    <2>1. ASSUME NEW h \in 1..Len(b) + 1, h = 1
          PROVE  LET q == Parse(Suffix(b, h))
                 IN  /\ q.status # "packet" => f[h] = [status |-> q.status, packets |-> <<>>]
                     /\ q.status = "packet" =>
                           /\ q.used \in 1..Len(b) - h + 1
                           /\ f[h] = [f[h + q.used] EXCEPT !.packets = <<q.packet>> \o @]
      BY <1>1, DecodeStep
    <2>2. PICK h \in 1..Len(b) + 1 : h = 1
      BY <1>2
    <2> DEFINE q == Parse(Suffix(b, h))
    <2>3. q = r
      BY <1>2, <2>2
    <2>4. /\ q.status # "packet" => f[h] = [status |-> q.status, packets |-> <<>>]
          /\ q.status = "packet" =>
                /\ q.used \in 1..Len(b) - h + 1
                /\ f[h] = [f[h + q.used] EXCEPT !.packets = <<q.packet>> \o @]
      BY <2>1, <2>2
    <2> HIDE DEF q, r
    <2> QED
      BY <2>2, <2>3, <2>4
  <1> HIDE DEF r
  <1>4. ASSUME r.status = "packet"
        PROVE  Decoded(b) = [status |-> d.status, packets |-> <<r.packet>> \o d.packets]
    <2>1. r.used \in 0..Len(b) /\ r.used + 1 \in 1..Len(b) + 1 /\ 1 + r.used = r.used + 1
      BY <1>3, <1>4
    <2>2. c \in Seq(Bytes)
      BY <2>1, SuffixIs
    <2>3. ByPacket(DecodeOf(c), c) /\ d = DecodeOf(c)[1] /\ d \in Decodings
      BY <2>2, DecodeIs, DecodedType
    <2>4. d = f[r.used + 1]
      BY <1>1, <2>1, <2>3, DecodeShift
    <2>5. f[1] = [d EXCEPT !.packets = <<r.packet>> \o @]
      BY <1>3, <1>4, <2>1, <2>4
    <2> HIDE DEF d
    <2>6. f[1] = [status |-> d.status, packets |-> <<r.packet>> \o d.packets]
      BY <2>3, <2>5 DEF Decodings
    <2> QED
      BY <1>1, <2>6
  <1>5. c = SubSeq(b, r.used + 1, Len(b))
    BY DEF Suffix
  <1> QED
    BY <1>1, <1>3, <1>4, <1>5 DEF r

-----------------------------------------------------------------------------
(* Sequences put together: f[i] is what the first i of the pieces a make.   *)
Joined(f, a, n) == f[0] = <<>> /\ \A i \in 1..n : f[i] = f[i - 1] \o a[i]

IsJoin(f, a, n) == f = [i \in 0..n |-> IF i = 0 THEN <<>> ELSE f[i - 1] \o a[i]]

LEMMA JoinExists ==
    ASSUME NEW a, NEW n \in Nat
    PROVE  \E f : IsJoin(f, a, n)
  <1> DEFINE P(k) == \E f : IsJoin(f, a, k)
             S == {k \in Nat : P(k)}
  <1>1. P(0)
    <2> DEFINE f == [i \in 0..0 |-> <<>>]
    <2>1. f = [i \in 0..0 |-> IF i = 0 THEN <<>> ELSE f[i - 1] \o a[i]]
      OBVIOUS
    <2> HIDE DEF f
    <2> QED
      BY <2>1 DEF IsJoin
  <1>2. ASSUME NEW k \in Nat, P(k) PROVE P(k + 1)
    <2>1. PICK f : IsJoin(f, a, k)
      BY <1>2
    <2>2. f = [i \in 0..k |-> IF i = 0 THEN <<>> ELSE f[i - 1] \o a[i]]
      BY <2>1 DEF IsJoin
    <2> DEFINE m == k + 1
               g == [i \in 0..m |-> IF i = m THEN f[k] \o a[m] ELSE f[i]]
               r == [i \in 0..m |-> IF i = 0 THEN <<>> ELSE g[i - 1] \o a[i]]
    <2>3. \A i \in 0..m : g[i] = IF i = m THEN f[k] \o a[m] ELSE f[i]
      OBVIOUS
    <2>4. DOMAIN g = 0..m /\ g = [i \in DOMAIN g |-> g[i]]
      OBVIOUS
    <2>5. m \in Nat \ {0} /\ m - 1 = k /\ k # m /\ k \in 0..m
      OBVIOUS
    <2> HIDE DEF g, m
    <2>6. ASSUME NEW i \in 0..m PROVE g[i] = IF i = 0 THEN <<>> ELSE g[i - 1] \o a[i]
      <3>1. CASE i = m
        BY <2>3, <2>5, <3>1
      <3>2. CASE i # m
        <4>1. i \in 0..k /\ (i # 0 => i - 1 \in 0..m /\ i - 1 # m)
          BY <2>5, <3>2
        <4>2. f[i] = IF i = 0 THEN <<>> ELSE f[i - 1] \o a[i]
          BY <2>2, <4>1
        <4> QED
          BY <2>3, <3>2, <4>1, <4>2
      <3> QED
        BY <3>1, <3>2
    <2>7. g = r
      BY <2>4, <2>6
    <2>8. IsJoin(g, a, m)
      BY <2>7 DEF IsJoin
    <2> QED
      BY <2>8 DEF m
  <1>3. Nat \subseteq S
    <2> HIDE DEF P
    <2>1. 0 \in S /\ \A k \in Nat : k \in S => k + 1 \in S
      BY <1>1, <1>2
    <2> HIDE DEF S
    <2> QED
      BY <2>1, StepInduction
  <1> QED
    BY <1>3

LEMMA JoinType ==
    ASSUME NEW n \in Nat, NEW a, NEW f,
           a \in [1..n -> Seq(Bytes)], Joined(f, a, n)
    PROVE  \A i \in 0..n : f[i] \in Seq(Bytes)
  <1> DEFINE P(k) == k <= n => f[k] \in Seq(Bytes)
             S == {k \in Nat : P(k)}
  <1>1. P(0)
    BY DEF Joined
  <1>2. ASSUME NEW k \in Nat, P(k) PROVE P(k + 1)
    <2> DEFINE m == k + 1
    <2>1. SUFFICES ASSUME m <= n PROVE f[m] \in Seq(Bytes)
      OBVIOUS
    <2>2. m \in 1..n /\ m - 1 = k /\ k <= n
      BY <2>1
    <2> HIDE DEF m
    <2>3. f[m] = f[k] \o a[m] /\ a[m] \in Seq(Bytes)
      BY <2>2 DEF Joined
    <2> QED
      BY <1>2, <2>2, <2>3
  <1>3. Nat \subseteq S
    <2> HIDE DEF P
    <2>1. 0 \in S /\ \A k \in Nat : k \in S => k + 1 \in S
      BY <1>1, <1>2
    <2> HIDE DEF S
    <2> QED
      BY <2>1, StepInduction
  <1> QED
    BY <1>3

LEMMA JoinSame ==
    ASSUME NEW n \in Nat, NEW a, NEW c, NEW f, NEW g,
           Joined(f, a, n), Joined(g, c, n), \A i \in 1..n : a[i] = c[i]
    PROVE  f[n] = g[n]
  <1> DEFINE P(k) == k <= n => f[k] = g[k]
             S == {k \in Nat : P(k)}
  <1>1. P(0)
    BY DEF Joined
  <1>2. ASSUME NEW k \in Nat, P(k) PROVE P(k + 1)
    <2> DEFINE m == k + 1
    <2>1. SUFFICES ASSUME m <= n PROVE f[m] = g[m]
      OBVIOUS
    <2>2. m \in 1..n /\ m - 1 = k /\ k <= n
      BY <2>1
    <2> HIDE DEF m
    <2>3. f[m] = f[k] \o a[m] /\ g[m] = g[k] \o c[m]
      BY <2>2 DEF Joined
    <2> QED
      BY <1>2, <2>2, <2>3
  <1>3. Nat \subseteq S
    <2> HIDE DEF P
    <2>1. 0 \in S /\ \A k \in Nat : k \in S => k + 1 \in S
      BY <1>1, <1>2
    <2> HIDE DEF S
    <2> QED
      BY <2>1, StepInduction
  <1> QED
    BY <1>3

(* c are the pieces a with x before them.                                   *)
Prefixed(c, x, a, n) == c[1] = x /\ \A i \in 1..n : c[i + 1] = a[i]

LEMMA JoinCons ==
    ASSUME NEW n \in Nat, NEW x, NEW a, NEW c, NEW f, NEW g, x \in Seq(Bytes),
           a \in [1..n -> Seq(Bytes)], Joined(f, a, n), Joined(g, c, n + 1),
           Prefixed(c, x, a, n)
    PROVE  g[n + 1] = x \o f[n]
  <1> DEFINE P(k) == k <= n => g[k + 1] = x \o f[k]
             S == {k \in Nat : P(k)}
  <1>1. P(0)
    <2>1. 1 \in 1..n + 1 /\ 1 - 1 = 0 /\ 0 + 1 = 1
      OBVIOUS
    <2>2. g[1] = g[0] \o c[1] /\ g[0] = <<>> /\ f[0] = <<>>
      BY <2>1 DEF Joined, Prefixed
    <2>3. <<>> \o x = x /\ x \o <<>> = x
      OBVIOUS
    <2> QED
      BY <2>1, <2>2, <2>3 DEF Prefixed
  <1>2. ASSUME NEW k \in Nat, P(k) PROVE P(k + 1)
    <2> DEFINE m == k + 1
    <2>1. SUFFICES ASSUME m <= n PROVE g[m + 1] = x \o f[m]
      OBVIOUS
    <2>2. /\ m \in 1..n /\ m - 1 = k /\ k <= n /\ k + 1 = m
          /\ m + 1 \in 1..n + 1 /\ m + 1 - 1 = m /\ k \in 0..n
      BY <2>1
    <2> HIDE DEF m
    <2>3. f[m] = f[k] \o a[m]
      BY <2>2 DEF Joined
    <2>4. g[m + 1] = g[m] \o c[m + 1]
      <3> DEFINE o == m + 1
      <3>1. o \in 1..n + 1 /\ o - 1 = m
        BY <2>2
      <3> HIDE DEF o
      <3>2. g[o] = g[o - 1] \o c[o]
        BY <3>1 DEF Joined
      <3> QED
        BY <3>1, <3>2 DEF o
    <2>5. f[k] \in Seq(Bytes) /\ a[m] \in Seq(Bytes)
      BY <2>2, JoinType
    <2>6. (x \o f[k]) \o a[m] = x \o (f[k] \o a[m])
      <3> DEFINE y == f[k]
                 z == a[m]
      <3>1. y \in Seq(Bytes) /\ z \in Seq(Bytes)
        BY <2>5
      <3> HIDE DEF y, z
      <3>2. (x \o y) \o z = x \o (y \o z)
        BY <3>1, ConcatAssociative
      <3> QED
        BY <3>2 DEF y, z
    <2> QED
      BY <1>2, <2>2, <2>3, <2>4, <2>6 DEF Prefixed
  <1>3. Nat \subseteq S
    <2> HIDE DEF P
    <2>1. 0 \in S /\ \A k \in Nat : k \in S => k + 1 \in S
      BY <1>1, <1>2
    <2> HIDE DEF S
    <2> QED
      BY <2>1, StepInduction
  <1> QED
    BY <1>3

-----------------------------------------------------------------------------
(* Packets, from their records.                                             *)
RecordsOf(p) ==
    CHOOSE f : f = [i \in 0..Len(p) |-> IF i = 0 THEN <<>> ELSE f[i-1] \o Record(p[i])]

PacketsOf(ps) ==
    CHOOSE f : f = [i \in 0..Len(ps) |-> IF i = 0 THEN <<>> ELSE f[i-1] \o Packet(ps[i])]

RecordsIn(p) == [i \in 1..Len(p) |-> Record(p[i])]
PacketsIn(ps) == [i \in 1..Len(ps) |-> Packet(ps[i])]

LEMMA RecordsAre ==
    ASSUME NEW T, NEW p \in Seq(T)
    PROVE  /\ Joined(RecordsOf(p), RecordsIn(p), Len(p))
           /\ Packet(p) = RecordsOf(p)[Len(p)] \o <<LF>>
  <1> DEFINE a == RecordsIn(p)
             n == Len(p)
             g == RecordsOf(p)
             E(f) == f = [i \in 0..n |-> IF i = 0 THEN <<>> ELSE f[i-1] \o Record(p[i])]
  <1>1. n \in Nat
    OBVIOUS
  <1>2. \A i \in 1..n : a[i] = Record(p[i])
    BY DEF RecordsIn
  <1>3. PICK f : IsJoin(f, a, n)
    BY <1>1, JoinExists
  <1> HIDE DEF a, n
  <1>4. f = [i \in 0..n |-> IF i = 0 THEN <<>> ELSE f[i-1] \o a[i]]
    BY <1>3 DEF IsJoin
  <1>5. \A i \in 0..n : i # 0 => i \in 1..n
    BY <1>1
  <1>6. E(f)
    BY <1>2, <1>4, <1>5
  <1>7. E(g)
    <2> USE DEF n
    <2> HIDE DEF E
    <2>1. g = CHOOSE h : E(h)
      BY DEF RecordsOf, E
    <2> HIDE DEF g
    <2> QED
      BY <1>6, <2>1, Zenon
  <1>8. Packet(p) = g[n] \o <<LF>>
    BY DEF Packet, RecordsOf, n
  <1> HIDE DEF g
  <1>9. Joined(g, a, n)
    BY <1>1, <1>2, <1>5, <1>7 DEF Joined
  <1> QED
    BY <1>8, <1>9 DEF a, n, g

LEMMA PacketsAre ==
    ASSUME NEW T, NEW ps \in Seq(T)
    PROVE  /\ Joined(PacketsOf(ps), PacketsIn(ps), Len(ps))
           /\ Packets(ps) = PacketsOf(ps)[Len(ps)]
  <1> DEFINE a == PacketsIn(ps)
             n == Len(ps)
             g == PacketsOf(ps)
             E(f) == f = [i \in 0..n |-> IF i = 0 THEN <<>> ELSE f[i-1] \o Packet(ps[i])]
  <1>1. n \in Nat
    OBVIOUS
  <1>2. \A i \in 1..n : a[i] = Packet(ps[i])
    BY DEF PacketsIn
  <1>3. PICK f : IsJoin(f, a, n)
    BY <1>1, JoinExists
  <1> HIDE DEF a, n
  <1>4. f = [i \in 0..n |-> IF i = 0 THEN <<>> ELSE f[i-1] \o a[i]]
    BY <1>3 DEF IsJoin
  <1>5. \A i \in 0..n : i # 0 => i \in 1..n
    BY <1>1
  <1>6. E(f)
    BY <1>2, <1>4, <1>5
  <1>7. E(g)
    <2> USE DEF n
    <2> HIDE DEF E
    <2>1. g = CHOOSE h : E(h)
      BY DEF PacketsOf, E
    <2> HIDE DEF g
    <2> QED
      BY <1>6, <2>1, Zenon
  <1>8. Packets(ps) = g[n]
    BY DEF Packets, PacketsOf, n
  <1> HIDE DEF g
  <1>9. Joined(g, a, n)
    BY <1>1, <1>2, <1>5, <1>7 DEF Joined
  <1> QED
    BY <1>8, <1>9 DEF a, n, g

LEMMA Pieces ==
    ASSUME NEW T, NEW x \in Seq(T), NEW y \in Seq(T), NEW z \in Seq(T)
    PROVE  (x \o y) \o z = x \o (y \o z)
  BY ConcatAssociative

LEMMA Prepended ==
    ASSUME NEW T, NEW x \in T, NEW p \in Seq(T)
    PROVE  /\ <<x>> \o p \in Seq(T) /\ Len(<<x>> \o p) = Len(p) + 1
           /\ (<<x>> \o p)[1] = x /\ \A i \in 1..Len(p) : (<<x>> \o p)[i + 1] = p[i]
           /\ <<x>> \o p # <<>>
  <1>1. <<x>> \in Seq(T) /\ Len(<<x>>) = 1 /\ Len(p) \in Nat
    OBVIOUS
  <1>2. /\ <<x>> \o p \in Seq(T) /\ Len(<<x>> \o p) = 1 + Len(p)
        /\ \A i \in 1..1 + Len(p) : (<<x>> \o p)[i] = IF i <= 1 THEN <<x>>[i] ELSE p[i - 1]
    BY <1>1, ConcatProperties
  <1>3. ASSUME NEW i \in 1..Len(p) PROVE (<<x>> \o p)[i + 1] = p[i]
    <2> DEFINE j == i + 1
    <2>1. j \in 1..1 + Len(p) /\ ~(j <= 1) /\ j - 1 = i
      BY <1>1
    <2> HIDE DEF j
    <2>2. (<<x>> \o p)[j] = p[j - 1]
      BY <1>2, <2>1
    <2> QED
      BY <2>1, <2>2 DEF j
  <1>4. (<<x>> \o p)[1] = x
    BY <1>1, <1>2
  <1> QED
    BY <1>1, <1>2, <1>3, <1>4

LEMMA HeadTail ==
    ASSUME NEW T, NEW p \in Seq(T), p # <<>>
    PROVE  /\ Head(p) \in T /\ Tail(p) \in Seq(T) /\ Len(p) = Len(Tail(p)) + 1
           /\ p = <<Head(p)>> \o Tail(p)
  OBVIOUS

LEMMA RecordType ==
    ASSUME NEW s \in Seq(Bytes)
    PROVE  /\ Record(s) \in Seq(Bytes)
           /\ Len(Record(s)) = Len(Decimal(Len(s))) + Len(s) + 2
           /\ Len(s) \in Nat /\ Len(Decimal(Len(s))) \in Nat \ {0}
           /\ Decimal(Len(s)) \in Seq(Bytes) /\ <<LF>> \in Seq(Bytes)
  <1>1. Decimal(Len(s)) \in Seq(Digits) /\ Len(Decimal(Len(s))) \in Nat \ {0}
    BY DecimalType
  <1>2. Digits \subseteq Bytes /\ LF \in Bytes
    BY DEF Digits, Bytes, LF
  <1>3. Decimal(Len(s)) \in Seq(Bytes) /\ <<LF>> \in Seq(Bytes)
    BY <1>1, <1>2
  <1> DEFINE d == Decimal(Len(s))
  <1> HIDE DEF d
  <1>4. d \o <<LF>> \in Seq(Bytes) /\ Len(d \o <<LF>>) = Len(d) + 1
    BY <1>3 DEF d
  <1>5. (d \o <<LF>>) \o s \in Seq(Bytes) /\ Len((d \o <<LF>>) \o s) = Len(d) + 1 + Len(s)
    BY <1>4
  <1>6. /\ ((d \o <<LF>>) \o s) \o <<LF>> \in Seq(Bytes)
        /\ Len(((d \o <<LF>>) \o s) \o <<LF>>) = Len(d) + 1 + Len(s) + 1
    BY <1>3, <1>5
  <1>7. Record(s) = ((d \o <<LF>>) \o s) \o <<LF>>
    BY DEF Record, d
  <1> QED
    BY <1>1, <1>3, <1>6, <1>7 DEF d

LEMMA PacketType ==
    ASSUME NEW p \in Seq(Seq(Bytes))
    PROVE  /\ Packet(p) \in Seq(Bytes) /\ Len(Packet(p)) \in Nat \ {0}
           /\ RecordsIn(p) \in [1..Len(p) -> Seq(Bytes)]
           /\ RecordsOf(p)[Len(p)] \in Seq(Bytes)
  <1>1. RecordsIn(p) \in [1..Len(p) -> Seq(Bytes)]
    <2>1. \A i \in 1..Len(p) : p[i] \in Seq(Bytes)
      OBVIOUS
    <2> QED
      BY <2>1, RecordType DEF RecordsIn
  <1>2. Joined(RecordsOf(p), RecordsIn(p), Len(p)) /\ Packet(p) = RecordsOf(p)[Len(p)] \o <<LF>>
    BY RecordsAre
  <1>4. RecordsOf(p)[Len(p)] \in Seq(Bytes)
    <2>1. PICK n \in Nat : n = Len(p)
      OBVIOUS
    <2>2. RecordsIn(p) \in [1..n -> Seq(Bytes)] /\ Joined(RecordsOf(p), RecordsIn(p), n)
      BY <1>1, <1>2, <2>1
    <2>3. \A i \in 0..n : RecordsOf(p)[i] \in Seq(Bytes)
      BY <2>2, JoinType
    <2> QED
      BY <2>1, <2>3
  <1>5. <<LF>> \in Seq(Bytes)
    BY DEF Bytes, LF
  <1> DEFINE r == RecordsOf(p)[Len(p)]
  <1> HIDE DEF r
  <1>6. r \o <<LF>> \in Seq(Bytes) /\ Len(r \o <<LF>>) = Len(r) + 1 /\ Len(r) \in Nat
    BY <1>4, <1>5 DEF r
  <1> QED
    BY <1>1, <1>2, <1>4, <1>6 DEF r

LEMMA PacketEmpty == Packet(<<>>) = <<LF>>
  <1>1. <<>> \in Seq(Seq(Bytes)) /\ Len(<<>>) = 0
    OBVIOUS
  <1>2. Joined(RecordsOf(<<>>), RecordsIn(<<>>), 0) /\ Packet(<<>>) = RecordsOf(<<>>)[0] \o <<LF>>
    BY <1>1, RecordsAre
  <1>3. RecordsOf(<<>>)[0] = <<>> /\ <<>> \o <<LF>> = <<LF>>
    BY <1>2 DEF Joined
  <1> QED
    BY <1>2, <1>3

LEMMA PacketCons ==
    ASSUME NEW s \in Seq(Bytes), NEW p \in Seq(Seq(Bytes))
    PROVE  Packet(<<s>> \o p) = Record(s) \o Packet(p)
  <1>0. PICK n \in Nat : n = Len(p)
    OBVIOUS
  <1> DEFINE q == <<s>> \o p
             a == RecordsIn(p)
             c == RecordsIn(q)
             f == RecordsOf(p)
             g == RecordsOf(q)
  <1>1. /\ q \in Seq(Seq(Bytes)) /\ Len(q) = n + 1
        /\ q[1] = s /\ \A i \in 1..n : q[i + 1] = p[i]
    BY <1>0, Prepended
  <1>2. n \in Nat /\ 1 \in 1..n + 1 /\ \A i \in 1..n : i + 1 \in 1..n + 1
    OBVIOUS
  <1> HIDE DEF q
  <1>3. Prefixed(c, Record(s), a, n)
    <2>1. \A i \in 1..n + 1 : c[i] = Record(q[i])
      BY <1>1 DEF RecordsIn
    <2>2. \A i \in 1..n : a[i] = Record(p[i])
      BY <1>0 DEF RecordsIn
    <2> QED
      BY <1>1, <1>2, <2>1, <2>2 DEF Prefixed
  <1>4. Joined(f, a, n) /\ Packet(p) = f[n] \o <<LF>>
    BY <1>0, RecordsAre
  <1>5. Joined(g, c, n + 1) /\ Packet(q) = g[n + 1] \o <<LF>>
    BY <1>1, RecordsAre
  <1>6. a \in [1..n -> Seq(Bytes)] /\ f[n] \in Seq(Bytes)
    BY <1>0, PacketType
  <1>7. Record(s) \in Seq(Bytes) /\ <<LF>> \in Seq(Bytes)
    BY RecordType
  <1> DEFINE x == Record(s)
             z == <<LF>>
  <1> HIDE DEF a, c, f, g, x, z
  <1>8. g[n + 1] = x \o f[n]
    BY <1>2, <1>3, <1>4, <1>5, <1>6, <1>7, JoinCons DEF x
  <1> DEFINE y == f[n]
  <1>9. y \in Seq(Bytes) /\ x \in Seq(Bytes) /\ z \in Seq(Bytes)
    BY <1>6, <1>7 DEF x, z
  <1> HIDE DEF y
  <1>10. (x \o y) \o z = x \o (y \o z)
    BY <1>9, Pieces
  <1> QED
    BY <1>4, <1>5, <1>8, <1>10 DEF q, x, y, z

LEMMA PacketsType ==
    ASSUME NEW ps \in Seq(Seq(Seq(Bytes)))
    PROVE  /\ Packets(ps) \in Seq(Bytes)
           /\ PacketsIn(ps) \in [1..Len(ps) -> Seq(Bytes)]
  <1>1. PacketsIn(ps) \in [1..Len(ps) -> Seq(Bytes)]
    <2>1. \A i \in 1..Len(ps) : ps[i] \in Seq(Seq(Bytes))
      OBVIOUS
    <2> QED
      BY <2>1, PacketType DEF PacketsIn
  <1>2. Joined(PacketsOf(ps), PacketsIn(ps), Len(ps)) /\ Packets(ps) = PacketsOf(ps)[Len(ps)]
    BY PacketsAre
  <1>3. PICK n \in Nat : n = Len(ps)
    OBVIOUS
  <1>4. PacketsIn(ps) \in [1..n -> Seq(Bytes)] /\ Joined(PacketsOf(ps), PacketsIn(ps), n)
    BY <1>1, <1>2, <1>3
  <1>5. \A i \in 0..n : PacketsOf(ps)[i] \in Seq(Bytes)
    BY <1>4, JoinType
  <1> QED
    BY <1>1, <1>2, <1>3, <1>5

LEMMA PacketsEmpty == Packets(<<>>) = <<>>
  <1>1. <<>> \in Seq(Seq(Seq(Bytes))) /\ Len(<<>>) = 0
    OBVIOUS
  <1>2. Joined(PacketsOf(<<>>), PacketsIn(<<>>), 0) /\ Packets(<<>>) = PacketsOf(<<>>)[0]
    BY <1>1, PacketsAre
  <1> QED
    BY <1>2 DEF Joined

LEMMA PacketsCons ==
    ASSUME NEW p \in Seq(Seq(Bytes)), NEW ps \in Seq(Seq(Seq(Bytes)))
    PROVE  Packets(<<p>> \o ps) = Packet(p) \o Packets(ps)
  <1>0. PICK n \in Nat : n = Len(ps)
    OBVIOUS
  <1> DEFINE q == <<p>> \o ps
             a == PacketsIn(ps)
             c == PacketsIn(q)
             f == PacketsOf(ps)
             g == PacketsOf(q)
  <1>1. /\ q \in Seq(Seq(Seq(Bytes))) /\ Len(q) = n + 1
        /\ q[1] = p /\ \A i \in 1..n : q[i + 1] = ps[i]
    BY <1>0, Prepended
  <1>2. n \in Nat /\ 1 \in 1..n + 1 /\ \A i \in 1..n : i + 1 \in 1..n + 1
    OBVIOUS
  <1> HIDE DEF q
  <1>3. Prefixed(c, Packet(p), a, n)
    <2>1. \A i \in 1..n + 1 : c[i] = Packet(q[i])
      BY <1>1 DEF PacketsIn
    <2>2. \A i \in 1..n : a[i] = Packet(ps[i])
      BY <1>0 DEF PacketsIn
    <2> QED
      BY <1>1, <1>2, <2>1, <2>2 DEF Prefixed
  <1>4. Joined(f, a, n) /\ Packets(ps) = f[n]
    BY <1>0, PacketsAre
  <1>5. Joined(g, c, n + 1) /\ Packets(q) = g[n + 1]
    BY <1>1, PacketsAre
  <1>6. a \in [1..n -> Seq(Bytes)]
    BY <1>0, PacketsType
  <1>7. Packet(p) \in Seq(Bytes)
    BY PacketType
  <1> HIDE DEF a, c, f, g
  <1>8. g[n + 1] = Packet(p) \o f[n]
    BY <1>2, <1>3, <1>4, <1>5, <1>6, <1>7, JoinCons
  <1> QED
    BY <1>4, <1>5, <1>8 DEF q

LEMMA PacketsAppend ==
    ASSUME NEW ps \in Seq(Seq(Seq(Bytes))), NEW p \in Seq(Seq(Bytes))
    PROVE  Packets(Append(ps, p)) = Packets(ps) \o Packet(p)
  <1>0. PICK n \in Nat : n = Len(ps)
    OBVIOUS
  <1> DEFINE q == Append(ps, p)
             m == n + 1
             a == PacketsIn(ps)
             c == PacketsIn(q)
             f == PacketsOf(ps)
             g == PacketsOf(q)
  <1>1. /\ q \in Seq(Seq(Seq(Bytes))) /\ Len(q) = m /\ q[m] = p
        /\ \A i \in 1..n : q[i] = ps[i]
    BY <1>0
  <1>2. n \in Nat /\ m \in 1..m /\ m - 1 = n /\ \A i \in 1..n : i \in 1..m
    OBVIOUS
  <1> HIDE DEF q, m
  <1>3. c[m] = Packet(p) /\ \A i \in 1..n : a[i] = c[i]
    <2>1. \A i \in 1..m : c[i] = Packet(q[i])
      BY <1>1 DEF PacketsIn
    <2>2. \A i \in 1..n : a[i] = Packet(ps[i])
      BY <1>0 DEF PacketsIn
    <2> QED
      BY <1>1, <1>2, <2>1, <2>2
  <1>4. Joined(f, a, n) /\ Packets(ps) = f[n]
    BY <1>0, PacketsAre
  <1>5. Joined(g, c, m) /\ Packets(q) = g[m]
    BY <1>1, PacketsAre
  <1> HIDE DEF a, c, f, g
  <1>6. g[m] = g[n] \o c[m] /\ Joined(g, c, n)
    BY <1>2, <1>5 DEF Joined
  <1>7. f[n] = g[n]
    BY <1>3, <1>4, <1>6, JoinSame
  <1> QED
    BY <1>3, <1>4, <1>5, <1>6, <1>7 DEF q

-----------------------------------------------------------------------------
(* What was sent is parsed.                                                 *)
LEMMA HoldsParts ==
    ASSUME NEW T, NEW x \in Seq(T), NEW y \in Seq(T), NEW b, NEW h \in Nat, Holds(b, h, x \o y)
    PROVE  Holds(b, h, x) /\ Holds(b, h + Len(x), y)
  <1>1. /\ Len(x) \in Nat /\ Len(y) \in Nat
        /\ \A i \in 1..Len(x) + Len(y) : (x \o y)[i] = IF i <= Len(x) THEN x[i] ELSE y[i - Len(x)]
        /\ Len(x \o y) = Len(x) + Len(y)
    BY ConcatProperties
  <1>2. ASSUME NEW i \in 1..Len(x) PROVE b[h - 1 + i] = x[i]
    <2>1. i \in 1..Len(x \o y) /\ i <= Len(x) /\ i \in 1..Len(x) + Len(y)
      BY <1>1
    <2> QED
      BY <1>1, <2>1 DEF Holds
  <1>3. ASSUME NEW i \in 1..Len(y) PROVE b[h + Len(x) - 1 + i] = y[i]
    <2> DEFINE j == Len(x) + i
    <2>1. /\ j \in 1..Len(x \o y) /\ ~(j <= Len(x)) /\ j \in 1..Len(x) + Len(y)
          /\ j - Len(x) = i /\ h - 1 + j = h + Len(x) - 1 + i
      BY <1>1
    <2> HIDE DEF j
    <2>2. b[h - 1 + j] = (x \o y)[j]
      BY <2>1 DEF Holds
    <2> QED
      BY <1>1, <2>1, <2>2
  <1> QED
    BY <1>2, <1>3 DEF Holds

LEMMA HoldsOne ==
    ASSUME NEW v, NEW b, NEW h \in Nat, Holds(b, h, <<v>>)
    PROVE  b[h] = v
  <1>1. 1 \in 1..Len(<<v>>) /\ h - 1 + 1 = h /\ <<v>>[1] = v
    OBVIOUS
  <1>2. b[h - 1 + 1] = <<v>>[1]
    BY <1>1 DEF Holds
  <1> QED
    BY <1>1, <1>2

LEMMA HeldIs ==
    ASSUME NEW b \in Seq(Bytes), NEW h \in Nat \ {0}, NEW s \in Seq(Bytes),
           Holds(b, h, s), h - 1 + Len(s) <= Len(b)
    PROVE  SubSeq(b, h, h + Len(s) - 1) = s
  <1> DEFINE e == h + Len(s) - 1
             t == SubSeq(b, h, e)
  <1>1. Len(s) \in Nat /\ Len(b) \in Nat /\ e <= Len(b) /\ e - h + 1 = Len(s) /\ e \in Int
        /\ \A i \in h..e : i \in 1..Len(b)
    OBVIOUS
  <1>2. e \in Nat /\ h <= e + 1
    BY <1>1
  <1> HIDE DEF e
  <1>3. t \in Seq(Bytes)
    BY <1>1, <1>2, SubSeqProperties
  <1>4. Len(t) = e - h + 1
    BY <1>1, <1>2, SubSeqProperties
  <1>5. ASSUME NEW i \in 1..Len(s) PROVE t[i] = s[i]
    <2>1. t[i] = b[h + i - 1]
      BY <1>1, <1>2, SubSeqProperties
    <2>2. h + i - 1 = h - 1 + i
      OBVIOUS
    <2> QED
      BY <2>1, <2>2 DEF Holds
  <1>6. t = s
    <2> HIDE DEF t
    <2> QED
      BY <1>1, <1>3, <1>4, <1>5, SeqEqual
  <1> QED
    BY <1>6 DEF e

LEMMA RecordAt ==
    ASSUME NEW b \in Seq(Bytes), NEW h \in Nat \ {0}, NEW s \in Seq(Bytes),
           Holds(b, h, Record(s)),
           h - 1 + Len(Record(s)) <= Len(b), h - 1 + Len(Record(s)) <= MAX_PACKET_SIZE
    PROVE  /\ GoesOn(b, h) /\ NextLine(b, h) = h + Len(Record(s)) /\ Body(b, h) = s
           /\ h \in 1..Len(b) /\ b[h] \in Digits
  <1> DEFINE D == Decimal(Len(s))
             d == Len(D)
             l == Len(s)
             lf == h + d
             next == lf + 1 + l
             R == Len(Record(s))
  <1>1. /\ R = d + l + 2 /\ l \in Nat /\ d \in Nat \ {0}
        /\ D \in Seq(Bytes) /\ <<LF>> \in Seq(Bytes) /\ Record(s) \in Seq(Bytes)
    BY RecordType
  <1>2. /\ Len(b) \in Nat /\ MAX_PACKET_SIZE \in Nat /\ MaxHead \in Nat
        /\ \A n \in 0..MAX_PACKET_SIZE : Len(Decimal(n)) < MaxHead
    BY FramingAssumption
  <1>3. Holds(b, h, D) /\ b[lf] = LF /\ Holds(b, lf + 1, s) /\ b[next] = LF
    <2> DEFINE E == D \o <<LF>>
               F == E \o s
    <2>1. Record(s) = F \o <<LF>>
      BY DEF Record
    <2> HIDE DEF D, d
    <2>2. E \in Seq(Bytes) /\ Len(E) = d + 1
      BY <1>1 DEF d
    <2> HIDE DEF E
    <2>3. F \in Seq(Bytes) /\ Len(F) = d + 1 + l
      BY <2>2
    <2> HIDE DEF F
    <2>4. Holds(b, h, F) /\ Holds(b, h + Len(F), <<LF>>)
      BY <1>1, <2>1, <2>3, HoldsParts
    <2>5. h + Len(F) = next /\ next \in Nat /\ lf \in Nat /\ h + Len(E) = lf + 1 /\ h + Len(D) = lf
      BY <1>1, <2>2, <2>3 DEF d
    <2>6. Holds(b, h, E) /\ Holds(b, lf + 1, s)
      <3>1. Holds(b, h, E) /\ Holds(b, h + Len(E), s)
        BY <2>2, <2>4, HoldsParts DEF F
      <3> QED
        BY <2>5, <3>1
    <2>7. Holds(b, h, D) /\ Holds(b, lf, <<LF>>)
      <3>1. Holds(b, h, D) /\ Holds(b, h + Len(D), <<LF>>)
        BY <1>1, <2>6, HoldsParts DEF E
      <3> QED
        BY <2>5, <3>1
    <2>8. b[lf] = LF
      BY <2>5, <2>7, HoldsOne
    <2>9. b[next] = LF
      <3>1. Holds(b, next, <<LF>>)
        BY <2>4, <2>5
      <3> HIDE DEF next
      <3> QED
        BY <2>5, <3>1, HoldsOne
    <2> QED
      BY <2>6, <2>7, <2>8, <2>9
  <1>4. h \in 1..Len(b) /\ lf <= Len(b) /\ next <= Len(b) /\ lf \in Nat /\ next \in Nat
        /\ l \in 0..MAX_PACKET_SIZE
    BY <1>1, <1>2
  <1>5. NextLF(b, h) = lf /\ Atoi(b, h, lf) = l /\ b[h] \in Digits
    <2>1. Holds(b, h, Decimal(l)) /\ h + Len(Decimal(l)) <= Len(b) /\ b[h + Len(Decimal(l))] = LF
      BY <1>3, <1>4
    <2>2. /\ NextLF(b, h) = h + Len(Decimal(l))
          /\ Atoi(b, h, h + Len(Decimal(l))) = l
          /\ b[h] \in Digits
      <3> HIDE DEF l
      <3> QED
        BY <1>1, <1>4, <2>1, DecimalLine
    <2> QED
      BY <2>2
  <1>6. d < MaxHead
    BY <1>2, <1>4
  <1> HIDE DEF D, d, l, lf
  <1>7. BodyEnd(b, h) = next
    BY <1>5 DEF BodyEnd
  <1>8. NextLine(b, h) = next + 1
    BY <1>3, <1>4, <1>7 DEF NextLine, AfterBody, StartsLine
  <1>9. ~EndsPacket(b, h)
    <2>1. lf # h
      BY <1>1 DEF lf
    <2>2. b[h] # CR
      BY <1>5 DEF Digits, CR
    <2> QED
      BY <1>5, <2>1, <2>2 DEF EndsPacket
  <1>10. IsHead(b, h)
    <2>1. lf # 0 /\ lf - h + 1 <= MaxHead
      BY <1>1, <1>2, <1>6 DEF lf
    <2> QED
      BY <1>5, <1>9, <2>1 DEF IsHead
  <1>11. GoesOn(b, h)
    <2>1. next <= Len(b) + 1 /\ next + 1 # -1 /\ next + 1 # 0 /\ next + 1 - 1 <= MAX_PACKET_SIZE
      BY <1>1, <1>2, <1>4 DEF lf
    <2> DEFINE m == next + 1
    <2> HIDE DEF next
    <2>2. BodyEnd(b, h) <= Len(b) + 1
      BY <1>7, <2>1
    <2>3. NextLine(b, h) # -1 /\ NextLine(b, h) # 0 /\ NextLine(b, h) - 1 <= MAX_PACKET_SIZE
      <3>1. m # -1 /\ m # 0 /\ m - 1 <= MAX_PACKET_SIZE
        BY <1>2, <1>4, <2>1
      <3>2. NextLine(b, h) = m
        BY <1>8
      <3> HIDE DEF m
      <3> QED
        BY <3>1, <3>2
    <2> QED
      BY <1>10, <2>2, <2>3 DEF GoesOn
  <1>12. NextLine(b, h) = h + R
    BY <1>1, <1>8 DEF lf
  <1>13. Body(b, h) = s
    <2> DEFINE k == lf + 1
    <2>1. Body(b, h) = SubSeq(b, k, next - 1)
      BY <1>5, <1>7 DEF Body
    <2>2. k \in Nat \ {0} /\ next - 1 = k + Len(s) - 1 /\ k - 1 + Len(s) <= Len(b)
      BY <1>1, <1>4 DEF l, lf
    <2>3. Holds(b, k, s)
      BY <1>3
    <2> HIDE DEF k
    <2>4. SubSeq(b, k, k + Len(s) - 1) = s
      BY <2>2, <2>3, HeldIs
    <2> QED
      BY <2>1, <2>2, <2>4
  <1> QED
    BY <1>4, <1>5, <1>11, <1>12, <1>13

(* The packet p at h, then the result of the parser there.                  *)
PacketAt(b, h, p) ==
    /\ Holds(b, h, Packet(p))
    /\ h - 1 + Len(Packet(p)) <= Len(b)
    /\ h - 1 + Len(Packet(p)) - 1 <= MAX_PACKET_SIZE

Parsed(p, used) == [status |-> "packet", packet |-> p, used |-> used]

LEMMA RecordsParsed ==
    ASSUME NEW b \in Seq(Bytes), NEW f, ByLine(f, b)
    PROVE  \A p \in Seq(Seq(Bytes)) : \A h \in Nat \ {0} :
              PacketAt(b, h, p) => f[h] = Parsed(p, h - 1 + Len(Packet(p)))
  <1> DEFINE P(k) == \A p \in Seq(Seq(Bytes)) : Len(p) = k =>
                        \A h \in Nat \ {0} :
                           PacketAt(b, h, p) => f[h] = Parsed(p, h - 1 + Len(Packet(p)))
             S == {k \in Nat : P(k)}
  <1>1. P(0)
    <2>1. SUFFICES ASSUME NEW h \in Nat \ {0}, PacketAt(b, h, <<>>)
                   PROVE  f[h] = Parsed(<<>>, h - 1 + Len(Packet(<<>>)))
      OBVIOUS
    <2>2. Holds(b, h, <<LF>>) /\ h - 1 + 1 <= Len(b) /\ Packet(<<>>) = <<LF>> /\ Len(<<LF>>) = 1
      BY <2>1, PacketEmpty DEF PacketAt
    <2>3. b[h] = LF /\ h \in 1..Len(b) + 1 /\ h \in 1..Len(b)
      BY <2>2, HoldsOne
    <2>4. NextLF(b, h) = h
      <3>1. \/ NextLF(b, h) = 0 /\ \A i \in h..Len(b) : b[i] # LF
            \/ /\ NextLF(b, h) \in h..Len(b) /\ b[NextLF(b, h)] = LF
               /\ \A i \in h..NextLF(b, h) - 1 : b[i] # LF
        BY <2>3, NextLFIs
      <3> DEFINE lf == NextLF(b, h)
      <3> HIDE DEF lf
      <3>2. lf \in h..Len(b) /\ \A i \in h..lf - 1 : b[i] # LF
        BY <2>3, <3>1 DEF lf
      <3>3. lf = h
        BY <2>3, <3>2
      <3> QED
        BY <3>3 DEF lf
    <2>5. EndsPacket(b, h)
      BY <2>4 DEF EndsPacket
    <2>6. ~GoesOn(b, h) /\ Stopped(b, h) = Whole(h)
      BY <2>4, <2>5 DEF GoesOn, IsHead, Stopped
    <2>7. f[h] = Whole(h)
      BY <2>3, <2>6 DEF ByLine, LineResult
    <2>8. h - 1 + Len(Packet(<<>>)) = h
      <3>1. Len(Packet(<<>>)) = 1 /\ h - 1 + 1 = h
        BY <2>2
      <3> QED
        BY <3>1
    <2> QED
      BY <2>7, <2>8 DEF Whole, Parsed
  <1>2. ASSUME NEW k \in Nat, P(k) PROVE P(k + 1)
    <2>1. SUFFICES ASSUME NEW p \in Seq(Seq(Bytes)), Len(p) = k + 1,
                          NEW h \in Nat \ {0}, PacketAt(b, h, p)
                   PROVE  f[h] = Parsed(p, h - 1 + Len(Packet(p)))
      OBVIOUS
    <2> DEFINE s == Head(p)
               t == Tail(p)
    <2>2. s \in Seq(Bytes) /\ t \in Seq(Seq(Bytes)) /\ Len(t) = k /\ p = <<s>> \o t
      <3>1. p # <<>>
        BY <2>1
      <3> QED
        BY <2>1, <3>1, HeadTail
    <2> HIDE DEF s, t
    <2> DEFINE x == Record(s)
               y == Packet(t)
               n == h + Len(x)
    <2>3. Packet(p) = x \o y
      BY <2>2, PacketCons
    <2>4. /\ x \in Seq(Bytes) /\ Len(x) \in Nat \ {0}
          /\ y \in Seq(Bytes) /\ Len(y) \in Nat \ {0}
      BY <2>2, RecordType, PacketType
    <2>5. Len(Packet(p)) = Len(x) + Len(y)
      BY <2>3, <2>4
    <2>6. Holds(b, h, x) /\ Holds(b, n, y)
      <3> HIDE DEF x, y
      <3>1. Holds(b, h, x \o y)
        BY <2>1, <2>3 DEF PacketAt
      <3> QED
        BY <2>4, <3>1, HoldsParts
    <2>7. Len(b) \in Nat /\ MAX_PACKET_SIZE \in Nat
      BY FramingAssumption
    <2>8. /\ h - 1 + Len(x) <= Len(b) /\ h - 1 + Len(x) <= MAX_PACKET_SIZE
          /\ n - 1 + Len(y) <= Len(b) /\ n - 1 + Len(y) - 1 <= MAX_PACKET_SIZE
          /\ n \in Nat \ {0} /\ n \in 1..Len(b) + 1
          /\ n - 1 + Len(y) = h - 1 + Len(Packet(p))
      <3>1. /\ h - 1 + Len(Packet(p)) <= Len(b)
            /\ h - 1 + Len(Packet(p)) - 1 <= MAX_PACKET_SIZE
        BY <2>1 DEF PacketAt
      <3> HIDE DEF x, y
      <3> QED
        BY <2>4, <2>5, <2>7, <3>1
    <2>9. GoesOn(b, h) /\ NextLine(b, h) = n /\ Body(b, h) = s /\ h \in 1..Len(b)
      BY <2>2, <2>6, <2>8, RecordAt
    <2>10. PacketAt(b, n, t)
      BY <2>6, <2>8 DEF PacketAt
    <2> HIDE DEF n
    <2>11. f[n] = Parsed(t, n - 1 + Len(y))
      BY <1>2, <2>2, <2>8, <2>10
    <2>12. f[h] = Before(s, f[n])
      <3>1. h \in 1..Len(b) + 1
        BY <2>7, <2>9
      <3> QED
        BY <2>9, <3>1 DEF ByLine, LineResult
    <2> HIDE DEF y
    <2>13. Before(s, Parsed(t, n - 1 + Len(y))) = Parsed(<<s>> \o t, n - 1 + Len(y))
      BY DEF Before, Parsed
    <2> QED
      BY <2>2, <2>8, <2>11, <2>12, <2>13
  <1>3. Nat \subseteq S
    <2> HIDE DEF P
    <2>1. 0 \in S /\ \A k \in Nat : k \in S => k + 1 \in S
      BY <1>1, <1>2
    <2> HIDE DEF S
    <2> QED
      BY <2>1, StepInduction
  <1>4. ASSUME NEW p \in Seq(Seq(Bytes)), NEW h \in Nat \ {0}, PacketAt(b, h, p)
        PROVE  f[h] = Parsed(p, h - 1 + Len(Packet(p)))
    <2>1. Len(p) \in Nat
      OBVIOUS
    <2>2. P(Len(p))
      BY <1>3, <2>1
    <2> QED
      BY <1>4, <2>2
  <1> QED
    BY <1>4

(* A packet that can be sent: it has a string, and is not too long.         *)
Sendable(p) == p \in Seq(Seq(Bytes)) \ {<<>>} /\ Len(Packet(p)) - 1 <= MAX_PACKET_SIZE

LEMMA PacketParsed ==
    ASSUME NEW p, Sendable(p), NEW c \in Seq(Bytes)
    PROVE  Parse(Packet(p) \o c) = Parsed(p, Len(Packet(p)))
  <1> DEFINE y == Packet(p)
             b == y \o c
             f == ParseOf(b)
  <1>1. p \in Seq(Seq(Bytes)) /\ p # <<>> /\ Len(y) - 1 <= MAX_PACKET_SIZE
    BY DEF Sendable
  <1>2. y \in Seq(Bytes) /\ Len(y) \in Nat
    BY <1>1, PacketType
  <1>3. /\ b \in Seq(Bytes) /\ Len(b) = Len(y) + Len(c) /\ Len(c) \in Nat
        /\ \A i \in 1..Len(y) : b[i] = y[i]
    <2> HIDE DEF y
    <2> QED
      BY <1>2
  <1>4. ByLine(f, b) /\ Parse(b) = f[SkipBlank(b, 1)]
    BY <1>3, ParseIs
  <1> HIDE DEF b, f
  <1>5. PacketAt(b, 1, p)
    <2>1. Holds(b, 1, y)
      <3>1. ASSUME NEW i \in 1..Len(y) PROVE b[1 - 1 + i] = y[i]
        <4>1. 1 - 1 + i = i
          OBVIOUS
        <4> QED
          BY <1>3, <4>1
      <3> QED
        BY <3>1 DEF Holds
    <2>2. MAX_PACKET_SIZE \in Nat
      BY FramingAssumption
    <2>3. 1 - 1 + Len(y) <= Len(b) /\ 1 - 1 + Len(y) - 1 <= MAX_PACKET_SIZE
      <3> HIDE DEF y
      <3> QED
        BY <1>1, <1>2, <1>3, <2>2
    <2> QED
      BY <2>1, <2>3 DEF PacketAt
  <1>6. f[1] = Parsed(p, 1 - 1 + Len(y))
    BY <1>1, <1>3, <1>4, <1>5, RecordsParsed
  <1>7. SkipBlank(b, 1) = 1
    <2> DEFINE s == Head(p)
               t == Tail(p)
               x == Record(s)
               z == Packet(t)
    <2>1. s \in Seq(Bytes) /\ t \in Seq(Seq(Bytes)) /\ p = <<s>> \o t
      BY <1>1, HeadTail
    <2> HIDE DEF s, t
    <2>2. x \in Seq(Bytes) /\ z \in Seq(Bytes) /\ y = x \o z /\ Len(z) \in Nat \ {0} /\ Len(x) \in Nat
      BY <2>1, RecordType, PacketType, PacketCons
    <2>3. Holds(b, 1, x)
      <3>1. Holds(b, 1, x \o z)
        BY <1>5, <2>2 DEF PacketAt
      <3> HIDE DEF x, z
      <3> QED
        BY <2>2, <3>1, HoldsParts
    <2>4. 1 - 1 + Len(x) <= Len(b) /\ 1 - 1 + Len(x) <= MAX_PACKET_SIZE
      <3>1. MAX_PACKET_SIZE \in Nat
        BY FramingAssumption
      <3>2. Len(y) = Len(x) + Len(z)
        <4> HIDE DEF x, z, y
        <4> QED
          BY <2>2
      <3> HIDE DEF x, z, y
      <3> QED
        BY <1>1, <1>2, <1>3, <2>2, <3>1, <3>2
    <2>5. 1 \in 1..Len(b) /\ b[1] \in Digits
      BY <1>3, <2>1, <2>3, <2>4, RecordAt
    <2>6. b[1] \notin {LF, CR}
      BY <2>5 DEF Digits, LF, CR
    <2>7. \A i \in 1..1 - 1 : b[i] \in {LF, CR}
      OBVIOUS
    <2> QED
      BY <1>3, <2>5, <2>6, <2>7, SkipBlankUnique
  <1>8. 1 - 1 + Len(y) = Len(y)
    BY <1>2
  <1> QED
    BY <1>4, <1>6, <1>7, <1>8 DEF b

-----------------------------------------------------------------------------
(* What is parsed can be sent: its own packet is no longer than the bytes   *)
(* it was parsed from.                                                      *)
LEMMA RecordShort ==
    ASSUME NEW b \in Seq(Bytes), NEW h \in 1..Len(b) + 1, GoesOn(b, h)
    PROVE  h + Len(Record(Body(b, h))) <= NextLine(b, h)
  <1> DEFINE lf == NextLF(b, h)
             e == BodyEnd(b, h)
             n == NextLine(b, h)
             s == Body(b, h)
             l == Atoi(b, h, lf)
             d == Len(Decimal(Len(s)))
  <1>1. /\ lf \in h + 1..Len(b) /\ h \in 1..Len(b)
        /\ e \in lf + 1..Len(b) /\ n \in {e + 1, e + 2}
        /\ s \in Seq(Bytes) /\ Len(s) = l
    BY GoesOnIs
  <1>2. e = lf + 1 + l
    BY DEF BodyEnd
  <1>3. b[h] \in Digits /\ b[lf] = LF /\ LF \notin Digits
    <2>1. IsHead(b, h)
      BY DEF GoesOn
    <2> QED
      BY <2>1, HeadIs DEF IsHead
  <1>4. Len(Record(s)) = d + Len(s) + 2 /\ Len(s) \in Nat /\ d \in Nat
    BY <1>1, RecordType
  <1>5. d <= lf - h
    <2> HIDE DEF lf, s
    <2>1. h \in Nat \ {0} /\ lf \in Nat /\ h <= lf
      BY <1>1
    <2>2. Len(Decimal(Atoi(b, h, lf))) <= lf - h
      BY <1>3, <2>1, AtoiShort
    <2> QED
      BY <1>1, <2>2
  <1> HIDE DEF lf, e, n, s, l, d
  <1>6. h + Len(Record(s)) <= n
    BY <1>1, <1>2, <1>4, <1>5
  <1> QED
    BY <1>6 DEF s, n

FitsFrom(h, r) ==
    r.status = "packet" =>
       /\ r.packet \in Seq(Seq(Bytes))
       /\ r.packet # <<>> => h - 1 + Len(Packet(r.packet)) - 1 <= MAX_PACKET_SIZE

LEMMA ResultsFit ==
    ASSUME NEW b \in Seq(Bytes), NEW f, ByLine(f, b)
    PROVE  \A h \in 1..Len(b) + 1 : FitsFrom(h, f[h])
  <1> DEFINE L == Len(b) + 1
             S == {h \in 1..L : FitsFrom(h, f[h])}
  <1>0. L \in Nat /\ L = Len(b) + 1 /\ MAX_PACKET_SIZE \in Nat
    BY FramingAssumption
  <1> HIDE DEF L
  <1>1. ASSUME NEW h \in 1..L, \A j \in 1..L : h < j => j \in S PROVE FitsFrom(h, f[h])
    <2>1. h \in 1..Len(b) + 1 /\ f[h] = LineResult(b, h, f)
      BY <1>0 DEF ByLine
    <2>2. CASE GoesOn(b, h)
      <3> DEFINE n == NextLine(b, h)
                 s == Body(b, h)
                 r == f[n]
                 q == f[h]
      <3>1. n \in 1..L /\ h < n /\ s \in Seq(Bytes) /\ n - 1 <= MAX_PACKET_SIZE
        BY <1>0, <2>1, <2>2, GoesOnIs
      <3>2. h + Len(Record(s)) <= n
        BY <2>1, <2>2, RecordShort
      <3>3. q = Before(s, r)
        BY <2>1, <2>2 DEF LineResult
      <3>4. r \in Results /\ FitsFrom(n, r)
        <4> HIDE DEF n
        <4>1. n \in 1..Len(b) + 1
          BY <1>0, <3>1
        <4>2. ResultOf(b, n, f[n])
          BY <4>1, ResultsAre
        <4> QED
          BY <1>1, <3>1, <4>2 DEF ResultOf
      <3> HIDE DEF n, s, r, q
      <3>5. /\ q.status = r.status
            /\ r.status = "packet" => q.packet = <<s>> \o r.packet
        BY <3>1, <3>3, <3>4, BeforeType
      <3> DEFINE p == r.packet
                 x == Record(s)
                 y == Packet(p)
      <3>6. ASSUME r.status = "packet"
            PROVE  <<s>> \o p \in Seq(Seq(Bytes))
                   /\ h - 1 + Len(Packet(<<s>> \o p)) - 1 <= MAX_PACKET_SIZE
        <4>1. p \in Seq(Seq(Bytes))
          BY <3>4, <3>6 DEF FitsFrom
        <4>2. p # <<>> => n - 1 + Len(y) - 1 <= MAX_PACKET_SIZE
          BY <3>4, <3>6 DEF FitsFrom
        <4> HIDE DEF p
        <4>3. Packet(<<s>> \o p) = x \o y /\ <<s>> \o p \in Seq(Seq(Bytes))
          <5>1. Packet(<<s>> \o p) = Record(s) \o Packet(p)
            BY <3>1, <4>1, PacketCons
          <5>2. <<s>> \o p \in Seq(Seq(Bytes))
            BY <3>1, <4>1, Prepended
          <5> QED
            BY <5>1, <5>2
        <4>4. x \in Seq(Bytes) /\ Len(x) \in Nat /\ y \in Seq(Bytes) /\ Len(y) \in Nat
          BY <3>1, <4>1, RecordType, PacketType
        <4>5. p = <<>> => Len(y) = 1
          BY PacketEmpty
        <4>6. h + Len(x) <= n
          BY <3>2
        <4> HIDE DEF x, y
        <4>7. Len(x \o y) = Len(x) + Len(y)
          BY <4>4
        <4>8. n - 1 + Len(y) - 1 <= MAX_PACKET_SIZE
          <5>1. CASE p = <<>>
            <6>1. Len(y) = 1
              BY <4>5, <5>1
            <6>2. n \in Nat /\ n - 1 + 1 - 1 = n - 1 /\ n - 1 <= MAX_PACKET_SIZE
              BY <1>0, <3>1
            <6> QED
              BY <6>1, <6>2
          <5>2. CASE p # <<>>
            BY <4>2, <5>2
          <5> QED
            BY <5>1, <5>2
        <4>9. h - 1 + (Len(x) + Len(y)) - 1 <= MAX_PACKET_SIZE
          BY <1>0, <3>1, <4>4, <4>6, <4>8
        <4> QED
          BY <4>3, <4>7, <4>9
      <3> QED
        BY <3>5, <3>6 DEF FitsFrom, q
    <2>3. CASE ~GoesOn(b, h)
      <3>1. f[h] = Stopped(b, h)
        BY <2>1, <2>3 DEF LineResult
      <3>2. f[h].packet = <<>>
        BY <2>1, <2>3, <3>1, StoppedIs
      <3> QED
        BY <3>2 DEF FitsFrom
    <2> QED
      BY <2>2, <2>3
  <1>2. 1..L \subseteq S
    <2>1. \A h \in 1..L : (\A j \in 1..L : h < j => j \in S) => h \in S
      BY <1>1
    <2> HIDE DEF S
    <2> QED
      BY <1>0, <2>1, DownInduction
  <1> QED
    BY <1>0, <1>2

LEMMA ParsedIsSendable ==
    ASSUME NEW b \in Seq(Bytes), Parse(b).status = "packet"
    PROVE  Sendable(Parse(b).packet)
  <1> DEFINE f == ParseOf(b)
             s == SkipBlank(b, 1)
             p == Parse(b).packet
  <1>1. ByLine(f, b) /\ Parse(b) = f[s]
    BY ParseIs
  <1>2. s \in 1..Len(b) + 1
    BY SkipBlankIs
  <1> HIDE DEF f, s
  <1>3. FitsFrom(s, f[s])
    BY <1>1, <1>2, ResultsFit
  <1>4. p \in Seq(Seq(Bytes)) /\ p # <<>>
    BY <1>1, <1>3, ParseType DEF FitsFrom
  <1>5. s - 1 + Len(Packet(p)) - 1 <= MAX_PACKET_SIZE
    BY <1>1, <1>3, <1>4 DEF FitsFrom
  <1> HIDE DEF p
  <1>6. Len(Packet(p)) \in Nat /\ MAX_PACKET_SIZE \in Nat
    BY <1>4, PacketType, FramingAssumption
  <1>7. Len(Packet(p)) - 1 <= MAX_PACKET_SIZE
    BY <1>2, <1>5, <1>6
  <1>8. Sendable(p)
    BY <1>4, <1>7 DEF Sendable
  <1> QED
    BY <1>8 DEF p

-----------------------------------------------------------------------------
(* What was sent is decoded: the sender's packets, and nothing behind them. *)
LEMMA SentIsDecoded ==
    ASSUME NEW ps \in Seq(Seq(Seq(Bytes)) \ {<<>>}), \A i \in 1..Len(ps) : Sendable(ps[i])
    PROVE  Decoded(Packets(ps)) = [status |-> "more", packets |-> ps]
  <1> DEFINE P(k) == \A qs \in Seq(Seq(Seq(Bytes))) :
                        (Len(qs) = k /\ \A i \in 1..Len(qs) : Sendable(qs[i]))
                        => Decoded(Packets(qs)) = [status |-> "more", packets |-> qs]
             S == {k \in Nat : P(k)}
  <1>1. P(0)
    <2>1. Parse(<<>>).status = "more"
      <3>1. <<>> \in Seq(Bytes)
        OBVIOUS
      <3> QED
        BY <3>1, ParseType
    <2>2. Decoded(<<>>) = [status |-> "more", packets |-> <<>>]
      <3>1. <<>> \in Seq(Bytes)
        OBVIOUS
      <3> QED
        BY <2>1, <3>1, DecodedIs
    <2> QED
      BY <2>2, PacketsEmpty
  <1>2. ASSUME NEW k \in Nat, P(k) PROVE P(k + 1)
    <2>1. SUFFICES ASSUME NEW qs \in Seq(Seq(Seq(Bytes))), Len(qs) = k + 1,
                          \A i \in 1..Len(qs) : Sendable(qs[i])
                   PROVE  Decoded(Packets(qs)) = [status |-> "more", packets |-> qs]
      OBVIOUS
    <2> DEFINE p == Head(qs)
               t == Tail(qs)
               y == Packet(p)
               z == Packets(t)
               b == y \o z
    <2>2. /\ p \in Seq(Seq(Bytes)) /\ t \in Seq(Seq(Seq(Bytes))) /\ Len(t) = k
          /\ qs = <<p>> \o t
      <3>1. qs # <<>>
        BY <2>1
      <3> QED
        BY <2>1, <3>1, HeadTail
    <2> HIDE DEF p, t
    <2>3. Sendable(p) /\ \A i \in 1..Len(t) : Sendable(t[i])
      <3>1. /\ Len(qs) = Len(t) + 1 /\ qs[1] = p /\ \A i \in 1..Len(t) : qs[i + 1] = t[i]
        BY <2>2, Prepended
      <3>2. 1 \in 1..Len(qs) /\ \A i \in 1..Len(t) : i + 1 \in 1..Len(qs)
        BY <2>1, <2>2
      <3> QED
        BY <2>1, <3>1, <3>2
    <2>4. y \in Seq(Bytes) /\ z \in Seq(Bytes) /\ Len(y) \in Nat \ {0}
      BY <2>2, PacketType, PacketsType
    <2>5. Packets(qs) = b
      BY <2>2, PacketsCons
    <2>6. Parse(b) = Parsed(p, Len(y))
      BY <2>3, <2>4, PacketParsed
    <2>7. Decoded(z) = [status |-> "more", packets |-> t]
      BY <1>2, <2>2, <2>3
    <2> HIDE DEF y, z
    <2>8. b \in Seq(Bytes) /\ SubSeq(b, Len(y) + 1, Len(b)) = z
      <3>1. b \in Seq(Bytes) /\ Len(b) = Len(y) + Len(z) /\ Len(z) \in Nat
            /\ \A i \in 1..Len(y) + Len(z) : b[i] = IF i <= Len(y) THEN y[i] ELSE z[i - Len(y)]
        BY <2>4, ConcatProperties
      <3> DEFINE m == Len(y) + 1
                 c == Suffix(b, m)
      <3>2. m \in 1..Len(b) + 1
        BY <2>4, <3>1
      <3> HIDE DEF b, m
      <3>3. c \in Seq(Bytes) /\ Len(c) = Len(b) - m + 1
            /\ \A i \in 1..Len(b) - m + 1 : c[i] = b[m - 1 + i]
        BY <3>1, <3>2, SuffixIs
      <3> HIDE DEF c
      <3>4. Len(c) = Len(z)
        BY <2>4, <3>1, <3>3 DEF m
      <3>5. ASSUME NEW i \in 1..Len(c) PROVE c[i] = z[i]
        <4> DEFINE j == m - 1 + i
        <4>1. /\ i \in 1..Len(b) - m + 1
              /\ j \in 1..Len(y) + Len(z) /\ ~(j <= Len(y)) /\ j - Len(y) = i
          BY <2>4, <3>1, <3>3, <3>4 DEF m
        <4>2. c[i] = b[j]
          BY <3>3, <4>1
        <4> HIDE DEF j
        <4> QED
          BY <3>1, <4>1, <4>2
      <3>6. c = z
        BY <2>4, <3>3, <3>4, <3>5, SeqEqual
      <3> QED
        BY <3>1, <3>6 DEF c, Suffix, m
    <2> HIDE DEF b
    <2>9. Decoded(b) = [status |-> "more", packets |-> <<p>> \o t]
      <3> DEFINE r == Parse(b)
                 d == Decoded(SubSeq(b, r.used + 1, Len(b)))
      <3>1. r.status = "packet" =>
               Decoded(b) = [status |-> d.status, packets |-> <<r.packet>> \o d.packets]
        BY <2>8, DecodedIs
      <3>2. r.status = "packet" /\ r.packet = p /\ r.used = Len(y)
        BY <2>6 DEF Parsed
      <3> HIDE DEF r
      <3>3. d = [status |-> "more", packets |-> t]
        BY <2>7, <2>8, <3>2
      <3> QED
        BY <3>1, <3>2, <3>3
    <2> QED
      BY <2>2, <2>5, <2>9
  <1>3. Nat \subseteq S
    <2> HIDE DEF P
    <2>1. 0 \in S /\ \A k \in Nat : k \in S => k + 1 \in S
      BY <1>1, <1>2
    <2> HIDE DEF S
    <2> QED
      BY <2>1, StepInduction
  <1>4. ps \in Seq(Seq(Seq(Bytes))) /\ Len(ps) \in Nat
    OBVIOUS
  <1>5. P(Len(ps))
    BY <1>3, <1>4
  <1> QED
    BY <1>4, <1>5

-----------------------------------------------------------------------------
(* Sequences cut in two.                                                    *)
LEMMA Cut ==
    ASSUME NEW T, NEW w \in Seq(T), NEW n \in 0..Len(w)
    PROVE  /\ SubSeq(w, 1, n) \in Seq(T) /\ SubSeq(w, n + 1, Len(w)) \in Seq(T)
           /\ Len(SubSeq(w, 1, n)) = n /\ Len(SubSeq(w, n + 1, Len(w))) = Len(w) - n
           /\ SubSeq(w, 1, n) \o SubSeq(w, n + 1, Len(w)) = w
  <1>1. Len(w) \in Nat /\ 1 \in 1..Len(w) + 1 /\ n \in 1 - 1..Len(w) /\ Len(w) \in n..Len(w)
    OBVIOUS
  <1>2. SubSeq(w, 1, n) \o SubSeq(w, n + 1, Len(w)) = SubSeq(w, 1, Len(w))
    BY <1>1, ConcatAdjacentSubSeq
  <1>3. SubSeq(w, 1, Len(w)) = w
    OBVIOUS
  <1>4. SubSeq(w, 1, n) \in Seq(T) /\ Len(SubSeq(w, 1, n)) = n
    <2>1. \A i \in 1..n : i \in 1..Len(w)
      BY <1>1
    <2> QED
      BY <1>1, <2>1, SubSeqProperties
  <1>5. /\ SubSeq(w, n + 1, Len(w)) \in Seq(T)
        /\ Len(SubSeq(w, n + 1, Len(w))) = Len(w) - n
    <2> DEFINE m == n + 1
    <2>1. m \in Nat /\ m <= Len(w) + 1 /\ \A i \in m..Len(w) : i \in 1..Len(w)
      BY <1>1
    <2>2. Len(w) - m + 1 = Len(w) - n
      BY <1>1
    <2> HIDE DEF m
    <2>3. SubSeq(w, m, Len(w)) \in Seq(T) /\ Len(SubSeq(w, m, Len(w))) = Len(w) - m + 1
      BY <1>1, <2>1, SubSeqProperties
    <2> QED
      BY <2>2, <2>3 DEF m
  <1> QED
    BY <1>2, <1>3, <1>4, <1>5

LEMMA MoveCut ==
    ASSUME NEW T, NEW v \in Seq(T), NEW w \in Seq(T), NEW n \in 0..Len(w)
    PROVE  (v \o SubSeq(w, 1, n)) \o SubSeq(w, n + 1, Len(w)) = v \o w
  <1> DEFINE x == SubSeq(w, 1, n)
             y == SubSeq(w, n + 1, Len(w))
  <1>1. x \in Seq(T) /\ y \in Seq(T) /\ x \o y = w
    BY Cut
  <1> HIDE DEF x, y
  <1>2. (v \o x) \o y = v \o (x \o y)
    <2>1. ASSUME NEW d \in Seq(T), NEW e \in Seq(T) PROVE (v \o d) \o e = v \o (d \o e)
      BY ConcatAssociative
    <2> QED
      BY <1>1, <2>1
  <1> QED
    BY <1>1, <1>2 DEF x, y

LEMMA DropCut ==
    ASSUME NEW T, NEW v \in Seq(T), NEW w \in Seq(T), NEW n \in 0..Len(v)
    PROVE  SubSeq(v \o w, n + 1, Len(v \o w)) = SubSeq(v, n + 1, Len(v)) \o w
  <1> DEFINE c == v \o w
             m == n + 1
             x == SubSeq(c, m, Len(c))
             y == SubSeq(v, m, Len(v))
             z == y \o w
  <1>1. /\ c \in Seq(T) /\ Len(c) = Len(v) + Len(w) /\ Len(v) \in Nat /\ Len(w) \in Nat
        /\ \A i \in 1..Len(v) + Len(w) : c[i] = IF i <= Len(v) THEN v[i] ELSE w[i - Len(v)]
    BY ConcatProperties
  <1> HIDE DEF c
  <1>2. m \in 1..Len(v) + 1 /\ m \in 1..Len(c) + 1
    BY <1>1
  <1> HIDE DEF m
  <1>3. x \in Seq(T) /\ Len(x) = Len(c) - m + 1 /\ \A i \in 1..Len(c) - m + 1 : x[i] = c[m + i - 1]
    <2>1. \A i \in m..Len(c) : i \in 1..Len(c)
      BY <1>2
    <2> QED
      BY <1>1, <1>2, <2>1, SubSeqProperties
  <1>4. y \in Seq(T) /\ Len(y) = Len(v) - m + 1 /\ \A i \in 1..Len(v) - m + 1 : y[i] = v[m + i - 1]
    <2>1. \A i \in m..Len(v) : i \in 1..Len(v)
      BY <1>2
    <2> QED
      BY <1>1, <1>2, <2>1, SubSeqProperties
  <1> HIDE DEF x, y
  <1>5. /\ z \in Seq(T) /\ Len(z) = Len(y) + Len(w)
        /\ \A i \in 1..Len(y) + Len(w) : z[i] = IF i <= Len(y) THEN y[i] ELSE w[i - Len(y)]
    BY <1>4, ConcatProperties
  <1> HIDE DEF z
  <1>6. Len(x) = Len(z)
    BY <1>1, <1>2, <1>3, <1>4, <1>5
  <1>7. ASSUME NEW i \in 1..Len(x) PROVE x[i] = z[i]
    <2> DEFINE j == m + i - 1
    <2>1. /\ i \in 1..Len(c) - m + 1 /\ i \in 1..Len(y) + Len(w)
          /\ j \in 1..Len(v) + Len(w)
          /\ i <= Len(y) <=> j <= Len(v)
          /\ i <= Len(y) => i \in 1..Len(v) - m + 1
          /\ j - Len(v) = i - Len(y)
      BY <1>1, <1>2, <1>3, <1>4, <1>5, <1>6
    <2>2. x[i] = c[j] /\ (i <= Len(y) => y[i] = v[j])
      BY <1>3, <1>4, <2>1
    <2> HIDE DEF j
    <2> QED
      BY <1>1, <1>5, <2>1, <2>2
  <1>8. x = z
    BY <1>3, <1>5, <1>6, <1>7, SeqEqual
  <1> QED
    BY <1>8 DEF x, y, z, c, m

LEMMA JoinExtends ==
    ASSUME NEW v \in Seq(Bytes), NEW w \in Seq(Bytes)
    PROVE  v \o w \in Seq(Bytes) /\ Extends(v \o w, v)
  <1>1. /\ v \o w \in Seq(Bytes) /\ Len(v \o w) = Len(v) + Len(w) /\ Len(v) \in Nat /\ Len(w) \in Nat
        /\ \A i \in 1..Len(v) + Len(w) : (v \o w)[i] = IF i <= Len(v) THEN v[i] ELSE w[i - Len(v)]
    BY ConcatProperties
  <1> DEFINE c == v \o w
  <1> HIDE DEF c
  <1>2. Len(v) <= Len(c) /\ \A i \in 1..Len(v) : c[i] = v[i]
    BY <1>1 DEF c
  <1> QED
    BY <1>1, <1>2 DEF c, Extends

-----------------------------------------------------------------------------
(* The types of Link.                                                       *)
Requests == Seq(Seq(Bytes)) \ {<<>>}
AllChunks == [need : Nat, bytes : Seq(Bytes)]

LinkTypes ==
    /\ sent \in Seq(Requests) /\ got \in Seq(Requests)
    /\ stream \in Seq(Bytes) /\ wire \in Seq(Bytes) /\ inbytes \in Seq(Bytes)
    /\ outbytes \in Seq(Bytes) /\ replied \in Seq(Bytes)
    /\ sending \in Seq(AllChunks)

LEMMA ChunksType ==
    ASSUME NEW p \in Seq(Seq(Bytes))
    PROVE  /\ Chunks(p) \in Seq(AllChunks) /\ Len(Chunks(p)) = Len(p) + 1
           /\ \A i \in 1..Len(p) : Chunks(p)[i].bytes = Record(p[i])
           /\ Chunks(p)[Len(p) + 1].bytes = <<LF>>
  <1> DEFINE c(i) == Chunk(LengthRoom + Len(p[i]) + 1, Record(p[i]))
             a == [i \in 1..Len(p) |-> c(i)]
             z == Chunk(1, <<LF>>)
  <1>1. ASSUME NEW i \in 1..Len(p) PROVE c(i) \in AllChunks /\ c(i).bytes = Record(p[i])
    <2>1. p[i] \in Seq(Bytes)
      OBVIOUS
    <2>2. Record(p[i]) \in Seq(Bytes) /\ Len(p[i]) \in Nat
      BY <2>1, RecordType
    <2>3. LengthRoom + Len(p[i]) + 1 \in Nat
      BY <2>2, BufferAssumption
    <2> QED
      BY <2>2, <2>3 DEF Chunk, AllChunks
  <1>2. z \in AllChunks /\ z.bytes = <<LF>>
    BY DEF z, Chunk, AllChunks, Bytes, LF
  <1>3. Chunks(p) = a \o <<z>>
    BY DEF Chunks
  <1> HIDE DEF c, z
  <1>4. a \in Seq(AllChunks) /\ Len(a) = Len(p) /\ Len(p) \in Nat /\ \A i \in 1..Len(p) : a[i] = c(i)
    BY <1>1
  <1> HIDE DEF a
  <1>5. <<z>> \in Seq(AllChunks) /\ Len(<<z>>) = 1 /\ <<z>>[1] = z
    BY <1>2
  <1> DEFINE s == a \o <<z>>
             m == Len(p) + 1
  <1>6. /\ s \in Seq(AllChunks) /\ Len(s) = Len(a) + 1
        /\ \A i \in 1..Len(a) + 1 : s[i] = IF i <= Len(a) THEN a[i] ELSE <<z>>[i - Len(a)]
    BY <1>4, <1>5, ConcatProperties
  <1> HIDE DEF s
  <1>7. m \in 1..Len(a) + 1 /\ ~(m <= Len(a)) /\ m - Len(a) = 1
    BY <1>4
  <1>8. s[m] = z
    BY <1>5, <1>6, <1>7
  <1>9. ASSUME NEW i \in 1..Len(p) PROVE s[i] = c(i)
    <2>1. i \in 1..Len(a) + 1 /\ i <= Len(a)
      BY <1>4
    <2>2. s[i] = a[i] /\ a[i] = c(i)
      BY <1>4, <1>6, <2>1
    <2> QED
      BY <2>2
  <1> QED
    BY <1>1, <1>2, <1>3, <1>4, <1>6, <1>8, <1>9 DEF s

LEMMA ParseGives ==
    ASSUME NEW b \in Seq(Bytes), Parse(b).status = "packet"
    PROVE  /\ Parse(b).packet \in Requests /\ Parse(b).used \in 1..Len(b)
           /\ Sendable(Parse(b).packet)
  BY ParseType, ParsedIsSendable DEF Results, Requests

LEMMA LinkInitTypes == Init => LinkTypes
  <1> SUFFICES ASSUME Init PROVE LinkTypes
    OBVIOUS
  <1>1. sent \in Seq(Requests) /\ stream \in Seq(Bytes)
    <2>1. CASE sent \in PacketLists /\ stream = Packets(sent)
      <3>1. sent \in Seq(Requests) /\ sent \in Seq(Seq(Seq(Bytes)))
        BY <2>1, StreamAssumption DEF Requests
      <3> QED
        BY <2>1, <3>1, PacketsType
    <2>2. CASE sent = <<>> /\ stream \in RawStreams
      BY <2>2, StreamAssumption
    <2> QED
      BY <2>1, <2>2 DEF Init
  <1> QED
    BY <1>1 DEF Init, LinkTypes

LEMMA LinkStepTypes == LinkTypes /\ [Next]_vars => LinkTypes'
  <1> SUFFICES ASSUME LinkTypes, [Next]_vars PROVE LinkTypes'
    OBVIOUS
  <1>0. /\ sent \in Seq(Requests) /\ got \in Seq(Requests)
        /\ stream \in Seq(Bytes) /\ wire \in Seq(Bytes) /\ inbytes \in Seq(Bytes)
        /\ outbytes \in Seq(Bytes) /\ replied \in Seq(Bytes)
        /\ sending \in Seq(AllChunks)
    BY DEF LinkTypes
  <1>1. CASE ReadBytes
    <2>1. PICK n \in 1..Len(wire) :
             /\ inbytes' = inbytes \o SubSeq(wire, 1, n)
             /\ wire' = SubSeq(wire, n + 1, Len(wire))
             /\ UNCHANGED <<sent, stream, got, sending, outbytes, replied>>
      BY <1>1 DEF ReadBytes
    <2>2. n \in 0..Len(wire)
      OBVIOUS
    <2>3. SubSeq(wire, 1, n) \in Seq(Bytes) /\ wire' \in Seq(Bytes)
      BY <1>0, <2>1, <2>2, Cut
    <2>4. inbytes' \in Seq(Bytes)
      BY <1>0, <2>1, <2>3, JoinExtends
    <2> QED
      BY <1>0, <2>1, <2>3, <2>4 DEF LinkTypes
  <1>2. CASE RecvRequest
    <2> DEFINE r == Parse(inbytes)
    <2>1. /\ r.status = "packet"
          /\ inbytes' = SubSeq(inbytes, r.used + 1, Len(inbytes))
          /\ got' = Append(got, r.packet) /\ sending' = Chunks(r.packet)
          /\ UNCHANGED <<sent, stream, wire, outbytes, replied>>
      BY <1>2 DEF RecvRequest
    <2>2. r.packet \in Requests /\ r.used \in 0..Len(inbytes)
      BY <1>0, <2>1, ParseGives
    <2> HIDE DEF r
    <2>3. inbytes' \in Seq(Bytes)
      BY <1>0, <2>1, <2>2, Cut
    <2>4. got' \in Seq(Requests)
      BY <1>0, <2>1, <2>2
    <2>5. sending' \in Seq(AllChunks)
      BY <2>1, <2>2, ChunksType DEF Requests
    <2> QED
      BY <1>0, <2>1, <2>3, <2>4, <2>5 DEF LinkTypes
  <1>3. CASE SendChunk
    <2>1. /\ sending # <<>>
          /\ outbytes' = outbytes \o Head(sending).bytes /\ sending' = Tail(sending)
          /\ UNCHANGED <<sent, stream, wire, inbytes, got, replied>>
      BY <1>3 DEF SendChunk
    <2>2. Head(sending) \in AllChunks /\ Tail(sending) \in Seq(AllChunks)
      BY <1>0, <2>1, HeadTail
    <2>3. Head(sending).bytes \in Seq(Bytes)
      BY <2>2 DEF AllChunks
    <2>4. outbytes' \in Seq(Bytes)
      BY <1>0, <2>1, <2>3, JoinExtends
    <2> QED
      BY <1>0, <2>1, <2>2, <2>4 DEF LinkTypes
  <1>4. CASE WriteBytes
    <2>1. PICK n \in 0..Len(outbytes) :
             /\ replied' = replied \o SubSeq(outbytes, 1, n)
             /\ outbytes' = SubSeq(outbytes, n + 1, Len(outbytes))
             /\ UNCHANGED <<sent, stream, wire, inbytes, got, sending>>
      BY <1>4 DEF WriteBytes
    <2>2. SubSeq(outbytes, 1, n) \in Seq(Bytes) /\ outbytes' \in Seq(Bytes)
      BY <1>0, <2>1, Cut
    <2>3. replied' \in Seq(Bytes)
      BY <1>0, <2>1, <2>2, JoinExtends
    <2> QED
      BY <1>0, <2>1, <2>2, <2>3 DEF LinkTypes
  <1>5. CASE RecvPart \/ RecvMalformed \/ SendGrow \/ SendDone \/ UNCHANGED vars
    BY <1>0, <1>5 DEF RecvPart, RecvMalformed, SendGrow, SendDone, vars, byteVars, LinkTypes
  <1> QED
    BY <1>1, <1>2, <1>3, <1>4, <1>5 DEF Next

LEMMA LinkAlwaysTypes == Spec => []LinkTypes
  BY LinkInitTypes, LinkStepTypes, PTL DEF Spec

-----------------------------------------------------------------------------
(* Each step of Link is one of LinkBuffer.                                  *)
LEMMA LinkStepBuffers == LinkTypes /\ [Next]_vars => [BufNext]_bufVars
  <1> SUFFICES ASSUME LinkTypes, [Next]_vars PROVE [BufNext]_bufVars
    OBVIOUS
  <1>1. CASE ReadBytes
    <2>1. PICK n \in 1..Len(wire) : Read(n)
      BY <1>1 DEF ReadBytes
    <2>2. n \in Nat \ {0}
      OBVIOUS
    <2> QED
      BY <2>1, <2>2 DEF BufNext
  <1>2. CASE RecvRequest
    <2>1. Parse(inbytes).status = "packet" /\ RecvPacket(Parse(inbytes).used)
      BY <1>2 DEF RecvRequest
    <2>2. Parse(inbytes).used \in Nat \ {0}
      BY <2>1, ParseGives DEF LinkTypes
    <2> QED
      BY <2>1, <2>2 DEF BufNext
  <1>3. CASE RecvPart
    BY <1>3 DEF RecvPart, BufNext
  <1>4. CASE RecvMalformed
    BY <1>4 DEF RecvMalformed, BufNext
  <1>5. ASSUME sending # <<>>
        PROVE  Head(sending).need \in Nat /\ Len(Head(sending).bytes) \in Nat
    <2>1. Head(sending) \in AllChunks
      BY <1>5, HeadTail DEF LinkTypes
    <2>2. Head(sending).need \in Nat /\ Head(sending).bytes \in Seq(Bytes)
      BY <2>1 DEF AllChunks
    <2> QED
      BY <2>2
  <1>6. CASE SendGrow
    BY <1>5, <1>6 DEF SendGrow, BufNext
  <1>7. CASE SendChunk
    BY <1>5, <1>7 DEF SendChunk, BufNext
  <1>8. CASE SendDone
    BY <1>8 DEF SendDone, BufNext
  <1>9. CASE WriteBytes
    <2>1. PICK n \in 0..Len(outbytes) : WorkerWrite(n) \/ Result(n)
      BY <1>9 DEF WriteBytes
    <2>2. n \in Nat
      OBVIOUS
    <2> QED
      BY <2>1, <2>2 DEF BufNext
  <1>10. CASE UNCHANGED vars
    BY <1>10 DEF vars
  <1> QED
    BY <1>1, <1>2, <1>3, <1>4, <1>6, <1>7, <1>8, <1>9, <1>10 DEF Next

(* Link implements LinkBuffer: whatever the bytes, its buffers go through   *)
(* the steps of LinkBuffer and nothing else.                                *)
THEOREM LinkIsLinkBuffer == Spec => BufSpec
  <1>1. Init => BufInit
    BY DEF Init
  <1> QED
    BY <1>1, LinkAlwaysTypes, LinkStepBuffers, PTL DEF Spec, BufSpec

-----------------------------------------------------------------------------
(* What a link has done with its stream so far.  The first conjuncts are    *)
(* about the input, the last about the answers.                             *)
InputFilled == input.size = Len(inbytes)

NothingLeft == pc = "read" => Parse(inbytes).status = "more"

GotSendable == \A i \in 1..Len(got) : Sendable(got[i])

StreamOfSent == sent # <<>> => stream = Packets(sent)

(* The requests parsed, then those in the bytes behind them, are those of   *)
(* the stream.                                                              *)
GotAndRest(rest) ==
    Decoded(stream) = IF pc = "dropped" THEN [status |-> "bad", packets |-> got]
                      ELSE [status |-> rest.status, packets |-> got \o rest.packets]

WholeIs == GotAndRest(Decoded(inbytes \o wire))

(* The first k pieces of the answer to r.                                   *)
PartOf(r, k) == IF k <= Len(r) THEN RecordsOf(r)[k] ELSE Packet(r)

Answering(ps, r, k) ==
    /\ got = Append(ps, r)
    /\ sending = SubSeq(Chunks(r), k + 1, Len(Chunks(r)))
    /\ replied \o outbytes = Packets(ps) \o PartOf(r, k)

AnswersSoFar ==
    /\ pc = "send" => \E ps \in Seq(Requests), r \in Requests :
                         \E k \in 0..Len(r) + 1 : Answering(ps, r, k)
    /\ pc # "send" => replied \o outbytes = Packets(got)

LinkInv == InputFilled /\ NothingLeft /\ GotSendable /\ StreamOfSent /\ WholeIs /\ AnswersSoFar

LEMMA PartIs ==
    ASSUME NEW r \in Seq(Seq(Bytes))
    PROVE  /\ PartOf(r, 0) = <<>> /\ PartOf(r, Len(r) + 1) = Packet(r)
           /\ \A k \in 0..Len(r) :
                 /\ PartOf(r, k) \in Seq(Bytes) /\ Chunks(r)[k + 1].bytes \in Seq(Bytes)
                 /\ PartOf(r, k + 1) = PartOf(r, k) \o Chunks(r)[k + 1].bytes
  <1> DEFINE f == RecordsOf(r)
             a == RecordsIn(r)
             C == Chunks(r)
  <1>0. PICK n \in Nat : n = Len(r)
    OBVIOUS
  <1>1. Joined(f, a, n) /\ Packet(r) = f[n] \o <<LF>>
    BY <1>0, RecordsAre
  <1>2. /\ Len(C) = n + 1 /\ \A i \in 1..n : C[i].bytes = Record(r[i])
        /\ C[n + 1].bytes = <<LF>>
    BY <1>0, ChunksType
  <1>3. a \in [1..n -> Seq(Bytes)] /\ \A i \in 1..n : a[i] = Record(r[i])
    BY <1>0, PacketType DEF RecordsIn
  <1> HIDE DEF f, a, C
  <1>4. \A i \in 0..n : f[i] \in Seq(Bytes)
    BY <1>1, <1>3, JoinType
  <1>5. PartOf(r, 0) = <<>> /\ PartOf(r, n + 1) = Packet(r)
    BY <1>0, <1>1 DEF PartOf, Joined, f
  <1>6. ASSUME NEW k \in 0..n
        PROVE  /\ PartOf(r, k) \in Seq(Bytes) /\ C[k + 1].bytes \in Seq(Bytes)
               /\ PartOf(r, k + 1) = PartOf(r, k) \o C[k + 1].bytes
    <2> DEFINE m == k + 1
    <2>1. PartOf(r, k) = f[k] /\ f[k] \in Seq(Bytes)
      BY <1>0, <1>4 DEF PartOf, f
    <2>2. CASE k = n
      <3>1. <<LF>> \in Seq(Bytes)
        BY DEF LF, Bytes
      <3> QED
        BY <1>1, <1>2, <1>5, <2>1, <2>2, <3>1
    <2>3. CASE k # n
      <3>1. m \in 1..n /\ m - 1 = k /\ m <= Len(r)
        BY <1>0, <2>3
      <3> HIDE DEF m
      <3>2. f[m] = f[k] \o a[m] /\ a[m] = C[m].bytes /\ a[m] \in Seq(Bytes)
        BY <1>1, <1>2, <1>3, <3>1 DEF Joined
      <3>3. PartOf(r, m) = f[m]
        BY <3>1 DEF PartOf, f
      <3> QED
        BY <2>1, <3>2, <3>3 DEF m
    <2> QED
      BY <2>2, <2>3
  <1> QED
    BY <1>0, <1>5, <1>6 DEF C

LEMMA FromTo ==
    ASSUME NEW T, NEW C \in Seq(T)
    PROVE  /\ SubSeq(C, 1, Len(C)) = C
           /\ SubSeq(C, Len(C) + 1, Len(C)) = <<>>
           /\ \A m \in 1..Len(C) : /\ Head(SubSeq(C, m, Len(C))) = C[m]
                                   /\ Tail(SubSeq(C, m, Len(C))) = SubSeq(C, m + 1, Len(C))
                                   /\ SubSeq(C, m, Len(C)) # <<>>
  OBVIOUS

-----------------------------------------------------------------------------
LEMMA LinkInitInv == Init /\ LinkTypes /\ IInv => LinkInv
  <1> SUFFICES ASSUME Init, LinkTypes, IInv PROVE LinkInv
    OBVIOUS
  <1>1. /\ wire = stream /\ inbytes = <<>> /\ got = <<>>
        /\ sending = <<>> /\ outbytes = <<>> /\ replied = <<>>
        /\ input = NewBuffer /\ pc = "read" /\ stream \in Seq(Bytes)
    BY DEF Init, BufInit, LinkTypes
  <1>2. InputFilled /\ GotSendable
    BY <1>1 DEF InputFilled, GotSendable, NewBuffer
  <1>3. NothingLeft
    <2>1. <<>> \in Seq(Bytes)
      OBVIOUS
    <2> QED
      BY <1>1, <2>1, ParseType DEF NothingLeft
  <1>4. StreamOfSent
    BY DEF Init, StreamOfSent
  <1>5. WholeIs
    <2>1. inbytes \o wire = stream
      BY <1>1
    <2> DEFINE d == Decoded(stream)
    <2>2. d \in Decodings
      BY <1>1, DecodedType
    <2> HIDE DEF d
    <2>3. d.packets \in Seq(Requests) /\ d = [status |-> d.status, packets |-> d.packets]
      BY <2>2 DEF Decodings, Requests
    <2>4. got \o d.packets = d.packets
      BY <1>1, <2>3
    <2>5. GotAndRest(d)
      BY <1>1, <2>3, <2>4 DEF GotAndRest, d
    <2> QED
      BY <2>1, <2>5 DEF WholeIs, d
  <1>6. AnswersSoFar
    BY <1>1, PacketsEmpty DEF AnswersSoFar
  <1> QED
    BY <1>2, <1>3, <1>4, <1>5, <1>6 DEF LinkInv

(* What each action does to the input.                                      *)
LEMMA StepFilled ==
    ASSUME LinkTypes, IInv, InputFilled, [Next]_vars
    PROVE  InputFilled'
  <1>0. input.size = Len(inbytes) /\ input \in Buffers /\ Sound(input) /\ inbytes \in Seq(Bytes)
    BY DEF InputFilled, IInv, LinkTypes, Sound
  <1>1. CASE ReadBytes
    <2>1. PICK n \in 1..Len(wire) :
             Read(n) /\ inbytes' = inbytes \o SubSeq(wire, 1, n)
      BY <1>1 DEF ReadBytes
    <2>2. SubSeq(wire, 1, n) \in Seq(Bytes) /\ Len(SubSeq(wire, 1, n)) = n
      <3>1. n \in 0..Len(wire)
        OBVIOUS
      <3> QED
        BY <3>1, Cut DEF LinkTypes
    <2> DEFINE x == SubSeq(wire, 1, n)
    <2> HIDE DEF x
    <2>3. Len(inbytes \o x) = Len(inbytes) + Len(x)
      BY <1>0, <2>2 DEF x
    <2>4. ReadyToRead(input).size = input.size /\ Sound(ReadyToRead(input))
      <3> DEFINE g == IF input.total = INIT_BUFFER_SIZE THEN grow(input) ELSE input
      <3>1. Sound(g) /\ g.size = input.size
        BY <1>0, GrowMakesRoom
      <3>2. ReadyToRead(input) = nice(g)
        BY DEF ReadyToRead
      <3> HIDE DEF g
      <3> QED
        BY <3>1, <3>2, NiceKeepsRoom
    <2>5. input' = incr(ReadyToRead(input), n)
      BY <2>1 DEF Read
    <2>6. input'.size = input.size + n
      BY <2>4, <2>5 DEF incr, Sound, Buffers
    <2> QED
      BY <1>0, <2>1, <2>2, <2>3, <2>6 DEF InputFilled, x
  <1>2. CASE RecvRequest
    <2> DEFINE n == Parse(inbytes).used
    <2>1. /\ Parse(inbytes).status = "packet" /\ RecvPacket(n)
          /\ inbytes' = SubSeq(inbytes, n + 1, Len(inbytes))
      BY <1>2 DEF RecvRequest
    <2>2. n \in 0..Len(inbytes)
      BY <1>0, <2>1, ParseGives
    <2> HIDE DEF n
    <2>3. Len(inbytes') = Len(inbytes) - n
      BY <1>0, <2>1, <2>2, Cut
    <2>4. input'.size = input.size - n
      BY <2>1 DEF RecvPacket, decr
    <2> QED
      BY <1>0, <2>3, <2>4 DEF InputFilled
  <1>3. CASE RecvPart
    <2>1. input' = MadeRoom(input) /\ inbytes' = inbytes
      BY <1>3 DEF RecvPart, RecvNotReady, byteVars
    <2>2. MadeRoom(input).size = input.size
      <3>1. Sound(nice(input)) /\ nice(input).size = input.size
        BY <1>0, NiceKeepsRoom
      <3>2. grow(nice(input)).size = nice(input).size
        BY <3>1, GrowMakesRoom
      <3> QED
        BY <3>1, <3>2 DEF MadeRoom
    <2> QED
      BY <1>0, <2>1, <2>2 DEF InputFilled
  <1>4. CASE ~(ReadBytes \/ RecvRequest \/ RecvPart)
    <2>1. input' = input /\ inbytes' = inbytes
      BY <1>4 DEF Next, RecvMalformed, RecvBad, SendGrow, Grow, SendChunk, AppendRoom,
                  SendDone, Sent, WriteBytes, WorkerWrite, Result, vars, bufVars, byteVars
    <2> QED
      BY <1>0, <2>1 DEF InputFilled
  <1> QED
    BY <1>1, <1>2, <1>3, <1>4

LEMMA StepLeft ==
    ASSUME LinkTypes, InputFilled, NothingLeft, [Next]_vars
    PROVE  NothingLeft'
  <1>1. CASE RecvPart
    BY <1>1 DEF RecvPart, byteVars, NothingLeft
  <1>2. CASE WriteBytes
    <2>1. PICK n \in 0..Len(outbytes) : (WorkerWrite(n) \/ Result(n)) /\ inbytes' = inbytes
      BY <1>2 DEF WriteBytes
    <2>2. ASSUME pc' = "read" PROVE Parse(inbytes').status = "more"
      <3>1. input.size = 0
        BY <2>1, <2>2 DEF WorkerWrite, Result
      <3>2. inbytes = <<>> /\ inbytes \in Seq(Bytes)
        <4>1. inbytes \in Seq(Bytes) /\ Len(inbytes) = 0
          BY <3>1 DEF InputFilled, LinkTypes
        <4> QED
          BY <4>1, EmptySeq
      <3> QED
        BY <2>1, <3>2, ParseType
    <2> QED
      BY <2>2 DEF NothingLeft
  <1>3. CASE UNCHANGED vars
    BY <1>3 DEF vars, bufVars, byteVars, NothingLeft
  <1>4. CASE ReadBytes \/ RecvRequest \/ RecvMalformed \/ SendGrow \/ SendChunk \/ SendDone
    <2>1. pc' # "read"
      BY <1>4 DEF ReadBytes, Read, RecvRequest, RecvPacket, RecvMalformed, RecvBad,
                  SendGrow, Grow, SendChunk, AppendRoom, SendDone, Sent
    <2> QED
      BY <2>1 DEF NothingLeft
  <1> QED
    BY <1>1, <1>2, <1>3, <1>4 DEF Next

LEMMA StepGot ==
    ASSUME LinkTypes, GotSendable, [Next]_vars
    PROVE  GotSendable'
  <1>1. CASE RecvRequest
    <2> DEFINE p == Parse(inbytes).packet
    <2>1. Parse(inbytes).status = "packet" /\ got' = Append(got, p)
      BY <1>1 DEF RecvRequest
    <2>2. Sendable(p) /\ got \in Seq(Requests)
      BY <2>1, ParseGives DEF LinkTypes
    <2> HIDE DEF p
    <2>3. ASSUME NEW i \in 1..Len(got') PROVE Sendable(got'[i])
      <3>1. CASE i = Len(got) + 1
        BY <2>1, <2>2, <3>1
      <3>2. CASE i # Len(got) + 1
        <4>1. i \in 1..Len(got) /\ got'[i] = got[i]
          BY <2>1, <2>2, <3>2
        <4> QED
          BY <4>1 DEF GotSendable
      <3> QED
        BY <3>1, <3>2
    <2> QED
      BY <2>3 DEF GotSendable
  <1>2. CASE ~RecvRequest
    <2>1. got' = got
      BY <1>2 DEF Next, ReadBytes, RecvPart, RecvMalformed, SendGrow, SendChunk, SendDone,
                  WriteBytes, vars, byteVars
    <2> QED
      BY <2>1 DEF GotSendable
  <1> QED
    BY <1>1, <1>2

LEMMA StepSent ==
    ASSUME StreamOfSent, [Next]_vars
    PROVE  StreamOfSent'
  <1>1. sent' = sent /\ stream' = stream
    BY DEF Next, ReadBytes, RecvRequest, RecvPart, RecvMalformed, SendGrow, SendChunk,
           SendDone, WriteBytes, vars, byteVars
  <1> QED
    BY <1>1 DEF StreamOfSent

LEMMA StepWhole ==
    ASSUME LinkTypes, WholeIs, [Next]_vars
    PROVE  WholeIs'
  <1> DEFINE c == inbytes \o wire
  <1>0. /\ inbytes \in Seq(Bytes) /\ wire \in Seq(Bytes) /\ stream \in Seq(Bytes)
        /\ got \in Seq(Requests)
        /\ c \in Seq(Bytes) /\ Extends(c, inbytes)
    BY JoinExtends DEF LinkTypes
  <1>1. CASE ReadBytes
    <2>1. PICK n \in 1..Len(wire) :
             /\ Read(n) /\ inbytes' = inbytes \o SubSeq(wire, 1, n)
             /\ wire' = SubSeq(wire, n + 1, Len(wire))
             /\ stream' = stream /\ got' = got
      BY <1>1 DEF ReadBytes
    <2>2. n \in 0..Len(wire)
      OBVIOUS
    <2>3. inbytes' \o wire' = c
      BY <1>0, <2>1, <2>2, MoveCut
    <2>4. pc # "dropped" /\ pc' # "dropped"
      BY <2>1 DEF Read
    <2> HIDE DEF c
    <2> QED
      BY <2>1, <2>3, <2>4 DEF WholeIs, GotAndRest, c
  <1>2. CASE RecvRequest
    <2> DEFINE r == Parse(inbytes)
               e == inbytes' \o wire
               d == Decoded(e)
    <2>1. /\ r.status = "packet" /\ RecvPacket(r.used)
          /\ inbytes' = SubSeq(inbytes, r.used + 1, Len(inbytes))
          /\ got' = Append(got, r.packet)
          /\ stream' = stream /\ wire' = wire
      BY <1>2 DEF RecvRequest
    <2>2. r.packet \in Requests /\ r.used \in 0..Len(inbytes)
      BY <1>0, <2>1, ParseGives
    <2>3. Parse(c) = r
      BY <1>0, <2>1, ParseExtends
    <2>4. SubSeq(c, r.used + 1, Len(c)) = e
      BY <1>0, <2>1, <2>2, DropCut
    <2>5. inbytes' \in Seq(Bytes)
      BY <1>0, <2>1, <2>2, Cut
    <2>6. e \in Seq(Bytes) /\ d \in Decodings
      BY <1>0, <2>5, JoinExtends, DecodedType
    <2>7. Decoded(c) = [status |-> d.status, packets |-> <<r.packet>> \o d.packets]
      <3> DEFINE q == Parse(c)
                 k == Decoded(SubSeq(c, q.used + 1, Len(c)))
      <3>1. q.status = "packet" =>
               Decoded(c) = [status |-> k.status, packets |-> <<q.packet>> \o k.packets]
        BY <1>0, DecodedIs
      <3>2. q = r
        BY <2>3
      <3> HIDE DEF c, e, q, r
      <3>3. k = d
        BY <2>4, <3>2
      <3> HIDE DEF k, d
      <3> QED
        BY <2>1, <3>1, <3>2, <3>3
    <2>8. pc # "dropped" /\ pc' # "dropped"
      BY <2>1 DEF RecvPacket
    <2> HIDE DEF c, d, e, r
    <2>9. d.packets \in Seq(Requests)
      BY <2>6 DEF Decodings, Requests
    <2>10. got \o (<<r.packet>> \o d.packets) = got' \o d.packets
      <3> DEFINE x == <<r.packet>>
                 y == d.packets
      <3>1. x \in Seq(Requests) /\ y \in Seq(Requests)
        BY <2>2, <2>9
      <3>2. got \o x = Append(got, r.packet)
        BY <1>0, <2>2
      <3> HIDE DEF x, y
      <3>3. (got \o x) \o y = got \o (x \o y)
        <4>1. ASSUME NEW f \in Seq(Requests), NEW g \in Seq(Requests), NEW h \in Seq(Requests)
              PROVE  (f \o g) \o h = f \o (g \o h)
          BY ConcatAssociative
        <4>2. got \in Seq(Requests)
          BY <1>0
        <4> QED
          BY <3>1, <4>1, <4>2
      <3> QED
        BY <2>1, <3>2, <3>3 DEF x, y
    <2>11. Decoded(stream) = [status |-> d.status, packets |-> got' \o d.packets]
      <3> DEFINE rest == Decoded(c)
      <3>1. Decoded(stream) = [status |-> rest.status, packets |-> got \o rest.packets]
        BY <2>8 DEF WholeIs, GotAndRest, c
      <3>2. rest.status = d.status /\ rest.packets = <<r.packet>> \o d.packets
        BY <2>7
      <3> HIDE DEF rest
      <3> QED
        BY <2>10, <3>1, <3>2
    <2>12. inbytes' \o wire' = e
      BY <2>1 DEF e
    <2> QED
      BY <2>1, <2>8, <2>11, <2>12 DEF WholeIs, GotAndRest, d
  <1>3. CASE RecvMalformed
    <2>1. /\ Parse(inbytes).status = "bad" /\ pc = "recv" /\ pc' = "dropped"
          /\ stream' = stream /\ got' = got
      BY <1>3 DEF RecvMalformed, RecvBad, byteVars
    <2>2. Parse(c).status = "bad"
      BY <1>0, <2>1, ParseExtends
    <2>3. Decoded(c) = [status |-> "bad", packets |-> <<>>]
      BY <1>0, <2>2, DecodedIs
    <2> HIDE DEF c
    <2>4. got \o <<>> = got
      BY <1>0
    <2>5. Decoded(stream) = [status |-> "bad", packets |-> got]
      BY <2>1, <2>3, <2>4 DEF WholeIs, GotAndRest, c
    <2> QED
      BY <2>1, <2>5 DEF WholeIs, GotAndRest
  <1>4. CASE ~(ReadBytes \/ RecvRequest \/ RecvMalformed)
    <2>1. /\ inbytes' = inbytes /\ wire' = wire /\ stream' = stream /\ got' = got
          /\ pc' = "dropped" <=> pc = "dropped"
      BY <1>4 DEF Next, RecvPart, RecvNotReady, SendGrow, Grow, SendChunk, AppendRoom,
                  SendDone, Sent, WriteBytes, WorkerWrite, Result, vars, bufVars, byteVars
    <2> QED
      BY <2>1 DEF WholeIs, GotAndRest
  <1> QED
    BY <1>1, <1>2, <1>3, <1>4

LEMMA StepAnswers ==
    ASSUME LinkTypes, AnswersSoFar, [Next]_vars
    PROVE  AnswersSoFar'
  <1>0. /\ outbytes \in Seq(Bytes) /\ replied \in Seq(Bytes) /\ got \in Seq(Requests)
        /\ inbytes \in Seq(Bytes)
        /\ replied \o outbytes \in Seq(Bytes)
    BY JoinExtends DEF LinkTypes
  <1>1. ASSUME NEW r \in Requests PROVE r \in Seq(Seq(Bytes))
    BY DEF Requests
  <1>2. ASSUME NEW ps \in Seq(Requests) PROVE ps \in Seq(Seq(Seq(Bytes)))
    BY DEF Requests
  <1>3. CASE RecvRequest
    <2> DEFINE r == Parse(inbytes).packet
    <2>1. /\ Parse(inbytes).status = "packet" /\ RecvPacket(Parse(inbytes).used)
          /\ got' = Append(got, r) /\ sending' = Chunks(r)
          /\ outbytes' = outbytes /\ replied' = replied
      BY <1>3 DEF RecvRequest
    <2>2. r \in Requests
      BY <1>0, <2>1, ParseGives
    <2> HIDE DEF r
    <2>3. replied \o outbytes = Packets(got) /\ pc' = "send"
      BY <2>1 DEF RecvPacket, AnswersSoFar
    <2>4. Chunks(r) \in Seq(AllChunks)
      BY <1>1, <2>2, ChunksType
    <2>5. SubSeq(Chunks(r), 0 + 1, Len(Chunks(r))) = Chunks(r)
      BY <2>4, FromTo
    <2>6. PartOf(r, 0) = <<>>
      BY <1>1, <2>2, PartIs
    <2>7. Packets(got) \o <<>> = Packets(got)
      BY <1>0, <2>3
    <2>8. 0 \in 0..Len(r) + 1
      BY <1>1, <2>2
    <2> QED
      BY <1>0, <2>1, <2>2, <2>3, <2>5, <2>6, <2>7, <2>8 DEF AnswersSoFar, Answering
  <1>4. CASE SendChunk
    <2>1. /\ sending # <<>> /\ pc = "send" /\ pc' = "send"
          /\ outbytes' = outbytes \o Head(sending).bytes /\ sending' = Tail(sending)
          /\ got' = got /\ replied' = replied
      BY <1>4 DEF SendChunk, AppendRoom
    <2>2. PICK ps \in Seq(Requests), r \in Requests :
             \E k \in 0..Len(r) + 1 : Answering(ps, r, k)
      BY <2>1 DEF AnswersSoFar
    <2>3. PICK k \in 0..Len(r) + 1 : Answering(ps, r, k)
      BY <2>2
    <2> DEFINE C == Chunks(r)
               m == k + 1
               x == C[m].bytes
    <2>4. r \in Seq(Seq(Bytes)) /\ Len(r) \in Nat
      BY <1>1
    <2>5. C \in Seq(AllChunks) /\ Len(C) = Len(r) + 1
      BY <2>4, ChunksType
    <2>6. sending = SubSeq(C, m, Len(C)) /\ got = Append(ps, r)
          /\ replied \o outbytes = Packets(ps) \o PartOf(r, k)
      BY <2>3 DEF Answering
    <2>7. k # Len(r) + 1
      BY <2>1, <2>5, <2>6, FromTo
    <2>8. m \in 1..Len(C) /\ k \in 0..Len(r) /\ m \in 0..Len(r) + 1
      BY <2>4, <2>5, <2>7
    <2>9. PartOf(r, k) \in Seq(Bytes) /\ x \in Seq(Bytes) /\ PartOf(r, m) = PartOf(r, k) \o x
      BY <2>4, <2>8, PartIs
    <2> HIDE DEF C, m
    <2>10. Head(sending) = C[m] /\ Tail(sending) = SubSeq(C, m + 1, Len(C))
      BY <2>5, <2>6, <2>8, FromTo
    <2>11. replied' \o outbytes' = Packets(ps) \o PartOf(r, m)
      <3> HIDE DEF x
      <3> DEFINE u == Packets(ps)
                 v == PartOf(r, k)
      <3>1. u \in Seq(Bytes) /\ v \in Seq(Bytes)
        BY <1>2, <2>9, PacketsType
      <3> HIDE DEF u, v
      <3>2. (u \o v) \o x = u \o (v \o x)
        <4>1. ASSUME NEW a \in Seq(Bytes), NEW b \in Seq(Bytes), NEW c \in Seq(Bytes)
              PROVE  (a \o b) \o c = a \o (b \o c)
          BY ConcatAssociative
        <4> QED
          BY <2>9, <3>1, <4>1
      <3>3. (replied \o outbytes) \o x = replied \o (outbytes \o x)
        <4>1. ASSUME NEW a \in Seq(Bytes), NEW b \in Seq(Bytes), NEW c \in Seq(Bytes)
              PROVE  (a \o b) \o c = a \o (b \o c)
          BY ConcatAssociative
        <4> QED
          BY <1>0, <2>9, <4>1
      <3>4. outbytes' = outbytes \o x
        BY <2>1, <2>10 DEF x
      <3> QED
        BY <2>1, <2>6, <2>9, <3>2, <3>3, <3>4 DEF u, v
    <2> QED
      BY <2>1, <2>6, <2>8, <2>10, <2>11 DEF AnswersSoFar, Answering, C
  <1>5. CASE SendDone
    <2>1. /\ sending = <<>> /\ pc = "send" /\ pc' # "send"
          /\ outbytes' = outbytes /\ got' = got /\ replied' = replied
      BY <1>5 DEF SendDone, Sent, byteVars
    <2>2. PICK ps \in Seq(Requests), r \in Requests :
             \E k \in 0..Len(r) + 1 : Answering(ps, r, k)
      BY <2>1 DEF AnswersSoFar
    <2>3. PICK k \in 0..Len(r) + 1 : Answering(ps, r, k)
      BY <2>2
    <2> DEFINE C == Chunks(r)
               m == k + 1
    <2>4. r \in Seq(Seq(Bytes)) /\ Len(r) \in Nat /\ ps \in Seq(Seq(Seq(Bytes)))
      BY <1>1, <1>2
    <2>5. C \in Seq(AllChunks) /\ Len(C) = Len(r) + 1
      BY <2>4, ChunksType
    <2>6. sending = SubSeq(C, m, Len(C)) /\ got = Append(ps, r)
          /\ replied \o outbytes = Packets(ps) \o PartOf(r, k)
      BY <2>3 DEF Answering
    <2> HIDE DEF C
    <2>7. ~(m \in 1..Len(C))
      <3> HIDE DEF m
      <3> QED
        BY <2>1, <2>5, <2>6, FromTo
    <2>8. k = Len(r) + 1
      BY <2>4, <2>5, <2>7
    <2>9. PartOf(r, k) = Packet(r)
      BY <2>4, <2>8, PartIs
    <2>10. Packets(got) = Packets(ps) \o Packet(r)
      BY <2>4, <2>6, PacketsAppend
    <2> QED
      BY <2>1, <2>6, <2>9, <2>10 DEF AnswersSoFar
  <1>6. CASE WriteBytes
    <2>1. PICK n \in 0..Len(outbytes) :
             /\ WorkerWrite(n) \/ Result(n)
             /\ replied' = replied \o SubSeq(outbytes, 1, n)
             /\ outbytes' = SubSeq(outbytes, n + 1, Len(outbytes))
             /\ got' = got
      BY <1>6 DEF WriteBytes
    <2>2. replied' \o outbytes' = replied \o outbytes
      BY <1>0, <2>1, MoveCut
    <2>3. pc # "send" /\ pc' # "send"
      BY <2>1 DEF WorkerWrite, Result
    <2> QED
      BY <2>1, <2>2, <2>3 DEF AnswersSoFar
  <1>7. CASE ReadBytes \/ RecvPart \/ RecvMalformed \/ SendGrow \/ UNCHANGED vars
    <2>1. /\ outbytes' = outbytes /\ replied' = replied /\ got' = got /\ sending' = sending
          /\ pc' = "send" <=> pc = "send"
      BY <1>7 DEF ReadBytes, Read, RecvPart, RecvNotReady, RecvMalformed, RecvBad,
                  SendGrow, Grow, vars, bufVars, byteVars
    <2> QED
      BY <2>1 DEF AnswersSoFar, Answering
  <1> QED
    BY <1>3, <1>4, <1>5, <1>6, <1>7 DEF Next

LEMMA LinkStepInv == LinkTypes /\ IInv /\ LinkInv /\ [Next]_vars => LinkInv'
  BY StepFilled, StepLeft, StepGot, StepSent, StepWhole, StepAnswers DEF LinkInv

(* LinkInv is inductive, given the types and the invariant of the buffers.  *)
LEMMA LinkInvariant == Spec => [](LinkTypes /\ IInv /\ LinkInv)
  <1>1. Spec => []IInv
    BY LinkIsLinkBuffer, Invariant, PTL
  <1> QED
    BY <1>1, LinkAlwaysTypes, LinkInitInv, LinkStepInv, PTL DEF Spec

-----------------------------------------------------------------------------
(* For all streams, buffer sizes and ways to cut the stream: the requests   *)
(* parsed are those of the stream as a whole, a link is dropped only for a  *)
(* malformed stream and after its last good request, and a server that      *)
(* waits for input has parsed all that arrived.                             *)
THEOREM RequestsAreThoseOfTheStream == Spec => []CutsDoNotMatter
  <1>1. LinkTypes /\ LinkInv => CutsDoNotMatter
    <2> SUFFICES ASSUME LinkTypes, LinkInv PROVE CutsDoNotMatter
      OBVIOUS
    <2> DEFINE whole == Decoded(stream)
               rest == Decoded(inbytes \o wire)
    <2>1. whole = IF pc = "dropped" THEN [status |-> "bad", packets |-> got]
                  ELSE [status |-> rest.status, packets |-> got \o rest.packets]
      BY DEF LinkInv, WholeIs, GotAndRest
    <2>2. ASSUME pc = "read", wire = <<>>
          PROVE  whole = [status |-> "more", packets |-> got]
      <3>1. inbytes \in Seq(Bytes) /\ got \in Seq(Requests) /\ inbytes \o wire = inbytes
        BY <2>2 DEF LinkTypes
      <3>2. Parse(inbytes).status = "more"
        BY <2>2 DEF LinkInv, NothingLeft
      <3>3. rest = [status |-> "more", packets |-> <<>>]
        BY <3>1, <3>2, DecodedIs
      <3> HIDE DEF rest, whole
      <3> QED
        BY <2>1, <2>2, <3>1, <3>3
    <2> HIDE DEF rest, whole
    <2>3. /\ pc # "dropped" => whole.packets = got \o rest.packets /\ whole.status = rest.status
          /\ pc = "dropped" => whole = [status |-> "bad", packets |-> got]
      BY <2>1
    <2> QED
      BY <2>2, <2>3 DEF CutsDoNotMatter, whole, rest
  <1> QED
    BY <1>1, LinkInvariant, PTL

(* For all packets of strings of any bytes: what is sent with Link::send is *)
(* received with Link::recv, unless a packet exceeds MAX_PACKET_SIZE.       *)
THEOREM PacketsArrive == Spec => []SentIsReceived
  <1>1. LinkTypes /\ LinkInv /\ CutsDoNotMatter => SentIsReceived
    <2> SUFFICES ASSUME LinkTypes, LinkInv, CutsDoNotMatter,
                        sent # <<>>,
                        \A i \in DOMAIN sent : Len(Packet(sent[i])) - 1 <= MAX_PACKET_SIZE
                 PROVE  /\ pc # "dropped"
                        /\ got = SubSeq(sent, 1, Len(got))
                        /\ pc = "read" /\ wire = <<>> => got = sent
      BY DEF SentIsReceived
    <2>1. sent \in Seq(Requests) /\ got \in Seq(Requests)
          /\ inbytes \in Seq(Bytes) /\ wire \in Seq(Bytes)
      BY DEF LinkTypes
    <2>2. \A i \in 1..Len(sent) : Sendable(sent[i])
      <3>1. ASSUME NEW i \in 1..Len(sent) PROVE Sendable(sent[i])
        <4>1. sent[i] \in Requests /\ i \in DOMAIN sent
          BY <2>1
        <4> QED
          BY <4>1 DEF Sendable, Requests
      <3> QED
        BY <3>1
    <2>3. stream = Packets(sent)
      BY DEF LinkInv, StreamOfSent
    <2>4. Decoded(stream) = [status |-> "more", packets |-> sent]
      BY <2>1, <2>2, <2>3, SentIsDecoded DEF Requests
    <2> DEFINE whole == Decoded(stream)
               rest == Decoded(inbytes \o wire)
    <2>5. /\ pc # "dropped" => whole.packets = got \o rest.packets
          /\ pc = "dropped" => whole = [status |-> "bad", packets |-> got]
          /\ pc = "read" /\ wire = <<>> => whole = [status |-> "more", packets |-> got]
      BY DEF CutsDoNotMatter
    <2>6. rest \in Decodings
      BY <2>1, JoinExtends, DecodedType
    <2> HIDE DEF whole, rest
    <2>7. whole.status = "more" /\ whole.packets = sent
      BY <2>4 DEF whole
    <2>8. pc # "dropped"
      BY <2>5, <2>7
    <2>9. sent = got \o rest.packets /\ rest.packets \in Seq(Requests)
      BY <2>5, <2>6, <2>7, <2>8 DEF Decodings, Requests
    <2>10. got = SubSeq(sent, 1, Len(got))
      BY <2>1, <2>9
    <2> QED
      BY <2>5, <2>7, <2>8, <2>10
  <1>2. Spec => []CutsDoNotMatter
    BY RequestsAreThoseOfTheStream
  <1> QED
    BY <1>1, <1>2, LinkInvariant, PTL

(* Whatever part of the answers each write sends: the client finds whole    *)
(* answers, in order, in what it has received and what is to be written.    *)
THEOREM AnswersArrive == Spec => []AnswersAreWhole
  <1>1. LinkTypes /\ LinkInv => AnswersAreWhole
    <2> SUFFICES ASSUME LinkTypes, LinkInv, pc \in {"read", "recv", "write", "result"}
                 PROVE  Decoded(replied \o outbytes) = [status |-> "more", packets |-> got]
      BY DEF AnswersAreWhole
    <2>1. replied \o outbytes = Packets(got)
      BY DEF LinkInv, AnswersSoFar
    <2>2. got \in Seq(Seq(Seq(Bytes)) \ {<<>>}) /\ \A i \in 1..Len(got) : Sendable(got[i])
      BY DEF LinkTypes, LinkInv, GotSendable, Requests
    <2> QED
      BY <2>1, <2>2, SentIsDecoded
  <1> QED
    BY <1>1, LinkInvariant, PTL
=============================================================================
