-------------------------- MODULE NetDeviceProofs --------------------------
(***************************************************************************)
(* Proofs about NetDevice, for every frame size, window and number of      *)
(* calls.  What is under way on a connection is read as a run of its       *)
(* receiver: handling it one unit after the other takes the receiver from  *)
(* where it is to where the sender believes it will be.                    *)
(***************************************************************************)
EXTENDS NetDevice, FiniteSetTheorems, WellFoundedInduction, NaturalsInduction, TLAPS

USE DEF AllKinds, Addresses, AllOnes, Junk, Closed, BadDescriptor

\* The packet in the f-th frame, none in the first round of the ring, and the
\* n-th sample of a stream: those of the client count from 1, those of the board
\* are the beginnings of the packets.
Packet(f) == IF f <= RingSize THEN 0 ELSE f - RingSize
Received(n) == InPacket(Packet((n - 1) \div FrameSize + 1), ((n - 1) % FrameSize) + 1)
Nth(k, n) == Sample(IF k = "tx" THEN n ELSE Received(n))

\* How a frame begins.
Header(k) == IF k = "tx" THEN Cmd("tx") ELSE Cmd("frame")

(***************************************************************************)
(* A receiver p is where it is, an address or the samples still missing,   *)
(* the registers, and the samples received.  Unit u makes it q.            *)
(***************************************************************************)
At(p, loc, x) == <<loc, x, p[3], p[4]>>

Handles(k, p, u, q) ==
    \/ p[1] = "hs" /\ u = Cmd("handshake") /\ q = At(p, "option", 0)
    \/ p[1] = "option" /\ u = Cmd("path") /\ q = At(p, "cmd", 0)
    \/ p[1] = "cmd" /\ k = "mapped" /\ u = Cmd("write") /\ q = At(p, "waddr", 0)
    \/ p[1] = "cmd" /\ k = "mapped" /\ u = Cmd("read") /\ q = At(p, "raddr", 0)
    \/ p[1] = "waddr" /\ \E a \in Addresses : u = Word(a) /\ q = At(p, "wvalue", a)
    \/ p[1] = "raddr" /\ \E a \in Addresses : u = Word(a) /\ q = At(p, "reply", a)
    \/ /\ p[1] = "wvalue"
       /\ \E v \in Values : u = Word(v) /\ q = <<"cmd", 0, WriteLocal(p[3], p[2], v), p[4]>>
    \/ p[1] = "cmd" /\ k = "tx" /\ u = Cmd("tx") /\ q = At(p, "head", 0)
    \/ p[1] = "cmd" /\ k = "rx" /\ u = Cmd("rx") /\ q = At(p, "stop", 0)
    \/ p[1] = "head" /\ u = Header(k) /\ q = At(p, "size", 0)
    \/ p[1] = "size" /\ u = Word(FrameSize) /\ q = At(p, "data", FrameSize)
    \/ /\ p[1] = "data" /\ u = Nth(k, p[4] + 1)
       /\ q = <<IF p[2] = 1 THEN "head" ELSE "data", p[2] - 1, p[3], p[4] + 1>>

\* Handling the units of s takes the receiver from p to q, by way of f.
By(k, f, s) == \A i \in 1 .. Len(s) : Handles(k, f[i], s[i], f[i + 1])
Run(k, p, s, q) == \E f : f[1] = p /\ f[Len(s) + 1] = q /\ By(k, f, s)
-----------------------------------------------------------------------------
LEMMA Concat ==
  ASSUME NEW S, NEW a \in Seq(S), NEW b \in Seq(S)
  PROVE  /\ a \o b \in Seq(S) /\ Len(a) \in Nat /\ Len(b) \in Nat
         /\ Len(a \o b) = Len(a) + Len(b)
         /\ \A i \in 1 .. Len(a) : (a \o b)[i] = a[i]
         /\ \A i \in 1 .. Len(b) : (a \o b)[Len(a) + i] = b[i]
  OBVIOUS

LEMMA ConcatType ==
  ASSUME NEW S, NEW a \in Seq(S), NEW b \in Seq(S)
  PROVE  a \o b \in Seq(S)
  OBVIOUS

LEMMA FunctionSeq ==
  ASSUME NEW S, NEW n \in Nat, NEW F(_), \A i \in 1 .. n : F(i) \in S
  PROVE  [i \in 1 .. n |-> F(i)] \in Seq(S) /\ Len([i \in 1 .. n |-> F(i)]) = n
  OBVIOUS

LEMMA UnitType ==
  /\ \A c \in Tags : Cmd(c) \in Units
  /\ \A n \in Int : Word(n) \in Units /\ Sample(n) \in Units
  BY DEF Cmd, Word, Sample, Units, Tags

LEMMA RunEmpty ==
  ASSUME NEW k, NEW p, NEW q
  PROVE  Run(k, p, <<>>, q) <=> p = q
  <1>1. ASSUME Run(k, p, <<>>, q) PROVE p = q
    BY <1>1 DEF Run
  <1>2. ASSUME p = q PROVE Run(k, p, <<>>, q)
    <2> DEFINE f == [i \in {1} |-> p]
    <2>1. f[1] = p /\ f[Len(<<>>) + 1] = q /\ By(k, f, <<>>)
      BY <1>2 DEF By
    <2> QED
      BY <2>1 DEF Run
  <1> QED
    BY <1>1, <1>2

\* The receiver handles the first unit.
LEMMA RunHead ==
  ASSUME NEW k, NEW p, NEW q, NEW s \in Seq(Units), s # <<>>, Run(k, p, s, q)
  PROVE  \E r : Handles(k, p, Head(s), r) /\ Run(k, r, Tail(s), q)
  <1>1. PICK f : f[1] = p /\ f[Len(s) + 1] = q /\ By(k, f, s)
    BY DEF Run
  <1>2. Len(s) \in Nat /\ Len(s) > 0 /\ Head(s) = s[1]
    OBVIOUS
  <1>3. Handles(k, p, Head(s), f[2])
    BY <1>1, <1>2 DEF By
  <1> DEFINE t == Tail(s)
             g == [i \in 1 .. Len(s) |-> f[i + 1]]
  <1>4. Len(t) = Len(s) - 1 /\ \A i \in 1 .. Len(t) : t[i] = s[i + 1]
    BY <1>2
  <1>5. g[1] = f[2] /\ g[Len(t) + 1] = q
    BY <1>1, <1>2, <1>4
  <1>6. ASSUME NEW i \in 1 .. Len(t) PROVE Handles(k, g[i], t[i], g[i + 1])
    <2>1. i + 1 \in 1 .. Len(s) /\ g[i] = f[i + 1] /\ g[i + 1] = f[i + 2] /\ t[i] = s[i + 1]
      BY <1>2, <1>4
    <2>2. Handles(k, f[i + 1], s[i + 1], f[(i + 1) + 1])
      BY <1>1, <2>1 DEF By
    <2> QED
      BY <2>1, <2>2
  <1>7. Run(k, f[2], t, q)
    <2> HIDE DEF g, t
    <2> QED
      BY <1>5, <1>6 DEF Run, By
  <1> QED
    BY <1>3, <1>7

\* One more unit is sent.
LEMMA RunMore ==
  ASSUME NEW k, NEW p, NEW q, NEW s \in Seq(Units), Run(k, p, s, q),
         NEW u, NEW r, Handles(k, q, u, r)
  PROVE  Run(k, p, s \o <<u>>, r)
  <1>1. PICK f : f[1] = p /\ f[Len(s) + 1] = q /\ By(k, f, s)
    BY DEF Run
  <1> DEFINE t == s \o <<u>>
             g == [i \in 1 .. Len(s) + 2 |-> IF i = Len(s) + 2 THEN r ELSE f[i]]
  <1>2. /\ Len(s) \in Nat /\ Len(t) = Len(s) + 1 /\ t[Len(s) + 1] = u
        /\ \A i \in 1 .. Len(s) : t[i] = s[i]
    OBVIOUS
  <1>3. g[1] = p /\ g[Len(t) + 1] = r /\ g[Len(s) + 1] = q
    BY <1>1, <1>2
  <1>4. ASSUME NEW i \in 1 .. Len(t) PROVE Handles(k, g[i], t[i], g[i + 1])
    <2>1. CASE i = Len(s) + 1
      BY <1>2, <1>3, <2>1
    <2>2. CASE i # Len(s) + 1
      <3>1. i \in 1 .. Len(s) /\ g[i] = f[i] /\ g[i + 1] = f[i + 1] /\ t[i] = s[i]
        BY <1>2, <2>2
      <3> QED
        BY <1>1, <3>1 DEF By
    <2> QED
      BY <2>1, <2>2
  <1>5. Run(k, p, t, r)
    <2> HIDE DEF g, t
    <2> QED
      BY <1>3, <1>4 DEF Run, By
  <1> QED
    BY <1>5

\* What was not yet sent is dropped.
LEMMA RunCut ==
  ASSUME NEW k, NEW p, NEW q, NEW s \in Seq(Units), Run(k, p, s, q), NEW n \in 0 .. Len(s)
  PROVE  \E r : Run(k, p, SubSeq(s, 1, n), r)
  <1>1. PICK f : f[1] = p /\ By(k, f, s)
    BY DEF Run
  <1> DEFINE t == SubSeq(s, 1, n)
  <1>2. Len(s) \in Nat /\ Len(t) = n /\ \A i \in 1 .. n : t[i] = s[i] /\ i \in 1 .. Len(s)
    OBVIOUS
  <1>3. By(k, f, t)
    BY <1>1, <1>2 DEF By
  <1>4. Run(k, p, t, f[n + 1])
    <2> HIDE DEF t
    <2> QED
      BY <1>1, <1>2, <1>3 DEF Run
  <1> QED
    BY <1>4

\* The receiver in the middle of a frame, x samples before its end.
Within(x, g, n) == <<IF x = 0 THEN "head" ELSE "data", x, g, n>>

LEMMA DataStep ==
  ASSUME NEW k, NEW x \in Nat, x > 0, NEW g, NEW n \in Nat
  PROVE  /\ Handles(k, Within(x, g, n), Nth(k, n + 1), Within(x - 1, g, n + 1))
         /\ \A u, q : Handles(k, Within(x, g, n), u, q)
                         => u = Nth(k, n + 1) /\ q = Within(x - 1, g, n + 1)
  BY DEF Handles, Within, At

\* A whole frame is sent.
LEMMA RunFrame ==
  ASSUME NEW k, NEW p, NEW s \in Seq(Units), NEW g, NEW n \in Nat,
         Run(k, p, s, Within(0, g, n)),
         NEW w \in Seq(Units), Len(w) = FrameSize,
         \A i \in 1 .. FrameSize : w[i] = Nth(k, n + i)
  PROVE  Run(k, p, s \o (<<Header(k), Word(FrameSize)>> \o w), Within(0, g, n + FrameSize))
  <1>1. PICK f : f[1] = p /\ f[Len(s) + 1] = Within(0, g, n) /\ By(k, f, s)
    BY DEF Run
  <1>0. Len(s) \in Nat /\ FrameSize \in Nat /\ FrameSize > 0
    BY SizesAssumption
  <1>2. PICK m \in Nat : m = Len(s)
    BY <1>0
  <1> DEFINE v == <<Header(k), Word(FrameSize)>> \o w
             t == s \o v
             h == [i \in 1 .. m + FrameSize + 3 |->
                      IF i <= m + 1 THEN f[i]
                      ELSE IF i = m + 2 THEN <<"size", 0, g, n>>
                      ELSE Within(FrameSize - (i - (m + 3)), g, n + (i - (m + 3)))]
  <1>3. /\ Len(v) = FrameSize + 2 /\ v \in Seq(Units)
        /\ v[1] = Header(k) /\ v[2] = Word(FrameSize)
        /\ \A i \in 1 .. FrameSize : v[i + 2] = w[i]
    <2>1. Header(k) \in Units /\ Word(FrameSize) \in Units
      BY <1>0, UnitType DEF Header, Tags
    <2> QED
      BY <1>0, <2>1
  <1>4. /\ Len(t) = m + FrameSize + 2
        /\ \A i \in 1 .. m : t[i] = s[i]
        /\ \A i \in 1 .. FrameSize + 2 : t[m + i] = v[i]
    <2> HIDE DEF v
    <2>1. /\ Len(t) = Len(s) + Len(v)
          /\ \A i \in 1 .. Len(s) : t[i] = s[i]
          /\ \A i \in 1 .. Len(v) : t[Len(s) + i] = v[i]
      <3>1. v \in Seq(Units)
        BY <1>3
      <3> QED
        BY <3>1, Concat
    <2> HIDE DEF t
    <2>2. PICK l \in Nat : l = FrameSize + 2 /\ Len(v) = l
      BY <1>0, <1>3
    <2>3. /\ Len(t) = m + l
          /\ \A i \in 1 .. m : t[i] = s[i]
          /\ \A i \in 1 .. l : t[m + i] = v[i]
      BY <1>2, <2>1, <2>2
    <2>4. m + l = m + FrameSize + 2
      BY <1>0, <2>2
    <2> QED
      BY <2>2, <2>3, <2>4
  <1>5. \A i \in 1 .. m + 1 : h[i] = f[i]
    BY <1>0
  <1>6. h[m + 2] = <<"size", 0, g, n>>
    BY <1>0
  <1>7. ASSUME NEW j \in 0 .. FrameSize
        PROVE  h[(m + 3) + j] = Within(FrameSize - j, g, n + j)
    <2>1. (m + 3) + j \in 1 .. m + FrameSize + 3 /\ ((m + 3) + j) - (m + 3) = j
      BY <1>0
    <2>2. ~((m + 3) + j <= m + 1) /\ (m + 3) + j # m + 2
      BY <1>0
    <2> QED
      BY <2>1, <2>2
  <1> HIDE DEF t, h, v
  <1>8. h[1] = p /\ h[m + 1] = Within(0, g, n)
    <2>1. 1 \in 1 .. m + 1 /\ m + 1 \in 1 .. m + 1
      OBVIOUS
    <2> QED
      BY <1>1, <1>2, <1>5, <2>1
  <1>9. h[Len(t) + 1] = Within(0, g, n + FrameSize)
    <2>1. h[(m + 3) + FrameSize] = Within(FrameSize - FrameSize, g, n + FrameSize)
      BY <1>0, <1>7
    <2>2. Len(t) + 1 = (m + 3) + FrameSize /\ FrameSize - FrameSize = 0
      BY <1>0, <1>4
    <2> QED
      BY <2>1, <2>2
  <1>10. ASSUME NEW i \in 1 .. Len(t) PROVE Handles(k, h[i], t[i], h[i + 1])
    <2>0. i \in Nat /\ 1 <= i /\ i <= m + FrameSize + 2
      BY <1>0, <1>4
    <2>1. CASE i <= m
      <3>1. i \in 1 .. Len(s) /\ i \in 1 .. m + 1 /\ i + 1 \in 1 .. m + 1
        BY <1>2, <2>0, <2>1
      <3> QED
        BY <1>1, <1>2, <1>4, <1>5, <3>1 DEF By
    <2>2. CASE i = m + 1
      <3>1. t[i] = Header(k) /\ h[i] = Within(0, g, n) /\ h[i + 1] = <<"size", 0, g, n>>
        <4>1. 1 \in 1 .. FrameSize + 2 /\ (m + 1) + 1 = m + 2
          BY <1>0
        <4>2. t[m + 1] = v[1]
          BY <1>4, <4>1
        <4> QED
          BY <1>3, <1>6, <1>8, <2>2, <4>1, <4>2
      <3> QED
        BY <3>1 DEF Handles, Within, At
    <2>3. CASE i = m + 2
      <3>1. h[i + 1] = Within(FrameSize, g, n)
        <4>1. 0 \in 0 .. FrameSize /\ (m + 3) + 0 = i + 1 /\ FrameSize - 0 = FrameSize /\ n + 0 = n
          BY <1>0, <2>3
        <4>2. PICK j \in 0 .. FrameSize : j = 0
          BY <4>1
        <4>3. h[(m + 3) + j] = Within(FrameSize - j, g, n + j)
          BY <1>7
        <4>4. (m + 3) + j = i + 1 /\ FrameSize - j = FrameSize /\ n + j = n
          BY <4>1, <4>2
        <4> QED
          BY <4>3, <4>4
      <3>2. t[i] = Word(FrameSize) /\ h[i] = <<"size", 0, g, n>> /\ h[i + 1] = Within(FrameSize, g, n)
        <4>1. 2 \in 1 .. FrameSize + 2
          BY <1>0
        <4>2. t[m + 2] = v[2]
          BY <1>4, <4>1
        <4> QED
          BY <1>3, <1>6, <2>3, <3>1, <4>2
      <3> QED
        BY <1>0, <3>2 DEF Handles, Within, At
    <2>4. CASE i > m + 2
      <3>1. PICK j \in 0 .. FrameSize - 1 : i = (m + 3) + j
        <4>1. i - (m + 3) \in 0 .. FrameSize - 1
          BY <1>0, <2>0, <2>4
        <4> QED
          BY <2>0, <4>1
      <3>2. t[i] = Nth(k, (n + j) + 1)
        <4>1. i = m + (j + 3) /\ j + 3 \in 1 .. FrameSize + 2 /\ j + 1 \in 1 .. FrameSize
          BY <1>0, <3>1
        <4>2. t[m + (j + 3)] = v[j + 3] /\ v[(j + 1) + 2] = w[j + 1]
          BY <1>3, <1>4, <4>1
        <4>3. w[j + 1] = Nth(k, n + (j + 1)) /\ n + (j + 1) = (n + j) + 1 /\ j + 3 = (j + 1) + 2
          BY <4>1
        <4> QED
          BY <4>1, <4>2, <4>3
      <3>3. h[i] = Within(FrameSize - j, g, n + j)
        BY <1>0, <1>7, <3>1
      <3>4. h[i + 1] = Within((FrameSize - j) - 1, g, (n + j) + 1)
        <4>1. PICK l \in 0 .. FrameSize : l = j + 1
          BY <1>0
        <4>2. h[(m + 3) + l] = Within(FrameSize - l, g, n + l)
          BY <1>7
        <4>3. /\ (m + 3) + l = i + 1 /\ FrameSize - l = (FrameSize - j) - 1
              /\ n + l = (n + j) + 1
          BY <1>0, <3>1, <4>1
        <4> QED
          BY <4>2, <4>3
      <3>5. FrameSize - j \in Nat /\ FrameSize - j > 0 /\ n + j \in Nat
        BY <1>0, <3>1
      <3> QED
        BY <3>2, <3>3, <3>4, <3>5, DataStep
    <2> QED
      BY <1>0, <2>0, <2>1, <2>2, <2>3, <2>4
  <1>11. Run(k, p, t, Within(0, g, n + FrameSize))
    BY <1>8, <1>9, <1>10 DEF Run, By
  <1> QED
    BY <1>11 DEF t, v

\* A set of naturals has a least element.
LEMMA LeastNatural ==
  ASSUME NEW S \in SUBSET Nat, S # {}
  PROVE  \E n \in S : \A m \in S : n <= m
  <1> DEFINE R == {ss \in Nat \X Nat : ss[1] < ss[2]}
  <1>1. IsWellFoundedOn(R, Nat)
    BY NatLessThanWellFounded DEF OpToRel
  <1>2. \E n \in S : \A m \in S : ~(<<m, n>> \in R)
    <2> HIDE DEF R
    <2> QED
      BY <1>1, WFMin
  <1>3. PICK n \in S : \A m \in S : ~(<<m, n>> \in R)
    BY <1>2
  <1>4. \A m \in S : ~(m < n)
    BY <1>3
  <1> QED
    BY <1>4

\* A set that holds 0 and, with a number below the bound, the next, holds all.
LEMMA UpTo ==
  ASSUME NEW S, NEW n \in Nat, 0 \in S, \A i \in 0 .. n - 1 : i \in S => i + 1 \in S
  PROVE  \A i \in 0 .. n : i \in S
  <1> DEFINE T == {i \in 0 .. n : i \notin S}
  <1> SUFFICES ASSUME T # {} PROVE FALSE
    OBVIOUS
  <1>1. T \in SUBSET Nat
    OBVIOUS
  <1>2. PICK i \in T : \A j \in T : i <= j
    BY <1>1, LeastNatural
  <1>3. i \in 1 .. n /\ i - 1 \in 0 .. n - 1 /\ i - 1 \notin T
    BY <1>2
  <1>4. (i - 1) + 1 \in S
    BY <1>3
  <1> QED
    BY <1>3, <1>4

\* The receiver handles a piece of a frame.
LEMMA RunPiece ==
  ASSUME NEW k, NEW s \in Seq(Units), NEW x \in Nat, NEW g, NEW n \in Nat, NEW q,
         Run(k, Within(x, g, n), s, q), NEW j \in Nat, j <= x, j <= Len(s)
  PROVE  /\ \A i \in 1 .. j : s[i] = Nth(k, n + i)
         /\ Run(k, Within(x - j, g, n + j), SubSeq(s, j + 1, Len(s)), q)
  <1>1. PICK f : f[1] = Within(x, g, n) /\ f[Len(s) + 1] = q /\ By(k, f, s)
    BY DEF Run
  <1>0. Len(s) \in Nat
    OBVIOUS
  <1> DEFINE S == {i \in Nat : f[i + 1] = Within(x - i, g, n + i)}
  <1>2. 0 \in S
    BY <1>1
  <1>3. ASSUME NEW i \in 0 .. j - 1, i \in S
        PROVE  s[i + 1] = Nth(k, n + (i + 1)) /\ i + 1 \in S
    <2>1. Handles(k, f[i + 1], s[i + 1], f[(i + 1) + 1])
      <3>1. i + 1 \in 1 .. Len(s)
        BY <1>0
      <3> QED
        BY <1>1, <3>1 DEF By
    <2>2. x - i \in Nat /\ x - i > 0 /\ n + i \in Nat /\ f[i + 1] = Within(x - i, g, n + i)
      BY <1>3
    <2>3. s[i + 1] = Nth(k, (n + i) + 1) /\ f[(i + 1) + 1] = Within((x - i) - 1, g, (n + i) + 1)
      BY <2>1, <2>2, DataStep
    <2>4. (n + i) + 1 = n + (i + 1) /\ (x - i) - 1 = x - (i + 1) /\ i + 1 \in Nat
      OBVIOUS
    <2> QED
      BY <2>3, <2>4
  <1> HIDE DEF S
  <1>4. \A i \in 0 .. j : i \in S
    BY <1>2, <1>3, UpTo
  <1>5. \A i \in 1 .. j : s[i] = Nth(k, n + i)
    <2> TAKE i \in 1 .. j
    <2>1. i - 1 \in 0 .. j - 1 /\ i - 1 \in S
      BY <1>4
    <2>2. s[(i - 1) + 1] = Nth(k, n + ((i - 1) + 1))
      BY <1>3, <2>1
    <2> QED
      BY <2>2
  <1> DEFINE t == SubSeq(s, j + 1, Len(s))
             h == [i \in 1 .. Len(s) - j + 1 |-> f[i + j]]
  <1>6. Len(t) = Len(s) - j /\ \A i \in 1 .. Len(t) : t[i] = s[i + j]
    BY <1>0
  <1>7. h[1] = Within(x - j, g, n + j) /\ h[Len(t) + 1] = q
    <2>1. f[1 + j] = Within(x - j, g, n + j)
      BY <1>4 DEF S
    <2>2. h[1] = f[1 + j] /\ h[Len(s) - j + 1] = f[(Len(s) - j + 1) + j]
      BY <1>0
    <2>3. (Len(s) - j + 1) + j = Len(s) + 1
      BY <1>0
    <2> QED
      BY <1>1, <1>6, <2>1, <2>2, <2>3
  <1>8. ASSUME NEW i \in 1 .. Len(t) PROVE Handles(k, h[i], t[i], h[i + 1])
    <2>1. /\ i + j \in 1 .. Len(s) /\ t[i] = s[i + j]
          /\ h[i] = f[i + j] /\ h[i + 1] = f[(i + j) + 1]
      <3>1. i \in Nat /\ 1 <= i /\ i <= Len(s) - j
        BY <1>0, <1>6
      <3>2. i \in 1 .. Len(s) - j + 1 /\ i + 1 \in 1 .. Len(s) - j + 1
        BY <1>0, <3>1
      <3>3. h[i] = f[i + j] /\ h[i + 1] = f[(i + 1) + j]
        BY <3>2
      <3>4. (i + 1) + j = (i + j) + 1 /\ i + j \in 1 .. Len(s)
        BY <1>0, <3>1
      <3> QED
        BY <1>6, <3>3, <3>4
    <2> QED
      BY <1>1, <2>1 DEF By
  <1>9. Run(k, Within(x - j, g, n + j), t, q)
    <2> HIDE DEF h, t
    <2> QED
      BY <1>7, <1>8 DEF Run, By
  <1> QED
    BY <1>5, <1>9
-----------------------------------------------------------------------------
(***************************************************************************)
(* The inductive invariant of a server that was not interrupted.           *)
(***************************************************************************)
LineInv == line # "closed" /\ (cpc = "gone" <=> line # "up")

Stopped == spc \in {"close", "done", "killed"}

\* Where the two ends can be depends on the device.
KindInv ==
    /\ cpc \in {"waddr", "wvalue", "raddr", "value"} => kind = "mapped"
    /\ cpc = "write" => kind = "tx"
    /\ cpc \in {"head", "size", "data"} => kind = "rx"
    /\ spc \in {"waddr", "wvalue", "raddr", "reply"} => kind = "mapped"
    /\ spc \in {"whead", "wsize", "wdata", "wack"} => kind = "tx"
    /\ spc \in {"rsend", "rread"} => kind = "rx"
    /\ cpc \in {"write", "head", "size", "data"} => handshaked
    /\ kind = "mapped" \/ cpc \in {"new", "ack", "path", "fd"} => ~handshaked

\* The device is opened in lockstep, and registers are served to the end.
OpenInv ==
    /\ cpc = "new" => spc = "hs" /\ up = <<>> /\ down = <<>>
    /\ cpc = "ack" => \/ spc = "hs" /\ up = <<Cmd("handshake")>> /\ down = <<>>
                      \/ spc = "option" /\ up = <<>> /\ down = <<Cmd("ack")>>
    /\ cpc = "path" => spc = "option" /\ up = <<>> /\ down = <<>>
    /\ cpc = "fd" => \/ spc = "option" /\ up = <<Cmd("path")>> /\ down = <<>>
                     \/ spc \in {"add", "killed"} /\ up = <<>> /\ down = <<>>
                     \/ spc = "cmd" /\ up = <<>> /\ down = <<Cmd("fd")>>
    /\ cpc \notin {"new", "ack", "path", "fd", "gone"} =>
          spc \notin {"hs", "option", "add"} /\ (kind = "mapped" => ~Stopped)

\* A register read has one answer, given when nothing is under way.
CallInv ==
    /\ kind = "mapped" /\ cpc \in {"ready", "waddr", "wvalue", "raddr"} => down = <<>>
    /\ cpc = "value" =>
          \/ down = <<>>
          \/ down = <<Word(ReadLocal(shadow, call[1]))>> /\ up = <<>> /\ spc = "cmd"
    /\ cpc \in {"waddr", "wvalue"} => last = NoRead
    /\ cpc \in {"waddr", "wvalue"} => call[2] \in Values
    /\ last # NoRead => last[3] /\ last[2] = ReadLocal(shadow, last[1])

\* The size of a frame grows only when the connection is lost, and only once.
SizeInv == size \in 0 .. FrameSize + 1 /\ (size <= FrameSize \/ line = "dead")

Count == Len(stream) + Len(buf)

\* The server as a receiver, ...
ServerLoc ==
    CASE spc = "add" -> "cmd"
      [] spc \in {"whead", "wack"} -> "head"
      [] spc = "wsize" -> "size"
      [] spc = "wdata" -> IF size = 0 THEN "head" ELSE "data"
      [] spc \in {"rsend", "rread"} -> "stop"
      [] OTHER -> spc
ServerArg == IF spc \in {"wvalue", "reply"} THEN addr ELSE IF spc = "wdata" THEN size ELSE 0
Now == <<ServerLoc, ServerArg, regs, Count>>

\* ... and what the client believes it to become.
ExpectedLoc ==
    CASE cpc = "new" -> "hs"
      [] cpc \in {"ack", "path"} -> "option"
      [] cpc \in {"waddr", "wvalue", "raddr"} -> cpc
      [] cpc = "value" -> IF down = <<>> THEN "reply" ELSE "cmd"
      [] OTHER -> IF ~handshaked THEN "cmd" ELSE IF kind = "tx" THEN "head" ELSE "stop"
ExpectedArg == IF ExpectedLoc \in {"wvalue", "reply"} THEN call[1] ELSE 0
Expected == <<ExpectedLoc, ExpectedArg, shadow, Len(wrote)>>

\* While the client is there, what is under way makes the one into the other.
\* Afterwards, it can still be handled.
UpInv ==
    \E p, q :
        /\ Run(kind, p, up, q) /\ p[4] = Count
        /\ ~Stopped /\ (cpc # "gone" \/ up # <<>>) => p = Now
        /\ cpc # "gone" => q = Expected
        /\ kind = "tx" /\ line = "fin" => q[4] = Len(wrote)

\* The frames a receive stream has sent, and its client as a receiver.
FramesSent == IF spc = "rread" THEN packets + 1 ELSE packets
Reader == IF cpc = "size" THEN <<"size", 0, 0, Len(got)>>
          ELSE Within(IF cpc = "data" THEN remain ELSE 0, 0, Len(got))

DownInv ==
    /\ cpc = "data" => remain > 0
    /\ kind = "rx" /\ cpc \in {"new", "ack", "path", "fd"} => packets = 0 /\ got = <<>>
    /\ kind = "rx" /\ cpc \in {"ready", "head", "size", "data"} =>
          Run("rx", Reader, down, Within(0, 0, FramesSent * FrameSize))
    /\ \A i \in 1 .. Len(got) : Sample(got[i]) = Nth("rx", i)

\* A slot of the ring holds the packet that is sent when its turn comes.
RingInv ==
    \A b \in 0 .. RingSize - 1 :
        ring[b] = Packet(packets + 1 + (IF b >= cur THEN b - cur ELSE b - cur + RingSize))

\* The client's samples are numbered, and so is what the server has of them.
WroteInv ==
    /\ \A i \in 1 .. Len(wrote) : wrote[i] = i
    /\ kind = "tx" /\ cpc # "gone" =>
          Len(wrote) = FrameSize * (IF cpc = "write" THEN calls - 1 ELSE calls)
    /\ \A i \in SamplesIn(up) : up[i][2] <= Len(wrote)

Clean ==
    /\ Count <= Len(wrote)
    /\ \A i \in 1 .. Len(stream) : stream[i] = i
    /\ \A i \in 1 .. Len(buf) : buf[i] = Len(stream) + i

Spoilt ==
    /\ line = "dead" /\ up = <<>> /\ buf = <<>>
    /\ \E n \in 0 .. Len(wrote) :
          stream = SubSeq(wrote, 1, n) \o [k \in 1 .. BufferSize |-> Junk]

\* Frames fill a buffer exactly.
Filled == Len(buf) + (IF spc = "wdata" THEN size ELSE 0)
Fits(n) == n <= BufferSize /\ \E m \in Nat : n = m * FrameSize
FillInv == kind = "tx" /\ ~Stopped /\ (cpc # "gone" \/ up # <<>>) => Fits(Filled)

TxInv == WroteInv /\ (Clean \/ Spoilt) /\ FillInv

NetInv ==
    /\ TypeOK /\ LineInv /\ KindInv /\ OpenInv /\ CallInv /\ SizeInv /\ UpInv
    /\ DownInv /\ RingInv /\ TxInv

\* A step that is not the interrupt.
Step == [ClientStep \/ ClientCall \/ Kill \/ Sigpipe \/ ServerStep \/ Reset]_vars

LEMMA NotClosed == NetInv => line # "closed"
  BY DEF NetInv, LineInv

USE NotClosed
-----------------------------------------------------------------------------
LEMMA NetInit == Init => NetInv
  <1> SUFFICES ASSUME Init PROVE NetInv
    OBVIOUS
  <1> USE SizesAssumption, ModulusAssumption, NetBoundsAssumption DEF Init
  <1>1. TypeOK
    <2>1. ClientType
      BY DEF ClientType, NoCall, Limit
    <2>2. LinkType /\ ServerType
      BY DEF LinkType, ServerType
    <2>3. DeviceType
      BY DEF DeviceType
    <2> QED
      BY <2>1, <2>2, <2>3 DEF TypeOK
  <1>2. LineInv /\ KindInv /\ OpenInv /\ CallInv /\ SizeInv
    BY DEF LineInv, KindInv, OpenInv, CallInv, SizeInv
  <1>3. UpInv
    <2>1. Run(kind, Now, <<>>, Now) /\ Now[4] = Count
      BY RunEmpty DEF Now
    <2>2. Now = Expected
      BY DEF Now, Expected, ServerLoc, ServerArg, ExpectedLoc, ExpectedArg, Count
    <2> QED
      BY <2>1, <2>2 DEF UpInv
  <1>4. DownInv
    BY DEF DownInv
  <1>5. RingInv
    BY DEF RingInv, Packet
  <1>6. TxInv
    <2>1. WroteInv
      BY DEF WroteInv, SamplesIn
    <2>2. Clean
      BY DEF Clean, Count
    <2>3. FillInv
      <3>1. Filled = 0 /\ 0 = 0 * FrameSize
        BY DEF Filled
      <3> QED
        BY <3>1 DEF FillInv, Fits
    <2> QED
      BY <2>1, <2>2, <2>3 DEF TxInv
  <1> QED
    BY <1>1, <1>2, <1>3, <1>4, <1>5, <1>6 DEF NetInv

\* A call on a connection that was not interrupted is not cut short.
LEMMA NotCut == ASSUME NetInv PROVE ~CallUnanswered /\ ~ReadForever
  <1>1. SUFFICES ASSUME down = <<>>, Ended, cpc \in {"value", "data"} PROVE FALSE
    BY DEF CallUnanswered, ReadForever, ClientEof
  <1>2. KindInv /\ OpenInv /\ DownInv /\ remain \in Int
    BY SizesAssumption DEF NetInv, TypeOK, ClientType
  <1>3. CASE cpc = "value"
    BY <1>1, <1>2, <1>3 DEF KindInv, OpenInv, Ended, Stopped
  <1>4. CASE cpc = "data"
    <2>1. Reader = Within(0, 0, FramesSent * FrameSize) /\ remain > 0
      BY <1>1, <1>2, <1>4, RunEmpty DEF KindInv, DownInv
    <2> QED
      BY <1>2, <1>4, <2>1 DEF Reader, Within
  <1> QED
    BY <1>1, <1>3, <1>4

\* A step closes the client's socket, or is one of the others.
LEMMA StepCases ==
  ASSUME NetInv, Step
  PROVE  \/ Hangup /\ cpc # "gone"
         \/ Handshake \/ HandshakeAck \/ OpenRemoteDevice \/ DeviceOpened
         \/ CallAddr \/ CallValue \/ CallReturn
         \/ WriteStreamNet \/ ReadHead \/ ReadSize \/ ReadData
         \/ \E a \in Addresses : ReadNet(a) \/ \E v \in Values : WriteNet(a, v)
         \/ StartStream
         \/ FinishHandshake \/ DeviceOption \/ AddDevice \/ CloseChannel
         \/ MappedCmd \/ ParamAddr \/ CmdWrite \/ CmdRead
         \/ StreamCmd \/ WriteHead \/ WriteSize \/ WriteData \/ WriteAck
         \/ ReadSend \/ ReadStart \/ Reset
         \/ UNCHANGED vars
  <1>1. OpenFailed \/ CloseDevice \/ Kill => Hangup /\ cpc # "gone"
    BY DEF OpenFailed, CloseDevice, Kill
  <1>2. Sigpipe => Hangup /\ cpc # "gone"
    BY DEF Sigpipe
  <1> QED
    BY <1>1, <1>2, NotCut DEF Step, ClientStep, ClientCall, ServerStep

LEMMA LineStep == ASSUME NetInv, Step PROVE LineInv'
  <1>0. LineInv /\ TypeOK
    BY DEF NetInv
  <1> USE <1>0 DEF LineInv
  <1>1. CASE Hangup
    BY <1>1 DEF Hangup
  <1>2. CASE Handshake \/ HandshakeAck \/ OpenRemoteDevice \/ DeviceOpened
    BY <1>2 DEF Handshake, HandshakeAck, OpenRemoteDevice, DeviceOpened
  <1>3. CASE CallAddr \/ CallValue \/ CallReturn
    BY <1>3 DEF CallAddr, CallValue, CallReturn
  <1>4. ASSUME NEW a, NEW v, ReadNet(a) \/ WriteNet(a, v) PROVE LineInv'
    BY <1>4 DEF ReadNet, WriteNet, BeginCall
  <1>5. CASE StartStream \/ WriteStreamNet
    BY <1>5 DEF StartStream, WriteStreamNet, BeginCall
  <1>6. CASE ReadHead \/ ReadSize \/ ReadData
    BY <1>6 DEF ReadHead, ReadSize, ReadData
  <1>7. CASE FinishHandshake \/ DeviceOption \/ AddDevice \/ CloseChannel
    BY <1>7 DEF FinishHandshake, DeviceOption, AddDevice, CloseChannel,
                NoUnit, Eof, Error, ServerSends, clientVars
  <1>8. CASE MappedCmd \/ ParamAddr \/ CmdWrite \/ CmdRead
    BY <1>8 DEF MappedCmd, ParamAddr, CmdWrite, CmdRead,
                NoUnit, Eof, Error, ServerSends, clientVars
  <1>9. CASE StreamCmd \/ WriteHead \/ WriteSize \/ WriteData \/ WriteAck
    BY <1>9 DEF StreamCmd, WriteHead, WriteSize, WriteData, ReceivePiece, ReceiveError,
                WriteAck, NoUnit, Eof, Error, ServerSends, clientVars
  <1>10. CASE ReadSend \/ ReadStart \/ Reset
    BY <1>10 DEF ReadSend, ReadStart, Reset, ServerSends, clientVars
  <1>11. CASE UNCHANGED vars
    BY <1>11 DEF vars, clientVars
  <1> QED
    BY <1>1, <1>2, <1>3, <1>4, <1>5, <1>6, <1>7, <1>8, <1>9, <1>10, <1>11, StepCases

LEMMA KindStep == ASSUME NetInv, Step PROVE KindInv'
  <1>0. LineInv /\ KindInv /\ TypeOK /\ ServerType /\ kind \in {"mapped", "tx", "rx"}
    BY KindsAssumption DEF NetInv, TypeOK
  <1> USE <1>0 DEF KindInv
  <1>1. CASE Hangup
    BY <1>1 DEF Hangup
  <1>2. CASE Handshake \/ HandshakeAck \/ OpenRemoteDevice \/ DeviceOpened
    BY <1>2 DEF Handshake, HandshakeAck, OpenRemoteDevice, DeviceOpened
  <1>3. CASE CallAddr \/ CallValue \/ CallReturn
    <2>1. CASE CallAddr \/ CallValue
      BY <2>1 DEF CallAddr, CallValue
    <2>2. CASE CallReturn
      <3>1. cpc = "value" /\ cpc' = "ready" /\ UNCHANGED <<kind, handshaked, spc>>
        BY <2>2, Zenon DEF CallReturn
      <3> QED
        BY <3>1
    <2> QED
      BY <1>3, <2>1, <2>2
  <1>4. ASSUME NEW a, NEW v, ReadNet(a) \/ WriteNet(a, v) PROVE KindInv'
    BY <1>4 DEF ReadNet, WriteNet, BeginCall
  <1>5. CASE StartStream \/ WriteStreamNet
    BY <1>5 DEF StartStream, WriteStreamNet, BeginCall
  <1>6. CASE ReadHead \/ ReadSize \/ ReadData
    BY <1>6 DEF ReadHead, ReadSize, ReadData
  <1>7. CASE FinishHandshake \/ DeviceOption \/ AddDevice \/ CloseChannel
    BY <1>7 DEF FinishHandshake, DeviceOption, AddDevice, CloseChannel,
                ServerSends, clientVars
  <1>8. CASE MappedCmd \/ ParamAddr \/ CmdWrite \/ CmdRead
    BY <1>8 DEF MappedCmd, ParamAddr, CmdWrite, CmdRead, AfterEof, ServerSends, clientVars
  <1>9. CASE StreamCmd
    <2>1. kind = "rx" /\ Arrived => Head(up) # Cmd("tx")
      <3> SUFFICES ASSUME kind = "rx", Arrived, Head(up) = Cmd("tx") PROVE FALSE
        OBVIOUS
      <3>1. spc = "cmd" /\ up \in Seq(Units) /\ up # <<>>
        BY <1>9 DEF StreamCmd, Arrived, TypeOK, LinkType
      <3>2. PICK q : Run(kind, Now, up, q)
        BY <3>1 DEF NetInv, UpInv, Stopped
      <3>3. PICK r : Handles(kind, Now, Head(up), r)
        BY <3>1, <3>2, RunHead
      <3>4. Now[1] = "cmd"
        BY <3>1 DEF Now, ServerLoc
      <3> QED
        BY <3>3, <3>4 DEF Handles, Cmd
    <2>2. kind = "tx" /\ Arrived => Head(up) = Cmd("tx")
      <3> SUFFICES ASSUME kind = "tx", Arrived PROVE Head(up) = Cmd("tx")
        OBVIOUS
      <3>1. spc = "cmd" /\ up \in Seq(Units) /\ up # <<>>
        BY <1>9 DEF StreamCmd, Arrived, TypeOK, LinkType
      <3>2. PICK q : Run(kind, Now, up, q)
        BY <3>1 DEF NetInv, UpInv, Stopped
      <3>3. PICK r : Handles(kind, Now, Head(up), r)
        BY <3>1, <3>2, RunHead
      <3>4. Now[1] = "cmd"
        BY <3>1 DEF Now, ServerLoc
      <3> QED
        BY <3>3, <3>4 DEF Handles, Cmd
    <2> QED
      BY <1>9, <2>1, <2>2 DEF StreamCmd, clientVars
  <1>10. CASE WriteHead \/ WriteSize \/ WriteData \/ WriteAck
    BY <1>10 DEF WriteHead, WriteSize, WriteData, ReceivePiece, ReceiveError,
                WriteAck, ServerSends, clientVars
  <1>11. CASE ReadSend \/ ReadStart \/ Reset
    BY <1>11 DEF ReadSend, ReadStart, Reset, ServerSends, clientVars
  <1>12. CASE UNCHANGED vars
    BY <1>12 DEF vars, clientVars
  <1> QED
    BY <1>1, <1>2, <1>3, <1>4, <1>5, <1>6, <1>7, <1>8, <1>9, <1>10, <1>11, <1>12, StepCases

\* A handler that runs takes the first unit under way.
LEMMA Takes ==
  ASSUME NetInv, ~Stopped, up # <<>>
  PROVE  /\ \E q, r : /\ Handles(kind, Now, Head(up), r) /\ Run(kind, r, Tail(up), q)
                      /\ cpc # "gone" => q = Expected
                      /\ kind = "tx" /\ line = "fin" => q[4] = Len(wrote)
         /\ up \in Seq(Units) /\ Tail(up) \in Seq(Units)
  <1>1. up \in Seq(Units)
    BY DEF NetInv, TypeOK, LinkType
  <1>2. PICK q : /\ Run(kind, Now, up, q)
                 /\ cpc # "gone" => q = Expected
                 /\ kind = "tx" /\ line = "fin" => q[4] = Len(wrote)
    BY DEF NetInv, UpInv
  <1>3. PICK r : Handles(kind, Now, Head(up), r) /\ Run(kind, r, Tail(up), q)
    BY <1>1, <1>2, RunHead
  <1> QED
    BY <1>1, <1>2, <1>3

\* What the handler finds where it is.
LEMMA FirstUnit ==
  ASSUME NetInv, up # <<>>
  PROVE  /\ spc \in {"waddr", "raddr"} => \E a \in Addresses : Head(up) = Word(a)
         /\ spc = "wvalue" => \E v \in Values : Head(up) = Word(v)
         /\ spc # "reply"
         /\ spc = "whead" => Head(up) = Cmd("tx")
         /\ spc = "wsize" => Head(up) = Word(FrameSize)
  <1>0. KindInv
    BY DEF NetInv
  <1>1. Stopped => spc \in {"close", "done", "killed"}
    BY DEF Stopped
  <1>2. CASE ~Stopped
    <2>1. PICK r : Handles(kind, Now, Head(up), r)
      BY <1>2, Takes
    <2>2. Now[1] = ServerLoc
      BY DEF Now
    <2>3. CASE spc \in {"waddr", "raddr", "wvalue", "reply"}
      <3>1. Now[1] = spc
        BY <2>2, <2>3 DEF ServerLoc
      <3> QED
        BY <2>1, <2>3, <3>1 DEF Handles
    <2>4. CASE spc \in {"whead", "wsize"}
      <3>1. Now[1] = (IF spc = "whead" THEN "head" ELSE "size") /\ kind = "tx"
        BY <1>0, <2>2, <2>4 DEF ServerLoc, KindInv
      <3> QED
        BY <2>1, <2>4, <3>1 DEF Handles, Header
    <2> QED
      BY <2>3, <2>4
  <1> QED
    BY <1>1, <1>2

LEMMA OneUnit ==
  ASSUME NEW u
  PROVE  <<>> \o <<u>> = <<u>> /\ Tail(<<u>>) = <<>> /\ Head(<<u>>) = u /\ <<u>> # <<>>
  OBVIOUS

LEMMA OpenStep == ASSUME NetInv, Step PROVE OpenInv'
  <1>0. /\ LineInv /\ OpenInv /\ KindInv /\ TypeOK /\ LinkType
    BY DEF NetInv, TypeOK
  <1> USE <1>0 DEF OpenInv, LineInv, Stopped
  <1>1. CASE Hangup
    BY <1>1 DEF Hangup
  <1>2. CASE Handshake \/ HandshakeAck \/ OpenRemoteDevice \/ DeviceOpened
    <2>1. CASE Handshake \/ OpenRemoteDevice
      BY <2>1, OneUnit DEF Handshake, OpenRemoteDevice, ClientSends
    <2>2. CASE HandshakeAck \/ DeviceOpened
      BY <2>2, OneUnit DEF HandshakeAck, DeviceOpened, ClientReceives
    <2> QED
      BY <1>2, <2>1, <2>2
  <1>3. CASE CallAddr \/ CallValue \/ CallReturn
    BY <1>3 DEF CallAddr, CallValue, CallReturn
  <1>4. ASSUME NEW a, NEW v, ReadNet(a) \/ WriteNet(a, v) PROVE OpenInv'
    BY <1>4 DEF ReadNet, WriteNet, BeginCall
  <1>5. CASE StartStream \/ WriteStreamNet
    BY <1>5 DEF StartStream, WriteStreamNet, BeginCall
  <1>6. CASE ReadHead \/ ReadSize \/ ReadData
    BY <1>6 DEF ReadHead, ReadSize, ReadData
  <1>7. CASE FinishHandshake
    BY <1>7, OneUnit DEF FinishHandshake, Arrived, NoUnit, Eof, Error, ServerSends, clientVars
  <1>8. CASE DeviceOption \/ AddDevice \/ CloseChannel
    BY <1>8, OneUnit DEF DeviceOption, AddDevice, CloseChannel, Arrived,
                NoUnit, Eof, Error, ServerSends, clientVars
  <1>9. CASE MappedCmd \/ ParamAddr \/ CmdWrite \/ CmdRead
    BY <1>9 DEF MappedCmd, ParamAddr, CmdWrite, CmdRead, AfterEof, Arrived,
                NoUnit, Eof, Error, ServerSends, clientVars
  <1>10. CASE StreamCmd \/ WriteHead \/ WriteSize \/ WriteData \/ WriteAck
    BY <1>10 DEF StreamCmd, WriteHead, WriteSize, WriteData, ReceivePiece, ReceiveError,
                WriteAck, Arrived, NoUnit, Eof, Error, ServerSends, clientVars, KindInv
  <1>11. CASE ReadSend \/ ReadStart \/ Reset
    BY <1>11 DEF ReadSend, ReadStart, Reset, ServerSends, clientVars, KindInv
  <1>12. CASE UNCHANGED vars
    BY <1>12 DEF vars, clientVars
  <1> QED
    BY <1>1, <1>2, <1>3, <1>4, <1>5, <1>6, <1>7, <1>8, <1>9, <1>10, <1>11, <1>12, StepCases

\* When a register is answered, the server is where the client believes it to be.
LEMMA Answered ==
  ASSUME NetInv, spc = "reply", cpc # "gone"
  PROVE  up = <<>> /\ Now = Expected /\ cpc = "value" /\ addr = call[1] /\ regs = shadow
  <1>1. up = <<>> /\ kind = "mapped" /\ ~handshaked
    BY FirstUnit DEF NetInv, KindInv
  <1>2. Now = Expected
    BY <1>1, RunEmpty DEF NetInv, UpInv, Stopped
  <1>3. Now = <<"reply", addr, regs, Count>>
    BY DEF Now, ServerLoc, ServerArg
  <1>4. ExpectedLoc = "reply" /\ addr = ExpectedArg /\ regs = shadow
    BY <1>2, <1>3 DEF Expected
  <1>5. cpc = "value"
    BY <1>1, <1>4 DEF ExpectedLoc
  <1>6. ExpectedArg = call[1]
    BY <1>4 DEF ExpectedArg
  <1> QED
    BY <1>1, <1>2, <1>4, <1>5, <1>6

LEMMA CallStep == ASSUME NetInv, Step PROVE CallInv'
  <1>0. LineInv /\ KindInv /\ OpenInv /\ CallInv /\ TypeOK
    BY DEF NetInv, TypeOK
  <1> USE <1>0 DEF CallInv
  <1>1. CASE Hangup
    BY <1>1 DEF Hangup
  <1>2. CASE Handshake \/ HandshakeAck \/ OpenRemoteDevice
    BY <1>2 DEF Handshake, HandshakeAck, OpenRemoteDevice
  <1>3. CASE DeviceOpened
    BY <1>3, OneUnit DEF DeviceOpened, ClientReceives, OpenInv
  <1>4. CASE CallAddr
    BY <1>4 DEF CallAddr, KindInv
  <1>5. CASE CallValue
    BY <1>5 DEF CallValue, KindInv
  <1>6. CASE CallReturn
    <2>1. down = <<Word(ReadLocal(shadow, call[1]))>>
      BY <1>6 DEF CallReturn
    <2>2. down' = <<>> /\ last' = <<call[1], ReadLocal(shadow, call[1]), TRUE>>
      BY <1>6, <2>1, OneUnit DEF CallReturn, ClientReceives, Word
    <2>3. cpc' = "ready" /\ shadow' = shadow
      BY <1>6 DEF CallReturn
    <2> QED
      BY <2>2, <2>3
  <1>7. ASSUME NEW a \in Addresses, ReadNet(a) \/ \E v \in Values : WriteNet(a, v)
        PROVE  CallInv'
    BY <1>7 DEF ReadNet, WriteNet, BeginCall
  <1>8. CASE StartStream \/ WriteStreamNet
    BY <1>8 DEF StartStream, WriteStreamNet, BeginCall, KindInv
  <1>9. CASE ReadHead \/ ReadSize \/ ReadData
    BY <1>9 DEF ReadHead, ReadSize, ReadData, KindInv
  <1>10. CASE FinishHandshake \/ DeviceOption \/ AddDevice \/ CloseChannel
    BY <1>10 DEF FinishHandshake, DeviceOption, AddDevice, CloseChannel, OpenInv, clientVars
  <1>11. CASE MappedCmd \/ ParamAddr \/ CmdWrite
    BY <1>11 DEF MappedCmd, ParamAddr, CmdWrite, AfterEof, Arrived, Eof, Error,
                 LineInv, clientVars
  <1>12. CASE CmdRead
    <2>1. CASE cpc = "gone"
      BY <1>12, <2>1 DEF CmdRead, clientVars
    <2>2. CASE cpc # "gone"
      <3>1. up = <<>> /\ cpc = "value" /\ addr = call[1] /\ regs = shadow
        BY <1>12, <2>2, Answered DEF CmdRead
      <3>2. down = <<>> /\ line = "up"
        BY <1>12, <3>1 DEF CmdRead, LineInv
      <3>3. down' = <<Word(ReadLocal(shadow, call[1]))>> /\ spc' = "cmd" /\ up' = up
        BY <1>12, <3>1, <3>2, OneUnit DEF CmdRead, ServerSends
      <3>4. UNCHANGED <<cpc, call, shadow, last>>
        BY <1>12 DEF CmdRead, clientVars
      <3> QED
        BY <3>1, <3>3, <3>4
    <2> QED
      BY <2>1, <2>2
  <1>13. CASE StreamCmd \/ WriteHead \/ WriteSize \/ WriteData \/ WriteAck
    BY <1>13 DEF StreamCmd, WriteHead, WriteSize, WriteData, WriteAck, KindInv, clientVars
  <1>14. CASE ReadSend \/ ReadStart \/ Reset
    BY <1>14 DEF ReadSend, ReadStart, Reset, KindInv, clientVars
  <1>15. CASE UNCHANGED vars
    BY <1>15 DEF vars, clientVars
  <1> HIDE DEF CallInv
  <1> QED
    BY <1>1, <1>2, <1>3, <1>4, <1>5, <1>6, <1>7, <1>8, <1>9, <1>10, <1>11, <1>12, <1>13,
       <1>14, <1>15, StepCases

LEMMA NoWrap ==
  ASSUME NEW x \in Nat, NEW m \in Nat, x < m
  PROVE  x % m = x
  OBVIOUS

LEMMA SizeStep == ASSUME NetInv, Step PROVE SizeInv'
  <1>0. LineInv /\ SizeInv /\ FrameSize \in Nat
    BY SizesAssumption DEF NetInv
  <1> USE <1>0 DEF SizeInv
  <1>1. CASE Hangup /\ cpc # "gone"
    BY <1>1 DEF Hangup, LineInv, serverVars
  <1>2. CASE Handshake \/ HandshakeAck \/ OpenRemoteDevice \/ DeviceOpened
    BY <1>2 DEF Handshake, HandshakeAck, OpenRemoteDevice, DeviceOpened, serverVars
  <1>3. CASE CallAddr \/ CallValue \/ CallReturn
    BY <1>3 DEF CallAddr, CallValue, CallReturn, serverVars
  <1>4. ASSUME NEW a, NEW v, ReadNet(a) \/ WriteNet(a, v) PROVE SizeInv'
    BY <1>4 DEF ReadNet, WriteNet, serverVars
  <1>5. CASE StartStream \/ WriteStreamNet
    BY <1>5 DEF StartStream, WriteStreamNet, serverVars
  <1>6. CASE ReadHead \/ ReadSize \/ ReadData
    BY <1>6 DEF ReadHead, ReadSize, ReadData, serverVars
  <1>7. CASE FinishHandshake \/ DeviceOption \/ AddDevice \/ CloseChannel
    BY <1>7 DEF FinishHandshake, DeviceOption, AddDevice, CloseChannel,
                NoUnit, Eof, Error, ServerSends, serverVars
  <1>8. CASE MappedCmd \/ ParamAddr \/ CmdWrite \/ CmdRead
    BY <1>8 DEF MappedCmd, ParamAddr, CmdWrite, CmdRead,
                NoUnit, Eof, Error, ServerSends, serverVars
  <1>9. CASE StreamCmd \/ WriteHead \/ WriteAck
    BY <1>9 DEF StreamCmd, WriteHead, WriteAck, NoUnit, Eof, Error, ServerSends, serverVars
  <1>10. CASE WriteSize
    <2>1. Arrived => Head(up)[2] = FrameSize
      BY <1>10, FirstUnit DEF WriteSize, Arrived, Word
    <2> QED
      BY <1>10, <2>1 DEF WriteSize, NoUnit, Eof, Error
  <1>11. CASE WriteData
    <2>1. CASE ReceiveError
      <3>1. line = "rst" /\ line' = "dead" /\ size + 1 \in Nat /\ size + 1 <= FrameSize + 1
        BY <2>1 DEF ReceiveError, Error
      <3>2. (size + 1) % SizeModulus = size + 1
        BY <3>1, ModulusAssumption, NoWrap
      <3> QED
        BY <2>1, <3>1, <3>2 DEF ReceiveError
    <2> QED
      BY <1>11, <2>1 DEF WriteData, ReceivePiece, Pieces
  <1>12. CASE ReadSend \/ ReadStart \/ Reset
    BY <1>12 DEF ReadSend, ReadStart, Reset, ServerSends, serverVars
  <1>13. CASE UNCHANGED vars
    BY <1>13 DEF vars, serverVars
  <1> QED
    BY <1>1, <1>2, <1>3, <1>4, <1>5, <1>6, <1>7, <1>8, <1>9, <1>10, <1>11, <1>12, <1>13,
       StepCases
-----------------------------------------------------------------------------
(***************************************************************************)
(* What is under way to the server.                                        *)
(***************************************************************************)

\* The client sends, and believes the server to become what it becomes of it.
LEMMA UpSend ==
  ASSUME NetInv, cpc # "gone", cpc' # "gone",
         UNCHANGED <<kind, line, spc, size, addr, buf, regs, stream>>,
         \A p : Run(kind, p, up, Expected) => Run(kind, p, up', Expected')
  PROVE  UpInv'
  <1>1. line' = "up"
    BY DEF NetInv, LineInv
  <1>2. Now' = Now /\ Count' = Count /\ Stopped' = Stopped
    BY DEF Now, ServerLoc, ServerArg, Count, Stopped
  <1>3. PICK p : /\ Run(kind, p, up, Expected) /\ p[4] = Count
                 /\ ~Stopped => p = Now
    BY DEF NetInv, UpInv
  <1>4. Run(kind', p, up', Expected')
    BY <1>3
  <1> QED
    BY <1>1, <1>2, <1>3, <1>4 DEF UpInv

\* The server takes a unit.
LEMMA UpTake ==
  ASSUME NetInv, up # <<>>, ~Stopped, up' = Tail(up),
         UNCHANGED <<kind, cpc, wrote>>, line' = "fin" => line = "fin",
         cpc # "gone" => Expected' = Expected,
         \A r : Handles(kind, Now, Head(up), r) => r[4] = Count' /\ (~Stopped' => r = Now')
  PROVE  UpInv'
  <1>1. PICK q, r : /\ Handles(kind, Now, Head(up), r) /\ Run(kind, r, Tail(up), q)
                    /\ cpc # "gone" => q = Expected
                    /\ kind = "tx" /\ line = "fin" => q[4] = Len(wrote)
    BY Takes
  <1>2. r[4] = Count' /\ (~Stopped' => r = Now')
    BY <1>1
  <1> QED
    BY <1>1, <1>2 DEF UpInv

\* The server takes nothing.
LEMMA UpStay ==
  ASSUME NetInv, UNCHANGED <<kind, cpc, wrote, up>>, line' = "fin" => line = "fin",
         Count' = Count, cpc # "gone" => Expected' = Expected,
         ~Stopped' /\ (cpc # "gone" \/ up # <<>>) => ~Stopped /\ Now' = Now
  PROVE  UpInv'
  BY DEF NetInv, UpInv

\* The client is as the server believes it to be unless it does something.
LEMMA ExpectedSame ==
  ASSUME UNCHANGED <<kind, cpc, handshaked, call, shadow, wrote>>, cpc # "value" \/ down' = down
  PROVE  Expected' = Expected
  BY DEF Expected, ExpectedLoc, ExpectedArg

\* The samples of the next frame follow those written before.
LEMMA FrameWritten ==
  ASSUME NetInv, cpc = "write"
  PROVE  \E n \in Nat :
            /\ n = Len(wrote) /\ wrote \in Seq(Nat) /\ Frame(calls) \in Seq(Nat)
            /\ Len(Frame(calls)) = FrameSize
            /\ \A i \in 1 .. FrameSize : Frame(calls)[i] = n + i
            /\ Samples(Frame(calls)) \in Seq(Units) /\ Len(Samples(Frame(calls))) = FrameSize
            /\ \A i \in 1 .. FrameSize : Samples(Frame(calls))[i] = Sample(n + i)
            /\ Len(wrote \o Frame(calls)) = n + FrameSize
            /\ n + FrameSize = FrameSize * calls
  <1>1. /\ calls \in Nat /\ FrameSize \in Nat /\ wrote \in Seq(Nat)
        /\ Len(wrote) = FrameSize * (calls - 1) /\ Len(wrote) \in Nat
    <2>1. kind = "tx" /\ WroteInv /\ ClientType
      BY DEF NetInv, TypeOK, TxInv, KindInv
    <2>2. calls \in Nat /\ FrameSize \in Nat /\ wrote \in Seq(Nat)
      BY <2>1, SizesAssumption, NetBoundsAssumption DEF ClientType, Limit
    <2> QED
      BY <2>1, <2>2 DEF WroteInv
  <1>2. PICK n \in Nat : n = Len(wrote)
    BY <1>1
  <1>3. (calls - 1) * FrameSize = n /\ n + FrameSize = FrameSize * calls
    BY <1>1, <1>2
  <1>4. /\ Frame(calls) \in Seq(Nat) /\ Len(Frame(calls)) = FrameSize
        /\ DOMAIN Frame(calls) = 1 .. FrameSize
        /\ \A i \in 1 .. FrameSize : Frame(calls)[i] = n + i
    BY <1>1, <1>3 DEF Frame
  <1>5. Samples(Frame(calls)) = [i \in 1 .. FrameSize |-> Sample(n + i)]
    BY <1>4 DEF Samples
  <1> DEFINE F(i) == Sample(n + i)
  <1>6. /\ [i \in 1 .. FrameSize |-> F(i)] \in Seq(Units)
        /\ Len([i \in 1 .. FrameSize |-> F(i)]) = FrameSize
    <2>1. \A i \in 1 .. FrameSize : F(i) \in Units
      BY UnitType
    <2> HIDE DEF F
    <2> QED
      BY <1>1, <2>1, FunctionSeq
  <1>7. Len(wrote \o Frame(calls)) = n + FrameSize
    BY <1>1, <1>2, <1>4, Concat
  <1>8. \A i \in 1 .. FrameSize : Samples(Frame(calls))[i] = Sample(n + i)
    BY <1>5
  <1> QED
    BY <1>1, <1>2, <1>3, <1>4, <1>5, <1>6, <1>7, <1>8

LEMMA UpClient ==
  ASSUME NetInv,
         \/ Handshake \/ HandshakeAck \/ OpenRemoteDevice \/ DeviceOpened
         \/ CallAddr \/ CallValue \/ CallReturn \/ WriteStreamNet
         \/ ReadHead \/ ReadSize \/ ReadData \/ StartStream
         \/ \E a \in Addresses : ReadNet(a) \/ \E v \in Values : WriteNet(a, v)
  PROVE  UpInv'
  <1>0. /\ TypeOK /\ KindInv /\ CallInv /\ WroteInv /\ up \in Seq(Units)
        /\ call \in Addresses \X Int /\ kind \in {"mapped", "tx", "rx"}
    BY KindsAssumption DEF NetInv, TypeOK, LinkType, ClientType, TxInv
  <1> DEFINE Sends(u) == /\ up' = up \o <<u>> /\ Handles(kind, Expected, u, Expected')
                         /\ cpc # "gone" /\ cpc' # "gone"
                         /\ UNCHANGED <<kind, line, spc, size, addr, buf, regs, stream>>
             Silent == /\ up' = up /\ Expected' = Expected
                       /\ cpc # "gone" /\ cpc' # "gone"
                       /\ UNCHANGED <<kind, line, spc, size, addr, buf, regs, stream>>
  <1>1. ASSUME NEW u, Sends(u) PROVE UpInv'
    <2>1. \A p : Run(kind, p, up, Expected) => Run(kind, p, up', Expected')
      BY <1>0, <1>1, RunMore
    <2> QED
      BY <1>1, <2>1, UpSend
  <1>2. ASSUME Silent PROVE UpInv'
    BY <1>2, UpSend
  <1>3. CASE Handshake
    <2>1. Sends(Cmd("handshake"))
      BY <1>0, <1>3 DEF Handshake, ClientSends, serverVars, deviceVars, Handles, At,
                        Expected, ExpectedLoc, ExpectedArg
    <2> QED
      BY <1>1, <2>1
  <1>4. CASE OpenRemoteDevice
    <2>1. Sends(Cmd("path"))
      BY <1>0, <1>4 DEF OpenRemoteDevice, ClientSends, serverVars, deviceVars, Handles, At,
                        Expected, ExpectedLoc, ExpectedArg, KindInv
    <2> QED
      BY <1>1, <2>1
  <1>5. CASE HandshakeAck \/ DeviceOpened
    <2>1. Silent
      BY <1>0, <1>5 DEF HandshakeAck, DeviceOpened, serverVars, deviceVars,
                        Expected, ExpectedLoc, ExpectedArg, KindInv
    <2> QED
      BY <1>2, <2>1
  <1>6. CASE CallAddr
    <2>1. Sends(Word(call[1]))
      <3>1. /\ cpc \in {"waddr", "raddr"} /\ down = <<>> /\ call[1] \in Addresses
            /\ cpc' = IF cpc = "waddr" THEN "wvalue" ELSE "value"
            /\ UNCHANGED <<kind, handshaked, call, shadow, wrote, down>>
        BY <1>0, <1>6 DEF CallAddr, CallInv, KindInv
      <3>2. /\ Expected = <<cpc, 0, shadow, Len(wrote)>>
            /\ Expected' = <<IF cpc = "waddr" THEN "wvalue" ELSE "reply", call[1], shadow, Len(wrote)>>
        BY <3>1 DEF Expected, ExpectedLoc, ExpectedArg
      <3>3. Handles(kind, Expected, Word(call[1]), Expected')
        BY <3>1, <3>2 DEF Handles, At
      <3> QED
        BY <1>6, <3>3 DEF CallAddr, ClientSends, serverVars, deviceVars
    <2> QED
      BY <1>1, <2>1
  <1>7. CASE CallValue
    <2>1. Sends(Word(call[2]))
      <3>1. /\ cpc = "wvalue" /\ cpc' = "ready" /\ call[2] \in Values /\ ~handshaked
            /\ shadow' = WriteLocal(shadow, call[1], call[2])
            /\ UNCHANGED <<kind, handshaked, wrote>>
        BY <1>0, <1>7 DEF CallValue, CallInv, KindInv
      <3>2. /\ Expected = <<"wvalue", call[1], shadow, Len(wrote)>>
            /\ Expected' = <<"cmd", 0, shadow', Len(wrote)>>
        BY <3>1 DEF Expected, ExpectedLoc, ExpectedArg
      <3>3. Handles(kind, Expected, Word(call[2]), Expected')
        BY <3>1, <3>2 DEF Handles, At
      <3> QED
        BY <1>7, <3>3 DEF CallValue, ClientSends, serverVars, deviceVars
    <2> QED
      BY <1>1, <2>1
  <1>8. CASE CallReturn
    <2>1. Silent
      BY <1>0, <1>8 DEF CallReturn, serverVars, deviceVars,
                        Expected, ExpectedLoc, ExpectedArg, KindInv
    <2> QED
      BY <1>2, <2>1
  <1>9. ASSUME NEW a \in Addresses, ReadNet(a) \/ \E v \in Values : WriteNet(a, v)
        PROVE  UpInv'
    <2>1. Sends(Cmd("read")) \/ Sends(Cmd("write"))
      <3>1. /\ cpc = "ready" /\ ~handshaked /\ kind = "mapped"
            /\ UNCHANGED <<kind, handshaked, shadow, wrote>>
            /\ \/ cpc' = "raddr" /\ up' = up \o <<Cmd("read")>>
               \/ cpc' = "waddr" /\ up' = up \o <<Cmd("write")>>
        BY <1>0, <1>9 DEF ReadNet, WriteNet, BeginCall, ClientSends, KindInv
      <3>2. /\ Expected = <<"cmd", 0, shadow, Len(wrote)>>
            /\ Expected' = <<cpc', 0, shadow, Len(wrote)>>
        BY <3>1 DEF Expected, ExpectedLoc, ExpectedArg
      <3>3. \/ up' = up \o <<Cmd("read")>> /\ Handles(kind, Expected, Cmd("read"), Expected')
            \/ up' = up \o <<Cmd("write")>> /\ Handles(kind, Expected, Cmd("write"), Expected')
        BY <3>1, <3>2 DEF Handles, At
      <3>4. UNCHANGED <<kind, line, spc, size, addr, buf, regs, stream>>
        BY <1>9 DEF ReadNet, WriteNet, serverVars, deviceVars
      <3> QED
        BY <3>1, <3>3, <3>4
    <2> QED
      BY <1>1, <2>1
  <1>10. CASE StartStream
    <2>1. /\ cpc = "ready" /\ kind # "mapped" /\ handshaked' = TRUE
          /\ cpc' = IF kind = "tx" THEN "write" ELSE "head"
          /\ UNCHANGED <<kind, shadow, wrote, line, spc, size, addr, buf, regs, stream>>
          /\ \/ ~handshaked /\ up' = up \o <<Cmd(kind)>>
             \/ handshaked /\ up' = up
      BY <1>10 DEF StartStream, BeginCall, ClientSends, serverVars, deviceVars
    <2>2. /\ Expected = <<IF handshaked THEN IF kind = "tx" THEN "head" ELSE "stop" ELSE "cmd",
                          0, shadow, Len(wrote)>>
          /\ Expected' = <<IF kind = "tx" THEN "head" ELSE "stop", 0, shadow, Len(wrote)>>
      BY <2>1 DEF Expected, ExpectedLoc, ExpectedArg
    <2>3. CASE handshaked
      BY <1>2, <2>1, <2>2, <2>3
    <2>4. CASE ~handshaked
      <3>1. Handles(kind, Expected, Cmd(kind), Expected')
        BY <1>0, <2>1, <2>2, <2>4 DEF Handles, At
      <3>2. Sends(Cmd(kind))
        BY <2>1, <2>4, <3>1
      <3> QED
        BY <1>1, <3>2
    <2> QED
      BY <2>3, <2>4
  <1>11. CASE WriteStreamNet
    <2> DEFINE w == Samples(Frame(calls))
    <2>1. /\ cpc = "write" /\ cpc' = "ready" /\ kind = "tx" /\ handshaked
          /\ up' = up \o (<<Header(kind), Word(FrameSize)>> \o w)
          /\ wrote' = wrote \o Frame(calls)
          /\ UNCHANGED <<kind, handshaked, shadow, line, spc, size, addr, buf, regs, stream>>
      BY <1>0, <1>11 DEF WriteStreamNet, ClientSends, serverVars, deviceVars, Header, KindInv
    <2>2. PICK n \in Nat :
              /\ n = Len(wrote) /\ w \in Seq(Units) /\ Len(w) = FrameSize
              /\ \A i \in 1 .. FrameSize : w[i] = Sample(n + i)
              /\ Len(wrote \o Frame(calls)) = n + FrameSize
      BY <2>1, FrameWritten
    <2>3. \A i \in 1 .. FrameSize : w[i] = Nth(kind, n + i)
      BY <2>1, <2>2 DEF Nth
    <2>7. Len(wrote') = n + FrameSize
      BY <2>1, <2>2
    <2>8. Expected = Within(0, shadow, n) /\ Expected' = Within(0, shadow, n + FrameSize)
      BY <2>1, <2>2, <2>7 DEF Expected, ExpectedLoc, ExpectedArg, Within
    <2> HIDE DEF w
    <2>9. \A p : Run(kind, p, up, Expected) => Run(kind, p, up', Expected')
      BY <1>0, <2>1, <2>2, <2>3, <2>8, RunFrame
    <2> QED
      BY <2>1, <2>9, UpSend
  <1>12. CASE ReadHead \/ ReadSize \/ ReadData
    <2>1. Silent
      BY <1>0, <1>12 DEF ReadHead, ReadSize, ReadData, serverVars, deviceVars,
                        Expected, ExpectedLoc, ExpectedArg, KindInv
    <2> QED
      BY <1>2, <2>1
  <1> QED
    BY <1>3, <1>4, <1>5, <1>6, <1>7, <1>8, <1>9, <1>10, <1>11, <1>12

\* Nothing arrives any more: the client is gone, and what was to come has come.
LEMMA UpNothing ==
  ASSUME NetInv, NoUnit, UNCHANGED <<kind, clientVars, buf, stream>>
  PROVE  UpInv'
  <1>1. cpc = "gone" /\ up = <<>> /\ up' = up /\ (line' = "fin" => line = "fin")
    BY DEF NetInv, LineInv, NoUnit, Eof, Error
  <1>2. Count' = Count
    BY DEF Count
  <1> QED
    BY <1>1, <1>2, UpStay DEF clientVars

LEMMA UpServer ==
  ASSUME NetInv,
         \/ FinishHandshake \/ DeviceOption \/ AddDevice \/ CloseChannel
         \/ MappedCmd \/ ParamAddr \/ CmdWrite
         \/ StreamCmd \/ WriteHead \/ WriteSize \/ WriteAck
         \/ ReadSend \/ ReadStart
  PROVE  UpInv'
  <1>0. /\ TypeOK /\ KindInv /\ LineInv /\ kind \in {"mapped", "tx", "rx"}
        /\ regs \in [0 .. RegCount -> Int] /\ FrameSize \in Nat \ {0}
    BY KindsAssumption, SizesAssumption DEF NetInv, TypeOK, DeviceType
  <1> USE DEF Now, ServerLoc, ServerArg, Count, Stopped
  <1>1. CASE FinishHandshake
    <2>0. spc = "hs" /\ UNCHANGED <<kind, clientVars, serverVars, deviceVars>>
      BY <1>1 DEF FinishHandshake
    <2>1. CASE Arrived /\ up' = Tail(up) /\ ServerSends(<<Cmd("ack")>>, "option", "option")
      <3>1. \A r : Handles(kind, Now, Head(up), r) => r[4] = Count' /\ (~Stopped' => r = Now')
        BY <2>0, <2>1 DEF ServerSends, serverVars, deviceVars, Handles, At
      <3>2. line' = "fin" => line = "fin"
        BY <2>1 DEF ServerSends
      <3>3. cpc # "gone" => Expected' = Expected
        BY <2>0, ExpectedSame DEF NetInv, OpenInv, clientVars
      <3> QED
        BY <2>0, <2>1, <3>1, <3>2, <3>3, UpTake DEF Arrived, clientVars
    <2>2. CASE NoUnit
      BY <2>0, <2>2, UpNothing DEF serverVars, deviceVars
    <2> QED
      BY <1>1, <2>1, <2>2 DEF FinishHandshake
  <1>2. CASE DeviceOption
    <2>0. spc = "option" /\ UNCHANGED <<kind, clientVars, down, serverVars, deviceVars>>
      BY <1>2 DEF DeviceOption
    <2>1. CASE Arrived /\ up' = Tail(up) /\ UNCHANGED line /\ spc' \in {"add", "killed"}
      <3>1. \A r : Handles(kind, Now, Head(up), r) => r[4] = Count' /\ (~Stopped' => r = Now')
        BY <2>0, <2>1 DEF serverVars, deviceVars, Handles, At
      <3>2. Expected' = Expected
        BY <2>0, ExpectedSame DEF clientVars
      <3> QED
        BY <2>0, <2>1, <3>1, <3>2, UpTake DEF Arrived, clientVars
    <2>2. CASE NoUnit
      BY <2>0, <2>2, UpNothing DEF serverVars, deviceVars
    <2> QED
      BY <1>2, <2>1, <2>2 DEF DeviceOption
  <1>3. CASE AddDevice \/ CloseChannel \/ WriteAck \/ ReadSend \/ ReadStart
    <2>1. UNCHANGED <<kind, clientVars, up, regs, stream, buf>> /\ (line' = "fin" => line = "fin")
      BY <1>3 DEF AddDevice, CloseChannel, WriteAck, ReadSend, ReadStart, ServerSends,
                  serverVars, deviceVars
    <2>2. cpc # "value" \/ down' = down
      <3>1. CASE AddDevice
        BY <3>1 DEF AddDevice, NetInv, OpenInv
      <3>2. CASE CloseChannel \/ WriteAck \/ ReadSend \/ ReadStart
        BY <1>0, <3>2 DEF CloseChannel, WriteAck, ReadSend, ReadStart, KindInv
      <3> QED
        BY <1>3, <3>1, <3>2
    <2>3. Expected' = Expected
      BY <2>1, <2>2, ExpectedSame DEF clientVars
    <2>4. ~Stopped' => ~Stopped /\ Now' = Now
      BY <1>3, <2>1 DEF AddDevice, CloseChannel, WriteAck, ReadSend, ReadStart, ServerSends
    <2> QED
      BY <2>1, <2>3, <2>4, UpStay DEF clientVars
  <1>4. CASE MappedCmd
    <2>0. /\ kind = "mapped" /\ spc = "cmd"
          /\ UNCHANGED <<kind, clientVars, down, serverVars, deviceVars>>
      BY <1>4 DEF MappedCmd
    <2>1. CASE /\ Arrived /\ up' = Tail(up) /\ UNCHANGED line
               /\ spc' = IF Head(up) = Cmd("write") THEN "waddr" ELSE "raddr"
      <3>1. \A r : Handles(kind, Now, Head(up), r) => r[4] = Count' /\ (~Stopped' => r = Now')
        BY <2>0, <2>1 DEF serverVars, deviceVars, Handles, At, Cmd
      <3>2. Expected' = Expected
        BY <2>0, ExpectedSame DEF clientVars
      <3> QED
        BY <2>0, <2>1, <3>1, <3>2, UpTake DEF Arrived, clientVars
    <2>2. CASE NoUnit
      BY <2>0, <2>2, UpNothing DEF serverVars, deviceVars
    <2> QED
      BY <1>4, <2>1, <2>2 DEF MappedCmd, NoUnit
  <1>5. CASE ParamAddr
    <2>0. /\ spc \in {"waddr", "raddr"} /\ spc' = IF spc = "waddr" THEN "wvalue" ELSE "reply"
          /\ UNCHANGED <<kind, clientVars, down, buf, deviceVars>>
      BY <1>5 DEF ParamAddr
    <2>1. CASE Arrived /\ addr' = Head(up)[2] /\ up' = Tail(up) /\ UNCHANGED line
      <3>1. \A r : Handles(kind, Now, Head(up), r) => r[4] = Count' /\ (~Stopped' => r = Now')
        BY <2>0, <2>1 DEF deviceVars, Handles, At, Word
      <3>2. Expected' = Expected
        BY <2>0, ExpectedSame DEF clientVars
      <3> QED
        BY <2>0, <2>1, <3>1, <3>2, UpTake DEF Arrived, clientVars
    <2>2. CASE NoUnit
      BY <2>0, <2>2, UpNothing DEF deviceVars
    <2> QED
      BY <1>5, <2>1, <2>2 DEF ParamAddr
  <1>6. CASE CmdWrite
    <2>0. /\ spc = "wvalue" /\ spc' = "cmd"
          /\ UNCHANGED <<kind, clientVars, down, serverVars, stream>>
      BY <1>6 DEF CmdWrite
    <2>1. CASE Arrived /\ up' = Tail(up) /\ UNCHANGED line /\ regs' = Written(Head(up)[2])
      <3>1. \A r : Handles(kind, Now, Head(up), r) => r[4] = Count' /\ (~Stopped' => r = Now')
        BY <2>0, <2>1 DEF serverVars, Handles, At, Word, Written
      <3>2. Expected' = Expected
        BY <2>0, ExpectedSame DEF clientVars
      <3> QED
        BY <2>0, <2>1, <3>1, <3>2, UpTake DEF Arrived, clientVars
    <2>2. CASE NoUnit
      BY <2>0, <2>2, UpNothing DEF serverVars
    <2> QED
      BY <1>6, <2>1, <2>2 DEF CmdWrite
  <1>7. CASE StreamCmd
    <2>0. /\ kind # "mapped" /\ spc = "cmd"
          /\ UNCHANGED <<kind, clientVars, down, size, addr, buf, deviceVars>>
      BY <1>7 DEF StreamCmd
    <2>1. CASE /\ Arrived /\ up' = Tail(up) /\ UNCHANGED line
               /\ spc' = IF Head(up) = Cmd("tx") THEN "whead" ELSE "rsend"
      <3>1. \A r : Handles(kind, Now, Head(up), r) => r[4] = Count' /\ (~Stopped' => r = Now')
        BY <2>0, <2>1 DEF deviceVars, Handles, At, Cmd
      <3>2. Expected' = Expected
        BY <2>0, ExpectedSame DEF clientVars
      <3> QED
        BY <2>0, <2>1, <3>1, <3>2, UpTake DEF Arrived, clientVars
    <2>2. CASE NoUnit
      BY <2>0, <2>2, UpNothing DEF deviceVars
    <2> QED
      BY <1>7, <2>1, <2>2 DEF StreamCmd
  <1>8. CASE WriteHead
    <2>0. /\ spc = "whead" /\ spc' = IF start' = "write" THEN "wsize" ELSE "wack"
          /\ UNCHANGED <<kind, clientVars, down, size, addr, buf, deviceVars>>
      BY <1>8 DEF WriteHead
    <2>1. CASE /\ Arrived /\ up' = Tail(up) /\ UNCHANGED line
               /\ start' = IF Head(up) = Cmd("tx") THEN "write" ELSE "other"
      <3>0. Head(up) = Cmd("tx")
        BY <2>0, <2>1, FirstUnit DEF Arrived
      <3>1. \A r : Handles(kind, Now, Head(up), r) => r[4] = Count' /\ (~Stopped' => r = Now')
        BY <2>0, <2>1, <3>0 DEF deviceVars, Handles, At
      <3>2. Expected' = Expected
        BY <2>0, ExpectedSame DEF clientVars
      <3> QED
        BY <2>0, <2>1, <3>1, <3>2, UpTake DEF Arrived, clientVars
    <2>2. CASE NoUnit
      BY <2>0, <2>2, UpNothing DEF deviceVars
    <2> QED
      BY <1>8, <2>1, <2>2 DEF WriteHead
  <1>9. CASE WriteSize
    <2>0. /\ spc = "wsize" /\ spc' = "wdata"
          /\ UNCHANGED <<kind, clientVars, down, addr, buf, deviceVars>>
      BY <1>9 DEF WriteSize
    <2>1. CASE Arrived /\ size' = Head(up)[2] /\ up' = Tail(up) /\ UNCHANGED line
      <3>0. size' = FrameSize
        BY <2>0, <2>1, FirstUnit DEF Arrived, Word
      <3>1. \A r : Handles(kind, Now, Head(up), r) => r[4] = Count' /\ (~Stopped' => r = Now')
        BY <1>0, <2>0, <2>1, <3>0 DEF deviceVars, Handles, At
      <3>2. Expected' = Expected
        BY <2>0, ExpectedSame DEF clientVars
      <3> QED
        BY <2>0, <2>1, <3>1, <3>2, UpTake DEF Arrived, clientVars
    <2>2. CASE NoUnit
      BY <2>0, <2>2, UpNothing DEF deviceVars
    <2> QED
      BY <1>9, <2>1, <2>2 DEF WriteSize
  <1> QED
    BY <1>1, <1>2, <1>3, <1>4, <1>5, <1>6, <1>7, <1>8, <1>9

LEMMA WholeSeq ==
  ASSUME NEW S, NEW b \in Seq(S)
  PROVE  SubSeq(b, 1, Len(b)) = b
  OBVIOUS

\* A piece of a frame: the next samples, which fit in the buffer.
LEMMA NextPiece ==
  ASSUME NetInv, spc = "wdata", size > 0, NEW k \in Pieces(up, size)
  PROVE  /\ kind = "tx" /\ up # <<>> /\ k \in Nat /\ k > 0 /\ k <= size /\ k <= Len(up)
         /\ size \in Nat /\ Len(buf) + size <= BufferSize
         /\ \A i \in 1 .. k : up[i] = Sample(Count + i)
         /\ \E q : /\ Run(kind, Within(size - k, regs, Count + k), SubSeq(up, k + 1, Len(up)), q)
                   /\ cpc # "gone" => q = Expected
                   /\ kind = "tx" /\ line = "fin" => q[4] = Len(wrote)
  <1>1. /\ up \in Seq(Units) /\ kind = "tx" /\ size \in Nat /\ ~Stopped
        /\ buf \in Seq(Nat) /\ stream \in Seq(Nat)
    BY ModulusAssumption DEF NetInv, TypeOK, LinkType, ServerType, DeviceType, KindInv, Stopped
  <1>2. k \in Nat /\ k > 0 /\ k <= size /\ k <= Len(up) /\ up # <<>> /\ Count \in Nat
    BY <1>1 DEF Pieces, Count
  <1>3. Len(buf) + size <= BufferSize
    BY <1>1, <1>2 DEF NetInv, TxInv, FillInv, Fits, Filled
  <1>4. PICK q : /\ Run(kind, Now, up, q)
                 /\ cpc # "gone" => q = Expected
                 /\ kind = "tx" /\ line = "fin" => q[4] = Len(wrote)
    BY <1>1, <1>2 DEF NetInv, UpInv
  <1>5. Now = Within(size, regs, Count)
    BY DEF Now, ServerLoc, ServerArg, Within
  <1>6. /\ \A i \in 1 .. k : up[i] = Nth(kind, Count + i)
        /\ Run(kind, Within(size - k, regs, Count + k), SubSeq(up, k + 1, Len(up)), q)
    <2>1. Run(kind, Within(size, regs, Count), up, q)
      BY <1>4, <1>5
    <2>2. PICK n \in Nat, x \in Nat, s \in Seq(Units) : n = Count /\ x = size /\ s = up
      BY <1>1, <1>2
    <2>3. Run(kind, Within(x, regs, n), s, q) /\ k <= x /\ k <= Len(s) /\ k \in Nat
      BY <1>2, <2>1, <2>2
    <2>4. /\ \A i \in 1 .. k : s[i] = Nth(kind, n + i)
          /\ Run(kind, Within(x - k, regs, n + k), SubSeq(s, k + 1, Len(s)), q)
      BY <2>3, RunPiece, Zenon
    <2> QED
      BY <2>2, <2>4
  <1>7. \A i \in 1 .. k : up[i] = Sample(Count + i)
    BY <1>1, <1>6 DEF Nth
  <1> QED
    BY <1>1, <1>2, <1>3, <1>4, <1>6, <1>7

LEMMA Stored ==
  ASSUME NetInv, spc = "wdata", size > 0, NEW k \in Pieces(up, size),
         SubmitFull(buf \o Contents(up, k))
  PROVE  LET c == Contents(up, k)
         IN  /\ c \in Seq(Nat) /\ Len(c) = k /\ \A i \in 1 .. k : c[i] = Count + i
             /\ \/ /\ Len(buf) + k = BufferSize
                   /\ stream' = stream \o (buf \o c) /\ buf' = <<>>
                \/ Len(buf) + k < BufferSize /\ stream' = stream /\ buf' = buf \o c
             /\ Count' = Count + k /\ buf \in Seq(Nat) /\ stream \in Seq(Nat)
  <1> DEFINE c == Contents(up, k)
             b == buf \o c
  <1>1. /\ k \in Nat /\ k > 0 /\ k <= size /\ size \in Nat /\ Len(buf) + size <= BufferSize
        /\ \A i \in 1 .. k : up[i] = Sample(Count + i)
    BY NextPiece
  <1>2. buf \in Seq(Nat) /\ stream \in Seq(Nat) /\ BufferSize \in Nat
    BY SizesAssumption DEF NetInv, TypeOK, ServerType, DeviceType
  <1>3. Count \in Nat
    BY <1>2 DEF Count
  <1>4. c = [i \in 1 .. k |-> Count + i]
    BY <1>1 DEF Contents, Sample
  <1>5. c \in Seq(Nat) /\ Len(c) = k /\ \A i \in 1 .. k : c[i] = Count + i
    BY <1>1, <1>3, <1>4
  <1> HIDE DEF c
  <1>6. b \in Seq(Nat) /\ Len(b) = Len(buf) + k /\ Len(buf) \in Nat
    BY <1>2, <1>5, Concat
  <1>7. Len(b) <= BufferSize
    BY <1>1, <1>2, <1>6
  <1>8. SubmitFull(b)
    BY DEF c
  <1>9. CASE Len(b) >= BufferSize
    <2> HIDE DEF b
    <2>1. Len(b) = BufferSize
      BY <1>2, <1>6, <1>7, <1>9
    <2>2. stream' = stream \o b /\ buf' = <<>>
      <3>1. stream' = stream \o SubSeq(b, 1, BufferSize) /\ buf' = <<>>
        BY <1>2, <1>8, <2>1 DEF SubmitFull
      <3>2. SubSeq(b, 1, BufferSize) = b
        BY <1>6, <2>1, WholeSeq
      <3> QED
        BY <3>1, <3>2
    <2>3. Len(stream') = Len(stream) + Len(b) /\ Len(stream) \in Nat
      BY <1>2, <1>6, <2>2, Concat
    <2>4. Len(buf') = 0
      BY <2>2
    <2>5. Count' = Count + k
      BY <1>1, <1>6, <2>3, <2>4 DEF Count
    <2> QED
      BY <1>2, <1>5, <1>6, <2>1, <2>2, <2>5 DEF b, c
  <1>10. CASE Len(b) < BufferSize
    <2> HIDE DEF b
    <2>1. stream' = stream /\ buf' = b
      BY <1>2, <1>6, <1>8, <1>10 DEF SubmitFull
    <2>2. Count' = Count + k
      <3>1. Len(stream) \in Nat
        BY <1>2
      <3>2. Len(stream') = Len(stream) /\ Len(buf') = Len(buf) + k
        BY <1>6, <2>1
      <3> QED
        BY <1>1, <1>6, <3>1, <3>2 DEF Count
    <2> QED
      BY <1>2, <1>5, <1>6, <1>10, <2>1, <2>2 DEF b, c
  <1>11. Len(b) >= BufferSize \/ Len(b) < BufferSize
    <2> HIDE DEF b
    <2> QED
      BY <1>1, <1>2, <1>6
  <1> QED
    BY <1>9, <1>10, <1>11

LEMMA UpStep == ASSUME NetInv, Step PROVE UpInv'
  <1>0. TypeOK /\ LineInv /\ KindInv /\ up \in Seq(Units)
    BY DEF NetInv, TypeOK, LinkType
  <1>1. CASE Hangup /\ cpc # "gone"
    <2>0. /\ cpc' = "gone" /\ UNCHANGED <<kind, wrote, spc, size, addr, buf, regs, stream>>
      BY <1>1 DEF Hangup, serverVars, deviceVars
    <2>1. Now' = Now /\ Count' = Count /\ Stopped' = Stopped
      BY <2>0 DEF Now, ServerLoc, ServerArg, Count, Stopped
    <2>2. PICK p : /\ Run(kind, p, up, Expected) /\ p[4] = Count
                   /\ ~Stopped => p = Now
      BY <1>1 DEF NetInv, UpInv
    <2>3. CASE up' = up
      <3>1. Expected[4] = Len(wrote)
        BY DEF Expected
      <3> QED
        BY <2>0, <2>1, <2>2, <2>3, <3>1 DEF UpInv
    <2>4. CASE line' = "rst" /\ \E n \in 0 .. Len(up) : up' = SubSeq(up, 1, n)
      <3>1. \E r : Run(kind, p, up', r)
        BY <1>0, <2>2, <2>4, RunCut
      <3> QED
        BY <2>0, <2>1, <2>2, <2>4, <3>1 DEF UpInv
    <2> QED
      BY <1>1, <2>3, <2>4 DEF Hangup
  <1>2. CASE CmdRead
    <2>0. /\ spc = "reply" /\ UNCHANGED <<kind, clientVars, up, serverVars, deviceVars>>
          /\ Count' = Count /\ (line' = "fin" => line = "fin")
      BY <1>2 DEF CmdRead, ServerSends, Count, serverVars, deviceVars
    <2>1. CASE cpc = "gone"
      <3>1. up = <<>>
        BY <2>0, FirstUnit
      <3> QED
        BY <2>0, <2>1, <3>1, UpStay DEF clientVars
    <2>2. CASE cpc # "gone"
      <3>1. up = <<>> /\ cpc = "value" /\ regs = shadow /\ Now = Expected
        BY <2>0, <2>2, Answered
      <3>2. line = "up" /\ down = <<>>
        BY <1>0, <2>0, <3>1 DEF LineInv, NetInv, CallInv
      <3>3. spc' = "cmd" /\ down' # <<>> /\ line' = "up" /\ up' = <<>>
        BY <1>2, <2>0, <3>1, <3>2, OneUnit DEF CmdRead, ServerSends
      <3>4. Count = Len(wrote)
        BY <3>1 DEF Now, Expected
      <3>5. Now' = <<"cmd", 0, regs, Count>>
        BY <2>0, <3>3 DEF Now, ServerLoc, ServerArg, deviceVars
      <3>6. Expected' = <<"cmd", 0, shadow, Len(wrote)>>
        BY <2>0, <3>1, <3>3 DEF Expected, ExpectedLoc, ExpectedArg, clientVars
      <3>7. Run(kind', Now', up', Now') /\ Now'[4] = Count' /\ Now' = Expected'
        BY <2>0, <3>1, <3>3, <3>4, <3>5, <3>6, RunEmpty
      <3> QED
        BY <3>3, <3>7 DEF UpInv
    <2> QED
      BY <2>1, <2>2
  <1>3. CASE WriteData
    <2>0. spc = "wdata" /\ kind = "tx" /\ UNCHANGED <<kind, clientVars, down, regs>>
      BY <1>0, <1>3 DEF WriteData, KindInv
    <2>1. cpc # "gone" => Expected' = Expected
      BY <2>0, ExpectedSame DEF clientVars
    <2>2. CASE /\ (size = 0 \/ Eof) /\ spc' = "wack"
               /\ UNCHANGED <<up, line, size, buf, noBuffer, stream>>
      <3>1. Eof => cpc = "gone" /\ up = <<>>
        BY <1>0 DEF Eof, LineInv
      <3>2. size = 0 => Now' = Now /\ ~Stopped
        BY <2>0, <2>2 DEF Now, ServerLoc, ServerArg, Count, Stopped
      <3>3. Count' = Count
        BY <2>2 DEF Count
      <3> QED
        BY <2>0, <2>1, <2>2, <3>1, <3>2, <3>3, UpStay DEF clientVars
    <2>3. CASE spc' = "killed" /\ UNCHANGED <<up, line, size, buf, noBuffer, stream>>
      <3>1. Count' = Count /\ Stopped'
        BY <2>3 DEF Count, Stopped
      <3> QED
        BY <2>0, <2>1, <2>3, <3>1, UpStay DEF clientVars
    <2>4. CASE size > 0 /\ ReceivePiece
      <3>1. PICK k \in Pieces(up, size) : /\ up' = SubSeq(up, k + 1, Len(up))
                                          /\ size' = size - k
                                          /\ SubmitFull(buf \o Contents(up, k))
        BY <2>4 DEF ReceivePiece
      <3>2. PICK q : /\ Run(kind, Within(size - k, regs, Count + k), SubSeq(up, k + 1, Len(up)), q)
                     /\ cpc # "gone" => q = Expected
                     /\ kind = "tx" /\ line = "fin" => q[4] = Len(wrote)
        BY <2>0, <2>4, NextPiece
      <3>3. Count' = Count + k
        BY <2>0, <2>4, <3>1, Stored
      <3>4. spc' = spc /\ line' = line
        BY <2>4 DEF ReceivePiece
      <3>5. Now' = Within(size - k, regs, Count + k)
        BY <2>0, <3>1, <3>3, <3>4 DEF Now, ServerLoc, ServerArg, Within
      <3>6. Run(kind', Now', up', q) /\ Now'[4] = Count'
        BY <2>0, <3>1, <3>2, <3>3, <3>5 DEF Within
      <3> QED
        BY <2>0, <2>1, <3>2, <3>4, <3>6 DEF UpInv, clientVars
    <2>5. CASE ReceiveError
      <3>1. cpc' = "gone" /\ up' = <<>> /\ line' = "dead"
        BY <1>0, <2>0, <2>5 DEF ReceiveError, Error, LineInv, clientVars
      <3> DEFINE p == <<0, 0, 0, Count'>>
      <3>2. Run(kind', p, up', p) /\ p[4] = Count'
        BY <3>1, RunEmpty
      <3> HIDE DEF p
      <3> QED
        BY <3>1, <3>2 DEF UpInv
    <2> QED
      BY <1>3, <2>2, <2>3, <2>4, <2>5 DEF WriteData
  <1>4. CASE Reset \/ UNCHANGED vars
    <2>1. /\ UNCHANGED <<kind, clientVars, down, up, spc, size, addr, buf, stream, regs>>
          /\ line' = "fin" => line = "fin"
      BY <1>4 DEF Reset, vars, serverVars, deviceVars
    <2>2. Now' = Now /\ Count' = Count /\ Stopped' = Stopped
      BY <2>1 DEF Now, ServerLoc, ServerArg, Count, Stopped
    <2>3. Expected' = Expected
      BY <2>1, ExpectedSame DEF clientVars
    <2> QED
      BY <2>1, <2>2, <2>3, UpStay DEF clientVars
  <1> QED
    BY <1>0, <1>1, <1>2, <1>3, <1>4, StepCases, UpClient, UpServer
-----------------------------------------------------------------------------
(***************************************************************************)
(* What is under way to the client of a receive stream.                    *)
(***************************************************************************)
LEMMA Division ==
  ASSUME NEW f \in Nat, NEW n \in Nat, n > 0, NEW r \in 0 .. n - 1
  PROVE  (f * n + r) \div n = f
  OBVIOUS

LEMMA Remainder ==
  ASSUME NEW f \in Nat, NEW n \in Nat, n > 0, NEW r \in 0 .. n - 1
  PROVE  (f * n + r) % n = r
  OBVIOUS

LEMMA OneMore ==
  ASSUME NEW f \in Nat, NEW n \in Nat
  PROVE  (f + 1) * n = f * n + n /\ f * n \in Nat
  OBVIOUS

LEMMA InPacketType ==
  ASSUME NEW p \in Nat, NEW k \in Nat
  PROVE  InPacket(p, k) \in Nat
  <1>1. CASE p = 0
    BY <1>1 DEF InPacket
  <1>2. CASE p # 0
    <2>1. p - 1 \in Nat /\ PacketSize \in Nat
      BY <1>2, SizesAssumption
    <2>2. (p - 1) * PacketSize \in Nat
      BY <2>1, OneMore
    <2> QED
      BY <2>2 DEF InPacket
  <1> QED
    BY <1>1, <1>2

LEMMA ReceivedType ==
  ASSUME NEW n \in Nat, n > 0
  PROVE  Received(n) \in Nat
  <1>1. n - 1 \in Nat /\ FrameSize \in Nat /\ FrameSize > 0 /\ RingSize \in Nat
    BY SizesAssumption
  <1>2. (n - 1) \div FrameSize + 1 \in Int /\ ((n - 1) % FrameSize) + 1 \in Nat
    BY <1>1
  <1>3. Packet((n - 1) \div FrameSize + 1) \in Nat
    BY <1>1, <1>2 DEF Packet
  <1> QED
    BY <1>2, <1>3, InPacketType DEF Received

\* The buffer whose turn it is holds the next frame.
LEMMA RingFrame ==
  ASSUME NetInv
  PROVE  \E w \in Seq(Units) :
            /\ FrameSent = <<Header("rx"), Word(FrameSize)>> \o w /\ Len(w) = FrameSize
            /\ \A i \in 1 .. FrameSize : w[i] = Nth("rx", packets * FrameSize + i)
            /\ FrameSent \in Seq(Units) /\ Len(FrameSent) = FrameSize + 2
  <1>1. /\ FrameSize \in Nat /\ FrameSize > 0 /\ packets \in Nat
        /\ ring[cur] \in Nat /\ cur \in 0 .. RingSize - 1 /\ cur \in Int /\ RingSize \in Nat
    BY SizesAssumption DEF NetInv, TypeOK, DeviceType
  <1>2. ring[cur] = Packet(packets + 1)
    <2>1. ring[cur] = Packet(packets + 1 + (IF cur >= cur THEN cur - cur ELSE cur - cur + RingSize))
      BY <1>1 DEF NetInv, RingInv
    <2>2. packets + 1 + (IF cur >= cur THEN cur - cur ELSE cur - cur + RingSize) = packets + 1
      BY <1>1
    <2> QED
      BY <2>1, <2>2
  <1> DEFINE F(k) == Sample(InPacket(ring[cur], k))
             w == [k \in 1 .. FrameSize |-> F(k)]
             v == <<Header("rx"), Word(FrameSize)>>
  <1>3. FrameSent = v \o w
    BY DEF FrameSent, Samples, Header
  <1>4. w \in Seq(Units) /\ Len(w) = FrameSize
    <2>1. \A i \in 1 .. FrameSize : F(i) \in Units
      <3> TAKE i \in 1 .. FrameSize
      <3>0. PICK p \in Nat, k \in Nat : p = ring[cur] /\ k = i
        BY <1>1
      <3>1. InPacket(ring[cur], i) \in Int
        <4>1. InPacket(p, k) \in Nat
          BY InPacketType
        <4> QED
          BY <3>0, <4>1
      <3> QED
        BY <3>1, UnitType
    <2> HIDE DEF F
    <2> QED
      BY <1>1, <2>1, FunctionSeq
  <1>5. ASSUME NEW i \in 1 .. FrameSize
        PROVE  w[i] = Nth("rx", packets * FrameSize + i)
    <2>1. i - 1 \in 0 .. FrameSize - 1
      BY <1>1
    <2>2. /\ (packets * FrameSize + (i - 1)) \div FrameSize = packets
          /\ (packets * FrameSize + (i - 1)) % FrameSize = i - 1
      BY <1>1, <2>1, Division, Remainder
    <2>3. packets * FrameSize \in Nat
      BY <1>1, OneMore
    <2>4. (packets * FrameSize + i) - 1 = packets * FrameSize + (i - 1) /\ (i - 1) + 1 = i
      BY <1>1, <2>3
    <2>5. Received(packets * FrameSize + i) = InPacket(ring[cur], i)
      BY <1>2, <2>2, <2>4 DEF Received
    <2> QED
      BY <2>5 DEF Nth
  <1>6. v \in Seq(Units) /\ Len(v) = 2
    <2>1. Header("rx") \in Units /\ Word(FrameSize) \in Units
      BY <1>1, UnitType DEF Header, Tags
    <2> QED
      BY <2>1
  <1> HIDE DEF v, w
  <1>7. FrameSent \in Seq(Units) /\ Len(FrameSent) = FrameSize + 2
    <2>1. v \o w \in Seq(Units) /\ Len(v \o w) = Len(v) + Len(w)
      <3>1. v \in Seq(Units) /\ w \in Seq(Units)
        BY <1>4, <1>6
      <3> QED
        BY <3>1, Concat
    <2> QED
      BY <1>1, <1>3, <1>4, <1>6, <2>1
  <1> QED
    BY <1>3, <1>4, <1>5, <1>7 DEF v

\* A frame under way, taken in pieces.
LEMMA ReadPiece ==
  ASSUME TypeOK, cpc = "data", NEW q, Run("rx", Within(remain, 0, Len(got)), down, q),
         NEW k \in Pieces(down, remain)
  PROVE  LET c == Contents(down, k)
         IN  /\ k \in Nat /\ k > 0 /\ k <= remain /\ k <= Len(down) /\ remain \in Nat
             /\ c \in Seq(Nat) /\ Len(c) = k
             /\ \A i \in 1 .. k : Sample(c[i]) = Nth("rx", Len(got) + i)
             /\ Run("rx", Within(remain - k, 0, Len(got) + k), SubSeq(down, k + 1, Len(down)), q)
  <1>1. down \in Seq(Units) /\ remain \in Nat /\ got \in Seq(Nat)
    BY SizesAssumption DEF TypeOK, LinkType, ClientType
  <1>2. k \in Nat /\ k > 0 /\ k <= remain /\ k <= Len(down)
    BY <1>1 DEF Pieces
  <1>4. PICK n \in Nat, x \in Nat, s \in Seq(Units) : n = Len(got) /\ x = remain /\ s = down
    BY <1>1
  <1>5. Run("rx", Within(x, 0, n), s, q) /\ k <= x /\ k <= Len(s) /\ k \in Nat
    BY <1>2, <1>4
  <1>6. /\ \A i \in 1 .. k : s[i] = Nth("rx", n + i)
        /\ Run("rx", Within(x - k, 0, n + k), SubSeq(s, k + 1, Len(s)), q)
    BY <1>5, RunPiece, Zenon
  <1>7. ASSUME NEW i \in 1 .. k
        PROVE  down[i] = Sample(down[i][2]) /\ down[i][2] \in Nat /\ down[i] = Nth("rx", n + i)
    <2>1. down[i] = Nth("rx", n + i)
      BY <1>4, <1>6
    <2>2. n + i \in Nat /\ n + i > 0
      BY <1>2
    <2>3. Received(n + i) \in Nat
      BY <2>2, ReceivedType
    <2> QED
      BY <2>1, <2>3 DEF Nth, Sample
  <1> DEFINE F(i) == down[i][2]
  <1>8. /\ [i \in 1 .. k |-> F(i)] \in Seq(Nat) /\ Len([i \in 1 .. k |-> F(i)]) = k
    <2>1. \A i \in 1 .. k : F(i) \in Nat
      BY <1>7
    <2> HIDE DEF F
    <2> QED
      BY <1>2, <2>1, FunctionSeq
  <1>9. Contents(down, k) = [i \in 1 .. k |-> F(i)]
    BY DEF Contents
  <1>10. \A i \in 1 .. k : Sample(Contents(down, k)[i]) = Nth("rx", Len(got) + i)
    BY <1>4, <1>7, <1>9
  <1>11. Run("rx", Within(remain - k, 0, Len(got) + k), SubSeq(down, k + 1, Len(down)), q)
    BY <1>4, <1>6
  <1> HIDE DEF F
  <1> QED
    BY <1>1, <1>2, <1>8, <1>9, <1>10, <1>11

\* A step that neither end of a receive stream takes.
LEMMA DownQuiet ==
  ASSUME NetInv, UNCHANGED <<kind, clientVars, packets>>,
         cpc \in {"new", "ack", "path", "fd"} \/ UNCHANGED <<down, FramesSent>> \/ kind # "rx"
  PROVE  DownInv'
  <1>1. DownInv /\ Reader' = Reader
    BY DEF NetInv, Reader, clientVars
  <1> QED
    BY <1>1 DEF DownInv, clientVars

LEMMA DownStep ==
  ASSUME NetInv, Step
  PROVE  DownInv' /\ got' \in Seq(Nat) /\ remain' \in 0 .. FrameSize
  <1>0. /\ DownInv /\ KindInv /\ OpenInv /\ LineInv /\ TypeOK
        /\ down \in Seq(Units) /\ got \in Seq(Nat) /\ remain \in 0 .. FrameSize
        /\ FrameSize \in Nat /\ FrameSize > 0 /\ packets \in Nat
    <2>1. FrameSize \in Nat /\ FrameSize > 0
      BY SizesAssumption
    <2>2. DownInv /\ KindInv /\ OpenInv /\ LineInv /\ TypeOK
      BY DEF NetInv
    <2>3. /\ down \in Seq(Units) /\ got \in Seq(Nat) /\ remain \in 0 .. FrameSize
          /\ packets \in Nat
      BY <2>2 DEF TypeOK, LinkType, ClientType, DeviceType
    <2> QED
      BY <2>1, <2>2, <2>3
  <1>1. CASE Hangup
    BY <1>0, <1>1 DEF Hangup, DownInv
  <1>2. CASE Handshake \/ HandshakeAck \/ OpenRemoteDevice
    BY <1>0, <1>2 DEF Handshake, HandshakeAck, OpenRemoteDevice, deviceVars, DownInv
  <1>3. CASE DeviceOpened
    <2>1. /\ cpc = "fd" /\ cpc' = "ready" /\ spc = "cmd" /\ down' = <<>>
          /\ UNCHANGED <<kind, got, remain, spc, packets>>
      BY <1>0, <1>3, OneUnit DEF DeviceOpened, ClientReceives, OpenInv, deviceVars
    <2>2. kind = "rx" => Run("rx", Reader', down', Within(0, 0, FramesSent' * FrameSize))
      <3> SUFFICES ASSUME kind = "rx"
                   PROVE  Run("rx", Reader', down', Within(0, 0, FramesSent' * FrameSize))
        OBVIOUS
      <3>1. packets = 0 /\ got = <<>>
        BY <1>0, <2>1 DEF DownInv
      <3>2. Reader' = Within(0, 0, 0) /\ FramesSent' = 0
        BY <2>1, <3>1 DEF Reader, FramesSent
      <3>3. 0 * FrameSize = 0
        BY <1>0
      <3> QED
        BY <2>1, <3>2, <3>3, RunEmpty
    <2> QED
      BY <1>0, <2>1, <2>2 DEF DownInv
  <1>4. ASSUME CallAddr \/ CallValue \/ CallReturn \/ WriteStreamNet
        PROVE  DownInv' /\ UNCHANGED <<got, remain>>
    BY <1>0, <1>4 DEF CallAddr, CallValue, CallReturn, WriteStreamNet, DownInv, KindInv
  <1>5. ASSUME NEW a, NEW v, ReadNet(a) \/ WriteNet(a, v)
        PROVE  DownInv' /\ UNCHANGED <<got, remain>>
    BY <1>0, <1>5 DEF ReadNet, WriteNet, DownInv, KindInv
  <1>6. ASSUME StartStream PROVE DownInv' /\ UNCHANGED <<got, remain>>
    <2>1. /\ cpc = "ready" /\ cpc' = (IF kind = "tx" THEN "write" ELSE "head")
          /\ UNCHANGED <<kind, got, remain, down, spc, packets>>
      BY <1>6 DEF StartStream, BeginCall, deviceVars
    <2>2. Reader' = Reader /\ FramesSent' = FramesSent
      BY <2>1 DEF Reader, FramesSent
    <2> QED
      BY <1>0, <2>1, <2>2 DEF DownInv
  <1>7. CASE ReadHead
    <2>1. /\ cpc = "head" /\ kind = "rx" /\ UNCHANGED <<kind, got, remain, spc, packets>>
      BY <1>0, <1>7 DEF ReadHead, deviceVars, KindInv
    <2>2. FramesSent' = FramesSent /\ Reader = Within(0, 0, Len(got))
      BY <2>1 DEF FramesSent, Reader
    <2>3. Run("rx", Reader, down, Within(0, 0, FramesSent * FrameSize))
      BY <1>0, <2>1 DEF DownInv
    <2>4. CASE cpc' = "ready" /\ UNCHANGED down
      <3>1. Reader' = Reader
        BY <2>1, <2>2, <2>4 DEF Reader
      <3> QED
        BY <1>0, <2>1, <2>2, <2>3, <2>4, <3>1 DEF DownInv
    <2>5. CASE ClientReceives(Cmd("frame")) /\ cpc' = "size"
      <3>1. down # <<>> /\ down' = Tail(down)
        BY <2>5 DEF ClientReceives
      <3>2. PICK r : /\ Handles("rx", Reader, Head(down), r)
                     /\ Run("rx", r, Tail(down), Within(0, 0, FramesSent * FrameSize))
        BY <1>0, <2>3, <3>1, RunHead
      <3>3. Reader' = <<"size", 0, 0, Len(got)>>
        BY <2>1, <2>5 DEF Reader
      <3>4. r = Reader'
        BY <2>2, <3>2, <3>3 DEF Handles, At, Within
      <3> QED
        BY <1>0, <2>1, <2>2, <2>5, <3>1, <3>2, <3>4 DEF DownInv
    <2> QED
      BY <1>7, <2>4, <2>5 DEF ReadHead
  <1>8. CASE ReadSize
    <2>1. /\ cpc = "size" /\ kind = "rx" /\ UNCHANGED <<kind, got, spc, packets>>
      BY <1>0, <1>8 DEF ReadSize, deviceVars, KindInv
    <2>2. FramesSent' = FramesSent /\ Reader = <<"size", 0, 0, Len(got)>>
      BY <2>1 DEF FramesSent, Reader
    <2>3. Run("rx", Reader, down, Within(0, 0, FramesSent * FrameSize))
      BY <1>0, <2>1 DEF DownInv
    <2>4. down # <<>>
      <3> SUFFICES ASSUME down = <<>> PROVE FALSE
        OBVIOUS
      <3>1. Reader = Within(0, 0, FramesSent * FrameSize)
        BY <2>3, RunEmpty
      <3> QED
        BY <2>2, <3>1 DEF Within
    <2>5. down' = Tail(down) /\ remain' = FrameSize /\ cpc' = "data"
      BY <1>8, <2>4 DEF ReadSize, ClientReceives, ClientEof
    <2>6. PICK r : /\ Handles("rx", Reader, Head(down), r)
                   /\ Run("rx", r, Tail(down), Within(0, 0, FramesSent * FrameSize))
      BY <1>0, <2>3, <2>4, RunHead
    <2>7. Reader' = <<"data", FrameSize, 0, Len(got)>>
      BY <1>0, <2>1, <2>5 DEF Reader, Within
    <2>8. r = Reader'
      BY <2>2, <2>6, <2>7 DEF Handles, At
    <2> QED
      BY <1>0, <2>1, <2>2, <2>5, <2>6, <2>8 DEF DownInv
  <1>9. CASE ReadData
    <2>1. /\ cpc = "data" /\ kind = "rx" /\ UNCHANGED <<kind, spc, packets>>
      BY <1>0, <1>9 DEF ReadData, deviceVars, KindInv
    <2>2. PICK k \in Pieces(down, remain) :
              /\ got' = got \o Contents(down, k)
              /\ down' = SubSeq(down, k + 1, Len(down))
              /\ remain' = remain - k
              /\ cpc' = IF remain' = 0 THEN "ready" ELSE "data"
      BY <1>9 DEF ReadData, RemainAfter
    <2>3. PICK c : c = Contents(down, k)
      OBVIOUS
    <2>4. /\ k \in Nat /\ k > 0 /\ k <= remain /\ k <= Len(down) /\ remain \in Nat
          /\ c \in Seq(Nat) /\ Len(c) = k
          /\ \A i \in 1 .. k : Sample(c[i]) = Nth("rx", Len(got) + i)
          /\ Run("rx", Within(remain - k, 0, Len(got) + k), SubSeq(down, k + 1, Len(down)),
                 Within(0, 0, FramesSent * FrameSize))
      <3>1. Run("rx", Within(remain, 0, Len(got)), down, Within(0, 0, FramesSent * FrameSize))
        BY <1>0, <2>1 DEF DownInv, Reader
      <3> QED
        BY <1>0, <2>1, <2>3, <3>1, ReadPiece
    <2>5. /\ got' \in Seq(Nat) /\ Len(got) \in Nat /\ Len(got') = Len(got) + k
          /\ \A i \in 1 .. Len(got) : got'[i] = got[i]
          /\ \A i \in 1 .. k : got'[Len(got) + i] = c[i]
      <3>0. got \in Seq(Nat) /\ c \in Seq(Nat)
        BY <1>0, <2>4
      <3>1. got' = got \o c /\ Len(c) = k
        BY <2>2, <2>3, <2>4
      <3>2. PICK g \in Seq(Nat) : g = got
        BY <3>0
      <3>3. /\ g \o c \in Seq(Nat) /\ Len(g) \in Nat
            /\ Len(g \o c) = Len(g) + Len(c)
            /\ \A i \in 1 .. Len(g) : (g \o c)[i] = g[i]
            /\ \A i \in 1 .. Len(c) : (g \o c)[Len(g) + i] = c[i]
        BY <3>0, Concat
      <3> QED
        BY <3>1, <3>2, <3>3
    <2>6. FramesSent' = FramesSent
      BY <2>1 DEF FramesSent
    <2>7. Reader' = Within(remain - k, 0, Len(got) + k)
      BY <2>2, <2>4, <2>5 DEF Reader, Within
    <2>8. Run("rx", Reader', down', Within(0, 0, FramesSent' * FrameSize))
      BY <2>2, <2>4, <2>6, <2>7
    <2>9. ASSUME NEW i \in 1 .. Len(got') PROVE Sample(got'[i]) = Nth("rx", i)
      <3>1. CASE i \in 1 .. Len(got)
        BY <1>0, <2>5, <3>1 DEF DownInv
      <3>2. CASE i \notin 1 .. Len(got)
        <4>1. PICK j \in 1 .. k : i = Len(got) + j
          <5>1. i - Len(got) \in 1 .. k /\ i = Len(got) + (i - Len(got))
            BY <2>4, <2>5, <3>2
          <5> QED
            BY <5>1
        <4> QED
          BY <2>4, <2>5, <4>1
      <3> QED
        BY <3>1, <3>2
    <2>10. cpc' = "data" => remain' > 0
      BY <2>2, <2>4
    <2>11. cpc' \in {"ready", "data"} /\ remain' \in 0 .. FrameSize
      BY <1>0, <2>2, <2>4
    <2> QED
      BY <2>1, <2>5, <2>8, <2>9, <2>10, <2>11 DEF DownInv
  <1>10. ASSUME \/ FinishHandshake \/ DeviceOption \/ AddDevice \/ CloseChannel
                \/ MappedCmd \/ ParamAddr \/ CmdWrite \/ CmdRead
                \/ StreamCmd \/ WriteHead \/ WriteSize \/ WriteData \/ WriteAck
                \/ Reset \/ UNCHANGED vars
         PROVE  DownInv' /\ UNCHANGED <<got, remain>>
    <2>1. UNCHANGED <<kind, clientVars, packets>>
      BY <1>10 DEF FinishHandshake, DeviceOption, AddDevice, CloseChannel,
            MappedCmd, ParamAddr, CmdWrite, CmdRead, StreamCmd, WriteHead, WriteSize,
            WriteData, WriteAck, Reset, vars, deviceVars
    <2>2. CASE FinishHandshake \/ DeviceOption \/ AddDevice
      <3>1. cpc \in {"new", "ack", "path", "fd", "gone"}
        BY <1>0, <2>2 DEF FinishHandshake, DeviceOption, AddDevice, OpenInv
      <3>2. CASE cpc = "gone"
        BY <1>0, <2>1, <3>2 DEF DownInv, clientVars
      <3> QED
        BY <2>1, <3>1, <3>2, DownQuiet DEF clientVars
    <2>3. CASE CloseChannel \/ StreamCmd \/ Reset \/ UNCHANGED vars
      <3>1. UNCHANGED <<down, FramesSent>>
        BY <2>1, <2>3 DEF CloseChannel, StreamCmd, Reset, vars, FramesSent
      <3> QED
        BY <2>1, <3>1, DownQuiet DEF clientVars
    <2>4. CASE \/ MappedCmd \/ ParamAddr \/ CmdWrite \/ CmdRead
               \/ WriteHead \/ WriteSize \/ WriteData \/ WriteAck
      <3>1. kind # "rx"
        BY <1>0, <2>4 DEF MappedCmd, ParamAddr, CmdWrite, CmdRead, WriteHead, WriteSize,
                          WriteData, WriteAck, KindInv
      <3> QED
        BY <2>1, <3>1, DownQuiet DEF clientVars
    <2> QED
      BY <1>10, <2>2, <2>3, <2>4
  <1>11. ASSUME ReadSend PROVE DownInv' /\ UNCHANGED <<got, remain>>
    <2>1. spc = "rsend" /\ kind = "rx" /\ UNCHANGED <<kind, clientVars, packets>>
      BY <1>0, <1>11 DEF ReadSend, deviceVars, KindInv
    <2>2. CASE cpc = "gone"
      BY <1>0, <2>1, <2>2 DEF DownInv, clientVars
    <2>3. CASE down' = down /\ spc' # "rread"
      <3>1. FramesSent' = FramesSent
        BY <2>1, <2>3 DEF FramesSent
      <3> QED
        BY <2>1, <2>3, <3>1, DownQuiet DEF clientVars
    <2>4. CASE cpc # "gone" /\ ~(down' = down /\ spc' # "rread")
      <3> DEFINE n == packets * FrameSize
      <3>2. PICK w \in Seq(Units) :
                /\ FrameSent = <<Header("rx"), Word(FrameSize)>> \o w
                /\ Len(w) = FrameSize /\ \A i \in 1 .. FrameSize : w[i] = Nth("rx", n + i)
        BY RingFrame
      <3>1. down' = down \o (<<Header("rx"), Word(FrameSize)>> \o w) /\ spc' = "rread"
        <4>1. line = "up"
          BY <1>0, <2>4 DEF LineInv
        <4> QED
          BY <1>11, <2>4, <3>2, <4>1 DEF ReadSend, ServerSends
      <3>3. cpc \notin {"new", "ack", "path", "fd"} /\ cpc' = cpc
        BY <1>0, <2>1 DEF OpenInv, clientVars
      <3>4. FramesSent = packets /\ FramesSent' = packets + 1
        BY <2>1, <3>1 DEF FramesSent
      <3>5. n \in Nat /\ FramesSent' * FrameSize = n + FrameSize
        BY <1>0, <3>4, OneMore
      <3> HIDE DEF n
      <3>6. Run("rx", Reader, down, Within(0, 0, n)) =>
              Run("rx", Reader, down', Within(0, 0, n + FrameSize))
        BY <1>0, <3>1, <3>2, <3>5, RunFrame
      <3>7. Reader' = Reader
        BY <2>1 DEF Reader, clientVars
      <3>8. cpc \in {"ready", "head", "size", "data"} =>
              Run("rx", Reader, down, Within(0, 0, n))
        BY <1>0, <2>1, <3>4 DEF DownInv, n
      <3> QED
        BY <1>0, <2>1, <3>3, <3>5, <3>6, <3>7, <3>8 DEF DownInv, clientVars
    <2> QED
      BY <2>2, <2>3, <2>4
  <1>12. ASSUME ReadStart PROVE DownInv' /\ UNCHANGED <<got, remain>>
    <2>1. /\ spc = "rread" /\ spc' = "rsend" /\ packets' = packets + 1
          /\ UNCHANGED <<kind, clientVars, down>>
      BY <1>12 DEF ReadStart
    <2>2. FramesSent' = FramesSent /\ Reader' = Reader
      BY <1>0, <2>1 DEF FramesSent, Reader, clientVars
    <2>3. cpc \notin {"new", "ack", "path", "fd"}
      BY <1>0, <2>1 DEF OpenInv
    <2> QED
      BY <1>0, <2>1, <2>2, <2>3 DEF DownInv, clientVars
  <1> QED
    BY <1>0, <1>1, <1>2, <1>3, <1>4, <1>5, <1>6, <1>7, <1>8, <1>9, <1>10, <1>11, <1>12,
       StepCases DEF Hangup, Handshake, HandshakeAck, OpenRemoteDevice, DeviceOpened,
                     ReadHead, ReadSize

LEMMA NextSlot ==
  ASSUME NEW c \in Nat, NEW n \in Nat, n > 0, c < n
  PROVE  (c + 1) % n = IF c + 1 = n THEN 0 ELSE c + 1
  OBVIOUS

LEMMA RingStep == ASSUME NetInv, Step PROVE RingInv' /\ DeviceType'
  <1>0. RingInv /\ DeviceType /\ TypeOK /\ RingSize \in Nat /\ RingSize > 0 /\ KindInv
    BY SizesAssumption DEF NetInv, TypeOK
  <1>1. CASE ReadStart
    <2>1. /\ ring \in [0 .. RingSize - 1 -> Nat] /\ cur \in 0 .. RingSize - 1
          /\ packets \in Nat /\ UNCHANGED <<regs, stream>>
          /\ ring' = [ring EXCEPT ![cur] = packets + 1] /\ packets' = packets + 1
      BY <1>0, <1>1 DEF ReadStart, Refilled, DeviceType
    <2>2. cur' = IF cur + 1 = RingSize THEN 0 ELSE cur + 1
      BY <1>0, <1>1, <2>1, NextSlot DEF ReadStart
    <2>3. RingInv'
      BY <1>0, <2>1, <2>2 DEF RingInv, Packet
    <2>4. DeviceType'
      BY <1>0, <2>1, <2>2 DEF DeviceType
    <2> QED
      BY <2>3, <2>4
  <1>2. ASSUME UNCHANGED <<ring, cur, packets>>, regs' \in [0 .. RegCount -> Int], stream' \in Seq(Nat)
        PROVE  RingInv' /\ DeviceType'
    BY <1>0, <1>2 DEF RingInv, DeviceType
  <1>3. CASE CmdWrite
    <2>1. UNCHANGED <<stream, ring, cur, packets>>
      BY <1>3 DEF CmdWrite
    <2>2. \E v \in Int : regs' = WriteLocal(regs, addr, v)
      <3>1. Values \subseteq Int
        BY SizesAssumption
      <3>2. Arrived => Head(up)[2] \in Int
        BY <1>3, <3>1, FirstUnit DEF CmdWrite, Arrived, Word
      <3> QED
        BY <1>3, <3>1, <3>2 DEF CmdWrite, Written
    <2>3. regs' \in [0 .. RegCount -> Int]
      BY <1>0, <2>2 DEF DeviceType, WriteLocal
    <2> QED
      BY <1>0, <1>2, <2>1, <2>3 DEF DeviceType
  <1>4. CASE WriteData
    <2>1. UNCHANGED <<regs, ring, cur, packets>> /\ spc = "wdata"
      BY <1>4 DEF WriteData
    <2>2. stream' \in Seq(Nat)
      <3>1. CASE stream' = stream
        BY <1>0, <3>1 DEF DeviceType
      <3>2. ASSUME size > 0, NEW k \in Pieces(up, size), SubmitFull(buf \o Contents(up, k))
            PROVE  stream' \in Seq(Nat)
        <4>1. PICK c : c = Contents(up, k)
          OBVIOUS
        <4>2. /\ c \in Seq(Nat) /\ buf \in Seq(Nat) /\ stream \in Seq(Nat)
              /\ stream' = stream \o (buf \o c) \/ stream' = stream
          BY <2>1, <3>2, <4>1, Stored
        <4>3. buf \o c \in Seq(Nat)
          BY <4>2, ConcatType
        <4>4. stream \o (buf \o c) \in Seq(Nat)
          BY <4>2, <4>3, ConcatType
        <4> QED
          BY <4>2, <4>4
      <3>3. CASE ReceiveError
        <4>1. stream' = stream \/ stream' = stream \o [k \in 1 .. BufferSize |-> 0]
          BY <3>3 DEF ReceiveError
        <4>2. [k \in 1 .. BufferSize |-> 0] \in Seq(Nat) /\ stream \in Seq(Nat)
          BY <1>0, SizesAssumption DEF DeviceType
        <4>3. stream \o [k \in 1 .. BufferSize |-> 0] \in Seq(Nat)
          BY <4>2, ConcatType
        <4> QED
          BY <4>1, <4>2, <4>3
      <3> QED
        BY <1>4, <3>1, <3>2, <3>3 DEF WriteData, ReceivePiece
    <2> QED
      BY <1>0, <1>2, <2>1, <2>2 DEF DeviceType
  <1>5. CASE UNCHANGED deviceVars
    BY <1>0, <1>2, <1>5 DEF deviceVars, DeviceType
  <1>6. CASE \/ Hangup \/ Handshake \/ HandshakeAck \/ OpenRemoteDevice \/ DeviceOpened
             \/ CallAddr \/ CallValue \/ CallReturn
             \/ WriteStreamNet \/ ReadHead \/ ReadSize \/ ReadData \/ StartStream
    BY <1>5, <1>6 DEF Hangup, Handshake, HandshakeAck, OpenRemoteDevice, DeviceOpened,
          CallAddr, CallValue, CallReturn, WriteStreamNet, ReadHead, ReadSize, ReadData, StartStream
  <1>7. ASSUME NEW a, NEW v, ReadNet(a) \/ WriteNet(a, v) PROVE UNCHANGED deviceVars
    BY <1>7 DEF ReadNet, WriteNet
  <1>8. CASE \/ FinishHandshake \/ DeviceOption \/ AddDevice \/ CloseChannel
             \/ MappedCmd \/ ParamAddr \/ CmdRead
             \/ StreamCmd \/ WriteHead \/ WriteSize \/ WriteAck
             \/ ReadSend \/ Reset \/ UNCHANGED vars
    BY <1>5, <1>8 DEF FinishHandshake, DeviceOption, AddDevice, CloseChannel,
          MappedCmd, ParamAddr, CmdRead, StreamCmd, WriteHead, WriteSize, WriteAck,
          ReadSend, Reset, vars
  <1> QED
    BY <1>0, <1>1, <1>3, <1>4, <1>5, <1>6, <1>7, <1>8, StepCases
-----------------------------------------------------------------------------
(***************************************************************************)
(* What the server has of the client's samples.                            *)
(***************************************************************************)

\* What has ended stays so.
LEMMA Final ==
  ASSUME NetInv, Step
  PROVE  /\ kind' = kind /\ (Stopped => Stopped')
         /\ cpc = "gone" => cpc' = "gone" /\ (up = <<>> => up' = <<>>)
         /\ line = "dead" => line' = "dead"
  <1> DEFINE Keeps == /\ kind' = kind /\ (Stopped => Stopped')
                      /\ cpc = "gone" => cpc' = "gone" /\ (up = <<>> => up' = <<>>)
                      /\ line = "dead" => line' = "dead"
  <1>0. TypeOK /\ LineInv
    BY DEF NetInv
  <1> USE DEF Stopped
  <1>1. CASE Hangup /\ cpc # "gone"
    BY <1>0, <1>1 DEF Hangup, LineInv
  <1>2. CASE Handshake \/ HandshakeAck \/ OpenRemoteDevice \/ DeviceOpened
    BY <1>2 DEF Handshake, HandshakeAck, OpenRemoteDevice, DeviceOpened
  <1>3. CASE CallAddr \/ CallValue \/ CallReturn
    BY <1>3 DEF CallAddr, CallValue, CallReturn
  <1>4. ASSUME NEW a, NEW v, ReadNet(a) \/ WriteNet(a, v) PROVE Keeps
    BY <1>4 DEF ReadNet, WriteNet, BeginCall
  <1>5. CASE StartStream \/ WriteStreamNet
    BY <1>5 DEF StartStream, WriteStreamNet, BeginCall
  <1>6. CASE ReadHead \/ ReadSize \/ ReadData
    BY <1>6 DEF ReadHead, ReadSize, ReadData
  <1>7. CASE FinishHandshake \/ DeviceOption \/ AddDevice \/ CloseChannel
    BY <1>7 DEF FinishHandshake, DeviceOption, AddDevice, CloseChannel,
                Arrived, NoUnit, Eof, Error, ServerSends, clientVars
  <1>8. CASE MappedCmd \/ ParamAddr \/ CmdWrite \/ CmdRead
    BY <1>8 DEF MappedCmd, ParamAddr, CmdWrite, CmdRead,
                Arrived, NoUnit, Eof, Error, ServerSends, clientVars
  <1>9. CASE StreamCmd \/ WriteHead \/ WriteSize \/ WriteAck
    BY <1>9 DEF StreamCmd, WriteHead, WriteSize,
                WriteAck, Arrived, NoUnit, Eof, Error, ServerSends, clientVars
  <1>10. CASE WriteData
    <2>1. up = <<>> => Pieces(up, size) = {}
      BY DEF Pieces
    <2> QED
      BY <1>10, <2>1 DEF WriteData, ReceivePiece, ReceiveError, Error, clientVars
  <1>11. CASE ReadSend \/ ReadStart \/ Reset
    BY <1>11 DEF ReadSend, ReadStart, Reset, ServerSends, clientVars
  <1>12. CASE UNCHANGED vars
    BY <1>12 DEF vars, clientVars
  <1> QED
    BY <1>0, <1>1, <1>2, <1>3, <1>4, <1>5, <1>6, <1>7, <1>8, <1>9, <1>10, <1>11, <1>12,
       StepCases

\* The samples of s are among the first n.
Below(s, n) == \A i \in SamplesIn(s) : s[i][2] <= n

LEMMA BelowCut ==
  ASSUME NEW s \in Seq(Units), NEW n, Below(s, n), NEW a \in Nat, a > 0, NEW b \in Nat, b <= Len(s)
  PROVE  Below(SubSeq(s, a, b), n)
  <1> DEFINE t == SubSeq(s, a, b)
  <1> SUFFICES ASSUME NEW i \in 1 .. Len(t), t[i][1] = "sample" PROVE t[i][2] <= n
    BY DEF Below, SamplesIn
  <1>1. i + a - 1 \in DOMAIN s /\ t[i] = s[i + a - 1]
    OBVIOUS
  <1> QED
    BY <1>1 DEF Below, SamplesIn

LEMMA BelowMore ==
  ASSUME NEW s \in Seq(Units), NEW n, Below(s, n), NEW t \in Seq(Units), Below(t, n)
  PROVE  Below(s \o t, n)
  <1> SUFFICES ASSUME NEW i \in DOMAIN (s \o t), (s \o t)[i][1] = "sample"
               PROVE  (s \o t)[i][2] <= n
    BY DEF Below, SamplesIn
  <1>1. \/ i \in DOMAIN s /\ (s \o t)[i] = s[i]
        \/ i - Len(s) \in DOMAIN t /\ (s \o t)[i] = t[i - Len(s)]
    OBVIOUS
  <1> QED
    BY <1>1 DEF Below, SamplesIn

LEMMA BelowOne ==
  ASSUME NEW s \in Seq(Units), NEW n, Below(s, n), NEW c \in Tags \ {"sample"}, NEW x \in Int
  PROVE  Below(s \o <<<<c, x>>>>, n)
  <1>1. <<<<c, x>>>> \in Seq(Units)
    BY DEF Units
  <1>2. Below(<<<<c, x>>>>, n)
    BY DEF Below, SamplesIn
  <1> QED
    BY <1>1, <1>2, BelowMore

LEMMA WroteStep == ASSUME NetInv, Step PROVE WroteInv' /\ wrote' \in Seq(Nat)
  <1>0. /\ TypeOK /\ KindInv /\ WroteInv /\ LineInv /\ up \in Seq(Units) /\ wrote \in Seq(Nat)
        /\ calls \in Nat /\ FrameSize \in Nat /\ call \in Addresses \X Int
        /\ kind \in {"mapped", "tx", "rx"}
    <2>1. TypeOK /\ KindInv /\ WroteInv /\ LineInv
      BY DEF NetInv, TxInv
    <2>2. ClientType /\ LinkType /\ kind \in {"mapped", "tx", "rx"}
      BY <2>1, KindsAssumption DEF TypeOK
    <2>3. calls \in Nat /\ FrameSize \in Nat
      BY <2>2, NetBoundsAssumption, SizesAssumption DEF ClientType, Limit
    <2> QED
      BY <2>1, <2>2, <2>3 DEF ClientType, LinkType
  <1>1. Below(up, Len(wrote))
    BY <1>0 DEF WroteInv, Below
  \* The client writes nothing.
  <1>2. ASSUME kind' = kind, wrote' = wrote, Below(up', Len(wrote)),
               \/ kind # "tx" \/ cpc' = "gone"
               \/ calls' = calls /\ cpc' # "write" /\ cpc # "write" /\ cpc # "gone"
               \/ calls' = calls /\ cpc' = cpc
        PROVE  WroteInv' /\ wrote' \in Seq(Nat)
    BY <1>0, <1>2 DEF WroteInv, Below
  <1>3. /\ \A c \in {"handshake", "path", "read", "write", "tx", "rx"} :
                Below(up \o <<Cmd(c)>>, Len(wrote))
        /\ \A x \in Int : Below(up \o <<Word(x)>>, Len(wrote))
    <2>1. {"handshake", "path", "read", "write", "tx", "rx", "word"} \subseteq Tags \ {"sample"}
      BY DEF Tags
    <2>2. \A c \in Tags \ {"sample"}, x \in Int : Below(up \o <<<<c, x>>>>, Len(wrote))
      BY <1>0, <1>1, BelowOne
    <2>3. PICK z \in Int : z = 0
      OBVIOUS
    <2>4. ASSUME NEW c \in {"handshake", "path", "read", "write", "tx", "rx"}
          PROVE  Below(up \o <<Cmd(c)>>, Len(wrote))
      <3>1. c \in Tags \ {"sample"} /\ Cmd(c) = <<c, z>>
        BY <2>1, <2>3 DEF Cmd
      <3> QED
        BY <2>2, <3>1
    <2>5. ASSUME NEW x \in Int PROVE Below(up \o <<Word(x)>>, Len(wrote))
      <3>1. "word" \in Tags \ {"sample"} /\ Word(x) = <<"word", x>>
        BY <2>1 DEF Word
      <3> QED
        BY <2>2, <3>1
    <2> QED
      BY <2>4, <2>5
  <1>4. ASSUME NEW a \in Nat, a > 0, NEW b \in Nat, b <= Len(up)
        PROVE  Below(SubSeq(up, a, b), Len(wrote))
    BY <1>0, <1>1, <1>4, BelowCut
  <1>5. ASSUME up # <<>>, up' = Tail(up) PROVE Below(up', Len(wrote))
    <2>1. PICK b \in Nat, a \in Nat : b = Len(up) /\ a = 2
      BY <1>0
    <2>2. up' = SubSeq(up, a, b)
      BY <1>0, <1>5, <2>1
    <2> QED
      BY <1>4, <2>1, <2>2
  <1>6. ASSUME up' = up PROVE Below(up', Len(wrote))
    BY <1>1, <1>6
  <1>7. CASE Hangup
    <2>1. ASSUME NEW n \in 0 .. Len(up), up' = SubSeq(up, 1, n) PROVE Below(up', Len(wrote))
      <3>1. PICK a \in Nat : a = 1
        OBVIOUS
      <3>2. n \in Nat /\ n <= Len(up)
        BY <1>0
      <3> QED
        BY <1>4, <2>1, <3>1, <3>2
    <2>2. Below(up', Len(wrote))
      BY <1>6, <1>7, <2>1 DEF Hangup
    <2> QED
      BY <1>2, <1>7, <2>2 DEF Hangup
  <1>8. CASE Handshake \/ OpenRemoteDevice
    <2>2. Below(up', Len(wrote))
      BY <1>3, <1>8 DEF Handshake, OpenRemoteDevice, ClientSends
    <2> QED
      BY <1>2, <1>8, <2>2 DEF Handshake, OpenRemoteDevice
  <1>9. CASE HandshakeAck \/ DeviceOpened \/ CallReturn \/ ReadHead \/ ReadSize \/ ReadData
    <2>1. UNCHANGED <<up, kind, wrote, calls>> /\ cpc' # "write" /\ cpc # "write" /\ cpc # "gone"
      BY <1>9 DEF HandshakeAck, DeviceOpened, CallReturn, ReadHead, ReadSize, ReadData
    <2> QED
      BY <1>2, <1>6, <2>1
  <1>10. CASE CallAddr \/ CallValue
    <2>1. call[1] \in Int /\ call[2] \in Int
      BY <1>0
    <2>3. Below(up', Len(wrote))
      BY <1>3, <1>10, <2>1 DEF CallAddr, CallValue, ClientSends
    <2> QED
      BY <1>2, <1>10, <2>3 DEF CallAddr, CallValue
  <1>11. ASSUME NEW a \in Addresses, ReadNet(a) \/ \E v \in Values : WriteNet(a, v)
         PROVE  WroteInv' /\ wrote' \in Seq(Nat)
    <2>2. Below(up', Len(wrote))
      BY <1>3, <1>11 DEF ReadNet, WriteNet, ClientSends
    <2> QED
      BY <1>2, <1>11, <2>2 DEF ReadNet, WriteNet
  <1>12. CASE StartStream
    <2>2. Below(up', Len(wrote))
      BY <1>0, <1>3, <1>6, <1>12 DEF StartStream, ClientSends
    <2>3. /\ cpc = "ready" /\ calls' = calls + 1 /\ UNCHANGED <<kind, wrote>>
          /\ cpc' = IF kind = "tx" THEN "write" ELSE "head"
      BY <1>12 DEF StartStream, BeginCall
    <2> QED
      BY <1>0, <2>2, <2>3 DEF WroteInv, Below
  <1>13. CASE WriteStreamNet
    <2> DEFINE f == Frame(calls)
               w == Samples(Frame(calls))
    <2>1. /\ cpc = "write" /\ cpc' = "ready" /\ UNCHANGED <<kind, calls>>
          /\ up' = up \o (<<Cmd("tx"), Word(FrameSize)>> \o w) /\ wrote' = wrote \o f
      BY <1>13 DEF WriteStreamNet, ClientSends
    <2>2. PICK n \in Nat :
              /\ n = Len(wrote) /\ f \in Seq(Nat) /\ Len(f) = FrameSize
              /\ \A i \in 1 .. FrameSize : f[i] = n + i
              /\ w \in Seq(Units) /\ Len(w) = FrameSize
              /\ \A i \in 1 .. FrameSize : w[i] = Sample(n + i)
              /\ Len(wrote \o f) = n + FrameSize
              /\ n + FrameSize = FrameSize * calls
      BY <2>1, FrameWritten
    <2> HIDE DEF f, w
    <2>3. wrote' \in Seq(Nat) /\ Len(wrote') = n + FrameSize
      BY <1>0, <2>1, <2>2, ConcatType
    <2>4. \A i \in 1 .. Len(wrote') : wrote'[i] = i
      <3>1. PICK g \in Seq(Nat) : g = wrote
        BY <1>0
      <3>2. /\ \A i \in 1 .. Len(g) : (g \o f)[i] = g[i]
            /\ \A i \in 1 .. Len(f) : (g \o f)[Len(g) + i] = f[i]
        BY <2>2, Concat
      <3> TAKE i \in 1 .. Len(wrote')
      <3>3. CASE i <= n
        <4>1. i \in 1 .. Len(g)
          BY <2>2, <3>1, <3>3
        <4>2. g[i] = i
          BY <1>0, <3>1, <4>1 DEF WroteInv
        <4> QED
          BY <2>1, <3>1, <3>2, <4>1, <4>2
      <3>4. CASE i > n
        <4>1. PICK j \in 1 .. FrameSize : i = n + j
          <5>1. i - n \in 1 .. FrameSize /\ i = n + (i - n)
            BY <1>0, <2>3, <3>4
          <5> QED
            BY <5>1
        <4>2. (g \o f)[Len(g) + j] = f[j]
          BY <2>2, <3>2
        <4> QED
          BY <2>1, <2>2, <3>1, <4>1, <4>2
      <3> QED
        BY <3>3, <3>4
    <2>5. Below(up', Len(wrote'))
      <3>1. Below(up, n + FrameSize)
        <4>1. ASSUME NEW i \in SamplesIn(up) PROVE up[i][2] <= n + FrameSize
          <5>1. up[i][2] \in Int
            BY <1>0 DEF SamplesIn, Units
          <5>2. up[i][2] <= n
            BY <1>1, <2>2 DEF Below
          <5> QED
            BY <1>0, <5>1, <5>2
        <4> QED
          BY <4>1 DEF Below
      <3> DEFINE v == <<Cmd("tx"), Word(FrameSize)>>
      <3>2. v \in Seq(Units) /\ Below(v, n + FrameSize)
        <4>1. Cmd("tx") \in Units /\ Word(FrameSize) \in Units
          BY <1>0, UnitType DEF Tags
        <4>2. \A i \in 1 .. 2 : v[i][1] # "sample"
          BY DEF Cmd, Word
        <4>3. v \in Seq(Units) /\ DOMAIN v = 1 .. 2
          BY <4>1
        <4> HIDE DEF v
        <4> QED
          BY <4>2, <4>3 DEF Below, SamplesIn
      <3>3. Below(w, n + FrameSize)
        BY <1>0, <2>2 DEF Below, SamplesIn, Sample
      <3> HIDE DEF v
      <3>4. v \o w \in Seq(Units) /\ Below(v \o w, n + FrameSize)
        BY <2>2, <3>2, <3>3, BelowMore, ConcatType
      <3>5. Below(up \o (v \o w), n + FrameSize)
        BY <1>0, <3>1, <3>4, BelowMore
      <3> QED
        BY <2>1, <2>3, <3>5 DEF v
    <2> QED
      BY <2>1, <2>2, <2>3, <2>4, <2>5 DEF WroteInv, Below
  <1>14. CASE FinishHandshake \/ DeviceOption \/ AddDevice \/ CloseChannel
    <2>1. UNCHANGED <<kind, clientVars>> /\ (up' # up => up # <<>> /\ up' = Tail(up))
      BY <1>14 DEF FinishHandshake, DeviceOption, AddDevice, CloseChannel, Arrived, NoUnit
    <2> QED
      BY <1>2, <1>5, <1>6, <2>1 DEF clientVars
  <1>15. CASE MappedCmd \/ ParamAddr \/ CmdWrite \/ CmdRead
    <2>1. UNCHANGED <<kind, clientVars>> /\ (up' # up => up # <<>> /\ up' = Tail(up))
      BY <1>15 DEF MappedCmd, ParamAddr, CmdWrite, CmdRead, Arrived, NoUnit
    <2> QED
      BY <1>2, <1>5, <1>6, <2>1 DEF clientVars
  <1>16. CASE StreamCmd \/ WriteHead \/ WriteSize \/ WriteAck
    <2>1. UNCHANGED <<kind, clientVars>> /\ (up' # up => up # <<>> /\ up' = Tail(up))
      BY <1>16 DEF StreamCmd, WriteHead, WriteSize, WriteAck, Arrived, NoUnit
    <2> QED
      BY <1>2, <1>5, <1>6, <2>1 DEF clientVars
  <1>17. CASE WriteData
    <2>1. UNCHANGED <<kind, clientVars>>
      BY <1>17 DEF WriteData
    <2>2. up' = up \/ \E k \in Pieces(up, size) : up' = SubSeq(up, k + 1, Len(up))
      BY <1>17 DEF WriteData, ReceivePiece, ReceiveError
    <2>3. ASSUME NEW k \in Pieces(up, size), up' = SubSeq(up, k + 1, Len(up))
          PROVE  Below(up', Len(wrote))
      <3>0. k \in Nat /\ Len(up) \in Nat /\ k + 1 \in Nat
        BY <1>0 DEF Pieces
      <3>1. PICK a \in Nat : a = k + 1
        BY <3>0
      <3>2. PICK b \in Nat : b = Len(up)
        BY <3>0
      <3>3. up' = SubSeq(up, a, b) /\ a > 0 /\ b <= Len(up)
        BY <2>3, <3>0, <3>1, <3>2
      <3> QED
        BY <1>4, <3>3
    <2> QED
      BY <1>2, <1>6, <2>1, <2>2, <2>3 DEF clientVars
  <1>18. CASE ReadSend \/ ReadStart \/ Reset \/ UNCHANGED vars
    <2>1. UNCHANGED <<kind, clientVars, up>>
      BY <1>18 DEF ReadSend, ReadStart, Reset, vars
    <2> QED
      BY <1>2, <1>6, <2>1 DEF clientVars
  <1> QED
    BY <1>0, <1>7, <1>8, <1>9, <1>10, <1>11, <1>12, <1>13, <1>14, <1>15, <1>16, <1>17, <1>18,
       StepCases

\* Only WriteData changes what the server has.
LEMMA Untouched ==
  ASSUME NetInv, Step
  PROVE  /\ WriteData \/ UNCHANGED <<buf, stream>>
         /\ WriteStreamNet \/ UNCHANGED wrote
  <1>0. TypeOK
    BY DEF NetInv
  <1> USE DEF serverVars, deviceVars
  <1>1. CASE Hangup \/ Handshake \/ HandshakeAck \/ OpenRemoteDevice \/ DeviceOpened
    BY <1>1 DEF Hangup, Handshake, HandshakeAck, OpenRemoteDevice, DeviceOpened
  <1>2. CASE CallAddr \/ CallValue \/ CallReturn
    BY <1>2 DEF CallAddr, CallValue, CallReturn
  <1>3. ASSUME NEW a, NEW v, ReadNet(a) \/ WriteNet(a, v) PROVE UNCHANGED <<buf, stream, wrote>>
    BY <1>3 DEF ReadNet, WriteNet
  <1>4. CASE StartStream \/ WriteStreamNet \/ ReadHead \/ ReadSize \/ ReadData
    BY <1>4 DEF StartStream, WriteStreamNet, ReadHead, ReadSize, ReadData
  <1>5. CASE FinishHandshake \/ DeviceOption \/ AddDevice \/ CloseChannel
    BY <1>5 DEF FinishHandshake, DeviceOption, AddDevice, CloseChannel, clientVars
  <1>6. CASE MappedCmd \/ ParamAddr \/ CmdWrite \/ CmdRead
    BY <1>6 DEF MappedCmd, ParamAddr, CmdWrite, CmdRead, clientVars
  <1>7. CASE StreamCmd \/ WriteHead \/ WriteSize \/ WriteData \/ WriteAck
    BY <1>7 DEF StreamCmd, WriteHead, WriteSize, WriteData, WriteAck, clientVars
  <1>8. CASE ReadSend \/ ReadStart \/ Reset \/ UNCHANGED vars
    BY <1>8 DEF ReadSend, ReadStart, Reset, vars, clientVars
  <1> QED
    BY <1>0, <1>1, <1>2, <1>3, <1>4, <1>5, <1>6, <1>7, <1>8, StepCases

LEMMA SeqEqual ==
  ASSUME NEW S, NEW a \in Seq(S), NEW b \in Seq(S), Len(a) = Len(b), \A i \in 1 .. Len(a) : a[i] = b[i]
  PROVE  a = b
  OBVIOUS

LEMMA FrontType ==
  ASSUME NEW S, NEW g \in Seq(S), g # <<>>
  PROVE  /\ Front(g) \in Seq(S) /\ Len(Front(g)) = Len(g) - 1 /\ Len(g) > 0
         /\ \A i \in 1 .. Len(Front(g)) : Front(g)[i] = g[i] /\ i \in 1 .. Len(g)
  <1>1. Len(g) \in Nat /\ Len(g) > 0
    OBVIOUS
  <1>2. PICK n \in Nat : n = Len(g) - 1
    BY <1>1
  <1>3. Front(g) = SubSeq(g, 1, n) /\ \A i \in 1 .. n : i \in 1 .. Len(g)
    BY <1>1, <1>2 DEF Front
  <1>4. /\ SubSeq(g, 1, n) \in Seq(S) /\ Len(SubSeq(g, 1, n)) = n
        /\ \A i \in 1 .. n : SubSeq(g, 1, n)[i] = g[i]
    BY <1>1, <1>2
  <1> QED
    BY <1>1, <1>2, <1>3, <1>4

LEMMA CleanStep ==
  ASSUME NetInv, Step
  PROVE  (Clean \/ Spoilt)' /\ buf' \in Seq(Nat) /\ Len(buf') < BufferSize
  <1>0. /\ LineInv /\ WroteInv /\ (Clean \/ Spoilt) /\ wrote \in Seq(Nat) /\ buf \in Seq(Nat)
        /\ stream \in Seq(Nat) /\ Len(buf) < BufferSize /\ BufferSize \in Nat /\ BufferSize > 0
    <2>1. LineInv /\ WroteInv /\ (Clean \/ Spoilt) /\ ClientType /\ ServerType /\ DeviceType
      BY DEF NetInv, TxInv, TypeOK
    <2>2. BufferSize \in Nat /\ BufferSize > 0
      BY SizesAssumption
    <2> QED
      BY <2>1, <2>2 DEF ClientType, ServerType, DeviceType
  <1>1. Len(wrote) \in Nat /\ Len(buf) \in Nat /\ Len(stream) \in Nat /\ Count = Len(stream) + Len(buf)
    BY <1>0 DEF Count
  \* A step that leaves the samples alone.
  <1>2. ASSUME UNCHANGED <<buf, stream>>, wrote' = wrote
        PROVE  (Clean \/ Spoilt)' /\ buf' \in Seq(Nat) /\ Len(buf') < BufferSize
    <2>1. CASE Clean
      BY <1>0, <1>2, <2>1 DEF Clean, Count
    <2>2. CASE Spoilt
      <3>1. line' = "dead" /\ up' = <<>>
        BY <1>0, <2>2, Final DEF Spoilt, LineInv
      <3> QED
        BY <1>0, <1>2, <2>2, <3>1 DEF Spoilt
    <2> QED
      BY <1>0, <2>1, <2>2
  <1>3. CASE WriteStreamNet
    <2>1. cpc = "write" /\ wrote' = wrote \o Frame(calls) /\ UNCHANGED <<buf, stream>>
      BY <1>3 DEF WriteStreamNet, serverVars, deviceVars
    <2>2. Clean
      BY <1>0, <2>1 DEF Spoilt, LineInv
    <2>3. Len(wrote') = Len(wrote) + FrameSize /\ FrameSize \in Nat
      BY <2>1, FrameWritten, SizesAssumption
    <2>4. Count' = Count /\ Count <= Len(wrote')
      BY <1>1, <2>1, <2>2, <2>3 DEF Clean, Count
    <2> QED
      BY <1>0, <2>1, <2>2, <2>4 DEF Clean
  <1>4. CASE WriteData
    <2>0. wrote' = wrote /\ spc = "wdata"
      BY <1>4 DEF WriteData, clientVars
    <2>1. ASSUME size > 0, NEW k \in Pieces(up, size), SubmitFull(buf \o Contents(up, k))
          PROVE  (Clean \/ Spoilt)' /\ buf' \in Seq(Nat) /\ Len(buf') < BufferSize
      <3>0. up # <<>> /\ k \in Nat /\ k > 0 /\ k <= Len(up) /\ up[k] = Sample(Count + k)
        BY <2>0, <2>1, NextPiece
      <3>1. Clean
        BY <1>0, <3>0 DEF Spoilt
      <3>2. PICK c : c = Contents(up, k)
        OBVIOUS
      <3>3. /\ c \in Seq(Nat) /\ Len(c) = k /\ \A i \in 1 .. k : c[i] = Count + i
            /\ \/ /\ Len(buf) + k = BufferSize
                  /\ stream' = stream \o (buf \o c) /\ buf' = <<>>
               \/ Len(buf) + k < BufferSize /\ stream' = stream /\ buf' = buf \o c
            /\ Count' = Count + k
        BY <2>0, <2>1, <3>2, Stored
      <3>4. Count + k <= Len(wrote)
        <4>1. k \in SamplesIn(up)
          <5>1. k \in DOMAIN up
            BY <3>0 DEF NetInv, TypeOK, LinkType
          <5> QED
            BY <3>0, <5>1 DEF SamplesIn, Sample
        <4> QED
          BY <1>0, <3>0, <4>1 DEF WroteInv, Sample
      <3>5. PICK b : b = buf \o c
        OBVIOUS
      <3>6. /\ b \in Seq(Nat) /\ Len(b) = Len(buf) + k
            /\ \A i \in 1 .. Len(b) : b[i] = Len(stream) + i
        <4>1. /\ b \in Seq(Nat) /\ Len(b) = Len(buf) + k
              /\ \A i \in 1 .. Len(buf) : b[i] = buf[i]
              /\ \A i \in 1 .. k : b[Len(buf) + i] = c[i]
          <5>1. PICK g \in Seq(Nat) : g = buf
            BY <1>0
          <5>2. /\ g \o c \in Seq(Nat) /\ Len(g \o c) = Len(g) + Len(c)
                /\ \A i \in 1 .. Len(g) : (g \o c)[i] = g[i]
                /\ \A i \in 1 .. Len(c) : (g \o c)[Len(g) + i] = c[i]
            <6>1. c \in Seq(Nat)
              BY <3>3
            <6> QED
              BY <6>1, Concat
          <5> QED
            BY <3>3, <3>5, <5>1, <5>2
        <4>2. ASSUME NEW i \in 1 .. Len(b) PROVE b[i] = Len(stream) + i
          <5>1. CASE i <= Len(buf)
            <6>1. i \in 1 .. Len(buf)
              BY <1>1, <4>1, <5>1
            <6> QED
              BY <3>1, <4>1, <6>1 DEF Clean
          <5>2. CASE i > Len(buf)
            <6>1. PICK j \in 1 .. k : i = Len(buf) + j
              <7>1. i \in Nat /\ i <= Len(buf) + k
                BY <1>1, <3>0, <4>1
              <7>2. i - Len(buf) \in 1 .. k /\ i = Len(buf) + (i - Len(buf))
                BY <1>1, <3>0, <5>2, <7>1
              <7> QED
                BY <7>2
            <6>2. b[i] = Count + j
              BY <3>3, <4>1, <6>1
            <6> QED
              BY <1>1, <6>1, <6>2
          <5> QED
            BY <1>1, <5>1, <5>2
        <4> QED
          BY <4>1, <4>2
      <3>7. CASE Len(buf) + k < BufferSize /\ stream' = stream /\ buf' = b
        <4>1. buf' \in Seq(Nat) /\ Len(buf') < BufferSize
          BY <3>6, <3>7
        <4>2. \A i \in 1 .. Len(buf') : buf'[i] = Len(stream') + i
          BY <3>6, <3>7
        <4>3. \A i \in 1 .. Len(stream') : stream'[i] = i
          BY <3>1, <3>7 DEF Clean
        <4> QED
          BY <2>0, <3>3, <3>4, <4>1, <4>2, <4>3 DEF Clean
      <3>8. CASE stream' = stream \o b /\ buf' = <<>>
        <4>1. PICK g \in Seq(Nat) : g = stream
          BY <1>0
        <4>2. /\ Len(g \o b) = Len(g) + Len(b)
              /\ \A i \in 1 .. Len(g) : (g \o b)[i] = g[i]
              /\ \A i \in 1 .. Len(b) : (g \o b)[Len(g) + i] = b[i]
          <5>1. b \in Seq(Nat)
            BY <3>6
          <5> QED
            BY <5>1, Concat
        <4>3. ASSUME NEW i \in 1 .. Len(stream') PROVE stream'[i] = i
          <5>1. CASE i <= Len(g)
            <6>1. i \in 1 .. Len(g)
              BY <1>1, <4>1, <5>1
            <6>2. g[i] = i
              BY <3>1, <4>1, <6>1 DEF Clean
            <6> QED
              BY <3>8, <4>1, <4>2, <6>1, <6>2
          <5>2. CASE i > Len(g)
            <6>1. PICK j \in 1 .. Len(b) : i = Len(g) + j
              <7>1. i - Len(g) \in 1 .. Len(b) /\ i = Len(g) + (i - Len(g))
                BY <1>1, <3>6, <3>8, <4>1, <4>2, <5>2
              <7> QED
                BY <7>1
            <6>2. (g \o b)[Len(g) + j] = Len(g) + j
              BY <3>6, <4>1, <4>2
            <6> QED
              BY <3>8, <4>1, <6>1, <6>2
          <5> QED
            BY <1>1, <4>1, <5>1, <5>2
        <4>4. buf' \in Seq(Nat) /\ Len(buf') = 0
          BY <3>8
        <4> QED
          BY <1>0, <2>0, <3>3, <3>4, <4>3, <4>4 DEF Clean
      <3> QED
        BY <3>3, <3>5, <3>7, <3>8
    <2>2. CASE ReceiveError
      <3>0. up = <<>> /\ line = "rst" /\ line' = "dead" /\ up' = up
        BY <2>2 DEF ReceiveError, Error
      <3>1. Clean
        BY <1>0, <3>0 DEF Spoilt
      <3>2. CASE buf # <<>> /\ buf' = Front(buf) /\ stream' = stream
        <4>1. /\ buf' \in Seq(Nat) /\ Len(buf') = Len(buf) - 1 /\ Len(buf) > 0
              /\ \A i \in 1 .. Len(buf') : buf'[i] = buf[i] /\ i \in 1 .. Len(buf)
          <5>1. PICK g \in Seq(Nat) : g = buf
            BY <1>0
          <5>2. /\ Front(g) \in Seq(Nat) /\ Len(Front(g)) = Len(g) - 1 /\ Len(g) > 0
                /\ \A i \in 1 .. Len(Front(g)) : Front(g)[i] = g[i] /\ i \in 1 .. Len(g)
            <6>1. g # <<>>
              BY <3>2, <5>1
            <6> QED
              BY <6>1, FrontType
          <5> QED
            BY <3>2, <5>1, <5>2
        <4>2. Count' <= Len(wrote) /\ Len(buf') < BufferSize
          BY <1>0, <1>1, <3>1, <3>2, <4>1 DEF Clean, Count
        <4> QED
          BY <2>0, <3>1, <3>2, <4>1, <4>2 DEF Clean
      <3>3. CASE buf = <<>> /\ buf' = buf /\ stream' = stream \o [k \in 1 .. BufferSize |-> 0]
        <4>1. PICK n \in 0 .. Len(wrote) : n = Len(stream)
          BY <1>1, <3>1, <3>3 DEF Clean
        <4>2. stream = SubSeq(wrote, 1, n)
          <5>1. /\ SubSeq(wrote, 1, n) \in Seq(Nat) /\ Len(SubSeq(wrote, 1, n)) = n
                /\ \A i \in 1 .. n : SubSeq(wrote, 1, n)[i] = wrote[i] /\ i \in 1 .. Len(wrote)
            BY <1>0, <1>1
          <5>2. \A i \in 1 .. Len(stream) : stream[i] = SubSeq(wrote, 1, n)[i]
            BY <1>0, <3>1, <4>1, <5>1 DEF Clean, WroteInv
          <5> QED
            BY <1>0, <4>1, <5>1, <5>2, SeqEqual
        <4>3. Spoilt'
          BY <2>0, <3>0, <3>3, <4>2 DEF Spoilt
        <4> QED
          BY <1>0, <3>3, <4>3
      <3> QED
        BY <2>2, <3>2, <3>3 DEF ReceiveError
    <2>3. CASE UNCHANGED <<buf, stream>>
      BY <1>2, <2>0, <2>3
    <2> QED
      BY <1>4, <2>1, <2>2, <2>3 DEF WriteData, ReceivePiece
  <1> QED
    BY <1>2, <1>3, <1>4, Untouched

LEMMA Multiples ==
  ASSUME NEW m \in Nat, NEW c \in Nat, NEW n \in Nat, n > 0, m * n < c * n
  PROVE  (m + 1) * n <= c * n
  OBVIOUS

LEMMA Divides ==
  ASSUME NEW c \in Nat, NEW n \in Nat, n > 0, c % n = 0
  PROVE  c = (c \div n) * n /\ c \div n \in Nat
  OBVIOUS

LEMMA FillStep == ASSUME NetInv, Step PROVE FillInv'
  <1>0. /\ TypeOK /\ FillInv /\ KindInv /\ LineInv /\ size \in 0 .. FrameSize + 1
        /\ Len(buf) \in Nat /\ Len(buf) < BufferSize
        /\ FrameSize \in Nat /\ FrameSize > 0 /\ BufferSize \in Nat
    <2>1. TypeOK /\ FillInv /\ KindInv /\ LineInv /\ ServerType /\ SizeInv
      BY DEF NetInv, TxInv, TypeOK
    <2>2. FrameSize \in Nat /\ FrameSize > 0 /\ BufferSize \in Nat
      BY SizesAssumption
    <2>3. buf \in Seq(Nat)
      BY <2>1 DEF ServerType
    <2> QED
      BY <2>1, <2>2, <2>3 DEF ServerType, SizeInv
  <1>1. SUFFICES ASSUME kind' = "tx", ~Stopped', cpc' # "gone" \/ up' # <<>>
                 PROVE  Fits(Filled)'
    BY DEF FillInv
  <1>2. kind = "tx" /\ ~Stopped /\ (cpc # "gone" \/ up # <<>>) /\ Fits(Filled)
    BY <1>0, <1>1, Final DEF FillInv
  <1>3. ASSUME Filled' = Filled PROVE Fits(Filled)'
    BY <1>2, <1>3 DEF Fits
  <1> USE DEF serverVars, Filled
  <1>4. CASE Hangup \/ Handshake \/ HandshakeAck \/ OpenRemoteDevice \/ DeviceOpened
    BY <1>3, <1>4 DEF Hangup, Handshake, HandshakeAck, OpenRemoteDevice, DeviceOpened
  <1>5. CASE CallAddr \/ CallValue \/ CallReturn
    BY <1>3, <1>5 DEF CallAddr, CallValue, CallReturn
  <1>6. ASSUME NEW a, NEW v, ReadNet(a) \/ WriteNet(a, v) PROVE Filled' = Filled
    BY <1>6 DEF ReadNet, WriteNet
  <1>7. CASE StartStream \/ WriteStreamNet \/ ReadHead \/ ReadSize \/ ReadData
    BY <1>3, <1>7 DEF StartStream, WriteStreamNet, ReadHead, ReadSize, ReadData
  <1>8. CASE FinishHandshake \/ DeviceOption \/ AddDevice \/ CloseChannel
    BY <1>3, <1>8 DEF FinishHandshake, DeviceOption, AddDevice, CloseChannel, ServerSends
  <1>9. CASE MappedCmd \/ ParamAddr \/ CmdWrite \/ CmdRead
    BY <1>0, <1>2, <1>9 DEF MappedCmd, ParamAddr, CmdWrite, CmdRead, KindInv
  <1>10. CASE StreamCmd \/ WriteHead \/ WriteAck
    BY <1>3, <1>10 DEF StreamCmd, WriteHead, WriteAck, ServerSends
  <1>11. CASE WriteSize
    <2>1. up # <<>>
      BY <1>0, <1>1, <1>11 DEF WriteSize, Arrived, NoUnit, Eof, Error, LineInv, clientVars
    <2>2. spc = "wsize" /\ spc' = "wdata" /\ buf' = buf /\ size' = FrameSize
      BY <1>11, <2>1, FirstUnit DEF WriteSize, NoUnit, Eof, Error, Word
    <2>3. PICK m \in Nat : Len(buf) = m * FrameSize
      BY <1>0, <1>2, <2>2 DEF Fits
    <2>4. PICK c \in Nat : BufferSize = c * FrameSize
      BY <1>0, FrameAssumption, Divides
    <2>5. (m + 1) * FrameSize <= c * FrameSize
      BY <1>0, <2>3, <2>4, Multiples
    <2>6. (m + 1) * FrameSize = m * FrameSize + FrameSize
      BY <1>0, OneMore
    <2>7. Filled' = Len(buf) + FrameSize
      BY <2>2
    <2>8. Filled' = (m + 1) * FrameSize /\ Filled' <= BufferSize /\ m + 1 \in Nat
      BY <2>3, <2>4, <2>5, <2>6, <2>7
    <2> HIDE DEF Filled
    <2> QED
      BY <2>8 DEF Fits
  <1>12. CASE WriteData
    <2>0. spc = "wdata"
      BY <1>12 DEF WriteData
    <2>1. CASE (size = 0 \/ Eof) /\ spc' = "wack" /\ buf' = buf /\ UNCHANGED up
      <3>1. size = 0
        BY <1>0, <1>1, <1>12, <2>1 DEF WriteData, Eof, LineInv, clientVars
      <3> QED
        BY <1>0, <1>3, <2>0, <2>1, <3>1
    <2>2. CASE spc' = "killed"
      BY <1>1, <2>2 DEF Stopped
    <2>3. CASE ReceiveError
      BY <1>0, <1>1, <1>12, <2>3 DEF WriteData, ReceiveError, Error, LineInv, clientVars
    <2>4. ASSUME size > 0, spc' = spc, NEW k \in Pieces(up, size), size' = size - k,
                 SubmitFull(buf \o Contents(up, k))
          PROVE  Fits(Filled)'
      <3>1. /\ k \in Nat /\ k > 0 /\ k <= size /\ size \in Nat /\ Len(buf) + size <= BufferSize
        BY <2>0, <2>4, NextPiece
      <3>2. PICK c : c = Contents(up, k)
        OBVIOUS
      <3>3. /\ c \in Seq(Nat) /\ Len(c) = k /\ buf \in Seq(Nat)
            /\ \/ Len(buf) + k = BufferSize /\ buf' = <<>>
               \/ buf' = buf \o c
        BY <2>0, <2>4, <3>2, Stored
      <3>4. CASE Len(buf) + k = BufferSize /\ buf' = <<>>
        <4>1. Filled' = 0
          BY <1>0, <2>0, <2>4, <3>1, <3>4
        <4>2. 0 = 0 * FrameSize /\ 0 <= BufferSize
          BY <1>0
        <4> HIDE DEF Filled
        <4> QED
          BY <4>1, <4>2 DEF Fits
      <3>5. CASE buf' = buf \o c
        <4>1. Len(buf') = Len(buf) + k
          BY <3>3, <3>5, Concat
        <4>2. Filled' = Filled
          BY <1>0, <2>0, <2>4, <3>1, <4>1
        <4> QED
          BY <1>3, <4>2
      <3> QED
        BY <3>3, <3>4, <3>5
    <2> HIDE DEF Filled
    <2> QED
      BY <1>12, <2>1, <2>2, <2>3, <2>4 DEF WriteData, ReceivePiece
  <1>13. CASE ReadSend \/ ReadStart \/ Reset \/ UNCHANGED vars
    BY <1>0, <1>2, <1>3, <1>13 DEF ReadSend, ReadStart, Reset, vars, KindInv
  <1> HIDE DEF Filled
  <1> QED
    BY <1>0, <1>3, <1>4, <1>5, <1>6, <1>7, <1>8, <1>9, <1>10, <1>11, <1>12, <1>13, StepCases
-----------------------------------------------------------------------------
(***************************************************************************)
(* Types.                                                                  *)
(***************************************************************************)
LEMMA ClientTypeStep == ASSUME NetInv, Step PROVE ClientType'
  <1>0. ClientType /\ TypeOK /\ down \in Seq(Units)
    BY DEF NetInv, TypeOK, LinkType
  <1>1. /\ wrote' \in Seq(Nat) /\ got' \in Seq(Nat) /\ remain' \in 0 .. FrameSize
    BY WroteStep, DownStep
  <1> DEFINE Rest == /\ cpc' \in {"new", "ack", "path", "fd", "ready", "waddr", "wvalue", "raddr",
                            "value", "write", "head", "size", "data", "spin", "gone"}
                     /\ calls' \in 0 .. Limit /\ handshaked' \in BOOLEAN
                     /\ call' \in Addresses \X Int
                     /\ last' \in (Addresses \X Int \X BOOLEAN) \cup {NoRead}
                     /\ shadow' \in [0 .. RegCount -> Int]
  <1>2. ASSUME Rest PROVE ClientType'
    <2>1. Limit' = Limit
      BY Final DEF Limit
    <2> QED
      BY <1>1, <1>2, <2>1 DEF ClientType
  <1>3. /\ cpc \in {"new", "ack", "path", "fd", "ready", "waddr", "wvalue", "raddr",
                    "value", "write", "head", "size", "data", "spin", "gone"}
        /\ calls \in 0 .. Limit /\ handshaked \in BOOLEAN
        /\ call \in Addresses \X Int /\ last \in (Addresses \X Int \X BOOLEAN) \cup {NoRead}
        /\ shadow \in [0 .. RegCount -> Int]
    BY <1>0 DEF ClientType
  <1>4. CASE UNCHANGED clientVars
    BY <1>2, <1>3, <1>4 DEF clientVars
  <1>5. CASE Hangup \/ Handshake \/ HandshakeAck \/ OpenRemoteDevice \/ DeviceOpened
    <2>1. Rest
      BY <1>3, <1>5 DEF Hangup, Handshake, HandshakeAck, OpenRemoteDevice, DeviceOpened
    <2> QED
      BY <1>2, <2>1
  <1>6. CASE CallAddr
    <2>1. Rest
      BY <1>3, <1>6 DEF CallAddr
    <2> QED
      BY <1>2, <2>1
  <1>7. CASE CallValue
    <2>1. call[1] \in Addresses /\ call[2] \in Int
      BY <1>3
    <2>2. WriteLocal(shadow, call[1], call[2]) \in [0 .. RegCount -> Int]
      BY <1>3, <2>1 DEF WriteLocal
    <2>3. Rest
      BY <1>3, <1>7, <2>2 DEF CallValue
    <2> QED
      BY <1>2, <2>3
  <1>8. CASE CallReturn
    <2>1. call[1] \in Addresses
      BY <1>3
    <2>2. Head(down) \in Units
      BY <1>0, <1>8 DEF CallReturn
    <2>3. Head(down)[2] \in Int
      BY <2>2 DEF Units
    <2>4. Rest
      BY <1>3, <1>8, <2>1, <2>3 DEF CallReturn
    <2> QED
      BY <1>2, <2>4
  <1>9. ASSUME NEW a \in Addresses, ReadNet(a) \/ \E v \in Values : WriteNet(a, v)
        PROVE  ClientType'
    <2>1. calls' \in 0 .. Limit
      BY <1>3, <1>9, NetBoundsAssumption DEF ReadNet, WriteNet, BeginCall, Limit
    <2>2. call' \in Addresses \X Int
      BY <1>9, SizesAssumption DEF ReadNet, WriteNet
    <2>3. Rest
      BY <1>3, <1>9, <2>1, <2>2 DEF ReadNet, WriteNet
    <2> QED
      BY <1>2, <2>3
  <1>10. CASE StartStream
    <2>1. calls' \in 0 .. Limit
      BY <1>3, <1>10, NetBoundsAssumption DEF StartStream, BeginCall, Limit
    <2>2. Rest
      BY <1>3, <1>10, <2>1 DEF StartStream
    <2> QED
      BY <1>2, <2>2
  <1>11. CASE WriteStreamNet \/ ReadHead \/ ReadSize \/ ReadData
    <2>1. Rest
      BY <1>3, <1>11 DEF WriteStreamNet, ReadHead, ReadSize, ReadData
    <2> QED
      BY <1>2, <2>1
  <1>12. CASE \/ FinishHandshake \/ DeviceOption \/ AddDevice \/ CloseChannel
              \/ MappedCmd \/ ParamAddr \/ CmdWrite \/ CmdRead
              \/ StreamCmd \/ WriteHead \/ WriteSize \/ WriteData \/ WriteAck
              \/ ReadSend \/ ReadStart \/ Reset \/ UNCHANGED vars
    BY <1>4, <1>12 DEF FinishHandshake, DeviceOption, AddDevice, CloseChannel,
          MappedCmd, ParamAddr, CmdWrite, CmdRead, StreamCmd, WriteHead, WriteSize,
          WriteData, WriteAck, ReadSend, ReadStart, Reset, vars
  <1> HIDE DEF Rest
  <1> QED
    BY <1>0, <1>5, <1>6, <1>7, <1>8, <1>9, <1>10, <1>11, <1>12, StepCases

LEMMA ServerTypeStep == ASSUME NetInv, Step PROVE ServerType'
  <1>0. ServerType /\ TypeOK
    BY DEF NetInv, TypeOK
  <1>1. size' \in 0 .. SizeModulus - 1 /\ buf' \in Seq(Nat) /\ Len(buf') < BufferSize
    <2>1. size' \in 0 .. FrameSize + 1
      BY SizeStep DEF SizeInv
    <2> QED
      BY <2>1, CleanStep, ModulusAssumption, SizesAssumption
  <1> DEFINE Rest == /\ spc' \in {"hs", "option", "add", "cmd", "waddr", "wvalue", "raddr", "reply",
                            "whead", "wsize", "wdata", "wack", "rsend", "rread",
                            "close", "done", "killed"}
                     /\ start' \in {"write", "other"} /\ addr' \in Addresses /\ noBuffer' \in BOOLEAN
  <1>2. ASSUME Rest PROVE ServerType'
    BY <1>1, <1>2 DEF ServerType
  <1>3. /\ spc \in {"hs", "option", "add", "cmd", "waddr", "wvalue", "raddr", "reply",
                    "whead", "wsize", "wdata", "wack", "rsend", "rread",
                    "close", "done", "killed"}
        /\ start \in {"write", "other"} /\ addr \in Addresses /\ noBuffer \in BOOLEAN
    BY <1>0 DEF ServerType
  <1>4. CASE UNCHANGED <<spc, serverVars>>
    BY <1>2, <1>3, <1>4 DEF serverVars
  <1>5. CASE \/ Hangup \/ Handshake \/ HandshakeAck \/ OpenRemoteDevice \/ DeviceOpened
             \/ CallAddr \/ CallValue \/ CallReturn
             \/ WriteStreamNet \/ ReadHead \/ ReadSize \/ ReadData \/ StartStream
             \/ Reset \/ UNCHANGED vars
    BY <1>4, <1>5 DEF Hangup, Handshake, HandshakeAck, OpenRemoteDevice, DeviceOpened,
          CallAddr, CallValue, CallReturn, WriteStreamNet, ReadHead, ReadSize, ReadData,
          StartStream, Reset, vars
  <1>6. ASSUME NEW a, NEW v, ReadNet(a) \/ WriteNet(a, v) PROVE UNCHANGED <<spc, serverVars>>
    BY <1>6 DEF ReadNet, WriteNet
  <1>7. CASE FinishHandshake \/ DeviceOption \/ AddDevice \/ CloseChannel
    <2>1. Rest
      BY <1>3, <1>7 DEF FinishHandshake, DeviceOption, AddDevice, CloseChannel, ServerSends,
                        serverVars
    <2> QED
      BY <1>2, <2>1
  <1>8. CASE MappedCmd \/ CmdWrite \/ CmdRead
    <2>1. Rest
      BY <1>3, <1>8 DEF MappedCmd, CmdWrite, CmdRead, ServerSends, AfterEof, serverVars
    <2> QED
      BY <1>2, <2>1
  <1>9. CASE ParamAddr
    <2>1. Arrived => Head(up)[2] \in Addresses
      BY <1>9, FirstUnit DEF ParamAddr, Arrived, Word
    <2>2. Rest
      BY <1>3, <1>9, <2>1 DEF ParamAddr
    <2> QED
      BY <1>2, <2>2
  <1>10. CASE StreamCmd \/ WriteHead \/ WriteSize \/ WriteAck
    <2>1. Rest
      BY <1>3, <1>10 DEF StreamCmd, WriteHead, WriteSize, WriteAck, ServerSends, GetBuffer,
                         serverVars
    <2> QED
      BY <1>2, <2>1
  <1>11. CASE WriteData
    <2>1. UNCHANGED <<start, addr>> /\ spc' \in {spc, "wack", "killed"}
      BY <1>11 DEF WriteData, ReceivePiece, ReceiveError
    <2>2. noBuffer' \in BOOLEAN
      BY <1>3, <1>11 DEF WriteData, ReceivePiece, ReceiveError, SubmitFull, GetBuffer
    <2> QED
      BY <1>2, <1>3, <2>1, <2>2
  <1>12. CASE ReadSend \/ ReadStart
    <2>1. Rest
      BY <1>3, <1>12 DEF ReadSend, ReadStart, ServerSends, GetBuffer, serverVars
    <2> QED
      BY <1>2, <2>1
  <1> HIDE DEF Rest
  <1> QED
    BY <1>0, <1>4, <1>5, <1>6, <1>7, <1>8, <1>9, <1>10, <1>11, <1>12, StepCases

LEMMA Shorter ==
  ASSUME NEW S, NEW s \in Seq(S), NEW w \in Nat, Len(s) <= w
  PROVE  /\ s # <<>> => Tail(s) \in Seq(S) /\ Len(Tail(s)) <= w
         /\ \A a \in Nat \ {0} : SubSeq(s, a, Len(s)) \in Seq(S) /\ Len(SubSeq(s, a, Len(s))) <= w
         /\ \A n \in 0 .. Len(s) : SubSeq(s, 1, n) \in Seq(S) /\ Len(SubSeq(s, 1, n)) <= w
  OBVIOUS

LEMMA LinkTypeStep == ASSUME NetInv, Step PROVE LinkType'
  <1>0. /\ LinkType /\ TypeOK /\ Window \in Nat /\ FrameSize \in Nat
        /\ up \in Seq(Units) /\ down \in Seq(Units) /\ Len(up) <= Window /\ Len(down) <= Window
        /\ line \in {"up", "fin", "rst", "dead"}
        /\ regs \in [0 .. RegCount -> Int] /\ addr \in Addresses /\ call \in Addresses \X Int
        /\ kind \in {"mapped", "tx", "rx"}
    <2>1. TypeOK /\ LinkType /\ DeviceType /\ ServerType /\ ClientType /\ kind \in {"mapped", "tx", "rx"}
      BY KindsAssumption DEF NetInv, TypeOK
    <2>2. Window \in Nat /\ FrameSize \in Nat
      BY NetBoundsAssumption, SizesAssumption
    <2> QED
      BY <2>1, <2>2 DEF LinkType, DeviceType, ServerType, ClientType
  <1> DEFINE Good(s) == s \in Seq(Units) /\ Len(s) <= Window
  <1>1. ASSUME Good(up'), Good(down'), line' \in {"up", "fin", "rst", "dead"} PROVE LinkType'
    BY <1>1 DEF LinkType
  <1>2. Good(up) /\ Good(down)
    BY <1>0
  <1>3. ASSUME NEW t \in Seq(Units), ClientSends(t) PROVE Good(up')
    <2>1. PICK s \in Seq(Units) : s = up
      BY <1>0
    <2>2. s \o t \in Seq(Units) /\ Len(s \o t) = Len(s) + Len(t)
      BY Concat
    <2> QED
      BY <1>3, <2>1, <2>2 DEF ClientSends
  <1>4. ASSUME NEW t \in Seq(Units), NEW ok, NEW failed, ServerSends(t, ok, failed)
        PROVE  Good(down') /\ line' \in {"up", "fin", "rst", "dead"}
    <2>1. PICK s \in Seq(Units) : s = down
      BY <1>0
    <2>2. s \o t \in Seq(Units) /\ Len(s \o t) = Len(s) + Len(t)
      BY Concat
    <2>3. line' \in {"up", "fin", "rst", "dead"}
      BY <1>0, <1>4 DEF ServerSends
    <2> QED
      BY <1>2, <1>4, <2>1, <2>2, <2>3 DEF ServerSends
  <1>5. ASSUME up # <<>>, up' = Tail(up) PROVE Good(up')
    BY <1>0, <1>5, Shorter
  <1>6. ASSUME NEW u, ClientReceives(u) PROVE Good(down')
    BY <1>0, <1>6, Shorter DEF ClientReceives
  <1>7. ASSUME NoUnit PROVE Good(up') /\ line' \in {"up", "fin", "rst", "dead"}
    BY <1>0, <1>7 DEF NoUnit, Eof, Error
  <1>8. /\ \A c \in Tags : <<Cmd(c)>> \in Seq(Units)
        /\ \A n \in Int : <<Word(n)>> \in Seq(Units)
    BY UnitType
  <1>9. {"handshake", "ack", "path", "fd", "write", "read", "tx", "rx", "frame"} \subseteq Tags
    BY DEF Tags
  <1>10. \A w \in Seq(Units), c \in Tags : <<Cmd(c), Word(FrameSize)>> \o w \in Seq(Units)
    <2> TAKE w \in Seq(Units), c \in Tags
    <2>1. Cmd(c) \in Units /\ Word(FrameSize) \in Units
      BY <1>0, UnitType
    <2>2. <<Cmd(c), Word(FrameSize)>> \in Seq(Units)
      BY <2>1
    <2> QED
      BY <2>2, ConcatType
  <1> HIDE DEF Good
  <1>11. CASE Hangup
    <2>1. Good(up')
      <3>1. ASSUME NEW n \in 0 .. Len(up), up' = SubSeq(up, 1, n) PROVE Good(up')
        BY <1>0, <3>1, Shorter DEF Good
      <3> QED
        BY <1>2, <1>11, <3>1 DEF Hangup
    <2>2. down' = down /\ line' \in {"fin", "rst"}
      BY <1>11 DEF Hangup
    <2> QED
      BY <1>1, <1>2, <2>1, <2>2
  <1>12. CASE Handshake \/ OpenRemoteDevice
    BY <1>0, <1>1, <1>2, <1>3, <1>8, <1>9, <1>12 DEF Handshake, OpenRemoteDevice
  <1>13. CASE HandshakeAck \/ DeviceOpened \/ CallReturn
    BY <1>0, <1>1, <1>2, <1>6, <1>13 DEF HandshakeAck, DeviceOpened, CallReturn
  <1>14. CASE CallAddr \/ CallValue
    <2>1. call[1] \in Int /\ call[2] \in Int
      BY <1>0
    <2> QED
      BY <1>0, <1>1, <1>2, <1>3, <1>8, <1>14, <2>1 DEF CallAddr, CallValue
  <1>15. ASSUME NEW a \in Addresses, ReadNet(a) \/ \E v \in Values : WriteNet(a, v)
         PROVE  LinkType'
    BY <1>0, <1>1, <1>2, <1>3, <1>8, <1>9, <1>15 DEF ReadNet, WriteNet
  <1>16. CASE StartStream
    BY <1>0, <1>1, <1>2, <1>3, <1>8, <1>9, <1>16 DEF StartStream
  <1>17. CASE WriteStreamNet
    <2>1. Samples(Frame(calls)) \in Seq(Units)
      BY <1>17, FrameWritten DEF WriteStreamNet
    <2>2. <<Cmd("tx"), Word(FrameSize)>> \o Samples(Frame(calls)) \in Seq(Units)
      BY <1>9, <1>10, <2>1
    <2>3. Good(up')
      BY <1>3, <1>17, <2>2 DEF WriteStreamNet
    <2> QED
      BY <1>0, <1>1, <1>2, <1>17, <2>3 DEF WriteStreamNet
  <1>18. CASE ReadHead \/ ReadSize
    BY <1>0, <1>1, <1>2, <1>6, <1>18 DEF ReadHead, ReadSize
  <1>19. CASE ReadData
    <2>1. PICK k \in Pieces(down, remain) : down' = SubSeq(down, k + 1, Len(down))
      BY <1>19 DEF ReadData
    <2>2. remain \in Nat
      BY SizesAssumption DEF NetInv, TypeOK, ClientType
    <2>3. k \in Nat
      BY <2>2 DEF Pieces
    <2>4. PICK a \in Nat \ {0} : a = k + 1
      BY <2>3
    <2>5. Good(down')
      BY <1>0, <2>1, <2>4, Shorter DEF Good
    <2> QED
      BY <1>0, <1>1, <1>2, <1>19, <2>5 DEF ReadData
  <1>20. CASE FinishHandshake
    <2>1. <<Cmd("ack")>> \in Seq(Units)
      BY <1>8, <1>9
    <2> QED
      BY <1>1, <1>2, <1>4, <1>5, <1>7, <1>20, <2>1 DEF FinishHandshake, Arrived
  <1>21. CASE DeviceOption \/ MappedCmd \/ ParamAddr \/ CmdWrite
    <2>1. down' = down
      BY <1>21 DEF DeviceOption, MappedCmd, ParamAddr, CmdWrite
    <2>2. NoUnit \/ (up # <<>> /\ up' = Tail(up) /\ line' = line)
      BY <1>21 DEF DeviceOption, MappedCmd, ParamAddr, CmdWrite, Arrived, NoUnit
    <2> QED
      BY <1>0, <1>1, <1>2, <1>5, <1>7, <2>1, <2>2
  <1>22. CASE StreamCmd \/ WriteHead \/ WriteSize
    <2>1. down' = down
      BY <1>22 DEF StreamCmd, WriteHead, WriteSize
    <2>2. NoUnit \/ (up # <<>> /\ up' = Tail(up) /\ line' = line)
      BY <1>22 DEF StreamCmd, WriteHead, WriteSize, Arrived
    <2> QED
      BY <1>0, <1>1, <1>2, <1>5, <1>7, <2>1, <2>2
  <1>23. CASE AddDevice \/ WriteAck
    <2>1. <<Cmd("fd")>> \in Seq(Units) /\ <<Cmd("ack")>> \in Seq(Units)
      BY <1>8, <1>9
    <2> QED
      BY <1>1, <1>2, <1>4, <1>23, <2>1 DEF AddDevice, WriteAck
  <1>24. CASE CmdRead
    <2>1. ReadLocal(regs, addr) \in Int
      BY <1>0 DEF ReadLocal, InRange
    <2>2. <<Word(ReadLocal(regs, addr))>> \in Seq(Units)
      BY <1>8, <2>1
    <2> QED
      BY <1>1, <1>2, <1>4, <1>24, <2>2 DEF CmdRead
  <1>25. CASE WriteData
    <2>1. down' = down /\ spc = "wdata"
      BY <1>25 DEF WriteData
    <2>2. ASSUME size > 0, NEW k \in Pieces(up, size), up' = SubSeq(up, k + 1, Len(up))
          PROVE  Good(up')
      <3>1. k \in Nat
        BY <2>1, <2>2, NextPiece
      <3>2. PICK a \in Nat \ {0} : a = k + 1
        BY <3>1
      <3> QED
        BY <1>0, <2>2, <3>2, Shorter DEF Good
    <2>3. Good(up')
      BY <1>2, <1>25, <2>2 DEF WriteData, ReceivePiece, ReceiveError
    <2>4. line' \in {"up", "fin", "rst", "dead"}
      BY <1>0, <1>25 DEF WriteData, ReceivePiece, ReceiveError, Error
    <2> QED
      BY <1>1, <1>2, <2>1, <2>3, <2>4
  <1>26. CASE ReadSend
    <2>2. FrameSent \in Seq(Units)
      BY RingFrame
    <2>3. Good(down') /\ line' \in {"up", "fin", "rst", "dead"}
      BY <1>0, <1>2, <1>4, <1>26, <2>2 DEF ReadSend
    <2> QED
      BY <1>1, <1>2, <1>26, <2>3 DEF ReadSend
  <1>27. CASE CloseChannel \/ ReadStart \/ Reset \/ UNCHANGED vars
    BY <1>0, <1>1, <1>2, <1>27 DEF CloseChannel, ReadStart, Reset, vars
  <1> QED
    BY <1>0, <1>11, <1>12, <1>13, <1>14, <1>15, <1>16, <1>17, <1>18, <1>19, <1>20, <1>21,
       <1>22, <1>23, <1>24, <1>25, <1>26, <1>27, StepCases

LEMMA NetStep == NetInv /\ Step => NetInv'
  <1> SUFFICES ASSUME NetInv, Step PROVE NetInv'
    OBVIOUS
  <1>1. TypeOK'
    BY Final, ClientTypeStep, LinkTypeStep, ServerTypeStep, RingStep DEF NetInv, TypeOK
  <1>2. TxInv'
    BY WroteStep, CleanStep, FillStep DEF TxInv
  <1> QED
    BY <1>1, <1>2, LineStep, KindStep, OpenStep, CallStep, SizeStep, UpStep, DownStep, RingStep
       DEF NetInv

-----------------------------------------------------------------------------
(***************************************************************************)
(* What the invariant says of the samples.                                 *)
(***************************************************************************)
LEMMA HandleCount ==
  ASSUME NEW p, NEW u, NEW q, Handles("tx", p, u, q)
  PROVE  /\ u[1] = "sample" => u = Sample(p[4] + 1) /\ q[4] = p[4] + 1
         /\ u[1] # "sample" => q[4] = p[4]
  BY DEF Handles, At, Cmd, Word, Header, Nth, Sample

CountTo(s, i) == Cardinality({j \in SamplesIn(s) : j <= i})

\* The receiver has what it had and the samples it handles, which are numbered on.
LEMMA RunCount ==
  ASSUME NEW p, NEW s \in Seq(Units), NEW q, Run("tx", p, s, q), NEW n \in Nat, p[4] = n
  PROVE  /\ q[4] = n + CountTo(s, Len(s)) /\ CountTo(s, Len(s)) \in Nat
         /\ \A i \in SamplesIn(s) :
                /\ CountTo(s, i) \in Nat /\ 1 <= CountTo(s, i) /\ CountTo(s, i) <= CountTo(s, Len(s))
                /\ s[i] = Sample(n + CountTo(s, i))
  <1> DEFINE I(i) == {j \in SamplesIn(s) : j <= i}
             C(i) == Cardinality(I(i))
  <1>0. Len(s) \in Nat /\ SamplesIn(s) \subseteq 1 .. Len(s)
    BY DEF SamplesIn
  <1>1. PICK f : f[1] = p /\ f[Len(s) + 1] = q /\ By("tx", f, s)
    BY DEF Run
  <1>2. ASSUME NEW i \in Int PROVE IsFiniteSet(I(i)) /\ C(i) \in Nat
    <2>1. I(i) \in SUBSET (1 .. Len(s))
      BY <1>0
    <2>2. IsFiniteSet(1 .. Len(s))
      BY <1>0, FS_Interval
    <2> QED
      BY <2>1, <2>2, FS_Subset, FS_CardinalityType
  <1>3. C(0) = 0
    <2>1. I(0) = {}
      BY <1>0
    <2> QED
      BY <2>1, FS_EmptySet
  <1>4. ASSUME NEW i \in 0 .. Len(s) - 1
        PROVE  C(i + 1) = IF i + 1 \in SamplesIn(s) THEN C(i) + 1 ELSE C(i)
    <2>1. CASE i + 1 \in SamplesIn(s)
      <3>1. I(i + 1) = I(i) \cup {i + 1} /\ i + 1 \notin I(i)
        BY <1>0, <2>1
      <3>2. IsFiniteSet(I(i))
        BY <1>2
      <3> HIDE DEF I
      <3> QED
        BY <2>1, <3>1, <3>2, FS_AddElement
    <2>2. CASE i + 1 \notin SamplesIn(s)
      <3>1. I(i + 1) = I(i)
        BY <1>0, <2>2
      <3> QED
        BY <2>2, <3>1
    <2> QED
      BY <2>1, <2>2
  <1> HIDE DEF C, I
  <1> DEFINE S == {i \in Nat : f[i + 1][4] = n + C(i)}
  <1>5. 0 \in S
    BY <1>1, <1>3
  <1>6. ASSUME NEW i \in 0 .. Len(s) - 1, i \in S
        PROVE  i + 1 \in S /\ (i + 1 \in SamplesIn(s) => s[i + 1] = Sample(n + C(i + 1)))
    <2>1. Handles("tx", f[i + 1], s[i + 1], f[(i + 1) + 1])
      <3>1. i + 1 \in 1 .. Len(s)
        BY <1>0
      <3> QED
        BY <1>1, <3>1 DEF By
    <2>2. f[i + 1][4] = n + C(i) /\ C(i) \in Nat
      BY <1>2, <1>6
    <2>3. i + 1 \in SamplesIn(s) <=> s[i + 1][1] = "sample"
      <3>1. i + 1 \in DOMAIN s
        BY <1>0
      <3> QED
        BY <3>1 DEF SamplesIn
    <2>4. CASE s[i + 1][1] = "sample"
      <3>1. s[i + 1] = Sample(f[i + 1][4] + 1) /\ f[(i + 1) + 1][4] = f[i + 1][4] + 1
        BY <2>1, <2>4, HandleCount
      <3>2. C(i + 1) = C(i) + 1
        BY <1>4, <2>3, <2>4
      <3>3. f[i + 1][4] + 1 = n + C(i + 1)
        BY <2>2, <3>2
      <3> QED
        BY <3>1, <3>3
    <2>5. CASE s[i + 1][1] # "sample"
      <3>1. f[(i + 1) + 1][4] = f[i + 1][4]
        BY <2>1, <2>5, HandleCount
      <3>2. C(i + 1) = C(i)
        BY <1>4, <2>3, <2>5
      <3> QED
        BY <2>2, <2>3, <2>5, <3>1, <3>2
    <2> QED
      BY <2>4, <2>5
  <1> HIDE DEF S
  <1>7. \A i \in 0 .. Len(s) : i \in S
    BY <1>0, <1>5, <1>6, UpTo
  <1>8. q[4] = n + C(Len(s)) /\ C(Len(s)) \in Nat
    <2>1. PICK m \in Nat : m = Len(s)
      BY <1>0
    <2>2. m \in S /\ m \in Int
      BY <1>7, <2>1
    <2>3. f[m + 1][4] = n + C(m) /\ C(m) \in Nat
      BY <1>2, <2>2 DEF S
    <2> QED
      BY <1>1, <2>1, <2>3
  <1>9. ASSUME NEW i \in SamplesIn(s)
        PROVE  /\ C(i) \in Nat /\ 1 <= C(i) /\ C(i) <= C(Len(s)) /\ s[i] = Sample(n + C(i))
    <2>1. PICK h \in 0 .. Len(s) - 1 : i = h + 1
      <3>1. i - 1 \in 0 .. Len(s) - 1 /\ i = (i - 1) + 1
        BY <1>0
      <3> QED
        BY <3>1
    <2>2. s[i] = Sample(n + C(i))
      <3>1. h \in S
        BY <1>0, <1>7
      <3>2. h + 1 \in SamplesIn(s) => s[h + 1] = Sample(n + C(h + 1))
        BY <1>6, <3>1
      <3> QED
        BY <2>1, <3>2
    <2>3. C(i) \in Nat /\ C(i) = C(h) + 1 /\ C(h) \in Nat
      <3>1. C(h + 1) = IF h + 1 \in SamplesIn(s) THEN C(h) + 1 ELSE C(h)
        BY <1>4
      <3>2. h \in Int /\ h + 1 \in Int
        OBVIOUS
      <3>3. C(h) \in Nat
        BY <1>2, <3>2
      <3> QED
        BY <2>1, <3>1, <3>3
    <2>4. C(i) <= C(Len(s))
      <3>1. I(i) \subseteq I(Len(s)) /\ IsFiniteSet(I(Len(s)))
        <4>1. IsFiniteSet(I(Len(s)))
          BY <1>0, <1>2
        <4>2. ASSUME NEW j \in I(i) PROVE j \in I(Len(s))
          BY <1>0, <4>2 DEF I
        <4> QED
          BY <4>1, <4>2
      <3> QED
        BY <3>1, FS_Subset DEF C
    <2> QED
      BY <2>2, <2>3, <2>4
  <1> QED
    BY <1>8, <1>9 DEF C, I, CountTo

\* Numbered sequences agree where both are.
LEMMA Prefix ==
  ASSUME NEW a \in Seq(Nat), NEW b \in Seq(Nat), Len(a) <= Len(b),
         \A i \in 1 .. Len(a) : a[i] = i, \A i \in 1 .. Len(b) : b[i] = i
  PROVE  a = SubSeq(b, 1, Len(a))
  <1>1. PICK n \in Nat : n = Len(a)
    OBVIOUS
  <1>2. /\ SubSeq(b, 1, n) \in Seq(Nat) /\ Len(SubSeq(b, 1, n)) = n
        /\ \A i \in 1 .. n : SubSeq(b, 1, n)[i] = b[i] /\ i \in 1 .. Len(b)
    BY <1>1
  <1>3. \A i \in 1 .. Len(a) : a[i] = SubSeq(b, 1, n)[i]
    BY <1>1, <1>2
  <1> QED
    BY <1>1, <1>2, <1>3, SeqEqual

LEMMA TxOrder == ASSUME NetInv PROVE TxFaithful
  <1>0. /\ WroteInv /\ (Clean \/ Spoilt) /\ wrote \in Seq(Nat) /\ buf \in Seq(Nat)
        /\ stream \in Seq(Nat) /\ up \in Seq(Units)
    <2>1. WroteInv /\ (Clean \/ Spoilt) /\ ClientType /\ ServerType /\ DeviceType /\ LinkType
      BY DEF NetInv, TxInv, TypeOK
    <2> QED
      BY <2>1 DEF ClientType, ServerType, DeviceType, LinkType
  <1>1. Len(wrote) \in Nat /\ Len(buf) \in Nat /\ Len(stream) \in Nat /\ Count \in Nat
        /\ Count = Len(stream) + Len(buf)
    BY <1>0 DEF Count
  <1>2. TxOnlyWritten
    <2>1. CASE Clean
      <3>1. PICK n \in 0 .. Len(wrote) : n = Len(stream)
        BY <1>1, <2>1 DEF Clean
      <3>2. \A i \in 1 .. n : stream[i] = wrote[i]
        BY <1>0, <1>1, <2>1, <3>1 DEF Clean, WroteInv
      <3>3. n \in Nat /\ n <= Len(stream) /\ n + 1 .. Len(stream) = {}
        BY <1>1, <3>1
      <3> QED
        BY <3>1, <3>2, <3>3 DEF TxOnlyWritten
    <2>2. CASE Spoilt
      <3> DEFINE b == [k \in 1 .. BufferSize |-> 0]
      <3>1. PICK n \in 0 .. Len(wrote) : stream = SubSeq(wrote, 1, n) \o b
        BY <2>2 DEF Spoilt
      <3>2. BufferSize \in Nat /\ n \in Nat
        BY <1>1, SizesAssumption
      <3>3. PICK a : a = SubSeq(wrote, 1, n)
        OBVIOUS
      <3>4. a \in Seq(Nat) /\ Len(a) = n /\ \A i \in 1 .. n : a[i] = wrote[i]
        BY <1>0, <1>1, <3>2, <3>3
      <3>5. b \in Seq(Nat) /\ Len(b) = BufferSize /\ \A i \in 1 .. BufferSize : b[i] = 0
        BY <3>2
      <3> HIDE DEF b
      <3>6. /\ Len(stream) = n + BufferSize
            /\ \A i \in 1 .. n : stream[i] = a[i]
            /\ \A i \in 1 .. BufferSize : stream[n + i] = b[i]
        <4>1. a \in Seq(Nat) /\ b \in Seq(Nat) /\ stream = a \o b
          BY <3>1, <3>3, <3>4, <3>5
        <4>2. /\ Len(a \o b) = Len(a) + Len(b)
              /\ \A i \in 1 .. Len(a) : (a \o b)[i] = a[i]
              /\ \A i \in 1 .. Len(b) : (a \o b)[Len(a) + i] = b[i]
          BY <4>1, Concat
        <4> QED
          BY <3>4, <3>5, <4>1, <4>2
      <3>7. ASSUME NEW i \in n + 1 .. Len(stream) PROVE stream[i] = 0
        <4>1. i - n \in 1 .. BufferSize /\ n + (i - n) = i
          BY <3>2, <3>6
        <4> QED
          BY <3>5, <3>6, <4>1
      <3> QED
        BY <3>2, <3>4, <3>6, <3>7 DEF TxOnlyWritten
    <2> QED
      BY <1>0, <2>1, <2>2
  <1>3. ASSUME kind = "tx", line \in {"up", "fin"} PROVE TxNothingLost
    <2>1. Clean
      BY <1>0, <1>3 DEF Spoilt
    <2>2. PICK p, q : Run("tx", p, up, q) /\ p[4] = Count /\ q[4] = Len(wrote)
      <3>1. Expected[4] = Len(wrote)
        BY DEF Expected
      <3> QED
        BY <1>3, <3>1 DEF NetInv, UpInv, LineInv
    <2> DEFINE C(i) == CountTo(up, i)
    <2>3. /\ q[4] = Count + C(Len(up)) /\ C(Len(up)) \in Nat
          /\ \A i \in SamplesIn(up) : /\ C(i) \in Nat /\ 1 <= C(i) /\ C(i) <= C(Len(up))
                                      /\ up[i] = Sample(Count + C(i))
      <3>1. PICK s \in Seq(Units), n \in Nat : s = up /\ n = Count
        BY <1>0, <1>1
      <3>2. Run("tx", p, s, q) /\ p[4] = n
        BY <2>2, <3>1
      <3>3. q[4] = n + CountTo(s, Len(s)) /\ CountTo(s, Len(s)) \in Nat
        BY <3>2, RunCount
      <3>4. \A i \in SamplesIn(s) :
                /\ CountTo(s, i) \in Nat /\ 1 <= CountTo(s, i) /\ CountTo(s, i) <= CountTo(s, Len(s))
                /\ s[i] = Sample(n + CountTo(s, i))
        BY <3>2, RunCount
      <3> QED
        BY <3>1, <3>3, <3>4
    <2>4. stream \o buf = SubSeq(wrote, 1, Count)
      <3>1. PICK s \in Seq(Nat), b \in Seq(Nat) : s = stream /\ b = buf
        BY <1>0
      <3>2. PICK t : t = s \o b
        OBVIOUS
      <3>3. /\ t \in Seq(Nat) /\ Len(t) = Len(s) + Len(b)
            /\ \A i \in 1 .. Len(s) : t[i] = s[i]
            /\ \A i \in 1 .. Len(b) : t[Len(s) + i] = b[i]
        BY <3>2, Concat
      <3>4. ASSUME NEW i \in 1 .. Len(t) PROVE t[i] = i
        <4>1. CASE i <= Len(s)
          <5>1. i \in 1 .. Len(s)
            BY <1>1, <3>1, <3>3, <4>1
          <5> QED
            BY <2>1, <3>1, <3>3, <5>1 DEF Clean
        <4>2. CASE i > Len(s)
          <5>1. PICK j \in 1 .. Len(b) : i = Len(s) + j
            <6>1. i - Len(s) \in 1 .. Len(b) /\ i = Len(s) + (i - Len(s))
              BY <1>1, <3>1, <3>3, <4>2
            <6> QED
              BY <6>1
          <5> QED
            BY <2>1, <3>1, <3>3, <5>1 DEF Clean
        <4> QED
          BY <1>1, <3>1, <3>3, <4>1, <4>2
      <3>5. Len(t) = Count /\ Count <= Len(wrote)
        BY <1>1, <2>1, <3>1, <3>3 DEF Clean
      <3> QED
        BY <1>0, <3>1, <3>2, <3>3, <3>4, <3>5, Prefix DEF WroteInv
    <2> HIDE DEF C
    <2>5. \A i \in SamplesIn(up) : up[i][2] = wrote[Count + C(i)]
      <3> TAKE i \in SamplesIn(up)
      <3>1. Count + C(i) \in 1 .. Len(wrote)
        BY <1>1, <2>2, <2>3
      <3>2. wrote[Count + C(i)] = Count + C(i)
        BY <1>0, <3>1 DEF WroteInv
      <3> QED
        BY <2>3, <3>2 DEF Sample
    <2>6. Count + C(Len(up)) = Len(wrote)
      BY <2>2, <2>3
    <2> QED
      BY <2>4, <2>5, <2>6 DEF TxNothingLost, C, CountTo, Count
  <1> QED
    BY <1>2, <1>3 DEF TxFaithful

-----------------------------------------------------------------------------
(***************************************************************************)
(* After the interrupt.  The handlers go on without a connection, and the  *)
(* client with what had been sent: the beginning of what it expects.       *)
(***************************************************************************)
ClosedDown ==
    /\ cpc \in {"new", "path"} => down = <<>>
    /\ cpc = "ack" => down = <<>> \/ down = <<Cmd("ack")>>
    /\ cpc = "fd" => down = <<>> \/ down = <<Cmd("fd")>>
    /\ kind = "mapped" /\ cpc \in {"ready", "waddr", "wvalue", "raddr"} => down = <<>>
    /\ cpc = "value" => down = <<>> \/ down = <<Word(ReadLocal(shadow, call[1]))>>
    /\ cpc \in {"waddr", "wvalue"} => last = NoRead
    /\ cpc = "write" => calls > 0

ClosedReader ==
    /\ cpc = "data" => remain > 0
    /\ kind = "rx" /\ cpc \in {"ready", "head", "size", "data"} => \E q : Run("rx", Reader, down, q)
    /\ \A i \in 1 .. Len(got) : Sample(got[i]) = Nth("rx", i)

\* A read after the interrupt has its answer, or the client is told nothing.
ClosedRead == last # NoRead /\ last[3] => last[2] = ReadLocal(shadow, last[1])

ClosedInv ==
    /\ TypeOK /\ line = "closed" /\ KindInv
    /\ ClosedDown /\ ClosedReader /\ ClosedRead /\ TxOnlyWritten

LEMMA CutOne ==
  ASSUME NEW u, NEW s, s = <<>> \/ s = <<u>>, NEW n \in 0 .. Len(s)
  PROVE  SubSeq(s, 1, n) = <<>> \/ SubSeq(s, 1, n) = <<u>>
  <1>1. CASE s = <<>>
    BY <1>1
  <1>2. CASE s = <<u>>
    <2>1. n = 0 \/ n = 1
      BY <1>2
    <2>2. SubSeq(<<u>>, 1, 0) = <<>>
      OBVIOUS
    <2>3. SubSeq(<<u>>, 1, 1) = <<u>>
      <3>0. <<u>> \in Seq({u})
        OBVIOUS
      <3>1. PICK b \in Seq({u}) : b = <<u>>
        BY <3>0
      <3>2. SubSeq(b, 1, Len(b)) = b /\ Len(b) = 1
        BY <3>1, WholeSeq
      <3> QED
        BY <3>1, <3>2
    <2> QED
      BY <1>2, <2>1, <2>2, <2>3
  <1> QED
    BY <1>1, <1>2

LEMMA CutMore ==
  ASSUME NEW S, NEW s \in Seq(S), NEW t \in Seq(S), NEW n \in 0 .. Len(t)
  PROVE  /\ s \o SubSeq(t, 1, n) = SubSeq(s \o t, 1, Len(s) + n)
         /\ s \o SubSeq(t, 1, n) \in Seq(S) /\ Len(s \o SubSeq(t, 1, n)) = Len(s) + n
         /\ Len(s) + n \in 0 .. Len(s \o t) /\ s \o t \in Seq(S)
  <1>1. PICK a : a = SubSeq(t, 1, n)
    OBVIOUS
  <1>2. a \in Seq(S) /\ Len(a) = n /\ n \in Nat /\ \A i \in 1 .. n : a[i] = t[i] /\ i \in 1 .. Len(t)
    BY <1>1
  <1>3. /\ s \o a \in Seq(S) /\ Len(s) \in Nat /\ Len(s \o a) = Len(s) + Len(a)
        /\ \A i \in 1 .. Len(s) : (s \o a)[i] = s[i]
        /\ \A i \in 1 .. Len(a) : (s \o a)[Len(s) + i] = a[i]
    <2>1. a \in Seq(S)
      BY <1>2
    <2> QED
      BY <2>1, Concat
  <1>4. /\ s \o t \in Seq(S) /\ Len(t) \in Nat /\ Len(s \o t) = Len(s) + Len(t)
        /\ \A i \in 1 .. Len(s) : (s \o t)[i] = s[i]
        /\ \A i \in 1 .. Len(t) : (s \o t)[Len(s) + i] = t[i]
    BY Concat
  <1>5. PICK x \in Seq(S), y \in Seq(S), m \in Nat, l \in Nat :
            x = s \o a /\ y = s \o t /\ m = Len(s) + n /\ l = Len(s)
    <2>1. Len(s) + n \in Nat
      BY <1>2, <1>3
    <2> QED
      BY <1>3, <1>4, <2>1
  <1>6. m \in 0 .. Len(y) /\ y \in Seq(S) /\ x \in Seq(S) /\ Len(x) = m
    BY <1>2, <1>3, <1>4, <1>5
  <1>7. PICK z : z = SubSeq(y, 1, m)
    OBVIOUS
  <1>8. z \in Seq(S) /\ Len(z) = m /\ \A i \in 1 .. m : z[i] = y[i]
    BY <1>6, <1>7
  <1>9. ASSUME NEW i \in 1 .. m PROVE x[i] = y[i]
    <2>1. CASE i <= l
      <3>1. i \in 1 .. Len(s)
        BY <1>5, <2>1
      <3> QED
        BY <1>3, <1>4, <1>5, <3>1
    <2>2. CASE i > l
      <3>1. PICK j \in 1 .. n : i = l + j
        <4>1. i - l \in 1 .. n /\ i = l + (i - l)
          BY <1>2, <1>5, <2>2
        <4> QED
          BY <4>1
      <3>2. x[i] = a[j] /\ y[i] = t[j]
        BY <1>2, <1>3, <1>4, <1>5, <3>1
      <3> QED
        BY <1>2, <3>2
    <2> QED
      BY <2>1, <2>2
  <1>10. x = z
    BY <1>6, <1>8, <1>9, SeqEqual
  <1> QED
    BY <1>1, <1>3, <1>4, <1>5, <1>6, <1>7, <1>10

LEMMA SigintStep == ASSUME NetInv, Sigint PROVE ClosedInv'
  <1>0. /\ TypeOK /\ KindInv /\ OpenInv /\ CallInv /\ DownInv /\ WroteInv
        /\ ClientType /\ LinkType /\ ServerType /\ DeviceType
        /\ down \in Seq(Units) /\ Len(down) <= Window /\ Window \in Nat
    BY NetBoundsAssumption DEF NetInv, TypeOK, LinkType, TxInv
  <1>1. line' = "closed" /\ UNCHANGED <<kind, clientVars, up, serverVars, deviceVars>>
    BY DEF Sigint
  <1>2. CASE \E n \in 0 .. Len(down) : down' = SubSeq(down, 1, n) /\ UNCHANGED spc
    <2>1. PICK n \in 0 .. Len(down) : down' = SubSeq(down, 1, n)
      BY <1>2
    <2>2. spc' = spc
      BY <1>2
    <2>3. down' \in Seq(Units) /\ Len(down') <= Window
      BY <1>0, <2>1, Shorter
    <2>4. TypeOK'
      BY <1>0, <1>1, <2>2, <2>3 DEF TypeOK, ClientType, LinkType, ServerType, DeviceType,
         clientVars, serverVars, deviceVars, Limit
    <2>5. KindInv'
      BY <1>0, <1>1, <2>2 DEF KindInv, clientVars
    <2>6. \A u : down = <<>> \/ down = <<u>> => down' = <<>> \/ down' = <<u>>
      BY <2>1, CutOne
    <2>7. ClosedDown'
      <3>1. cpc = "write" => calls > 0
        <4> SUFFICES ASSUME cpc = "write", ~(calls > 0) PROVE FALSE
          OBVIOUS
        <4>1. /\ calls \in Nat /\ calls = 0 /\ FrameSize \in Nat /\ FrameSize > 0
              /\ Len(wrote) = FrameSize * (calls - 1) /\ Len(wrote) \in Nat
          <5>1. kind = "tx" /\ wrote \in Seq(Nat) /\ calls \in Nat
            BY <1>0, NetBoundsAssumption DEF KindInv, ClientType, Limit
          <5> QED
            BY <1>0, <5>1, SizesAssumption DEF WroteInv
        <4> QED
          BY <4>1
      <3>2. cpc \in {"new", "path"} => down' = <<>>
        BY <1>0, <2>6 DEF OpenInv
      <3>3. cpc = "ack" => down' = <<>> \/ down' = <<Cmd("ack")>>
        BY <1>0, <2>6 DEF OpenInv
      <3>4. cpc = "fd" => down' = <<>> \/ down' = <<Cmd("fd")>>
        BY <1>0, <2>6 DEF OpenInv
      <3>5. kind = "mapped" /\ cpc \in {"ready", "waddr", "wvalue", "raddr"} => down' = <<>>
        BY <1>0, <2>1 DEF CallInv
      <3>6. cpc = "value" => down' = <<>> \/ down' = <<Word(ReadLocal(shadow, call[1]))>>
        BY <1>0, <2>6 DEF CallInv
      <3> QED
        BY <1>0, <1>1, <3>1, <3>2, <3>3, <3>4, <3>5, <3>6 DEF ClosedDown, CallInv, clientVars
    <2>8. ClosedReader'
      <3>1. Reader' = Reader
        BY <1>1 DEF Reader, clientVars
      <3>2. ASSUME NEW q, Run("rx", Reader, down, q) PROVE \E r : Run("rx", Reader, down', r)
        BY <1>0, <2>1, <3>2, RunCut
      <3> QED
        BY <1>0, <1>1, <3>1, <3>2 DEF ClosedReader, DownInv, clientVars
    <2> QED
      BY <1>0, <1>1, <2>4, <2>5, <2>7, <2>8, TxOrder
         DEF ClosedInv, ClosedRead, CallInv, TxFaithful, TxOnlyWritten, clientVars, deviceVars
  <1>3. CASE /\ spc = "rsend" /\ spc' = "rread"
             /\ \E n \in 1 .. FrameSize + 1 : /\ Len(down) + n <= Window
                                              /\ down' = down \o SubSeq(FrameSent, 1, n)
    <2>0. spc = "rsend" /\ spc' = "rread" /\ kind = "rx"
      BY <1>0, <1>3 DEF KindInv
    <2>1. PICK n \in 1 .. FrameSize + 1 : /\ Len(down) + n <= Window
                                          /\ down' = down \o SubSeq(FrameSent, 1, n)
      BY <1>3
    <2>2. PICK w \in Seq(Units) :
              /\ FrameSent = <<Header("rx"), Word(FrameSize)>> \o w /\ Len(w) = FrameSize
              /\ \A i \in 1 .. FrameSize : w[i] = Nth("rx", packets * FrameSize + i)
              /\ FrameSent \in Seq(Units) /\ Len(FrameSent) = FrameSize + 2
      BY RingFrame
    <2>3. n \in 0 .. Len(FrameSent)
      BY <2>2, SizesAssumption
    <2>4. /\ down' = SubSeq(down \o FrameSent, 1, Len(down) + n)
          /\ down' \in Seq(Units) /\ Len(down') = Len(down) + n
          /\ Len(down) + n \in 0 .. Len(down \o FrameSent) /\ down \o FrameSent \in Seq(Units)
      <3>1. PICK s \in Seq(Units), t \in Seq(Units) : s = down /\ t = FrameSent
        BY <1>0, <2>2
      <3>2. n \in 0 .. Len(t)
        BY <2>3, <3>1
      <3>3. /\ s \o SubSeq(t, 1, n) = SubSeq(s \o t, 1, Len(s) + n)
            /\ s \o SubSeq(t, 1, n) \in Seq(Units) /\ Len(s \o SubSeq(t, 1, n)) = Len(s) + n
            /\ Len(s) + n \in 0 .. Len(s \o t) /\ s \o t \in Seq(Units)
        BY <3>2, CutMore
      <3> QED
        BY <2>1, <3>1, <3>3
    <2>5. TypeOK'
      BY <1>0, <1>1, <2>0, <2>1, <2>4 DEF TypeOK, ClientType, LinkType, ServerType, DeviceType,
         clientVars, serverVars, deviceVars, Limit
    <2>6. KindInv'
      BY <1>0, <1>1, <2>0 DEF KindInv, clientVars
    <2>7. cpc \in {"ready", "head", "size", "data", "spin", "gone"}
      BY <1>0, <2>0 DEF OpenInv, KindInv, ClientType
    <2>8. ClosedDown'
      BY <1>1, <2>0, <2>7 DEF ClosedDown, clientVars
    <2>9. ClosedReader'
      <3>1. Reader' = Reader
        BY <1>1 DEF Reader, clientVars
      <3>2. ASSUME cpc \in {"ready", "head", "size", "data"} PROVE \E r : Run("rx", Reader, down', r)
        <4>0. FrameSize \in Nat /\ packets \in Nat
          BY <1>0, SizesAssumption DEF DeviceType
        <4>1. PICK m \in Nat : m = packets * FrameSize
          BY <4>0, OneMore
        <4>2. Run("rx", Reader, down, Within(0, 0, m))
          BY <1>0, <2>0, <3>2, <4>1 DEF DownInv, FramesSent
        <4>3. Run("rx", Reader, down \o FrameSent, Within(0, 0, m + FrameSize))
          BY <1>0, <2>2, <4>1, <4>2, RunFrame
        <4>4. PICK s \in Seq(Units), j \in 0 .. Len(down \o FrameSent) :
                  s = down \o FrameSent /\ j = Len(down) + n
          BY <2>4
        <4>5. j \in 0 .. Len(s) /\ Run("rx", Reader, s, Within(0, 0, m + FrameSize))
          BY <2>4, <4>3, <4>4
        <4>6. \E r : Run("rx", Reader, SubSeq(s, 1, j), r)
          BY <4>5, RunCut
        <4> QED
          BY <2>4, <4>4, <4>6
      <3> QED
        BY <1>0, <1>1, <3>1, <3>2 DEF ClosedReader, DownInv, clientVars
    <2> QED
      BY <1>0, <1>1, <2>5, <2>6, <2>8, <2>9, TxOrder
         DEF ClosedInv, ClosedRead, CallInv, TxFaithful, TxOnlyWritten, clientVars, deviceVars
  <1> QED
    BY <1>2, <1>3 DEF Sigint

\* The steps of the two ends.
LEMMA ClosedCases ==
  ASSUME ClosedInv, [Next]_vars
  PROVE  \/ Hangup /\ cpc # "gone"
         \/ Handshake \/ HandshakeAck \/ OpenRemoteDevice \/ DeviceOpened
         \/ CallAddr \/ CallValue \/ CallReturn \/ CallUnanswered
         \/ WriteStreamNet \/ ReadHead \/ ReadSize \/ ReadData \/ ReadForever
         \/ \E a \in Addresses : ReadNet(a) \/ \E v \in Values : WriteNet(a, v)
         \/ StartStream \/ ServerStep \/ UNCHANGED vars
  <1>1. OpenFailed \/ CloseDevice \/ Kill => Hangup /\ cpc # "gone"
    BY DEF OpenFailed, CloseDevice, Kill
  <1>2. Sigpipe => Hangup /\ cpc # "gone"
    BY DEF Sigpipe
  <1>3. ~Reset /\ ~Sigint
    BY DEF Reset, Sigint, ClosedInv
  <1> QED
    BY <1>1, <1>2, <1>3 DEF Next, ClientStep, ClientCall

\* The handlers touch nothing but their own state and the devices.
LEMMA ClosedQuiet ==
  ASSUME ClosedInv, ServerStep
  PROVE  UNCHANGED <<kind, clientVars, up, down, line>> /\ KindInv'
  <1>0. line = "closed" /\ KindInv
    BY DEF ClosedInv
  <1> USE <1>0 DEF KindInv, clientVars
  <1>1. CASE FinishHandshake \/ DeviceOption \/ AddDevice \/ CloseChannel
    BY <1>1 DEF FinishHandshake, DeviceOption, AddDevice, CloseChannel, Arrived, NoUnit, Eof,
                Error, ServerSends
  <1>2. CASE MappedCmd \/ ParamAddr \/ CmdWrite \/ CmdRead
    BY <1>2 DEF MappedCmd, ParamAddr, CmdWrite, CmdRead, AfterEof, Arrived, NoUnit, Eof, Error,
                ServerSends
  <1>3. CASE StreamCmd \/ WriteHead \/ WriteSize \/ WriteAck
    BY <1>3 DEF StreamCmd, WriteHead, WriteSize, WriteAck, Arrived, NoUnit, Eof, Error, ServerSends
  <1>4. CASE WriteData
    BY <1>4 DEF WriteData, ReceivePiece, ReceiveError, Arrived, Eof, Error
  <1>5. CASE ReadSend \/ ReadStart
    BY <1>5 DEF ReadSend, ReadStart, ServerSends
  <1> QED
    BY <1>1, <1>2, <1>3, <1>4, <1>5 DEF ServerStep

\* Only a recv that fails changes what the server has.
LEMMA ClosedBuffer ==
  ASSUME ClosedInv, ServerStep
  PROVE  ReceiveError \/ UNCHANGED <<size, buf, stream>>
  <1>0. line = "closed"
    BY DEF ClosedInv
  <1> USE <1>0 DEF serverVars, deviceVars
  <1>1. CASE FinishHandshake \/ DeviceOption \/ AddDevice \/ CloseChannel
    BY <1>1 DEF FinishHandshake, DeviceOption, AddDevice, CloseChannel
  <1>2. CASE MappedCmd \/ ParamAddr \/ CmdWrite \/ CmdRead
    BY <1>2 DEF MappedCmd, ParamAddr, CmdWrite, CmdRead
  <1>3. CASE StreamCmd \/ WriteHead \/ WriteSize \/ WriteAck
    BY <1>3 DEF StreamCmd, WriteHead, WriteSize, WriteAck, Arrived
  <1>4. CASE WriteData
    BY <1>4 DEF WriteData, ReceivePiece
  <1>5. CASE ReadSend \/ ReadStart
    BY <1>5 DEF ReadSend, ReadStart
  <1> QED
    BY <1>1, <1>2, <1>3, <1>4, <1>5 DEF ServerStep

LEMMA ModuloType ==
  ASSUME NEW x \in Nat, NEW m \in Nat, m > 0
  PROVE  x % m \in 0 .. m - 1
  OBVIOUS

LEMMA ClosedServerType == ASSUME ClosedInv, ServerStep PROVE ServerType' /\ DeviceType'
  <1>0. /\ ServerType /\ DeviceType /\ line = "closed"
        /\ buf \in Seq(Nat) /\ Len(buf) < BufferSize /\ stream \in Seq(Nat)
        /\ BufferSize \in Nat /\ RingSize \in Nat /\ RingSize > 0
        /\ SizeModulus \in Nat /\ SizeModulus > 0 /\ size \in 0 .. SizeModulus - 1
    <2>1. ServerType /\ DeviceType /\ line = "closed"
      BY DEF ClosedInv, TypeOK
    <2>2. /\ BufferSize \in Nat /\ RingSize \in Nat /\ RingSize > 0
          /\ SizeModulus \in Nat /\ SizeModulus > 0
      BY SizesAssumption, ModulusAssumption
    <2> QED
      BY <2>1, <2>2 DEF ServerType, DeviceType
  <1>1. size' \in 0 .. SizeModulus - 1 /\ buf' \in Seq(Nat) /\ Len(buf') < BufferSize /\ stream' \in Seq(Nat)
    <2>1. CASE ReceiveError
      <3>1. size' \in 0 .. SizeModulus - 1
        <4>1. size + 1 \in Nat /\ size' = (size + 1) % SizeModulus
          BY <1>0, <2>1 DEF ReceiveError
        <4> QED
          BY <1>0, <4>1, ModuloType
      <3>2. CASE buf # <<>> /\ buf' = Front(buf) /\ stream' = stream
        <4>1. PICK g \in Seq(Nat) : g = buf /\ g # <<>>
          BY <1>0, <3>2
        <4>2. Front(g) \in Seq(Nat) /\ Len(Front(g)) = Len(g) - 1
          BY <4>1, FrontType
        <4> QED
          BY <1>0, <3>1, <3>2, <4>1, <4>2
      <3>3. CASE buf' = buf /\ stream' = stream \o [k \in 1 .. BufferSize |-> 0]
        <4>1. [k \in 1 .. BufferSize |-> 0] \in Seq(Nat)
          BY <1>0
        <4>2. stream' \in Seq(Nat)
          BY <1>0, <3>3, <4>1, ConcatType
        <4> QED
          BY <1>0, <3>1, <3>3, <4>2
      <3> QED
        BY <2>1, <3>2, <3>3 DEF ReceiveError
    <2>2. CASE UNCHANGED <<size, buf, stream>>
      BY <1>0, <2>2
    <2> QED
      BY <2>1, <2>2, ClosedBuffer
  <1> DEFINE Server == /\ spc' \in {"hs", "option", "add", "cmd", "waddr", "wvalue", "raddr", "reply",
                              "whead", "wsize", "wdata", "wack", "rsend", "rread",
                              "close", "done", "killed"}
                       /\ start' \in {"write", "other"} /\ addr' \in Addresses /\ noBuffer' \in BOOLEAN
             Device == /\ regs' \in [0 .. RegCount -> Int]
                       /\ ring' \in [0 .. RingSize - 1 -> Nat] /\ cur' \in 0 .. RingSize - 1
                       /\ packets' \in Nat
  <1>2. SUFFICES Server /\ Device
    BY <1>1 DEF ServerType, DeviceType
  <1>3. /\ spc \in {"hs", "option", "add", "cmd", "waddr", "wvalue", "raddr", "reply",
                    "whead", "wsize", "wdata", "wack", "rsend", "rread",
                    "close", "done", "killed"}
        /\ start \in {"write", "other"} /\ addr \in Addresses /\ noBuffer \in BOOLEAN
    BY <1>0 DEF ServerType
  <1>4. /\ regs \in [0 .. RegCount -> Int] /\ ring \in [0 .. RingSize - 1 -> Nat]
        /\ cur \in 0 .. RingSize - 1 /\ packets \in Nat
    BY <1>0 DEF DeviceType
  <1>5. CASE FinishHandshake \/ DeviceOption \/ AddDevice \/ CloseChannel
    BY <1>0, <1>3, <1>4, <1>5 DEF FinishHandshake, DeviceOption, AddDevice, CloseChannel,
       ServerSends, serverVars, deviceVars
  <1>6. CASE MappedCmd \/ ParamAddr \/ CmdRead
    BY <1>0, <1>3, <1>4, <1>6 DEF MappedCmd, ParamAddr, CmdRead, AfterEof, Arrived, ServerSends,
       serverVars, deviceVars
  <1>7. CASE CmdWrite
    <2>1. PICK v \in Values : regs' = WriteLocal(regs, addr, v)
      BY <1>0, <1>7 DEF CmdWrite, Arrived, Written
    <2>2. v \in Int
      BY SizesAssumption
    <2>3. WriteLocal(regs, addr, v) \in [0 .. RegCount -> Int]
      BY <1>3, <1>4, <2>2 DEF WriteLocal
    <2> QED
      BY <1>3, <1>4, <1>7, <2>1, <2>3 DEF CmdWrite, serverVars
  <1>8. CASE StreamCmd \/ WriteHead \/ WriteSize \/ WriteAck
    BY <1>0, <1>3, <1>4, <1>8 DEF StreamCmd, WriteHead, WriteSize, WriteAck, Arrived, ServerSends,
       serverVars, deviceVars
  <1>9. CASE WriteData
    <2>1. UNCHANGED <<start, addr, regs, ring, cur, packets>> /\ spc' \in {spc, "wack", "killed"}
      BY <1>9 DEF WriteData, ReceivePiece, ReceiveError
    <2>2. noBuffer' \in BOOLEAN
      BY <1>0, <1>3, <1>9 DEF WriteData, ReceivePiece, ReceiveError, GetBuffer
    <2> QED
      BY <1>3, <1>4, <2>1, <2>2
  <1>10. CASE ReadSend
    BY <1>3, <1>4, <1>10 DEF ReadSend, ServerSends, serverVars, deviceVars
  <1>11. CASE ReadStart
    <2>1. cur' = IF cur + 1 = RingSize THEN 0 ELSE cur + 1
      <3>1. cur \in Nat /\ cur < RingSize
        BY <1>0, <1>4
      <3>2. cur' = (cur + 1) % RingSize
        BY <1>11 DEF ReadStart
      <3> QED
        BY <1>0, <3>1, <3>2, NextSlot
    <2>2. ring' = [ring EXCEPT ![cur] = packets + 1] /\ packets' = packets + 1 /\ regs' = regs
      BY <1>11 DEF ReadStart, Refilled
    <2>3. Device
      BY <1>0, <1>4, <2>1, <2>2
    <2> QED
      BY <1>3, <1>11, <2>3 DEF ReadStart, GetBuffer
  <1> HIDE DEF Server, Device
  <1> QED
    BY <1>5, <1>6, <1>7, <1>8, <1>9, <1>10, <1>11 DEF ServerStep

LEMMA ClosedTx == ASSUME ClosedInv, ServerStep PROVE TxOnlyWritten'
  <1>0. stream \in Seq(Nat) /\ wrote \in Seq(Nat) /\ line = "closed" /\ BufferSize \in Nat
    BY SizesAssumption DEF ClosedInv, TypeOK, ClientType, DeviceType
  <1>1. line' = "closed" /\ wrote' = wrote
    BY <1>0, ClosedQuiet DEF clientVars
  <1>2. PICK n \in 0 .. Len(wrote) :
            /\ n <= Len(stream) /\ \A i \in 1 .. n : stream[i] = wrote[i]
            /\ \A i \in n + 1 .. Len(stream) : stream[i] = 0
    BY DEF ClosedInv, TxOnlyWritten
  <1>3. CASE stream' = stream
    BY <1>1, <1>2, <1>3 DEF TxOnlyWritten
  <1>4. CASE stream' = stream \o [k \in 1 .. BufferSize |-> 0]
    <2>1. PICK b \in Seq(Nat) : b = [k \in 1 .. BufferSize |-> 0]
      <3>1. [k \in 1 .. BufferSize |-> 0] \in Seq(Nat)
        BY <1>0
      <3> QED
        BY <3>1
    <2>2. Len(b) = BufferSize /\ \A i \in 1 .. Len(b) : b[i] = 0
      BY <1>0, <2>1
    <2>3. PICK g \in Seq(Nat) : g = stream
      BY <1>0
    <2>4. /\ Len(g \o b) = Len(g) + Len(b) /\ Len(g) \in Nat
          /\ \A i \in 1 .. Len(g) : (g \o b)[i] = g[i]
          /\ \A i \in 1 .. Len(b) : (g \o b)[Len(g) + i] = b[i]
      BY Concat
    <2>0. g \o b \in Seq(Nat)
      BY ConcatType
    <2>5. PICK t \in Seq(Nat), l \in Nat : t = g \o b /\ l = Len(g)
      BY <2>0, <2>4
    <2>6. n \in Nat /\ n <= l /\ l <= Len(t)
      BY <1>0, <1>2, <2>2, <2>3, <2>4, <2>5
    <2>7. \A i \in 1 .. n : t[i] = wrote[i]
      BY <1>2, <2>3, <2>4, <2>5, <2>6
    <2>8. ASSUME NEW i \in n + 1 .. Len(t) PROVE t[i] = 0
      <3>1. CASE i <= l
        BY <1>2, <2>3, <2>4, <2>5, <2>6, <3>1
      <3>2. CASE i > l
        <4>1. PICK j \in 1 .. Len(b) : i = l + j
          <5>1. i - l \in 1 .. Len(b) /\ i = l + (i - l)
            BY <1>0, <2>2, <2>4, <2>5, <2>6, <3>2
          <5> QED
            BY <5>1
        <4> QED
          BY <2>2, <2>4, <2>5, <4>1
      <3> QED
        BY <2>6, <3>1, <3>2
    <2>9. n <= Len(t)
      BY <1>0, <2>2, <2>4, <2>5, <2>6
    <2> QED
      BY <1>1, <1>4, <2>1, <2>3, <2>5, <2>7, <2>8, <2>9 DEF TxOnlyWritten
  <1> QED
    BY <1>3, <1>4, ClosedBuffer DEF ReceiveError

LEMMA ClosedServer == ASSUME ClosedInv, ServerStep PROVE ClosedInv'
  <1>1. /\ line = "closed" /\ kind \in Kinds /\ ClientType /\ LinkType
        /\ ClosedDown /\ ClosedReader /\ ClosedRead
    BY DEF ClosedInv, TypeOK
  <1>2. UNCHANGED <<kind, clientVars, up, down, line>> /\ KindInv'
    BY ClosedQuiet
  <1>3. ClientType' /\ LinkType'
    BY <1>1, <1>2 DEF ClientType, LinkType, clientVars, Limit
  <1>4. TypeOK'
    BY <1>1, <1>2, <1>3, ClosedServerType DEF TypeOK
  <1>5. ClosedDown' /\ ClosedRead'
    BY <1>1, <1>2 DEF ClosedDown, ClosedRead, clientVars
  <1>6. ClosedReader'
    <2>1. Reader' = Reader
      BY <1>2 DEF Reader, clientVars
    <2> QED
      BY <1>1, <1>2, <2>1 DEF ClosedReader, clientVars
  <1> QED
    BY <1>1, <1>2, <1>4, <1>5, <1>6, ClosedTx DEF ClosedInv

\* The steps of the client.
ClientMoves ==
    \/ Hangup
    \/ Handshake \/ HandshakeAck \/ OpenRemoteDevice \/ DeviceOpened
    \/ CallAddr \/ CallValue \/ CallReturn \/ CallUnanswered
    \/ WriteStreamNet \/ ReadHead \/ ReadSize \/ ReadData \/ ReadForever
    \/ \E a \in Addresses : ReadNet(a) \/ \E v \in Values : WriteNet(a, v)
    \/ StartStream

LEMMA ClosedClientQuiet ==
  ASSUME ClosedInv, ClientMoves
  PROVE  /\ UNCHANGED <<kind, line, spc, serverVars, deviceVars>> /\ KindInv'
         /\ WriteStreamNet \/ UNCHANGED wrote
         /\ ReadData \/ UNCHANGED got
  <1>0. line = "closed" /\ KindInv /\ kind \in {"mapped", "tx", "rx"}
    BY KindsAssumption DEF ClosedInv, TypeOK
  <1> USE <1>0 DEF KindInv
  <1>1. CASE Hangup
    BY <1>1 DEF Hangup
  <1>2. CASE Handshake \/ HandshakeAck \/ OpenRemoteDevice \/ DeviceOpened
    BY <1>2 DEF Handshake, HandshakeAck, OpenRemoteDevice, DeviceOpened
  <1>3. CASE CallAddr \/ CallValue
    BY <1>3 DEF CallAddr, CallValue
  <1>4. CASE CallReturn
    <2>1. /\ cpc = "value" /\ cpc' = "ready"
          /\ UNCHANGED <<kind, handshaked, wrote, got, line, spc, serverVars, deviceVars>>
      BY <1>4, Zenon DEF CallReturn
    <2> QED
      BY <2>1
  <1>5. CASE CallUnanswered
    <2>1. /\ cpc = "value" /\ cpc' = "ready"
          /\ UNCHANGED <<kind, handshaked, wrote, got, line, spc, serverVars, deviceVars>>
      BY <1>5, Zenon DEF CallUnanswered
    <2> QED
      BY <2>1
  <1>6. ASSUME NEW a, NEW v, ReadNet(a) \/ WriteNet(a, v)
        PROVE  UNCHANGED <<kind, line, spc, serverVars, deviceVars, wrote, got>> /\ KindInv'
    BY <1>6 DEF ReadNet, WriteNet, BeginCall
  <1>7. CASE StartStream \/ WriteStreamNet
    BY <1>7 DEF StartStream, WriteStreamNet, BeginCall
  <1>8. CASE ReadHead \/ ReadSize \/ ReadData \/ ReadForever
    BY <1>8 DEF ReadHead, ReadSize, ReadData, ReadForever
  <1> QED
    BY <1>1, <1>2, <1>3, <1>4, <1>5, <1>6, <1>7, <1>8 DEF ClientMoves

\* The samples of a frame.
LEMMA FrameType ==
  ASSUME NEW c \in Nat, c > 0
  PROVE  /\ Frame(c) \in Seq(Nat) /\ Samples(Frame(c)) \in Seq(Units)
  <1>0. FrameSize \in Nat /\ c - 1 \in Nat
    BY SizesAssumption
  <1>1. PICK m \in Nat : m = (c - 1) * FrameSize
    BY <1>0, OneMore
  <1>2. Frame(c) = [k \in 1 .. FrameSize |-> m + k]
    BY <1>1 DEF Frame
  <1>3. [k \in 1 .. FrameSize |-> m + k] \in Seq(Nat)
    BY <1>0
  <1>4. Samples(Frame(c)) = [k \in 1 .. FrameSize |-> Sample(m + k)]
    BY <1>2 DEF Samples
  <1> DEFINE F(k) == Sample(m + k)
  <1>5. [k \in 1 .. FrameSize |-> F(k)] \in Seq(Units)
    <2>1. \A k \in 1 .. FrameSize : F(k) \in Units
      BY UnitType
    <2> HIDE DEF F
    <2> QED
      BY <1>0, <2>1, FunctionSeq
  <1> QED
    BY <1>2, <1>3, <1>4, <1>5

LEMMA ClosedClientType == ASSUME ClosedInv, ClientMoves PROVE ClientType' /\ LinkType'
  <1>0. /\ ClientType /\ LinkType /\ ClosedDown /\ ClosedReader /\ KindInv /\ TypeOK
        /\ kind \in {"mapped", "tx", "rx"} /\ line = "closed"
    BY KindsAssumption DEF ClosedInv, TypeOK
  <1>1. /\ up \in Seq(Units) /\ down \in Seq(Units) /\ Len(up) <= Window /\ Len(down) <= Window
        /\ Window \in Nat /\ FrameSize \in Nat /\ FrameSize > 0
        /\ wrote \in Seq(Nat) /\ got \in Seq(Nat) /\ remain \in 0 .. FrameSize
        /\ Limit \in Nat /\ calls \in 0 .. Limit
    <2>1. Window \in Nat /\ FrameSize \in Nat /\ FrameSize > 0 /\ Limit \in Nat
      BY NetBoundsAssumption, SizesAssumption DEF Limit
    <2> QED
      BY <1>0, <2>1 DEF ClientType, LinkType
  <1>2. kind' = kind /\ line' = line /\ Limit' = Limit
    BY ClosedClientQuiet DEF Limit
  <1> DEFINE Good(s) == s \in Seq(Units) /\ Len(s) <= Window
             Rest == /\ cpc' \in {"new", "ack", "path", "fd", "ready", "waddr", "wvalue", "raddr",
                            "value", "write", "head", "size", "data", "spin", "gone"}
                     /\ calls' \in 0 .. Limit /\ handshaked' \in BOOLEAN
                     /\ call' \in Addresses \X Int
                     /\ last' \in (Addresses \X Int \X BOOLEAN) \cup {NoRead}
                     /\ shadow' \in [0 .. RegCount -> Int]
  <1>3. /\ cpc \in {"new", "ack", "path", "fd", "ready", "waddr", "wvalue", "raddr",
                    "value", "write", "head", "size", "data", "spin", "gone"}
        /\ calls \in 0 .. Limit /\ handshaked \in BOOLEAN
        /\ call \in Addresses \X Int /\ last \in (Addresses \X Int \X BOOLEAN) \cup {NoRead}
        /\ shadow \in [0 .. RegCount -> Int]
    BY <1>0 DEF ClientType
  <1>4. SUFFICES /\ Good(up') /\ Good(down') /\ Rest
                 /\ wrote' \in Seq(Nat) /\ got' \in Seq(Nat) /\ remain' \in 0 .. FrameSize
    BY <1>0, <1>2 DEF ClientType, LinkType
  <1>5. Good(up) /\ Good(down)
    BY <1>1
  <1>6. ASSUME NEW t \in Seq(Units), ClientSends(t) PROVE Good(up')
    <2>1. PICK s \in Seq(Units) : s = up
      BY <1>1
    <2>2. s \o t \in Seq(Units) /\ Len(s \o t) = Len(s) + Len(t)
      BY Concat
    <2> QED
      BY <1>6, <2>1, <2>2 DEF ClientSends
  <1>7. ASSUME NEW u, ClientReceives(u) PROVE Good(down')
    BY <1>1, <1>7, Shorter DEF ClientReceives
  <1>8. /\ \A c \in {"handshake", "path", "write", "read", "tx", "rx"} : <<Cmd(c)>> \in Seq(Units)
        /\ \A n \in Int : <<Word(n)>> \in Seq(Units)
    <2>1. {"handshake", "path", "write", "read", "tx", "rx"} \subseteq Tags
      BY DEF Tags
    <2> QED
      BY <2>1, UnitType
  <1> HIDE DEF Good
  <1>9. CASE Hangup
    <2>1. Rest /\ UNCHANGED <<wrote, got, remain, down, up>>
      BY <1>0, <1>3, <1>9 DEF Hangup
    <2> QED
      BY <1>1, <1>5, <2>1
  <1>10. CASE Handshake \/ OpenRemoteDevice
    <2>1. Rest /\ UNCHANGED <<wrote, got, remain, down>>
      BY <1>3, <1>10 DEF Handshake, OpenRemoteDevice
    <2>2. Good(up')
      BY <1>6, <1>8, <1>10 DEF Handshake, OpenRemoteDevice
    <2> QED
      BY <1>1, <1>5, <2>1, <2>2
  <1>11. CASE HandshakeAck \/ DeviceOpened
    <2>1. Rest /\ UNCHANGED <<wrote, got, remain, up>>
      BY <1>3, <1>11 DEF HandshakeAck, DeviceOpened
    <2>2. Good(down')
      BY <1>7, <1>11 DEF HandshakeAck, DeviceOpened
    <2> QED
      BY <1>1, <1>5, <2>1, <2>2
  <1>12. CASE CallAddr
    <2>0. call[1] \in Int
      BY <1>3
    <2>1. Rest /\ UNCHANGED <<wrote, got, remain, down>>
      BY <1>3, <1>12 DEF CallAddr
    <2>2. Good(up')
      BY <1>6, <1>8, <1>12, <2>0 DEF CallAddr
    <2> QED
      BY <1>1, <1>5, <2>1, <2>2
  <1>13. CASE CallValue
    <2>0. call[1] \in Addresses /\ call[2] \in Int
      BY <1>3
    <2>1. WriteLocal(shadow, call[1], call[2]) \in [0 .. RegCount -> Int]
      BY <1>3, <2>0 DEF WriteLocal
    <2>2. Rest /\ UNCHANGED <<wrote, got, remain, down>>
      BY <1>3, <1>13, <2>1 DEF CallValue
    <2>3. Good(up')
      BY <1>6, <1>8, <1>13, <2>0 DEF CallValue
    <2> QED
      BY <1>1, <1>5, <2>2, <2>3
  <1>14. CASE CallReturn
    <2>0. call[1] \in Addresses /\ Head(down)[2] \in Int
      <3>1. down # <<>>
        BY <1>14 DEF CallReturn
      <3>2. Head(down) \in Units
        BY <1>1, <3>1
      <3> QED
        BY <1>3, <3>2 DEF Units
    <2>1. Rest /\ UNCHANGED <<wrote, got, remain, up>>
      BY <1>3, <1>14, <2>0 DEF CallReturn
    <2>2. Good(down')
      BY <1>7, <1>14 DEF CallReturn
    <2> QED
      BY <1>1, <1>5, <2>1, <2>2
  <1>15. CASE CallUnanswered
    <2>0. call[1] \in Addresses /\ Values \subseteq Int
      BY <1>3, SizesAssumption
    <2>1. \E v \in Values : last' = <<call[1], v, FALSE>>
      BY <1>15 DEF CallUnanswered
    <2>2. last' \in Addresses \X Int \X BOOLEAN
      <3>1. PICK v \in Values : last' = <<call[1], v, FALSE>>
        BY <2>1
      <3>2. v \in Int
        BY <2>0
      <3>3. <<call[1], v, FALSE>> \in Addresses \X Int \X BOOLEAN
        BY <2>0, <3>2
      <3> QED
        BY <3>1, <3>3
    <2>3. cpc' = "ready" /\ UNCHANGED <<calls, handshaked, call, shadow, wrote, got, remain, up, down>>
      BY <1>15, Zenon DEF CallUnanswered
    <2>4. Rest /\ UNCHANGED <<wrote, got, remain, up, down>>
      BY <1>3, <2>2, <2>3
    <2> QED
      BY <1>1, <1>5, <2>4
  <1>16. ASSUME NEW a \in Addresses, ReadNet(a) \/ \E v \in Values : WriteNet(a, v)
         PROVE  /\ Good(up') /\ Good(down') /\ Rest
                /\ wrote' \in Seq(Nat) /\ got' \in Seq(Nat) /\ remain' \in 0 .. FrameSize
    <2>1. calls' \in 0 .. Limit
      BY <1>1, <1>16 DEF ReadNet, WriteNet, BeginCall
    <2>2. call' \in Addresses \X Int
      BY <1>16, SizesAssumption DEF ReadNet, WriteNet
    <2>3. Rest /\ UNCHANGED <<wrote, got, remain, down>>
      BY <1>3, <1>16, <2>1, <2>2 DEF ReadNet, WriteNet
    <2>4. Good(up')
      BY <1>6, <1>8, <1>16 DEF ReadNet, WriteNet
    <2> QED
      BY <1>1, <1>5, <2>3, <2>4
  <1>17. CASE StartStream
    <2>1. calls' \in 0 .. Limit
      BY <1>1, <1>17 DEF StartStream, BeginCall
    <2>2. Rest /\ UNCHANGED <<wrote, got, remain, down>>
      BY <1>3, <1>17, <2>1 DEF StartStream
    <2>3. Good(up')
      BY <1>0, <1>5, <1>6, <1>8, <1>17 DEF StartStream
    <2> QED
      BY <1>1, <1>5, <2>2, <2>3
  <1>18. CASE WriteStreamNet
    <2>1. calls \in Nat /\ calls > 0
      BY <1>0, <1>1, <1>18 DEF WriteStreamNet, ClosedDown
    <2>2. Frame(calls) \in Seq(Nat) /\ Samples(Frame(calls)) \in Seq(Units)
      BY <2>1, FrameType
    <2>3. Rest /\ UNCHANGED <<got, remain, down>> /\ wrote' = wrote \o Frame(calls)
      BY <1>3, <1>18 DEF WriteStreamNet
    <2>4. wrote' \in Seq(Nat)
      BY <1>1, <2>2, <2>3, ConcatType
    <2>5. Good(up')
      <3>1. Cmd("tx") \in Units /\ Word(FrameSize) \in Units
        BY <1>1, UnitType DEF Tags
      <3>2. <<Cmd("tx"), Word(FrameSize)>> \in Seq(Units)
        BY <3>1
      <3>3. <<Cmd("tx"), Word(FrameSize)>> \o Samples(Frame(calls)) \in Seq(Units)
        BY <2>2, <3>2, ConcatType
      <3> QED
        BY <1>6, <1>18, <3>3 DEF WriteStreamNet
    <2> QED
      BY <1>1, <1>5, <2>3, <2>4, <2>5
  <1>19. CASE ReadHead \/ ReadSize \/ ReadForever
    <2>1. Rest /\ UNCHANGED <<wrote, got, up>> /\ remain' \in {remain, FrameSize}
      BY <1>3, <1>19 DEF ReadHead, ReadSize, ReadForever
    <2>2. Good(down')
      BY <1>5, <1>7, <1>19 DEF ReadHead, ReadSize, ReadForever
    <2> QED
      BY <1>1, <1>5, <2>1, <2>2
  <1>20. CASE ReadData
    <2>1. PICK k \in Pieces(down, remain) :
              /\ got' = got \o Contents(down, k) /\ down' = SubSeq(down, k + 1, Len(down))
              /\ remain' = remain - k
      BY <1>20 DEF ReadData, RemainAfter
    <2>2. PICK c : c = Contents(down, k)
      OBVIOUS
    <2>3. k \in Nat /\ k > 0 /\ k <= remain /\ remain \in Nat /\ c \in Seq(Nat)
      <3>1. cpc = "data" /\ kind = "rx"
        BY <1>0, <1>20 DEF ReadData, KindInv
      <3>2. PICK q : Run("rx", Within(remain, 0, Len(got)), down, q)
        BY <1>0, <3>1 DEF ClosedReader, Reader
      <3> QED
        BY <1>0, <2>2, <3>1, <3>2, ReadPiece
    <2>4. Rest /\ UNCHANGED <<wrote, up>>
      BY <1>3, <1>20 DEF ReadData
    <2>5. PICK a \in Nat \ {0} : a = k + 1
      BY <2>3
    <2>6. Good(down')
      BY <1>1, <2>1, <2>5, Shorter DEF Good
    <2>7. got' \in Seq(Nat)
      BY <1>1, <2>1, <2>2, <2>3, ConcatType
    <2>8. remain' \in 0 .. FrameSize
      BY <1>1, <2>1, <2>3
    <2> QED
      BY <1>1, <1>5, <2>4, <2>6, <2>7, <2>8
  <1> HIDE DEF Rest
  <1> QED
    BY <1>9, <1>10, <1>11, <1>12, <1>13, <1>14, <1>15, <1>16, <1>17, <1>18, <1>19, <1>20
       DEF ClientMoves

LEMMA ClosedClientDown == ASSUME ClosedInv, ClientMoves PROVE ClosedDown' /\ ClosedRead'
  <1>0. /\ ClosedDown /\ ClosedRead /\ KindInv /\ line = "closed"
        /\ calls \in Nat /\ kind \in {"mapped", "tx", "rx"}
    <2>1. Limit \in Nat
      BY NetBoundsAssumption DEF Limit
    <2> QED
      BY <2>1, KindsAssumption DEF ClosedInv, TypeOK, ClientType
  <1>1. CASE Hangup
    BY <1>0, <1>1 DEF Hangup, ClosedDown, ClosedRead
  <1>2. CASE Handshake \/ OpenRemoteDevice
    BY <1>0, <1>2 DEF Handshake, OpenRemoteDevice, ClosedDown, ClosedRead
  <1>3. CASE HandshakeAck \/ DeviceOpened
    <2>1. /\ down' = <<>> /\ cpc' \in {"path", "ready"} /\ UNCHANGED <<kind, last, shadow, call, calls>>
      BY <1>0, <1>3, OneUnit DEF HandshakeAck, DeviceOpened, ClientReceives, ClosedDown
    <2> QED
      BY <1>0, <2>1 DEF ClosedDown, ClosedRead
  <1>4. CASE CallAddr
    BY <1>0, <1>4 DEF CallAddr, ClosedDown, ClosedRead, KindInv
  <1>5. CASE CallValue
    BY <1>0, <1>5 DEF CallValue, ClosedDown, ClosedRead, KindInv, NoRead
  <1>6. CASE CallReturn
    <2>1. /\ cpc = "value" /\ cpc' = "ready" /\ down # <<>>
          /\ last' = <<call[1], Head(down)[2], TRUE>> /\ down' = Tail(down)
          /\ UNCHANGED <<kind, shadow, call, calls>>
      BY <1>6, Zenon DEF CallReturn, ClientReceives
    <2>2. down = <<Word(ReadLocal(shadow, call[1]))>>
      BY <1>0, <2>1 DEF ClosedDown
    <2>3. down' = <<>> /\ Head(down) = Word(ReadLocal(shadow, call[1]))
      BY <2>1, <2>2, OneUnit
    <2>4. last'[1] = call[1] /\ last'[2] = ReadLocal(shadow, call[1])
      BY <2>1, <2>3 DEF Word
    <2> QED
      BY <2>1, <2>3, <2>4 DEF ClosedDown, ClosedRead
  <1>7. CASE CallUnanswered
    <2>1. PICK v \in Values : last' = <<call[1], v, FALSE>>
      BY <1>7 DEF CallUnanswered
    <2>2. /\ cpc = "value" /\ cpc' = "ready" /\ down = <<>>
          /\ UNCHANGED <<kind, shadow, call, calls, down>>
      BY <1>7, Zenon DEF CallUnanswered, ClientEof
    <2>3. ~last'[3]
      BY <2>1
    <2> QED
      BY <2>2, <2>3 DEF ClosedDown, ClosedRead
  <1>8. ASSUME NEW a, NEW v, ReadNet(a) \/ WriteNet(a, v) PROVE ClosedDown' /\ ClosedRead'
    BY <1>0, <1>8 DEF ReadNet, WriteNet, BeginCall, ClosedDown, ClosedRead, NoRead
  <1>9. CASE StartStream
    BY <1>0, <1>9 DEF StartStream, BeginCall, ClosedDown, ClosedRead
  <1>10. CASE WriteStreamNet \/ ReadHead \/ ReadSize \/ ReadForever
    BY <1>0, <1>10 DEF WriteStreamNet, ReadHead, ReadSize, ReadForever, ClosedDown, ClosedRead,
                       KindInv
  <1>11. CASE ReadData
    <2>1. cpc = "data" /\ cpc' \in {"ready", "data"} /\ UNCHANGED <<kind, last, shadow>>
      BY <1>11 DEF ReadData
    <2> QED
      BY <1>0, <2>1 DEF ClosedDown, ClosedRead, KindInv
  <1> QED
    BY <1>1, <1>2, <1>3, <1>4, <1>5, <1>6, <1>7, <1>8, <1>9, <1>10, <1>11 DEF ClientMoves

LEMMA ClosedClientReader == ASSUME ClosedInv, ClientMoves PROVE ClosedReader'
  <1>0. /\ ClosedReader /\ ClosedDown /\ KindInv /\ TypeOK
        /\ down \in Seq(Units) /\ got \in Seq(Nat) /\ FrameSize \in Nat /\ FrameSize > 0
        /\ line = "closed"
    <2>1. FrameSize \in Nat /\ FrameSize > 0
      BY SizesAssumption
    <2> QED
      BY <2>1 DEF ClosedInv, TypeOK, ClientType, LinkType
  <1>1. kind' = kind /\ (ReadData \/ UNCHANGED got)
    BY ClosedClientQuiet
  <1>2. CASE Hangup \/ ReadForever
    BY <1>0, <1>2 DEF Hangup, ReadForever, ClosedReader
  <1>3. CASE Handshake \/ HandshakeAck \/ OpenRemoteDevice
    BY <1>0, <1>3 DEF Handshake, HandshakeAck, OpenRemoteDevice, ClosedReader
  <1>4. CASE DeviceOpened
    <2>1. down' = <<>> /\ cpc' = "ready" /\ UNCHANGED <<kind, got>>
      BY <1>0, <1>4, OneUnit DEF DeviceOpened, ClientReceives, ClosedDown
    <2>2. Run("rx", Reader', <<>>, Reader')
      BY RunEmpty
    <2> QED
      BY <1>0, <2>1, <2>2 DEF ClosedReader
  <1>5. CASE CallAddr \/ CallValue
    BY <1>0, <1>5 DEF CallAddr, CallValue, ClosedReader, KindInv
  <1>6. CASE CallReturn
    <2>1. cpc = "value" /\ cpc' = "ready" /\ UNCHANGED <<kind, got>>
      BY <1>6, Zenon DEF CallReturn
    <2> QED
      BY <1>0, <2>1 DEF ClosedReader, KindInv
  <1>7. CASE CallUnanswered
    <2>1. cpc = "value" /\ cpc' = "ready" /\ UNCHANGED <<kind, got>>
      BY <1>7, Zenon DEF CallUnanswered
    <2> QED
      BY <1>0, <2>1 DEF ClosedReader, KindInv
  <1>8. ASSUME NEW a, NEW v, ReadNet(a) \/ WriteNet(a, v) PROVE ClosedReader'
    BY <1>0, <1>8 DEF ReadNet, WriteNet, ClosedReader, KindInv
  <1>9. CASE WriteStreamNet
    BY <1>0, <1>9 DEF WriteStreamNet, ClosedReader, KindInv
  <1>10. CASE StartStream
    <2>1. /\ cpc = "ready" /\ cpc' = (IF kind = "tx" THEN "write" ELSE "head")
          /\ UNCHANGED <<kind, got, down>>
      BY <1>10 DEF StartStream, BeginCall
    <2>2. Reader' = Reader
      BY <2>1 DEF Reader
    <2> QED
      BY <1>0, <2>1, <2>2 DEF ClosedReader
  <1>11. CASE ReadHead
    <2>1. cpc = "head" /\ kind = "rx" /\ UNCHANGED <<kind, got>>
      BY <1>0, <1>11 DEF ReadHead, KindInv
    <2>2. Reader = Within(0, 0, Len(got))
      BY <2>1 DEF Reader
    <2>3. PICK q : Run("rx", Reader, down, q)
      BY <1>0, <2>1 DEF ClosedReader
    <2>4. CASE cpc' = "ready" /\ UNCHANGED down
      <3>1. Reader' = Reader
        BY <2>1, <2>2, <2>4 DEF Reader
      <3> QED
        BY <1>0, <2>1, <2>3, <2>4, <3>1 DEF ClosedReader
    <2>5. CASE ClientReceives(Cmd("frame")) /\ cpc' = "size"
      <3>1. down # <<>> /\ down' = Tail(down)
        BY <2>5 DEF ClientReceives
      <3>2. PICK r : Handles("rx", Reader, Head(down), r) /\ Run("rx", r, Tail(down), q)
        BY <1>0, <2>3, <3>1, RunHead
      <3>3. Reader' = <<"size", 0, 0, Len(got)>>
        BY <2>1, <2>5 DEF Reader
      <3>4. r = Reader'
        BY <2>2, <3>2, <3>3 DEF Handles, At, Within
      <3> QED
        BY <1>0, <2>1, <2>5, <3>1, <3>2, <3>4 DEF ClosedReader
    <2> QED
      BY <1>11, <2>4, <2>5 DEF ReadHead
  <1>12. CASE ReadSize
    <2>1. cpc = "size" /\ kind = "rx" /\ UNCHANGED <<kind, got>>
      BY <1>0, <1>12 DEF ReadSize, KindInv
    <2>2. Reader = <<"size", 0, 0, Len(got)>>
      BY <2>1 DEF Reader
    <2>3. PICK q : Run("rx", Reader, down, q)
      BY <1>0, <2>1 DEF ClosedReader
    <2>4. CASE down = <<>> /\ cpc' = "ready" /\ UNCHANGED down
      <3>1. Run("rx", Reader', <<>>, Reader')
        BY RunEmpty
      <3> QED
        BY <1>0, <2>1, <2>4, <3>1 DEF ClosedReader
    <2>5. CASE ClientReceives(Word(FrameSize)) /\ remain' = FrameSize /\ cpc' = "data"
      <3>1. down # <<>> /\ down' = Tail(down)
        BY <2>5 DEF ClientReceives
      <3>2. PICK r : Handles("rx", Reader, Head(down), r) /\ Run("rx", r, Tail(down), q)
        BY <1>0, <2>3, <3>1, RunHead
      <3>3. Reader' = <<"data", FrameSize, 0, Len(got)>>
        BY <1>0, <2>1, <2>5 DEF Reader, Within
      <3>4. r = Reader'
        BY <2>2, <3>2, <3>3 DEF Handles, At
      <3> QED
        BY <1>0, <2>1, <2>5, <3>1, <3>2, <3>4 DEF ClosedReader
    <2> QED
      BY <1>12, <2>4, <2>5 DEF ReadSize, ClientEof
  <1>13. CASE ReadData
    <2>1. cpc = "data" /\ kind = "rx" /\ UNCHANGED kind
      BY <1>0, <1>13 DEF ReadData, KindInv
    <2>2. PICK k \in Pieces(down, remain) :
              /\ got' = got \o Contents(down, k)
              /\ down' = SubSeq(down, k + 1, Len(down))
              /\ remain' = remain - k
              /\ cpc' = IF remain' = 0 THEN "ready" ELSE "data"
      BY <1>13 DEF ReadData, RemainAfter
    <2>3. PICK c : c = Contents(down, k)
      OBVIOUS
    <2>0. PICK q : Run("rx", Within(remain, 0, Len(got)), down, q)
      BY <1>0, <2>1 DEF ClosedReader, Reader
    <2>4. /\ k \in Nat /\ k > 0 /\ k <= remain /\ k <= Len(down) /\ remain \in Nat
          /\ c \in Seq(Nat) /\ Len(c) = k
          /\ \A i \in 1 .. k : Sample(c[i]) = Nth("rx", Len(got) + i)
          /\ Run("rx", Within(remain - k, 0, Len(got) + k), SubSeq(down, k + 1, Len(down)), q)
      BY <1>0, <2>0, <2>1, <2>3, ReadPiece
    <2>5. /\ Len(got) \in Nat /\ Len(got') = Len(got) + k
          /\ \A i \in 1 .. Len(got) : got'[i] = got[i]
          /\ \A i \in 1 .. k : got'[Len(got) + i] = c[i]
      <3>0. got \in Seq(Nat) /\ c \in Seq(Nat)
        BY <1>0, <2>4
      <3>1. got' = got \o c /\ Len(c) = k
        BY <2>2, <2>3, <2>4
      <3>2. PICK g \in Seq(Nat) : g = got
        BY <3>0
      <3>3. /\ Len(g) \in Nat /\ Len(g \o c) = Len(g) + Len(c)
            /\ \A i \in 1 .. Len(g) : (g \o c)[i] = g[i]
            /\ \A i \in 1 .. Len(c) : (g \o c)[Len(g) + i] = c[i]
        BY <3>0, Concat
      <3> QED
        BY <3>1, <3>2, <3>3
    <2>7. Reader' = Within(remain - k, 0, Len(got) + k)
      BY <2>2, <2>4, <2>5 DEF Reader, Within
    <2>8. Run("rx", Reader', down', q)
      BY <2>2, <2>4, <2>7
    <2>9. ASSUME NEW i \in 1 .. Len(got') PROVE Sample(got'[i]) = Nth("rx", i)
      <3>1. CASE i \in 1 .. Len(got)
        BY <1>0, <2>5, <3>1 DEF ClosedReader
      <3>2. CASE i \notin 1 .. Len(got)
        <4>1. PICK j \in 1 .. k : i = Len(got) + j
          <5>1. i - Len(got) \in 1 .. k /\ i = Len(got) + (i - Len(got))
            BY <2>4, <2>5, <3>2
          <5> QED
            BY <5>1
        <4> QED
          BY <2>4, <2>5, <4>1
      <3> QED
        BY <3>1, <3>2
    <2>10. cpc' = "data" => remain' > 0
      BY <2>2, <2>4
    <2> QED
      BY <2>8, <2>9, <2>10 DEF ClosedReader
  <1> QED
    BY <1>2, <1>3, <1>4, <1>5, <1>6, <1>7, <1>8, <1>9, <1>10, <1>11, <1>12, <1>13 DEF ClientMoves

LEMMA ClosedClientTx == ASSUME ClosedInv, ClientMoves PROVE TxOnlyWritten'
  <1>0. /\ stream \in Seq(Nat) /\ wrote \in Seq(Nat) /\ line = "closed" /\ ClosedDown
        /\ FrameSize \in Nat /\ Limit \in Nat /\ calls \in 0 .. Limit
    <2>1. FrameSize \in Nat /\ Limit \in Nat
      BY SizesAssumption, NetBoundsAssumption DEF Limit
    <2> QED
      BY <2>1 DEF ClosedInv, TypeOK, ClientType, DeviceType
  <1>1. line' = "closed" /\ stream' = stream
    BY <1>0, ClosedClientQuiet DEF deviceVars
  <1>2. PICK n \in 0 .. Len(wrote) :
            /\ n <= Len(stream) /\ \A i \in 1 .. n : stream[i] = wrote[i]
            /\ \A i \in n + 1 .. Len(stream) : stream[i] = 0
    BY DEF ClosedInv, TxOnlyWritten
  <1>3. n \in 0 .. Len(wrote') /\ \A i \in 1 .. n : wrote'[i] = wrote[i]
    <2>1. CASE wrote' = wrote
      BY <2>1
    <2>2. CASE WriteStreamNet
      <3>1. calls \in Nat /\ calls > 0 /\ wrote' = wrote \o Frame(calls)
        BY <1>0, <2>2 DEF WriteStreamNet, ClosedDown
      <3>2. Frame(calls) \in Seq(Nat)
        BY <3>1, FrameType
      <3>3. PICK a \in Seq(Nat), b \in Seq(Nat) : a = wrote /\ b = Frame(calls)
        BY <1>0, <3>2
      <3>4. /\ Len(a) \in Nat /\ Len(b) \in Nat /\ Len(a \o b) = Len(a) + Len(b)
            /\ \A i \in 1 .. Len(a) : (a \o b)[i] = a[i]
        BY Concat
      <3> QED
        BY <3>1, <3>3, <3>4
    <2> QED
      BY <2>1, <2>2, ClosedClientQuiet
  <1> QED
    BY <1>1, <1>2, <1>3 DEF TxOnlyWritten

LEMMA ClosedStep == ClosedInv /\ [Next]_vars => ClosedInv'
  <1> SUFFICES ASSUME ClosedInv, [Next]_vars PROVE ClosedInv'
    OBVIOUS
  <1>1. CASE ServerStep
    BY <1>1, ClosedServer
  <1>2. CASE ClientMoves
    <2>1. /\ kind \in Kinds /\ ServerType /\ DeviceType /\ line = "closed"
      BY DEF ClosedInv, TypeOK
    <2>2. UNCHANGED <<kind, line, spc, serverVars, deviceVars>> /\ KindInv'
      BY <1>2, ClosedClientQuiet
    <2>3. ServerType' /\ DeviceType'
      BY <2>1, <2>2 DEF ServerType, DeviceType, serverVars, deviceVars
    <2>4. TypeOK'
      BY <1>2, <2>1, <2>2, <2>3, ClosedClientType DEF TypeOK
    <2> QED
      BY <1>2, <2>1, <2>2, <2>4, ClosedClientDown, ClosedClientReader, ClosedClientTx DEF ClosedInv
  <1>3. CASE UNCHANGED vars
    <2>1. UNCHANGED <<kind, clientVars, up, down, line, spc, serverVars, deviceVars>>
      BY <1>3 DEF vars
    <2>2. Reader' = Reader /\ Limit' = Limit
      BY <2>1 DEF Reader, clientVars, Limit
    <2>3. TypeOK' /\ KindInv'
      BY <2>1, <2>2 DEF ClosedInv, TypeOK, ClientType, LinkType, ServerType, DeviceType, KindInv,
                        clientVars, serverVars, deviceVars
    <2>4. ClosedDown' /\ ClosedRead'
      BY <2>1 DEF ClosedInv, ClosedDown, ClosedRead, clientVars
    <2>5. ClosedReader'
      BY <2>1, <2>2 DEF ClosedInv, ClosedReader, clientVars
    <2>6. TxOnlyWritten'
      BY <2>1 DEF ClosedInv, TxOnlyWritten, clientVars, deviceVars
    <2> QED
      BY <2>1, <2>3, <2>4, <2>5, <2>6 DEF ClosedInv
  <1> QED
    BY <1>1, <1>2, <1>3, ClosedCases DEF ClientMoves
-----------------------------------------------------------------------------
LEMMA RxOrder ==
  ASSUME TypeOK, \A i \in 1 .. Len(got) : Sample(got[i]) = Nth("rx", i)
  PROVE  RxInOrder
  <1> SUFFICES ASSUME NEW k \in 1 .. Len(got)
               PROVE  LET frame == (k - 1) \div FrameSize + 1
                          place == ((k - 1) % FrameSize) + 1
                      IN  got[k] = IF frame <= RingSize \/ place > PacketSize THEN 0
                                   ELSE (frame - RingSize - 1) * PacketSize + place
    BY DEF RxInOrder
  <1>1. got[k] = Received(k)
    BY DEF Nth, Sample
  <1>2. /\ FrameSize \in Nat /\ FrameSize > 0 /\ RingSize \in Nat /\ k - 1 \in Nat
    BY SizesAssumption DEF TypeOK, ClientType
  <1>3. PICK frame \in Int : frame = (k - 1) \div FrameSize + 1
    BY <1>2
  <1>4. PICK place : place = ((k - 1) % FrameSize) + 1
    OBVIOUS
  <1>5. got[k] = InPacket(Packet(frame), place)
    BY <1>1, <1>3, <1>4 DEF Received
  <1>6. got[k] = IF frame <= RingSize \/ place > PacketSize THEN 0
                 ELSE (frame - RingSize - 1) * PacketSize + place
    BY <1>2, <1>5 DEF InPacket, Packet
  <1> QED
    BY <1>3, <1>4, <1>6

(***************************************************************************)
(* The connection works as the two ends believe until the server is        *)
(* interrupted, and from then on one of them only reads on.                *)
(***************************************************************************)
LEMMA NetInvariant == Spec => [](NetInv \/ ClosedInv)
  <1>1. (NetInv \/ ClosedInv) /\ [Next]_vars => (NetInv \/ ClosedInv)'
    <2>1. [Next]_vars => Step \/ Sigint
      BY DEF Step, Next
    <2> QED
      BY <2>1, NetStep, SigintStep, ClosedStep
  <1> QED
    BY <1>1, NetInit, PTL DEF Spec

(***************************************************************************)
(* Every unit the two ends exchange is the one the other expects: an       *)
(* address, a value, a size, or samples, never one for the other, however  *)
(* recv cuts what writev sent, wherever the client dies and whenever the   *)
(* server is interrupted.                                                  *)
(***************************************************************************)
THEOREM NetTypeCorrect == Spec => []TypeOK
  <1>1. NetInv \/ ClosedInv => TypeOK
    BY DEF NetInv, ClosedInv
  <1> QED
    BY <1>1, NetInvariant, PTL

(***************************************************************************)
(* A register read over the network returns what the client wrote last:    *)
(* when client_cmd_read answers, every write sent before has been done.    *)
(* io_read_net returns its uninitialised value only when the server has    *)
(* ended or its handler of SIGINT has closed the connection.               *)
(***************************************************************************)
THEOREM ReadsSeeEarlierWrites == Spec => []ReadsSeeWrites
  <1>1. NetInv => ReadsSeeWrites
    BY DEF NetInv, CallInv, ReadsSeeWrites
  <1>2. ClosedInv => ReadsSeeWrites
    BY DEF ClosedInv, ClosedRead, ReadsSeeWrites
  <1> QED
    BY <1>1, <1>2, NetInvariant, PTL

(***************************************************************************)
(* io_read_stream_net_basic stores the first FrameSize samples of every    *)
(* packet of the device in the order of the packets, after one round of    *)
(* the ring nobody filled, for every way recv cuts the frames of           *)
(* client_cmd_read_stream_inf and even if an interrupt cuts the last one.  *)
(***************************************************************************)
THEOREM ReceivedInOrder == Spec => []RxInOrder
  <1>1. NetInv => RxInOrder
    BY RxOrder DEF NetInv, DownInv
  <1>2. ClosedInv => RxInOrder
    BY RxOrder DEF ClosedInv, ClosedReader
  <1> QED
    BY <1>1, <1>2, NetInvariant, PTL

(***************************************************************************)
(* client_cmd_write_stream_inf gives the device the client's samples in    *)
(* order, none lost or twice while the connection stands; whatever happens *)
(* to it, nothing else but one buffer nobody filled, or any number of them *)
(* once the server's handler of SIGINT has closed the connection.          *)
(***************************************************************************)
THEOREM TransmittedFaithfully == Spec => []TxFaithful
  <1>1. NetInv => TxFaithful
    BY TxOrder
  <1>2. ClosedInv => TxFaithful
    BY DEF ClosedInv, TxFaithful
  <1> QED
    BY <1>1, <1>2, NetInvariant, PTL
=============================================================================
