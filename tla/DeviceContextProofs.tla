------------------------ MODULE DeviceContextProofs ------------------------
(***************************************************************************)
(* Proofs about DeviceContext, for every number of contexts, every length  *)
(* of a context's list and every number of devices added.                  *)
(***************************************************************************)
EXTENDS DeviceContext, FiniteSetTheorems, TLAPS

(***************************************************************************)
(* A list holds the devices that were added, up to its length; a context   *)
(* that is not open has none.                                              *)
(***************************************************************************)
Filled ==
    \A x \in Contexts :
        /\ handles[x] = Listed(x)
        /\ phase[x] = "open" =>
              Len(devices[x]) = IF adds[x] <= MaxDevice THEN adds[x] ELSE MaxDevice
        /\ phase[x] # "open" => devices[x] = <<>>
        /\ phase[x] = "new" => adds[x] = 0

(***************************************************************************)
(* Every place of a list has a descriptor of its own that is open.         *)
(***************************************************************************)
OwnedOnce ==
    /\ \A p \in Entries : DeviceAt(p).fd \in fds
    /\ \A p, q \in Entries : DeviceAt(p).fd = DeviceAt(q).fd => p = q

(***************************************************************************)
(* Counting.  What is open and not listed was refused, and the mappings    *)
(* are those of listed and of refused devices.  Counted by descriptors,    *)
(* which a step adds or removes; OwnedOnce turns that into devices.        *)
(***************************************************************************)
FdsOf(S) == {DeviceAt(p).fd : p \in S}

Leaked == fds \ FdsOf(Entries)

Balance ==
    /\ IsFiniteSet(fds)
    /\ Cardinality(Leaked) = Cardinality(Refused)
    /\ \A k \in Kinds : Cardinality(FdsOf(EntriesOf(k))) <= mappings[k]
    /\ mappings["mapped"] <= Cardinality(FdsOf(EntriesOf("mapped"))) + Cardinality(Refused)

\* No close of a stream device unmaps it.
StreamsMapped == mappings["stream"] = streams

DevInv == TypeOK /\ Filled /\ OwnedOnce /\ Balance /\ StreamsMapped
-----------------------------------------------------------------------------
\* A set of naturals has a least element.
LEMMA LeastNatural ==
  ASSUME NEW S \in SUBSET Nat, S # {}
  PROVE  \E n \in S : \A m \in S : n <= m
  <1> DEFINE R == {ss \in Nat \X Nat : ss[1] < ss[2]}
  <1>1. IsWellFoundedOn(R, Nat)
    BY NatLessThanWellFounded DEF OpToRel
  <1>2. \E n \in S : \A m \in S : ~(<<m, n>> \in R)
    <2> HIDE DEF R
    <2> QED
      BY <1>1, WFMin
  <1>3. PICK n \in S : \A m \in S : ~(<<m, n>> \in R)
    BY <1>2
  <1>4. \A m \in S : ~(m < n)
    BY <1>3
  <1> QED
    BY <1>4

\* The kernel always has a descriptor to give, and it is free.
LEMMA LowestFreeIsFree ==
  ASSUME fds \subseteq Nat, IsFiniteSet(fds)
  PROVE  LowestFree \in Nat /\ LowestFree \notin fds
  <1> DEFINE n == Cardinality(fds)
             S == (3 .. 3 + n) \ fds
  <1>1. n \in Nat
    BY FS_CardinalityType
  <1>2. IsFiniteSet(3 .. 3 + n) /\ Cardinality(3 .. 3 + n) = n + 1
    BY <1>1, FS_Interval
  <1>3. ~(3 .. 3 + n \subseteq fds)
    <2>1. ASSUME 3 .. 3 + n \subseteq fds PROVE Cardinality(3 .. 3 + n) <= n
      BY <2>1, FS_Subset
    <2> QED
      BY <1>1, <1>2, <2>1
  <1>4. S \in SUBSET Nat /\ S # {}
    BY <1>1, <1>3
  <1>5. PICK f \in S : \A m \in S : f <= m
    BY <1>4, LeastNatural
  <1>6. f \in 3 .. 3 + n /\ f \notin fds /\ \A g \in 3 .. f - 1 : g \in fds
    BY <1>1, <1>5
  <1>7. LowestFree \in 3 .. 3 + n /\ LowestFree \notin fds
    BY <1>6 DEF LowestFree
  <1> QED
    BY <1>1, <1>7

LEMMA EntriesFinite ==
  /\ IsFiniteSet(Entries) /\ IsFiniteSet(Refused)
  /\ Cardinality(Entries) \in Nat /\ Cardinality(Refused) \in Nat
  <1>1. IsFiniteSet(Contexts) /\ IsFiniteSet(1 .. MaxDevice) /\ IsFiniteSet(1 .. MaxAdds)
    BY ContextsAssumption, MaxDeviceAssumption, MaxAddsAssumption, FS_Interval
  <1>2. IsFiniteSet(Contexts \X (1 .. MaxDevice)) /\ IsFiniteSet(Contexts \X (1 .. MaxAdds))
    BY <1>1, FS_Product
  <1>3. Entries \subseteq Contexts \X (1 .. MaxDevice) /\ Refused \subseteq Contexts \X (1 .. MaxAdds)
    BY DEF Entries, Refused
  <1>4. IsFiniteSet(Entries) /\ IsFiniteSet(Refused)
    BY <1>2, <1>3, FS_Subset
  <1> QED
    BY <1>4, FS_CardinalityType

\* As many descriptors as places.
LEMMA FdsCount ==
  ASSUME OwnedOnce, NEW S \in SUBSET Entries
  PROVE  /\ IsFiniteSet(FdsOf(S)) /\ FdsOf(S) \subseteq fds
         /\ Cardinality(FdsOf(S)) = Cardinality(S)
         /\ Cardinality(S) \in Nat
  <1> DEFINE f == [p \in S |-> DeviceAt(p).fd]
  <1>1. IsFiniteSet(S) /\ Cardinality(S) \in Nat
    BY EntriesFinite, FS_Subset, FS_CardinalityType
  <1>2. f \in Bijection(S, FdsOf(S))
    <2>1. f \in [S -> FdsOf(S)]
      BY DEF FdsOf
    <2>2. \A p, q \in S : f[p] = f[q] => p = q
      BY DEF OwnedOnce
    <2>3. \A t \in FdsOf(S) : \E p \in S : f[p] = t
      BY DEF FdsOf
    <2> QED
      BY <2>1, <2>2, <2>3 DEF Bijection, Injection, Surjection, IsInjective
  <1>3. ExistsBijection(S, FdsOf(S))
    BY <1>2 DEF ExistsBijection
  <1>4. FdsOf(S) \subseteq fds
    BY DEF FdsOf, OwnedOnce
  <1> QED
    BY <1>1, <1>3, <1>4, FS_Bijection
-----------------------------------------------------------------------------
LEMMA DevInit == Init => DevInv
  <1> SUFFICES ASSUME Init PROVE DevInv
    OBVIOUS
  <1>0. MaxDevice \in Nat \ {0} /\ MaxAdds \in Nat
    BY MaxDeviceAssumption, MaxAddsAssumption
  <1>1. TypeOK
    BY <1>0 DEF Init, TypeOK
  <1>2. Filled
    BY <1>0 DEF Init, Filled, Listed
  <1>3. Entries = {} /\ Refused = {}
    BY <1>0 DEF Init, Entries, Refused
  <1>4. OwnedOnce
    BY <1>3 DEF OwnedOnce
  <1>5. Leaked = {} /\ \A k \in Kinds : FdsOf(EntriesOf(k)) = {}
    BY <1>3 DEF Init, Leaked, FdsOf, EntriesOf
  <1>6. Balance
    <2>1. IsFiniteSet({}) /\ Cardinality({}) = 0
      BY FS_EmptySet
    <2>2. "mapped" \in Kinds /\ fds = {} /\ \A k \in Kinds : mappings[k] = 0
      BY DEF Init, Kinds
    <2> QED
      BY <1>3, <1>5, <2>1, <2>2 DEF Balance
  <1>7. StreamsMapped
    BY DEF Init, Kinds, StreamsMapped
  <1> QED
    BY <1>1, <1>2, <1>4, <1>6, <1>7 DEF DevInv

\* A list before and after io_append_device.
LEMMA Appended ==
  ASSUME TypeOK, NEW x \in Contexts, NEW d \in Devices, Room(x),
         NEW n, n = Len(devices[x]) + 1,
         devices' = [devices EXCEPT ![x] = Append(CopyAll(devices[x]), d)]
  PROVE  /\ devices' \in [Contexts -> Seq(Devices)]
         /\ \A y \in Contexts : Len(devices'[y]) <= MaxDevice
         /\ Len(devices'[x]) = n /\ \A y \in Contexts \ {x} : devices'[y] = devices[y]
         /\ Entries' = Entries \cup {<<x, n>>} /\ <<x, n>> \notin Entries
         /\ DeviceAt(<<x, n>>)' = d
         /\ \A p \in Entries : DeviceAt(p)' = DeviceAt(p)
         /\ Listed(x)' = Listed(x) \cup {d}
  <1> DEFINE s == devices[x]
             t == Append(s, d)
  <1>1. s \in Seq(Devices) /\ Len(s) \in Nat /\ Len(s) < MaxDevice /\ MaxDevice \in Nat
    BY MaxDeviceAssumption DEF TypeOK, Room
  <1>2. /\ t \in Seq(Devices) /\ Len(t) = Len(s) + 1
        /\ \A m \in 1 .. Len(s) : t[m] = s[m]
        /\ t[Len(s) + 1] = d
    BY <1>1
  <1>3. devices'[x] = t /\ \A y \in Contexts \ {x} : devices'[y] = devices[y]
    BY DEF TypeOK, CopyAll
  <1>4. devices' \in [Contexts -> Seq(Devices)] /\ \A y \in Contexts : Len(devices'[y]) <= MaxDevice
    BY <1>1, <1>2, <1>3 DEF TypeOK, CopyAll
  <1>5. ASSUME NEW p \in Contexts \X (1 .. MaxDevice)
        PROVE  /\ p \in Entries' <=> p \in Entries \/ p = <<x, n>>
               /\ p \in Entries => p # <<x, n>> /\ DeviceAt(p)' = DeviceAt(p)
    <2>0. p = <<p[1], p[2]>> /\ p[1] \in Contexts /\ p[2] \in 1 .. MaxDevice
      OBVIOUS
    <2>1. CASE p[1] # x
      BY <1>3, <2>0, <2>1 DEF Entries, DeviceAt
    <2>2. CASE p[1] = x
      <3>1. p \in Entries' <=> p[2] <= Len(s) + 1
        BY <1>2, <1>3, <2>2 DEF Entries
      <3>2. p \in Entries <=> p[2] <= Len(s)
        BY <2>2 DEF Entries
      <3>3. p = <<x, n>> <=> p[2] = Len(s) + 1
        BY <2>0, <2>2
      <3>4. p[2] <= Len(s) => DeviceAt(p)' = DeviceAt(p)
        BY <1>1, <1>2, <1>3, <2>0, <2>2 DEF DeviceAt
      <3> QED
        BY <1>1, <2>0, <3>1, <3>2, <3>3, <3>4
    <2> QED
      BY <2>1, <2>2
  <1>6. <<x, n>> \in Contexts \X (1 .. MaxDevice)
    BY <1>1
  <1>7. Entries \subseteq Contexts \X (1 .. MaxDevice) /\ Entries' \subseteq Contexts \X (1 .. MaxDevice)
    BY DEF Entries
  <1>8. DeviceAt(<<x, n>>)' = d
    BY <1>2, <1>3 DEF DeviceAt
  <1>9. Listed(x)' = Listed(x) \cup {d}
    <2>1. Listed(x)' = {t[m] : m \in 1 .. Len(s) + 1}
      BY <1>2, <1>3 DEF Listed
    <2>2. 1 .. Len(s) + 1 = (1 .. Len(s)) \cup {Len(s) + 1}
      BY <1>1
    <2>3. {t[m] : m \in 1 .. Len(s) + 1} = {s[m] : m \in 1 .. Len(s)} \cup {d}
      BY <1>2, <2>2
    <2> QED
      BY <2>1, <2>3 DEF Listed
  <1> QED
    BY <1>2, <1>3, <1>4, <1>5, <1>6, <1>7, <1>8, <1>9

LEMMA AddStep ==
  ASSUME DevInv, NEW x \in Contexts, NEW k \in Kinds, MayAdd(x),
         adds' = [adds EXCEPT ![x] = adds[x] + 1], OpenFile(k),
         AppendDevice(x, [kind |-> k, fd |-> LowestFree]), UNCHANGED phase,
         streams' = IF k = "stream" THEN streams + 1 ELSE streams
  PROVE  DevInv'
  <1>0. /\ TypeOK /\ Filled /\ OwnedOnce /\ Balance /\ StreamsMapped
        /\ MaxDevice \in Nat \ {0} /\ MaxAdds \in Nat
    BY MaxDeviceAssumption, MaxAddsAssumption DEF DevInv
  <1>1. PICK f \in Nat : f = LowestFree /\ f \notin fds
    BY <1>0, LowestFreeIsFree DEF TypeOK, Balance
  <1>2. fds' = fds \cup {f} /\ mappings' = [mappings EXCEPT ![k] = mappings[k] + 1]
    BY <1>1 DEF OpenFile
  <1>3. PICK d \in Devices : d = [kind |-> k, fd |-> f]
    BY DEF Devices
  <1>d. d.kind = k /\ d.fd = f
    BY <1>3
  <1>4. /\ adds[x] \in Nat /\ adds[x] + 1 \in 0 .. MaxAdds
        /\ adds'[x] = adds[x] + 1 /\ \A y \in Contexts \ {x} : adds'[y] = adds[y]
        /\ adds' \in [Contexts -> 0 .. MaxAdds]
        /\ phase[x] = "open"
    BY <1>0 DEF MayAdd, TypeOK
  <1>5. /\ fds' \subseteq Nat /\ mappings' \in [Kinds -> Nat] /\ IsFiniteSet(fds')
        /\ mappings'[k] = mappings[k] + 1 /\ \A j \in Kinds \ {k} : mappings'[j] = mappings[j]
        /\ \A j \in Kinds : mappings[j] \in Nat
    <2>1. IsFiniteSet(fds')
      BY <1>0, <1>2, FS_AddElement DEF Balance
    <2> QED
      BY <1>0, <1>2, <2>1 DEF TypeOK
  <1>6. Len(devices[x]) = IF adds[x] <= MaxDevice THEN adds[x] ELSE MaxDevice
    BY <1>0, <1>4 DEF Filled
  <1>r. "mapped" \in Kinds /\ "stream" \in Kinds
    BY DEF Kinds
  <1>m. streams' \in Nat /\ StreamsMapped'
    BY <1>0, <1>5, <1>r DEF StreamsMapped, TypeOK
  <1>7. CASE Room(x)
    <2>1. PICK n : n = Len(devices[x]) + 1
      OBVIOUS
    <2>2. /\ devices' = [devices EXCEPT ![x] = Append(CopyAll(devices[x]), d)]
          /\ handles' = [handles EXCEPT ![x] = handles[x] \cup {d}]
      BY <1>1, <1>3, <1>7 DEF AppendDevice
    <2>3. /\ devices' \in [Contexts -> Seq(Devices)]
          /\ \A y \in Contexts : Len(devices'[y]) <= MaxDevice
          /\ Len(devices'[x]) = n /\ \A y \in Contexts \ {x} : devices'[y] = devices[y]
          /\ Entries' = Entries \cup {<<x, n>>} /\ <<x, n>> \notin Entries
          /\ DeviceAt(<<x, n>>)' = d
          /\ \A p \in Entries : DeviceAt(p)' = DeviceAt(p)
          /\ Listed(x)' = Listed(x) \cup {d}
      BY <1>0, <1>7, <2>1, <2>2, Appended
    <2>4. adds[x] < MaxDevice /\ n = adds[x] + 1
      BY <1>0, <1>4, <1>6, <1>7, <2>1 DEF Room
    <2>5. TypeOK'
      <3>1. handles' \in [Contexts -> SUBSET Devices]
        BY <1>0, <2>2 DEF TypeOK
      <3> QED
        BY <1>0, <1>4, <1>5, <1>m, <2>3, <3>1 DEF TypeOK
    <2>6. Filled'
      <3>1. ASSUME NEW y \in Contexts, y # x PROVE Listed(y)' = Listed(y)
        BY <2>3, <3>1 DEF Listed
      <3>2. \A y \in Contexts : handles'[y] = Listed(y)'
        BY <1>0, <2>2, <2>3, <3>1 DEF Filled, TypeOK
      <3> QED
        BY <1>0, <1>4, <2>3, <2>4, <3>2 DEF Filled
    <2>7. OwnedOnce'
      <3>1. \A p \in Entries : DeviceAt(p)'.fd = DeviceAt(p).fd /\ DeviceAt(p).fd \in fds
                               /\ DeviceAt(p).fd # f
        BY <1>0, <1>1, <2>3 DEF OwnedOnce
      <3>2. DeviceAt(<<x, n>>)'.fd = f
        BY <1>d, <2>3
      <3>3. \A p \in Entries' : DeviceAt(p)'.fd \in fds'
        BY <1>2, <2>3, <3>1, <3>2
      <3>4. ASSUME NEW p \in Entries', NEW q \in Entries', DeviceAt(p)'.fd = DeviceAt(q)'.fd
            PROVE  p = q
        <4>1. CASE p \in Entries /\ q \in Entries
          BY <1>0, <3>1, <3>4, <4>1 DEF OwnedOnce
        <4>2. CASE p = <<x, n>> \/ q = <<x, n>>
          BY <2>3, <3>1, <3>2, <3>4, <4>2
        <4> QED
          BY <2>3, <4>1, <4>2
      <3> QED
        BY <3>3, <3>4 DEF OwnedOnce
    <2>8. Refused' = Refused
      <3>1. ASSUME NEW p \in Contexts \X (1 .. MaxAdds) PROVE p \in Refused' <=> p \in Refused
        <4>1. CASE p[1] = x
          <5>1. p[2] \in Nat
            BY <1>0
          <5> QED
            BY <1>0, <1>4, <2>4, <4>1, <5>1 DEF Refused
        <4>2. CASE p[1] # x
          BY <1>4, <4>2 DEF Refused
        <4> QED
          BY <4>1, <4>2
      <3>2. Refused \subseteq Contexts \X (1 .. MaxAdds) /\ Refused' \subseteq Contexts \X (1 .. MaxAdds)
        BY DEF Refused
      <3> QED
        BY <3>1, <3>2
    <2>9. Leaked' = Leaked
      <3>1. FdsOf(Entries)' = FdsOf(Entries) \cup {f}
        BY <1>d, <2>3 DEF FdsOf
      <3> QED
        BY <1>1, <1>2, <3>1 DEF Leaked
    <2>10. /\ FdsOf(EntriesOf(k))' = FdsOf(EntriesOf(k)) \cup {f}
           /\ \A j \in Kinds \ {k} : FdsOf(EntriesOf(j))' = FdsOf(EntriesOf(j))
      <3>1. d.kind = k /\ d.fd = f
        BY <1>3
      <3>2. EntriesOf(k)' = EntriesOf(k) \cup {<<x, n>>}
        BY <2>3, <3>1 DEF EntriesOf
      <3>3. \A j \in Kinds \ {k} : EntriesOf(j)' = EntriesOf(j)
        BY <2>3, <3>1 DEF EntriesOf
      <3>4. \A j \in Kinds : EntriesOf(j) \subseteq Entries
        BY DEF EntriesOf
      <3> QED
        BY <2>3, <3>1, <3>2, <3>3, <3>4 DEF FdsOf
    <2>11. /\ Cardinality(FdsOf(EntriesOf(k))') = Cardinality(FdsOf(EntriesOf(k))) + 1
           /\ \A j \in Kinds : Cardinality(FdsOf(EntriesOf(j))) \in Nat
      <3>1. ASSUME NEW j \in Kinds
            PROVE  /\ IsFiniteSet(FdsOf(EntriesOf(j))) /\ f \notin FdsOf(EntriesOf(j))
                   /\ Cardinality(FdsOf(EntriesOf(j))) \in Nat
        <4>1. EntriesOf(j) \in SUBSET Entries
          BY DEF EntriesOf
        <4> QED
          BY <1>0, <1>1, <4>1, FdsCount
      <3> QED
        BY <2>10, <3>1, FS_AddElement
    <2>12. Balance'
      <3>1. Cardinality(Refused) \in Nat
        BY EntriesFinite
      <3>2. \A j \in Kinds : Cardinality(FdsOf(EntriesOf(j))') <= mappings'[j]
        BY <1>0, <1>5, <2>10, <2>11 DEF Balance
      <3>3. mappings'["mapped"] <= Cardinality(FdsOf(EntriesOf("mapped"))') + Cardinality(Refused)
        BY <1>0, <1>5, <1>r, <2>10, <2>11, <3>1 DEF Balance
      <3> QED
        BY <1>0, <1>5, <2>8, <2>9, <3>2, <3>3 DEF Balance
    <2> QED
      BY <1>m, <2>5, <2>6, <2>7, <2>12 DEF DevInv
  <1>8. CASE ~Room(x)
    <2>1. UNCHANGED <<devices, handles>>
      BY <1>8 DEF AppendDevice
    <2>2. Len(devices[x]) = MaxDevice /\ adds[x] >= MaxDevice
      BY <1>0, <1>4, <1>6, <1>8 DEF Room, TypeOK
    <2>3. TypeOK'
      BY <1>0, <1>4, <1>5, <1>m, <2>1 DEF TypeOK
    <2>4. Filled'
      BY <1>0, <1>4, <2>1, <2>2 DEF Filled, Listed
    <2>5. Entries' = Entries /\ \A p : DeviceAt(p)' = DeviceAt(p)
      BY <2>1 DEF Entries, DeviceAt
    <2>6. OwnedOnce'
      BY <1>0, <1>2, <2>5 DEF OwnedOnce
    <2>7. PICK p : p = <<x, adds[x] + 1>>
      OBVIOUS
    <2>8. Refused' = Refused \cup {p} /\ p \notin Refused
      <3>1. ASSUME NEW q \in Contexts \X (1 .. MaxAdds) PROVE q \in Refused' <=> q \in Refused \/ q = p
        <4>1. CASE q[1] = x
          <5>1. q[2] \in Nat /\ q = <<q[1], q[2]>>
            BY <1>0
          <5>2. q = p <=> q[2] = adds[x] + 1
            BY <2>7, <4>1, <5>1
          <5> QED
            BY <1>0, <1>4, <2>2, <4>1, <5>1, <5>2 DEF Refused
        <4>2. CASE q[1] # x
          BY <1>4, <2>7, <4>2 DEF Refused
        <4> QED
          BY <4>1, <4>2
      <3>2. Refused \subseteq Contexts \X (1 .. MaxAdds) /\ Refused' \subseteq Contexts \X (1 .. MaxAdds)
        BY DEF Refused
      <3>3. p \in Contexts \X (1 .. MaxAdds)
        BY <1>0, <1>4, <2>7
      <3>4. p \notin Refused
        BY <1>4, <2>7 DEF Refused
      <3> QED
        BY <3>1, <3>2, <3>3, <3>4
    <2>9. Cardinality(Refused') = Cardinality(Refused) + 1 /\ Cardinality(Refused) \in Nat
      BY <2>8, EntriesFinite, FS_AddElement
    <2>10. Leaked' = Leaked \cup {f} /\ f \notin Leaked
      <3>1. FdsOf(Entries)' = FdsOf(Entries)
        BY <2>5 DEF FdsOf
      <3>2. f \notin FdsOf(Entries)
        BY <1>0, <1>1, FdsCount
      <3> QED
        BY <1>1, <1>2, <3>1, <3>2 DEF Leaked
    <2>11. Cardinality(Leaked') = Cardinality(Leaked) + 1
      <3>1. IsFiniteSet(Leaked)
        BY <1>0, FS_Difference DEF Balance, Leaked
      <3> QED
        BY <2>10, <3>1, FS_AddElement
    <2>12. \A j \in Kinds : FdsOf(EntriesOf(j))' = FdsOf(EntriesOf(j))
      BY <2>5 DEF FdsOf, EntriesOf
    <2>13. \A j \in Kinds : Cardinality(FdsOf(EntriesOf(j))) \in Nat
      <3>1. ASSUME NEW j \in Kinds PROVE Cardinality(FdsOf(EntriesOf(j))) \in Nat
        <4>1. EntriesOf(j) \in SUBSET Entries
          BY DEF EntriesOf
        <4> QED
          BY <1>0, <4>1, FdsCount
      <3> QED
        BY <3>1
    <2>14. Balance'
      <3>1. \A j \in Kinds : Cardinality(FdsOf(EntriesOf(j))') <= mappings'[j]
        BY <1>0, <1>5, <2>12, <2>13 DEF Balance
      <3>2. mappings'["mapped"] <= Cardinality(FdsOf(EntriesOf("mapped"))') + Cardinality(Refused')
        BY <1>0, <1>5, <1>r, <2>9, <2>12, <2>13 DEF Balance
      <3> QED
        BY <1>0, <1>5, <2>9, <2>11, <3>1, <3>2 DEF Balance
    <2> QED
      BY <1>m, <2>3, <2>4, <2>6, <2>14 DEF DevInv
  <1> QED
    BY <1>7, <1>8

LEMMA CloseStep ==
  ASSUME DevInv, NEW x \in Contexts, Close(x)
  PROVE  DevInv'
  <1> DEFINE Gone == {p \in Entries : p[1] = x}
             Kept == {p \in Entries : p[1] # x}
             M == EntriesOf("mapped")
  <1>0. /\ TypeOK /\ Filled /\ OwnedOnce /\ Balance /\ StreamsMapped
        /\ MaxDevice \in Nat \ {0} /\ MaxAdds \in Nat /\ "mapped" \in Kinds /\ "stream" \in Kinds
        /\ Kinds = {"mapped", "stream"}
    BY MaxDeviceAssumption, MaxAddsAssumption DEF DevInv, Kinds
  <1>1. /\ phase[x] = "open" /\ phase' = [phase EXCEPT ![x] = "closed"]
        /\ fds' = fds \ {d.fd : d \in Listed(x)}
        /\ devices' = [devices EXCEPT ![x] = <<>>] /\ handles' = [handles EXCEPT ![x] = {}]
        /\ UNCHANGED <<adds, streams>>
    BY DEF Close
  <1>2. /\ mappings' \in [Kinds -> Int]
        /\ mappings'["mapped"] = mappings["mapped"] - Cardinality(OfKind(x, "mapped"))
        /\ mappings'["stream"] = mappings["stream"]
        /\ \A j \in Kinds : mappings[j] \in Nat
    <2>1. \A j \in Kinds : mappings[j] \in Nat
      BY <1>0 DEF TypeOK
    <2>2. OfKind(x, "mapped") \in SUBSET Listed(x)
      BY DEF OfKind
    <2>3. Cardinality(OfKind(x, "mapped")) \in Nat
      <3>1. Len(devices[x]) \in Nat
        BY <1>0 DEF TypeOK
      <3>2. IsFiniteSet(1 .. Len(devices[x]))
        BY <3>1, FS_Interval
      <3> DEFINE g == [n \in 1 .. Len(devices[x]) |-> devices[x][n]]
      <3>3. g \in Surjection(1 .. Len(devices[x]), Listed(x))
        BY DEF Surjection, Listed
      <3>4. IsFiniteSet(Listed(x))
        BY <3>2, <3>3, FS_Surjection
      <3> QED
        BY <2>2, <3>4, FS_Subset, FS_CardinalityType
    <2>4. mappings' = [mappings EXCEPT !["mapped"] = CloseMappedLocal(x), !["stream"] = CloseStreamLocal(x)]
      BY DEF Close
    <2> QED
      BY <1>0, <2>1, <2>3, <2>4 DEF CloseMappedLocal, CloseStreamLocal, TypeOK
  <1>3. /\ devices'[x] = <<>> /\ \A y \in Contexts \ {x} : devices'[y] = devices[y]
        /\ handles'[x] = {} /\ \A y \in Contexts \ {x} : handles'[y] = handles[y]
        /\ phase'[x] = "closed" /\ \A y \in Contexts \ {x} : phase'[y] = phase[y]
    BY <1>0, <1>1 DEF TypeOK
  <1>4. Entries' = Kept /\ \A p \in Kept : DeviceAt(p)' = DeviceAt(p)
    <2>1. ASSUME NEW p \in Contexts \X (1 .. MaxDevice)
          PROVE  /\ p \in Entries' <=> p \in Entries /\ p[1] # x
                 /\ p[1] # x => DeviceAt(p)' = DeviceAt(p)
      <3>0. p[1] \in Contexts /\ p[2] \in Nat \ {0}
        BY <1>0
      <3>1. CASE p[1] = x
        BY <1>3, <3>0, <3>1 DEF Entries
      <3>2. CASE p[1] # x
        BY <1>3, <3>0, <3>2 DEF Entries, DeviceAt
      <3> QED
        BY <3>1, <3>2
    <2>2. Entries \subseteq Contexts \X (1 .. MaxDevice) /\ Entries' \subseteq Contexts \X (1 .. MaxDevice)
      BY DEF Entries
    <2> QED
      BY <2>1, <2>2
  <1>5. Listed(x) = {DeviceAt(p) : p \in Gone}
    <2>1. ASSUME NEW n \in 1 .. Len(devices[x]) PROVE <<x, n>> \in Gone /\ DeviceAt(<<x, n>>) = devices[x][n]
      <3>1. n \in 1 .. MaxDevice /\ n <= Len(devices[x])
        BY <1>0 DEF TypeOK
      <3> QED
        BY <3>1 DEF Entries, DeviceAt
    <2>2. ASSUME NEW p \in Gone PROVE DeviceAt(p) = devices[x][p[2]] /\ p[2] \in 1 .. Len(devices[x])
      <3>1. p \in Contexts \X (1 .. MaxDevice) /\ p[2] <= Len(devices[p[1]]) /\ p[1] = x
        BY DEF Entries
      <3>2. Len(devices[x]) \in Nat
        BY <1>0 DEF TypeOK
      <3> QED
        BY <1>0, <3>1, <3>2 DEF DeviceAt
    <2>3. Listed(x) \subseteq {DeviceAt(p) : p \in Gone}
      BY <2>1 DEF Listed
    <2>4. {DeviceAt(p) : p \in Gone} \subseteq Listed(x)
      BY <2>2 DEF Listed
    <2> QED
      BY <2>3, <2>4
  <1>6. {d.fd : d \in Listed(x)} = FdsOf(Gone)
    BY <1>5 DEF FdsOf
  <1>7. \A S \in SUBSET Entries : FdsOf(S \cap Kept) = FdsOf(S) \ FdsOf(Gone)
    BY <1>0 DEF FdsOf, OwnedOnce
  <1>8. \A S \in SUBSET Entries : FdsOf(S \cap Kept) = {DeviceAt(p)'.fd : p \in S \cap Kept}
    BY <1>4 DEF FdsOf
  <1>9. Leaked' = Leaked
    <2>1. FdsOf(Entries)' = {DeviceAt(p)'.fd : p \in Kept}
      BY <1>4 DEF FdsOf
    <2>2. Entries \cap Kept = Kept
      OBVIOUS
    <2>3. FdsOf(Entries)' = FdsOf(Entries) \ FdsOf(Gone)
      BY <1>7, <1>8, <2>1, <2>2
    <2>4. FdsOf(Gone) \subseteq FdsOf(Entries)
      BY DEF FdsOf
    <2> QED
      BY <1>1, <1>6, <2>3, <2>4 DEF Leaked
  <1>10. ASSUME NEW j \in Kinds
         PROVE  /\ EntriesOf(j) \in SUBSET Entries
                /\ FdsOf(EntriesOf(j))' = FdsOf(EntriesOf(j) \cap Kept)
                /\ Cardinality(FdsOf(EntriesOf(j))') = Cardinality(EntriesOf(j) \cap Kept)
                /\ Cardinality(EntriesOf(j) \cap Kept) \in Nat
                /\ Cardinality(FdsOf(EntriesOf(j))) = Cardinality(EntriesOf(j))
                /\ Cardinality(EntriesOf(j)) \in Nat
                /\ Cardinality(EntriesOf(j) \cap Kept) <= Cardinality(EntriesOf(j))
    <2>1. EntriesOf(j) \in SUBSET Entries /\ EntriesOf(j) \cap Kept \in SUBSET Entries
      BY DEF EntriesOf
    <2>2. EntriesOf(j)' = EntriesOf(j) \cap Kept
      BY <1>4 DEF EntriesOf
    <2>3. FdsOf(EntriesOf(j))' = FdsOf(EntriesOf(j) \cap Kept)
      BY <1>8, <2>1, <2>2 DEF FdsOf
    <2>4. IsFiniteSet(EntriesOf(j))
      BY <2>1, EntriesFinite, FS_Subset
    <2>5. Cardinality(EntriesOf(j) \cap Kept) <= Cardinality(EntriesOf(j))
      BY <2>4, FS_Subset
    <2>6. /\ Cardinality(FdsOf(EntriesOf(j))) = Cardinality(EntriesOf(j))
          /\ Cardinality(EntriesOf(j)) \in Nat
      BY <1>0, <2>1, FdsCount
    <2>7. /\ Cardinality(FdsOf(EntriesOf(j) \cap Kept)) = Cardinality(EntriesOf(j) \cap Kept)
          /\ Cardinality(EntriesOf(j) \cap Kept) \in Nat
      BY <1>0, <2>1, FdsCount
    <2> QED
      BY <2>1, <2>3, <2>5, <2>6, <2>7
  <1>11. Cardinality(OfKind(x, "mapped")) = Cardinality(M \cap Gone)
    <2> DEFINE f == [p \in M \cap Gone |-> DeviceAt(p)]
    <2>1. OfKind(x, "mapped") = {DeviceAt(p) : p \in M \cap Gone}
      BY <1>5 DEF OfKind, EntriesOf
    <2>2. \A p, q \in M \cap Gone : f[p] = f[q] => p = q
      BY <1>0 DEF OwnedOnce
    <2>3. f \in Bijection(M \cap Gone, OfKind(x, "mapped"))
      <3>1. f \in [M \cap Gone -> OfKind(x, "mapped")]
        BY <2>1
      <3>2. \A t \in OfKind(x, "mapped") : \E p \in M \cap Gone : f[p] = t
        BY <2>1
      <3> QED
        BY <2>2, <3>1, <3>2 DEF Bijection, Injection, Surjection, IsInjective
    <2>4. IsFiniteSet(M \cap Gone)
      BY EntriesFinite, FS_Subset
    <2> QED
      BY <2>3, <2>4, FS_Bijection DEF ExistsBijection
  <1>12. Cardinality(M \cap Kept) = Cardinality(M) - Cardinality(OfKind(x, "mapped"))
    <2>1. M \cap Kept = M \ Gone
      BY <1>0, <1>10
    <2>2. IsFiniteSet(M)
      BY <1>0, <1>10, EntriesFinite, FS_Subset
    <2>3. Cardinality(M \ Gone) = Cardinality(M) - Cardinality(M \cap Gone)
      <3> HIDE DEF M, Gone
      <3> QED
        BY <2>2, FS_Difference
    <2> QED
      BY <1>11, <2>1, <2>3
  <1>13. Cardinality(OfKind(x, "mapped")) \in Nat
    BY <1>0, <1>11, FdsCount
  <1>14. TypeOK'
    <2>1. mappings' \in [Kinds -> Nat]
      BY <1>0, <1>2, <1>10, <1>12, <1>13 DEF Balance
    <2>2. /\ phase' \in [Contexts -> {"new", "open", "closed"}]
          /\ devices' \in [Contexts -> Seq(Devices)]
          /\ handles' \in [Contexts -> SUBSET Devices]
          /\ adds' \in [Contexts -> 0 .. MaxAdds] /\ fds' \subseteq Nat
      <3>1. phase' \in [Contexts -> {"new", "open", "closed"}] /\ handles' \in [Contexts -> SUBSET Devices]
        BY <1>0, <1>1 DEF TypeOK
      <3>2. devices' \in [Contexts -> Seq(Devices)]
        <4>1. <<>> \in Seq(Devices) /\ devices \in [Contexts -> Seq(Devices)]
          BY <1>0 DEF TypeOK
        <4> QED
          BY <1>1, <4>1
      <3>3. adds' \in [Contexts -> 0 .. MaxAdds] /\ fds' \subseteq Nat
        BY <1>0, <1>1 DEF TypeOK
      <3> QED
        BY <3>1, <3>2, <3>3
    <2>3. \A y \in Contexts : Len(devices'[y]) <= MaxDevice
      <3>1. Len(devices'[x]) = 0 /\ 0 <= MaxDevice
        BY <1>0, <1>3
      <3> QED
        BY <1>0, <1>3, <3>1 DEF TypeOK
    <2> QED
      BY <1>0, <1>1, <2>1, <2>2, <2>3 DEF TypeOK
  <1>15. Filled'
    BY <1>0, <1>1, <1>3 DEF Filled, Listed
  <1>16. OwnedOnce'
    <2>1. \A p \in Kept : DeviceAt(p)'.fd \in fds'
      BY <1>0, <1>1, <1>4, <1>6 DEF OwnedOnce, FdsOf
    <2> QED
      BY <1>0, <1>4, <2>1 DEF OwnedOnce
  <1>17. Balance'
    <2>1. IsFiniteSet(fds')
      BY <1>0, <1>1, FS_Subset DEF Balance
    <2>2. Refused' = Refused
      BY <1>1 DEF Refused
    <2>3. Cardinality(Refused) \in Nat
      BY EntriesFinite
    <2>4. Cardinality(FdsOf(EntriesOf("mapped"))') <= mappings'["mapped"]
      BY <1>0, <1>2, <1>10, <1>12, <1>13 DEF Balance
    <2>5. Cardinality(FdsOf(EntriesOf("stream"))') <= mappings'["stream"]
      BY <1>0, <1>2, <1>10 DEF Balance
    <2>6. mappings'["mapped"] <= Cardinality(FdsOf(EntriesOf("mapped"))') + Cardinality(Refused)
      BY <1>0, <1>2, <1>10, <1>12, <1>13, <2>3 DEF Balance
    <2> QED
      BY <1>0, <1>9, <2>1, <2>2, <2>4, <2>5, <2>6 DEF Balance
  <1>18. StreamsMapped'
    BY <1>0, <1>1, <1>2 DEF StreamsMapped
  <1> QED
    BY <1>14, <1>15, <1>16, <1>17, <1>18 DEF DevInv

LEMMA DevStep == DevInv /\ [Next]_vars => DevInv'
  <1> SUFFICES ASSUME DevInv, [Next]_vars PROVE DevInv'
    OBVIOUS
  <1>1. ASSUME NEW x \in Contexts, AddMapped(x) \/ AddStream(x) PROVE DevInv'
    <2>1. "mapped" \in Kinds /\ "stream" \in Kinds
      BY DEF Kinds
    <2> QED
      BY <1>1, <2>1, AddStep DEF AddMapped, AddStream, OpenMappedLocal, OpenStreamLocal
  <1>2. ASSUME NEW x \in Contexts, Close(x) PROVE DevInv'
    BY <1>2, CloseStep
  <1>3. ASSUME NEW x \in Contexts, AddCrashes(x) PROVE DevInv'
    <2>1. Init'
      BY <1>3 DEF AddCrashes, Init
    <2>2. (Init => DevInv)'
      BY DevInit, PTL
    <2> QED
      BY <2>1, <2>2
  <1>4. ASSUME UNCHANGED <<devices, handles, adds, fds, mappings, streams>>,
               phase' \in [Contexts -> {"new", "open", "closed"}],
               \A x \in Contexts : phase'[x] = phase[x] \/ (phase[x] = "new" /\ phase'[x] = "open")
        PROVE  DevInv'
    <2>0. TypeOK /\ Filled /\ OwnedOnce /\ Balance /\ StreamsMapped /\ MaxDevice \in Nat
      BY MaxDeviceAssumption DEF DevInv
    <2>1. TypeOK'
      BY <1>4, <2>0 DEF TypeOK
    <2>2. Entries' = Entries /\ Refused' = Refused /\ \A p : DeviceAt(p)' = DeviceAt(p)
      BY <1>4 DEF Entries, Refused, DeviceAt
    <2>3. Filled'
      <3>1. ASSUME NEW x \in Contexts, phase[x] = "new" PROVE Len(devices[x]) = 0 /\ adds[x] = 0
        BY <2>0, <3>1 DEF Filled
      <3> QED
        BY <1>4, <2>0, <3>1 DEF Filled, Listed
    <2>4. OwnedOnce'
      BY <1>4, <2>0, <2>2 DEF OwnedOnce
    <2>5. Balance'
      BY <1>4, <2>0, <2>2 DEF Balance, Leaked, FdsOf, EntriesOf
    <2> QED
      BY <1>4, <2>0, <2>1, <2>3, <2>4, <2>5 DEF DevInv, StreamsMapped
  <1>5. ASSUME NEW x \in Contexts, Create(x) PROVE DevInv'
    <2>1. phase \in [Contexts -> {"new", "open", "closed"}]
      BY DEF DevInv, TypeOK
    <2> QED
      BY <1>4, <1>5, <2>1 DEF Create
  <1>6. ASSUME UNCHANGED vars PROVE DevInv'
    BY <1>4, <1>6 DEF vars, DevInv, TypeOK
  <1> QED
    BY <1>1, <1>2, <1>3, <1>5, <1>6 DEF Next

LEMMA DevInvariant == Spec => []DevInv
  BY DevInit, DevStep, PTL DEF Spec
-----------------------------------------------------------------------------
(***************************************************************************)
(* io_append_device keeps a context's list within MAX_DEVICE, and          *)
(* io_close_context never unmaps more than is mapped.                      *)
(***************************************************************************)
THEOREM DevTypeCorrect == Spec => []TypeOK
  BY DevInvariant, PTL DEF DevInv

(***************************************************************************)
(* A device that io_add_mapped_device or io_add_stream_device returned     *)
(* keeps an open descriptor of its own until its context is closed, for    *)
(* any number of contexts and any order of calls.                          *)
(***************************************************************************)
THEOREM HandlesOwnDescriptors == Spec => []HandlesAreOwned
  <1>1. ASSUME DevInv PROVE HandlesAreOwned
    <2>1. TypeOK /\ Filled /\ OwnedOnce /\ MaxDevice \in Nat
      BY <1>1, MaxDeviceAssumption DEF DevInv
    <2>2. ASSUME NEW x \in Contexts, NEW d \in handles[x]
          PROVE  \E n \in 1 .. MaxDevice : <<x, n>> \in Entries /\ DeviceAt(<<x, n>>) = d
      <3>1. PICK n \in 1 .. Len(devices[x]) : devices[x][n] = d
        BY <2>1 DEF Filled, Listed
      <3>2. n \in 1 .. MaxDevice /\ n <= Len(devices[x])
        BY <2>1 DEF TypeOK
      <3> QED
        BY <3>1, <3>2 DEF Entries, DeviceAt
    <2>3. ASSUME NEW x \in Contexts, NEW y \in Contexts, NEW d \in handles[x], NEW e \in handles[y],
                 d.fd = e.fd
          PROVE  x = y /\ d = e
      <3>1. PICK n \in 1 .. MaxDevice : <<x, n>> \in Entries /\ DeviceAt(<<x, n>>) = d
        BY <2>2
      <3>2. PICK m \in 1 .. MaxDevice : <<y, m>> \in Entries /\ DeviceAt(<<y, m>>) = e
        BY <2>2
      <3>3. <<x, n>> = <<y, m>>
        BY <2>1, <2>3, <3>1, <3>2 DEF OwnedOnce
      <3> QED
        BY <3>1, <3>2, <3>3
    <2>4. ASSUME NEW x \in Contexts, NEW d \in handles[x] PROVE d.fd \in fds
      BY <2>1, <2>2 DEF OwnedOnce
    <2> QED
      BY <2>1, <2>3, <2>4 DEF HandlesAreOwned, Filled
  <1> QED
    BY <1>1, DevInvariant, PTL

(***************************************************************************)
(* io_close_context and the error path of io_add_*_device: no descriptor   *)
(* and no register mapping is leaked but those of refused devices, while   *)
(* every stream device ever opened keeps its mapping.                      *)
(***************************************************************************)
THEOREM ResourcesAreAccounted == Spec => []DescriptorsAccounted
  <1>1. ASSUME DevInv PROVE DescriptorsAccounted
    <2>1. TypeOK /\ Filled /\ OwnedOnce /\ Balance /\ StreamsMapped
      BY <1>1 DEF DevInv
    <2>2. /\ FdsOf(Entries) \subseteq fds /\ Cardinality(FdsOf(Entries)) = Cardinality(Entries)
          /\ Cardinality(Entries) \in Nat /\ IsFiniteSet(fds) /\ Cardinality(fds) \in Nat
      BY <2>1, FdsCount, FS_CardinalityType DEF Balance
    <2>3. Cardinality(fds) = Cardinality(Entries) + Cardinality(Refused)
      <3>1. Cardinality(Leaked) = Cardinality(fds) - Cardinality(fds \cap FdsOf(Entries))
        BY <2>2, FS_Difference DEF Leaked
      <3>2. fds \cap FdsOf(Entries) = FdsOf(Entries)
        BY <2>2
      <3> QED
        <4>1. Cardinality(Leaked) = Cardinality(Refused) /\ Cardinality(Refused) \in Nat
          BY <2>1, EntriesFinite DEF Balance
        <4> QED
          BY <2>2, <3>1, <3>2, <4>1
    <2>4. ASSUME NEW k \in Kinds
          PROVE  /\ Cardinality(FdsOf(EntriesOf(k))) = Cardinality(EntriesOf(k))
                 /\ mappings[k] >= Cardinality(EntriesOf(k))
      <3>1. EntriesOf(k) \in SUBSET Entries
        BY DEF EntriesOf
      <3>2. /\ Cardinality(FdsOf(EntriesOf(k))) = Cardinality(EntriesOf(k))
            /\ Cardinality(EntriesOf(k)) \in Nat
        BY <2>1, <3>1, FdsCount
      <3> QED
        BY <2>1, <3>2 DEF Balance, TypeOK
    <2>5. ASSUME \A x \in Contexts : phase[x] # "open"
          PROVE  mappings["mapped"] <= Cardinality(Refused)
      <3>1. Entries = {}
        <4>1. ASSUME NEW p \in Contexts \X (1 .. MaxDevice) PROVE p \notin Entries
          <5>1. devices[p[1]] = <<>> /\ p[2] \in Nat \ {0}
            BY <2>1, <2>5, MaxDeviceAssumption DEF Filled
          <5> QED
            BY <5>1 DEF Entries
        <4> QED
          BY <4>1 DEF Entries
      <3>2. EntriesOf("mapped") = {} /\ "mapped" \in Kinds
        BY <3>1 DEF EntriesOf, Kinds
      <3>3. Cardinality(FdsOf(EntriesOf("mapped"))) = 0
        <4>1. Cardinality({}) = 0
          BY FS_EmptySet
        <4> QED
          BY <2>4, <3>2, <4>1
      <3>4. Cardinality(Refused) \in Nat /\ mappings["mapped"] \in Nat
        BY <2>1, <3>2, EntriesFinite DEF TypeOK
      <3> QED
        BY <2>1, <3>3, <3>4 DEF Balance
    <2> QED
      BY <2>1, <2>3, <2>4, <2>5 DEF DescriptorsAccounted, StreamsMapped
  <1> QED
    BY <1>1, DevInvariant, PTL
=============================================================================
