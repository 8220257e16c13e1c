--------------------------- MODULE GpibLinkProofs ---------------------------
(***************************************************************************)
(* Proofs about GpibLink, for all sets of addresses, all bounds and all    *)
(* clients: the reference counts match the open descriptors, and a shared  *)
(* address keeps its status bytes when one of its descriptors goes.        *)
(***************************************************************************)
EXTENDS GpibLink, FiniteSetTheorems, TLAPS

(* The positions of a sequence of descriptors that are at address a.        *)
At(s, a) == {i \in DOMAIN s : AddressOf(s[i]) = a}

-----------------------------------------------------------------------------
(* A descriptor's address is one of the addresses (gpib_address_equal's      *)
(* classes).                                                                 *)
LEMMA AddressType ==
  ASSUME NEW d \in Descriptor
  PROVE  AddressOf(d) \in Addresses
  BY DEF AddressOf, Addresses, Descriptor

(* The positions at an address are finitely many, and their number is 0      *)
(* exactly when there is none.                                               *)
LEMMA AtFinite ==
  ASSUME NEW s \in Seq(Descriptor), NEW a
  PROVE  /\ IsFiniteSet(At(s, a))
         /\ Cardinality(At(s, a)) \in Nat
         /\ (Cardinality(At(s, a)) = 0) <=> (At(s, a) = {})
<1>1. IsFiniteSet(1 .. Len(s))
  BY FS_Interval
<1>2. At(s, a) \subseteq 1 .. Len(s)
  BY DEF At
<1>3. IsFiniteSet(At(s, a))
  BY <1>1, <1>2, FS_Subset
<1>4. QED
  BY <1>3, FS_CardinalityType, FS_EmptySet

(* removeObjectAtIndex: keeps the order of the others and moves the later    *)
(* ones down by one.                                                         *)
LEMMA RemoveAtIndex ==
  ASSUME NEW S, NEW s \in Seq(S), NEW i \in 1 .. Len(s)
  PROVE  /\ RemoveAt(s, i) \in Seq(S)
         /\ Len(RemoveAt(s, i)) = Len(s) - 1
         /\ \A k \in 1 .. Len(s) - 1 :
              RemoveAt(s, i)[k] = IF k < i THEN s[k] ELSE s[k + 1]
<1> DEFINE u == SubSeq(s, 1, i - 1)
           v == SubSeq(s, i + 1, Len(s))
<1>1. u \in Seq(S) /\ Len(u) = i - 1 /\ \A k \in 1 .. i - 1 : u[k] = s[k]
  OBVIOUS
<1>2. v \in Seq(S) /\ Len(v) = Len(s) - i /\ \A k \in 1 .. Len(s) - i : v[k] = s[i + k]
  OBVIOUS
<1>3. RemoveAt(s, i) = u \o v
  BY DEF RemoveAt
<1> HIDE DEF u, v
<1>4. u \o v \in Seq(S) /\ Len(u \o v) = Len(s) - 1
  BY <1>1, <1>2
<1>5. ASSUME NEW k \in 1 .. Len(s) - 1
      PROVE  (u \o v)[k] = IF k < i THEN s[k] ELSE s[k + 1]
  <2>1. CASE k < i
    BY <1>1, <1>2, <2>1
  <2>2. CASE k >= i
    <3>1. (u \o v)[k] = v[k - (i - 1)]
      BY <1>1, <1>2, <2>2
    <3>2. k - (i - 1) \in 1 .. Len(s) - i /\ i + (k - (i - 1)) = k + 1
      BY <2>2
    <3>3. v[k - (i - 1)] = s[k + 1]
      BY <1>2, <3>2
    <3>4. ~(k < i)
      BY <2>2
    <3>5. QED
      BY <3>1, <3>3, <3>4, Zenon
  <2>3. k < i \/ k >= i
    OBVIOUS
  <2>4. QED
    BY <2>1, <2>2, <2>3, Zenon
<1>6. QED
  BY <1>3, <1>4, <1>5

(* addObject: adds one position, at the new descriptor's address. *)
LEMMA AtAppend ==
  ASSUME NEW s \in Seq(Descriptor), NEW d \in Descriptor, NEW a
  PROVE  At(Append(s, d), a) =
           IF AddressOf(d) = a THEN At(s, a) \union {Len(s) + 1} ELSE At(s, a)
  BY DEF At

(* Closing a descriptor lowers the count of its own address by one and of    *)
(* no other, although every later descriptor gets a new index.               *)
LEMMA AtRemove ==
  ASSUME NEW s \in Seq(Descriptor), NEW i \in 1 .. Len(s), NEW a
  PROVE  Cardinality(At(RemoveAt(s, i), a)) = Cardinality(At(s, a) \ {i})
<1> DEFINE t == RemoveAt(s, i)
           f == [k \in At(t, a) |-> IF k < i THEN k ELSE k + 1]
<1>1. /\ t \in Seq(Descriptor)
      /\ Len(t) = Len(s) - 1
      /\ \A k \in 1 .. Len(s) - 1 : t[k] = IF k < i THEN s[k] ELSE s[k + 1]
  BY RemoveAtIndex
<1> HIDE DEF t
<1>2. f \in [At(t, a) -> At(s, a) \ {i}]
  BY <1>1 DEF At
<1>3. \A k, l \in At(t, a) : f[k] = f[l] => k = l
  BY <1>1 DEF At
<1>4. \A j \in At(s, a) \ {i} : \E k \in At(t, a) : f[k] = j
  <2> TAKE j \in At(s, a) \ {i}
  <2>1. CASE j < i
    <3>1. j \in At(t, a)
      BY <1>1, <2>1 DEF At
    <3>2. QED
      BY <2>1, <3>1
  <2>2. CASE j > i
    <3>1. j - 1 \in At(t, a) /\ f[j - 1] = j
      BY <1>1, <2>2 DEF At
    <3>2. QED
      BY <3>1
  <2>3. QED
    BY <2>1, <2>2 DEF At
<1>5. f \in Bijection(At(t, a), At(s, a) \ {i})
  BY <1>2, <1>3, <1>4 DEF Bijection, Injection, Surjection, IsInjective
<1>6. ExistsBijection(At(t, a), At(s, a) \ {i})
  BY <1>5 DEF ExistsBijection
<1>7. IsFiniteSet(At(t, a))
  BY <1>1, AtFinite
<1>8. QED
  BY <1>6, <1>7, FS_Bijection DEF t

-----------------------------------------------------------------------------
(* The inductive invariant.  RefCountsMatch needs NoOrphanBytes for nothing, *)
(* but is not inductive without TypeOK; NoOrphanBytes needs RefCountsMatch.  *)
IInv == TypeOK /\ RefCountsMatch /\ NoOrphanBytes

(* The tables' part of the invariant, for any pair of tables.                *)
Consistent(descs, list) ==
  /\ descs \in Seq(Descriptor)
  /\ list \in [Addresses -> Device]
  /\ \A a \in Addresses : list[a].reference_count = Cardinality(At(descs, a))
  /\ \A a \in Addresses : At(descs, a) = {} => list[a] = Absent

(* While the link thread runs, the invariant is Consistent.                  *)
LEMMA RunningConsistent ==
  /\ IInv /\ Running => Consistent(m_descriptors, m_device_list)
  /\ (IInv /\ Running => Consistent(m_descriptors, m_device_list))'
  BY DEF IInv, Running, Consistent, TypeOK, RefCountsMatch, NoOrphanBytes,
         DescriptorsAt, At

(* Opening a descriptor at an address that has none.                         *)
LEMMA ConsistentOpen ==
  ASSUME NEW s, NEW list, Consistent(s, list), NEW d \in Descriptor
  PROVE  Consistent(Append(s, d), increment_open_device_count(list, AddressOf(d)))
<1> DEFINE new == increment_open_device_count(list, AddressOf(d))
<1>1. AddressOf(d) \in Addresses
  BY AddressType
<1>2. s \in Seq(Descriptor) /\ Append(s, d) \in Seq(Descriptor)
  BY DEF Consistent
<1>3. new \in [Addresses -> Device]
  BY <1>1 DEF Consistent, increment_open_device_count, Device
<1>4. ASSUME NEW a \in Addresses
      PROVE  /\ new[a].reference_count = Cardinality(At(Append(s, d), a))
             /\ At(Append(s, d), a) = {} => new[a] = Absent
  <2>1. CASE AddressOf(d) = a
    <3>1. At(Append(s, d), a) = At(s, a) \union {Len(s) + 1}
      BY <1>2, <2>1, AtAppend
    <3>2. Len(s) + 1 \notin At(s, a)
      BY <1>2 DEF At
    <3>3. Cardinality(At(Append(s, d), a)) = Cardinality(At(s, a)) + 1
      BY <1>2, <3>1, <3>2, AtFinite, FS_AddElement
    <3>4. new[a].reference_count = list[a].reference_count + 1
      BY <2>1 DEF Consistent, increment_open_device_count, Device
    <3>5. list[a].reference_count = Cardinality(At(s, a))
      BY DEF Consistent
    <3>6. QED
      BY <3>1, <3>3, <3>4, <3>5
  <2>2. CASE AddressOf(d) # a
    <3>1. At(Append(s, d), a) = At(s, a)
      BY <1>2, <2>2, AtAppend
    <3>2. new[a] = list[a]
      BY <2>2 DEF Consistent, increment_open_device_count
    <3>3. QED
      BY <3>1, <3>2 DEF Consistent
  <2>3. QED
    BY <2>1, <2>2
<1>5. QED
  BY <1>2, <1>3, <1>4 DEF Consistent

(* Any descriptor can be taken off the counts: the "gpib: bug!" branches of  *)
(* subtract_open_device_count are not reached.                               *)
LEMMA CanClose ==
  ASSUME NEW s, NEW list, Consistent(s, list), NEW i \in 1 .. Len(s)
  PROVE  /\ AddressOf(s[i]) \in Addresses
         /\ i \in At(s, AddressOf(s[i]))
         /\ CanSubtract(list, AddressOf(s[i]), 1)
<1> DEFINE a == AddressOf(s[i])
<1>1. s \in Seq(Descriptor) /\ s[i] \in Descriptor
  BY DEF Consistent
<1>2. a \in Addresses
  BY <1>1, AddressType
<1>3. i \in At(s, a)
  BY <1>1 DEF At
<1>4. Cardinality(At(s, a)) \in Nat /\ Cardinality(At(s, a)) # 0
  BY <1>1, <1>3, AtFinite
<1>5. list[a].reference_count = Cardinality(At(s, a))
  BY <1>2 DEF Consistent
<1>6. QED
  BY <1>2, <1>3, <1>4, <1>5 DEF CanSubtract

(* What decrement_open_device_count does to the counts: at the descriptor's  *)
(* own address one reference less, and an empty entry with the last one.     *)
LEMMA Decremented ==
  ASSUME NEW s, NEW list, Consistent(s, list), NEW i \in 1 .. Len(s)
  PROVE  LET new == decrement_open_device_count(list, AddressOf(s[i]))
         IN  /\ new \in [Addresses -> Device]
             /\ \A a \in Addresses :
                  /\ new[a].reference_count = Cardinality(At(s, a) \ {i})
                  /\ At(s, a) \ {i} = {} => new[a] = Absent
<1> DEFINE b == AddressOf(s[i])
           new == decrement_open_device_count(list, b)
<1>1. s \in Seq(Descriptor) /\ list \in [Addresses -> Device]
  BY DEF Consistent
<1>2. b \in Addresses /\ i \in At(s, b) /\ CanSubtract(list, b, 1)
  BY CanClose
<1>3. list[b].reference_count \in Nat \ {0}
  BY <1>1, <1>2 DEF CanSubtract, Device
<1>4. new \in [Addresses -> Device]
  <2>1. Absent \in Device
    BY LinkAssumption DEF Absent, Device
  <2>2. list[b] \in Device
    BY <1>1, <1>2
  <2>3. [list[b] EXCEPT !.reference_count = @ - 1] \in Device
    BY <1>3, <2>2 DEF Device
  <2>4. new = [list EXCEPT ![b] = IF list[b].reference_count = 1 THEN Absent
                                  ELSE [list[b] EXCEPT !.reference_count = @ - 1]]
    BY <1>1, <1>2 DEF decrement_open_device_count, subtract_open_device_count
  <2>5. QED
    BY <1>1, <1>2, <2>1, <2>3, <2>4
<1>5. ASSUME NEW a \in Addresses
      PROVE  /\ new[a].reference_count = Cardinality(At(s, a) \ {i})
             /\ At(s, a) \ {i} = {} => new[a] = Absent
  <2>1. CASE a = b
    <3>1. Cardinality(At(s, a) \ {i}) = Cardinality(At(s, a)) - 1
      BY <1>1, <1>2, <2>1, AtFinite, FS_RemoveElement
    <3>2. new[a].reference_count = list[a].reference_count - 1
      BY <1>1, <1>2, <1>3, <2>1
         DEF decrement_open_device_count, subtract_open_device_count, Absent, Device
    <3>3. list[a].reference_count = Cardinality(At(s, a))
      BY DEF Consistent
    <3>4. ASSUME At(s, a) \ {i} = {} PROVE new[a] = Absent
      <4>1. Cardinality(At(s, a) \ {i}) = 0
        BY <3>4, FS_EmptySet
      <4>2. list[a].reference_count = 1
        BY <1>3, <2>1, <3>1, <3>3, <4>1
      <4>3. QED
        BY <1>1, <2>1, <4>2
           DEF decrement_open_device_count, subtract_open_device_count
    <3>5. QED
      BY <3>1, <3>2, <3>3, <3>4
  <2>2. CASE a # b
    <3>1. At(s, a) \ {i} = At(s, a)
      BY <2>2 DEF At
    <3>2. new[a] = list[a]
      BY <1>1, <2>2 DEF decrement_open_device_count, subtract_open_device_count
    <3>3. QED
      BY <3>1, <3>2 DEF Consistent
  <2>3. QED
    BY <2>1, <2>2
<1>6. QED
  BY <1>4, <1>5

(* Closing a descriptor.                                                     *)
LEMMA ConsistentClose ==
  ASSUME NEW s, NEW list, Consistent(s, list), NEW i \in 1 .. Len(s)
  PROVE  Consistent(RemoveAt(s, i), decrement_open_device_count(list, AddressOf(s[i])))
<1> DEFINE t == RemoveAt(s, i)
           new == decrement_open_device_count(list, AddressOf(s[i]))
<1>1. s \in Seq(Descriptor)
  BY DEF Consistent
<1>2. t \in Seq(Descriptor)
  BY <1>1, RemoveAtIndex
<1>3. /\ new \in [Addresses -> Device]
      /\ \A a \in Addresses :
           /\ new[a].reference_count = Cardinality(At(s, a) \ {i})
           /\ At(s, a) \ {i} = {} => new[a] = Absent
  BY Decremented
<1> HIDE DEF t, new
<1>4. ASSUME NEW a \in Addresses
      PROVE  /\ Cardinality(At(t, a)) = Cardinality(At(s, a) \ {i})
             /\ At(t, a) = {} => At(s, a) \ {i} = {}
  <2>1. Cardinality(At(t, a)) = Cardinality(At(s, a) \ {i})
    BY <1>1, AtRemove DEF t
  <2>2. IsFiniteSet(At(s, a) \ {i})
    BY <1>1, AtFinite, FS_Subset
  <2>3. ASSUME At(t, a) = {} PROVE At(s, a) \ {i} = {}
    <3>1. Cardinality(At(t, a)) = 0
      BY <2>3, FS_EmptySet
    <3>2. QED
      BY <2>1, <2>2, <3>1, FS_EmptySet
  <2>4. QED
    BY <2>1, <2>3
<1>5. QED
  BY <1>2, <1>3, <1>4 DEF Consistent, t, new

(* Giving a descriptor another address: the count leaves the old address and *)
(* arrives at the new one, which may be the same.                            *)
LEMMA ConsistentReaddress ==
  ASSUME NEW s, NEW list, Consistent(s, list), NEW i \in 1 .. Len(s),
         NEW d \in Descriptor
  PROVE  Consistent([s EXCEPT ![i] = d],
                    increment_open_device_count(
                      decrement_open_device_count(list, AddressOf(s[i])),
                      AddressOf(d)))
<1> DEFINE t == [s EXCEPT ![i] = d]
           mid == decrement_open_device_count(list, AddressOf(s[i]))
           new == increment_open_device_count(mid, AddressOf(d))
<1>1. s \in Seq(Descriptor) /\ t \in Seq(Descriptor)
  BY DEF Consistent
<1>2. AddressOf(d) \in Addresses
  BY AddressType
<1>3. /\ mid \in [Addresses -> Device]
      /\ \A a \in Addresses :
           /\ mid[a].reference_count = Cardinality(At(s, a) \ {i})
           /\ At(s, a) \ {i} = {} => mid[a] = Absent
  BY Decremented
<1>4. \A a \in Addresses :
        At(t, a) = IF AddressOf(d) = a THEN (At(s, a) \ {i}) \union {i}
                   ELSE At(s, a) \ {i}
  <2> TAKE a \in Addresses
  <2>1. At(t, a) = IF AddressOf(d) = a THEN At(s, a) \union {i}
                   ELSE At(s, a) \ {i}
    BY <1>1 DEF At
  <2>2. At(s, a) \union {i} = (At(s, a) \ {i}) \union {i}
    OBVIOUS
  <2>3. QED
    BY <2>1, <2>2, Zenon
<1> HIDE DEF t, mid
<1>5. new \in [Addresses -> Device]
  BY <1>2, <1>3 DEF increment_open_device_count, Device
<1>6. ASSUME NEW a \in Addresses
      PROVE  /\ new[a].reference_count = Cardinality(At(t, a))
             /\ At(t, a) = {} => new[a] = Absent
  <2>1. CASE AddressOf(d) = a
    <3>1. At(t, a) = (At(s, a) \ {i}) \union {i}
      BY <1>4, <2>1
    <3>2. IsFiniteSet(At(s, a) \ {i}) /\ i \notin At(s, a) \ {i}
      BY <1>1, AtFinite, FS_Subset
    <3>3. Cardinality(At(t, a)) = Cardinality(At(s, a) \ {i}) + 1
      BY <3>1, <3>2, FS_AddElement
    <3>4. new[a].reference_count = mid[a].reference_count + 1
      BY <1>3, <2>1 DEF increment_open_device_count, Device
    <3>5. QED
      BY <1>3, <3>1, <3>3, <3>4
  <2>2. CASE AddressOf(d) # a
    <3>1. new[a] = mid[a]
      BY <1>3, <2>2 DEF increment_open_device_count
    <3>2. QED
      BY <1>3, <1>4, <2>2, <3>1
  <2>3. QED
    BY <2>1, <2>2
<1>7. QED
  BY <1>1, <1>5, <1>6 DEF Consistent, t, mid

(* A descriptor that keeps its address and a list that keeps its counts.     *)
LEMMA ConsistentFlag ==
  ASSUME NEW s, NEW list, Consistent(s, list), NEW i \in 1 .. Len(s),
         NEW d \in Descriptor, AddressOf(d) = AddressOf(s[i])
  PROVE  Consistent([s EXCEPT ![i] = d], list)
<1>1. s \in Seq(Descriptor) /\ [s EXCEPT ![i] = d] \in Seq(Descriptor)
  BY DEF Consistent
<1>2. \A a \in Addresses : At([s EXCEPT ![i] = d], a) = At(s, a)
  BY <1>1 DEF At
<1>3. QED
  BY <1>1, <1>2 DEF Consistent

(* Status bytes may come and go at addresses that are in the list. *)
LEMMA ConsistentBytes ==
  ASSUME NEW s, NEW list, Consistent(s, list), NEW new \in [Addresses -> Device],
         \A a \in Addresses :
           /\ new[a].reference_count = list[a].reference_count
           /\ At(s, a) = {} => new[a].num_status_bytes = list[a].num_status_bytes
  PROVE  Consistent(s, new)
<1>1. ASSUME NEW a \in Addresses, At(s, a) = {} PROVE new[a] = Absent
  <2>1. list[a] = Absent
    BY <1>1 DEF Consistent
  <2>2. new[a] \in Device
    OBVIOUS
  <2>3. new[a].reference_count = 0 /\ new[a].num_status_bytes = 0
    BY <1>1, <2>1 DEF Absent
  <2>4. QED
    BY <2>2, <2>3 DEF Absent, Device
<1>2. QED
  BY <1>1 DEF Consistent

-----------------------------------------------------------------------------
(* A step that keeps the link thread running keeps the tables consistent;    *)
(* one lemma per handler.                                                    *)
Keeps == Consistent(m_descriptors', m_device_list')

(* A refused ioctl and one that raises change neither table. *)
LEMMA RaiseRefuse ==
  ASSUME Consistent(m_descriptors, m_device_list), Raise \/ Refuse
  PROVE  Keeps
  BY DEF Keeps, Raise, Refuse

(* open_dev_ioctl keeps the tables consistent. *)
LEMMA StepOpen ==
  ASSUME Consistent(m_descriptors, m_device_list),
         NEW pad \in Pads, NEW sad \in Sads, NEW b \in BOOLEAN,
         open_dev_ioctl(pad, sad, b)
  PROVE  Keeps
<1>1. CASE OpenNew(pad, sad, b)
  <2> DEFINE d == [pad |-> pad, sad |-> sad, is_board |-> b, io_in_progress |-> FALSE]
  <2>1. d \in Descriptor /\ AddressOf(d) = Address(pad, sad)
    BY DEF Descriptor, AddressOf
  <2>2. /\ m_descriptors' = Append(m_descriptors, d)
        /\ m_device_list' = increment_open_device_count(m_device_list, AddressOf(d))
    BY <1>1, <2>1 DEF OpenNew
  <2>3. QED
    BY <2>1, <2>2, ConsistentOpen DEF Keeps
<1>2. CASE OpenShared(pad, sad)
  BY <1>2 DEF OpenShared, tables, Keeps
<1>3. QED
  BY <1>1, <1>2 DEF open_dev_ioctl

(* close_dev_ioctl keeps the tables consistent. *)
LEMMA StepClose ==
  ASSUME Consistent(m_descriptors, m_device_list), NEW h \in Handles,
         close_dev_ioctl(h)
  PROVE  Keeps
<1>1. CASE Raise
  BY <1>1, RaiseRefuse
<1>2. CASE h >= 0 /\ ~OutOfRange(h) /\ CloseAt(h + 1)
  <2>1. h + 1 \in 1 .. Len(m_descriptors)
    BY <1>2, LinkAssumption DEF Handles, OutOfRange, Consistent
  <2>2. CanSubtract(m_device_list, AddressOf(m_descriptors[h + 1]), 1)
    BY <2>1, CanClose
  <2>3. /\ m_descriptors' = RemoveAt(m_descriptors, h + 1)
        /\ m_device_list' = decrement_open_device_count(m_device_list,
                              AddressOf(m_descriptors[h + 1]))
    BY <1>2, <2>2 DEF CloseAt
  <2>4. QED
    BY <2>1, <2>3, ConsistentClose DEF Keeps
<1>3. QED
  BY <1>1, <1>2 DEF close_dev_ioctl

(* A change of address keeps the tables consistent. *)
LEMMA StepReaddress ==
  ASSUME Consistent(m_descriptors, m_device_list),
         NEW i \in 1 .. Len(m_descriptors), NEW d \in Descriptor,
         Readdress(i, d)
  PROVE  Keeps
<1>1. CanSubtract(m_device_list, AddressOf(m_descriptors[i]), 1)
  BY CanClose
<1>2. /\ m_descriptors' = [m_descriptors EXCEPT ![i] = d]
      /\ m_device_list' = increment_open_device_count(
                            decrement_open_device_count(m_device_list,
                              AddressOf(m_descriptors[i])), AddressOf(d))
  BY <1>1 DEF Readdress
<1>3. QED
  BY <1>2, ConsistentReaddress DEF Keeps

(* pad_ioctl keeps the tables consistent. *)
LEMMA StepPad ==
  ASSUME Consistent(m_descriptors, m_device_list), NEW h \in Handles,
         NEW pad \in Pads, pad_ioctl(h, pad)
  PROVE  Keeps
<1>1. CASE Raise \/ Refuse
  BY <1>1, RaiseRefuse
<1>2. CASE ~NoDescriptor(h) /\ ~OutOfRange(h)
  <2>1. h + 1 \in 1 .. Len(m_descriptors) /\ m_descriptors[h + 1] \in Descriptor
    BY <1>2, LinkAssumption DEF Handles, OutOfRange, NoDescriptor, Consistent
  <2>2. CASE m_descriptors[h + 1].is_board
    BY <1>1, <1>2, <2>2
       DEF pad_ioctl, WithDescriptor, ibpad, SetBoardAddress, tables, Keeps
  <2>3. CASE ~m_descriptors[h + 1].is_board
    <3>1. Readdress(h + 1, [m_descriptors[h + 1] EXCEPT !.pad = pad])
      BY <1>2, <2>3 DEF pad_ioctl, WithDescriptor
    <3>2. [m_descriptors[h + 1] EXCEPT !.pad = pad] \in Descriptor
      BY <2>1 DEF Descriptor
    <3>3. QED
      BY <2>1, <3>1, <3>2, StepReaddress
  <2>4. QED
    BY <2>2, <2>3
<1>3. QED
  BY <1>1, <1>2 DEF pad_ioctl, WithDescriptor

(* sad_ioctl keeps the tables consistent. *)
LEMMA StepSad ==
  ASSUME Consistent(m_descriptors, m_device_list), NEW h \in Handles,
         NEW sad \in Sads, sad_ioctl(h, sad)
  PROVE  Keeps
<1>1. CASE Raise \/ Refuse
  BY <1>1, RaiseRefuse
<1>2. CASE ~NoDescriptor(h) /\ ~OutOfRange(h)
  <2>1. h + 1 \in 1 .. Len(m_descriptors) /\ m_descriptors[h + 1] \in Descriptor
    BY <1>2, LinkAssumption DEF Handles, OutOfRange, NoDescriptor, Consistent
  <2>2. CASE m_descriptors[h + 1].is_board
    BY <1>1, <1>2, <2>2
       DEF sad_ioctl, WithDescriptor, ibsad, SetBoardAddress, tables, Keeps
  <2>3. CASE ~m_descriptors[h + 1].is_board
    <3>1. Readdress(h + 1, [m_descriptors[h + 1] EXCEPT !.sad = sad])
      BY <1>2, <2>3 DEF sad_ioctl, WithDescriptor
    <3>2. [m_descriptors[h + 1] EXCEPT !.sad = sad] \in Descriptor
      BY <2>1 DEF Descriptor
    <3>3. QED
      BY <2>1, <3>1, <3>2, StepReaddress
  <2>4. QED
    BY <2>2, <2>3
<1>3. QED
  BY <1>1, <1>2 DEF sad_ioctl, WithDescriptor

(* A transfer or a status query changes io_in_progress only.                 *)
LEMMA StepFlag ==
  ASSUME Consistent(m_descriptors, m_device_list), NEW h \in Handles,
         ~NoDescriptor(h), ~OutOfRange(h), NEW flag \in BOOLEAN,
         m_descriptors' = [m_descriptors EXCEPT ![h + 1].io_in_progress = flag],
         UNCHANGED m_device_list
  PROVE  Keeps
<1> DEFINE d == [m_descriptors[h + 1] EXCEPT !.io_in_progress = flag]
<1>1. h + 1 \in 1 .. Len(m_descriptors) /\ m_descriptors[h + 1] \in Descriptor
  BY LinkAssumption DEF Handles, OutOfRange, NoDescriptor, Consistent
<1>2. d \in Descriptor /\ AddressOf(d) = AddressOf(m_descriptors[h + 1])
  BY <1>1 DEF Descriptor, AddressOf
<1>3. m_descriptors' = [m_descriptors EXCEPT ![h + 1] = d]
  BY <1>1 DEF Consistent
<1> HIDE DEF d
<1>4. Consistent([m_descriptors EXCEPT ![h + 1] = d], m_device_list)
  BY <1>1, <1>2, ConsistentFlag
<1>5. QED
  BY <1>3, <1>4, Zenon DEF Keeps

(* read_ioctl, write_ioctl and command_ioctl keep the tables consistent. *)
LEMMA StepTransfer ==
  ASSUME Consistent(m_descriptors, m_device_list), NEW h \in Handles,
         transfer_ioctl(h)
  PROVE  Keeps
<1>1. CASE Raise \/ Refuse
  BY <1>1, RaiseRefuse
<1>2. CASE /\ ~NoDescriptor(h) /\ ~OutOfRange(h)
           /\ m_descriptors' = [m_descriptors EXCEPT ![h + 1].io_in_progress = FALSE]
           /\ UNCHANGED m_device_list
  BY <1>2, StepFlag
<1>3. QED
  BY <1>1, <1>2 DEF transfer_ioctl, WithDescriptor

(* wait_ioctl keeps the tables consistent. *)
LEMMA StepWait ==
  ASSUME Consistent(m_descriptors, m_device_list), NEW h \in Handles,
         NEW mask \in Masks, wait_ioctl(h, mask)
  PROVE  Keeps
<1>1. CASE Raise \/ Refuse
  BY <1>1, RaiseRefuse
<1>2. CASE /\ ~NoDescriptor(h) /\ ~OutOfRange(h)
           /\ m_descriptors' = [m_descriptors EXCEPT ![h + 1].io_in_progress =
                                  (mask # "clear_CMPL")]
           /\ UNCHANGED m_device_list
  <2>1. (mask # "clear_CMPL") \in BOOLEAN
    OBVIOUS
  <2>2. QED
    BY <1>2, <2>1, StepFlag
<1>3. QED
  BY <1>1, <1>2 DEF wait_ioctl, WithDescriptor

(* serial_poll_ioctl keeps the tables consistent. *)
LEMMA StepPoll ==
  ASSUME Consistent(m_descriptors, m_device_list), NEW pad \in Pads, NEW sad \in Sads,
         serial_poll_ioctl(pad, sad)
  PROVE  Keeps
<1> DEFINE b == Address(pad, sad)
<1>1. b \in Addresses /\ m_device_list[b] \in Device
  BY DEF Addresses, Consistent
<1>2. UNCHANGED m_descriptors
  BY DEF serial_poll_ioctl
<1>3. CASE UNCHANGED m_device_list
  BY <1>2, <1>3 DEF Keeps
<1>4. CASE /\ m_device_list[b].num_status_bytes > 0
           /\ m_device_list' = [m_device_list EXCEPT ![b].num_status_bytes = @ - 1]
  <2> HIDE DEF b
  <2>1. m_device_list' \in [Addresses -> Device]
    BY <1>1, <1>4, LinkAssumption DEF Consistent, Device
  <2>2. ASSUME NEW a \in Addresses
        PROVE  /\ m_device_list'[a].reference_count = m_device_list[a].reference_count
               /\ At(m_descriptors, a) = {} =>
                    m_device_list'[a].num_status_bytes = m_device_list[a].num_status_bytes
    <3>1. CASE a = b
      <4>1. At(m_descriptors, a) # {}
        BY <1>4, <3>1 DEF Consistent, Absent
      <4>2. QED
        BY <1>1, <1>4, <3>1, <4>1 DEF Consistent, Device
    <3>2. CASE a # b
      BY <1>4, <3>2 DEF Consistent
    <3>3. QED
      BY <3>1, <3>2
  <2>3. Consistent(m_descriptors, m_device_list')
    BY <2>1, <2>2, ConsistentBytes
  <2>4. QED
    BY <1>2, <2>3 DEF Keeps
<1>5. QED
  BY <1>3, <1>4 DEF serial_poll_ioctl

(* The number of bytes a poll pushes at an address is a natural number. *)
LEMMA PushedType ==
  ASSUME Consistent(m_descriptors, m_device_list),
         NEW rqs \in SUBSET DOMAIN m_descriptors, NEW a \in Addresses
  PROVE  /\ Pushed(rqs, a) \in Nat
         /\ At(m_descriptors, a) = {} => Pushed(rqs, a) = 0
<1> DEFINE P == {i \in rqs : AddressOf(m_descriptors[i]) = a}
<1>1. P \subseteq At(m_descriptors, a)
  BY DEF At
<1>2. IsFiniteSet(P)
  BY <1>1, AtFinite, FS_Subset DEF Consistent
<1>3. Cardinality(P) \in Nat /\ (P = {} => Cardinality(P) = 0)
  BY <1>2, FS_CardinalityType, FS_EmptySet
<1>4. QED
  BY <1>1, <1>3 DEF Pushed

(* serial_poll_all keeps the tables consistent: it finds every queue. *)
LEMMA StepPollAll ==
  ASSUME Consistent(m_descriptors, m_device_list),
         NEW rqs \in SUBSET DOMAIN m_descriptors, serial_poll_all(rqs)
  PROVE  Keeps
<1>1. CASE Raise
  BY <1>1, RaiseRefuse
<1>2. CASE /\ UNCHANGED m_descriptors
           /\ m_device_list' = [a \in Addresses |->
                 [m_device_list[a] EXCEPT !.num_status_bytes =
                    AtMost(@ + Pushed(rqs, a), MaxStatusBytes)]]
  <2>1. ASSUME NEW a \in Addresses
        PROVE  /\ m_device_list'[a] \in Device
               /\ m_device_list'[a].reference_count = m_device_list[a].reference_count
               /\ At(m_descriptors, a) = {} =>
                    m_device_list'[a].num_status_bytes = m_device_list[a].num_status_bytes
    <3>1. m_device_list[a] \in Device
      BY DEF Consistent
    <3>2. Pushed(rqs, a) \in Nat /\ (At(m_descriptors, a) = {} => Pushed(rqs, a) = 0)
      BY PushedType
    <3>3. m_device_list'[a] = [m_device_list[a] EXCEPT !.num_status_bytes =
            AtMost(m_device_list[a].num_status_bytes + Pushed(rqs, a), MaxStatusBytes)]
      BY <1>2
    <3>4. QED
      BY <3>1, <3>2, <3>3, LinkAssumption DEF Device, AtMost
  <2>2. m_device_list' \in [Addresses -> Device]
    BY <1>2, <2>1
  <2>3. Consistent(m_descriptors, m_device_list')
    <3>1. ASSUME NEW a \in Addresses
          PROVE  /\ m_device_list'[a].reference_count = m_device_list[a].reference_count
                 /\ At(m_descriptors, a) = {} =>
                      m_device_list'[a].num_status_bytes = m_device_list[a].num_status_bytes
      BY <2>1
    <3>2. QED
      BY <2>2, <3>1, ConsistentBytes
  <2>4. QED
    BY <1>2, <2>3 DEF Keeps
<1>3. QED
  BY <1>1, <1>2 DEF serial_poll_all

-----------------------------------------------------------------------------
(* close keeps the types, although it leaves descriptors and counts behind:  *)
(* it never takes more from a count than was put in.                         *)
LEMMA StepCleanup ==
  ASSUME Consistent(m_descriptors, m_device_list), cleanup_open_devices
  PROVE  /\ m_descriptors' \in Seq(Descriptor)
         /\ m_device_list' \in [Addresses -> Device]
<1>1. m_descriptors \in Seq(Descriptor) /\ m_device_list \in [Addresses -> Device]
  BY DEF Consistent
<1>2. m_descriptors' \in Seq(Descriptor)
  <2>1. m_descriptors' = [i \in 1 .. Len(m_descriptors) \div 2 |-> m_descriptors[2 * i]]
    BY DEF cleanup_open_devices
  <2>2. Len(m_descriptors) \div 2 \in Nat
    BY <1>1
  <2>3. \A i \in 1 .. Len(m_descriptors) \div 2 : m_descriptors[2 * i] \in Descriptor
    BY <1>1
  <2>4. QED
    BY <2>1, <2>2, <2>3
<1>3. ASSUME NEW a \in Addresses PROVE m_device_list'[a] \in Device
  <2> DEFINE n == Uncounted(a)
             U == {i \in Visited : /\ AddressOf(m_descriptors[i]) = a
                                   /\ ~m_descriptors[i].is_board}
  <2>1. U \subseteq At(m_descriptors, a)
    BY DEF At, Visited
  <2>2. /\ IsFiniteSet(U)
        /\ Cardinality(U) <= Cardinality(At(m_descriptors, a))
    BY <1>1, <2>1, AtFinite, FS_Subset
  <2>3. n \in Nat /\ n <= m_device_list[a].reference_count
    BY <2>2, FS_CardinalityType DEF Uncounted, Consistent
  <2>4. m_device_list[a] \in Device
    BY <1>1
  <2> HIDE DEF n
  <2>5. m_device_list'[a] = IF n = 0 THEN m_device_list[a]
                            ELSE subtract_open_device_count(m_device_list, a, n)[a]
    BY DEF cleanup_open_devices, n
  <2>6. Absent \in Device
    BY LinkAssumption DEF Absent, Device
  <2>7. subtract_open_device_count(m_device_list, a, n)[a] =
          IF m_device_list[a].reference_count = n THEN Absent
          ELSE [m_device_list[a] EXCEPT !.reference_count = @ - n]
    BY <1>1 DEF subtract_open_device_count
  <2>8. [m_device_list[a] EXCEPT !.reference_count = @ - n] \in Device
    BY <2>3, <2>4 DEF Device
  <2>9. QED
    BY <2>4, <2>5, <2>6, <2>7, <2>8
<1>4. QED
  BY <1>2, <1>3 DEF cleanup_open_devices

-----------------------------------------------------------------------------
(* The rest of the state keeps its type: the scalars.                        *)
ScalarsOK ==
  /\ m_address \in [pad : Nat, sad : Int]
  /\ link_thread \in {"executing", "finished"}
  /\ raised \in BOOLEAN
  /\ reply \in Replies

(* The answers of the handlers are replies. *)
LEMMA ReplyType ==
  /\ Ok \in Replies /\ Failed \in Replies
  /\ \A h \in Int : [Ok EXCEPT !.cmd = "open", !.handle = h] \in Replies
  /\ \A b \in BOOLEAN : [Ok EXCEPT !.cmd = "status", !.cmpl = b] \in Replies
  /\ [Ok EXCEPT !.cmd = "none"] \in Replies
<1>1. Ok \in Replies
  BY DEF Ok, Replies
<1>2. Failed \in Replies
  BY <1>1 DEF Failed, Replies
<1>3. \A h \in Int : [Ok EXCEPT !.cmd = "open", !.handle = h] \in Replies
  BY <1>1 DEF Replies
<1>4. \A b \in BOOLEAN : [Ok EXCEPT !.cmd = "status", !.cmpl = b] \in Replies
  BY <1>1 DEF Replies
<1>5. [Ok EXCEPT !.cmd = "none"] \in Replies
  BY <1>1 DEF Replies
<1>6. QED
  BY <1>1, <1>2, <1>3, <1>4, <1>5

(* Refusing and raising keep the types of the other variables. *)
LEMMA ScalarsRefuse ==
  ASSUME ScalarsOK, Raise \/ Refuse
  PROVE  ScalarsOK' /\ UNCHANGED link_thread
  BY ReplyType DEF ScalarsOK, Raise, Refuse

(* Setting the board's address keeps the types of the other variables. *)
LEMMA ScalarsBoard ==
  ASSUME ScalarsOK, NEW pad \in Nat, NEW sad \in Int, ibpad(pad) \/ ibsad(sad)
  PROVE  ScalarsOK' /\ UNCHANGED link_thread
<1>1. ASSUME NEW p \in Nat, NEW q \in Int, SetBoardAddress(p, q)
      PROVE  ScalarsOK' /\ UNCHANGED link_thread
  BY <1>1, ReplyType DEF ScalarsOK, SetBoardAddress
<1>2. m_address.pad \in Nat /\ m_address.sad \in Int
  BY DEF ScalarsOK
<1>3. CASE Refuse
  BY <1>3, ScalarsRefuse
<1>4. QED
  BY <1>1, <1>2, <1>3 DEF ibpad, ibsad

(* So does giving a device another address. *)
LEMMA ScalarsReaddress ==
  ASSUME ScalarsOK, NEW i, NEW d, Readdress(i, d)
  PROVE  ScalarsOK' /\ UNCHANGED link_thread
  BY ScalarsRefuse, ReplyType DEF ScalarsOK, Readdress

(* Every step but close keeps them, and the link thread running. *)
LEMMA ScalarsStep ==
  ASSUME TypeOK, Next, Running
  PROVE  ScalarsOK' /\ (link_thread' = link_thread \/ close)
<1>1. ScalarsOK /\ m_descriptors \in Seq(Descriptor)
  BY DEF ScalarsOK, TypeOK
<1>2. ASSUME NEW pad \in Pads, NEW sad \in Sads, NEW b \in BOOLEAN,
             open_dev_ioctl(pad, sad, b)
      PROVE  ScalarsOK' /\ UNCHANGED link_thread
  <2>1. CASE OpenNew(pad, sad, b)
    <3>1. Len(m_descriptors) \in Int
      BY <1>1
    <3>2. reply' \in Replies
      BY <2>1, <3>1, ReplyType DEF OpenNew
    <3>3. QED
      BY <1>1, <2>1, <3>2 DEF OpenNew, ScalarsOK
  <2>2. CASE OpenShared(pad, sad)
    <3>1. PICK i \in DescriptorsAt(Address(pad, sad)) :
            reply' = [Ok EXCEPT !.cmd = "open", !.handle = i - 1]
      BY <2>2 DEF OpenShared
    <3>2. i - 1 \in Int
      BY <1>1 DEF DescriptorsAt
    <3>3. reply' \in Replies
      BY <3>1, <3>2, ReplyType
    <3>4. QED
      BY <1>1, <2>2, <3>3 DEF OpenShared, ScalarsOK
  <2>3. QED
    BY <1>2, <2>1, <2>2 DEF open_dev_ioctl
<1>3. ASSUME NEW h \in Handles, close_dev_ioctl(h)
      PROVE  ScalarsOK' /\ UNCHANGED link_thread
  BY <1>1, <1>3, ScalarsRefuse, ReplyType DEF close_dev_ioctl, CloseAt, ScalarsOK
<1>4. ASSUME NEW h \in Handles, NEW pad \in Pads, pad_ioctl(h, pad)
      PROVE  ScalarsOK' /\ UNCHANGED link_thread
  <2>1. CASE Raise \/ Refuse
    BY <1>1, <2>1, ScalarsRefuse
  <2>2. CASE ~NoDescriptor(h) /\ ~OutOfRange(h)
    <3>1. m_descriptors[h + 1].pad \in Nat
      <4>1. m_descriptors[h + 1] \in Descriptor
        BY <1>1, <2>2, LinkAssumption DEF Handles, OutOfRange, NoDescriptor
      <4>2. QED
        BY <4>1, LinkAssumption DEF Descriptor
    <3>2. QED
      BY <1>1, <1>4, <2>1, <2>2, <3>1, ScalarsBoard, ScalarsReaddress
         DEF pad_ioctl, WithDescriptor
  <2>3. QED
    BY <1>4, <2>1, <2>2 DEF pad_ioctl, WithDescriptor
<1>5. ASSUME NEW h \in Handles, NEW sad \in Sads, sad_ioctl(h, sad)
      PROVE  ScalarsOK' /\ UNCHANGED link_thread
  <2>1. sad \in Int
    BY LinkAssumption
  <2>2. QED
    BY <1>1, <1>5, <2>1, ScalarsRefuse, ScalarsBoard, ScalarsReaddress
       DEF sad_ioctl, WithDescriptor
<1>6. ASSUME NEW h \in Handles, transfer_ioctl(h)
      PROVE  ScalarsOK' /\ UNCHANGED link_thread
  BY <1>1, <1>6, ScalarsRefuse, ReplyType DEF transfer_ioctl, WithDescriptor, ScalarsOK
<1>7. ASSUME NEW h \in Handles, NEW mask \in Masks, wait_ioctl(h, mask)
      PROVE  ScalarsOK' /\ UNCHANGED link_thread
  BY <1>1, <1>7, ScalarsRefuse, ReplyType DEF wait_ioctl, WithDescriptor, ScalarsOK
<1>8. ASSUME NEW pad \in Pads, NEW sad \in Sads, serial_poll_ioctl(pad, sad)
      PROVE  ScalarsOK' /\ UNCHANGED link_thread
  BY <1>1, <1>8, ReplyType DEF serial_poll_ioctl, ScalarsOK
<1>9. ASSUME NEW rqs \in SUBSET DOMAIN m_descriptors, serial_poll_all(rqs)
      PROVE  ScalarsOK' /\ UNCHANGED link_thread
  BY <1>1, <1>9, ScalarsRefuse, ReplyType DEF serial_poll_all, ScalarsOK
<1>10. CASE close
  BY <1>1, <1>10, ReplyType DEF close, ScalarsOK
<1>11. CASE IoctlAfterClose
  BY <1>1, <1>11, ScalarsRefuse DEF IoctlAfterClose
<1>12. QED
  BY <1>2, <1>3, <1>4, <1>5, <1>6, <1>7, <1>8, <1>9, <1>10, <1>11 DEF Next

-----------------------------------------------------------------------------
(* The invariant holds when init_gpib_sys has returned. *)
LEMMA Initially == Init => IInv
<1> SUFFICES ASSUME Init PROVE IInv
  OBVIOUS
<1>1. m_descriptors = <<>> /\ \A a : DescriptorsAt(a) = {}
  BY DEF Init, DescriptorsAt
<1>2. Absent \in Device
  BY LinkAssumption DEF Absent, Device
<1>3. TypeOK
  <2>1. reply \in Replies
    BY ReplyType, Zenon DEF Init
  <2>2. m_device_list \in [Addresses -> Device]
    BY <1>2 DEF Init
  <2>3. m_descriptors \in Seq(Descriptor)
    BY <1>1
  <2>4. m_address \in [pad : Nat, sad : Int]
    BY DEF Init
  <2>5. link_thread \in {"executing", "finished"} /\ raised \in BOOLEAN
    BY Zenon DEF Init
  <2>6. QED
    BY <2>1, <2>2, <2>3, <2>4, <2>5 DEF TypeOK
<1>4. Cardinality({}) = 0
  BY FS_EmptySet
<1>5. \A a \in Addresses : m_device_list[a] = Absent
  BY DEF Init
<1>6. Absent.reference_count = 0
  BY DEF Absent
<1>7. RefCountsMatch
  BY <1>1, <1>4, <1>5, <1>6, Zenon DEF RefCountsMatch
<1>8. NoOrphanBytes
  BY <1>5, Zenon DEF NoOrphanBytes
<1>9. QED
  BY <1>3, <1>7, <1>8 DEF IInv

(* Every handler, refused or not, keeps the invariant. *)
LEMMA Inductive == IInv /\ [Next]_vars => IInv'
<1> SUFFICES ASSUME IInv, [Next]_vars PROVE IInv'
  OBVIOUS
<1>1. CASE UNCHANGED vars
  BY <1>1 DEF vars, IInv, TypeOK, RefCountsMatch, NoOrphanBytes, DescriptorsAt
<1>2. CASE Next /\ ~Running
  <2>1. IoctlAfterClose
    BY <1>2 DEF Next, open_dev_ioctl, OpenNew, OpenShared, close_dev_ioctl, pad_ioctl,
         sad_ioctl, transfer_ioctl, wait_ioctl, serial_poll_ioctl, serial_poll_all, close
  <2>2. QED
    BY <2>1, ReplyType DEF IoctlAfterClose, Refuse, IInv, TypeOK, RefCountsMatch,
         NoOrphanBytes, DescriptorsAt
<1>3. CASE Next /\ Running
  <2>1. Consistent(m_descriptors, m_device_list) /\ TypeOK
    BY <1>3, RunningConsistent DEF IInv
  <2>2. ScalarsOK' /\ (link_thread' = link_thread \/ close)
    BY <1>3, <2>1, ScalarsStep
  <2>3. CASE close
    <3>1. /\ m_descriptors' \in Seq(Descriptor)
          /\ m_device_list' \in [Addresses -> Device]
      BY <2>1, <2>3, StepCleanup DEF close
    <3>2. link_thread' = "finished"
      BY <2>3 DEF close
    <3>3. QED
      BY <2>2, <3>1, <3>2 DEF IInv, TypeOK, ScalarsOK, RefCountsMatch, NoOrphanBytes
  <2>4. CASE ~close
    <3>1. Keeps
      BY <1>3, <2>1, <2>4, StepOpen, StepClose, StepPad, StepSad, StepTransfer,
         StepWait, StepPoll, StepPollAll DEF Next, IoctlAfterClose, Running
    <3>2. QED
      BY <2>2, <3>1 DEF Keeps, Consistent, IInv, TypeOK, ScalarsOK, RefCountsMatch,
         NoOrphanBytes, DescriptorsAt, At
  <2>5. QED
    BY <2>3, <2>4
<1>4. QED
  BY <1>1, <1>2, <1>3

(* The inductive invariant holds in every reachable state, whatever ioctls the
   clients send and in whatever order. *)
THEOREM Invariance == Spec => []IInv
  BY Initially, Inductive, PTL DEF Spec

(* Type correctness, for every set of addresses and every bound: no status   *)
(* queue passes its limit and no reference count becomes negative, not even  *)
(* in the board's own clean-up.                                              *)
THEOREM TypeCorrect == Spec => []TypeOK
<1>1. IInv => TypeOK
  BY DEF IInv
<1>2. QED
  BY <1>1, Invariance, PTL

(* The reference counts of the device list always match the descriptors.     *)
THEOREM RefCountsCorrect == Spec => []RefCountsMatch
<1>1. IInv => RefCountsMatch
  BY DEF IInv
<1>2. QED
  BY <1>1, Invariance, PTL

(* No address that nobody has open keeps status bytes.                       *)
THEOREM NoOrphans == Spec => []NoOrphanBytes
<1>1. IInv => NoOrphanBytes
  BY DEF IInv
<1>2. QED
  BY <1>1, Invariance, PTL

-----------------------------------------------------------------------------
(* The status bytes of an address that two descriptors share.                *)

(* Taking one descriptor off the counts leaves them alone: it is not the     *)
(* last one.                                                                 *)
LEMMA SharedDecrement ==
  ASSUME NEW s, NEW list, Consistent(s, list), NEW i \in 1 .. Len(s),
         NEW a \in Addresses, Cardinality(At(s, a)) > 1
  PROVE  decrement_open_device_count(list, AddressOf(s[i]))[a].num_status_bytes
           = list[a].num_status_bytes
<1> DEFINE b == AddressOf(s[i])
<1>1. list \in [Addresses -> Device] /\ b \in Addresses
  BY CanClose DEF Consistent
<1>2. list[a] \in Device /\ list[a].reference_count > 1
  BY <1>1 DEF Consistent
<1>3. CASE a = b
  <2>1. decrement_open_device_count(list, b)[a] = [list[a] EXCEPT !.reference_count = @ - 1]
    BY <1>1, <1>2, <1>3 DEF decrement_open_device_count, subtract_open_device_count
  <2>2. QED
    BY <1>2, <2>1 DEF Device
<1>4. CASE a # b
  BY <1>1, <1>4 DEF decrement_open_device_count, subtract_open_device_count
<1>5. QED
  BY <1>3, <1>4

(* Counting an opening leaves them alone. *)
LEMMA SharedIncrement ==
  ASSUME NEW list \in [Addresses -> Device], NEW b \in Addresses, NEW a \in Addresses
  PROVE  increment_open_device_count(list, b)[a].num_status_bytes
           = list[a].num_status_bytes
  BY DEF increment_open_device_count, Device

(* Giving a descriptor another address leaves them alone. *)
LEMMA SharedReaddress ==
  ASSUME Consistent(m_descriptors, m_device_list), NEW i \in 1 .. Len(m_descriptors),
         NEW d \in Descriptor, Readdress(i, d),
         NEW a \in Addresses, Cardinality(At(m_descriptors, a)) > 1
  PROVE  m_device_list'[a].num_status_bytes = m_device_list[a].num_status_bytes
<1> DEFINE mid == decrement_open_device_count(m_device_list, AddressOf(m_descriptors[i]))
<1>1. CanSubtract(m_device_list, AddressOf(m_descriptors[i]), 1)
  BY CanClose
<1>2. m_device_list' = increment_open_device_count(mid, AddressOf(d))
  BY <1>1 DEF Readdress
<1>3. mid \in [Addresses -> Device]
  BY Decremented
<1>4. mid[a].num_status_bytes = m_device_list[a].num_status_bytes
  BY SharedDecrement
<1> HIDE DEF mid
<1>5. AddressOf(d) \in Addresses
  BY AddressType
<1>6. QED
  BY <1>2, <1>3, <1>4, <1>5, SharedIncrement

(* A handle that names a descriptor. *)
LEMMA HandleIndex ==
  ASSUME Consistent(m_descriptors, m_device_list), NEW h \in Handles, h >= 0,
         ~OutOfRange(h)
  PROVE  h + 1 \in 1 .. Len(m_descriptors) /\ m_descriptors[h + 1] \in Descriptor
  BY LinkAssumption DEF Handles, OutOfRange, Consistent

(* Only a serial poll takes a byte off such a queue, and only one.           *)
LEMMA SharedStep ==
  ASSUME Consistent(m_descriptors, m_device_list), Next, ~close,
         NEW a \in Addresses, Cardinality(At(m_descriptors, a)) > 1
  PROVE  m_device_list'[a].num_status_bytes >= m_device_list[a].num_status_bytes - 1
<1>1. m_device_list \in [Addresses -> Device] /\ m_device_list[a] \in Device
  BY DEF Consistent
<1>2. m_device_list[a].num_status_bytes \in Nat
      /\ m_device_list[a].num_status_bytes <= MaxStatusBytes
  BY <1>1, LinkAssumption DEF Device
<1>3. ASSUME m_device_list'[a].num_status_bytes = m_device_list[a].num_status_bytes
      PROVE  m_device_list'[a].num_status_bytes >= m_device_list[a].num_status_bytes - 1
  BY <1>2, <1>3
<1>4. ASSUME Raise \/ Refuse \/ UNCHANGED m_device_list
      PROVE  m_device_list'[a].num_status_bytes = m_device_list[a].num_status_bytes
  BY <1>4 DEF Raise, Refuse
<1>5. ASSUME NEW pad \in Pads, NEW sad \in Sads, NEW b \in BOOLEAN,
             open_dev_ioctl(pad, sad, b)
      PROVE  m_device_list'[a].num_status_bytes = m_device_list[a].num_status_bytes
  <2>1. Address(pad, sad) \in Addresses
    BY DEF Addresses
  <2>2. \/ UNCHANGED m_device_list
        \/ m_device_list' = increment_open_device_count(m_device_list, Address(pad, sad))
    BY <1>5 DEF open_dev_ioctl, OpenNew, OpenShared, tables
  <2>3. QED
    BY <1>1, <1>4, <2>1, <2>2, SharedIncrement
<1>6. ASSUME NEW h \in Handles, close_dev_ioctl(h)
      PROVE  m_device_list'[a].num_status_bytes = m_device_list[a].num_status_bytes
  <2>1. CASE h >= 0 /\ ~OutOfRange(h) /\ CloseAt(h + 1)
    <3>1. h + 1 \in 1 .. Len(m_descriptors)
      BY <2>1, HandleIndex
    <3>2. \/ Refuse
          \/ m_device_list' = decrement_open_device_count(m_device_list,
                                AddressOf(m_descriptors[h + 1]))
      BY <2>1 DEF CloseAt
    <3>3. QED
      BY <1>4, <3>1, <3>2, SharedDecrement
  <2>2. QED
    BY <1>4, <1>6, <2>1 DEF close_dev_ioctl
<1>7. ASSUME NEW h \in Handles, NEW pad \in Pads, pad_ioctl(h, pad)
      PROVE  m_device_list'[a].num_status_bytes = m_device_list[a].num_status_bytes
  <2>1. CASE ~NoDescriptor(h) /\ ~OutOfRange(h)
    <3>1. h + 1 \in 1 .. Len(m_descriptors) /\ m_descriptors[h + 1] \in Descriptor
      BY <2>1, HandleIndex, LinkAssumption DEF NoDescriptor, Handles
    <3>2. [m_descriptors[h + 1] EXCEPT !.pad = pad] \in Descriptor
      BY <3>1 DEF Descriptor
    <3>3. \/ Refuse \/ UNCHANGED m_device_list
          \/ Readdress(h + 1, [m_descriptors[h + 1] EXCEPT !.pad = pad])
      BY <1>7, <2>1 DEF pad_ioctl, WithDescriptor, ibpad, SetBoardAddress, tables, Raise
    <3>4. QED
      BY <1>4, <3>1, <3>2, <3>3, SharedReaddress
  <2>2. QED
    BY <1>4, <1>7, <2>1 DEF pad_ioctl, WithDescriptor
<1>8. ASSUME NEW h \in Handles, NEW sad \in Sads, sad_ioctl(h, sad)
      PROVE  m_device_list'[a].num_status_bytes = m_device_list[a].num_status_bytes
  <2>1. CASE ~NoDescriptor(h) /\ ~OutOfRange(h)
    <3>1. h + 1 \in 1 .. Len(m_descriptors) /\ m_descriptors[h + 1] \in Descriptor
      BY <2>1, HandleIndex, LinkAssumption DEF NoDescriptor, Handles
    <3>2. [m_descriptors[h + 1] EXCEPT !.sad = sad] \in Descriptor
      BY <3>1 DEF Descriptor
    <3>3. \/ Refuse \/ UNCHANGED m_device_list
          \/ Readdress(h + 1, [m_descriptors[h + 1] EXCEPT !.sad = sad])
      BY <1>8, <2>1 DEF sad_ioctl, WithDescriptor, ibsad, SetBoardAddress, tables, Raise
    <3>4. QED
      BY <1>4, <3>1, <3>2, <3>3, SharedReaddress
  <2>2. QED
    BY <1>4, <1>8, <2>1 DEF sad_ioctl, WithDescriptor
<1>9. ASSUME NEW h \in Handles, transfer_ioctl(h) \/ \E mask \in Masks : wait_ioctl(h, mask)
      PROVE  m_device_list'[a].num_status_bytes = m_device_list[a].num_status_bytes
  BY <1>4, <1>9 DEF transfer_ioctl, wait_ioctl, WithDescriptor, Raise, Refuse
<1>10. ASSUME NEW pad \in Pads, NEW sad \in Sads, serial_poll_ioctl(pad, sad)
       PROVE  m_device_list'[a].num_status_bytes >= m_device_list[a].num_status_bytes - 1
  <2> DEFINE b == Address(pad, sad)
  <2>1. b \in Addresses /\ m_device_list[b] \in Device
    BY <1>1 DEF Addresses
  <2> HIDE DEF b
  <2>2. CASE m_device_list' = [m_device_list EXCEPT ![b].num_status_bytes = @ - 1]
    <3>1. CASE a = b
      <4>1. m_device_list'[a] = [m_device_list[a] EXCEPT !.num_status_bytes = @ - 1]
        BY <1>1, <2>2, <3>1
      <4>2. m_device_list'[a].num_status_bytes = m_device_list[a].num_status_bytes - 1
        BY <1>1, <4>1 DEF Device
      <4>3. QED
        BY <1>2, <4>2
    <3>2. CASE a # b
      BY <1>1, <1>2, <2>2, <3>2
    <3>3. QED
      BY <3>1, <3>2
  <2>3. QED
    BY <1>3, <1>4, <1>10, <2>2 DEF serial_poll_ioctl, b
<1>11. ASSUME NEW rqs \in SUBSET DOMAIN m_descriptors, serial_poll_all(rqs)
       PROVE  m_device_list'[a].num_status_bytes >= m_device_list[a].num_status_bytes - 1
  <2>1. CASE m_device_list' = [c \in Addresses |->
               [m_device_list[c] EXCEPT !.num_status_bytes =
                  AtMost(@ + Pushed(rqs, c), MaxStatusBytes)]]
    <3>1. Pushed(rqs, a) \in Nat
      BY PushedType
    <3>2. m_device_list'[a].num_status_bytes =
            AtMost(m_device_list[a].num_status_bytes + Pushed(rqs, a), MaxStatusBytes)
      BY <1>1, <2>1 DEF Device
    <3>3. QED
      BY <1>2, <3>1, <3>2, LinkAssumption DEF AtMost
  <2>2. QED
    BY <1>3, <1>4, <1>11, <2>1 DEF serial_poll_all
<1>12. QED
  BY <1>3, <1>4, <1>5, <1>6, <1>7, <1>8, <1>9, <1>10, <1>11 DEF Next, IoctlAfterClose

(* While two descriptors share an address, closing or moving one of them     *)
(* does not take the queued status bytes away: only a serial poll takes one. *)
THEOREM SharedBytesKept == Spec => SharedQueueSurvives
<1>1. IInv /\ [Next]_vars => [KeepsSharedBytes]_vars
  <2> SUFFICES ASSUME IInv, Next, NEW a \in Addresses,
                      Cardinality(DescriptorsAt(a)) > 1, link_thread' = "executing"
               PROVE  m_device_list'[a].num_status_bytes
                        >= m_device_list[a].num_status_bytes - 1
    BY DEF KeepsSharedBytes
  <2>1. ~close /\ Cardinality(At(m_descriptors, a)) > 1
    BY DEF close, At, DescriptorsAt
  <2>2. CASE Running
    <3>1. Consistent(m_descriptors, m_device_list)
      BY <2>2, RunningConsistent
    <3>2. QED
      BY <2>1, <3>1, SharedStep
  <2>3. CASE ~Running
    <3>1. IoctlAfterClose
      BY <2>3 DEF Next, open_dev_ioctl, OpenNew, OpenShared, close_dev_ioctl, pad_ioctl,
           sad_ioctl, transfer_ioctl, wait_ioctl, serial_poll_ioctl, serial_poll_all, close
    <3>2. link_thread' # "executing"
      BY <3>1 DEF IoctlAfterClose, Refuse
    <3>3. QED
      BY <3>2
  <2>4. QED
    BY <2>2, <2>3
<1>2. QED
  BY <1>1, Invariance, PTL DEF Spec, SharedQueueSurvives
==============================================================================
