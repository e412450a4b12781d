------------------------ MODULE ClusterBitmapProofs ------------------------
(***************************************************************************)
(* For every size of the map and of its bytes: the hint of the search is   *)
(* sound, and with it the bitmap implements first-fit allocation.          *)
(***************************************************************************)
EXTENDS ClusterBitmap, TLAPS

\* A number is its byte times the size of a byte, and its place in the byte.
LEMMA ByteAndBit ==
  ASSUME NEW c \in Nat
  PROVE  /\ c \div BitsPerByte \in Nat
         /\ c % BitsPerByte \in 0 .. BitsPerByte - 1
         /\ c = (c \div BitsPerByte) * BitsPerByte + (c % BitsPerByte)
BY BitmapSizeAssumption

LEMMA BitOfByte ==
  ASSUME NEW i \in Nat, NEW j \in 0 .. BitsPerByte - 1
  PROVE  /\ i * BitsPerByte + j \in Nat
         /\ (i * BitsPerByte + j) \div BitsPerByte = i
         /\ (i * BitsPerByte + j) % BitsPerByte = j
BY BitmapSizeAssumption

LEMMA SizeInBytesType == SizeInBytes \in Nat \ {0}
<1>1. NumClusters \div BitsPerByte \in Nat
      /\ NumClusters = (NumClusters \div BitsPerByte) * BitsPerByte
                         + (NumClusters % BitsPerByte)
  BY BitmapSizeAssumption, ByteAndBit
<1>2. CASE NumClusters % BitsPerByte = 0
  <2>1. NumClusters \div BitsPerByte # 0
    BY <1>1, <1>2, BitmapSizeAssumption
  <2> QED BY <1>1, <1>2, <2>1 DEF SizeInBytes
<1>3. CASE NumClusters % BitsPerByte # 0
  BY <1>1, <1>3 DEF SizeInBytes
<1> QED BY <1>2, <1>3

LEMMA BitsScannedType ==
  ASSUME NEW i \in Bytes
  PROVE  BitsScanned(i) \subseteq 0 .. BitsPerByte - 1
BY BitmapSizeAssumption, ByteAndBit DEF BitsScanned

\* The bits the search looks at, over all bytes, are the usable clusters.
LEMMA ScannedIsUsable ==
  ASSUME NEW i \in Bytes, NEW j \in BitsScanned(i)
  PROVE  i * BitsPerByte + j \in A!Usable
<1>1. i \in Nat /\ j \in 0 .. BitsPerByte - 1
  BY SizeInBytesType, BitsScannedType DEF Bytes
<1> DEFINE c == i * BitsPerByte + j
<1>2. c \in Nat /\ c \div BitsPerByte = i /\ c % BitsPerByte = j
  BY <1>1, BitOfByte
<1>3. NumClusters = (NumClusters \div BitsPerByte) * BitsPerByte
                      + (NumClusters % BitsPerByte)
      /\ NumClusters \div BitsPerByte \in Nat
      /\ NumClusters % BitsPerByte \in 0 .. BitsPerByte - 1
  BY BitmapSizeAssumption, ByteAndBit
<1>4. CASE i = SizeInBytes - 1
  <2>1. j < NumClusters % BitsPerByte
    BY <1>1, <1>3, <1>4 DEF BitsScanned
  <2>2. i = NumClusters \div BitsPerByte
    BY <1>3, <1>4, <2>1, <1>1 DEF SizeInBytes
  <2>3. c < NumClusters
    BY <1>1, <1>3, <2>1, <2>2, BitmapSizeAssumption
  <2> QED BY <1>2, <2>1, <2>3, BitmapSizeAssumption DEF A!Usable, A!Clusters
<1>5. CASE i # SizeInBytes - 1
  <2>1. i < SizeInBytes - 1
    BY <1>1, <1>5, SizeInBytesType DEF Bytes
  <2>2. i + 1 <= NumClusters \div BitsPerByte
    BY <1>1, <1>3, <2>1 DEF SizeInBytes
  <2>3. (i + 1) * BitsPerByte <= (NumClusters \div BitsPerByte) * BitsPerByte
    BY <1>1, <1>3, <2>2, BitmapSizeAssumption
  <2>4. c < NumClusters
    BY <1>1, <1>3, <2>3, BitmapSizeAssumption
  <2> QED BY <1>2, <2>1, <2>4, BitmapSizeAssumption, SizeInBytesType
            DEF A!Usable, A!Clusters, A!SizeInBytes, SizeInBytes
<1> QED BY <1>4, <1>5

LEMMA UsableIsScanned ==
  ASSUME NEW c \in A!Usable
  PROVE  /\ c \in Nat
         /\ c \div BitsPerByte \in Bytes
         /\ c % BitsPerByte \in BitsScanned(c \div BitsPerByte)
<1>1. c \in Nat /\ c < NumClusters
  BY BitmapSizeAssumption DEF A!Usable, A!Clusters
<1>2. /\ c \div BitsPerByte \in Nat
      /\ c % BitsPerByte \in 0 .. BitsPerByte - 1
      /\ c = (c \div BitsPerByte) * BitsPerByte + (c % BitsPerByte)
  BY <1>1, ByteAndBit
<1>3. c \div BitsPerByte <= NumClusters \div BitsPerByte
  BY <1>1, BitmapSizeAssumption
<1>4. /\ NumClusters \div BitsPerByte \in Nat
      /\ NumClusters % BitsPerByte \in 0 .. BitsPerByte - 1
      /\ NumClusters = (NumClusters \div BitsPerByte) * BitsPerByte
                         + (NumClusters % BitsPerByte)
  BY BitmapSizeAssumption, ByteAndBit
<1>5. c \div BitsPerByte < SizeInBytes
  <2>1. CASE NumClusters % BitsPerByte = 0
    <3>1. NumClusters = (NumClusters \div BitsPerByte) * BitsPerByte
      BY <1>4, <2>1, BitmapSizeAssumption
    <3>2. c \div BitsPerByte # NumClusters \div BitsPerByte
      BY <1>1, <1>2, <3>1, BitmapSizeAssumption
    <3> QED BY <1>2, <1>3, <1>4, <2>1, <3>2 DEF SizeInBytes
  <2>2. CASE NumClusters % BitsPerByte # 0
    BY <1>2, <1>3, <1>4, <2>2 DEF SizeInBytes
  <2> QED BY <2>1, <2>2
<1>6. \/ c \div BitsPerByte < SizeInBytes - 1
      \/ c % BitsPerByte < NumClusters % BitsPerByte
  BY DEF A!Usable, A!SizeInBytes, SizeInBytes
<1>7. c % BitsPerByte \in BitsScanned(c \div BitsPerByte)
  <2>1. CASE c \div BitsPerByte = SizeInBytes - 1
    <3>1. c % BitsPerByte < NumClusters % BitsPerByte
      BY <1>2, <1>6, <2>1, SizeInBytesType
    <3> QED BY <1>2, <1>4, <2>1, <3>1, BitmapSizeAssumption DEF BitsScanned
  <2>2. CASE c \div BitsPerByte # SizeInBytes - 1
    BY <1>2, <2>2 DEF BitsScanned
  <2> QED BY <2>1, <2>2
<1> QED BY <1>1, <1>2, <1>5, <1>7, SizeInBytesType DEF Bytes

-----------------------------------------------------------------------------
IInv == TypeOK /\ HintSound

LEMMA InitIInv == Init => IInv
<1> SUFFICES ASSUME Init PROVE IInv
  OBVIOUS
<1>1. TypeOK
  BY SizeInBytesType DEF Init, TypeOK, Bytes
<1>2. HintSound
  <2> SUFFICES ASSUME NEW c \in A!Usable
               PROVE  c \div BitsPerByte >= lastFree
    BY DEF HintSound
  <2> QED BY UsableIsScanned DEF Init, Bytes
<1> QED BY <1>1, <1>2 DEF IInv

\* What the search stops at is the first fit among the usable clusters.
LEMMA SearchIsFirstFit ==
  ASSUME IInv, NEW i \in Bytes, StopsAt(i),
         NEW j \in FreeBits(i), \A l \in FreeBits(i) : j <= l
  PROVE  /\ i * BitsPerByte + j \in A!Usable \ map
         /\ \A d \in A!Usable \ map : d \div BitsPerByte >= i
         /\ \A d \in A!Usable \ map : i * BitsPerByte + j <= d
<1>1. i * BitsPerByte + j \in A!Usable \ map
  BY ScannedIsUsable DEF FreeBits
<1>2. ASSUME NEW d \in A!Usable \ map
      PROVE  d \div BitsPerByte >= i /\ i * BitsPerByte + j <= d
  <2> DEFINE k == d \div BitsPerByte
             l == d % BitsPerByte
  <2>1. /\ d \in Nat /\ k \in Bytes /\ k \in Nat /\ l \in BitsScanned(k)
        /\ l \in 0 .. BitsPerByte - 1
        /\ d = k * BitsPerByte + l
    BY UsableIsScanned, ByteAndBit
  <2>2. l \in FreeBits(k)
    BY <2>1 DEF FreeBits
  <2>3. lastFree <= k
    BY <2>1 DEF IInv, HintSound, TypeOK, Bytes
  <2>4. i \in Nat /\ j \in 0 .. BitsPerByte - 1
    BY BitsScannedType, SizeInBytesType DEF FreeBits, Bytes
  <2>5. k >= i
    BY <2>1, <2>2, <2>3, <2>4 DEF StopsAt
  <2>6. CASE k = i
    BY <2>1, <2>2, <2>4, <2>6, BitmapSizeAssumption
  <2>7. CASE k > i
    <3>1. k * BitsPerByte >= (i + 1) * BitsPerByte
      BY <2>1, <2>4, <2>7, BitmapSizeAssumption
    <3> QED BY <2>1, <2>4, <2>7, <3>1, BitmapSizeAssumption
  <2> QED BY <2>1, <2>4, <2>5, <2>6, <2>7
<1> QED BY <1>1, <1>2

\* When the search finds nothing, nothing usable is free.
LEMMA ExhaustedIsFull ==
  ASSUME IInv, \A i \in Bytes : i >= lastFree => FreeBits(i) = {}
  PROVE  A!Usable \subseteq map
<1> SUFFICES ASSUME NEW c \in A!Usable, c \notin map PROVE FALSE
  OBVIOUS
<1>1. c \div BitsPerByte >= lastFree
  BY DEF IInv, HintSound
<1>2. c % BitsPerByte \in FreeBits(c \div BitsPerByte)
  BY UsableIsScanned, ByteAndBit DEF FreeBits
<1> QED BY <1>1, <1>2, UsableIsScanned

LEMMA NextIInv == IInv /\ [Next]_vars => IInv'
<1> SUFFICES ASSUME IInv, [Next]_vars PROVE IInv'
  OBVIOUS
<1>1. CASE Allocate
  <2>1. PICK i \in Bytes : /\ StopsAt(i)
                           /\ \E j \in FreeBits(i) :
                                /\ \A l \in FreeBits(i) : j <= l
                                /\ SetBit(i * BitsPerByte + j)
                           /\ lastFree' = i
    BY <1>1 DEF Allocate
  <2>2. PICK j \in FreeBits(i) : /\ \A l \in FreeBits(i) : j <= l
                                 /\ SetBit(i * BitsPerByte + j)
    BY <2>1
  <2>3. TypeOK'
    BY <2>1, <2>2 DEF IInv, TypeOK, SetBit
  <2>4. \A d \in A!Usable \ map : d \div BitsPerByte >= i
    BY <2>1, <2>2, SearchIsFirstFit
  <2>5. HintSound'
    BY <2>1, <2>2, <2>4 DEF HintSound, SetBit
  <2> QED BY <2>3, <2>5 DEF IInv
<1>2. CASE AllocateExhausted
  BY <1>2 DEF AllocateExhausted, SetBit, IInv, TypeOK, HintSound
<1>3. CASE Free
  <2>1. PICK num \in Clusters : ClearBit(num)
    BY <1>3 DEF Free
  <2>2. num \in Nat /\ num \div BitsPerByte \in Nat
    BY ByteAndBit, BitmapSizeAssumption DEF Clusters
  <2>3. TypeOK'
    BY <2>1, <2>2, SizeInBytesType DEF IInv, TypeOK, ClearBit, Bytes
  <2>4. HintSound'
    <3> SUFFICES ASSUME NEW c \in A!Usable, c \notin map'
                 PROVE  c \div BitsPerByte >= lastFree'
      BY DEF HintSound
    <3>1. c \div BitsPerByte \in Nat /\ lastFree \in Nat
      BY UsableIsScanned, SizeInBytesType DEF Bytes, IInv, TypeOK
    <3>2. CASE c = num
      BY <2>1, <2>2, <3>1, <3>2 DEF ClearBit
    <3>3. CASE c # num
      BY <2>1, <2>2, <3>1, <3>3 DEF ClearBit, IInv, HintSound
    <3> QED BY <3>2, <3>3
  <2> QED BY <2>3, <2>4 DEF IInv
<1>4. CASE UNCHANGED vars
  BY <1>4 DEF vars, IInv, TypeOK, HintSound
<1> QED BY <1>1, <1>2, <1>3, <1>4 DEF Next

\* The map only ever holds bits of clusters and the hint names a byte of it
\* (bitmap.cpp:32-46).
THEOREM TypeCorrect == Spec => []TypeOK
<1>1. IInv => TypeOK
  BY DEF IInv
<1> QED BY InitIInv, NextIInv, <1>1, PTL DEF Spec

\* The search never starts past a usable cluster that is free
\* (bitmap.cpp:16, 26 and 44-45).
THEOREM HintIsSound == Spec => []HintSound
<1>1. IInv => HintSound
  BY DEF IInv
<1> QED BY InitIInv, NextIInv, <1>1, PTL DEF Spec

\* The bitmap with its hint hands out what first fit would, for every size of
\* the partition (bitmap.cpp:14-30).
THEOREM ImplementsFirstFit == Spec => FirstFitSpec
<1>1. Init => A!Init
  BY DEF Init, A!Init
<1>2. IInv /\ [Next]_vars => [A!Next]_map
  <2> SUFFICES ASSUME IInv, [Next]_vars PROVE A!Next \/ map' = map
    OBVIOUS
  <2>1. CASE Allocate
    <3>1. PICK i \in Bytes : /\ StopsAt(i)
                             /\ \E j \in FreeBits(i) :
                                  /\ \A l \in FreeBits(i) : j <= l
                                  /\ SetBit(i * BitsPerByte + j)
      BY <2>1 DEF Allocate
    <3>2. PICK j \in FreeBits(i) : /\ \A l \in FreeBits(i) : j <= l
                                   /\ SetBit(i * BitsPerByte + j)
      BY <3>1
    <3> DEFINE c == i * BitsPerByte + j
    <3>3. c \in A!Usable \ map /\ \A d \in A!Usable \ map : c <= d
      BY <3>1, <3>2, SearchIsFirstFit
    <3>4. c \in 0 .. NumClusters
      BY <3>3, BitmapSizeAssumption DEF A!Usable, A!Clusters
    <3>5. A!FirstFit(map, c)
      BY <3>3 DEF A!FirstFit
    <3>6. map' = map \union ({c} \intersect A!Clusters)
      BY <3>2 DEF SetBit, Clusters, A!Clusters
    <3> QED BY <3>4, <3>5, <3>6 DEF A!Next, A!Grab
  <2>2. CASE AllocateExhausted
    <3>1. PICK num \in 0 .. NumClusters : SetBit(num)
      BY <2>2 DEF AllocateExhausted
    <3>2. A!FirstFit(map, num)
      BY <2>2, ExhaustedIsFull DEF AllocateExhausted, A!FirstFit
    <3> QED BY <3>1, <3>2 DEF SetBit, Clusters, A!Clusters, A!Next, A!Grab
  <2>3. CASE Free
    BY <2>3 DEF Free, ClearBit, A!Next, A!Release, Clusters, A!Clusters
  <2>4. CASE UNCHANGED vars
    BY <2>4 DEF vars
  <2> QED BY <2>1, <2>2, <2>3, <2>4 DEF Next
<1> QED BY InitIInv, NextIInv, <1>1, <1>2, PTL DEF Spec, A!Spec, FirstFitSpec
=============================================================================
