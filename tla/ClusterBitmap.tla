---------------------------- MODULE ClusterBitmap ----------------------------
(***************************************************************************)
(* The bitmap of the swap partition's clusters (bitmap.cpp) as the kernel  *)
(* drives it: allocateClusterForPage is getFreeCluster followed by         *)
(* setBit(num, true) under the global mutex, and deleteSegment and the     *)
(* process destructor call setBit(num, false).                             *)
(*                                                                         *)
(* The search starts at the byte lastFree, a hint that only a release      *)
(* lowers.  A hint that ran ahead of a free cluster would lose that        *)
(* cluster for good: HintSound says it never does.                         *)
(***************************************************************************)
EXTENDS Integers

CONSTANTS BitsPerByte, NumClusters

VARIABLES
  map,       \* the set of clusters whose bit is 1
  lastFree   \* index of the byte where the next search starts

vars == <<map, lastFree>>

A == INSTANCE ClusterAllocator WITH inUse <- map

ASSUME BitmapSizeAssumption ==
  /\ BitsPerByte \in Nat \ {0}
  /\ NumClusters \in Nat \ {0}

Clusters == 0 .. NumClusters - 1
SizeInBytes ==
  NumClusters \div BitsPerByte + (IF NumClusters % BitsPerByte # 0 THEN 1 ELSE 0)
Bytes == 0 .. SizeInBytes - 1

\* The numbers the inner loop tries in byte i.
BitsScanned(i) ==
  IF i = SizeInBytes - 1 THEN 0 .. (NumClusters % BitsPerByte) - 1
                         ELSE 0 .. BitsPerByte - 1

FreeBits(i) == {j \in BitsScanned(i) : i * BitsPerByte + j \notin map}

-----------------------------------------------------------------------------
Init == map = {} /\ lastFree = 0

\* Mutated: any number is taken for a cluster.
SetAnyBit(num) == map' = map \union {num}

\* setBit, which ignores a number that names no cluster.
SetBit(num) == map' = map \union ({num} \intersect Clusters)

\* Mutated: clearing a bit leaves the hint where it was.
ClearBitKeepsHint(num) == map' = map \ {num} /\ UNCHANGED lastFree

ClearBit(num) ==
  /\ map' = map \ {num}
  /\ lastFree' = IF num \div BitsPerByte < lastFree THEN num \div BitsPerByte
                                                    ELSE lastFree

\* Mutated: the search does not look at the byte the hint names.
StopsAfterHint(i) ==
  /\ i > lastFree
  /\ FreeBits(i) # {}
  /\ \A k \in Bytes : lastFree < k /\ k < i => FreeBits(k) = {}

\* The search stops in the first byte from lastFree on that has a free bit.
StopsAt(i) ==
  /\ i >= lastFree
  /\ FreeBits(i) # {}
  /\ \A k \in Bytes : lastFree <= k /\ k < i => FreeBits(k) = {}

Allocate ==
  \E i \in Bytes :
    /\ StopsAt(i)
    /\ \E j \in FreeBits(i) :
         /\ \A l \in FreeBits(i) : j <= l
         /\ SetBit(i * BitsPerByte + j)
    /\ lastFree' = i

\* The loop runs off the last byte and the function ends without a return:
\* the caller sets the bit of whatever number it is handed.
AllocateExhausted ==
  /\ \A i \in Bytes : i >= lastFree => FreeBits(i) = {}
  /\ \E num \in 0 .. NumClusters : SetBit(num)
  /\ UNCHANGED lastFree

\* Also of a cluster that is already free: a segment that was loaded only in
\* part is deleted with cluster number 0 in the pages that were never set up.
Free == \E num \in Clusters : ClearBit(num)

Next == Allocate \/ AllocateExhausted \/ Free

Spec == Init /\ [][Next]_vars

-----------------------------------------------------------------------------
\* The map holds bits of clusters and the hint names a byte (bitmap.h:13-16).
TypeOK == map \subseteq Clusters /\ lastFree \in Bytes

\* No usable free cluster lies in a byte before the hint, so a search that
\* starts there misses nothing (bitmap.cpp:16, 26 and 44).
HintSound == \A c \in A!Usable \ map : c \div BitsPerByte >= lastFree

\* The search with the hint is first fit: what getFreeCluster hands out is the
\* lowest usable cluster that is free (bitmap.cpp:14-30).
FirstFitSpec == A!Spec
=============================================================================
