-------------------------- MODULE ClusterAllocator --------------------------
(***************************************************************************)
(* What the swap-space bitmap promises to the rest of the kernel: first    *)
(* fit.  A page gets the lowest usable cluster that is not in use, and a   *)
(* released cluster can be handed out again.  Nothing is said of how the   *)
(* free cluster is found.                                                  *)
(*                                                                         *)
(* The promise ends when no usable cluster is left: the code then returns  *)
(* an unspecified number, which may name a cluster that is in use or one   *)
(* that does not exist.                                                    *)
(***************************************************************************)
EXTENDS Integers

CONSTANTS
  BitsPerByte,  \* bits in one element of the map; 8 in the code
  NumClusters   \* what the partition reports; sizeInBits

Clusters == 0 .. NumClusters - 1

\* The allocator reads only NumClusters % BitsPerByte bits of the last byte,
\* so the whole last byte is lost when that is zero.
SizeInBytes ==
  NumClusters \div BitsPerByte + (IF NumClusters % BitsPerByte # 0 THEN 1 ELSE 0)

Usable ==
  {c \in Clusters : c \div BitsPerByte < SizeInBytes - 1
                      \/ c % BitsPerByte < NumClusters % BitsPerByte}

\* c is the cluster a request gets while inUse is taken: the first fit, or
\* any number at all when nothing usable is free.  NumClusters stands for
\* every number that names no cluster.
FirstFit(inUse, c) ==
  IF Usable \subseteq inUse
    THEN c \in 0 .. NumClusters
    ELSE /\ c \in Usable \ inUse
         /\ \A d \in Usable \ inUse : c <= d

VARIABLE inUse

Init == inUse = {}

Grab == \E c \in 0 .. NumClusters :
          /\ FirstFit(inUse, c)
          /\ inUse' = inUse \union ({c} \intersect Clusters)

Release == \E c \in Clusters : inUse' = inUse \ {c}

Next == Grab \/ Release

Spec == Init /\ [][Next]_inUse
=============================================================================
