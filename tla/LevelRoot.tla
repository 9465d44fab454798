------------------------------ MODULE LevelRoot --------------------------------
(***************************************************************************)
(* The level root hash of a block's transactions, src/core/chain/util.go.  *)
(*                                                                         *)
(* BuildLevelRoot hashes the list in groups of hashPerLevel with hash16,   *)
(* three times, and hash16 of the last level is the root.  A hash is a      *)
(* term: hash16 of a group is the group padded with EmptyHash up to         *)
(* hashPerLevel entries.  The appender bytes it interleaves are the same    *)
(* for every call and are left out; DoubleHash is taken to be injective.    *)
(* The list is built one hash at a time, so that every list up to one past  *)
(* the limit is checked against a tree defined the textbook way.           *)
(***************************************************************************)
EXTENDS Naturals, Sequences, FiniteSets

CONSTANTS
  HashPerLevel,  \* hashPerLevel (16)
  Leaves,        \* transaction hashes
  EmptyHash      \* hash.Hash256{}

ASSUME HashPerLevel \in Nat \ {0} /\ EmptyHash \notin Leaves

\* Four levels of hashPerLevel: the 65536 of BuildLevelRoot for 16.
Limit == HashPerLevel ^ 4

Errors == {"ErrExceedHashCount", "ErrInvalidHashCount"}

VARIABLE hashes

MinOf(a, b) == IF a < b THEN a ELSE b

-----------------------------------------------------------------------------
(* The code.                                                               *)

\* hash16, lines 15-35.
Hash16(hs) ==
  IF Len(hs) > HashPerLevel THEN "ErrExceedHashCount"
  ELSE <<"hash16", [i \in 1..HashPerLevel |->
                      IF i <= Len(hs) THEN hs[i] ELSE EmptyHash]>>

\* Fault variant: the level count drops a partial last group.
LevelCountFloor(n) == n \div HashPerLevel

\* LvCnt of buildLevel (lines 38-41).
LevelCount(n) ==
  n \div HashPerLevel + (IF n % HashPerLevel # 0 THEN 1 ELSE 0)

\* buildLevel, lines 37-56.
BuildLevel(hs) ==
  [i \in 1..LevelCount(Len(hs)) |->
     Hash16(SubSeq(hs, (i - 1) * HashPerLevel + 1,
                   MinOf(i * HashPerLevel, Len(hs))))]

\* BuildLevelRoot, lines 58-84.
BuildLevelRoot(hs) ==
  IF Len(hs) > Limit THEN "ErrExceedHashCount"
  ELSE IF Len(hs) = 0 THEN "ErrInvalidHashCount"
  ELSE Hash16(BuildLevel(BuildLevel(BuildLevel(hs))))

-----------------------------------------------------------------------------
(* The reference: a tree of depth 4 and fan-out hashPerLevel over the      *)
(* positions 1..Limit, in which a subtree without leaves is left out of    *)
(* its parent's group.                                                     *)

\* Whether the subtree of node i at depth d (the root is node 1 at depth 0)
\* holds a leaf: its first position is within the list.
HasLeaf(hs, d, i) == (i - 1) * HashPerLevel ^ (4 - d) + 1 <= Len(hs)

RECURSIVE Node(_, _, _)
Node(hs, d, i) ==
  IF d = 4 THEN hs[i]
  ELSE LET kids == {k \in 1..HashPerLevel :
                      HasLeaf(hs, d + 1, (i - 1) * HashPerLevel + k)}
       IN  Hash16([k \in 1..Cardinality(kids) |->
                     Node(hs, d + 1, (i - 1) * HashPerLevel + k)])

TreeRoot(hs) ==
  IF Len(hs) > Limit THEN "ErrExceedHashCount"
  ELSE IF Len(hs) = 0 THEN "ErrInvalidHashCount"
  ELSE Node(hs, 0, 1)

-----------------------------------------------------------------------------
Init == hashes = <<>>

\* The block gets one more transaction.
AddHash(l) ==
  /\ Len(hashes) <= Limit
  /\ hashes' = Append(hashes, l)

Next == \E l \in Leaves : AddHash(l)

Spec == Init /\ [][Next]_hashes

\* BuildLevelRoot computes the root of the padded tree of depth 4 for
\* every count from 0 to one past the limit: each partial group is hashed,
\* no group is split or merged across levels, and counts outside 1..Limit
\* are refused.
LevelRootIsTreeRoot == BuildLevelRoot(hashes) = TreeRoot(hashes)

=============================================================================
