---------------------------- MODULE BuddyProofs ----------------------------
(***************************************************************************)
(* Proofs about BuddyAllocator, for every memory map, number of CPUs and   *)
(* size of the node pool: the blocks partition the memory, free memory is  *)
(* of use, and callers see a frame store.  A step moves a block from one   *)
(* list to another, splits one, merges two or makes one of unseeded        *)
(* memory; each of these four is shown to keep blocks apart and aligned,   *)
(* to lose no frame and to leak no node, and each action to be one of the  *)
(* four.  A second invariant, UseInv, rests on the first.                  *)
(***************************************************************************)
EXTENDS BuddyAllocator, WellFoundedInduction, FiniteSetTheorems, TLAPS

\* What the call in progress may rely on.
CallInv ==
    /\ hand = None <=> call.pc \notin {"split", "merge"}
    /\ call.pc # "idle" => call.cpu \in Cpu
    /\ call.pc = "split" => call.order <= hand.order /\ hand.order - call.order <= unused
    /\ call.pc \in {"take", "drain"} => call.order <= CacheMaxOrder
    /\ call.pc \in {"search", "split"} => call.left >= 1
    /\ unseeded # {} => call = Idle

\* Blocks start at a multiple of their size; every node is a block or unused.
Aligned == \A b \in Blocks : b[2] % block_size(b[3]) = 0
Counted == IsFiniteSet(Blocks) /\ unused + Cardinality(Blocks) = MaxNodes
Exact == Disjoint /\ Covers /\ Aligned /\ Counted

Inv == TypeOK /\ CallInv /\ Exact

-----------------------------------------------------------------------------
(* Blocks *)

\* The size of a block doubles from order to order.
LEMMA SizeFact ==
    ASSUME NEW k \in Order
    PROVE  /\ block_size(k) \in Nat \ {0}
           /\ k > 0 => k - 1 \in Order /\ block_size(k) = 2 * block_size(k - 1)
           /\ k < MaxOrder => k + 1 \in Order /\ block_size(k + 1) = 2 * block_size(k)
  BY OrderAssumption DEF Order

\* The first frame of a block is in it; frames of a block are where they are.
LEMMA ExtentFact ==
    ASSUME NEW s \in Frame, NEW k \in Order
    PROVE  /\ s \in Nat
           /\ s \in Extent(s, k)
           /\ \A f : f \in Extent(s, k) <=> f \in Int /\ s <= f /\ f < s + block_size(k)
  BY MapAssumption, SizeFact DEF Extent

\* Multiples, and halves.
LEMMA Multiple ==
    ASSUME NEW n \in Nat \ {0}, NEW q \in Nat
    PROVE  (n * q) % n = 0 /\ (n * q) \div n = q
OBVIOUS
LEMMA Quotient ==
    ASSUME NEW n \in Nat \ {0}, NEW s \in Nat, s % n = 0
    PROVE  s \div n \in Nat /\ s = n * (s \div n)
OBVIOUS
LEMMA Parity ==
    ASSUME NEW q \in Nat
    PROVE  /\ q % 2 = 0 => \E h \in Nat : q = 2 * h
           /\ q % 2 # 0 => \E h \in Nat : q = 2 * h + 1
           /\ (2 * q) % 2 = 0 /\ (2 * q + 1) % 2 = 1
OBVIOUS
LEMMA Doubled ==
    ASSUME NEW n \in Nat \ {0}, NEW h \in Nat
    PROVE  /\ n * (2 * h) = (2 * n) * h
           /\ n * (2 * h + 1) = (2 * n) * h + n
           /\ 2 * n \in Nat \ {0}
OBVIOUS

\* An aligned block is an even or an odd multiple of its size: its buddy comes
\* after it or before it, is aligned, and has it for a buddy; the first of the
\* two is aligned to twice the size.
LEMMA BuddyAligned ==
    ASSUME NEW k \in Order, NEW s \in Nat, s % block_size(k) = 0
    PROVE  /\ (\/ Buddy(s, k) = s + block_size(k) /\ s % (2 * block_size(k)) = 0
               \/ Buddy(s, k) = s - block_size(k) /\ (s - block_size(k)) % (2 * block_size(k)) = 0)
           /\ Buddy(s, k) \in Nat /\ Buddy(Buddy(s, k), k) = s
<1> DEFINE n == block_size(k)
           q == s \div n
<1>1. n \in Nat \ {0} BY SizeFact
<1>2. q \in Nat /\ s = n * q BY <1>1, Quotient
<1>3. Buddy(s, k) = IF q % 2 = 0 THEN s + n ELSE s - n BY DEF Buddy
<1>4. \A t : Buddy(t, k) = IF (t \div n) % 2 = 0 THEN t + n ELSE t - n BY DEF Buddy
<1> HIDE DEF n, q
<1>5. CASE q % 2 = 0
  <2>1. PICK h \in Nat : q = 2 * h BY <1>2, <1>5, Parity
  <2>2. s = (2 * n) * h /\ s + n = n * (2 * h + 1) BY <1>1, <1>2, <2>1, Doubled
  <2>3. s % (2 * n) = 0 BY <1>1, <2>2, Doubled, Multiple
  <2>4. (s + n) \div n = 2 * h + 1 BY <1>1, <2>2, Multiple
  <2>5. Buddy(s + n, k) = (s + n) - n BY <1>4, <2>4, Parity
  <2> QED BY <1>1, <1>3, <1>5, <2>3, <2>5 DEF n
<1>6. CASE q % 2 # 0
  <2>1. PICK h \in Nat : q = 2 * h + 1 BY <1>2, <1>6, Parity
  <2>2. s = (2 * n) * h + n /\ (2 * n) * h = n * (2 * h) BY <1>1, <1>2, <2>1, Doubled
  <2> DEFINE b == (2 * n) * h
  <2>3. b \in Nat /\ s - n = b BY <1>1, <2>2
  <2>4. b % (2 * n) = 0 BY <1>1, Doubled, Multiple
  <2>5. b \div n = 2 * h BY <1>1, <2>2, Multiple
  <2> HIDE DEF b
  <2>6. Buddy(b, k) = b + n BY <1>4, <2>5, Parity
  <2> QED BY <1>1, <1>3, <1>6, <2>3, <2>4, <2>6 DEF n
<1> QED BY <1>5, <1>6

\* Both halves of an aligned block are aligned, and buddies.
LEMMA HalvesAligned ==
    ASSUME NEW k \in Order, k > 0, NEW s \in Nat, s % block_size(k) = 0
    PROVE  /\ s % block_size(k - 1) = 0 /\ (s + block_size(k - 1)) % block_size(k - 1) = 0
           /\ Buddy(s + block_size(k - 1), k - 1) = s
<1> DEFINE n == block_size(k - 1)
           h == s \div block_size(k)
<1>1. k - 1 \in Order /\ block_size(k) = 2 * n BY SizeFact
<1>2. n \in Nat \ {0} /\ 2 * n \in Nat \ {0} BY <1>1, SizeFact
<1>3. h \in Nat /\ s = (2 * n) * h BY <1>1, <1>2, Quotient
<1>4. Buddy(s + n, k - 1) = IF ((s + n) \div n) % 2 = 0 THEN (s + n) + n ELSE (s + n) - n BY DEF Buddy
<1> HIDE DEF n, h
<1>5. s = n * (2 * h) /\ s + n = n * (2 * h + 1) BY <1>2, <1>3, Doubled
<1>6. 2 * h \in Nat /\ 2 * h + 1 \in Nat BY <1>3
<1>7. s % n = 0 /\ (s + n) % n = 0 /\ (s + n) \div n = 2 * h + 1 BY <1>2, <1>5, <1>6, Multiple
<1>8. Buddy(s + n, k - 1) = s BY <1>2, <1>3, <1>4, <1>7, Parity
<1> QED BY <1>7, <1>8 DEF n

Apart(S) == \A a, b \in S : a # b => Frames(a) \cap Frames(b) = {}
InSome(f, S) == \E b \in S : f \in Frames(b)

\* Replacing some blocks by others of the same frames keeps blocks apart, and
\* loses no frame.
LEMMA Replaced ==
    ASSUME NEW H, NEW X \in SUBSET H, NEW Y, Apart(H), Apart(Y),
           \A f : InSome(f, Y) <=> InSome(f, X)
    PROVE  /\ Apart((H \ X) \cup Y)
           /\ \A f : InSome(f, (H \ X) \cup Y) <=> InSome(f, H)
  BY DEF InSome, Apart

\* Covers, frame by frame.
LEMMA CoversFact == Covers <=> \A f : InSome(f, Blocks) <=> f \in Frame /\ f \notin unseeded
BY Zenon DEF Covers, InSome

\* Covers after a step, frame by frame.
LEMMA CoversNext == Covers' <=> \A f : InSome(f, Blocks') <=> f \in Frame /\ f \notin unseeded'
BY Zenon DEF Covers, InSome

\* The blocks are what the lists hold.
LEMMA BlockFact ==
    \A b : b \in Blocks <=> \E p \in List, s \in Frame, k \in Order : b = <<p, s, k>> /\ Holds(p, s, k)
BY DEF Blocks

\* A step that replaces blocks by others of the same frames
LEMMA ReplaceKeeps ==
    ASSUME Disjoint, Covers, unseeded' = unseeded,
           NEW X \in SUBSET Blocks, NEW Y, Apart(Y),
           Blocks' = (Blocks \ X) \cup Y,
           \A f : InSome(f, Y) <=> InSome(f, X)
    PROVE  Disjoint' /\ Covers'
<1>1. Apart(Blocks) BY Zenon DEF Apart, Disjoint
<1>2. Apart(Blocks') /\ \A f : InSome(f, Blocks') <=> InSome(f, Blocks)
  BY <1>1, Replaced
<1>3. Disjoint' BY <1>2, Zenon DEF Apart, Disjoint
<1>4. \A f : InSome(f, Blocks) <=> f \in Frame /\ f \notin unseeded BY CoversFact
<1>5. \A f : InSome(f, Blocks') <=> f \in Frame /\ f \notin unseeded' BY <1>2, <1>4
<1>6. Covers' BY <1>5, CoversNext
<1> QED BY <1>3, <1>6

\* The blocks after a step are what the lists then hold.
LEMMA BlockNext ==
    \A b : b \in Blocks' <=>
           \E p \in List, s \in Frame, k \in Order : b = <<p, s, k>> /\ Holds(p, s, k)'
BY DEF Blocks

LEMMA UnusedNat == TypeOK => unused \in Nat
BY DEF TypeOK

\* Blocks that share a frame are one.
LEMMA SameBlock ==
    ASSUME Exact, NEW a \in Blocks, NEW f, f \in Frames(a)
    PROVE  \A b \in Blocks : f \in Frames(b) => b = a
BY DEF Exact, Disjoint

\* One node for every block: a block takes the place of another, two that of
\* one, or one that of two.
LEMMA CountReplaced ==
    ASSUME Exact, unused \in Nat, NEW x \in Blocks, NEW y, y \notin Blocks \ {x}
    PROVE  /\ Blocks' = (Blocks \ {x}) \cup {y} /\ unused' = unused => Counted'
           /\ \A z : Blocks' = (Blocks \ {x}) \cup {y, z} /\ z \notin (Blocks \ {x}) \cup {y}
                      /\ unused' = unused - 1 => Counted'
<1> DEFINE R == Blocks \ {x}
           S == R \cup {y}
<1>1. IsFiniteSet(Blocks) /\ unused + Cardinality(Blocks) = MaxNodes BY DEF Exact, Counted
<1>2. IsFiniteSet(R) /\ Cardinality(R) = Cardinality(Blocks) - 1 BY <1>1, FS_RemoveElement
<1>3. IsFiniteSet(S) /\ Cardinality(S) = Cardinality(R) + 1 BY <1>2, FS_AddElement
<1>4. Cardinality(Blocks) \in Nat /\ Cardinality(R) \in Nat BY <1>1, <1>2, FS_CardinalityType
<1>5. Cardinality(S) = Cardinality(Blocks) BY <1>2, <1>3, <1>4
<1>6. ASSUME Blocks' = S, unused' = unused PROVE Counted'
  BY <1>1, <1>3, <1>5, <1>6 DEF Counted
<1>7. ASSUME NEW z, Blocks' = R \cup {y, z}, z \notin S, unused' = unused - 1 PROVE Counted'
  <2>1. Blocks' = S \cup {z} BY <1>7
  <2> HIDE DEF S
  <2>2. IsFiniteSet(Blocks') /\ Cardinality(Blocks') = Cardinality(S) + 1 BY <1>3, <1>7, <2>1, FS_AddElement
  <2> QED BY <1>1, <1>4, <1>5, <1>7, <2>2 DEF Counted
<1> QED BY <1>6, <1>7

\* A block goes from one list to another.
Moved(p, q, s, k) ==
    \A l \in List, t \in Frame, j \in Order :
        Holds(l, t, j)' <=> ((Holds(l, t, j) /\ ~(l = p /\ t = s /\ j = k))
                                \/ (l = q /\ t = s /\ j = k))
\* A move between lists (a pop from one and a push onto another) keeps blocks apart and loses no frame.
LEMMA MoveKeeps ==
    ASSUME Exact, unseeded' = unseeded, unused' = unused, unused \in Nat,
           NEW p \in List, NEW q \in List, NEW s \in Frame, NEW k \in Order, Holds(p, s, k), Moved(p, q, s, k)
    PROVE  Exact'
<1> USE DEF Moved
<1> DEFINE x == <<p, s, k>>
           y == <<q, s, k>>
<1>1. x \in Blocks BY BlockFact
<1>2. Frames(x) = Extent(s, k) /\ Frames(y) = Extent(s, k) BY DEF Frames
<1>3. Blocks' = (Blocks \ {x}) \cup {y}
  BY BlockNext, BlockFact
<1>4. Apart({y}) BY DEF Apart
<1>5. \A f : InSome(f, {y}) <=> InSome(f, {x}) BY <1>2 DEF InSome
<1>6. Aligned' BY <1>1, <1>3 DEF Exact, Aligned
<1>7. s \in Frames(x) /\ s \in Frames(y) BY <1>2, ExtentFact
<1> HIDE DEF x, y
<1>8. Disjoint' /\ Covers' BY <1>1, <1>3, <1>4, <1>5, ReplaceKeeps DEF Exact
<1>9. y \notin Blocks \ {x} BY <1>1, <1>7, SameBlock
<1>10. Counted' BY <1>1, <1>3, <1>9, CountReplaced
<1> QED BY <1>6, <1>8, <1>10 DEF Exact

\* Nothing moves.
LEMMA SameKeeps ==
    ASSUME Exact, UNCHANGED <<unseeded, free, cache, hand, unused>>,
           DOMAIN allocations' = DOMAIN allocations,
           \A s \in DOMAIN allocations : allocations'[s].order = allocations[s].order
    PROVE  Exact'
<1>1. Blocks' = Blocks
  BY BlockNext, BlockFact DEF Holds, Cached
<1> QED BY <1>1 DEF Exact, Disjoint, Covers, Aligned, Counted

\* A block and its two halves
LEMMA HalvesFact ==
    ASSUME NEW s \in Nat, NEW k \in Order, k > 0
    PROVE  LET u == s + block_size(k - 1) IN
           /\ \A f : f \in Extent(s, k) <=> f \in Extent(s, k - 1) \/ f \in Extent(u, k - 1)
           /\ Extent(s, k - 1) \cap Extent(u, k - 1) = {}
<1>1. /\ block_size(k) \in Nat \ {0} /\ k - 1 \in Order
      /\ block_size(k) = 2 * block_size(k - 1)
  BY SizeFact
<1>2. block_size(k - 1) \in Nat \ {0} BY <1>1, SizeFact
<1> DEFINE m == block_size(k - 1)
<1>3. /\ \A f : f \in s..(s + 2 * m - 1) <=> f \in s..(s + m - 1) \/ f \in (s + m)..(s + m + m - 1)
      /\ (s..(s + m - 1)) \cap ((s + m)..(s + m + m - 1)) = {}
  <2> HIDE DEF m
  <2>1. m \in Nat \ {0} BY <1>2 DEF m
  <2> QED BY <2>1
<1> QED BY <1>1, <1>2, <1>3 DEF Extent

\* A block off the global lists is split: the upper half goes back.
LEMMA SplitKeeps ==
    ASSUME Exact, unseeded' = unseeded, unused \in Nat, unused' = unused - 1,
           NEW s \in Frame, NEW k \in Order, k > 0, Holds("hand", s, k),
           \A l \in List, t \in Frame, j \in Order :
              Holds(l, t, j)' <=>
                 ((Holds(l, t, j) /\ ~(l = "hand" /\ t = s /\ j = k))
                    \/ (l = "hand" /\ t = s /\ j = k - 1)
                    \/ (l = "free" /\ t = s + block_size(k - 1) /\ j = k - 1))
    PROVE  s + block_size(k - 1) \in Frame /\ Exact'
<1> DEFINE u == s + block_size(k - 1)
           x == <<"hand", s, k>>
           y == <<"hand", s, k - 1>>
           z == <<"free", u, k - 1>>
<1>1. /\ k - 1 \in Order /\ block_size(k - 1) \in Nat \ {0} /\ s \in Nat
      /\ "hand" \in List /\ "free" \in List
  BY SizeFact, ExtentFact DEF List
<1>2. x \in Blocks BY <1>1, BlockFact
<1>3. Frames(x) = Extent(s, k) /\ Frames(y) = Extent(s, k - 1) /\ Frames(z) = Extent(u, k - 1)
  BY DEF Frames
<1>4. /\ \A f : f \in Frames(x) <=> f \in Frames(y) \/ f \in Frames(z)
      /\ Frames(y) \cap Frames(z) = {}
  BY <1>1, <1>3, HalvesFact
<1>5. u \in Frame
  <2>1. u \in Extent(u, k - 1)
    BY <1>1 DEF Extent
  <2>2. InSome(u, Blocks) BY <2>1, <1>2, <1>3, <1>4 DEF InSome
  <2> QED BY <2>2, CoversFact DEF Exact
<1>6. Blocks' = (Blocks \ {x}) \cup {y, z}
  BY BlockNext, BlockFact, <1>1, <1>5
<1>7. Apart({y, z}) BY <1>4 DEF Apart
<1>8. \A f : InSome(f, {y, z}) <=> InSome(f, {x}) BY <1>4 DEF InSome
<1>9. {x} \in SUBSET Blocks BY <1>2
<1>10. s % block_size(k) = 0 BY <1>2 DEF Exact, Aligned
<1>11. s % block_size(k - 1) = 0 /\ u % block_size(k - 1) = 0 BY <1>1, <1>10, HalvesAligned
<1>12. Aligned'
  <2>1. y[2] = s /\ y[3] = k - 1 /\ z[2] = u /\ z[3] = k - 1 OBVIOUS
  <2> HIDE DEF x, y, z, u
  <2> QED BY <1>6, <1>11, <2>1 DEF Exact, Aligned
<1>13. y # x /\ z # x /\ y # z BY <1>1 DEF Order
<1>14. s \in Frames(x) /\ s \in Frames(y) BY <1>1, <1>3, ExtentFact
<1>15. u \in Frames(x) /\ u \in Frames(z) BY <1>1, <1>3, <1>4, <1>5, ExtentFact
<1> HIDE DEF x, y, z, u
<1>16. Disjoint' /\ Covers' BY <1>6, <1>7, <1>8, <1>9, ReplaceKeeps DEF Exact
<1>17. y \notin Blocks \ {x} /\ z \notin (Blocks \ {x}) \cup {y}
  BY <1>2, <1>13, <1>14, <1>15, SameBlock
<1>18. Counted' BY <1>2, <1>6, <1>17, CountReplaced
<1> QED BY <1>5, <1>12, <1>16, <1>18 DEF Exact, u

\* A block and its buddy, the lower of them first, are one block.
LEMMA BuddyFact ==
    ASSUME NEW s \in Nat, NEW k \in Order, k < MaxOrder, NEW b \in Nat,
           b = s + block_size(k) \/ b = s - block_size(k)
    PROVE  LET m == IF b < s THEN b ELSE s IN
           \A f : f \in Extent(m, k + 1) <=> f \in Extent(s, k) \/ f \in Extent(b, k)
  BY SizeFact, OrderAssumption, HalvesFact DEF Order

\* A block and its free buddy become one block.
LEMMA MergeKeeps ==
    ASSUME Exact, unseeded' = unseeded, unused \in Nat, unused' = unused + 1,
           NEW s \in Frame, NEW k \in Order, k < MaxOrder, NEW b \in Frame, b = Buddy(s, k),
           b = s + block_size(k) \/ b = s - block_size(k),
           NEW m, m = (IF b < s THEN b ELSE s),
           Holds("hand", s, k), Holds("free", b, k),
           \A l \in List, t \in Frame, j \in Order :
              Holds(l, t, j)' <=>
                 ((Holds(l, t, j) /\ ~(l = "hand" /\ t = s /\ j = k)
                                  /\ ~(l = "free" /\ t = b /\ j = k))
                    \/ (l = "hand" /\ t = m /\ j = k + 1))
    PROVE  Exact'
<1> DEFINE x == <<"hand", s, k>>
           y == <<"free", b, k>>
           z == <<"hand", m, k + 1>>
<1>1. /\ k + 1 \in Order /\ s \in Nat /\ b \in Nat
      /\ "hand" \in List /\ "free" \in List /\ m \in Frame
  BY SizeFact, ExtentFact DEF List
<1>2. x \in Blocks /\ y \in Blocks BY <1>1, BlockFact
<1>3. Frames(x) = Extent(s, k) /\ Frames(y) = Extent(b, k) /\ Frames(z) = Extent(m, k + 1)
  BY DEF Frames
<1>4. \A f : f \in Frames(z) <=> f \in Frames(x) \/ f \in Frames(y)
  BY <1>1, <1>3, BuddyFact
<1>5. Blocks' = (Blocks \ {x, y}) \cup {z}
  BY BlockNext, BlockFact, <1>1
<1>6. Apart({z}) BY DEF Apart
<1>7. \A f : InSome(f, {z}) <=> InSome(f, {x, y}) BY <1>4 DEF InSome
<1>8. {x, y} \in SUBSET Blocks BY <1>2
<1>9. m % block_size(k + 1) = 0
  BY <1>2, SizeFact, <1>1, BuddyAligned DEF Exact, Aligned
<1>10. Aligned'
  <2>1. z[2] = m /\ z[3] = k + 1 OBVIOUS
  <2> HIDE DEF x, y, z
  <2> QED BY <1>5, <1>9, <2>1 DEF Exact, Aligned
<1>11. z # x /\ z # y /\ x # y BY <1>1 DEF Order
<1>12. m \in Frames(z) /\ (m \in Frames(x) \/ m \in Frames(y)) BY <1>1, <1>3, <1>4, ExtentFact
<1> HIDE DEF x, y, z
<1>13. Disjoint' /\ Covers' BY <1>5, <1>6, <1>7, <1>8, ReplaceKeeps DEF Exact
<1>14. z \notin Blocks BY <1>2, <1>11, <1>12, SameBlock
<1>15. Counted'
  <2> DEFINE R == Blocks \ {x}
             S == R \ {y}
  <2>1. IsFiniteSet(Blocks) /\ unused + Cardinality(Blocks) = MaxNodes BY DEF Exact, Counted
  <2>2. IsFiniteSet(R) /\ Cardinality(R) = Cardinality(Blocks) - 1 BY <1>2, <2>1, FS_RemoveElement
  <2>3. IsFiniteSet(S) /\ Cardinality(S) = Cardinality(R) - 1 BY <1>2, <1>11, <2>2, FS_RemoveElement
  <2>4. Blocks' = S \cup {z} /\ z \notin S BY <1>5, <1>14
  <2>5. IsFiniteSet(Blocks') /\ Cardinality(Blocks') = Cardinality(S) + 1
    <3> HIDE DEF S
    <3> QED BY <2>3, <2>4, FS_AddElement
  <2>6. Cardinality(Blocks) \in Nat BY <2>1, FS_CardinalityType
  <2> HIDE DEF R, S
  <2> QED BY <2>1, <2>2, <2>3, <2>5, <2>6 DEF Counted
<1> QED BY <1>10, <1>13, <1>15 DEF Exact

\* Memory that was outside becomes a block.
LEMMA SeedKeeps ==
    ASSUME Exact, NEW s \in Frame, NEW k \in Order, s % block_size(k) = 0,
           unused \in Nat, unused' = unused - 1, Extent(s, k) \subseteq unseeded, unseeded \subseteq Frame,
           unseeded' = unseeded \ Extent(s, k),
           \A l \in List, t \in Frame, j \in Order :
              Holds(l, t, j)' <=> (Holds(l, t, j) \/ (l = "free" /\ t = s /\ j = k))
    PROVE  Exact'
<1> DEFINE z == <<"free", s, k>>
<1>1. "free" \in List BY DEF List
<1>2. Frames(z) = Extent(s, k) BY DEF Frames
<1>3. Blocks' = Blocks \cup {z}
  BY BlockNext, BlockFact, <1>1
<1>4. \A f : InSome(f, Blocks) <=> f \in Frame /\ f \notin unseeded BY CoversFact DEF Exact
<1>5. \A b \in Blocks : Frames(b) \cap Frames(z) = {}
  BY <1>2, <1>4 DEF InSome
<1>10. Aligned'
  <2>1. z[2] = s /\ z[3] = k OBVIOUS
  <2> HIDE DEF z
  <2> QED BY <1>3, <2>1 DEF Exact, Aligned
<1>11. s \in Frames(z) BY <1>2, ExtentFact
<1> HIDE DEF z
<1>12. z \notin Blocks BY <1>5, <1>11
<1>13. Counted'
  <2>1. IsFiniteSet(Blocks) /\ unused + Cardinality(Blocks) = MaxNodes BY DEF Exact, Counted
  <2>2. IsFiniteSet(Blocks') /\ Cardinality(Blocks') = Cardinality(Blocks) + 1
    BY <1>3, <1>12, <2>1, FS_AddElement
  <2>3. Cardinality(Blocks) \in Nat BY <2>1, FS_CardinalityType
  <2> QED BY <2>1, <2>2, <2>3 DEF Counted
<1>6. Disjoint'
  BY <1>5, <1>3 DEF Disjoint, Exact
<1>7. \A f : InSome(f, Blocks') <=> InSome(f, Blocks) \/ f \in Frames(z)
  BY <1>3, Zenon DEF InSome
<1>8. \A f : InSome(f, Blocks') <=> f \in Frame /\ f \notin unseeded'
  BY <1>2, <1>4, <1>7
<1>9. Covers' BY <1>8, CoversNext
<1> QED BY <1>6, <1>9, <1>10, <1>13 DEF Exact

-----------------------------------------------------------------------------
(* Least elements *)

\* A nonempty set of natural numbers has a least element.
LEMMA LeastFact ==
    ASSUME NEW S \in SUBSET Nat, S # {}
    PROVE  Least(S) \in S /\ \A y \in S : Least(S) <= y
<1>1. IsWellFoundedOn(OpToRel(<, Nat), Nat) BY NatLessThanWellFounded, Zenon
<1>2. PICK x \in S : \A y \in S : ~ (<<y, x>> \in OpToRel(<, Nat)) BY <1>1, WFMin, Zenon
<1>3. \A y \in S : ~(y < x) BY <1>2 DEF OpToRel
<1>4. \A y \in S : x <= y BY <1>3
<1> QED BY <1>4, Zenon DEF Least

\* Every request the allocator accepts has an order.
LEMMA OrderFact ==
    ASSUME NEW count \in 1..block_size(MaxOrder)
    PROVE  order_for_count(count) \in Order
<1> DEFINE S == {k \in Order : count <= block_size(k)}
<1>1. MaxOrder \in S BY OrderAssumption DEF Order
<1>2. S \in SUBSET Nat BY OrderAssumption DEF Order
<1>3. Least(S) \in S /\ \A j \in S : Least(S) <= j BY <1>1, <1>2, LeastFact
<1>4. \E k \in Order : /\ count <= block_size(k)
                       /\ \A j \in Order : count <= block_size(j) => k <= j
  BY <1>3
<1> HIDE DEF S
<1> QED BY <1>4, Zenon DEF order_for_count

\* A refill takes at least one block.
LEMMA BatchFact ==
    ASSUME NEW k \in Order
    PROVE  refill_batch(k) \in Nat \ {0}
  BY OrderAssumption, BoundAssumption DEF Order, refill_batch

-----------------------------------------------------------------------------
(* Lists *)

\* What every list holds.
LEMMA HoldsFact ==
    \A s, k : /\ Holds("free", s, k) <=> s \in free[k]
              /\ Holds("allocated", s, k) <=> s \in DOMAIN allocations /\ allocations[s].order = k
              /\ Holds("hand", s, k) <=> hand = [start |-> s, order |-> k]
              /\ \A c \in Cpu : Holds(c, s, k) <=> s \in Cached(c, k)
BY NoneAssumption DEF Holds

\* What every list holds after a step.
LEMMA HoldsNext ==
    \A s, k : /\ Holds("free", s, k)' <=> s \in free'[k]
              /\ Holds("allocated", s, k)' <=> s \in DOMAIN allocations' /\ allocations'[s].order = k
              /\ Holds("hand", s, k)' <=> hand' = [start |-> s, order |-> k]
              /\ \A c \in Cpu : Holds(c, s, k)' <=> s \in Cached(c, k)'
BY NoneAssumption DEF Holds

\* The lists are different ones.
LEMMA ListFact ==
    ASSUME NEW l \in List
    PROVE  /\ l = "free" \/ l = "allocated" \/ l = "hand" \/ l \in Cpu
           /\ l \in Cpu => l # "free" /\ l # "allocated" /\ l # "hand"
BY NoneAssumption DEF List

\* A block on a list is allocated to nobody.
LEMMA NotAllocated ==
    ASSUME TypeOK, Exact, NEW p \in List, p # "allocated",
           NEW s \in Frame, NEW k \in Order, Holds(p, s, k)
    PROVE  s \notin DOMAIN allocations
<1> SUFFICES ASSUME s \in DOMAIN allocations PROVE FALSE OBVIOUS
<1> DEFINE j == allocations[s].order
<1>1. j \in Order BY DEF TypeOK, Allocation
<1>2. Holds("allocated", s, j) /\ "allocated" \in List BY HoldsFact DEF List
<1>3. <<p, s, k>> \in Blocks /\ <<"allocated", s, j>> \in Blocks BY <1>1, <1>2, BlockFact
<1>4. <<p, s, k>> # <<"allocated", s, j>> OBVIOUS
<1>5. s \in Frames(<<p, s, k>>) /\ s \in Frames(<<"allocated", s, j>>)
  BY <1>1, ExtentFact DEF Frames
<1> QED BY <1>3, <1>4, <1>5 DEF Exact, Disjoint

\* A CPU's cache of an order changes.
LEMMA CachedNext ==
    ASSUME cache \in [Cpu -> [0..CacheMaxOrder -> SUBSET Frame]],
           NEW c \in Cpu, NEW k \in Order, k <= CacheMaxOrder, NEW S \in SUBSET Frame,
           cache' = [cache EXCEPT ![c][k] = S]
    PROVE  /\ cache' \in [Cpu -> [0..CacheMaxOrder -> SUBSET Frame]]
           /\ Cached(c, k)' = S
           /\ \A l \in Cpu, j \in Order : (l # c \/ j # k) => Cached(l, j)' = Cached(l, j)
  BY OrderAssumption, BoundAssumption DEF Order, Cached

\* The block in the hand of the call
LEMMA HandFact ==
    ASSUME Inv, call.pc \in {"split", "merge"}
    PROVE  /\ hand \in [start : Frame, order : Order]
           /\ hand.start \in Frame /\ hand.order \in Order
           /\ Holds("hand", hand.start, hand.order)
           /\ \A t, j : Holds("hand", t, j) <=> t = hand.start /\ j = hand.order
  BY HoldsFact DEF Inv, CallInv, TypeOK

\* An empty hand, and one that holds a block next
LEMMA HandNext ==
    ASSUME NEW s \in Frame, NEW k \in Order
    PROVE  /\ hand = None => \A t \in Frame, j \in Order : ~Holds("hand", t, j)
           /\ hand' = None => \A t \in Frame, j \in Order : ~Holds("hand", t, j)'
           /\ hand' = [start |-> s, order |-> k] =>
                 \A t \in Frame, j \in Order : Holds("hand", t, j)' <=> t = s /\ j = k
  BY NoneAssumption, HoldsNext, HoldsFact

\* A free list gains a block, or loses one.
LEMMA FreeNext ==
    ASSUME free \in [Order -> SUBSET Frame], NEW k \in Order, NEW s \in Frame
    PROVE  /\ free' = [free EXCEPT ![k] = @ \cup {s}] =>
                 /\ free' \in [Order -> SUBSET Frame]
                 /\ \A t \in Frame, j \in Order :
                       Holds("free", t, j)' <=> Holds("free", t, j) \/ (t = s /\ j = k)
           /\ free' = [free EXCEPT ![k] = @ \ {s}] =>
                 /\ free' \in [Order -> SUBSET Frame]
                 /\ \A t \in Frame, j \in Order :
                       Holds("free", t, j)' <=> Holds("free", t, j) /\ ~(t = s /\ j = k)
BY HoldsFact, HoldsNext

\* A cache gains a block, or loses one.
CacheGains(c, s, k) ==
    /\ cache' \in [Cpu -> [0..CacheMaxOrder -> SUBSET Frame]]
    /\ \A l \in Cpu, t \in Frame, j \in Order :
          Holds(l, t, j)' <=> Holds(l, t, j) \/ (l = c /\ t = s /\ j = k)
CacheLoses(c, s, k) ==
    /\ cache' \in [Cpu -> [0..CacheMaxOrder -> SUBSET Frame]]
    /\ \A l \in Cpu, t \in Frame, j \in Order :
          Holds(l, t, j)' <=> Holds(l, t, j) /\ ~(l = c /\ t = s /\ j = k)

\* cpu_push and cpu_pop change the blocks of one CPU and order only.
LEMMA CacheNext ==
    ASSUME TypeOK, NEW c \in Cpu, NEW k \in Order, k <= CacheMaxOrder, NEW S \in SUBSET Frame,
           cache' = [cache EXCEPT ![c][k] = S], NEW s \in Frame
    PROVE  /\ S = cache[c][k] \cup {s} => CacheGains(c, s, k)
           /\ S = cache[c][k] \ {s} => CacheLoses(c, s, k)
<1>1. cache \in [Cpu -> [0..CacheMaxOrder -> SUBSET Frame]] BY DEF TypeOK
<1>2. /\ cache' \in [Cpu -> [0..CacheMaxOrder -> SUBSET Frame]]
      /\ Cached(c, k)' = S
      /\ \A l \in Cpu, j \in Order : (l # c \/ j # k) => Cached(l, j)' = Cached(l, j)
  BY <1>1, CachedNext
<1>3. \A t \in Frame : Holds(c, t, k)' <=> t \in S
  BY <1>2, HoldsNext
<1>4. \A t \in Frame : Holds(c, t, k) <=> t \in cache[c][k]
  BY HoldsFact DEF Cached
<1>5. ASSUME NEW l \in Cpu, NEW t \in Frame, NEW j \in Order, l # c \/ j # k
      PROVE  Holds(l, t, j)' <=> Holds(l, t, j)
  <2>1. Cached(l, j)' = Cached(l, j) BY <1>2, <1>5
  <2>2. Holds(l, t, j)' <=> t \in Cached(l, j)' BY HoldsNext
  <2>3. Holds(l, t, j) <=> t \in Cached(l, j) BY HoldsFact
  <2> QED BY <2>1, <2>2, <2>3
<1> QED BY <1>2, <1>3, <1>4, <1>5 DEF CacheGains, CacheLoses

\* What a cache holds are frames.
LEMMA CacheFact ==
    ASSUME TypeOK, NEW c \in Cpu, NEW k \in Order, k <= CacheMaxOrder
    PROVE  cache[c][k] \in SUBSET Frame /\ Cached(c, k) = cache[c][k]
  BY OrderAssumption, BoundAssumption DEF Order, TypeOK, Cached

\* A block becomes the caller's.
LEMMA AllocNext ==
    ASSUME TypeOK, NEW s \in Frame, NEW k \in Order, s \notin DOMAIN allocations, MarkAllocated(s, k)
    PROVE  /\ DOMAIN allocations' = DOMAIN allocations \cup {s}
           /\ allocations' \in [DOMAIN allocations \cup {s} -> Allocation]
           /\ \A t \in Frame, j \in Order :
                 Holds("allocated", t, j)' <=> Holds("allocated", t, j) \/ (t = s /\ j = k)
<1>1. /\ DOMAIN allocations' = DOMAIN allocations \cup {s}
      /\ \A t \in DOMAIN allocations : allocations'[t] = allocations[t]
      /\ allocations'[s] = [order |-> k, refs |-> 1]
      /\ allocations' \in [DOMAIN allocations \cup {s} -> Allocation]
  BY BoundAssumption DEF MarkAllocated, TypeOK, Allocation
<1> QED BY <1>1, HoldsFact, HoldsNext

\* The last reference goes.
LEMMA FreedNext ==
    ASSUME TypeOK, NEW s \in DOMAIN allocations, NEW k, k = allocations[s].order,
           allocations' = [t \in DOMAIN allocations \ {s} |-> allocations[t]]
    PROVE  /\ DOMAIN allocations' = DOMAIN allocations \ {s}
           /\ allocations' \in [DOMAIN allocations \ {s} -> Allocation]
           /\ \A t \in Frame, j \in Order :
                 Holds("allocated", t, j)' <=> Holds("allocated", t, j) /\ ~(t = s /\ j = k)
  BY HoldsFact, HoldsNext DEF TypeOK

\* Lists that do not change
LEMMA SameNext ==
    \A t \in Frame, j \in Order :
       /\ free' = free => (Holds("free", t, j)' <=> Holds("free", t, j))
       /\ hand' = hand => (Holds("hand", t, j)' <=> Holds("hand", t, j))
       /\ allocations' = allocations => (Holds("allocated", t, j)' <=> Holds("allocated", t, j))
       /\ \A c \in Cpu : cache' = cache => (Holds(c, t, j)' <=> Holds(c, t, j))
BY HoldsFact, HoldsNext DEF Cached
-----------------------------------------------------------------------------
(* Every action keeps the invariant. *)

\* Before bootstrap seeds the lists there are no blocks.
LEMMA InvInit == Init => Inv
<1> SUFFICES ASSUME Init PROVE Inv OBVIOUS
<1>1. TypeOK
  BY OrderAssumption, BoundAssumption DEF Idle, PC, Order, Init, TypeOK
<1>2. CallInv BY DEF Init, CallInv, Idle
<1>3. Blocks = {}
  BY NoneAssumption, BoundAssumption, OrderAssumption, BlockFact DEF Init, Cached, Order, Holds
<1>4. Disjoint /\ Aligned BY <1>3 DEF Disjoint, Aligned
<1>5. Covers BY <1>3, CoversFact DEF Init, InSome
<1>6. Counted
  BY <1>3, FS_EmptySet, BoundAssumption DEF Counted, Init
<1> QED BY <1>1, <1>2, <1>4, <1>5, <1>6 DEF Inv, Exact

\* seed_global_free_region keeps the invariant.
LEMMA InvSeed ==
    ASSUME Inv, Seed
    PROVE  Inv'
<1> USE DEF Inv
<1> DEFINE s == Least(unseeded)
<1>1. s \in unseeded /\ s \in Frame
  BY MapAssumption, LeastFact DEF TypeOK, Seed
<1>2. PICK k \in Order : /\ Extent(s, k) \subseteq unseeded /\ s % block_size(k) = 0
                         /\ unseeded' = unseeded \ Extent(s, k)
                         /\ free' = [free EXCEPT ![k] = @ \cup {s}]
  BY DEF Seed, Fits
<1>3. UNCHANGED <<cache, allocations, call, hand, page_cache>> /\ unused' \in Nat /\ unused' = unused - 1
  BY DEF Seed, TypeOK
<1> HIDE DEF s
<1>4. TypeOK' BY <1>1, <1>2, <1>3 DEF TypeOK
<1>5. CallInv'
  BY <1>3 DEF Seed, CallInv, Idle
<1>6. Exact'
  BY <1>2, <1>3, <1>1, SeedKeeps DEF TypeOK, Holds, Cached
<1> QED BY <1>4, <1>5, <1>6

\* No call in progress.
LEMMA IdleFact ==
    /\ Idle \in [pc : PC, cpu : Cpu \cup {None}, order : Order, left : Nat]
    /\ Idle.pc = "idle"
BY OrderAssumption DEF Idle, PC, Order

\* The block a call takes from a cache goes to the caller.
LEMMA InvTakeCached ==
    ASSUME Inv, NEW c \in Cpu, NEW k \in Order, TakeCached(c, k), hand = None
    PROVE  Inv'
<1> USE DEF Inv
<1>1. PICK s \in Cached(c, k) : /\ cache' = [cache EXCEPT ![c][k] = @ \ {s}]
                                /\ MarkAllocated(s, k)
  BY DEF TakeCached
<1>2. call' = Idle /\ UNCHANGED <<unseeded, free, unused, hand, page_cache>> BY DEF TakeCached
<1>3. k <= CacheMaxOrder /\ k \in 0..CacheMaxOrder /\ s \in cache[c][k] /\ s \in Frame
  BY <1>1, OrderAssumption, BoundAssumption DEF Cached, TypeOK, Order
<1>4. c \in List /\ c # "allocated" /\ c # "free" /\ c # "hand" /\ "allocated" \in List
  BY NoneAssumption DEF List
<1>5. Holds(c, s, k) BY <1>1, HoldsFact
<1>6. s \notin DOMAIN allocations BY <1>3, <1>4, <1>5, NotAllocated
<1>7. CacheLoses(c, s, k)
  <2> DEFINE S == cache[c][k] \ {s}
  <2>1. cache' = [cache EXCEPT ![c][k] = S] BY <1>1
  <2>2. S \in SUBSET Frame BY <1>3, CacheFact
  <2> QED BY <2>1, <2>2, <1>3, CacheNext
<1>8. /\ DOMAIN allocations' = DOMAIN allocations \cup {s}
      /\ allocations' \in [DOMAIN allocations \cup {s} -> Allocation]
      /\ \A t \in Frame, j \in Order :
            Holds("allocated", t, j)' <=> Holds("allocated", t, j) \/ (t = s /\ j = k)
  BY <1>1, <1>3, <1>6, AllocNext
<1>9. TypeOK' BY <1>2, <1>3, <1>7, <1>8, IdleFact DEF TypeOK, CacheLoses
<1>10. CallInv' BY <1>2, IdleFact DEF CallInv
<1>11. Moved(c, "allocated", s, k) BY <1>2, <1>4, <1>7, <1>8, SameNext, ListFact DEF Moved, CacheLoses
<1>12. Exact' BY <1>2, <1>3, <1>4, <1>5, <1>11, UnusedNat, MoveKeeps
<1> QED BY <1>9, <1>10, <1>12

\* alloc_frame_4k_on_cpu keeps the invariant.
LEMMA InvAlloc ==
    ASSUME Inv, NEW c \in Cpu, NEW count \in 1..block_size(MaxOrder), Alloc(c, count)
    PROVE  Inv'
<1> USE DEF Inv
<1> DEFINE k == order_for_count(count)
<1>1. k \in Order BY OrderFact
<1>2. unseeded = {} /\ call = Idle /\ hand = None BY IdleFact DEF Alloc, Ready, CallInv
<1>3. CASE Cached(c, k) # {}
  BY <1>3, <1>1, <1>2, InvTakeCached DEF Alloc
<1>4. CASE Cached(c, k) = {}
  <2>1. /\ call' = [pc |-> "search", cpu |-> c, order |-> k, left |-> refill_batch(k)]
        /\ UNCHANGED <<unseeded, free, cache, allocations, unused, hand, page_cache>>
    BY <1>4 DEF Alloc
  <2>2. refill_batch(k) \in Nat \ {0} BY <1>1, BatchFact
  <2> HIDE DEF k
  <2>3. TypeOK' BY <2>1, <2>2, <1>1 DEF TypeOK, PC
  <2>4. CallInv' BY <2>1, <2>2, <1>2 DEF CallInv
  <2>5. Exact' BY <2>1, SameKeeps
  <2> QED BY <2>3, <2>4, <2>5
<1> QED BY <1>3, <1>4

\* cpu_pop after a refill keeps the invariant.
LEMMA InvTake ==
    ASSUME Inv, Take
    PROVE  Inv'
  BY InvTakeCached DEF Inv, TypeOK, CallInv, Take


\* alloc_from_global keeps the invariant as it takes a block, or fails.
LEMMA InvSearch ==
    ASSUME Inv, Search
    PROVE  Inv'
<1>1. /\ call.pc = "search" /\ call.cpu \in Cpu /\ call.order \in Order /\ call.left \in Nat
      /\ call.left >= 1 /\ hand = None /\ TypeOK /\ CallInv /\ Exact
      /\ UNCHANGED <<unseeded, cache, allocations, unused, page_cache>>
      /\ call \in [pc : PC, cpu : Cpu \cup {None}, order : Order, left : Nat]
  BY DEF Inv, TypeOK, CallInv, Search
<1>2. unseeded = {} BY <1>1, IdleFact DEF CallInv
<1> DEFINE k == Least(Large(call.order))
<1>3. CASE Large(call.order) = {}
  <2>1. call' = [call EXCEPT !.pc = AfterOutOfMemory] /\ UNCHANGED <<free, hand>>
    BY <1>3 DEF Search
  <2>2. /\ AfterOutOfMemory \in {"take", "recover"}
        /\ AfterOutOfMemory = "take" => call.order <= CacheMaxOrder
    BY DEF AfterOutOfMemory, Cached
  <2>3. TypeOK' BY <1>1, <2>1, <2>2 DEF TypeOK, PC
  <2>4. CallInv' BY <1>1, <1>2, <2>1, <2>2 DEF CallInv
  <2>5. Exact' BY <1>1, <2>1, SameKeeps
  <2> QED BY <2>3, <2>4, <2>5 DEF Inv
<1>4. CASE Large(call.order) # {} /\ unused < k - call.order
  BY <1>4, <1>1, IdleFact, SameKeeps DEF Search, TypeOK, CallInv, Inv
<1>5. CASE Large(call.order) # {} /\ ~(unused < k - call.order)
  <2> DEFINE s == Least(free[k])
  <2>1. /\ hand' = [start |-> s, order |-> k]
        /\ free' = [free EXCEPT ![k] = @ \ {s}]
        /\ call' = [call EXCEPT !.pc = "split"]
    BY <1>5 DEF Search
  <2>2. k \in Order /\ call.order <= k /\ free[k] # {}
    <3>1. Large(call.order) \in SUBSET Nat BY OrderAssumption DEF Large, Order
    <3>2. k \in Large(call.order) BY <3>1, <1>5, LeastFact
    <3> QED BY <3>2 DEF Large
  <2>3. s \in free[k] /\ s \in Frame
    BY <2>2, <1>1, MapAssumption, LeastFact DEF TypeOK
  <2>4. k - call.order <= unused
    BY <1>1, <1>5, <2>2, OrderAssumption DEF TypeOK, Order
  <2>5. /\ free' \in [Order -> SUBSET Frame]
        /\ \A t \in Frame, j \in Order :
              Holds("free", t, j)' <=> Holds("free", t, j) /\ ~(t = s /\ j = k)
    BY <1>1, <2>1, <2>2, <2>3, FreeNext DEF TypeOK
  <2>6. Holds("free", s, k) BY <2>3, HoldsFact
  <2> HIDE DEF k, s
  <2>7. hand' \in [start : Frame, order : Order] /\ hand'.order = k /\ hand' # None
    BY <2>1, <2>2, <2>3, NoneAssumption
  <2>8. TypeOK' BY <1>1, <2>1, <2>5, <2>7 DEF TypeOK, PC
  <2>9. CallInv' BY <1>1, <1>2, <2>1, <2>2, <2>4, <2>7 DEF CallInv
  <2>10. "free" \in List /\ "hand" \in List BY DEF List
  <2>11. Moved("free", "hand", s, k)
    BY <2>1, <2>2, <2>3, HandNext, <1>1, <2>5, SameNext, ListFact DEF Moved
  <2>12. Exact' BY <1>1, <2>2, <2>3, <2>6, <2>10, <2>11, UnusedNat, MoveKeeps
  <2> QED BY <2>8, <2>9, <2>12 DEF Inv
<1> QED BY <1>3, <1>4, <1>5

\* A turn of alloc_from_global's splitting loop keeps the invariant.
LEMMA InvSplit ==
    ASSUME Inv, Split
    PROVE  Inv'
<1>1. /\ call.pc = "split" /\ call.order \in Order /\ hand.order > call.order
      /\ hand.order - call.order <= unused /\ TypeOK /\ CallInv /\ Exact
      /\ UNCHANGED <<unseeded, cache, allocations, call, page_cache>>
      /\ unused' = unused - 1 /\ unused \in Nat
  BY DEF Inv, TypeOK, CallInv, Split
<1> DEFINE s == hand.start
           k == hand.order
           u == s + block_size(k - 1)
<1>2. /\ hand \in [start : Frame, order : Order] /\ s \in Frame /\ k \in Order /\ Holds("hand", s, k)
      /\ \A t, j : Holds("hand", t, j) <=> t = s /\ j = k
  BY <1>1, HandFact
<1>3. k \in Nat /\ call.order \in Nat /\ k > 0 BY <1>1, <1>2, OrderAssumption DEF Order
<1>4. k - 1 \in Order BY <1>2, <1>3, SizeFact
<1>5. free' = [free EXCEPT ![k - 1] = @ \cup {u}] BY DEF Split, UpperHalf
<1>6. hand' = [start |-> s, order |-> k - 1] BY <1>2 DEF Split
<1>7. \A t \in Frame, j \in Order : Holds("hand", t, j)' <=> t = s /\ j = k - 1
  BY <1>2, <1>4, <1>6, HandNext
<1>8. \A t \in Frame, j \in Order :
         Holds("free", t, j)' <=> Holds("free", t, j) \/ (t = u /\ j = k - 1)
  <2>1. \A t \in Frame, j \in Order :
           t \in free'[j] <=> t \in free[j] \/ (t = u /\ j = k - 1)
    BY <1>1, <1>4, <1>5 DEF TypeOK
  <2> HIDE DEF u, k
  <2> QED BY <2>1, HoldsFact, HoldsNext
<1>9. \A l \in List, t \in Frame, j \in Order :
         Holds(l, t, j)' <=>
            ((Holds(l, t, j) /\ ~(l = "hand" /\ t = s /\ j = k))
               \/ (l = "hand" /\ t = s /\ j = k - 1)
               \/ (l = "free" /\ t = u /\ j = k - 1))
  <2> HIDE DEF u, k, s
  <2> QED BY <1>1, <1>2, <1>7, <1>8, SameNext, ListFact
<1>10. u \in Frame /\ Exact'
  <2> HIDE DEF s, k
  <2> QED BY <1>1, <1>2, <1>3, <1>9, SplitKeeps
<1>11. free' \in [Order -> SUBSET Frame] BY <1>1, <1>4, <1>5, <1>10 DEF TypeOK
<1>12. unused - 1 \in Nat BY <1>1, <1>3
<1> HIDE DEF s, k, u
<1>13. hand' \in [start : Frame, order : Order] /\ hand'.order = k - 1 /\ hand' # None
  BY <1>2, <1>4, <1>6, NoneAssumption
<1>14. TypeOK' BY <1>1, <1>11, <1>12, <1>13 DEF TypeOK
<1>15. call.order <= k - 1 /\ (k - 1) - call.order <= unused'
  BY <1>1, <1>3 DEF k
<1>16. CallInv' BY <1>1, <1>13, <1>15 DEF CallInv
<1> QED BY <1>10, <1>14, <1>16 DEF Inv

\* The end of a turn of refill_per_cpu_cache, or of alloc_block, keeps the invariant.
LEMMA InvPlace ==
    ASSUME Inv, Place
    PROVE  Inv'
<1> DEFINE s == hand.start
           k == call.order
           c == call.cpu
<1>1. /\ call.pc = "split" /\ k \in Order /\ hand.order = k /\ c \in Cpu
      /\ call.left \in Nat /\ call.left >= 1 /\ hand' = None
      /\ call \in [pc : PC, cpu : Cpu \cup {None}, order : Order, left : Nat]
      /\ TypeOK /\ CallInv /\ Exact
      /\ UNCHANGED <<unseeded, free, unused, page_cache>>
  BY DEF Inv, TypeOK, CallInv, Place
<1>2. /\ s \in Frame /\ Holds("hand", s, k)
      /\ \A t, j : Holds("hand", t, j) <=> t = s /\ j = k
  BY <1>1, HandFact
<1>3. \A t \in Frame, j \in Order : ~Holds("hand", t, j)' BY <1>1, <1>2, HandNext
<1>4. unseeded = {} BY <1>1, IdleFact DEF CallInv
<1>5. "hand" \in List /\ "allocated" \in List /\ c \in List BY <1>1 DEF List
<1>6. CASE k <= CacheMaxOrder
  <2>1. /\ cache' = [cache EXCEPT ![c][k] = @ \cup {s}]
        /\ call' = [call EXCEPT !.pc = IF call.left = 1 THEN "take" ELSE "search", !.left = @ - 1]
        /\ UNCHANGED allocations
    BY <1>6 DEF Place
  <2>2. CacheGains(c, s, k)
    <3> DEFINE S == cache[c][k] \cup {s}
    <3>1. cache' = [cache EXCEPT ![c][k] = S] BY <2>1
    <3>2. S \in SUBSET Frame BY <1>1, <1>2, <1>6, CacheFact
    <3> HIDE DEF c, k, s
    <3>3. S = cache[c][k] \cup {s} OBVIOUS
    <3> HIDE DEF S
    <3> QED BY <3>1, <3>2, <3>3, <1>1, <1>2, <1>6, CacheNext
  <2>3. /\ call' \in [pc : PC, cpu : Cpu \cup {None}, order : Order, left : Nat]
        /\ call'.pc \in {"take", "search"} /\ call'.cpu = c /\ call'.order = k
        /\ call'.left = call.left - 1 /\ (call'.pc = "search" => call.left # 1)
    <3> DEFINE pc == IF call.left = 1 THEN "take" ELSE "search"
    <3>1. pc \in {"take", "search"} /\ (pc = "search" => call.left # 1) OBVIOUS
    <3>2. call' = [call EXCEPT !.pc = pc, !.left = call.left - 1] BY <2>1
    <3>3. call.left - 1 \in Nat BY <1>1
    <3> HIDE DEF pc
    <3> QED BY <1>1, <3>1, <3>2, <3>3 DEF PC
  <2> HIDE DEF c, k, s
  <2>4. TypeOK' BY <1>1, <2>1, <2>2, <2>3 DEF TypeOK, CacheGains
  <2>5. CallInv' BY <1>1, <1>4, <1>6, <2>3 DEF CallInv
  <2>6. Moved("hand", c, s, k)
    BY <1>1, <1>2, <1>3, <2>1, <2>2, SameNext, ListFact DEF Moved, CacheGains
  <2>7. Exact' BY <1>1, <1>2, <1>5, <2>6, UnusedNat, MoveKeeps
  <2> QED BY <2>4, <2>5, <2>7 DEF Inv
<1>7. CASE ~(k <= CacheMaxOrder)
  <2>1. MarkAllocated(s, k) /\ call' = Idle /\ UNCHANGED cache BY <1>1, <1>7 DEF Place
  <2> HIDE DEF c, k, s
  <2>2. s \notin DOMAIN allocations BY <1>1, <1>2, <1>5, NotAllocated
  <2>3. /\ DOMAIN allocations' = DOMAIN allocations \cup {s}
        /\ allocations' \in [DOMAIN allocations \cup {s} -> Allocation]
        /\ \A t \in Frame, j \in Order :
              Holds("allocated", t, j)' <=> Holds("allocated", t, j) \/ (t = s /\ j = k)
    BY <1>1, <1>2, <2>1, <2>2, AllocNext
  <2>4. TypeOK' BY <1>1, <1>2, <2>1, <2>3, IdleFact DEF TypeOK
  <2>5. CallInv' BY <1>1, <2>1, IdleFact DEF CallInv
  <2>6. Moved("hand", "allocated", s, k)
    BY <1>1, <1>2, <1>3, <2>1, <2>3, SameNext, ListFact DEF Moved
  <2>7. Exact' BY <1>1, <1>2, <1>5, <2>6, UnusedNat, MoveKeeps
  <2> QED BY <2>4, <2>5, <2>7 DEF Inv
<1> QED BY <1>6, <1>7

\* try_recover_from_oom keeps the invariant.
LEMMA InvRecover ==
    ASSUME Inv, Recover
    PROVE  Inv'
  BY IdleFact, SameKeeps DEF Inv, TypeOK, CallInv, Recover, PC

\* retain_frame keeps the invariant.
LEMMA InvRetain ==
    ASSUME Inv, NEW s \in DOMAIN allocations, Retain(s)
    PROVE  Inv'
  BY BoundAssumption, SameKeeps DEF Inv, Retain, TypeOK, Allocation, CallInv

\* A page that enters the page cache keeps the invariant.
LEMMA InvCachePage ==
    ASSUME Inv, NEW s \in DOMAIN allocations, CachePage(s)
    PROVE  Inv'
  BY SameKeeps DEF Inv, CachePage, TypeOK, CallInv

\* What a call that frees needs of the block it has in hand
LEMMA Handed ==
    ASSUME NEW s \in Frame, NEW k \in Order, hand' = [start |-> s, order |-> k]
    PROVE  hand' \in [start : Frame, order : Order] /\ hand' # None
BY NoneAssumption

\* free_frame_on_cpu keeps the invariant.
LEMMA InvRelease ==
    ASSUME Inv, NEW c \in Cpu, NEW s \in DOMAIN allocations, Release(c, s)
    PROVE  Inv'
<1> DEFINE k == allocations[s].order
<1>1. /\ TypeOK /\ CallInv /\ Exact /\ unseeded = {} /\ call = Idle /\ hand = None
      /\ UNCHANGED <<unseeded, free, unused>> /\ s \in Frame
  BY IdleFact DEF Inv, TypeOK, CallInv, Release, Ready
<1>2. k \in Order /\ allocations[s] \in Allocation BY <1>1 DEF TypeOK, Allocation
<1>3. page_cache' \subseteq page_cache /\ (LastReference(s) => s \notin page_cache')
  BY DEF Release
<1>4. CASE ~LastReference(s)
  <2>1. /\ allocations' = [allocations EXCEPT ![s].refs = @ - 1]
        /\ UNCHANGED <<cache, call, hand>>
    BY <1>4 DEF Release
  <2>2. allocations[s].refs - 1 \in 1..MaxRefs
    BY <1>2, <1>4, BoundAssumption DEF Allocation, LastReference
  <2>3. /\ allocations' \in [DOMAIN allocations -> Allocation]
        /\ \A t \in DOMAIN allocations : allocations'[t].order = allocations[t].order
    BY <1>1, <1>2, <2>1, <2>2 DEF TypeOK, Allocation
  <2>4. TypeOK' BY <1>1, <1>3, <2>1, <2>3 DEF TypeOK
  <2>5. CallInv' BY <1>1, <2>1 DEF CallInv
  <2>6. Exact' BY <1>1, <2>1, <2>3, SameKeeps
  <2> QED BY <2>4, <2>5, <2>6 DEF Inv
<1>5. CASE LastReference(s)
  <2>1. /\ allocations' = [t \in DOMAIN allocations \ {s} |-> allocations[t]]
        /\ IF k <= CacheMaxOrder
           THEN /\ cache' = [cache EXCEPT ![c][k] = @ \cup {s}]
                /\ call' = IF Cardinality(cache[c][k]) + 1 > high_watermark(k)
                           THEN [pc |-> "drain", cpu |-> c, order |-> k, left |-> 0] ELSE Idle
                /\ UNCHANGED hand
           ELSE /\ hand' = [start |-> s, order |-> k]
                /\ call' = [pc |-> "merge", cpu |-> c, order |-> k, left |-> 0]
                /\ UNCHANGED cache
    BY <1>5 DEF Release
  <2>2. Holds("allocated", s, k) BY HoldsFact
  <2>3. k = allocations[s].order OBVIOUS
  <2> HIDE DEF k
  <2>4. /\ DOMAIN allocations' = DOMAIN allocations \ {s}
        /\ allocations' \in [DOMAIN allocations \ {s} -> Allocation]
        /\ \A t \in Frame, j \in Order :
              Holds("allocated", t, j)' <=> Holds("allocated", t, j) /\ ~(t = s /\ j = k)
    BY <1>1, <2>1, <2>3, FreedNext
  <2>5. page_cache' \subseteq DOMAIN allocations' BY <1>1, <1>3, <1>5, <2>4 DEF TypeOK
  <2>6. "hand" \in List /\ "allocated" \in List /\ c \in List BY DEF List
  <2>7. CASE k <= CacheMaxOrder
    <3>1. /\ cache' = [cache EXCEPT ![c][k] = @ \cup {s}] /\ hand' = hand
          /\ \/ call' = [pc |-> "drain", cpu |-> c, order |-> k, left |-> 0]
             \/ call' = Idle
      BY <2>1, <2>7
    <3>2. CacheGains(c, s, k)
      <4> DEFINE S == cache[c][k] \cup {s}
      <4>1. cache' = [cache EXCEPT ![c][k] = S] BY <3>1
      <4>2. S \in SUBSET Frame BY <1>1, <1>2, <2>7, CacheFact
      <4>3. S = cache[c][k] \cup {s} OBVIOUS
      <4> HIDE DEF S
      <4> QED BY <4>1, <4>2, <4>3, <1>1, <1>2, <2>7, CacheNext
    <3>3. /\ call' \in [pc : PC, cpu : Cpu \cup {None}, order : Order, left : Nat]
          /\ call'.pc \in {"idle", "drain"}
          /\ call'.pc = "drain" => call'.cpu = c /\ call'.order = k
      BY <1>2, <3>1, IdleFact DEF PC
    <3>4. TypeOK' BY <1>1, <2>4, <2>5, <3>1, <3>2, <3>3 DEF TypeOK, CacheGains
    <3>5. CallInv' BY <1>1, <2>7, <3>1, <3>3 DEF CallInv
    <3>6. Moved("allocated", c, s, k)
      BY <1>1, <2>4, <3>1, <3>2, SameNext, ListFact DEF Moved, CacheGains
    <3>7. Exact' BY <1>1, <1>2, <2>2, <2>6, <3>6, UnusedNat, MoveKeeps
    <3> QED BY <3>4, <3>5, <3>7 DEF Inv
  <2>8. CASE ~(k <= CacheMaxOrder)
    <3>1. /\ hand' = [start |-> s, order |-> k] /\ UNCHANGED cache
          /\ call' = [pc |-> "merge", cpu |-> c, order |-> k, left |-> 0]
      BY <2>1, <2>8
    <3>2. hand' \in [start : Frame, order : Order] /\ hand' # None BY <1>1, <1>2, <3>1, Handed
    <3>3. /\ call' \in [pc : PC, cpu : Cpu \cup {None}, order : Order, left : Nat]
          /\ call'.pc = "merge" /\ call'.cpu = c
      BY <1>2, <3>1 DEF PC
    <3>4. TypeOK' BY <1>1, <2>4, <2>5, <3>1, <3>2, <3>3 DEF TypeOK
    <3>5. CallInv' BY <1>1, <3>2, <3>3 DEF CallInv
    <3>6. Moved("allocated", "hand", s, k)
      BY <1>1, <1>2, <3>1, HandNext, <2>4, SameNext, ListFact DEF Moved
    <3>7. Exact' BY <1>1, <1>2, <2>2, <2>6, <3>6, UnusedNat, MoveKeeps
    <3> QED BY <3>4, <3>5, <3>7 DEF Inv
  <2> QED BY <2>7, <2>8
<1> QED BY <1>4, <1>5

\* A turn of drain_per_cpu_cache keeps the invariant.
LEMMA InvDrain ==
    ASSUME Inv, Drain
    PROVE  Inv'
<1> DEFINE k == call.order
           c == call.cpu
<1>1. /\ call.pc = "drain" /\ k \in Order /\ k <= CacheMaxOrder /\ c \in Cpu /\ hand = None
      /\ call \in [pc : PC, cpu : Cpu \cup {None}, order : Order, left : Nat]
      /\ TypeOK /\ CallInv /\ Exact
      /\ UNCHANGED <<unseeded, free, allocations, unused, page_cache>>
  BY DEF Inv, TypeOK, CallInv, Drain
<1>2. unseeded = {} BY <1>1, IdleFact DEF CallInv
<1>3. CASE call' = Idle /\ UNCHANGED <<cache, hand>>
  BY <1>1, <1>3, IdleFact, SameKeeps DEF TypeOK, CallInv, Inv
<1>4. ASSUME NEW s \in cache[c][k],
             cache' = [cache EXCEPT ![c][k] = @ \ {s}],
             hand' = [start |-> s, order |-> k],
             call' = [call EXCEPT !.pc = "merge"]
      PROVE  Inv'
  <2>1. s \in Frame /\ Holds(c, s, k)
    <3>1. cache[c][k] \in SUBSET Frame /\ Cached(c, k) = cache[c][k] BY <1>1, CacheFact
    <3>2. Holds(c, s, k) <=> s \in Cached(c, k) BY <1>1, HoldsFact
    <3> QED BY <3>1, <3>2
  <2>2. CacheLoses(c, s, k)
    <3> DEFINE S == cache[c][k] \ {s}
    <3>1. cache' = [cache EXCEPT ![c][k] = S] BY <1>4
    <3>2. S \in SUBSET Frame BY <1>1, CacheFact
    <3> HIDE DEF c, k
    <3>3. S = cache[c][k] \ {s} OBVIOUS
    <3> HIDE DEF S
    <3> QED BY <3>1, <3>2, <3>3, <1>1, <2>1, CacheNext
  <2>3. hand' \in [start : Frame, order : Order] /\ hand' # None BY <1>1, <1>4, <2>1, Handed
  <2>4. /\ call' \in [pc : PC, cpu : Cpu \cup {None}, order : Order, left : Nat]
        /\ call'.pc = "merge" /\ call'.cpu = c
    BY <1>1, <1>4 DEF PC
  <2> HIDE DEF c, k
  <2>5. TypeOK' BY <1>1, <2>2, <2>3, <2>4 DEF TypeOK, CacheLoses
  <2>6. CallInv' BY <1>1, <1>2, <2>3, <2>4 DEF CallInv
  <2>7. "hand" \in List /\ c \in List BY <1>1 DEF List
  <2>8. Moved(c, "hand", s, k)
    <3>1. \A t \in Frame, j \in Order : Holds("hand", t, j)' <=> t = s /\ j = k
      BY <1>1, <1>4, <2>1, HandNext
    <3>2. \A t \in Frame, j \in Order : ~Holds("hand", t, j)
      BY <1>1, <2>1, HandNext
    <3>3. c \in Cpu => c # "free" /\ c # "allocated" /\ c # "hand" BY NoneAssumption
    <3> QED BY <1>1, <2>2, <3>1, <3>2, <3>3, SameNext, ListFact DEF Moved, CacheLoses
  <2>9. Exact' BY <1>1, <2>1, <2>7, <2>8, UnusedNat, MoveKeeps
  <2> QED BY <2>5, <2>6, <2>9 DEF Inv
<1> QED BY <1>3, <1>4 DEF Drain

\* A turn of free_global_block's merging loop keeps the invariant.
LEMMA InvMerge ==
    ASSUME Inv, Merge
    PROVE  Inv'
<1> DEFINE s == hand.start
           k == hand.order
           b == Buddy(s, k)
           m == IF b < s THEN b ELSE s
<1>1. /\ call.pc = "merge" /\ TypeOK /\ CallInv /\ Exact
      /\ UNCHANGED <<unseeded, cache, allocations, call, page_cache>>
      /\ unused' = unused + 1
      /\ k < MaxOrder /\ b \in free[k]
      /\ free' = [free EXCEPT ![k] = @ \ {b}]
      /\ hand' = [start |-> m, order |-> k + 1]
  BY DEF Inv, Merge, Mergeable
<1>2. /\ s \in Frame /\ k \in Order /\ Holds("hand", s, k)
      /\ \A t, j : Holds("hand", t, j) <=> t = s /\ j = k
  BY <1>1, HandFact
<1>3. b = s + block_size(k) \/ b = s - block_size(k) BY DEF Buddy
<1>4. m = (IF b < s THEN b ELSE s) /\ b = Buddy(s, k) OBVIOUS
<1> HIDE DEF b, m, k, s
<1>5. b \in Frame /\ Holds("free", b, k)
  BY <1>1, <1>2, HoldsFact DEF TypeOK
<1>6. m \in Frame /\ k + 1 \in Order BY <1>1, <1>2, <1>4, <1>5, SizeFact
<1>7. /\ free' \in [Order -> SUBSET Frame]
      /\ \A t \in Frame, j \in Order :
            Holds("free", t, j)' <=> Holds("free", t, j) /\ ~(t = b /\ j = k)
  BY <1>1, <1>2, <1>5, FreeNext DEF TypeOK
<1>8. \A t \in Frame, j \in Order : Holds("hand", t, j)' <=> t = m /\ j = k + 1
  BY <1>1, <1>6, HandNext
<1>9. \A l \in List, t \in Frame, j \in Order :
         Holds(l, t, j)' <=>
            ((Holds(l, t, j) /\ ~(l = "hand" /\ t = s /\ j = k)
                             /\ ~(l = "free" /\ t = b /\ j = k))
               \/ (l = "hand" /\ t = m /\ j = k + 1))
  BY <1>1, <1>2, <1>7, <1>8, SameNext, ListFact
<1>10. Exact' BY <1>1, <1>2, <1>3, <1>4, <1>5, <1>9, UnusedNat, MergeKeeps
<1>11. hand' \in [start : Frame, order : Order] /\ hand' # None BY <1>1, <1>6, Handed
<1>12. unused' \in Nat BY <1>1 DEF TypeOK
<1>13. TypeOK' BY <1>1, <1>7, <1>11, <1>12 DEF TypeOK
<1>14. CallInv' BY <1>1, <1>11 DEF CallInv
<1> QED BY <1>10, <1>13, <1>14 DEF Inv

\* The end of free_global_block keeps the invariant.
LEMMA InvInsert ==
    ASSUME Inv, Insert
    PROVE  Inv'
<1> DEFINE s == hand.start
           k == hand.order
<1>1. /\ call.pc = "merge" /\ TypeOK /\ CallInv /\ Exact
      /\ call \in [pc : PC, cpu : Cpu \cup {None}, order : Order, left : Nat] /\ call.cpu \in Cpu
      /\ UNCHANGED <<unseeded, cache, allocations, unused, page_cache>>
      /\ free' = [free EXCEPT ![k] = @ \cup {s}] /\ hand' = None
  BY DEF Inv, Insert, TypeOK, CallInv
<1>2. unseeded = {} BY <1>1, IdleFact DEF CallInv
<1>3. /\ s \in Frame /\ k \in Order /\ Holds("hand", s, k)
      /\ \A t, j : Holds("hand", t, j) <=> t = s /\ j = k
  BY <1>1, HandFact
<1>4. /\ call' \in [pc : PC, cpu : Cpu \cup {None}, order : Order, left : Nat]
      /\ call'.pc \in {"idle", "drain"}
      /\ call'.pc = "drain" => call'.cpu \in Cpu /\ call'.order <= CacheMaxOrder
  BY <1>1, IdleFact DEF Insert, PC
<1> HIDE DEF s, k
<1>5. /\ free' \in [Order -> SUBSET Frame]
      /\ \A t \in Frame, j \in Order :
            Holds("free", t, j)' <=> Holds("free", t, j) \/ (t = s /\ j = k)
  BY <1>1, <1>3, FreeNext DEF TypeOK
<1>6. \A t \in Frame, j \in Order : ~Holds("hand", t, j)' BY <1>1, <1>3, HandNext
<1>7. TypeOK' BY <1>1, <1>4, <1>5 DEF TypeOK
<1>8. CallInv' BY <1>1, <1>2, <1>4 DEF CallInv
<1>9. Moved("hand", "free", s, k) BY <1>1, <1>3, <1>5, <1>6, SameNext, ListFact DEF Moved
<1>10. "hand" \in List /\ "free" \in List BY DEF List
<1>11. Exact' BY <1>1, <1>3, <1>9, <1>10, UnusedNat, MoveKeeps
<1> QED BY <1>7, <1>8, <1>11 DEF Inv

\* Every step keeps the invariant.
LEMMA InvNext == Inv /\ [Next]_vars => Inv'
<1> SUFFICES ASSUME Inv, [Next]_vars PROVE Inv' OBVIOUS
<1>1. CASE Seed BY <1>1, InvSeed
<1>2. CASE Search BY <1>2, InvSearch
<1>3. CASE Split BY <1>3, InvSplit
<1>4. CASE Place BY <1>4, InvPlace
<1>5. CASE Take BY <1>5, InvTake
<1>6. CASE Recover BY <1>6, InvRecover
<1>7. CASE Drain BY <1>7, InvDrain
<1>8. CASE Merge BY <1>8, InvMerge
<1>9. CASE Insert BY <1>9, InvInsert
<1>10. ASSUME NEW c \in Cpu, NEW count \in 1..block_size(MaxOrder), Alloc(c, count) PROVE Inv'
  BY <1>10, InvAlloc
<1>11. ASSUME NEW s \in DOMAIN allocations, Retain(s) PROVE Inv' BY <1>11, InvRetain
<1>12. ASSUME NEW s \in DOMAIN allocations, CachePage(s) PROVE Inv' BY <1>12, InvCachePage
<1>13. ASSUME NEW s \in DOMAIN allocations, NEW c \in Cpu, Release(c, s) PROVE Inv'
  BY <1>13, InvRelease
<1>14. CASE UNCHANGED vars
  BY <1>14, SameKeeps DEF vars, Inv, TypeOK, CallInv
<1> QED BY <1>1, <1>2, <1>3, <1>4, <1>5, <1>6, <1>7, <1>8, <1>9, <1>10, <1>11, <1>12, <1>13, <1>14
        DEF Next, Step

-----------------------------------------------------------------------------
(* Free memory is of use. *)

BuddiesMerged == \A k \in 0..(MaxOrder - 1) : \A s \in free[k] : Buddy(s, k) \notin free[k]
\* Memory is seeded from the first frame to the last, each time the largest
\* block that fits: what is left cannot be joined to a block on the lists.
SeededInOrder ==
    /\ \A f \in unseeded, g \in Frame \ unseeded : g < f
    /\ unseeded # {} =>
          \A k \in 0..(MaxOrder - 1) : \A s \in free[k] :
             s % block_size(k + 1) = 0 => ~(Extent(s + block_size(k), k) \subseteq unseeded)
\* A cache is beyond its watermark only while it is drained, and a refill stops
\* at a batch.
CacheBound ==
    \A c \in Cpu, k \in 0..CacheMaxOrder :
       \/ Cardinality(cache[c][k]) <= high_watermark(k)
       \/ call.pc \in {"drain", "merge"} /\ call.cpu = c /\ call.order = k
RefillBound ==
    call.pc \in {"search", "split"} /\ call.order <= CacheMaxOrder =>
       Cardinality(cache[call.cpu][call.order]) + call.left <= refill_batch(call.order)
UseInv == BuddiesMerged /\ SeededInOrder /\ CacheBound /\ RefillBound

\* The blocks on the free lists are aligned.
LEMMA FreeAligned ==
    ASSUME Inv, NEW k \in Order, NEW s \in free[k]
    PROVE  s \in Frame /\ s \in Nat /\ s % block_size(k) = 0 /\ <<"free", s, k>> \in Blocks
  BY HoldsFact, BlockFact, MapAssumption DEF Inv, TypeOK, List, Exact, Aligned

\* A list that loses a block has no free buddies, and one that gains a block
\* whose buddy is not free has none either.
LEMMA MergedLess ==
    ASSUME Inv, BuddiesMerged, NEW x, NEW j \in Order, free' = [free EXCEPT ![j] = @ \ {x}] \/ free' = free
    PROVE  BuddiesMerged'
<1>1. \A k \in Order : free'[k] \subseteq free[k] BY DEF Inv, TypeOK
<1>2. \A k \in 0..(MaxOrder - 1) : k \in Order BY OrderAssumption DEF Order
<1> QED BY <1>1, <1>2 DEF BuddiesMerged

LEMMA MergedMore ==
    ASSUME Inv, BuddiesMerged, NEW j \in Order, NEW x \in Nat, x % block_size(j) = 0,
           free' = [free EXCEPT ![j] = @ \cup {x}], j < MaxOrder => Buddy(x, j) \notin free[j]
    PROVE  BuddiesMerged'
<1> SUFFICES ASSUME NEW k \in 0..(MaxOrder - 1), NEW s \in free'[k], Buddy(s, k) \in free'[k] PROVE FALSE
  BY DEF BuddiesMerged
<1>1. k \in Order /\ k < MaxOrder BY OrderAssumption DEF Order
<1>2. free'[k] = IF k = j THEN free[k] \cup {x} ELSE free[k] BY <1>1 DEF Inv, TypeOK
<1>3. CASE s \in free[k] /\ Buddy(s, k) \in free[k] BY <1>3 DEF BuddiesMerged
<1>4. CASE k = j /\ s = x /\ Buddy(x, k) = x
  BY <1>1, SizeFact, <1>4 DEF Buddy
<1>5. CASE k = j /\ s = x /\ Buddy(x, k) \in free[k] BY <1>1, <1>5
<1>6. CASE k = j /\ s \in free[k] /\ Buddy(s, k) = x
  BY <1>1, <1>6, FreeAligned, BuddyAligned
<1> QED BY <1>2, <1>3, <1>4, <1>5, <1>6

\* A batch is at least one block and at most the watermark.
LEMMA WatermarkFact ==
    ASSUME NEW k \in 0..CacheMaxOrder
    PROVE  /\ refill_batch(k) \in Nat \ {0} /\ high_watermark(k) \in Nat
           /\ refill_batch(k) <= high_watermark(k)
<1>1. k \in Nat /\ CacheMaxOrder \in Nat BY BoundAssumption
<1>2. k < CacheMaxOrder => CacheMaxOrder - k \in 0..CacheMaxOrder BY <1>1
<1>3. k < CacheMaxOrder => 2^(CacheMaxOrder - k) \in Nat \ {0} BY <1>2, OrderAssumption, Zenon
<1>4. refill_batch(k) \in Nat \ {0} BY <1>3 DEF refill_batch
<1> HIDE DEF refill_batch
<1> QED BY <1>4 DEF high_watermark

LEMMA CacheFinite ==
    ASSUME TypeOK, NEW c \in Cpu, NEW k \in 0..CacheMaxOrder
    PROVE  IsFiniteSet(cache[c][k]) /\ Cardinality(cache[c][k]) \in Nat
<1>0. cache[c] \in [0..CacheMaxOrder -> SUBSET Frame] BY DEF TypeOK
<1>1. cache[c][k] \in SUBSET Frame BY <1>0
<1>2. IsFiniteSet(cache[c][k]) BY <1>1, MapAssumption, FS_Subset
<1> QED BY <1>2, FS_CardinalityType

\* A cache loses a block, or gains one: the sizes follow.
LEMMA CacheSizes ==
    ASSUME TypeOK, NEW c \in Cpu, NEW k \in 0..CacheMaxOrder, NEW x
    PROVE  /\ cache' = [cache EXCEPT ![c][k] = @ \ {x}] =>
                 \A d \in Cpu, j \in 0..CacheMaxOrder :
                    Cardinality(cache'[d][j]) \in Nat /\ Cardinality(cache'[d][j]) <= Cardinality(cache[d][j])
           /\ cache' = [cache EXCEPT ![c][k] = @ \cup {x}] =>
                 /\ Cardinality(cache'[c][k]) \in Nat /\ Cardinality(cache'[c][k]) <= Cardinality(cache[c][k]) + 1
                 /\ \A d \in Cpu, j \in 0..CacheMaxOrder :
                       (d # c \/ j # k) => cache'[d][j] = cache[d][j]
<1> DEFINE S == cache[c][k]
<1>1. cache \in [Cpu -> [0..CacheMaxOrder -> SUBSET Frame]] BY DEF TypeOK
<1>2. IsFiniteSet(S) /\ Cardinality(S) \in Nat BY CacheFinite
<1>3. ASSUME cache' = [cache EXCEPT ![c][k] = @ \ {x}], NEW d \in Cpu, NEW j \in 0..CacheMaxOrder
      PROVE  Cardinality(cache'[d][j]) \in Nat /\ Cardinality(cache'[d][j]) <= Cardinality(cache[d][j])
  BY <1>1, <1>3, CacheFinite, FS_Subset, FS_CardinalityType
<1>4. ASSUME cache' = [cache EXCEPT ![c][k] = @ \cup {x}]
      PROVE  /\ Cardinality(cache'[c][k]) \in Nat /\ Cardinality(cache'[c][k]) <= Cardinality(S) + 1
             /\ \A d \in Cpu, j \in 0..CacheMaxOrder : (d # c \/ j # k) => cache'[d][j] = cache[d][j]
  <2>1. cache'[c][k] = S \cup {x} BY <1>1, <1>4
  <2>2. \A d \in Cpu, j \in 0..CacheMaxOrder : (d # c \/ j # k) => cache'[d][j] = cache[d][j] BY <1>1, <1>4
  <2>3. CASE x \in S
    <3>1. cache'[c][k] = S BY <2>1, <2>3
    <3> HIDE DEF S
    <3>2. Cardinality(S) <= Cardinality(S) + 1 BY <1>2
    <3> QED BY <1>2, <2>2, <3>1, <3>2
  <2>4. CASE x \notin S
    <3>1. Cardinality(S \cup {x}) = Cardinality(S) + 1 BY <1>2, <2>4, FS_AddElement
    <3> QED BY <1>2, <2>1, <2>2, <3>1
  <2> QED BY <2>3, <2>4
<1> QED BY <1>3, <1>4

\* The caches stay, and the call goes on to free, ends or fails.
LEMMA BoundSame ==
    ASSUME TypeOK, CacheBound, cache' = cache,
           call.pc \in {"drain", "merge"} /\ call.order \in 0..CacheMaxOrder =>
              \/ call'.pc \in {"drain", "merge"} /\ call'.cpu = call.cpu /\ call'.order = call.order
              \/ Cardinality(cache[call.cpu][call.order]) <= high_watermark(call.order)
    PROVE  CacheBound'
BY DEF CacheBound, high_watermark, refill_batch
\* A cache loses a block.
LEMMA BoundLess ==
    ASSUME TypeOK, CacheBound, NEW c \in Cpu, NEW k \in 0..CacheMaxOrder, NEW x,
           cache' = [cache EXCEPT ![c][k] = @ \ {x}],
           \/ call.pc \notin {"drain", "merge"}
           \/ call'.pc \in {"drain", "merge"} /\ call'.cpu = call.cpu /\ call'.order = call.order
    PROVE  CacheBound'
<1> SUFFICES ASSUME NEW d \in Cpu, NEW j \in 0..CacheMaxOrder
             PROVE  \/ Cardinality(cache'[d][j]) <= high_watermark(j)
                    \/ call'.pc \in {"drain", "merge"} /\ call'.cpu = d /\ call'.order = j
  BY DEF CacheBound, high_watermark, refill_batch
<1>1. Cardinality(cache'[d][j]) \in Nat /\ Cardinality(cache'[d][j]) <= Cardinality(cache[d][j])
  BY CacheSizes
<1>2. Cardinality(cache[d][j]) \in Nat /\ high_watermark(j) \in Nat BY CacheFinite, WatermarkFact
<1> QED BY <1>1, <1>2 DEF CacheBound
\* A cache gains a block.
LEMMA BoundMore ==
    ASSUME TypeOK, CacheBound, NEW c \in Cpu, NEW k \in 0..CacheMaxOrder, NEW x,
           cache' = [cache EXCEPT ![c][k] = @ \cup {x}], call.pc \notin {"drain", "merge"},
           \/ Cardinality(cache[c][k]) + 1 <= high_watermark(k)
           \/ call'.pc = "drain" /\ call'.cpu = c /\ call'.order = k
    PROVE  CacheBound'
<1> SUFFICES ASSUME NEW d \in Cpu, NEW j \in 0..CacheMaxOrder
             PROVE  \/ Cardinality(cache'[d][j]) <= high_watermark(j)
                    \/ call'.pc \in {"drain", "merge"} /\ call'.cpu = d /\ call'.order = j
  BY DEF CacheBound, high_watermark, refill_batch
<1>1. /\ Cardinality(cache'[c][k]) \in Nat /\ Cardinality(cache'[c][k]) <= Cardinality(cache[c][k]) + 1
      /\ \A e \in Cpu, i \in 0..CacheMaxOrder : (e # c \/ i # k) => cache'[e][i] = cache[e][i]
  BY CacheSizes
<1>2. Cardinality(cache[c][k]) \in Nat /\ high_watermark(k) \in Nat BY CacheFinite, WatermarkFact
<1>3. CASE d = c /\ j = k BY <1>1, <1>2, <1>3
<1>4. CASE d # c \/ j # k BY <1>1, <1>4 DEF CacheBound
<1> QED BY <1>3, <1>4

\* Once bootstrap is over, nothing is left to seed.
LEMMA SeededLater ==
    ASSUME Inv, unseeded' = unseeded, unseeded = {} \/ call.pc # "idle"
    PROVE  SeededInOrder'
  BY DEF Inv, CallInv, Idle, SeededInOrder

\* Nothing that matters to the use of memory changes.
LEMMA UseSame ==
    ASSUME UseInv, UNCHANGED <<unseeded, free, cache, call>>
    PROVE  UseInv'
BY DEF UseInv, BuddiesMerged, SeededInOrder, CacheBound, RefillBound, high_watermark, refill_batch

\* Before anything is seeded, lists and caches are empty.
LEMMA UseInit == Init => UseInv
<1> SUFFICES ASSUME Init PROVE UseInv OBVIOUS
<1>1. BuddiesMerged BY OrderAssumption DEF Init, BuddiesMerged, Order
<1>2. SeededInOrder BY OrderAssumption DEF Init, SeededInOrder, Order
<1>3. CacheBound
  BY FS_EmptySet, WatermarkFact DEF CacheBound, Init
<1>4. RefillBound BY DEF Init, Idle, RefillBound
<1> QED BY <1>1, <1>2, <1>3, <1>4 DEF UseInv

\* seed_global_free_region: the buddy of the block it puts on a list comes
\* later, or came before and would have taken this block with it.
LEMMA UseSeed ==
    ASSUME Inv, UseInv, Seed
    PROVE  UseInv'
<1> DEFINE s == Least(unseeded)
<1>1. PICK k \in Order : /\ Fits(s, k) /\ \A j \in Order : Fits(s, j) => j <= k
                         /\ unseeded' = unseeded \ Extent(s, k)
                         /\ free' = [free EXCEPT ![k] = @ \cup {s}]
  BY DEF Seed
<1>2. unseeded \in SUBSET Nat /\ unseeded # {} /\ unseeded \subseteq Frame
  BY MapAssumption DEF Inv, TypeOK, Seed
<1>3. s \in unseeded /\ \A y \in unseeded : s <= y BY <1>2, LeastFact
<1> HIDE DEF s
<1>4. s \in Nat /\ s \in Frame BY <1>2, <1>3
<1>5. block_size(k) \in Nat \ {0} /\ (k < MaxOrder => k + 1 \in Order /\ block_size(k + 1) = 2 * block_size(k))
  BY SizeFact
<1>6. Extent(s, k) \subseteq unseeded /\ s % block_size(k) = 0 BY <1>1 DEF Fits
<1>7. \A f : f \in Extent(s, k) <=> f \in Int /\ s <= f /\ f < s + block_size(k) BY <1>4, ExtentFact
<1>8. \A f \in unseeded, g \in Frame \ unseeded : g < f BY DEF UseInv, SeededInOrder
<1>9. \A j \in 0..(MaxOrder - 1) : \A t \in free[j] :
         t % block_size(j + 1) = 0 => ~(Extent(t + block_size(j), j) \subseteq unseeded)
  BY <1>2 DEF UseInv, SeededInOrder
<1>10. ASSUME k < MaxOrder, Buddy(s, k) \in free[k] PROVE FALSE
  <2> DEFINE b == Buddy(s, k)
  <2>1. b \in Frame /\ b \in Nat /\ <<"free", b, k>> \in Blocks BY <1>10, FreeAligned
  <2>2. \/ b = s + block_size(k)
        \/ b = s - block_size(k) /\ (s - block_size(k)) % (2 * block_size(k)) = 0
    BY <1>4, <1>6, BuddyAligned
  <2> HIDE DEF b
  <2>3. CASE b = s + block_size(k)
    <3>1. b \in Frames(<<"free", b, k>>) BY <2>1, ExtentFact DEF Frames
    <3>2. InSome(b, Blocks) BY <2>1, <3>1 DEF InSome
    <3>3. b \notin unseeded BY <3>2, CoversFact DEF Inv, Exact
    <3>4. b < s BY <1>3, <1>8, <2>1, <3>3
    <3> QED BY <1>4, <1>5, <2>3, <3>4
  <2>4. CASE b = s - block_size(k) /\ (s - block_size(k)) % (2 * block_size(k)) = 0
    BY <1>10, OrderAssumption, <1>5, <2>4, <1>4, <1>9, <1>6 DEF Order, b
  <2> QED BY <2>2, <2>3, <2>4
<1>11. BuddiesMerged' BY <1>1, <1>4, <1>6, <1>10, MergedMore DEF UseInv
<1>12. \A f \in unseeded', g \in Frame \ unseeded' : g < f
  BY <1>1, <1>2, <1>3, MapAssumption, <1>8, <1>4, <1>5, <1>7
<1>13. ASSUME NEW j \in 0..(MaxOrder - 1), NEW t \in free'[j], t % block_size(j + 1) = 0,
              Extent(t + block_size(j), j) \subseteq unseeded'
       PROVE  FALSE
  <2>1. j \in Order /\ j < MaxOrder BY OrderAssumption DEF Order
  <2>2. free'[j] = IF j = k THEN free[j] \cup {s} ELSE free[j] BY <1>1, <2>1 DEF Inv, TypeOK
  <2>3. Extent(t + block_size(j), j) \subseteq unseeded BY <1>1, <1>13
  <2>4. CASE t \in free[j] BY <1>9, <1>13, <2>3, <2>4
  <2>5. CASE j = k /\ t = s
    <3>1. k + 1 \in Order /\ k + 1 > 0 /\ (k + 1) - 1 = k BY <1>5, <2>1, <2>5, OrderAssumption DEF Order
    <3>2. \A f : f \in Extent(s, k + 1) <=> f \in Extent(s, k) \/ f \in Extent(s + block_size(k), k)
      BY <1>4, <3>1, HalvesFact
    <3>3. Fits(s, k + 1) BY <1>6, <1>13, <2>3, <2>5, <3>2 DEF Fits
    <3>4. k + 1 <= k BY <1>1, <3>1, <3>3
    <3> QED BY <3>4, <3>1, OrderAssumption DEF Order
  <2> QED BY <2>2, <2>4, <2>5
<1>14. SeededInOrder' BY <1>12, <1>13 DEF SeededInOrder
<1>15. CacheBound' /\ RefillBound'
  BY DEF Seed, UseInv, CacheBound, RefillBound, high_watermark, refill_batch
<1> QED BY <1>11, <1>14, <1>15 DEF UseInv

\* cpu_pop: the cache has a block less, and the call ends.
LEMMA UseTakeCached ==
    ASSUME Inv, UseInv, NEW c \in Cpu, NEW k \in Order, TakeCached(c, k),
           unseeded = {} \/ call.pc # "idle", call.pc \notin {"drain", "merge"}
    PROVE  UseInv'
<1>1. PICK s \in Cached(c, k) : cache' = [cache EXCEPT ![c][k] = @ \ {s}] BY DEF TakeCached
<1>2. k \in 0..CacheMaxOrder BY <1>1, OrderAssumption, BoundAssumption DEF Cached, Order
<1>3. call' = Idle /\ unseeded' = unseeded /\ free' = free BY DEF TakeCached
<1>4. BuddiesMerged' BY <1>3, MergedLess DEF UseInv
<1>5. SeededInOrder' BY <1>3, SeededLater
<1>6. CacheBound' BY <1>1, <1>2, BoundLess DEF Inv, UseInv
<1>7. RefillBound' BY <1>3 DEF RefillBound, Idle
<1> QED BY <1>4, <1>5, <1>6, <1>7 DEF UseInv

\* alloc_frame_4k_on_cpu: a refill starts with an empty cache.
LEMMA UseAlloc ==
    ASSUME Inv, UseInv, NEW c \in Cpu, NEW count \in 1..block_size(MaxOrder), Alloc(c, count)
    PROVE  UseInv'
<1> DEFINE k == order_for_count(count)
<1>1. k \in Order BY OrderFact
<1>2. Ready BY DEF Alloc
<1>3. call.pc = "idle" /\ unseeded = {} BY <1>2 DEF Ready, Idle
<1>4. CASE Cached(c, k) # {}
  <2>1. TakeCached(c, k) BY <1>4 DEF Alloc
  <2> HIDE DEF k
  <2> QED BY <1>1, <1>3, <2>1, UseTakeCached
<1>5. CASE Cached(c, k) = {}
  <2>1. /\ call' = [pc |-> "search", cpu |-> c, order |-> k, left |-> refill_batch(k)]
        /\ cache' = cache /\ free' = free /\ unseeded' = unseeded
    BY <1>5 DEF Alloc
  <2> HIDE DEF k
  <2>2. BuddiesMerged' BY <1>1, <2>1, MergedLess DEF UseInv
  <2>3. SeededInOrder' BY <1>3, <2>1, SeededLater
  <2>4. CacheBound' BY <1>3, <2>1, BoundSame DEF Inv, UseInv
  <2>5. ASSUME k <= CacheMaxOrder PROVE Cardinality(cache'[c][k]) + refill_batch(k) <= refill_batch(k)
    BY <1>5, <2>1, <2>5, FS_EmptySet, <1>1, BatchFact DEF Cached
  <2>6. call'.cpu = c /\ call'.order = k /\ call'.left = refill_batch(k) BY <2>1
  <2>7. RefillBound' BY <2>5, <2>6 DEF RefillBound, refill_batch
  <2> QED BY <2>2, <2>3, <2>4, <2>7 DEF UseInv
<1> QED BY <1>4, <1>5

\* alloc_from_global: a list loses a block, and the refill is no further.
LEMMA UseSearch ==
    ASSUME Inv, UseInv, Search
    PROVE  UseInv'
<1>1. call.pc = "search" /\ cache' = cache /\ unseeded' = unseeded BY DEF Search
<1>2. call \in [pc : PC, cpu : Cpu \cup {None}, order : Order, left : Nat] BY DEF Inv, TypeOK
<1>3. \/ free' = free
      \/ \E k \in Order : \E x : free' = [free EXCEPT ![k] = @ \ {x}]
  <2>1. CASE Large(call.order) = {} BY <2>1 DEF Search
  <2>2. CASE Large(call.order) # {}
    <3> DEFINE k == Least(Large(call.order))
    <3>1. Large(call.order) \in SUBSET Nat BY OrderAssumption DEF Large, Order
    <3>2. k \in Large(call.order) BY <2>2, <3>1, LeastFact
    <3>3. k \in Order BY <3>2 DEF Large
    <3> QED BY <2>2, <3>3 DEF Search
  <2> QED BY <2>1, <2>2
<1>4. BuddiesMerged'
  BY <1>2, MergedLess, <1>3 DEF UseInv
<1>5. SeededInOrder' BY <1>1, SeededLater
<1>6. CacheBound' BY <1>1, BoundSame DEF Inv, UseInv
<1>7. \/ call'.pc \in {"take", "recover", "idle"}
      \/ call'.pc = "split" /\ call'.cpu = call.cpu /\ call'.order = call.order /\ call'.left = call.left
  BY <1>2 DEF Search, AfterOutOfMemory, Idle
<1>8. RefillBound'
  BY <1>1, <1>7 DEF RefillBound, UseInv, refill_batch
<1> QED BY <1>4, <1>5, <1>6, <1>8 DEF UseInv

\* split_to_order: the buddy of the half that goes back is the half in hand.
LEMMA UseSplit ==
    ASSUME Inv, UseInv, Split
    PROVE  UseInv'
<1> DEFINE k == hand.order
           s == hand.start
           x == hand.start + block_size(hand.order - 1)
<1>1. call.pc = "split" /\ cache' = cache /\ unseeded' = unseeded /\ call' = call BY DEF Split
<1>2. s \in Frame /\ k \in Order /\ Holds("hand", s, k) BY <1>1, HandFact
<1>3. <<"hand", s, k>> \in Blocks BY <1>2, BlockFact DEF List
<1>4. s \in Nat /\ s % block_size(k) = 0 BY <1>2, <1>3, MapAssumption DEF Inv, Exact, Aligned
<1>5. call.order \in Order BY DEF Inv, TypeOK
<1>6. k > 0 BY <1>2, <1>5, OrderAssumption DEF Split, Order
<1>7. k - 1 \in Order /\ block_size(k - 1) \in Nat \ {0} BY <1>2, <1>6, SizeFact
<1>8. free' = [free EXCEPT ![k - 1] = @ \cup {x}] BY DEF Split, UpperHalf
<1> HIDE DEF k, s
<1>9. x \in Nat /\ x % block_size(k - 1) = 0 /\ Buddy(x, k - 1) = s
  BY <1>2, <1>4, <1>6, <1>7, HalvesAligned DEF k, s
<1> HIDE DEF x
<1>10. s \notin free[k - 1]
  <2> SUFFICES ASSUME s \in free[k - 1] PROVE FALSE OBVIOUS
  <2>1. <<"free", s, k - 1>> \in Blocks BY <1>7, FreeAligned
  <2>2. s \in Frames(<<"free", s, k - 1>>) /\ s \in Frames(<<"hand", s, k>>)
    BY <1>2, <1>7, ExtentFact DEF Frames
  <2>3. <<"free", s, k - 1>> = <<"hand", s, k>> BY <1>3, <2>1, <2>2, SameBlock DEF Inv
  <2> QED BY <2>3
<1>11. BuddiesMerged' BY <1>7, <1>8, <1>9, <1>10, MergedMore DEF UseInv
<1>12. SeededInOrder' BY <1>1, SeededLater
<1>13. CacheBound' /\ RefillBound'
  BY <1>1 DEF UseInv, CacheBound, RefillBound, high_watermark, refill_batch
<1> QED BY <1>11, <1>12, <1>13 DEF UseInv

\* cpu_push, of a refill: a block more, and one less to go.
LEMMA UsePlace ==
    ASSUME Inv, UseInv, Place
    PROVE  UseInv'
<1>1. call.pc = "split" /\ unseeded' = unseeded /\ free' = free BY DEF Place
<1>2. call \in [pc : PC, cpu : Cpu \cup {None}, order : Order, left : Nat] BY DEF Inv, TypeOK
<1>3. call.cpu \in Cpu /\ call.order \in Order /\ call.left \in Nat BY <1>1, <1>2 DEF Inv, CallInv
<1>4. BuddiesMerged' BY <1>1, <1>3, MergedLess DEF UseInv
<1>5. SeededInOrder' BY <1>1, SeededLater
<1>6. CASE call.order <= CacheMaxOrder
  <2> DEFINE c == call.cpu
             k == call.order
  <2>1. k \in 0..CacheMaxOrder BY <1>3, <1>6, OrderAssumption, BoundAssumption DEF Order
  <2>2. cache' = [cache EXCEPT ![c][k] = @ \cup {hand.start}] BY <1>6 DEF Place
  <2>3. Cardinality(cache[c][k]) + call.left <= refill_batch(k) BY <1>1, <1>6 DEF UseInv, RefillBound
  <2>4. call.left >= 1 BY <1>1 DEF Inv, CallInv
  <2>5. /\ call'.pc \in {"take", "search"} /\ call'.cpu = c /\ call'.order = k
        /\ call'.left = call.left - 1
    BY <1>2, <1>6 DEF Place
  <2> HIDE DEF c, k
  <2>6. Cardinality(cache[c][k]) \in Nat BY <1>3, <2>1, CacheFinite DEF Inv, c
  <2>7. refill_batch(k) \in Nat /\ high_watermark(k) \in Nat /\ refill_batch(k) <= high_watermark(k)
    BY <2>1, WatermarkFact
  <2>8. Cardinality(cache[c][k]) + 1 <= high_watermark(k) BY <1>3, <2>3, <2>4, <2>6, <2>7
  <2>9. c \in Cpu BY <1>3 DEF c
  <2>10. CacheBound' BY <1>1, <2>1, <2>2, <2>8, <2>9, BoundMore DEF Inv, UseInv
  <2>11. Cardinality(cache'[c][k]) \in Nat /\ Cardinality(cache'[c][k]) <= Cardinality(cache[c][k]) + 1
    BY <2>1, <2>2, <2>9, CacheSizes DEF Inv
  <2>12. Cardinality(cache'[c][k]) + (call.left - 1) <= refill_batch(k)
    BY <1>3, <2>3, <2>4, <2>6, <2>7, <2>11
  <2>13. RefillBound' BY <2>5, <2>12 DEF RefillBound, refill_batch
  <2> QED BY <1>4, <1>5, <2>10, <2>13 DEF UseInv
<1>7. CASE ~(call.order <= CacheMaxOrder)
  <2>1. call' = Idle /\ cache' = cache BY <1>7 DEF Place
  <2>2. CacheBound' BY <1>1, <2>1, BoundSame DEF Inv, UseInv
  <2>3. RefillBound' BY <2>1 DEF RefillBound, Idle
  <2> QED BY <1>4, <1>5, <2>2, <2>3 DEF UseInv
<1> QED BY <1>6, <1>7

\* try_recover_from_oom changes no list.
LEMMA UseRecover ==
    ASSUME Inv, UseInv, Recover
    PROVE  UseInv'
  BY MergedLess, SeededLater, BoundSame DEF Recover, Idle, Inv, TypeOK, UseInv, RefillBound

\* free_frame_on_cpu: a cache that is over its watermark is drained.
LEMMA UseRelease ==
    ASSUME Inv, UseInv, NEW c \in Cpu, NEW s \in DOMAIN allocations, Release(c, s)
    PROVE  UseInv'
<1> DEFINE k == allocations[s].order
<1>1. Ready /\ unseeded' = unseeded /\ free' = free BY DEF Release
<1>2. call.pc = "idle" /\ unseeded = {} BY <1>1 DEF Ready, Idle
<1>3. k \in Order BY DEF Inv, TypeOK, Allocation
<1>4. CASE ~LastReference(s)
  BY <1>4, <1>1, UseSame DEF Release
<1>5. BuddiesMerged' BY <1>1, <1>3, MergedLess DEF UseInv
<1>6. SeededInOrder' BY <1>1, <1>2, SeededLater
<1>7. CASE LastReference(s) /\ k <= CacheMaxOrder
  <2>1. k \in 0..CacheMaxOrder BY <1>3, <1>7, OrderAssumption, BoundAssumption DEF Order
  <2>2. /\ cache' = [cache EXCEPT ![c][k] = @ \cup {s}]
        /\ call' = IF Cardinality(cache[c][k]) + 1 > high_watermark(k)
                   THEN [pc |-> "drain", cpu |-> c, order |-> k, left |-> 0] ELSE Idle
    BY <1>7 DEF Release
  <2> HIDE DEF k
  <2>3. Cardinality(cache[c][k]) \in Nat /\ high_watermark(k) \in Nat
    BY <2>1, CacheFinite, WatermarkFact DEF Inv
  <2>4. \/ Cardinality(cache[c][k]) + 1 <= high_watermark(k)
        \/ call'.pc = "drain" /\ call'.cpu = c /\ call'.order = k
    BY <2>2, <2>3
  <2>5. CacheBound' BY <1>2, <2>1, <2>2, <2>4, BoundMore DEF Inv, UseInv
  <2>6. RefillBound' BY <2>2 DEF RefillBound, Idle
  <2> QED BY <1>5, <1>6, <2>5, <2>6 DEF UseInv
<1>8. CASE LastReference(s) /\ ~(k <= CacheMaxOrder)
  BY <1>8, <1>2, BoundSame, <1>5, <1>6 DEF Release, Inv, UseInv, RefillBound
<1> QED BY <1>4, <1>7, <1>8

\* drain_per_cpu_cache: it ends with a batch at most.
LEMMA UseDrain ==
    ASSUME Inv, UseInv, Drain
    PROVE  UseInv'
<1> DEFINE c == call.cpu
           k == call.order
<1>1. call.pc = "drain" /\ unseeded' = unseeded /\ free' = free BY DEF Drain
<1>2. call \in [pc : PC, cpu : Cpu \cup {None}, order : Order, left : Nat] BY DEF Inv, TypeOK
<1>3. c \in Cpu /\ k \in Order /\ k <= CacheMaxOrder BY <1>1, <1>2 DEF Inv, CallInv
<1>4. k \in 0..CacheMaxOrder BY <1>3, OrderAssumption, BoundAssumption DEF Order
<1>5. BuddiesMerged' BY <1>1, <1>3, MergedLess DEF UseInv
<1>6. SeededInOrder' BY <1>1, SeededLater
<1>7. CASE Cardinality(cache[c][k]) > refill_batch(k)
  <2>1. PICK s \in cache[c][k] : /\ cache' = [cache EXCEPT ![c][k] = @ \ {s}]
                                 /\ call' = [call EXCEPT !.pc = "merge"]
    BY <1>7 DEF Drain
  <2>2. call'.pc = "merge" /\ call'.cpu = call.cpu /\ call'.order = call.order BY <1>2, <2>1
  <2>3. CacheBound'
    <3> HIDE DEF c, k
    <3> QED BY <1>3, <1>4, <2>1, <2>2, BoundLess DEF Inv, UseInv
  <2>4. RefillBound' BY <2>2 DEF RefillBound
  <2> QED BY <1>5, <1>6, <2>3, <2>4 DEF UseInv
<1>8. CASE ~(Cardinality(cache[c][k]) > refill_batch(k))
  <2>1. call' = Idle /\ cache' = cache BY <1>8 DEF Drain
  <2>2. Cardinality(cache[c][k]) \in Nat BY <1>3, <1>4, CacheFinite DEF Inv
  <2>3. refill_batch(k) \in Nat /\ high_watermark(k) \in Nat /\ refill_batch(k) <= high_watermark(k)
    BY <1>4, WatermarkFact
  <2>4. Cardinality(cache[c][k]) <= high_watermark(k) BY <1>8, <2>2, <2>3
  <2>5. CacheBound' BY <2>1, <2>4, BoundSame DEF Inv, UseInv
  <2>6. RefillBound' BY <2>1 DEF RefillBound, Idle
  <2> QED BY <1>5, <1>6, <2>5, <2>6 DEF UseInv
<1> QED BY <1>7, <1>8

\* free_global_block: a buddy comes off its list ...
LEMMA UseMerge ==
    ASSUME Inv, UseInv, Merge
    PROVE  UseInv'
  BY HandFact, MergedLess, SeededLater DEF Merge, UseInv, CacheBound, RefillBound, high_watermark,
     refill_batch

\* ... and a block goes onto a list its buddy is not on.
LEMMA UseInsert ==
    ASSUME Inv, UseInv, Insert
    PROVE  UseInv'
<1> DEFINE k == hand.order
           s == hand.start
<1>1. call.pc = "merge" /\ cache' = cache /\ unseeded' = unseeded BY DEF Insert
<1>2. s \in Frame /\ k \in Order /\ Holds("hand", s, k) BY <1>1, HandFact
<1>3. <<"hand", s, k>> \in Blocks BY <1>2, BlockFact DEF List
<1>4. s \in Nat /\ s % block_size(k) = 0 BY <1>2, <1>3, MapAssumption DEF Inv, Exact, Aligned
<1>5. free' = [free EXCEPT ![k] = @ \cup {s}] /\ (k < MaxOrder => Buddy(s, k) \notin free[k])
  BY DEF Insert, Mergeable
<1>6. call \in [pc : PC, cpu : Cpu \cup {None}, order : Order, left : Nat] BY DEF Inv, TypeOK
<1>7. BuddiesMerged'
  <2> HIDE DEF s, k
  <2> QED BY <1>2, <1>4, <1>5, MergedMore DEF UseInv
<1>8. SeededInOrder' BY <1>1, SeededLater
<1>9. call'.pc \in {"drain", "idle"} BY <1>6 DEF Insert, Idle
<1>10. call.order <= CacheMaxOrder => call'.pc = "drain" /\ call'.cpu = call.cpu /\ call'.order = call.order
  BY <1>6 DEF Insert
<1>11. call.order \in 0..CacheMaxOrder => call.order <= CacheMaxOrder BY BoundAssumption
<1>12. CacheBound' BY <1>1, <1>10, <1>11, BoundSame DEF Inv, UseInv
<1>13. RefillBound' BY <1>9 DEF RefillBound
<1> QED BY <1>7, <1>8, <1>12, <1>13 DEF UseInv

\* Every step keeps free memory of use.
LEMMA UseNext == Inv /\ UseInv /\ [Next]_vars => UseInv'
<1> SUFFICES ASSUME Inv, UseInv, [Next]_vars PROVE UseInv' OBVIOUS
<1>1. CASE Seed BY <1>1, UseSeed
<1>2. CASE Search BY <1>2, UseSearch
<1>3. CASE Split BY <1>3, UseSplit
<1>4. CASE Place BY <1>4, UsePlace
<1>5. CASE Take
  BY <1>5, UseTakeCached DEF Inv, TypeOK, CallInv, Take
<1>6. CASE Recover BY <1>6, UseRecover
<1>7. CASE Drain BY <1>7, UseDrain
<1>8. CASE Merge BY <1>8, UseMerge
<1>9. CASE Insert BY <1>9, UseInsert
<1>10. ASSUME NEW c \in Cpu, NEW count \in 1..block_size(MaxOrder), Alloc(c, count) PROVE UseInv'
  BY <1>10, UseAlloc
<1>11. ASSUME NEW s \in DOMAIN allocations, Retain(s) PROVE UseInv' BY <1>11, UseSame DEF Retain
<1>12. ASSUME NEW s \in DOMAIN allocations, CachePage(s) PROVE UseInv' BY <1>12, UseSame DEF CachePage
<1>13. ASSUME NEW s \in DOMAIN allocations, NEW c \in Cpu, Release(c, s) PROVE UseInv'
  BY <1>13, UseRelease
<1>14. CASE UNCHANGED vars BY <1>14, UseSame DEF vars
<1> QED BY <1>1, <1>2, <1>3, <1>4, <1>5, <1>6, <1>7, <1>8, <1>9, <1>10, <1>11, <1>12, <1>13, <1>14
        DEF Next, Step

\* For every memory map and every number of CPUs and nodes, however memory is
\* split, cached, merged and handed out, the blocks of buddy.rs are aligned, share
\* no frame, lose none and have a node each; free buddies are merged, and no CPU
\* keeps more than its watermark once the call is over.
THEOREM Memory == Spec => []MemoryExact
<1>1. Init => Inv /\ UseInv BY InvInit, UseInit
<1>2. Inv /\ UseInv /\ [Next]_vars => (Inv /\ UseInv)' BY InvNext, UseNext
<1>3. Inv /\ UseInv => MemoryExact
  <2> SUFFICES ASSUME Inv, UseInv PROVE MemoryExact OBVIOUS
  <2>1. ValidateInvariants BY DEF Inv, Exact, Aligned, Counted, ValidateInvariants
  <2>2. FreeMemoryUsable BY DEF UseInv, BuddiesMerged, CacheBound, FreeMemoryUsable, Idle, high_watermark, refill_batch
  <2> QED BY <2>1, <2>2 DEF MemoryExact
<1> QED BY <1>1, <1>2, <1>3, PTL DEF Spec

-----------------------------------------------------------------------------
(* The allocator is a frame store. *)

\* What callers own.
LEMMA OwnedFact ==
    /\ DOMAIN owned = DOMAIN allocations
    /\ \A s \in DOMAIN allocations :
          owned[s] = [count |-> block_size(allocations[s].order), refs |-> allocations[s].refs]
BY DEF owned

\* What callers own after a step.
LEMMA OwnedNext ==
    owned' = [s \in DOMAIN allocations' |->
               [count |-> block_size(allocations'[s].order), refs |-> allocations'[s].refs]]
BY DEF owned

\* Steps that leave the allocations alone are invisible to callers.
LEMMA OwnedSame == allocations' = allocations => owned' = owned
BY DEF owned

\* A block that nobody owns goes to the caller.
LEMMA StoreAlloc ==
    ASSUME Inv, NEW p \in List, p # "allocated", NEW s \in Frame, NEW k \in Order,
           Holds(p, s, k), MarkAllocated(s, k)
    PROVE  Store!Next
<1> DEFINE n == block_size(k)
           last == s + n - 1
<1>1. TypeOK /\ Exact /\ Disjoint /\ Covers BY DEF Inv, Exact
<1>2. s \in Nat /\ n \in Nat \ {0} BY SizeFact, ExtentFact
<1>3. <<p, s, k>> \in Blocks /\ Frames(<<p, s, k>>) = s..last BY BlockFact DEF Frames, Extent
<1>4. s..last \subseteq Frame
  BY <1>3, <1>1, CoversFact DEF InSome
<1>5. last \in s..last /\ s <= last /\ last - s + 1 = n BY <1>2
<1>6. last \in Frame BY <1>4, <1>5
<1>7. ASSUME NEW t \in DOMAIN owned PROVE Store!Run(t, owned[t].count) \cap (s..last) = {}
  <2> DEFINE j == allocations[t].order
             b == <<"allocated", t, j>>
  <2>1. t \in DOMAIN allocations /\ t \in Frame /\ j \in Order
    BY <1>1, <1>7, OwnedFact DEF TypeOK, Allocation
  <2>2. b \in Blocks
    BY <2>1, HoldsFact, BlockFact DEF List
  <2>3. b # <<p, s, k>> OBVIOUS
  <2>4. Frames(b) = t..(t + block_size(j) - 1) BY DEF Frames, Extent
  <2>5. owned[t].count = block_size(j) BY <2>1, OwnedFact
  <2>6. Frames(b) \cap (s..last) = {}
    <3> HIDE DEF b
    <3> QED BY <1>1, <1>3, <2>2, <2>3 DEF Disjoint
  <2> QED BY <2>4, <2>5, <2>6 DEF Store!Run
<1>8. s \notin DOMAIN allocations BY <1>1, NotAllocated
<1>9. owned' = [t \in DOMAIN owned \cup {s} |->
                  IF t = s THEN [count |-> last - s + 1, refs |-> 1] ELSE owned[t]]
  <2>1. /\ DOMAIN allocations' = DOMAIN allocations \cup {s}
        /\ \A t \in DOMAIN allocations : allocations'[t] = allocations[t]
        /\ allocations'[s] = [order |-> k, refs |-> 1]
    BY <1>8 DEF MarkAllocated
  <2>2. \A t \in DOMAIN allocations \cup {s} :
           [count |-> block_size(allocations'[t].order), refs |-> allocations'[t].refs] =
           IF t = s THEN [count |-> last - s + 1, refs |-> 1] ELSE owned[t]
    <3> HIDE DEF last
    <3> QED BY <1>5, <1>8, <2>1, OwnedFact
  <2> HIDE DEF n, last
  <2> QED BY <2>1, <2>2, OwnedFact, OwnedNext
<1>10. Store!Alloc(s, last) BY <1>4, <1>5, <1>7, <1>9 DEF Store!Alloc
<1> HIDE DEF last
<1> QED BY <1>6, <1>10 DEF Store!Next

\* A block from a CPU's cache is an allocation of the store.
LEMMA StoreTakeCached ==
    ASSUME Inv, NEW c \in Cpu, NEW k \in Order, TakeCached(c, k)
    PROVE  Store!Next
  BY CacheFact, HoldsFact, NoneAssumption, StoreAlloc DEF TakeCached, Cached, Inv, List

\* retain_frame is the store's Retain.
LEMMA StoreRetain ==
    ASSUME Inv, NEW s \in DOMAIN allocations, Retain(s)
    PROVE  Store!Next
<1>1. /\ DOMAIN allocations' = DOMAIN allocations
      /\ \A t \in DOMAIN allocations : /\ allocations'[t].order = allocations[t].order
                                       /\ t # s => allocations'[t].refs = allocations[t].refs
      /\ allocations'[s].refs = allocations[s].refs + 1
  BY DEF Retain, Inv, TypeOK, Allocation
<1>2. owned' = [owned EXCEPT ![s].refs = @ + 1]
  BY <1>1, OwnedNext DEF owned
<1> QED BY <1>2, OwnedFact DEF Store!Next, Store!Retain

\* free_frame_on_cpu is the store's Release.
LEMMA StoreRelease ==
    ASSUME Inv, NEW c \in Cpu, NEW s \in DOMAIN allocations, Release(c, s)
    PROVE  Store!Next
<1>1. owned[s].refs = allocations[s].refs /\ allocations[s].refs \in Nat \ {0}
  BY OwnedFact, BoundAssumption DEF Inv, TypeOK, Allocation
<1>2. CASE ~LastReference(s)
  <2>1. /\ DOMAIN allocations' = DOMAIN allocations
        /\ \A t \in DOMAIN allocations : /\ allocations'[t].order = allocations[t].order
                                         /\ t # s => allocations'[t].refs = allocations[t].refs
        /\ allocations'[s].refs = allocations[s].refs - 1
    BY <1>2 DEF Release, Inv, TypeOK, Allocation
  <2>2. owned' = [owned EXCEPT ![s].refs = @ - 1] BY <2>1, OwnedNext DEF owned
  <2>3. owned[s].refs > 1 BY <1>1, <1>2 DEF LastReference
  <2> QED BY <2>2, <2>3, OwnedFact DEF Store!Next, Store!Release
<1>3. CASE LastReference(s)
  <2>1. allocations' = [t \in DOMAIN allocations \ {s} |-> allocations[t]]
    BY <1>3 DEF Release
  <2>2. owned' = [t \in DOMAIN owned \ {s} |-> owned[t]]
    BY <2>1, OwnedNext, OwnedFact
  <2>3. ~(owned[s].refs > 1) BY <1>1, <1>3 DEF LastReference
  <2> QED BY <2>2, <2>3, OwnedFact DEF Store!Next, Store!Release
<1> QED BY <1>2, <1>3

\* Every step is a step of the store, or none.
LEMMA StoreStep == Inv /\ [Next]_vars => [Store!Next]_owned
<1> SUFFICES ASSUME Inv, [Next]_vars PROVE Store!Next \/ owned' = owned OBVIOUS
<1>1. CASE Seed BY <1>1, OwnedSame DEF Seed
<1>2. CASE Search BY <1>2, OwnedSame DEF Search
<1>3. CASE Split BY <1>3, OwnedSame DEF Split
<1>4. CASE Place
  BY <1>4, OwnedSame, HandFact, StoreAlloc DEF Place, List
<1>5. CASE Take
  BY <1>5, StoreTakeCached DEF Inv, TypeOK, CallInv, Take
<1>6. CASE Recover BY <1>6, OwnedSame DEF Recover
<1>7. CASE Drain BY <1>7, OwnedSame DEF Drain
<1>8. CASE Merge BY <1>8, OwnedSame DEF Merge
<1>9. CASE Insert BY <1>9, OwnedSame DEF Insert
<1>10. ASSUME NEW c \in Cpu, NEW count \in 1..block_size(MaxOrder), Alloc(c, count)
       PROVE  Store!Next \/ owned' = owned
  BY <1>10, OrderFact, StoreTakeCached, OwnedSame DEF Alloc
<1>11. ASSUME NEW s \in DOMAIN allocations, Retain(s) PROVE Store!Next BY <1>11, StoreRetain
<1>12. ASSUME NEW s \in DOMAIN allocations, CachePage(s) PROVE owned' = owned
  BY <1>12, OwnedSame DEF CachePage
<1>13. ASSUME NEW s \in DOMAIN allocations, NEW c \in Cpu, Release(c, s) PROVE Store!Next
  BY <1>13, StoreRelease
<1>14. CASE UNCHANGED vars BY <1>14, OwnedSame DEF vars
<1> QED BY <1>1, <1>2, <1>3, <1>4, <1>5, <1>6, <1>7, <1>8, <1>9, <1>10, <1>11, <1>12, <1>13, <1>14
        DEF Next, Step

\* For every memory map and every number of CPUs and nodes, what a caller of the
\* FrameAllocator trait sees of buddy.rs is a frame store: frames that nobody else
\* owns, references that are counted, and the last release alone gives them back.
THEOREM AllocatorImplements == Spec => ImplementsFrameStore
<1>1. Init => Inv BY InvInit
<1>2. Inv /\ [Next]_vars => Inv' BY InvNext
<1>3. Init => Store!Init BY DEF Init, Store!Init, owned
<1>4. Inv /\ [Next]_vars => [Store!Next]_owned BY StoreStep
<1> QED BY <1>1, <1>2, <1>3, <1>4, PTL DEF Spec, ImplementsFrameStore, Store!Spec
=============================================================================
