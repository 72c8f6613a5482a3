---------------------------- MODULE StacksProofs ----------------------------
(***************************************************************************)
(* Proofs about the heap and about task creation and stacks, in every      *)
(* execution of StacksSpec: for every arena, pool and sequence of calls.   *)
(***************************************************************************)
EXTENDS Stacks, SequenceTheorems, WellFoundedInduction, TLAPS

-----------------------------------------------------------------------------
(* What the list reaches.  `reached` is a recursive function: that it       *)
(* exists, and what it holds, is shown by a least counterexample.           *)
Below == { ab \in Nat \X Nat : ab[1] < ab[2] }

LEMMA LeastNumber ==
  ASSUME NEW S \in SUBSET Nat, S # {}
  PROVE  \E n \in S : \A m \in S : n <= m
<1>1. OpToRel(<, Nat) = Below
  BY DEF OpToRel, Below
<1>2. IsWellFoundedOn(Below, Nat)
  BY <1>1, NatLessThanWellFounded, Zenon
<1>3. \E n \in S : \A m \in S : ~ (<<m, n>> \in Below)
  BY <1>2, WFMin, Zenon
<1>4. ASSUME NEW m \in Nat, NEW n \in Nat, m < n
      PROVE  <<m, n>> \in Below
  BY <1>4 DEF Below
<1>5. PICK n \in S : \A m \in S : ~ (<<m, n>> \in Below)
  BY <1>3
<1>6. \A m \in S : ~ (m < n)
  BY <1>4, <1>5
<1> QED
  BY <1>5, <1>6

(* The blocks one step further down the list. *)
Onwards(S, b) == S \cup ({ b[a].next : a \in S } \ {Null})

Solves(f, b, n) ==
  f = [i \in 0 .. n |-> IF i = 0 THEN {heap_head} ELSE Onwards(f[i - 1], b)]

LEMMA ReachExtends ==
  ASSUME NEW b, NEW m \in Nat, NEW f, Solves(f, b, m)
  PROVE  \E g : Solves(g, b, m + 1)
<1> DEFINE last == Onwards(f[m], b)
           g == [i \in 0 .. m + 1 |-> IF i <= m THEN f[i] ELSE last]
<1>1. \A i \in 0 .. m : f[i] = IF i = 0 THEN {heap_head} ELSE Onwards(f[i - 1], b)
  BY DEF Solves
<1>2. ASSUME NEW i \in 0 .. m + 1
      PROVE  g[i] = IF i = 0 THEN {heap_head} ELSE Onwards(g[i - 1], b)
  <2>1. CASE i = m + 1
    <3>1. g[i] = Onwards(f[m], b) /\ g[i - 1] = f[m] /\ i # 0
      BY <2>1
    <3> QED
      BY <3>1
  <2>2. CASE i # m + 1
    <3>1. i \in 0 .. m /\ g[i] = f[i]
      BY <2>2
    <3>2. i # 0 => g[i - 1] = f[i - 1]
      BY <3>1
    <3> QED
      BY <1>1, <3>1, <3>2
  <2> QED
    BY <2>1, <2>2
<1>3. g = [i \in 0 .. m + 1 |-> g[i]]
  OBVIOUS
<1> HIDE DEF g
<1>4. Solves(g, b, m + 1)
  BY <1>2, <1>3 DEF Solves
<1> QED
  BY <1>4

LEMMA ReachExists ==
  ASSUME NEW b, NEW n \in Nat
  PROVE  \E f : Solves(f, b, n)
<1> DEFINE Unsolved == { m \in Nat : ~ \E f : Solves(f, b, m) }
<1>1. ASSUME Unsolved # {}
      PROVE  FALSE
  <2>1. PICK m \in Unsolved : \A k \in Unsolved : m <= k
    BY <1>1, LeastNumber
  <2>2. m # 0
    <3>1. Solves([i \in 0 .. 0 |-> {heap_head}], b, 0)
      BY DEF Solves
    <3> QED
      BY <3>1
  <2>3. PICK k \in Nat : k = m - 1
    BY <2>2
  <2>4. k \notin Unsolved
    BY <2>1, <2>3
  <2>5. PICK f : Solves(f, b, k)
    BY <2>4
  <2>6. \E g : Solves(g, b, k + 1)
    BY <2>5, ReachExtends
  <2>7. k + 1 = m
    BY <2>1, <2>3
  <2> QED
    BY <2>1, <2>6, <2>7
<1> QED
  BY <1>1

LEMMA ReachSolves ==
  ASSUME NEW b
  PROVE  \E f : ReachedIn(b) = f[ArenaSize] /\ Solves(f, b, ArenaSize)
<1>1. ArenaSize \in Nat
  BY HeapAssumption
<1>2. PICK f : Solves(f, b, ArenaSize)
  BY <1>1, ReachExists
<1>3. \E g : g = [n \in 0 .. ArenaSize |->
                    IF n = 0 THEN {heap_head}
                    ELSE g[n - 1] \cup ({ b[a].next : a \in g[n - 1] } \ {Null})]
  BY <1>2 DEF Solves, Onwards
<1>4. PICK g : /\ ReachedIn(b) = g[ArenaSize]
               /\ g = [n \in 0 .. ArenaSize |->
                    IF n = 0 THEN {heap_head}
                    ELSE g[n - 1] \cup ({ b[a].next : a \in g[n - 1] } \ {Null})]
  BY <1>3 DEF ReachedIn
<1>5. Solves(g, b, ArenaSize)
  BY <1>4 DEF Solves, Onwards
<1> QED
  BY <1>4, <1>5

Blocks == [Addrs -> [size : Addrs, is_free : BOOLEAN, next : Addrs \cup {Null}]]

EndOf(b, a) == a + HEADER + b[a].size

(* The facts of a tiling, one block at a time.                              *)
LEMMA TilingFacts ==
  ASSUME NEW S, NEW b \in Blocks, Tiling(S, b)
  PROVE  /\ S \in SUBSET Nat /\ S \in SUBSET Addrs /\ 0 \in S
         /\ HEADER \in Nat \ {0} /\ ArenaSize \in Nat
         /\ \A a \in S :
              /\ b[a].size \in Nat /\ EndOf(b, a) \in Nat
              /\ a < EndOf(b, a) /\ EndOf(b, a) <= ArenaSize
              /\ b[a].next = Null => EndOf(b, a) = ArenaSize
              /\ b[a].next # Null =>
                   b[a].next \in S /\ EndOf(b, a) = b[a].next /\ a < b[a].next
              /\ EndOf(b, a) = ArenaSize => b[a].next = Null
         /\ \A a \in S : a # 0 => \E p \in S : b[p].next = a /\ p < a
<1>1. HEADER \in Nat \ {0} /\ ArenaSize \in Nat
  BY HeapAssumption
<1>2. S \in SUBSET Nat /\ S \in SUBSET Addrs /\ 0 \in S
  BY <1>1 DEF Tiling, Addrs, heap_head
<1>3. ASSUME NEW a \in S
      PROVE  /\ b[a].size \in Nat /\ EndOf(b, a) \in Nat
             /\ a < EndOf(b, a) /\ EndOf(b, a) <= ArenaSize
             /\ b[a].next = Null => EndOf(b, a) = ArenaSize
             /\ b[a].next # Null =>
                   b[a].next \in S /\ EndOf(b, a) = b[a].next /\ a < b[a].next
             /\ EndOf(b, a) = ArenaSize => b[a].next = Null
  <2>1. b[a].size \in Nat /\ a \in Nat
    BY <1>1, <1>2 DEF Blocks, Addrs
  <2>2. /\ b[a].next \in S \cup {Null}
        /\ EndOf(b, a) = IF b[a].next = Null THEN ArenaSize ELSE b[a].next
    BY DEF Tiling, EndOf
  <2>3. EndOf(b, a) \in Nat /\ a < EndOf(b, a)
    BY <1>1, <2>1 DEF EndOf
  <2>4. \A x \in S : x < ArenaSize
    BY <1>1, <1>2 DEF Addrs
  <2> QED
    BY <1>1, <2>1, <2>2, <2>3, <2>4
<1>4. ASSUME NEW a \in S, a # 0
      PROVE  \E p \in S : b[p].next = a /\ p < a
  <2>1. PICK p \in S : b[p].next = a
    BY <1>4 DEF Tiling, heap_head
  <2>2. a # Null
    BY <1>2 DEF Null
  <2> QED
    BY <1>3, <2>1, <2>2
<1> QED
  BY <1>1, <1>2, <1>3, <1>4

(* The blocks that tile the arena are the blocks of the list.               *)
LEMMA TilingReached ==
  ASSUME NEW S, NEW b \in Blocks, Tiling(S, b)
  PROVE  ReachedIn(b) = S
<1> DEFINE N == ArenaSize
<1>1. PICK f : ReachedIn(b) = f[N] /\ Solves(f, b, N)
  BY ReachSolves
<1>2. /\ f[0] = {0}
      /\ \A i \in 1 .. N : f[i] = Onwards(f[i - 1], b)
  <2>1. \A i \in 0 .. N : f[i] = IF i = 0 THEN {heap_head} ELSE Onwards(f[i - 1], b)
    BY <1>1 DEF Solves
  <2>2. N \in Nat
    BY HeapAssumption
  <2> QED
    BY <2>1, <2>2 DEF heap_head
<1>3. N \in Nat /\ S \in SUBSET Nat /\ 0 \in S /\ \A a \in S : a < N
  BY TilingFacts DEF Addrs
<1>4. \A i \in 0 .. N : f[i] \subseteq S
  <2> DEFINE Bad == { i \in 0 .. N : ~ (f[i] \subseteq S) }
  <2>1. ASSUME Bad # {}
        PROVE  FALSE
    <3>1. Bad \in SUBSET Nat
      BY <1>3
    <3>2. PICK i \in Bad : \A k \in Bad : i <= k
      <4> HIDE DEF Bad
      <4> QED
        BY <2>1, <3>1, LeastNumber
    <3>3. i \in 1 .. N
      BY <1>2, <1>3, <3>2
    <3>4. i - 1 \in 0 .. N /\ ~ (i <= i - 1)
      BY <1>3, <3>3
    <3>5. f[i - 1] \subseteq S
      BY <3>2, <3>4
    <3>6. \A a \in S : b[a].next \in S \cup {Null}
      BY DEF Tiling
    <3>7. f[i] \subseteq S
      BY <1>2, <3>3, <3>5, <3>6 DEF Onwards
    <3> QED
      BY <3>2, <3>7
  <2> QED
    BY <2>1
<1>5. \A i \in 0 .. N : \A a \in S : a <= i => a \in f[i]
  <2> DEFINE Bad == { i \in 0 .. N : \E a \in S : a <= i /\ a \notin f[i] }
  <2>1. ASSUME Bad # {}
        PROVE  FALSE
    <3>1. Bad \in SUBSET Nat
      BY <1>3
    <3>2. PICK i \in Bad : \A k \in Bad : i <= k
      <4> HIDE DEF Bad
      <4> QED
        BY <2>1, <3>1, LeastNumber
    <3>3. PICK a \in S : a <= i /\ a \notin f[i]
      BY <3>2
    <3>4. i \in 1 .. N
      BY <1>2, <1>3, <3>2, <3>3
    <3>5. i - 1 \in 0 .. N /\ ~ (i <= i - 1)
      BY <1>3, <3>4
    <3>6. \A x \in S : x <= i - 1 => x \in f[i - 1]
      BY <3>2, <3>5
    <3>7. f[i] = Onwards(f[i - 1], b)
      BY <1>2, <3>4
    <3>8. a = i
      BY <1>3, <3>3, <3>4, <3>6, <3>7 DEF Onwards
    <3>9. PICK p \in S : b[p].next = a /\ p < a
      BY <1>3, <3>4, <3>8, TilingFacts
    <3>10. p \in f[i - 1]
      BY <1>3, <3>4, <3>6, <3>8, <3>9
    <3>11. a # Null
      BY <1>3 DEF Null
    <3> QED
      BY <3>3, <3>7, <3>9, <3>10, <3>11 DEF Onwards
  <2> QED
    BY <2>1
<1>6. f[N] \subseteq S /\ S \subseteq f[N]
  BY <1>3, <1>4, <1>5
<1> QED
  BY <1>1, <1>6
-----------------------------------------------------------------------------
(* Blocks that tile the arena lie apart from one another ...                *)
LEMMA TilingApart ==
  ASSUME NEW S, NEW b \in Blocks, Tiling(S, b), NEW x \in S, NEW y \in S, x < y
  PROVE  EndOf(b, x) <= y
<1> DEFINE Bad == { z \in S : \E w \in S : w < z /\ z < EndOf(b, w) }
<1>1. S \in SUBSET Nat
  BY TilingFacts
<1>2. ASSUME Bad # {}
      PROVE  FALSE
  <2>1. Bad \in SUBSET Nat
    BY <1>1
  <2>2. PICK z \in Bad : \A k \in Bad : z <= k
    <3> HIDE DEF Bad
    <3> QED
      BY <1>2, <2>1, LeastNumber
  <2>3. PICK w \in S : w < z /\ z < EndOf(b, w)
    BY <2>2
  <2>4. z \in S /\ z # 0
    BY <1>1, <2>2, <2>3
  <2>5. PICK p \in S : b[p].next = z /\ p < z
    BY <2>4, TilingFacts
  <2>6. EndOf(b, p) = z
    <3>1. b[p].next # Null
      BY <1>1, <2>4, <2>5 DEF Null
    <3> QED
      BY <2>5, <3>1, TilingFacts
  <2>7. p # w
    BY <1>1, <2>3, <2>4, <2>6
  <2>8. CASE p < w
    <3>1. w \in Bad
      BY <2>3, <2>5, <2>6, <2>8
    <3> QED
      BY <1>1, <2>2, <2>3, <2>4, <3>1
  <2>9. CASE w < p
    <3>1. EndOf(b, w) \in Nat
      BY TilingFacts
    <3>2. p \in Nat /\ z \in Nat
      BY <1>1, <2>4
    <3>3. p < EndOf(b, w)
      BY <2>3, <2>5, <3>1, <3>2
    <3>4. p \in Bad
      BY <2>9, <3>3
    <3> QED
      BY <2>2, <2>5, <3>2, <3>4
  <2> QED
    BY <1>1, <2>5, <2>7, <2>8, <2>9
<1>3. EndOf(b, x) \in Nat
  BY TilingFacts
<1> QED
  BY <1>1, <1>2, <1>3

(* ... and cover it.                                                        *)
LEMMA TilingCovers ==
  ASSUME NEW S, NEW b \in Blocks, Tiling(S, b), NEW x \in Addrs
  PROVE  \E a \in S : a <= x /\ x < EndOf(b, a)
<1> DEFINE Covered(z) == \E a \in S : a <= z /\ z < EndOf(b, a)
           Bad == { z \in Addrs : ~ Covered(z) }
<1>1. Addrs \in SUBSET Nat /\ S \in SUBSET Nat /\ ArenaSize \in Nat /\ 0 \in S
  BY TilingFacts DEF Addrs
<1>2. ASSUME Bad # {}
      PROVE  FALSE
  <2>1. Bad \in SUBSET Nat
    BY <1>1
  <2>2. PICK z \in Bad : \A k \in Bad : z <= k
    <3> HIDE DEF Bad
    <3> QED
      BY <1>2, <2>1, LeastNumber
  <2>3. \A a \in S : EndOf(b, a) \in Nat /\ a < EndOf(b, a)
    BY TilingFacts
  <2>4. z # 0 /\ z \notin S
    BY <1>1, <2>2, <2>3
  <2>5. z - 1 \in Addrs /\ ~ (z <= z - 1)
    BY <1>1, <2>2, <2>4 DEF Addrs
  <2>6. PICK a \in S : a <= z - 1 /\ z - 1 < EndOf(b, a)
    BY <2>2, <2>5
  <2>7. EndOf(b, a) = z
    <3>1. ~ (a <= z /\ z < EndOf(b, a))
      BY <2>2
    <3>2. z \in Nat /\ a \in Nat /\ EndOf(b, a) \in Nat
      BY <1>1, <2>1, <2>2, <2>3
    <3> QED
      BY <2>6, <3>1, <3>2
  <2>8. z # ArenaSize
    BY <1>1, <2>2 DEF Addrs
  <2> QED
    BY <2>4, <2>7, <2>8, TilingFacts
<1> QED
  BY <1>2

(* A change of nothing but is_free leaves the tiling as it was.             *)
LEMMA TilingKept ==
  ASSUME NEW S, NEW b \in Blocks, Tiling(S, b), NEW b2 \in Blocks,
         \A a \in S : b2[a].size = b[a].size /\ b2[a].next = b[a].next
  PROVE  Tiling(S, b2)
BY DEF Tiling

FlagOf(b, a, v) == [b EXCEPT ![a].is_free = v]

AfterFlag(b, b2, a, v) ==
  /\ b2 \in Blocks
  /\ b2[a].size = b[a].size /\ b2[a].next = b[a].next
  /\ b2[a].is_free = v
  /\ \A x \in Addrs \ {a} : b2[x] = b[x]

LEMMA Flagged ==
  ASSUME NEW b \in Blocks, NEW a \in Addrs, NEW v \in BOOLEAN,
         NEW b2, b2 = FlagOf(b, a, v)
  PROVE  AfterFlag(b, b2, a, v)
<1>1. b[a] \in [size : Addrs, is_free : BOOLEAN, next : Addrs \cup {Null}]
  BY DEF Blocks
<1>2. PICK r : r = [b[a] EXCEPT !.is_free = v]
  OBVIOUS
<1>3. /\ r \in [size : Addrs, is_free : BOOLEAN, next : Addrs \cup {Null}]
      /\ r.size = b[a].size /\ r.next = b[a].next /\ r.is_free = v
  BY <1>1, <1>2
<1>4. b2 = [b EXCEPT ![a] = r]
  BY <1>2 DEF FlagOf
<1>5. b2 \in Blocks /\ b2[a] = r /\ \A x \in Addrs \ {a} : b2[x] = b[x]
  BY <1>3, <1>4 DEF Blocks
<1> QED
  BY <1>3, <1>5 DEF AfterFlag

(* The remainder of a block that is split joins the list behind it.         *)
SplitOf(b, a, n, new) ==
  [b EXCEPT
     ![new] = [size |-> b[a].size - n - HEADER, is_free |-> TRUE, next |-> b[a].next],
     ![a]   = [size |-> n, is_free |-> FALSE, next |-> new]]

AfterSplit(S, b, b2, a, n, new) ==
  /\ new \in Addrs \ S
  /\ b2 \in Blocks
  /\ b2[a].size = n /\ b2[a].is_free = FALSE /\ b2[a].next = new
  /\ b2[new].is_free = TRUE /\ b2[new].next = b[a].next
  /\ \A x \in S \ {a} : b2[x] = b[x]
  /\ Tiling(S \cup {new}, b2)

LEMMA TilingSplit ==
  ASSUME NEW S, NEW b \in Blocks, Tiling(S, b), NEW a \in S, NEW n \in Nat,
         b[a].size > n + HEADER,
         NEW new, new = a + HEADER + n,
         NEW b2, b2 = SplitOf(b, a, n, new)
  PROVE  AfterSplit(S, b, b2, a, n, new)
<1>1. /\ S \in SUBSET Nat /\ S \in SUBSET Addrs /\ 0 \in S
      /\ HEADER \in Nat \ {0} /\ ArenaSize \in Nat
      /\ b[a].size \in Nat /\ EndOf(b, a) \in Nat /\ EndOf(b, a) <= ArenaSize
      /\ EndOf(b, a) = a + HEADER + b[a].size
  BY TilingFacts DEF EndOf
<1>2. new \in Nat /\ a < new /\ new < EndOf(b, a) /\ new + HEADER < EndOf(b, a)
  BY <1>1
<1>3. new \in Addrs
  BY <1>1, <1>2 DEF Addrs
<1>4. new \notin S
  BY <1>1, <1>2, TilingApart
<1>5. n \in Addrs /\ b[a].size - n - HEADER \in Addrs
  BY <1>1 DEF Addrs
<1>6. b[a].next \in Addrs \cup {Null}
  BY <1>1 DEF Blocks
<1>7. a # new /\ a \in Addrs
  BY <1>1, <1>4
<1>8. b2 \in Blocks
  BY <1>3, <1>5, <1>6, <1>7 DEF Blocks, SplitOf
<1>9. /\ b2[a] = [size |-> n, is_free |-> FALSE, next |-> new]
      /\ b2[new] = [size |-> b[a].size - n - HEADER, is_free |-> TRUE,
                    next |-> b[a].next]
      /\ \A x \in Addrs \ {a, new} : b2[x] = b[x]
  BY <1>3, <1>7 DEF Blocks, SplitOf
<1>10. new # Null
  BY <1>2 DEF Null
<1>11. b2[a].size = n /\ b2[a].is_free = FALSE /\ b2[a].next = new
  BY <1>9
<1>12. /\ b2[new].size = b[a].size - n - HEADER
       /\ b2[new].is_free = TRUE /\ b2[new].next = b[a].next
  BY <1>9
<1>13. \A x \in S \ {a} : b2[x] = b[x]
  BY <1>1, <1>4, <1>9
<1>14. \A x \in S :
         /\ b[x].next \in S \cup {Null}
         /\ x + HEADER + b[x].size = IF b[x].next = Null THEN ArenaSize ELSE b[x].next
  BY DEF Tiling
<1>15. ASSUME NEW x \in S \cup {new}
       PROVE  /\ b2[x].next \in S \cup {new} \cup {Null}
              /\ x + HEADER + b2[x].size =
                   IF b2[x].next = Null THEN ArenaSize ELSE b2[x].next
  <2>1. CASE x = a
    BY <1>1, <1>2, <1>10, <1>11, <2>1
  <2>2. CASE x = new
    <3>1. new + HEADER + (b[a].size - n - HEADER) = a + HEADER + b[a].size
      BY <1>1
    <3> QED
      BY <1>12, <1>14, <2>2, <3>1
  <2>3. CASE x \notin {a, new}
    BY <1>13, <1>14, <2>3
  <2> QED
    BY <2>1, <2>2, <2>3
<1>16. ASSUME NEW x \in (S \cup {new}) \ {heap_head}
       PROVE  \E p \in S \cup {new} : b2[p].next = x
  <2>1. CASE x = new
    BY <1>11, <2>1
  <2>2. CASE x # new
    <3>1. PICK p \in S : b[p].next = x
      BY <2>2 DEF Tiling
    <3>2. CASE p = a
      BY <1>12, <3>1, <3>2
    <3>3. CASE p # a
      BY <1>13, <3>1, <3>3
    <3> QED
      BY <3>2, <3>3
  <2> QED
    BY <2>1, <2>2
<1>17. Tiling(S \cup {new}, b2)
  BY <1>1, <1>3, <1>15, <1>16 DEF Tiling, heap_head
<1> QED
  BY <1>3, <1>4, <1>8, <1>11, <1>12, <1>13, <1>17 DEF AfterSplit

(* A block swallowed by the one before it leaves the list.                  *)
MergeOf(b, a) == [b EXCEPT ![a] = Merged(b[a], b[b[a].next])]

AfterMerge(S, b, b2, a, succ) ==
  /\ b2 \in Blocks
  /\ b2[a].is_free = b[a].is_free /\ b2[a].next = b[succ].next
  /\ \A x \in S \ {a} : b2[x] = b[x]
  /\ Tiling(S \ {succ}, b2)

LEMMA TilingMerge ==
  ASSUME NEW S, NEW b \in Blocks, Tiling(S, b), NEW a \in S, b[a].next # Null,
         NEW succ, succ = b[a].next,
         NEW b2, b2 = MergeOf(b, a)
  PROVE  succ \in S /\ a # succ /\ AfterMerge(S, b, b2, a, succ)
<1>1. /\ S \in SUBSET Nat /\ S \in SUBSET Addrs /\ 0 \in S
      /\ HEADER \in Nat \ {0} /\ ArenaSize \in Nat
  BY TilingFacts
<1>2. /\ succ \in S /\ succ = a + HEADER + b[a].size /\ a < succ /\ b[a].size \in Nat
  BY TilingFacts DEF EndOf
<1>3. /\ b[succ].size \in Nat /\ succ + HEADER + b[succ].size <= ArenaSize
  BY <1>2, TilingFacts DEF EndOf
<1>4. PICK m \in Nat : m = b[a].size + HEADER + b[succ].size
  BY <1>1, <1>2, <1>3
<1>5. m \in Addrs /\ a + HEADER + m = succ + HEADER + b[succ].size
  BY <1>1, <1>2, <1>3, <1>4 DEF Addrs
<1>6. Merged(b[a], b[succ]) = [b[a] EXCEPT !.size = m, !.next = b[succ].next]
  BY <1>4 DEF Merged
<1>7. b[a] \in [size : Addrs, is_free : BOOLEAN, next : Addrs \cup {Null}]
      /\ b[succ].next \in Addrs \cup {Null}
  BY <1>1, <1>2 DEF Blocks
<1>8. PICK r \in [size : Addrs, is_free : BOOLEAN, next : Addrs \cup {Null}] :
        /\ r = Merged(b[a], b[succ])
        /\ r.size = m /\ r.is_free = b[a].is_free /\ r.next = b[succ].next
  BY <1>5, <1>6, <1>7
<1>9. b2 \in Blocks /\ b2[a] = r /\ \A x \in Addrs \ {a} : b2[x] = b[x]
  BY <1>1, <1>8 DEF Blocks, MergeOf
<1>10. \A x \in S \ {a} : b2[x] = b[x]
  BY <1>1, <1>9
<1>11. \A x \in S :
         /\ b[x].next \in S \cup {Null}
         /\ x + HEADER + b[x].size = IF b[x].next = Null THEN ArenaSize ELSE b[x].next
  BY DEF Tiling
<1>12. \A x \in S : b[x].next = succ => x = a
  <2>1. SUFFICES ASSUME NEW x \in S, b[x].next = succ, x # a
                 PROVE  FALSE
    OBVIOUS
  <2>2. EndOf(b, x) = succ /\ EndOf(b, a) = succ /\ x < succ
    <3>1. b[x].next # Null
      BY <2>1
    <3> QED
      BY <2>1, <3>1, TilingFacts
  <2>3. CASE x < a
    BY <1>1, <1>2, <2>2, <2>3, TilingApart
  <2>4. CASE a < x
    BY <1>1, <1>2, <2>2, <2>4, TilingApart
  <2> QED
    BY <1>1, <2>1, <2>3, <2>4
<1>13. b[succ].next # succ
  BY <1>1, <1>2, <1>12
<1>14. ASSUME NEW x \in S \ {succ}
       PROVE  /\ b2[x].next \in (S \ {succ}) \cup {Null}
              /\ x + HEADER + b2[x].size =
                   IF b2[x].next = Null THEN ArenaSize ELSE b2[x].next
  <2>1. CASE x = a
    BY <1>2, <1>5, <1>8, <1>9, <1>11, <1>13, <2>1
  <2>2. CASE x # a
    BY <1>10, <1>11, <1>12, <2>2
  <2> QED
    BY <2>1, <2>2
<1>15. ASSUME NEW x \in (S \ {succ}) \ {heap_head}
       PROVE  \E p \in S \ {succ} : b2[p].next = x
  <2>1. PICK p \in S : b[p].next = x
    BY DEF Tiling
  <2>2. p # a
    BY <2>1
  <2>3. CASE p = succ
    BY <1>1, <1>2, <1>8, <1>9, <2>1, <2>3
  <2>4. CASE p # succ
    BY <1>10, <2>1, <2>2, <2>4
  <2> QED
    BY <2>3, <2>4
<1>16. Tiling(S \ {succ}, b2)
  <2>1. heap_head \in S \ {succ} /\ S \ {succ} \subseteq Addrs
    <3>1. a \in Nat /\ succ \in Nat /\ a < succ
      BY <1>1, <1>2
    <3>2. succ # 0
      BY <3>1
    <3> QED
      BY <1>1, <3>2 DEF heap_head
  <2> QED
    BY <1>14, <1>15, <2>1 DEF Tiling
<1>17. succ \in S /\ a # succ
  <2>1. a \in Nat /\ succ \in Nat
    BY <1>1, <1>2
  <2> QED
    BY <1>2, <2>1
<1>18. b2[a].is_free = b[a].is_free /\ b2[a].next = b[succ].next
  BY <1>8, <1>9
<1> QED
  BY <1>9, <1>10, <1>16, <1>17, <1>18 DEF AfterMerge
-----------------------------------------------------------------------------
(* Arithmetic of alignment.                                                 *)
LEMMA AlignedInWord ==
  ASSUME NEW x \in Nat, NEW a \in Nat \ {0}
  PROVE  AlignedTo(x, a) \in 0 .. WORD - 1
<1>1. WORD \in Nat \ {0}
  BY HeapAssumption
<1>2. PICK up \in 0 .. WORD - 1 : up = (x + a - 1) % WORD
  <2>1. PICK y \in Nat : y = x + a - 1
    OBVIOUS
  <2>2. y % WORD \in 0 .. WORD - 1
    BY <1>1
  <2> QED
    BY <2>1, <2>2
<1>3. up % a \in 0 .. up
  OBVIOUS
<1>4. AlignedTo(x, a) = up - (up % a)
  BY <1>2 DEF AlignedTo
<1> QED
  BY <1>1, <1>2, <1>3, <1>4

LEMMA MultipleOf ==
  ASSUME NEW a \in Nat \ {0}, NEW q \in Nat
  PROVE  (a * q) % a = 0
<1>1. PICK x \in Nat : x = a * q
  OBVIOUS
<1>2. PICK d \in Nat : d = x \div a
  OBVIOUS
<1>3. PICK r \in 0 .. a - 1 : r = x % a
  OBVIOUS
<1>4. x = a * d + r
  BY <1>2, <1>3
<1>5. CASE q <= d
  <2>1. PICK e \in Nat : d = q + e
    BY <1>5
  <2>2. a * d = a * q + a * e /\ a * e \in Nat
    BY <2>1
  <2>3. PICK m \in Nat : m = a * e
    BY <2>2
  <2>4. PICK k \in Nat : k = a * d
    OBVIOUS
  <2>5. k = x + m /\ x = k + r
    BY <1>1, <1>4, <2>2, <2>3, <2>4
  <2> QED
    BY <1>1, <1>3, <2>5
<1>6. CASE d < q
  <2>1. PICK e \in Nat : q = d + 1 + e
    <3>1. q - d - 1 \in Nat /\ q = d + 1 + (q - d - 1)
      BY <1>6
    <3> QED
      BY <3>1
  <2>2. a * q = a * d + a + a * e /\ a * e \in Nat
    BY <2>1
  <2>3. PICK m \in Nat : m = a * e
    BY <2>2
  <2>4. PICK k \in Nat : k = a * d
    OBVIOUS
  <2>5. x = k + a + m /\ x = k + r
    BY <1>1, <1>4, <2>2, <2>3, <2>4
  <2> QED
    BY <2>5
<1> QED
  BY <1>5, <1>6

LEMMA Quotient ==
  ASSUME NEW a \in Nat \ {0}, NEW x \in Nat
  PROVE  \E q \in Nat : x - (x % a) = a * q
<1>1. x = a * (x \div a) + (x % a) /\ x \div a \in Nat
  OBVIOUS
<1>2. PICK q \in Nat : q = x \div a
  BY <1>1
<1>3. PICK r \in Nat : r = x % a
  OBVIOUS
<1>4. PICK k \in Nat : k = a * q
  OBVIOUS
<1>5. x = k + r
  BY <1>1, <1>2, <1>3, <1>4
<1>6. x - r = k
  BY <1>5
<1>7. x - (x % a) = a * q
  BY <1>3, <1>4, <1>6
<1> QED
  BY <1>7

LEMMA AlignedUp ==
  ASSUME NEW x \in Nat, NEW a \in Nat \ {0}, x + a <= WORD
  PROVE  /\ AlignedTo(x, a) \in Nat
         /\ x <= AlignedTo(x, a)
         /\ AlignedTo(x, a) % a = 0
<1>1. WORD \in Nat \ {0}
  BY HeapAssumption
<1>2. PICK y \in Nat : y = x + a - 1
  OBVIOUS
<1>3. y % WORD = y
  BY <1>1, <1>2
<1>4. AlignedTo(x, a) = y - (y % a)
  BY <1>2, <1>3 DEF AlignedTo
<1>5. y % a \in 0 .. y /\ y % a < a
  OBVIOUS
<1>6. (y - (y % a)) % a = 0
  <2>1. PICK q \in Nat : y - (y % a) = a * q
    BY Quotient
  <2> QED
    BY <2>1, MultipleOf
<1> QED
  BY <1>2, <1>4, <1>5, <1>6

LEMMA AlignedStep ==
  ASSUME NEW a \in Nat \ {0}, NEW x \in Nat, NEW y \in Nat,
         x % a = 0, y % a = 0, x < y
  PROVE  x + a <= y
<1>1. PICK p \in Nat : x - (x % a) = a * p
  BY Quotient
<1>2. PICK q \in Nat : y - (y % a) = a * q
  BY Quotient
<1>3. x = a * p /\ y = a * q
  BY <1>1, <1>2
<1>4. ASSUME q <= p
      PROVE  FALSE
  <2>1. PICK e \in Nat : p = q + e
    BY <1>4
  <2>2. a * p = a * q + a * e /\ a * e \in Nat
    BY <2>1
  <2>3. PICK m \in Nat : m = a * e
    BY <2>2
  <2> QED
    BY <1>3, <2>2, <2>3
<1>5. PICK e \in Nat : q = p + 1 + e
  <2>1. q - p - 1 \in Nat /\ q = p + 1 + (q - p - 1)
    BY <1>4
  <2> QED
    BY <2>1
<1>6. a * q = a * p + a + a * e /\ a * e \in Nat
  BY <1>5
<1>7. PICK m \in Nat : m = a * e
  BY <1>6
<1> QED
  BY <1>3, <1>6, <1>7
-----------------------------------------------------------------------------
(* The heap, one client at a time.                                          *)
Quiet == \A c \in Clients : pc[c] = "run"

Alone(c) == \A d \in Clients \ {c} : pc[d] = "run"

(* What WalksOn says when only c is inside.                                 *)
WalkOf(c) ==
  /\ pc[c] = "search" =>
       /\ current[c] \in InList \cup {Null}
       /\ \A a \in InList :
            current[c] = Null \/ a < current[c] => ~ Fits(block[a], want[c])
  /\ pc[c] = "found" => current[c] \in InList /\ Fits(block[current[c]], want[c])
  /\ pc[c] = "merge" => current[c] \in InList
  /\ \A a \in InList :
       block[a].next # Null /\ block[a].is_free /\ block[block[a].next].is_free =>
         pc[c] = "merge" /\ current[c] <= a

WalkIsOne == \A c \in Clients : Alone(c) => (WalksOn <=> WalkOf(c))

LEMMA WalkOne == WalkIsOne
<1> SUFFICES ASSUME NEW c \in Clients, Alone(c)
             PROVE  WalksOn <=> WalkOf(c)
  BY DEF WalkIsOne
<1>1. \A d \in Clients : pc[d] # "run" => d = c
  BY DEF Alone
<1>2. ASSUME WalksOn
      PROVE  WalkOf(c)
  BY <1>1, <1>2 DEF WalksOn, WalkOf
<1>3. ASSUME WalkOf(c)
      PROVE  WalksOn
  <2>1. ASSUME NEW d \in Clients
        PROVE  /\ pc[d] = "search" =>
                    /\ current[d] \in InList \cup {Null}
                    /\ \A a \in InList :
                         current[d] = Null \/ a < current[d] =>
                           ~ Fits(block[a], want[d])
               /\ pc[d] = "found" =>
                    current[d] \in InList /\ Fits(block[current[d]], want[d])
               /\ pc[d] = "merge" => current[d] \in InList
    BY <1>1, <1>3 DEF WalkOf
  <2>2. \A a \in InList :
          block[a].next # Null /\ block[a].is_free /\ block[block[a].next].is_free =>
            \E d \in Clients : pc[d] = "merge" /\ current[d] <= a
    BY <1>3 DEF WalkOf
  <2> QED
    BY <2>1, <2>2 DEF WalksOn
<1> QED
  BY <1>2, <1>3

LEMMA Moves ==
  ASSUME HeapTypeOK, NEW c \in Clients, Alone(c),
         NEW label \in {"run", "search", "found", "merge"},
         NEW a \in Addrs \cup {Null}, Goto(c, label, a)
  PROVE  /\ pc' \in [Clients -> {"run", "search", "found", "merge"}]
         /\ current' \in [Clients -> Addrs \cup {Null}]
         /\ pc'[c] = label /\ current'[c] = a
         /\ Alone(c)' /\ OneInside'
<1>1. /\ pc' \in [Clients -> {"run", "search", "found", "merge"}]
      /\ current' \in [Clients -> Addrs \cup {Null}]
      /\ pc'[c] = label /\ current'[c] = a
      /\ \A d \in Clients \ {c} : pc'[d] = pc[d]
  BY DEF HeapTypeOK, Goto
<1>2. \A d \in Clients \ {c} : pc'[d] = "run"
  BY <1>1 DEF Alone
<1>3. OneInside'
  BY <1>2 DEF OneInside
<1> QED
  BY <1>1, <1>2, <1>3 DEF Alone

LEMMA HeapFacts ==
  ASSUME HeapInv
  PROVE  /\ block \in Blocks /\ Tiling(InList, block)
         /\ InList \in SUBSET Nat /\ InList \in SUBSET Addrs /\ 0 \in InList
         /\ HEADER \in Nat \ {0} /\ ArenaSize \in Nat
         /\ \A c \in Clients : pc[c] # "run" \/ Quiet => Alone(c)
         /\ \A c \in Clients : Alone(c) => WalkOf(c)
<1>1. block \in Blocks /\ Tiling(InList, block)
  BY DEF HeapInv, HeapTypeOK, Blocks
<1>2. \A c \in Clients : pc[c] # "run" => Alone(c)
  BY DEF HeapInv, OneInside, Alone
<1>3. \A c \in Clients : Quiet => Alone(c)
  BY DEF Quiet, Alone
<1>4. \A c \in Clients : Alone(c) => WalkOf(c)
  BY WalkOne DEF HeapInv, WalkIsOne
<1>5. /\ InList \in SUBSET Nat /\ InList \in SUBSET Addrs /\ 0 \in InList
      /\ HEADER \in Nat \ {0} /\ ArenaSize \in Nat
  BY <1>1, TilingFacts
<1> QED
  BY <1>1, <1>2, <1>3, <1>4, <1>5

(* A step that only moves c.                                                *)
LEMMA WalkKeeps ==
  ASSUME HeapInv, NEW c \in Clients, Alone(c)', OneInside',
         HeapTypeOK', UNCHANGED <<block, regions>>, WalkOf(c)'
  PROVE  HeapInv'
<1>1. InList' = InList
  BY DEF InList
<1>2. Tiling(InList, block)'
  BY <1>1 DEF HeapInv
<1>3. RegionsAreBlocks'
  BY <1>1 DEF HeapInv, RegionsAreBlocks
<1>4. WalkIsOne'
  BY WalkOne, PTL
<1>5. WalksOn'
  BY <1>4 DEF WalkIsOne
<1> QED
  BY <1>2, <1>3, <1>5 DEF HeapInv

LEMMA MallocKeeps ==
  ASSUME HeapInv, Quiet, NEW c \in Clients, NEW size \in Nat, os_malloc(c, size)
  PROVE  HeapInv' /\ pc'[c] = "search" /\ Alone(c)'
<1>1. HeapTypeOK /\ Alone(c) /\ WalkOf(c)
  BY HeapFacts DEF HeapInv
<1>2. 0 \in Addrs \cup {Null} /\ heap_head = 0
  BY HeapFacts DEF heap_head
<1>3. Goto(c, "search", 0)
  BY <1>2 DEF os_malloc
<1>4. /\ pc' \in [Clients -> {"run", "search", "found", "merge"}]
      /\ current' \in [Clients -> Addrs \cup {Null}]
      /\ pc'[c] = "search" /\ current'[c] = 0
      /\ Alone(c)' /\ OneInside'
  BY <1>1, <1>2, <1>3, Moves
<1>5. PICK n \in 0 .. WORD - 1 : n = Aligned(size)
  <2>1. {ALIGN, MPU_ALIGN} \subseteq Nat \ {0}
    BY HeapAssumption
  <2> QED
    BY <2>1, AlignedInWord DEF Aligned
<1>6. want' \in [Clients -> 0 .. WORD - 1]
  BY <1>1, <1>5 DEF HeapTypeOK, os_malloc
<1>7. UNCHANGED <<mpu_status, block, regions>>
  BY DEF os_malloc
<1>8. HeapTypeOK'
  BY <1>1, <1>4, <1>6, <1>7 DEF HeapTypeOK
<1>9. InList' = InList
  BY <1>7 DEF InList
<1>10. WalkOf(c)'
  <2>1. 0 # Null
    BY DEF Null
  <2>2. \A a \in InList : ~ (a < 0)
    BY HeapFacts
  <2>3. \A a \in InList :
          ~ (block[a].next # Null /\ block[a].is_free /\ block[block[a].next].is_free)
    BY <1>1 DEF WalkOf, os_malloc
  <2> QED
    BY <1>4, <1>7, <1>9, <2>1, <2>2, <2>3, HeapFacts DEF WalkOf
<1> QED
  BY <1>4, <1>7, <1>8, <1>10, WalkKeeps

LEMMA SearchKeeps ==
  ASSUME HeapInv, NEW c \in Clients, Search(c)
  PROVE  HeapInv' /\ pc'[c] \in {"search", "found"} /\ Alone(c)'
<1>1. /\ HeapTypeOK /\ Alone(c) /\ WalkOf(c) /\ pc[c] = "search"
      /\ current[c] \in InList /\ current[c] # Null
      /\ UNCHANGED <<mpu_status, block, want, regions>>
  <2>1. pc[c] = "search" /\ current[c] # Null
    BY DEF Search
  <2>2. Alone(c) /\ WalkOf(c)
    BY <2>1, HeapFacts
  <2>3. current[c] \in InList
    BY <2>1, <2>2 DEF WalkOf
  <2>4. UNCHANGED <<mpu_status, block, want, regions>>
    BY DEF Search
  <2> QED
    BY <2>1, <2>2, <2>3, <2>4 DEF HeapInv
<1>2. InList' = InList
  BY <1>1 DEF InList
<1>3. PICK a \in InList : a = current[c]
  BY <1>1
<1>4. a \in Addrs /\ a \in Nat
  BY HeapFacts
<1>5. \A x \in InList :
        ~ (block[x].next # Null /\ block[x].is_free /\ block[block[x].next].is_free)
  BY <1>1 DEF WalkOf
<1>6. CASE Fits(block[a], want[c]) /\ Goto(c, "found", a)
  <2>1. /\ pc' \in [Clients -> {"run", "search", "found", "merge"}]
        /\ current' \in [Clients -> Addrs \cup {Null}]
        /\ pc'[c] = "found" /\ current'[c] = a
        /\ Alone(c)' /\ OneInside'
    BY <1>1, <1>4, <1>6, Moves
  <2>2. HeapTypeOK'
    BY <1>1, <2>1 DEF HeapTypeOK
  <2>3. Fits(block[a], want[c])'
    <3>1. a' = a
      OBVIOUS
    <3> QED
      BY <1>1, <1>6 DEF Fits
  <2>4. WalkOf(c)'
    BY <1>1, <1>2, <1>3, <1>5, <1>6, <2>1 DEF WalkOf
  <2> QED
    BY <1>1, <2>1, <2>2, <2>4, WalkKeeps
<1>7. CASE ~ Fits(block[a], want[c]) /\ Goto(c, "search", block[a].next)
  <2>1. PICK nx \in InList \cup {Null} : nx = block[a].next
    BY HeapFacts DEF Tiling
  <2>2. nx \in Addrs \cup {Null} /\ Goto(c, "search", nx)
    BY <1>7, <2>1, HeapFacts
  <2>3. /\ pc' \in [Clients -> {"run", "search", "found", "merge"}]
        /\ current' \in [Clients -> Addrs \cup {Null}]
        /\ pc'[c] = "search" /\ current'[c] = nx
        /\ Alone(c)' /\ OneInside'
    BY <1>1, <2>2, Moves
  <2>4. HeapTypeOK'
    BY <1>1, <2>3 DEF HeapTypeOK
  <2>5. ASSUME NEW x \in InList, nx = Null \/ x < nx
        PROVE  ~ Fits(block[x], want[c])
    <3>1. CASE x = a
      BY <1>7, <3>1
    <3>2. CASE x < a
      BY <1>1, <1>3, <3>2 DEF WalkOf
    <3>3. ~ (a < x)
      <4>1. SUFFICES ASSUME a < x
                     PROVE  FALSE
        OBVIOUS
      <4>2. EndOf(block, a) <= x
        BY <4>1, HeapFacts, TilingApart
      <4>3. x \in Nat /\ x < ArenaSize /\ ArenaSize \in Nat
        BY HeapFacts DEF Addrs
      <4>4. EndOf(block, a) = IF nx = Null THEN ArenaSize ELSE nx
        BY <2>1, HeapFacts, TilingFacts
      <4> QED
        BY <2>5, <4>2, <4>3, <4>4, HeapFacts
    <3> QED
      BY <1>4, <3>1, <3>2, <3>3, HeapFacts
  <2>6. WalkOf(c)'
    BY <1>1, <1>2, <1>5, <2>1, <2>3, <2>5 DEF WalkOf
  <2> QED
    BY <1>1, <2>3, <2>4, <2>6, WalkKeeps
<1>8. \/ Fits(block[a], want[c]) /\ Goto(c, "found", a)
      \/ ~ Fits(block[a], want[c]) /\ Goto(c, "search", block[a].next)
  BY <1>3 DEF Search
<1>9. pc'[c] \in {"search", "found"} /\ Alone(c)'
  <2>1. block[a].next \in Addrs \cup {Null}
    BY <1>4, HeapFacts DEF Blocks
  <2> QED
    BY <1>1, <1>4, <1>8, <2>1, Moves
<1> QED
  BY <1>6, <1>7, <1>8, <1>9

LEMMA GiveUpKeeps ==
  ASSUME HeapInv, NEW c \in Clients, GiveUp(c)
  PROVE  HeapInv' /\ pc'[c] = "run" /\ Alone(c)'
<1>1. /\ HeapTypeOK /\ Alone(c) /\ WalkOf(c) /\ pc[c] = "search"
      /\ UNCHANGED <<mpu_status, block, want, regions>>
  BY HeapFacts DEF GiveUp, HeapInv
<1>2. /\ pc' \in [Clients -> {"run", "search", "found", "merge"}]
      /\ current' \in [Clients -> Addrs \cup {Null}]
      /\ pc'[c] = "run"
      /\ Alone(c)' /\ OneInside'
  BY <1>1, Moves DEF GiveUp
<1>3. InList' = InList
  BY <1>1 DEF InList
<1>4. HeapTypeOK'
  BY <1>1, <1>2 DEF HeapTypeOK
<1>5. WalkOf(c)'
  BY <1>1, <1>2, <1>3 DEF WalkOf
<1> QED
  BY <1>1, <1>2, <1>4, <1>5, WalkKeeps

LEMMA MergeEndsKeeps ==
  ASSUME HeapInv, NEW c \in Clients, MergeEnds(c)
  PROVE  HeapInv' /\ pc'[c] = "run" /\ Alone(c)'
<1>1. /\ HeapTypeOK /\ Alone(c) /\ WalkOf(c) /\ pc[c] = "merge"
      /\ UNCHANGED <<mpu_status, block, want, regions>>
  BY HeapFacts DEF MergeEnds, HeapInv
<1>2. PICK a \in InList : a = current[c] /\ block[a].next = Null
  BY <1>1 DEF WalkOf, MergeEnds
<1>3. a \in Addrs \cup {Null} /\ Goto(c, "run", a)
  BY <1>2, HeapFacts DEF MergeEnds
<1>4. /\ pc' \in [Clients -> {"run", "search", "found", "merge"}]
      /\ current' \in [Clients -> Addrs \cup {Null}]
      /\ pc'[c] = "run"
      /\ Alone(c)' /\ OneInside'
  BY <1>1, <1>3, Moves
<1>5. InList' = InList
  BY <1>1 DEF InList
<1>6. HeapTypeOK'
  BY <1>1, <1>4 DEF HeapTypeOK
<1>7. \A x \in InList :
        ~ (block[x].next # Null /\ block[x].is_free /\ block[block[x].next].is_free)
  <2>1. SUFFICES ASSUME NEW x \in InList, block[x].next # Null, a <= x
                 PROVE  FALSE
    BY <1>1, <1>2 DEF WalkOf
  <2>2. EndOf(block, a) = ArenaSize
    BY <1>2, HeapFacts, TilingFacts
  <2>3. x \in Nat /\ x < ArenaSize /\ ArenaSize \in Nat /\ a \in Nat
    BY HeapFacts DEF Addrs
  <2>4. a < x
    BY <1>2, <2>1, <2>3
  <2>5. ArenaSize <= x
    BY <2>2, <2>4, HeapFacts, TilingApart
  <2> QED
    BY <2>3, <2>5
<1>8. WalkOf(c)'
  BY <1>1, <1>4, <1>5, <1>7 DEF WalkOf
<1> QED
  BY <1>1, <1>4, <1>6, <1>8, WalkKeeps
-----------------------------------------------------------------------------
(* A region and its block.                                                  *)
LEMMA RegionFacts ==
  ASSUME HeapInv, NEW c \in Clients, NEW r \in regions[c]
  PROVE  /\ r \in [at : 0 .. ArenaSize, len : 0 .. ArenaSize]
         /\ r.at \in Nat /\ r.at - HEADER \in InList
         /\ (r.at - HEADER) + HEADER = r.at
         /\ ~ block[r.at - HEADER].is_free
         /\ r.len <= block[r.at - HEADER].size
<1>1. regions \in [Clients -> SUBSET [at : 0 .. ArenaSize, len : 0 .. ArenaSize]]
  BY DEF HeapInv, RegionsAreBlocks
<1>2. r \in [at : 0 .. ArenaSize, len : 0 .. ArenaSize]
  BY <1>1
<1>3. r.at \in Nat /\ (r.at - HEADER) + HEADER = r.at
  BY <1>2, HeapFacts
<1> QED
  BY <1>2, <1>3 DEF HeapInv, RegionsAreBlocks

(* The region that os_malloc hands out.                                     *)
TakenAt(a, n) == [at |-> a + HEADER, len |-> n]

LEMMA TakeRegions ==
  ASSUME HeapInv, NEW c \in Clients, NEW a \in InList, block[a].is_free,
         NEW n \in Nat, n <= block[a].size,
         regions' = [regions EXCEPT ![c] = @ \cup {TakenAt(a, n)}],
         InList \subseteq InList',
         \A x \in InList \ {a} : block'[x] = block[x],
         ~ block'[a].is_free, n <= block'[a].size,
         \A x \in InList' \ InList : block'[x].is_free
  PROVE  RegionsAreBlocks'
<1> DEFINE new == TakenAt(a, n)
<1>1. new \in [at : 0 .. ArenaSize, len : 0 .. ArenaSize]
      /\ new.at = a + HEADER /\ new.len = n /\ new.at - HEADER = a
  <2>1. a \in Nat /\ block[a].size \in Nat
        /\ a + HEADER + block[a].size <= ArenaSize
        /\ HEADER \in Nat /\ ArenaSize \in Nat
    BY HeapFacts, TilingFacts DEF EndOf
  <2>2. a + HEADER \in 0 .. ArenaSize /\ n \in 0 .. ArenaSize /\ (a + HEADER) - HEADER = a
    BY <2>1
  <2> QED
    BY <2>2 DEF TakenAt
<1> HIDE DEF new
<1>2. regions \in [Clients -> SUBSET [at : 0 .. ArenaSize, len : 0 .. ArenaSize]]
  BY DEF HeapInv, RegionsAreBlocks
<1>3. /\ regions'[c] = regions[c] \cup {new}
      /\ \A d \in Clients \ {c} : regions'[d] = regions[d]
      /\ regions' \in [Clients -> SUBSET [at : 0 .. ArenaSize, len : 0 .. ArenaSize]]
  BY <1>1, <1>2 DEF new
<1>4. ASSUME NEW d \in Clients, NEW r \in regions[d]
      PROVE  /\ r.at - HEADER \in InList' /\ r.at - HEADER \in InList \ {a}
             /\ ~ block'[r.at - HEADER].is_free
             /\ r.len <= block'[r.at - HEADER].size
             /\ r.at # new.at
  <2>1. /\ r.at - HEADER \in InList
        /\ ~ block[r.at - HEADER].is_free
        /\ r.len <= block[r.at - HEADER].size
    BY RegionFacts
  <2>2. r.at - HEADER # a
    BY <2>1
  <2>3. block'[r.at - HEADER] = block[r.at - HEADER]
    BY <2>1, <2>2
  <2> QED
    BY <1>1, <2>1, <2>2, <2>3
<1>5. ASSUME NEW d \in Clients, NEW r \in regions'[d]
      PROVE  r \in regions[d] \/ (d = c /\ r = new)
  BY <1>3
<1>6. ASSUME NEW d \in Clients, NEW r \in regions'[d]
      PROVE  /\ r.at - HEADER \in InList'
             /\ ~ block'[r.at - HEADER].is_free
             /\ r.len <= block'[r.at - HEADER].size
  <2>1. CASE r \in regions[d]
    BY <1>4, <2>1
  <2>2. CASE r = new
    BY <1>1, <2>2
  <2> QED
    BY <1>5, <2>1, <2>2
<1>7. ASSUME NEW d \in Clients, NEW e \in Clients,
             NEW r \in regions'[d], NEW s \in regions'[e], r.at = s.at
      PROVE  d = e /\ r = s
  <2>1. CASE r \in regions[d] /\ s \in regions[e]
    BY <1>7, <2>1 DEF HeapInv, RegionsAreBlocks
  <2>2. CASE r \in regions[d] /\ s = new
    BY <1>4, <1>7, <2>2
  <2>3. CASE r = new /\ s \in regions[e]
    BY <1>4, <1>7, <2>3
  <2>4. CASE (d = c /\ r = new) /\ (e = c /\ s = new)
    BY <2>4
  <2> QED
    BY <1>5, <2>1, <2>2, <2>3, <2>4
<1>8. ASSUME NEW x \in InList', ~ block'[x].is_free
      PROVE  \E d \in Clients : \E r \in regions'[d] : r.at = x + HEADER
  <2>1. x \in InList
    BY <1>8
  <2>2. CASE x = a
    <3>1. new \in regions'[c] /\ new.at = x + HEADER
      BY <1>1, <1>3, <2>2
    <3> QED
      BY <3>1
  <2>3. CASE x # a
    <3>1. ~ block[x].is_free
      BY <1>8, <2>1, <2>3
    <3>2. PICK d \in Clients : \E r \in regions[d] : r.at = x + HEADER
      BY <2>1, <3>1 DEF HeapInv, RegionsAreBlocks
    <3>3. regions[d] \subseteq regions'[d]
      BY <1>3
    <3> QED
      BY <3>2, <3>3
  <2> QED
    BY <2>2, <2>3
<1> QED
  BY <1>3, <1>6, <1>7, <1>8 DEF RegionsAreBlocks

LEMMA TakeKeeps ==
  ASSUME HeapInv, NEW c \in Clients, Take(c)
  PROVE  /\ HeapInv' /\ pc'[c] = "run" /\ Alone(c)' /\ current'[c] = current[c]
         /\ current[c] \in InList /\ block[current[c]].is_free
         /\ want[c] \in Nat /\ want[c] <= block[current[c]].size
         /\ regions' = [regions EXCEPT ![c] = @ \cup {TakenAt(current[c], want[c])}]
<1>1. /\ HeapTypeOK /\ Alone(c) /\ WalkOf(c) /\ pc[c] = "found"
      /\ UNCHANGED <<mpu_status, want>>
  BY HeapFacts DEF Take, HeapInv
<1>2. PICK a \in InList : a = current[c] /\ Fits(block[a], want[c])
  BY <1>1 DEF WalkOf
<1>3. PICK n \in Nat : n = want[c]
  <2>1. want[c] \in 0 .. WORD - 1 /\ WORD \in Nat
    BY <1>1, HeapAssumption DEF HeapTypeOK
  <2> QED
    BY <2>1
<1>4. /\ block \in Blocks /\ Tiling(InList, block)
      /\ a \in Nat /\ a \in Addrs /\ InList \in SUBSET Addrs
      /\ block[a].is_free /\ block[a].size \in Nat /\ n <= block[a].size
  <2>1. block \in Blocks /\ Tiling(InList, block) /\ InList \in SUBSET Addrs
        /\ a \in Nat /\ a \in Addrs /\ block[a].size \in Nat
    BY HeapFacts, TilingFacts
  <2> QED
    BY <1>2, <1>3, <2>1 DEF Fits
<1>5. /\ pc' \in [Clients -> {"run", "search", "found", "merge"}]
      /\ current' \in [Clients -> Addrs \cup {Null}]
      /\ pc'[c] = "run" /\ current'[c] = a
      /\ Alone(c)' /\ OneInside'
  <2>1. a \in Addrs \cup {Null} /\ Goto(c, "run", a)
    BY <1>2, <1>4 DEF Take
  <2> QED
    BY <1>1, <2>1, Moves
<1>6. regions' = [regions EXCEPT ![c] = @ \cup {TakenAt(a, n)}]
  BY <1>2, <1>3 DEF Take, TakenAt
<1>7. block' = IF block[a].size > n + HEADER
               THEN Split(a, n) ELSE [block EXCEPT ![a].is_free = FALSE]
  BY <1>2, <1>3 DEF Take
<1>8. \A x \in InList :
        ~ (block[x].next # Null /\ block[x].is_free /\ block[block[x].next].is_free)
  BY <1>1 DEF WalkOf
<1>9. ASSUME block[a].size > n + HEADER
      PROVE  HeapInv'
  <2>1. PICK new : new = a + HEADER + n
    OBVIOUS
  <2>2. PICK b2 : b2 = block'
    OBVIOUS
  <2>3. b2 = SplitOf(block, a, n, new)
    BY <1>7, <1>9, <2>1, <2>2 DEF Split, SplitOf
  <2>4. /\ new \in Addrs \ InList
        /\ b2 \in Blocks
        /\ b2[a].size = n /\ b2[a].is_free = FALSE /\ b2[a].next = new
        /\ b2[new].is_free = TRUE /\ b2[new].next = block[a].next
        /\ \A x \in InList \ {a} : b2[x] = block[x]
        /\ Tiling(InList \cup {new}, b2)
    <3>1. block[a].size > n + HEADER
      BY <1>9
    <3>2. AfterSplit(InList, block, b2, a, n, new)
      BY <1>4, <2>1, <2>3, <3>1, TilingSplit
    <3> QED
      BY <3>2 DEF AfterSplit
  <2>5. ReachedIn(b2) = InList \cup {new}
    BY <2>4, TilingReached
  <2>6. InList' = InList \cup {new}
    BY <2>2, <2>5 DEF InList
  <2>7. \A x \in InList \ {a} : b2[x] = block[x]
    BY <2>4
  <2>8. Tiling(InList, block)'
    BY <2>2, <2>4, <2>6
  <2>9. HeapTypeOK'
    BY <1>1, <1>5, <2>2, <2>4 DEF HeapTypeOK, Blocks
  <2>10. RegionsAreBlocks'
    <3>1. b2[a].is_free = FALSE /\ b2[a].size = n /\ b2[new].is_free = TRUE
      BY <2>4
    <3>2. /\ InList \subseteq InList'
          /\ \A x \in InList \ {a} : block'[x] = block[x]
          /\ ~ block'[a].is_free /\ n <= block'[a].size
          /\ \A x \in InList' \ InList : block'[x].is_free
      BY <2>2, <2>6, <2>7, <3>1
    <3> QED
      BY <1>4, <1>6, <3>2, TakeRegions
  <2>11. ASSUME NEW x \in InList \cup {new}, b2[x].next # Null, b2[x].is_free
         PROVE  ~ b2[b2[x].next].is_free
    <3>1. x # a
      BY <2>4, <2>11
    <3>2. PICK y \in InList : y = x \/ (x = new /\ y = a)
      BY <3>1
    <3>3. b2[x].next = block[y].next /\ block[y].is_free
      BY <1>4, <2>4, <2>7, <2>11, <3>1, <3>2
    <3>4. PICK z \in InList : z = block[y].next
      BY <2>11, <3>3, HeapFacts DEF Tiling
    <3>5. ~ block[z].is_free
      BY <1>8, <2>11, <3>3, <3>4
    <3>6. b2[z] = block[z]
      BY <1>4, <2>7, <3>5
    <3> QED
      BY <3>3, <3>4, <3>5, <3>6
  <2>12. WalkOf(c)'
    BY <1>5, <2>2, <2>6, <2>11 DEF WalkOf
  <2>13. WalkIsOne'
    BY WalkOne, PTL
  <2>14. WalksOn'
    BY <1>5, <2>12, <2>13 DEF WalkIsOne
  <2> QED
    BY <1>5, <2>8, <2>9, <2>10, <2>14 DEF HeapInv
<1>10. ASSUME ~ (block[a].size > n + HEADER)
       PROVE  HeapInv'
  <2>1. PICK b2 : b2 = block'
    OBVIOUS
  <2>2. b2 = FlagOf(block, a, FALSE)
    BY <1>7, <1>10, <2>1 DEF FlagOf
  <2>3. /\ b2 \in Blocks
        /\ b2[a].size = block[a].size /\ b2[a].next = block[a].next
        /\ b2[a].is_free = FALSE
        /\ \A x \in Addrs \ {a} : b2[x] = block[x]
    <3>1. PICK v \in BOOLEAN : v = FALSE
      OBVIOUS
    <3>2. AfterFlag(block, b2, a, v)
      BY <1>4, <2>2, <3>1, Flagged
    <3> QED
      BY <3>1, <3>2 DEF AfterFlag
  <2>4. \A x \in InList \ {a} : b2[x] = block[x]
    BY <1>4, <2>3
  <2>5. Tiling(InList, b2)
    <3>1. \A x \in InList : b2[x].size = block[x].size /\ b2[x].next = block[x].next
      BY <2>3, <2>4
    <3> QED
      BY <1>4, <2>3, <3>1, TilingKept
  <2>6. InList' = InList
    <3>1. ReachedIn(b2) = InList
      BY <2>3, <2>5, TilingReached
    <3> QED
      BY <2>1, <3>1 DEF InList
  <2>7. Tiling(InList, block)'
    BY <2>1, <2>5, <2>6
  <2>8. HeapTypeOK'
    BY <1>1, <1>5, <2>1, <2>3 DEF HeapTypeOK, Blocks
  <2>9. RegionsAreBlocks'
    <3>1. /\ InList \subseteq InList'
          /\ \A x \in InList \ {a} : block'[x] = block[x]
          /\ ~ block'[a].is_free /\ n <= block'[a].size
          /\ \A x \in InList' \ InList : block'[x].is_free
      BY <1>4, <2>1, <2>3, <2>4, <2>6
    <3> QED
      BY <1>4, <1>6, <3>1, TakeRegions
  <2>10. ASSUME NEW x \in InList, b2[x].next # Null, b2[x].is_free
         PROVE  ~ b2[b2[x].next].is_free
    <3>1. x # a
      BY <2>3, <2>10
    <3>2. b2[x] = block[x]
      BY <2>4, <3>1
    <3>3. block[x].next \in InList
      BY <2>10, <3>2, HeapFacts DEF Tiling
    <3>4. ~ block[block[x].next].is_free
      BY <1>8, <2>10, <3>2
    <3> QED
      BY <2>3, <2>4, <3>2, <3>3, <3>4
  <2>11. WalkOf(c)'
    BY <1>5, <2>1, <2>6, <2>10 DEF WalkOf
  <2>12. WalkIsOne'
    BY WalkOne, PTL
  <2>13. WalksOn'
    BY <1>5, <2>11, <2>12 DEF WalkIsOne
  <2> QED
    BY <1>5, <2>7, <2>8, <2>9, <2>13 DEF HeapInv
<1> QED
  BY <1>2, <1>3, <1>4, <1>5, <1>6, <1>9, <1>10

LEMMA MfreeKeeps ==
  ASSUME HeapInv, Quiet, NEW c \in Clients, NEW r \in regions[c], os_mfree(c, r)
  PROVE  /\ HeapInv' /\ pc'[c] = "merge" /\ Alone(c)'
         /\ regions' = [regions EXCEPT ![c] = @ \ {r}]
<1>1. /\ HeapTypeOK /\ Alone(c)
      /\ UNCHANGED <<mpu_status, want>>
      /\ regions' = [regions EXCEPT ![c] = @ \ {r}]
  BY HeapFacts DEF os_mfree, HeapInv
<1>2. /\ r.at - HEADER \in InList /\ (r.at - HEADER) + HEADER = r.at
      /\ block[r.at - HEADER].size \in Nat
  <2>1. r.at - HEADER \in InList /\ (r.at - HEADER) + HEADER = r.at
    BY RegionFacts
  <2> QED
    BY <2>1, HeapFacts, TilingFacts
<1>3. PICK a \in InList : a = r.at - HEADER /\ a + HEADER = r.at
  BY <1>2
<1>4. /\ block \in Blocks /\ Tiling(InList, block)
      /\ a \in Nat /\ a \in Addrs /\ InList \in SUBSET Addrs /\ InList \in SUBSET Nat
  BY HeapFacts
<1>5. /\ pc' \in [Clients -> {"run", "search", "found", "merge"}]
      /\ current' \in [Clients -> Addrs \cup {Null}]
      /\ pc'[c] = "merge" /\ current'[c] = 0
      /\ Alone(c)' /\ OneInside'
  <2>1. 0 \in Addrs \cup {Null} /\ Goto(c, "merge", 0)
    BY HeapFacts DEF os_mfree, heap_head
  <2> QED
    BY <1>1, <2>1, Moves
<1>6. PICK b2 : b2 = block'
  OBVIOUS
<1>7. b2 = FlagOf(block, a, TRUE)
  BY <1>3, <1>6 DEF os_mfree, FlagOf
<1>8. /\ b2 \in Blocks
      /\ b2[a].size = block[a].size /\ b2[a].next = block[a].next
      /\ b2[a].is_free = TRUE
      /\ \A x \in Addrs \ {a} : b2[x] = block[x]
  <2>1. PICK v \in BOOLEAN : v = TRUE
    OBVIOUS
  <2>2. AfterFlag(block, b2, a, v)
    BY <1>4, <1>7, <2>1, Flagged
  <2> QED
    BY <2>1, <2>2 DEF AfterFlag
<1>9. \A x \in InList \ {a} : b2[x] = block[x]
  BY <1>4, <1>8
<1>10. Tiling(InList, b2)
  <2>1. \A x \in InList : b2[x].size = block[x].size /\ b2[x].next = block[x].next
    BY <1>8, <1>9
  <2> QED
    BY <1>4, <1>8, <2>1, TilingKept
<1>11. InList' = InList
  <2>1. ReachedIn(b2) = InList
    BY <1>8, <1>10, TilingReached
  <2> QED
    BY <1>6, <2>1 DEF InList
<1>12. Tiling(InList, block)'
  BY <1>6, <1>10, <1>11
<1>13. HeapTypeOK'
  BY <1>1, <1>5, <1>6, <1>8 DEF HeapTypeOK, Blocks
<1>14. RegionsAreBlocks'
  <2>1. /\ regions \in [Clients -> SUBSET [at : 0 .. ArenaSize, len : 0 .. ArenaSize]]
        /\ \A d, e \in Clients : \A s \in regions[d], t \in regions[e] :
             s.at = t.at => d = e /\ s = t
    BY DEF HeapInv, RegionsAreBlocks
  <2>2. /\ regions'[c] = regions[c] \ {r}
        /\ \A d \in Clients \ {c} : regions'[d] = regions[d]
        /\ regions' \in [Clients -> SUBSET [at : 0 .. ArenaSize, len : 0 .. ArenaSize]]
    BY <1>1, <2>1
  <2>3. \A d \in Clients : regions'[d] \subseteq regions[d]
    BY <2>2
  <2>4. ASSUME NEW d \in Clients, NEW s \in regions'[d]
        PROVE  /\ s.at - HEADER \in InList'
               /\ ~ block'[s.at - HEADER].is_free
               /\ s.len <= block'[s.at - HEADER].size
    <3>1. s \in regions[d] /\ ~ (d = c /\ s = r)
      BY <2>2, <2>3, <2>4
    <3>2. s.at # r.at
      BY <2>1, <3>1
    <3>3. /\ s.at - HEADER \in InList /\ (s.at - HEADER) + HEADER = s.at
          /\ ~ block[s.at - HEADER].is_free
          /\ s.len <= block[s.at - HEADER].size
      BY <3>1, RegionFacts
    <3>4. s.at - HEADER # a
      BY <1>3, <3>2, <3>3
    <3>5. b2[s.at - HEADER] = block[s.at - HEADER]
      BY <1>9, <3>3, <3>4
    <3> QED
      BY <1>6, <1>11, <3>3, <3>5
  <2>5. ASSUME NEW d \in Clients, NEW e \in Clients,
               NEW s \in regions'[d], NEW t \in regions'[e], s.at = t.at
        PROVE  d = e /\ s = t
    BY <2>1, <2>3, <2>5
  <2>6. ASSUME NEW x \in InList', ~ block'[x].is_free
        PROVE  \E d \in Clients : \E s \in regions'[d] : s.at = x + HEADER
    <3>1. x \in InList /\ x # a
      BY <1>6, <1>8, <1>11, <2>6
    <3>2. ~ block[x].is_free
      BY <1>6, <1>9, <2>6, <3>1
    <3>3. PICK d \in Clients : \E s \in regions[d] : s.at = x + HEADER
      BY <3>1, <3>2 DEF HeapInv, RegionsAreBlocks
    <3>4. PICK s \in regions[d] : s.at = x + HEADER
      BY <3>3
    <3>5. x + HEADER # a + HEADER
      <4>1. x \in Nat /\ HEADER \in Nat
        BY <1>4, <3>1, HeapFacts
      <4> QED
        BY <1>4, <3>1, <4>1
    <3>6. s # r
      BY <1>3, <3>4, <3>5
    <3>7. s \in regions'[d]
      BY <2>2, <3>4, <3>6
    <3> QED
      BY <3>4, <3>7
  <2> QED
    BY <2>2, <2>4, <2>5, <2>6 DEF RegionsAreBlocks
<1>15. WalksOn'
  <2>1. \A x \in InList : 0 <= x
    BY <1>4
  <2>2. WalkOf(c)'
    BY <1>5, <1>11, <2>1, HeapFacts DEF WalkOf
  <2>3. WalkIsOne'
    BY WalkOne, PTL
  <2> QED
    BY <1>5, <2>2, <2>3 DEF WalkIsOne
<1>16. HeapInv'
  BY <1>5, <1>12, <1>13, <1>14, <1>15 DEF HeapInv
<1> QED
  BY <1>1, <1>5, <1>16

LEMMA MergeKeeps ==
  ASSUME HeapInv, NEW c \in Clients, Merge(c)
  PROVE  HeapInv' /\ pc'[c] = "merge" /\ Alone(c)'
<1>1. /\ HeapTypeOK /\ Alone(c) /\ WalkOf(c) /\ pc[c] = "merge"
      /\ UNCHANGED <<mpu_status, want, regions>>
  BY HeapFacts DEF Merge, HeapInv
<1>2. PICK a \in InList : a = current[c] /\ block[a].next # Null
  BY <1>1 DEF WalkOf, Merge
<1>3. PICK s : s = block[a].next
  OBVIOUS
<1>4. /\ block \in Blocks /\ Tiling(InList, block)
      /\ a \in Nat /\ a \in Addrs /\ InList \in SUBSET Addrs /\ InList \in SUBSET Nat
      /\ s \in InList /\ EndOf(block, a) = s
  <2>1. /\ block \in Blocks /\ Tiling(InList, block)
        /\ a \in Nat /\ a \in Addrs /\ InList \in SUBSET Addrs /\ InList \in SUBSET Nat
    BY HeapFacts
  <2>2. s \in InList /\ EndOf(block, a) = s
    BY <1>2, <1>3, <2>1, TilingFacts
  <2> QED
    BY <2>1, <2>2
<1>5. \A x \in InList :
        block[x].next # Null /\ block[x].is_free /\ block[block[x].next].is_free => a <= x
  BY <1>1, <1>2 DEF WalkOf
<1>6. WalkIsOne'
  BY WalkOne, PTL
<1>7. \/ /\ block[a].is_free /\ block[s].is_free
         /\ block' = [block EXCEPT ![a] = Merged(block[a], block[s])]
         /\ Goto(c, "merge", a)
      \/ /\ ~ (block[a].is_free /\ block[s].is_free)
         /\ Goto(c, "merge", s)
         /\ UNCHANGED block
  BY <1>2, <1>3 DEF Merge
<1>8. ASSUME block[a].is_free, block[s].is_free, Goto(c, "merge", a),
             block' = [block EXCEPT ![a] = Merged(block[a], block[s])]
      PROVE  HeapInv' /\ pc'[c] = "merge" /\ Alone(c)'
  <2>1. /\ pc' \in [Clients -> {"run", "search", "found", "merge"}]
        /\ current' \in [Clients -> Addrs \cup {Null}]
        /\ pc'[c] = "merge" /\ current'[c] = a
        /\ Alone(c)' /\ OneInside'
    BY <1>1, <1>4, <1>8, Moves
  <2>2. PICK b2 : b2 = block'
    OBVIOUS
  <2>3. b2 = MergeOf(block, a)
    BY <1>3, <1>8, <2>2 DEF MergeOf
  <2>4. a # s /\ AfterMerge(InList, block, b2, a, s)
    BY <1>2, <1>3, <1>4, <2>3, TilingMerge
  <2>5. /\ b2 \in Blocks
        /\ b2[a].is_free = block[a].is_free /\ b2[a].next = block[s].next
        /\ \A x \in InList \ {a} : b2[x] = block[x]
        /\ Tiling(InList \ {s}, b2)
    BY <2>4 DEF AfterMerge
  <2>6. InList' = InList \ {s}
    <3>1. ReachedIn(b2) = InList \ {s}
      BY <2>5, TilingReached
    <3> QED
      BY <2>2, <3>1 DEF InList
  <2>7. Tiling(InList, block)'
    BY <2>2, <2>5, <2>6
  <2>8. HeapTypeOK'
    BY <1>1, <2>1, <2>2, <2>5 DEF HeapTypeOK, Blocks
  <2>9. RegionsAreBlocks'
    <3>1. ASSUME NEW d \in Clients, NEW r \in regions[d]
          PROVE  /\ r.at - HEADER \in InList \ {s}
                 /\ ~ b2[r.at - HEADER].is_free
                 /\ r.len <= b2[r.at - HEADER].size
      <4>1. /\ r.at - HEADER \in InList
            /\ ~ block[r.at - HEADER].is_free
            /\ r.len <= block[r.at - HEADER].size
        BY RegionFacts
      <4>2. r.at - HEADER \in InList \ {a, s}
        BY <1>8, <4>1
      <4>3. b2[r.at - HEADER] = block[r.at - HEADER]
        BY <2>5, <4>2
      <4> QED
        BY <4>1, <4>2, <4>3
    <3>2. ASSUME NEW x \in InList \ {s}, ~ b2[x].is_free
          PROVE  \E d \in Clients : \E r \in regions[d] : r.at = x + HEADER
      <4>1. x # a
        BY <1>8, <2>5, <3>2
      <4>2. ~ block[x].is_free
        BY <2>5, <3>2, <4>1
      <4> QED
        BY <4>2 DEF HeapInv, RegionsAreBlocks
    <3>3. /\ regions \in [Clients -> SUBSET [at : 0 .. ArenaSize, len : 0 .. ArenaSize]]
          /\ \A d, e \in Clients : \A r \in regions[d], t \in regions[e] :
               r.at = t.at => d = e /\ r = t
      BY DEF HeapInv, RegionsAreBlocks
    <3>4. regions' = regions /\ block' = b2
      BY <1>1, <2>2
    <3> QED
      BY <2>6, <3>1, <3>2, <3>3, <3>4 DEF RegionsAreBlocks
  <2>10. ASSUME NEW x \in InList \ {s}, b2[x].next # Null, b2[x].is_free,
                b2[b2[x].next].is_free
         PROVE  a <= x
    <3>1. CASE x = a
      BY <1>4, <3>1
    <3>2. CASE x # a
      <4>1. b2[x] = block[x]
        BY <2>5, <3>2
      <4>2. b2[x].next \in InList
        BY <2>5, <2>10 DEF Tiling
      <4>3. PICK y \in InList : y = block[x].next
        BY <4>1, <4>2
      <4>4. block[y].is_free
        BY <1>8, <2>5, <2>10, <4>1, <4>3
      <4> QED
        BY <1>5, <2>10, <4>1, <4>3, <4>4
    <3> QED
      BY <3>1, <3>2
  <2>11. WalkOf(c)'
    <3>1. a \in InList'
      BY <2>4, <2>6
    <3> QED
      BY <2>1, <2>2, <2>6, <2>10, <3>1 DEF WalkOf
  <2>12. WalksOn'
    BY <1>6, <2>1, <2>11 DEF WalkIsOne
  <2> QED
    BY <2>1, <2>7, <2>8, <2>9, <2>12 DEF HeapInv
<1>9. ASSUME ~ (block[a].is_free /\ block[s].is_free), Goto(c, "merge", s),
             UNCHANGED block
      PROVE  HeapInv' /\ pc'[c] = "merge" /\ Alone(c)'
  <2>1. s \in Addrs \cup {Null}
    BY <1>4
  <2>2. /\ pc' \in [Clients -> {"run", "search", "found", "merge"}]
        /\ current' \in [Clients -> Addrs \cup {Null}]
        /\ pc'[c] = "merge" /\ current'[c] = s
        /\ Alone(c)' /\ OneInside'
    BY <1>1, <1>9, <2>1, Moves
  <2>3. HeapTypeOK'
    BY <1>1, <1>9, <2>2 DEF HeapTypeOK
  <2>4. InList' = InList
    BY <1>9 DEF InList
  <2>5. ASSUME NEW x \in InList, block[x].next # Null, block[x].is_free,
               block[block[x].next].is_free
        PROVE  s <= x
    <3>1. a <= x /\ x # a
      BY <1>3, <1>5, <1>9, <2>5
    <3>2. x \in Nat /\ a < x
      BY <1>4, <3>1
    <3> QED
      BY <1>4, <3>2, TilingApart
  <2>6. WalkOf(c)'
    BY <1>4, <1>9, <2>2, <2>4, <2>5 DEF WalkOf
  <2> QED
    BY <1>1, <1>9, <2>2, <2>3, <2>6, WalkKeeps
<1> QED
  BY <1>7, <1>8, <1>9

LEMMA MpuKeeps ==
  ASSUME HeapInv, mpu_status' \in {0, 1}, UNCHANGED <<block, locals, regions>>
  PROVE  HeapInv'
<1>1. UNCHANGED <<block, pc, current, want, regions>>
  BY DEF locals
<1>2. InList' = InList
  BY <1>1 DEF InList
<1>3. HeapTypeOK' /\ Tiling(InList, block)' /\ OneInside'
  BY <1>1, <1>2 DEF HeapInv, HeapTypeOK, OneInside
<1>4. RegionsAreBlocks'
  BY <1>1, <1>2 DEF HeapInv, RegionsAreBlocks
<1>5. WalksOn'
  BY <1>1, <1>2 DEF HeapInv, WalksOn, Fits
<1> QED
  BY <1>3, <1>4, <1>5 DEF HeapInv

LEMMA HeapInvStutters ==
  ASSUME HeapInv, UNCHANGED heapVars
  PROVE  HeapInv'
<1>1. mpu_status' = mpu_status /\ UNCHANGED <<block, locals, regions>>
  BY DEF heapVars
<1>2. mpu_status \in {0, 1}
  BY DEF HeapInv, HeapTypeOK
<1> QED
  BY <1>1, <1>2, MpuKeeps

LEMMA HeapBegins ==
  ASSUME HeapInit
  PROVE  HeapInv /\ Quiet /\ \A c \in Clients : regions[c] = {}
<1>1. /\ HEADER \in Nat \ {0} /\ ArenaSize \in Nat /\ ArenaSize > HEADER
      /\ WORD \in Nat \ {0} /\ heap_head = 0 /\ 0 \in Addrs
      /\ ArenaSize - HEADER \in Addrs
  BY HeapAssumption DEF Addrs, heap_head
<1>2. block = [a \in Addrs |->
         [size    |-> IF a = 0 THEN ArenaSize - HEADER ELSE 0,
          is_free |-> a = 0,
          next    |-> Null]]
  BY <1>1 DEF HeapInit, os_heap_init
<1>3. ASSUME NEW a \in Addrs
      PROVE  [size    |-> IF a = 0 THEN ArenaSize - HEADER ELSE 0,
              is_free |-> a = 0,
              next    |-> Null]
             \in [size : Addrs, is_free : BOOLEAN, next : Addrs \cup {Null}]
  BY <1>1
<1>4. block \in Blocks
  BY <1>2, <1>3 DEF Blocks
<1>5. block[0].size = ArenaSize - HEADER /\ block[0].next = Null
  BY <1>1, <1>2
<1>6. Tiling({0}, block)
  BY <1>1, <1>5 DEF Tiling
<1>7. InList = {0}
  BY <1>4, <1>6, TilingReached DEF InList
<1>8. /\ pc = [c \in Clients |-> "run"]
      /\ regions = [c \in Clients |-> {}]
      /\ mpu_status = 0
      /\ current = [c \in Clients |-> 0]
      /\ want = [c \in Clients |-> 0]
  BY <1>1 DEF HeapInit
<1>9. HeapTypeOK
  BY <1>1, <1>4, <1>8 DEF HeapTypeOK, Blocks
<1>10. Quiet /\ OneInside /\ \A c \in Clients : regions[c] = {}
  BY <1>8 DEF Quiet, OneInside
<1>11. RegionsAreBlocks
  <2>1. block[0].is_free
    BY <1>1, <1>2
  <2> QED
    BY <1>7, <1>8, <1>10, <2>1 DEF RegionsAreBlocks
<1>12. WalksOn
  <2>1. \A c \in Clients : pc[c] = "run"
    BY <1>8
  <2> QED
    BY <1>5, <1>7, <2>1 DEF WalksOn
<1> QED
  BY <1>6, <1>7, <1>9, <1>10, <1>11, <1>12 DEF HeapInv
-----------------------------------------------------------------------------
(* What follows for the heap.                                               *)
LEMMA InvTiles ==
  ASSUME HeapInv
  PROVE  BlocksTile
<1>1. \A a \in InList :
        a + HEADER + block[a].size =
          IF block[a].next = Null THEN ArenaSize ELSE block[a].next
  BY HeapFacts DEF Tiling
<1>2. \A a \in { x \in InList : ~ block[x].is_free } :
        a \in { r.at - HEADER : r \in UNION { regions[c] : c \in Clients } }
  <2>1. SUFFICES ASSUME NEW a \in InList, ~ block[a].is_free
                 PROVE  \E r \in UNION { regions[c] : c \in Clients } : a = r.at - HEADER
    OBVIOUS
  <2>2. PICK c \in Clients : \E r \in regions[c] : r.at = a + HEADER
    BY <2>1 DEF HeapInv, RegionsAreBlocks
  <2>3. PICK r \in regions[c] : r.at = a + HEADER
    BY <2>2
  <2>4. a = r.at - HEADER
    BY <2>3, HeapFacts
  <2> QED
    BY <2>4
<1>3. \A a \in { r.at - HEADER : r \in UNION { regions[c] : c \in Clients } } :
        a \in { x \in InList : ~ block[x].is_free }
  BY RegionFacts
<1>4. { a \in InList : ~ block[a].is_free } =
       { r.at - HEADER : r \in UNION { regions[c] : c \in Clients } }
  BY <1>2, <1>3, Zenon
<1>5. AtRest => \A a \in InList : block[a].next # Null =>
       ~ (block[a].is_free /\ block[block[a].next].is_free)
  BY DEF HeapInv, WalksOn, AtRest
<1> QED
  BY <1>1, <1>4, <1>5 DEF BlocksTile

LEMMA InvFindsRoom ==
  ASSUME HeapInv
  PROVE  FindsRoom
<1>1. SUFFICES ASSUME NEW c \in Clients, pc[c] = "search", current[c] = Null,
                      NEW x \in Addrs, x + HEADER + want[c] <= ArenaSize,
                      (x .. x + HEADER + want[c] - 1) \cap Used = {}
               PROVE  FALSE
  BY DEF FindsRoom
<1>2. WalkOf(c)
  BY <1>1, HeapFacts
<1>3. /\ block \in Blocks /\ Tiling(InList, block)
      /\ HEADER \in Nat /\ ArenaSize \in Nat /\ x \in Nat
      /\ InList \in SUBSET Nat /\ InList \in SUBSET Addrs
  BY HeapFacts DEF Addrs
<1>4. PICK n \in Nat : n = want[c]
  <2>1. want[c] \in 0 .. WORD - 1 /\ WORD \in Nat
    BY HeapAssumption DEF HeapInv, HeapTypeOK
  <2> QED
    BY <2>1
<1>5. \A a \in InList : ~ Fits(block[a], n)
  BY <1>1, <1>2, <1>4 DEF WalkOf
<1>6. \A a \in InList :
        ~ (block[a].next # Null /\ block[a].is_free /\ block[block[a].next].is_free)
  BY <1>1, <1>2 DEF WalkOf
<1>7. ASSUME NEW a \in InList, ~ block[a].is_free, NEW y \in Int,
             a <= y, y < a + HEADER + block[a].size
      PROVE  y < x \/ y >= x + HEADER + n
  <2>1. a \in { r.at - HEADER : r \in UNION { regions[d] : d \in Clients } }
    BY <1>7, InvTiles DEF BlocksTile
  <2>2. PICK r \in UNION { regions[d] : d \in Clients } : a = r.at - HEADER
    BY <2>1
  <2>3. PICK d \in Clients : r \in regions[d]
    BY <2>2
  <2>4. /\ r.at \in Nat /\ r.at = a + HEADER
        /\ block[a].size \in Nat
    BY <1>3, <2>2, <2>3, RegionFacts, TilingFacts
  <2>5. y \in r.at - HEADER .. r.at + block[r.at - HEADER].size - 1
    <3>1. y \in a .. a + HEADER + block[a].size - 1
      BY <1>3, <1>7, <2>4
    <3> QED
      BY <2>2, <2>4, <3>1
  <2>6. y \in Used
    BY <2>2, <2>5 DEF Used
  <2>7. y \notin x .. x + HEADER + n - 1
    BY <1>1, <1>4, <2>6
  <2> QED
    BY <1>3, <2>7
<1>8. PICK p \in InList : p <= x /\ x < EndOf(block, p)
  BY <1>3, TilingCovers
<1>9. /\ p \in Nat /\ block[p].size \in Nat
      /\ EndOf(block, p) = p + HEADER + block[p].size
  BY <1>3, TilingFacts DEF EndOf
<1>10. block[p].is_free
  <2>1. SUFFICES ASSUME ~ block[p].is_free
                 PROVE  FALSE
    OBVIOUS
  <2>2. x < x \/ x >= x + HEADER + n
    BY <1>3, <1>7, <1>8, <1>9, <2>1
  <2>3. HEADER # 0
    BY HeapFacts
  <2> QED
    BY <1>3, <2>2, <2>3
<1>11. block[p].size < n
  <2>1. ~ (block[p].size >= n)
    BY <1>5, <1>10 DEF Fits
  <2> QED
    BY <1>9, <2>1
<1>12. PICK e \in Nat : e = EndOf(block, p)
  BY <1>3, <1>9
<1>13. x < e /\ e < x + HEADER + n /\ e < ArenaSize
  BY <1>1, <1>3, <1>4, <1>8, <1>9, <1>11, <1>12
<1>14. e \in InList /\ block[p].next = e /\ e # Null
  BY <1>3, <1>12, <1>13, TilingFacts
<1>15. ~ block[e].is_free
  BY <1>6, <1>10, <1>14
<1>16. e < e + HEADER + block[e].size
  <2>1. block[e].size \in Nat /\ HEADER \in Nat \ {0}
    BY <1>3, <1>14, TilingFacts
  <2> QED
    BY <2>1
<1>17. e < x \/ e >= x + HEADER + n
  BY <1>7, <1>14, <1>15, <1>16
<1> QED
  BY <1>3, <1>13, <1>17

(* A block taken is an allocation of the arena, a free one of its frees.    *)
LEMMA TakeAllocates ==
  ASSUME HeapInv, NEW c \in Clients, Take(c)
  PROVE  Allocator!Alloc(c)
<1>1. PICK a \in InList : a = current[c] /\ block[a].is_free
  BY TakeKeeps
<1>2. PICK n \in Nat : n = want[c] /\ n <= block[a].size
  BY <1>1, TakeKeeps
<1>3. regions' = [regions EXCEPT ![c] = @ \cup {TakenAt(a, n)}]
  BY <1>1, <1>2, TakeKeeps
<1>4. /\ block \in Blocks /\ Tiling(InList, block)
      /\ HEADER \in Nat \ {0} /\ ArenaSize \in Nat /\ a \in Nat
      /\ InList \in SUBSET Nat
      /\ block[a].size \in Nat
      /\ EndOf(block, a) = a + HEADER + block[a].size /\ EndOf(block, a) <= ArenaSize
  BY HeapFacts, TilingFacts DEF EndOf
<1>5. PICK at \in Nat : at = a + HEADER
  BY <1>4
<1>6. at \in 0 .. ArenaSize /\ n \in 0 .. ArenaSize - at
  BY <1>2, <1>4, <1>5
<1>7. ASSUME NEW r \in Allocator!Held
      PROVE  /\ r.at # at
             /\ Allocator!Cells(r) \cap Allocator!Cells([at |-> at, len |-> n]) = {}
  <2>1. PICK d \in Clients : r \in regions[d]
    BY DEF Allocator!Held
  <2>2. PICK p \in InList : p = r.at - HEADER
    BY <2>1, RegionFacts
  <2>3. /\ r.at \in Nat /\ r.len \in Nat /\ r.at = p + HEADER
        /\ ~ block[p].is_free /\ r.len <= block[p].size
    <3>1. r.len \in 0 .. ArenaSize
      BY <2>1, RegionFacts
    <3> QED
      BY <1>4, <2>1, <2>2, <3>1, RegionFacts
  <2>4. /\ p \in Nat /\ block[p].size \in Nat
        /\ EndOf(block, p) = p + HEADER + block[p].size
    BY <1>4, TilingFacts DEF EndOf
  <2>5. p # a
    BY <1>1, <2>3
  <2>6. r.at + r.len <= at \/ at + n <= r.at
    <3>1. CASE p < a
      <4>1. EndOf(block, p) <= a
        BY <1>4, <3>1, TilingApart
      <4> QED
        BY <1>4, <1>5, <2>3, <2>4, <4>1
    <3>2. CASE a < p
      <4>1. EndOf(block, a) <= p
        BY <1>4, <3>2, TilingApart
      <4> QED
        BY <1>2, <1>4, <1>5, <2>3, <2>4, <4>1
    <3> QED
      BY <1>4, <2>4, <2>5, <3>1, <3>2
  <2>7. r.at # at
    BY <1>4, <1>5, <2>3, <2>4, <2>5
  <2>8. Allocator!Cells(r) = r.at .. r.at + r.len - 1
        /\ Allocator!Cells([at |-> at, len |-> n]) = at .. at + n - 1
    BY DEF Allocator!Cells
  <2> QED
    BY <2>3, <2>6, <2>7, <2>8
<1>8. regions' = [regions EXCEPT ![c] = @ \cup {[at |-> at, len |-> n]}]
  BY <1>3, <1>5 DEF TakenAt
<1> QED
  BY <1>6, <1>7, <1>8 DEF Allocator!Alloc

LEMMA MfreeFrees ==
  ASSUME NEW c \in Clients, NEW r \in regions[c], os_mfree(c, r)
  PROVE  Allocator!Free(c)
BY DEF os_mfree, Allocator!Free
-----------------------------------------------------------------------------
(* The task table.                                                          *)
TaskRecord ==
  [tcb : 0 .. ArenaSize, stack_base : 0 .. StackPool,
   stack_size : {IdleStack} \cup StackSizes,
   stack_ptr : 0 .. StackPool, stack_high_water : 0 .. StackPool]

(* The last word of a stack begins one word below its end.                  *)
LEMMA LastWord ==
  ASSUME NEW n \in Nat \ {0}
  PROVE  Bytes(n - 1) = Bytes(n) - WORD_BYTES
<1>1. PICK w \in Nat : w = WORD_BYTES
  BY StacksAssumption
<1>2. PICK m \in Nat : n = m + 1
  <2>1. n - 1 \in Nat /\ n = (n - 1) + 1
    OBVIOUS
  <2> QED
    BY <2>1
<1>3. w * (m + 1) = w * m + w
  OBVIOUS
<1>4. PICK k \in Nat : k = w * m
  OBVIOUS
<1>5. (m + 1) - 1 = m /\ (k + w) - w = k
  OBVIOUS
<1> QED
  BY <1>1, <1>2, <1>3, <1>4, <1>5 DEF Bytes

LEMMA StackConstants ==
  /\ {FRAME, STACK_ALIGN, WORD_BYTES, OS_MAX_TASKS_NUM} \subseteq Nat \ {0}
  /\ WORD_BYTES <= FRAME
  /\ StackPool \in Nat /\ StackPool + STACK_ALIGN <= WORD /\ WORD \in Nat
  /\ \A s \in {IdleStack} \cup StackSizes :
       s \in Nat \ {0} /\ Bytes(s) \in Nat /\ FRAME <= Bytes(s)
  /\ Depths \subseteq Nat /\ TCB \in Nat
  /\ Clients = {Main, App} /\ Main \in Clients /\ App \in Clients /\ Main # App
  /\ ArenaSize \in Nat
<1>1. /\ {STACK_ALIGN, WORD_BYTES, OS_MAX_TASKS_NUM} \subseteq Nat \ {0}
      /\ FRAME \in Nat /\ FRAME >= WORD_BYTES
      /\ StackPool \in 0 .. WORD - STACK_ALIGN
      /\ StackSizes \cup {IdleStack} \subseteq Nat
      /\ \A s \in StackSizes \cup {IdleStack} : Bytes(s) \in FRAME .. WORD - StackPool
      /\ Depths \subseteq Nat /\ TCB \in Nat
      /\ Clients = {Main, App} /\ Main # App
  BY StacksAssumption
<1>2. WORD \in Nat /\ ArenaSize \in Nat
  BY HeapAssumption
<1>3. FRAME # 0
  BY <1>1
<1>4. ASSUME NEW s \in {IdleStack} \cup StackSizes
      PROVE  s \in Nat \ {0} /\ Bytes(s) \in Nat /\ FRAME <= Bytes(s)
  <2>1. s \in Nat /\ Bytes(s) \in FRAME .. WORD - StackPool
    BY <1>1
  <2>2. Bytes(s) \in Nat /\ FRAME <= Bytes(s)
    BY <1>1, <1>2, <2>1
  <2>3. WORD_BYTES * 0 = 0
    BY <1>1
  <2>4. s # 0
    BY <1>1, <1>3, <2>2, <2>3 DEF Bytes
  <2> QED
    BY <2>1, <2>2, <2>4
<1>5. StackPool \in Nat /\ StackPool + STACK_ALIGN <= WORD
  BY <1>1, <1>2
<1> QED
  BY <1>1, <1>2, <1>3, <1>4, <1>5

LEMMA RecordFacts ==
  ASSUME NEW t \in TaskRecord
  PROVE  /\ t.tcb \in Nat /\ t.stack_base \in Nat /\ t.stack_size \in Nat
         /\ t.stack_ptr \in Nat /\ t.stack_high_water \in Nat
         /\ t.stack_size # 0 /\ Bytes(t.stack_size) \in Nat
         /\ Top(t) \in Nat /\ Top(t) = t.stack_base + Bytes(t.stack_size)
         /\ FRAME <= Bytes(t.stack_size)
<1>1. /\ t.tcb \in 0 .. ArenaSize /\ t.stack_base \in 0 .. StackPool
      /\ t.stack_size \in {IdleStack} \cup StackSizes
      /\ t.stack_ptr \in 0 .. StackPool /\ t.stack_high_water \in 0 .. StackPool
  BY DEF TaskRecord
<1>2. /\ t.stack_size \in Nat \ {0} /\ Bytes(t.stack_size) \in Nat
      /\ FRAME <= Bytes(t.stack_size)
  BY <1>1, StackConstants
<1>3. t.stack_base \in Nat
  BY <1>1, StackConstants
<1> QED
  BY <1>1, <1>2, <1>3, StackConstants DEF Top

LEMMA TypeFacts ==
  ASSUME StacksTypeOK
  PROVE  /\ os_tasks \in Seq(TaskRecord)
         /\ Len(os_tasks) \in Nat /\ DOMAIN os_tasks = 1 .. Len(os_tasks)
         /\ \A i \in DOMAIN os_tasks : os_tasks[i] \in TaskRecord
         /\ os_tasks = <<>> <=> Len(os_tasks) = 0
<1>1. os_tasks \in Seq(TaskRecord)
  BY DEF StacksTypeOK, TaskRecord
<1>2. /\ Len(os_tasks) \in Nat /\ DOMAIN os_tasks = 1 .. Len(os_tasks)
      /\ \A i \in DOMAIN os_tasks : os_tasks[i] \in TaskRecord
  BY <1>1
<1>3. os_tasks = <<>> <=> Len(os_tasks) = 0
  BY <1>1, EmptySeq
<1> QED
  BY <1>1, <1>2, <1>3

(* Two fields of the table are written after a creation.                    *)
PtrSet(s, c, f) == [s EXCEPT ![c].stack_ptr = f]

AfterPtr(s, s2, c, f) ==
  /\ s2 \in Seq(TaskRecord) /\ Len(s2) = Len(s)
  /\ \A i \in 1 .. Len(s) \ {c} : s2[i] = s[i]
  /\ s2[c].stack_ptr = f
  /\ s2[c].tcb = s[c].tcb /\ s2[c].stack_base = s[c].stack_base
  /\ s2[c].stack_size = s[c].stack_size
  /\ s2[c].stack_high_water = s[c].stack_high_water

LEMMA SetPtr ==
  ASSUME NEW s \in Seq(TaskRecord), NEW c \in 1 .. Len(s), NEW f \in 0 .. StackPool,
         NEW s2, s2 = PtrSet(s, c, f)
  PROVE  AfterPtr(s, s2, c, f)
<1>1. s[c] \in TaskRecord
  OBVIOUS
<1>2. PICK r : r = [s[c] EXCEPT !.stack_ptr = f]
  OBVIOUS
<1>3. /\ r \in TaskRecord /\ r.stack_ptr = f
      /\ r.tcb = s[c].tcb /\ r.stack_base = s[c].stack_base
      /\ r.stack_size = s[c].stack_size
      /\ r.stack_high_water = s[c].stack_high_water
  BY <1>1, <1>2 DEF TaskRecord
<1>4. s2 = [s EXCEPT ![c] = r]
  BY <1>2 DEF PtrSet
<1>5. /\ s2 \in Seq(TaskRecord) /\ Len(s2) = Len(s) /\ s2[c] = r
      /\ \A i \in 1 .. Len(s) \ {c} : s2[i] = s[i]
  BY <1>3, <1>4
<1> QED
  BY <1>3, <1>5 DEF AfterPtr

HighSet(s, c, h) == [s EXCEPT ![c].stack_high_water = h]

AfterHigh(s, s2, c, h) ==
  /\ s2 \in Seq(TaskRecord) /\ Len(s2) = Len(s)
  /\ \A i \in 1 .. Len(s) \ {c} : s2[i] = s[i]
  /\ s2[c].stack_high_water = h
  /\ s2[c].tcb = s[c].tcb /\ s2[c].stack_base = s[c].stack_base
  /\ s2[c].stack_size = s[c].stack_size
  /\ s2[c].stack_ptr = s[c].stack_ptr

LEMMA SetHigh ==
  ASSUME NEW s \in Seq(TaskRecord), NEW c \in 1 .. Len(s), NEW h \in 0 .. StackPool,
         NEW s2, s2 = HighSet(s, c, h)
  PROVE  AfterHigh(s, s2, c, h)
<1>1. s[c] \in TaskRecord
  OBVIOUS
<1>2. PICK r : r = [s[c] EXCEPT !.stack_high_water = h]
  OBVIOUS
<1>3. /\ r \in TaskRecord /\ r.stack_high_water = h
      /\ r.tcb = s[c].tcb /\ r.stack_base = s[c].stack_base
      /\ r.stack_size = s[c].stack_size
      /\ r.stack_ptr = s[c].stack_ptr
  BY <1>1, <1>2 DEF TaskRecord
<1>4. s2 = [s EXCEPT ![c] = r]
  BY <1>2 DEF HighSet
<1>5. /\ s2 \in Seq(TaskRecord) /\ Len(s2) = Len(s) /\ s2[c] = r
      /\ \A i \in 1 .. Len(s) \ {c} : s2[i] = s[i]
  BY <1>3, <1>4
<1> QED
  BY <1>3, <1>5 DEF AfterHigh

(* Stacks one above the other are apart.                                    *)
LEMMA StackedApart ==
  ASSUME StacksTypeOK, StacksStacked
  PROVE  StacksApart
<1>1. ASSUME NEW i \in DOMAIN os_tasks
      PROVE  /\ os_tasks[i].stack_base \in Nat /\ Top(os_tasks[i]) \in Nat
             /\ Top(os_tasks[i]) <= StackPool /\ os_tasks[i].stack_ptr \in Nat
             /\ os_tasks[i].stack_base <= os_tasks[i].stack_ptr
             /\ os_tasks[i].stack_ptr + FRAME <= Top(os_tasks[i])
             /\ os_tasks[i].stack_base <= Top(os_tasks[i])
             /\ i \in Nat
  <2>1. os_tasks[i] \in TaskRecord /\ i \in Nat
    BY TypeFacts
  <2>2. PICK t \in TaskRecord : t = os_tasks[i]
    BY <2>1
  <2>3. Top(t) <= stack_pool_ptr /\ t.stack_base <= t.stack_ptr
        /\ t.stack_ptr + FRAME <= Top(t)
    BY <2>2 DEF StacksStacked
  <2>4. stack_pool_ptr \in Nat /\ stack_pool_ptr <= StackPool
    BY StackConstants DEF StacksTypeOK
  <2>5. /\ t.stack_base \in Nat /\ t.stack_size \in Nat /\ t.stack_ptr \in Nat
        /\ Top(t) \in Nat /\ Top(t) = t.stack_base + Bytes(t.stack_size)
    BY RecordFacts
  <2>6. Top(t) <= StackPool /\ t.stack_base <= Top(t)
    BY <2>3, <2>4, <2>5, StackConstants
  <2> QED
    BY <2>1, <2>2, <2>3, <2>5, <2>6
<1>2. FRAME \in Nat /\ StackPool \in Nat
  BY StackConstants
<1>3. ASSUME NEW i \in DOMAIN os_tasks
      PROVE  /\ Stack(os_tasks[i]) \subseteq 0 .. StackPool - 1
             /\ os_tasks[i].stack_ptr .. os_tasks[i].stack_ptr + FRAME - 1
                  \subseteq Stack(os_tasks[i])
  BY <1>1, <1>2 DEF Stack
<1>4. ASSUME NEW i \in DOMAIN os_tasks, NEW j \in DOMAIN os_tasks \ {i}
      PROVE  Stack(os_tasks[i]) \cap Stack(os_tasks[j]) = {}
  <2>1. /\ i < j => Top(os_tasks[i]) <= os_tasks[j].stack_base
        /\ j < i => Top(os_tasks[j]) <= os_tasks[i].stack_base
    BY DEF StacksStacked
  <2>2. i < j \/ j < i
    BY <1>1
  <2> QED
    BY <1>1, <2>1, <2>2 DEF Stack
<1> QED
  BY <1>3, <1>4 DEF StacksApart

(* The guard below one stack reaches into no other.                         *)
LEMMA InvGuards ==
  ASSUME StacksInv
  PROVE  GuardFollows
<1>1. SUFFICES ASSUME guard # NoGuard
               PROVE  /\ guard = Runner.stack_base
                      /\ \A i \in DOMAIN os_tasks \ {os_current_task_ptr} :
                           Guarded \cap Stack(os_tasks[i]) = {}
  BY DEF GuardFollows
<1>2. StacksTypeOK /\ StacksStacked
  BY DEF StacksInv
<1>3. os_current_task_ptr # 0 /\ guard = Runner.stack_base
  BY <1>1 DEF StacksInv, RunnerFits
<1>4. PICK c \in DOMAIN os_tasks : c = os_current_task_ptr
  BY <1>2, <1>3, TypeFacts DEF StacksTypeOK
<1>5. \A i \in DOMAIN os_tasks :
        /\ os_tasks[i] \in TaskRecord /\ i \in Nat
        /\ os_tasks[i].stack_base \in Nat /\ Top(os_tasks[i]) \in Nat
        /\ Top(os_tasks[i]) = os_tasks[i].stack_base + Bytes(os_tasks[i].stack_size)
        /\ Bytes(os_tasks[i].stack_size) \in Nat \ {0}
        /\ os_tasks[i].stack_base % STACK_ALIGN = 0
  <2>1. SUFFICES ASSUME NEW i \in DOMAIN os_tasks
                 PROVE  /\ os_tasks[i] \in TaskRecord /\ i \in Nat
                        /\ os_tasks[i].stack_base \in Nat /\ Top(os_tasks[i]) \in Nat
                        /\ Top(os_tasks[i]) =
                             os_tasks[i].stack_base + Bytes(os_tasks[i].stack_size)
                        /\ Bytes(os_tasks[i].stack_size) \in Nat \ {0}
                        /\ os_tasks[i].stack_base % STACK_ALIGN = 0
    OBVIOUS
  <2>2. os_tasks[i] \in TaskRecord /\ i \in Nat
    BY <1>2, TypeFacts
  <2>3. PICK t \in TaskRecord : t = os_tasks[i]
    BY <2>2
  <2>4. /\ t.stack_base \in Nat /\ Top(t) \in Nat
        /\ Top(t) = t.stack_base + Bytes(t.stack_size)
        /\ Bytes(t.stack_size) \in Nat /\ FRAME <= Bytes(t.stack_size)
    BY RecordFacts
  <2>5. Bytes(t.stack_size) # 0
    BY <2>4, StackConstants
  <2>6. t.stack_base % STACK_ALIGN = 0
    BY <1>2, <2>3 DEF StacksStacked
  <2> QED
    BY <2>2, <2>3, <2>4, <2>5, <2>6
<1>6. PICK g \in Nat : g = guard /\ g = os_tasks[c].stack_base
  BY <1>3, <1>4, <1>5 DEF Runner
<1>7. Guarded = g .. g + STACK_ALIGN - 1
  BY <1>1, <1>6 DEF Guarded
<1>8. ASSUME NEW i \in DOMAIN os_tasks \ {c}
      PROVE  Guarded \cap Stack(os_tasks[i]) = {}
  <2>1. PICK b \in Nat : b = os_tasks[i].stack_base
    BY <1>5
  <2>2. PICK e \in Nat : e = Top(os_tasks[i])
    BY <1>5
  <2>3. Stack(os_tasks[i]) = b .. e - 1
    BY <2>1, <2>2 DEF Stack
  <2>4. STACK_ALIGN \in Nat \ {0}
    BY StackConstants
  <2>5. CASE i < c
    <3>1. e <= g
      BY <1>2, <1>6, <2>2, <2>5 DEF StacksStacked
    <3> QED
      BY <1>7, <2>3, <2>4, <3>1
  <2>6. CASE c < i
    <3>1. Top(os_tasks[c]) <= b
      BY <1>2, <2>1, <2>6 DEF StacksStacked
    <3>2. g < b
      BY <1>5, <1>6, <3>1
    <3>3. g % STACK_ALIGN = 0 /\ b % STACK_ALIGN = 0
      BY <1>5, <1>6, <2>1
    <3>4. g + STACK_ALIGN <= b
      BY <2>4, <3>2, <3>3, AlignedStep
    <3> QED
      BY <1>7, <2>3, <2>4, <3>4
  <2>7. i < c \/ c < i
    BY <1>5
  <2> QED
    BY <2>5, <2>6, <2>7
<1> QED
  BY <1>3, <1>4, <1>8

LEMMA InvWhole ==
  ASSUME StacksInv
  PROVE  CreationAllOrNothing
<1>1. SUFFICES ASSUME creating = 0
               PROVE  /\ { r.at : r \in regions[Main] } =
                           { os_tasks[i].tcb : i \in DOMAIN os_tasks }
                      /\ \A i, j \in DOMAIN os_tasks :
                           os_tasks[i].tcb = os_tasks[j].tcb => i = j
  BY DEF CreationAllOrNothing
<1>2. Pending = {}
  BY <1>1 DEF Pending
<1>3. /\ { r.at : r \in regions[Main] } =
           { os_tasks[i].tcb : i \in DOMAIN os_tasks } \cup Pending
      /\ \A i, j \in DOMAIN os_tasks :
           os_tasks[i].tcb = os_tasks[j].tcb => i = j
  BY DEF StacksInv, ControlBlocks
<1> QED
  BY <1>2, <1>3, Zenon
-----------------------------------------------------------------------------
(* Who is inside when, in terms of Main's creation.                         *)
LEMMA ControlFacts ==
  ASSUME StacksInv
  PROVE  /\ { r.at : r \in regions[Main] } =
              { os_tasks[i].tcb : i \in DOMAIN os_tasks } \cup Pending
         /\ \A i, j \in DOMAIN os_tasks : os_tasks[i].tcb = os_tasks[j].tcb => i = j
         /\ \A i \in DOMAIN os_tasks : os_tasks[i].tcb \notin Pending
         /\ creating > 0 => pc[Main] # "merge" /\ pc[App] = "run" /\ ~ TableFull
         /\ pc[Main] \in {"search", "found"} => creating > 0
         /\ creating \in Nat /\ (creating = 0 \/ creating > 0)
         /\ creating > 0 =>
              FRAME <= Bytes(creating) /\ creating \in {IdleStack} \cup StackSizes
         /\ StacksTypeOK /\ HeapInv
<1>1. creating \in {0, IdleStack} \cup StackSizes
  BY DEF StacksInv, StacksTypeOK
<1>2. creating = 0 \/ (creating \in {IdleStack} \cup StackSizes /\ creating \in Nat \ {0}
                       /\ FRAME <= Bytes(creating))
  BY <1>1, StackConstants
<1>3. ControlBlocks /\ StacksTypeOK /\ HeapInv
  BY DEF StacksInv
<1> QED
  BY <1>2, <1>3 DEF ControlBlocks

(* Main's blocks and the table are as they were, no creation goes on.       *)
LEMMA ControlIdle ==
  ASSUME StacksInv, Pending = {}, creating' = 0, regions'[Main] = regions[Main],
         UNCHANGED os_tasks, pc'[Main] \notin {"search", "found"}
  PROVE  ControlBlocks'
<1>1. Pending' = {} /\ ~ (creating' > 0)
  BY DEF Pending
<1>2. { r.at : r \in regions'[Main] } =
        { os_tasks'[i].tcb : i \in DOMAIN os_tasks' } \cup Pending'
  <2>1. { r.at : r \in regions[Main] } =
          { os_tasks[i].tcb : i \in DOMAIN os_tasks } \cup Pending
    BY ControlFacts
  <2> QED
    BY <1>1, <2>1
<1>3. /\ \A i, j \in DOMAIN os_tasks' : os_tasks'[i].tcb = os_tasks'[j].tcb => i = j
      /\ \A i \in DOMAIN os_tasks' : os_tasks'[i].tcb \notin Pending'
  BY <1>1, ControlFacts
<1> QED
  BY <1>1, <1>2, <1>3 DEF ControlBlocks

(* ... or one waits for its block.                                          *)
LEMMA ControlWaits ==
  ASSUME StacksInv, Pending = {}, creating' > 0, regions'[Main] = regions[Main],
         UNCHANGED os_tasks, pc'[Main] \in {"search", "found"}, Alone(Main)', ~ TableFull
  PROVE  ControlBlocks'
<1>1. pc'[Main] # "run" /\ pc'[Main] # "merge"
  OBVIOUS
<1>2. Pending' = {}
  BY <1>1 DEF Pending
<1>3. pc'[App] = "run"
  BY StackConstants DEF Alone
<1>4. ~ TableFull'
  BY DEF TableFull
<1>5. { r.at : r \in regions'[Main] } =
        { os_tasks'[i].tcb : i \in DOMAIN os_tasks' } \cup Pending'
  <2>1. { r.at : r \in regions[Main] } =
          { os_tasks[i].tcb : i \in DOMAIN os_tasks } \cup Pending
    BY ControlFacts
  <2> QED
    BY <1>2, <2>1
<1>6. /\ \A i, j \in DOMAIN os_tasks' : os_tasks'[i].tcb = os_tasks'[j].tcb => i = j
      /\ \A i \in DOMAIN os_tasks' : os_tasks'[i].tcb \notin Pending'
  BY <1>2, ControlFacts
<1> QED
  BY <1>1, <1>3, <1>4, <1>5, <1>6 DEF ControlBlocks

LEMMA ControlKept ==
  ASSUME StacksInv, UNCHANGED <<regions, os_tasks, creating, pc, current>>
  PROVE  ControlBlocks'
<1>1. Pending' = Pending
  BY DEF Pending
<1>2. TableFull' <=> TableFull
  BY DEF TableFull
<1> QED
  BY <1>1, <1>2, ControlFacts DEF ControlBlocks

(* A step of the heap or of the boot, with the table as it was.             *)
LEMMA TableKept ==
  ASSUME StacksInv, HeapInv', ControlBlocks',
         UNCHANGED <<stack_pool_ptr, os_tasks, os_current_task_ptr, psp, guard>>,
         mpu_status' = 1 \/ mpu_status' = mpu_status,
         creating' \in {0, IdleStack} \cup StackSizes,
         boot' \in {"main", "start", "tasks", "fault"},
         boot' # "main" => os_tasks # <<>>,
         boot' = "tasks" => boot = "tasks"
  PROVE  StacksInv'
<1>1. StacksTypeOK'
  BY DEF StacksInv, StacksTypeOK, HeapInv
<1>2. StacksStacked'
  BY DEF StacksInv, StacksStacked
<1>3. StacksApart'
  BY DEF StacksInv, StacksApart
<1>4. RunnerFits'
  <2>1. Runner' = Runner
    BY DEF Runner
  <2> QED
    BY <2>1 DEF StacksInv, RunnerFits
<1> QED
  BY <1>1, <1>2, <1>3, <1>4 DEF StacksInv

LEMMA BootFacts ==
  ASSUME StacksInv
  PROVE  /\ boot \in {"main", "start", "tasks", "fault"}
         /\ boot # "main" => os_tasks # <<>>
         /\ creating \in {0, IdleStack} \cup StackSizes
BY DEF StacksInv, StacksTypeOK, RunnerFits

LEMMA MpuStep ==
  ASSUME StacksInv, os_mpu_init
  PROVE  StacksInv'
<1>1. /\ mpu_status' = 1 /\ UNCHANGED <<block, locals, regions, bootVars, cpuVars>>
      /\ UNCHANGED <<pc, current>>
  BY DEF os_mpu_init, locals
<1>2. HeapInv'
  BY <1>1, ControlFacts, MpuKeeps
<1>3. UNCHANGED <<stack_pool_ptr, os_tasks, os_current_task_ptr, creating>>
      /\ UNCHANGED <<boot, psp, guard>>
  BY <1>1 DEF bootVars, cpuVars
<1>4. ControlBlocks'
  BY <1>1, <1>3, ControlKept
<1> QED
  BY <1>1, <1>2, <1>3, <1>4, BootFacts, TableKept

LEMMA AppStep ==
  ASSUME StacksInv, AppHeap
  PROVE  StacksInv'
<1>1. /\ Quiet /\ creating = 0
      /\ UNCHANGED <<stack_pool_ptr, os_tasks, os_current_task_ptr, creating>>
      /\ UNCHANGED <<boot, psp, guard>>
  BY DEF AppHeap, MainCalls, Quiet, bootVars, cpuVars
<1>2. Pending = {}
  BY <1>1 DEF Pending
<1>3. App \in Clients /\ Main \in Clients /\ App # Main /\ HeapInv
  BY StackConstants, ControlFacts
<1>4. HeapInv' /\ Alone(App)' /\ regions'[Main] = regions[Main]
      /\ mpu_status' = mpu_status
  <2>1. CASE \E size \in Sizes : os_malloc(App, size)
    <3>1. PICK size \in Sizes : os_malloc(App, size)
      BY <2>1
    <3>2. size \in Nat
      BY HeapAssumption
    <3> QED
      BY <1>1, <1>3, <3>1, <3>2, MallocKeeps DEF os_malloc
  <2>2. CASE \E r \in regions[App] : os_mfree(App, r)
    <3>1. PICK r \in regions[App] : os_mfree(App, r)
      BY <2>2
    <3>2. HeapInv' /\ Alone(App)' /\ regions' = [regions EXCEPT ![App] = @ \ {r}]
      BY <1>1, <1>3, <3>1, MfreeKeeps
    <3>3. regions'[Main] = regions[Main]
      BY <1>3, <3>2 DEF HeapInv, RegionsAreBlocks
    <3> QED
      BY <3>1, <3>2, <3>3 DEF os_mfree
  <2> QED
    BY <2>1, <2>2 DEF AppHeap
<1>5. pc'[Main] = "run"
  BY <1>3, <1>4 DEF Alone
<1>6. ControlBlocks'
  BY <1>1, <1>2, <1>4, <1>5, ControlIdle
<1> QED
  BY <1>1, <1>4, <1>6, BootFacts, TableKept

(* Main gets its control block.                                             *)
LEMMA MainTakes ==
  ASSUME StacksInv, Take(Main), UNCHANGED <<os_tasks, creating>>
  PROVE  ControlBlocks'
<1>1. Main \in Clients /\ App \in Clients /\ Main # App /\ HeapInv
  BY StackConstants, ControlFacts
<1>2. pc[Main] = "found" /\ creating > 0 /\ ~ TableFull
  BY ControlFacts DEF Take
<1>3. PICK a \in InList : a = current[Main] /\ block[a].is_free
  BY <1>1, TakeKeeps
<1>4. PICK n : n = want[Main]
  OBVIOUS
<1>5. /\ pc'[Main] = "run" /\ Alone(Main)' /\ current'[Main] = a
      /\ regions' = [regions EXCEPT ![Main] = @ \cup {TakenAt(a, n)}]
  BY <1>1, <1>3, <1>4, TakeKeeps
<1>6. regions'[Main] = regions[Main] \cup {TakenAt(a, n)}
  BY <1>1, <1>5 DEF HeapInv, RegionsAreBlocks
<1>7. TakenAt(a, n).at = a + HEADER
  BY DEF TakenAt
<1>8. Pending = {} /\ Pending' = {a + HEADER}
  <2>1. creating' > 0
    BY <1>2
  <2> QED
    BY <1>2, <1>5, <2>1 DEF Pending
<1>9. { r.at : r \in regions'[Main] } = { r.at : r \in regions[Main] } \cup {a + HEADER}
  BY <1>6, <1>7
<1>10. \A r \in regions[Main] : r.at # a + HEADER
  <2>1. SUFFICES ASSUME NEW r \in regions[Main], r.at = a + HEADER
                 PROVE  FALSE
    OBVIOUS
  <2>2. r.at - HEADER = a
    <3>1. a \in Nat /\ HEADER \in Nat
      BY <1>1, HeapFacts
    <3> QED
      BY <2>1, <3>1
  <2> QED
    BY <1>1, <1>3, <2>2, RegionFacts
<1>11. { r.at : r \in regions[Main] } = { os_tasks[i].tcb : i \in DOMAIN os_tasks }
  <2>1. { r.at : r \in regions[Main] } =
          { os_tasks[i].tcb : i \in DOMAIN os_tasks } \cup Pending
    BY ControlFacts
  <2> QED
    BY <1>8, <2>1
<1>12. \A i \in DOMAIN os_tasks : os_tasks[i].tcb # a + HEADER
  <2>1. SUFFICES ASSUME NEW i \in DOMAIN os_tasks
                 PROVE  os_tasks[i].tcb # a + HEADER
    OBVIOUS
  <2>2. PICK r \in regions[Main] : r.at = os_tasks[i].tcb
    BY <1>11
  <2> QED
    BY <1>10, <2>2
<1>13. pc'[App] = "run" /\ ~ TableFull' /\ pc'[Main] \notin {"merge", "search", "found"}
  BY <1>1, <1>2, <1>5 DEF Alone, TableFull
<1>14. { r.at : r \in regions'[Main] } =
         { os_tasks'[i].tcb : i \in DOMAIN os_tasks' } \cup Pending'
  BY <1>8, <1>9, <1>11
<1>15. \A i \in DOMAIN os_tasks' : os_tasks'[i].tcb \notin Pending'
  BY <1>8, <1>12
<1>16. \A i, j \in DOMAIN os_tasks' : os_tasks'[i].tcb = os_tasks'[j].tcb => i = j
  BY ControlFacts
<1> QED
  BY <1>13, <1>14, <1>15, <1>16 DEF ControlBlocks

LEMMA HeapStep ==
  ASSUME StacksInv, HeapGoesOn
  PROVE  StacksInv'
<1>1. PICK c \in Clients :
        \/ (Search(c) \/ Take(c) \/ Merge(c) \/ MergeEnds(c)) /\ UNCHANGED creating
        \/ GiveUp(c) /\ creating' = 0
  BY DEF HeapGoesOn
<1>2. /\ UNCHANGED <<stack_pool_ptr, os_tasks, os_current_task_ptr>>
      /\ UNCHANGED <<boot, psp, guard>>
  BY DEF HeapGoesOn, cpuVars
<1>3. Main \in Clients /\ App \in Clients /\ Main # App /\ HeapInv
      /\ (c = Main \/ c = App)
  BY StackConstants, ControlFacts
<1>4. HeapInv' /\ Alone(c)' /\ mpu_status' = mpu_status
  <2>1. HeapInv' /\ Alone(c)'
    BY <1>1, <1>3, SearchKeeps, TakeKeeps, MergeKeeps, MergeEndsKeeps, GiveUpKeeps
  <2>2. mpu_status' = mpu_status
    BY <1>1 DEF Search, Take, Merge, MergeEnds, GiveUp
  <2> QED
    BY <2>1, <2>2
<1>5. creating' \in {0, IdleStack} \cup StackSizes
  BY <1>1, BootFacts
<1>6. CASE c = App
  <2>1. pc[App] # "run"
    BY <1>1, <1>6 DEF Search, Take, Merge, MergeEnds, GiveUp
  <2>2. creating = 0 /\ creating' = 0
    BY <1>1, <2>1, ControlFacts
  <2>3. Pending = {}
    BY <2>2 DEF Pending
  <2>4. pc'[Main] = "run"
    BY <1>3, <1>4, <1>6 DEF Alone
  <2>5. regions'[Main] = regions[Main]
    <3>1. CASE Take(App)
      <4>1. regions' = [regions EXCEPT ![App] =
                          @ \cup {TakenAt(current[App], want[App])}]
        BY <1>3, <3>1, TakeKeeps
      <4> QED
        BY <1>3, <4>1 DEF HeapInv, RegionsAreBlocks
    <3>2. CASE Search(App) \/ Merge(App) \/ MergeEnds(App) \/ GiveUp(App)
      BY <3>2 DEF Search, Merge, MergeEnds, GiveUp
    <3> QED
      BY <1>1, <1>6, <3>1, <3>2
  <2>6. ControlBlocks'
    BY <1>2, <2>2, <2>3, <2>4, <2>5, ControlIdle
  <2> QED
    BY <1>2, <1>4, <1>5, <2>6, BootFacts, TableKept
<1>7. CASE c = Main
  <2>1. ControlBlocks'
    <3>1. CASE Search(Main) /\ UNCHANGED creating
      <4>1. pc[Main] = "search" /\ UNCHANGED regions
        BY <3>1 DEF Search
      <4>2. creating > 0 /\ creating' > 0 /\ ~ TableFull
        BY <3>1, <4>1, ControlFacts
      <4>3. Pending = {}
        BY <4>1 DEF Pending
      <4>4. pc'[Main] \in {"search", "found"} /\ Alone(Main)'
        BY <1>3, <3>1, SearchKeeps
      <4> QED
        BY <1>2, <4>1, <4>2, <4>3, <4>4, ControlWaits
    <3>2. CASE Take(Main) /\ UNCHANGED creating
      BY <1>2, <3>2, MainTakes
    <3>3. CASE (Merge(Main) \/ MergeEnds(Main)) /\ UNCHANGED creating
      <4>1. pc[Main] = "merge" /\ UNCHANGED regions
        BY <3>3 DEF Merge, MergeEnds
      <4>2. creating = 0 /\ creating' = 0
        BY <3>3, <4>1, ControlFacts
      <4>3. Pending = {}
        BY <4>2 DEF Pending
      <4>4. pc'[Main] \in {"merge", "run"}
        BY <1>3, <3>3, MergeKeeps, MergeEndsKeeps
      <4>5. pc'[Main] \notin {"search", "found"}
        BY <4>4
      <4> QED
        BY <1>2, <4>1, <4>2, <4>3, <4>5, ControlIdle
    <3>4. CASE GiveUp(Main) /\ creating' = 0
      <4>1. pc[Main] = "search" /\ UNCHANGED regions
        BY <3>4 DEF GiveUp
      <4>2. Pending = {}
        BY <4>1 DEF Pending
      <4>3. pc'[Main] = "run"
        BY <1>3, <3>4, GiveUpKeeps
      <4> QED
        BY <1>2, <3>4, <4>1, <4>2, <4>3, ControlIdle
    <3> QED
      BY <1>1, <1>7, <3>1, <3>2, <3>3, <3>4
  <2> QED
    BY <1>2, <1>4, <1>5, <2>1, BootFacts, TableKept
<1> QED
  BY <1>3, <1>6, <1>7
-----------------------------------------------------------------------------
(* Creation.                                                                *)
LEMMA BeginStep ==
  ASSUME StacksInv, MainCalls, NEW size \in {IdleStack} \cup StackSizes,
         CreateBegin(size)
  PROVE  /\ HeapInv' /\ ControlBlocks' /\ mpu_status' = mpu_status
         /\ creating' = size
         /\ UNCHANGED <<stack_pool_ptr, os_tasks, os_current_task_ptr>>
<1>1. /\ Quiet /\ creating = 0 /\ creating' = size /\ ~ TableFull
      /\ UNCHANGED <<stack_pool_ptr, os_tasks, os_current_task_ptr>>
      /\ os_malloc(Main, TCB)
  BY DEF MainCalls, Quiet, CreateBegin
<1>2. Main \in Clients /\ HeapInv /\ TCB \in Nat /\ size > 0
  BY StackConstants, ControlFacts
<1>3. HeapInv' /\ pc'[Main] = "search" /\ Alone(Main)'
  BY <1>1, <1>2, MallocKeeps
<1>4. UNCHANGED regions /\ mpu_status' = mpu_status
  BY <1>1 DEF os_malloc
<1>5. Pending = {}
  BY <1>1 DEF Pending
<1>6. creating' > 0 /\ pc'[Main] \in {"search", "found"}
  BY <1>1, <1>2, <1>3
<1>7. ControlBlocks'
  BY <1>1, <1>3, <1>4, <1>5, <1>6, ControlWaits
<1> QED
  BY <1>1, <1>3, <1>4, <1>7

LEMMA CreateStep ==
  ASSUME StacksInv, NEW size \in StackSizes, os_task_create(size)
  PROVE  StacksInv'
<1>1. MainCalls /\ CreateBegin(size) /\ UNCHANGED <<boot, psp, guard>>
      /\ size \in {IdleStack} \cup StackSizes
  BY DEF os_task_create, cpuVars
<1>2. /\ HeapInv' /\ ControlBlocks' /\ mpu_status' = mpu_status
      /\ creating' = size
      /\ UNCHANGED <<stack_pool_ptr, os_tasks, os_current_task_ptr>>
  BY <1>1, BeginStep
<1>3. creating' \in {0, IdleStack} \cup StackSizes
  BY <1>2
<1> QED
  BY <1>1, <1>2, <1>3, BootFacts, TableKept

LEMMA StartStep ==
  ASSUME StacksInv, os_start
  PROVE  StacksInv'
<1>1. MainCalls /\ os_tasks # <<>> /\ boot' = "start" /\ UNCHANGED <<psp, guard>>
  BY DEF os_start
<1>2. CASE CreateBegin(IdleStack)
  <2>1. IdleStack \in {IdleStack} \cup StackSizes
    OBVIOUS
  <2>2. /\ HeapInv' /\ ControlBlocks' /\ mpu_status' = mpu_status
        /\ creating' = IdleStack
        /\ UNCHANGED <<stack_pool_ptr, os_tasks, os_current_task_ptr>>
    BY <1>1, <1>2, <2>1, BeginStep
  <2>3. creating' \in {0, IdleStack} \cup StackSizes
    BY <2>2
  <2> QED
    BY <1>1, <2>2, <2>3, TableKept
<1>3. CASE TableFull /\ UNCHANGED <<heapVars, bootVars>>
  <2>1. /\ UNCHANGED <<stack_pool_ptr, os_tasks, os_current_task_ptr, creating>>
        /\ UNCHANGED <<mpu_status, regions, pc, current>>
    BY <1>3 DEF bootVars, heapVars, locals
  <2>2. HeapInv'
    BY <1>3, ControlFacts, HeapInvStutters
  <2>3. ControlBlocks'
    BY <2>1, ControlKept
  <2> QED
    BY <1>1, <2>1, <2>2, <2>3, BootFacts, TableKept
<1> QED
  BY <1>2, <1>3 DEF os_start

(* The block that os_malloc has just returned to os_task_create.            *)
LEMMA NewTcbFacts ==
  ASSUME StacksInv, HasTcb
  PROVE  /\ NewTcb \in regions[Main] /\ NewTcb.at = current[Main] + HEADER
         /\ Pending = {NewTcb.at} /\ Quiet /\ creating > 0
         /\ { r.at : r \in regions[Main] } =
              { os_tasks[i].tcb : i \in DOMAIN os_tasks } \cup {NewTcb.at}
         /\ \A i \in DOMAIN os_tasks : os_tasks[i].tcb # NewTcb.at
         /\ \A r \in regions[Main] : r.at = NewTcb.at => r = NewTcb
<1>1. creating > 0 /\ pc[Main] = "run"
  BY DEF HasTcb
<1>2. Pending = {current[Main] + HEADER}
  BY <1>1 DEF Pending
<1>3. { r.at : r \in regions[Main] } =
        { os_tasks[i].tcb : i \in DOMAIN os_tasks } \cup Pending
  BY ControlFacts
<1>4. \E r \in regions[Main] : r.at = current[Main] + HEADER
  BY <1>2, <1>3
<1>5. NewTcb \in regions[Main] /\ NewTcb.at = current[Main] + HEADER
  BY <1>4 DEF NewTcb
<1>6. Quiet
  <2>1. pc[App] = "run"
    BY <1>1, ControlFacts
  <2> QED
    BY <1>1, <2>1, StackConstants DEF Quiet
<1>7. \A r \in regions[Main] : r.at = NewTcb.at => r = NewTcb
  <2>1. Main \in Clients /\ HeapInv
    BY StackConstants, ControlFacts
  <2> QED
    BY <1>5, <2>1 DEF HeapInv, RegionsAreBlocks
<1>8. Pending = {NewTcb.at}
  BY <1>2, <1>5
<1>9. \A i \in DOMAIN os_tasks : os_tasks[i].tcb # NewTcb.at
  BY <1>8, ControlFacts
<1> QED
  BY <1>1, <1>3, <1>5, <1>6, <1>7, <1>8, <1>9

LEMMA FailStep ==
  ASSUME StacksInv, CreateFails
  PROVE  StacksInv'
<1>1. /\ HasTcb /\ os_mfree(Main, NewTcb) /\ creating' = 0
      /\ UNCHANGED <<stack_pool_ptr, os_tasks, os_current_task_ptr>>
      /\ UNCHANGED <<boot, psp, guard>>
  BY DEF CreateFails, cpuVars
<1>2. Main \in Clients /\ HeapInv
  BY StackConstants, ControlFacts
<1>3. PICK r \in regions[Main] : r = NewTcb
  BY <1>1, NewTcbFacts
<1>4. /\ { x.at : x \in regions[Main] } =
           { os_tasks[i].tcb : i \in DOMAIN os_tasks } \cup {r.at}
      /\ \A i \in DOMAIN os_tasks : os_tasks[i].tcb # r.at
      /\ \A x \in regions[Main] : x.at = r.at => x = r
      /\ Quiet
  BY <1>1, <1>3, NewTcbFacts
<1>5. os_mfree(Main, r)
  BY <1>1, <1>3
<1>6. HeapInv' /\ pc'[Main] = "merge" /\ regions' = [regions EXCEPT ![Main] = @ \ {r}]
  BY <1>2, <1>4, <1>5, MfreeKeeps
<1>7. regions'[Main] = regions[Main] \ {r}
  BY <1>2, <1>6 DEF HeapInv, RegionsAreBlocks
<1>8. { x.at : x \in regions'[Main] } = { x.at : x \in regions[Main] } \ {r.at}
  BY <1>4, <1>7
<1>9. { x.at : x \in regions'[Main] } = { os_tasks[i].tcb : i \in DOMAIN os_tasks }
  BY <1>4, <1>8
<1>10. Pending' = {} /\ ~ (creating' > 0)
  BY <1>1 DEF Pending
<1>11. { x.at : x \in regions'[Main] } =
         { os_tasks'[i].tcb : i \in DOMAIN os_tasks' } \cup Pending'
  BY <1>1, <1>9, <1>10
<1>12. /\ \A i, j \in DOMAIN os_tasks' : os_tasks'[i].tcb = os_tasks'[j].tcb => i = j
       /\ \A i \in DOMAIN os_tasks' : os_tasks'[i].tcb \notin Pending'
  BY <1>1, <1>10, ControlFacts
<1>13. ControlBlocks'
  BY <1>6, <1>10, <1>11, <1>12 DEF ControlBlocks
<1>14. mpu_status' = mpu_status
  BY <1>5 DEF os_mfree
<1> QED
  BY <1>1, <1>6, <1>13, <1>14, BootFacts, TableKept

(* The task joins the table.                                                *)
LEMMA TaskStep ==
  ASSUME StacksInv, CreateTask
  PROVE  StacksInv'
<1>1. /\ HasTcb /\ StackFits /\ creating' = 0
      /\ stack_pool_ptr' = StackAt + Bytes(creating)
      /\ os_current_task_ptr' = IF os_tasks = <<>> THEN 1 ELSE os_current_task_ptr
      /\ UNCHANGED heapVars
      /\ UNCHANGED <<boot, psp, guard>>
  BY DEF CreateTask, PoolAfter, cpuVars
<1>2. /\ StacksTypeOK /\ HeapInv /\ Main \in Clients
      /\ StacksStacked /\ RunnerFits
  BY StackConstants, ControlFacts DEF StacksInv
<1>3. PICK size \in Nat : size = Bytes(creating) /\ FRAME <= size
                         /\ creating \in {IdleStack} \cup StackSizes
                         /\ ~ TableFull /\ FRAME \in Nat \ {0}
  BY <1>1, ControlFacts, StackConstants DEF HasTcb
<1>4. PICK at \in Nat : /\ at = StackAt /\ stack_pool_ptr <= at
                        /\ at % STACK_ALIGN = 0 /\ at + size <= StackPool
  <2>1. /\ stack_pool_ptr \in Nat /\ STACK_ALIGN \in Nat \ {0}
        /\ stack_pool_ptr + STACK_ALIGN <= WORD
    BY <1>2, StackConstants DEF StacksTypeOK
  <2>2. /\ StackAt \in Nat /\ stack_pool_ptr <= StackAt /\ StackAt % STACK_ALIGN = 0
    BY <2>1, AlignedUp DEF StackAt
  <2> QED
    BY <1>1, <1>3, <2>2 DEF StackFits
<1>5. PICK r \in regions[Main] :
        /\ r = NewTcb
        /\ { x.at : x \in regions[Main] } =
             { os_tasks[i].tcb : i \in DOMAIN os_tasks } \cup {r.at}
        /\ \A i \in DOMAIN os_tasks : os_tasks[i].tcb # r.at
  BY <1>1, NewTcbFacts
<1>6. PICK t : t = [tcb |-> r.at, stack_base |-> at, stack_size |-> creating,
                    stack_ptr |-> at + size - FRAME, stack_high_water |-> 0]
  OBVIOUS
<1>7. /\ t \in TaskRecord
      /\ t.tcb = r.at /\ t.stack_base = at /\ t.stack_size = creating
      /\ t.stack_ptr = at + size - FRAME /\ t.stack_high_water = 0
  <2>1. r.at \in 0 .. ArenaSize
    BY <1>2, RegionFacts
  <2>2. at \in 0 .. StackPool /\ at + size - FRAME \in 0 .. StackPool
        /\ 0 \in 0 .. StackPool
    BY <1>3, <1>4, StackConstants
  <2>3. t.tcb = r.at /\ t.stack_base = at /\ t.stack_size = creating
        /\ t.stack_ptr = at + size - FRAME /\ t.stack_high_water = 0
    BY <1>6
  <2> QED
    BY <1>3, <1>6, <2>1, <2>2, <2>3 DEF TaskRecord
<1>8. os_tasks' = Append(os_tasks, t)
  BY <1>1, <1>3, <1>4, <1>5, <1>6 DEF CreateTask
<1>9. PICK n \in Nat :
        /\ n = Len(os_tasks) /\ DOMAIN os_tasks = 1 .. n
        /\ os_tasks \in Seq(TaskRecord)
        /\ \A i \in 1 .. n : os_tasks[i] \in TaskRecord
  BY <1>2, TypeFacts
<1>10. /\ os_tasks' \in Seq(TaskRecord) /\ Len(os_tasks') = n + 1
       /\ DOMAIN os_tasks' = 1 .. n + 1 /\ os_tasks'[n + 1] = t
       /\ \A i \in 1 .. n : os_tasks'[i] = os_tasks[i]
  <2>1. /\ Append(os_tasks, t) \in Seq(TaskRecord)
        /\ Len(Append(os_tasks, t)) = n + 1
        /\ Append(os_tasks, t)[n + 1] = t
        /\ \A i \in 1 .. n : Append(os_tasks, t)[i] = os_tasks[i]
    BY <1>7, <1>9, AppendProperties
  <2>2. DOMAIN Append(os_tasks, t) = 1 .. n + 1
    BY <2>1
  <2> QED
    BY <1>8, <2>1, <2>2
<1>11. n + 1 <= OS_MAX_TASKS_NUM
  BY <1>3, <1>9, StackConstants DEF TableFull
<1>12. /\ os_current_task_ptr \in 0 .. n
       /\ os_current_task_ptr = 0 <=> n = 0
       /\ os_tasks = <<>> <=> n = 0
  BY <1>2, <1>9, TypeFacts DEF StacksTypeOK, RunnerFits
<1>13. os_current_task_ptr' \in 1 .. n + 1
       /\ (n # 0 => os_current_task_ptr' = os_current_task_ptr)
  BY <1>1, <1>12
<1>14. stack_pool_ptr' = at + size /\ stack_pool_ptr' \in 0 .. StackPool
       /\ stack_pool_ptr \in Nat /\ stack_pool_ptr <= stack_pool_ptr'
  <2>1. stack_pool_ptr \in Nat
    BY <1>2, StackConstants DEF StacksTypeOK
  <2> QED
    BY <1>1, <1>3, <1>4, <2>1, StackConstants
<1>15. HeapInv'
  BY <1>1, <1>2, HeapInvStutters
<1>16. StacksTypeOK'
  <2>1. creating' \in {0, IdleStack} \cup StackSizes
    BY <1>1
  <2>2. HeapTypeOK'
    BY <1>15 DEF HeapInv
  <2>3. os_current_task_ptr' \in 0 .. n + 1
    BY <1>13
  <2> QED
    BY <1>1, <1>2, <1>10, <1>11, <1>14, <2>1, <2>2, <2>3 DEF StacksTypeOK, TaskRecord
<1>17. ControlBlocks'
  <2>1. Pending' = {} /\ ~ (creating' > 0)
    BY <1>1 DEF Pending
  <2>2. /\ regions' = regions /\ pc' = pc
    BY <1>1 DEF heapVars, locals
  <2>3. pc'[Main] \notin {"search", "found"}
    BY <1>1, <2>2 DEF HasTcb
  <2>4. { os_tasks'[i].tcb : i \in DOMAIN os_tasks' } =
          { os_tasks[i].tcb : i \in DOMAIN os_tasks } \cup {r.at}
    <3>1. ASSUME NEW x \in { os_tasks'[i].tcb : i \in DOMAIN os_tasks' }
          PROVE  x \in { os_tasks[i].tcb : i \in DOMAIN os_tasks } \cup {r.at}
      <4>1. PICK i \in 1 .. n + 1 : x = os_tasks'[i].tcb
        BY <1>10
      <4>2. CASE i = n + 1
        BY <1>7, <1>10, <4>1, <4>2
      <4>3. CASE i # n + 1
        <5>1. i \in 1 .. n
          BY <4>3
        <5> QED
          BY <1>9, <1>10, <4>1, <5>1
      <4> QED
        BY <4>2, <4>3
    <3>2. ASSUME NEW i \in DOMAIN os_tasks
          PROVE  os_tasks[i].tcb \in { os_tasks'[j].tcb : j \in DOMAIN os_tasks' }
      <4>1. i \in 1 .. n + 1 /\ os_tasks'[i] = os_tasks[i]
        BY <1>9, <1>10
      <4> QED
        BY <1>10, <4>1
    <3>3. r.at \in { os_tasks'[j].tcb : j \in DOMAIN os_tasks' }
      <4>1. n + 1 \in 1 .. n + 1
        OBVIOUS
      <4> QED
        BY <1>7, <1>10, <4>1
    <3> QED
      BY <3>1, <3>2, <3>3
  <2>5. { x.at : x \in regions'[Main] } =
          { os_tasks'[i].tcb : i \in DOMAIN os_tasks' } \cup Pending'
    BY <1>5, <2>1, <2>2, <2>4
  <2>6. ASSUME NEW i \in DOMAIN os_tasks', NEW j \in DOMAIN os_tasks',
               os_tasks'[i].tcb = os_tasks'[j].tcb
        PROVE  i = j
    <3>1. \A k \in 1 .. n : os_tasks'[k].tcb # os_tasks'[n + 1].tcb
      BY <1>5, <1>7, <1>9, <1>10
    <3>2. i \in 1 .. n + 1 /\ j \in 1 .. n + 1
      BY <1>10
    <3>3. CASE i = n + 1 \/ j = n + 1
      BY <2>6, <3>1, <3>2, <3>3
    <3>4. CASE i # n + 1 /\ j # n + 1
      <4>1. i \in 1 .. n /\ j \in 1 .. n
        BY <3>2, <3>4
      <4>2. os_tasks[i].tcb = os_tasks[j].tcb
        BY <1>10, <2>6, <4>1
      <4> QED
        BY <1>9, <4>1, <4>2, ControlFacts
    <3> QED
      BY <3>3, <3>4
  <2>7. \A i \in DOMAIN os_tasks' : os_tasks'[i].tcb \notin Pending'
    BY <2>1
  <2> QED
    BY <2>1, <2>3, <2>5, <2>6, <2>7 DEF ControlBlocks
<1>18. StacksStacked'
  <2>1. Top(t) = at + size /\ Top(t) = stack_pool_ptr'
    BY <1>3, <1>7, <1>14 DEF Top
  <2>2. /\ t.stack_base % STACK_ALIGN = 0
        /\ Top(t) <= stack_pool_ptr'
        /\ t.stack_base <= t.stack_ptr /\ t.stack_ptr + FRAME <= Top(t)
        /\ t.stack_high_water < Bytes(t.stack_size)
    BY <1>1, <1>3, <1>4, <1>7, <1>14, <2>1 DEF HasTcb
  <2>3. ASSUME NEW i \in 1 .. n
        PROVE  /\ os_tasks[i].stack_base % STACK_ALIGN = 0
               /\ Top(os_tasks[i]) \in Nat /\ Top(os_tasks[i]) <= stack_pool_ptr
               /\ os_tasks[i].stack_base <= os_tasks[i].stack_ptr
               /\ os_tasks[i].stack_ptr + FRAME <= Top(os_tasks[i])
               /\ os_tasks[i].stack_high_water < Bytes(os_tasks[i].stack_size)
    <3>1. i \in DOMAIN os_tasks /\ os_tasks[i] \in TaskRecord
      BY <1>9
    <3>2. Top(os_tasks[i]) \in Nat
      BY <3>1, RecordFacts
    <3> QED
      BY <1>2, <3>1, <3>2 DEF StacksStacked
  <2>4. ASSUME NEW i \in DOMAIN os_tasks'
        PROVE  /\ os_tasks'[i].stack_base % STACK_ALIGN = 0
               /\ Top(os_tasks'[i]) <= stack_pool_ptr'
               /\ os_tasks'[i].stack_base <= os_tasks'[i].stack_ptr
               /\ os_tasks'[i].stack_ptr + FRAME <= Top(os_tasks'[i])
               /\ os_tasks'[i].stack_high_water < Bytes(os_tasks'[i].stack_size)
    <3>1. CASE i = n + 1
      BY <1>10, <2>2, <3>1
    <3>2. CASE i # n + 1
      <4>1. i \in 1 .. n
        BY <1>10, <3>2
      <4>2. os_tasks'[i] = os_tasks[i]
        BY <1>10, <4>1
      <4>3. Top(os_tasks[i]) <= stack_pool_ptr'
        BY <1>14, <2>3, <4>1
      <4> QED
        BY <2>3, <4>1, <4>2, <4>3
    <3> QED
      BY <3>1, <3>2
  <2>5. ASSUME NEW i \in DOMAIN os_tasks', NEW j \in DOMAIN os_tasks', i < j
        PROVE  Top(os_tasks'[i]) <= os_tasks'[j].stack_base
    <3>1. i \in 1 .. n /\ j \in 1 .. n + 1
      BY <1>10, <2>5
    <3>2. os_tasks'[i] = os_tasks[i]
      BY <1>10, <3>1
    <3>3. CASE j = n + 1
      <4>1. os_tasks'[j].stack_base = at
        BY <1>7, <1>10, <3>3
      <4> QED
        BY <1>4, <1>14, <2>3, <3>1, <3>2, <4>1
    <3>4. CASE j # n + 1
      <4>1. j \in 1 .. n
        BY <3>1, <3>4
      <4>2. os_tasks'[j] = os_tasks[j]
        BY <1>10, <4>1
      <4> QED
        BY <1>2, <1>9, <2>5, <3>1, <3>2, <4>1, <4>2 DEF StacksStacked
    <3> QED
      BY <3>3, <3>4
  <2> QED
    BY <2>4, <2>5 DEF StacksStacked
<1>19. RunnerFits'
  <2>1. os_tasks' # <<>> /\ os_current_task_ptr' # 0
    BY <1>10, <1>13, EmptySeq
  <2>2. n # 0 => Runner' = Runner
    BY <1>10, <1>12, <1>13 DEF Runner
  <2>3. (guard # NoGuard \/ boot # "main") => n # 0
    BY <1>2, <1>12 DEF RunnerFits
  <2>4. mpu_status' = mpu_status
    BY <1>1 DEF heapVars
  <2>5. boot' = "tasks" =>
          Runner'.stack_base + FRAME <= psp' /\ psp' <= Top(Runner')
    <3>1. SUFFICES ASSUME boot = "tasks"
                   PROVE  Runner'.stack_base + FRAME <= psp /\ psp <= Top(Runner')
      BY <1>1
    <3>2. Runner' = Runner
      BY <2>2, <2>3, <3>1
    <3> QED
      BY <1>2, <3>1, <3>2 DEF RunnerFits
  <2>6. guard' # NoGuard =>
          os_current_task_ptr' # 0 /\ mpu_status' = 1 /\ guard' = Runner'.stack_base
    <3>1. SUFFICES ASSUME guard # NoGuard
                   PROVE  mpu_status = 1 /\ guard = Runner'.stack_base
      BY <1>1, <2>1, <2>4
    <3>2. Runner' = Runner
      BY <2>2, <2>3, <3>1
    <3> QED
      BY <1>2, <3>1, <3>2 DEF RunnerFits
  <2> QED
    BY <2>1, <2>5, <2>6 DEF RunnerFits, Top
<1>20. StacksApart'
  <2>1. (StacksTypeOK /\ StacksStacked => StacksApart)'
    BY StackedApart, PTL
  <2> QED
    BY <1>16, <1>18, <2>1
<1> QED
  BY <1>15, <1>16, <1>17, <1>18, <1>19, <1>20 DEF StacksInv
-----------------------------------------------------------------------------
(* The running tasks.                                                       *)
LEMMA RunnerFacts ==
  ASSUME StacksInv, os_tasks # <<>>
  PROVE  /\ os_current_task_ptr \in DOMAIN os_tasks
         /\ Runner = os_tasks[os_current_task_ptr] /\ Runner \in TaskRecord
         /\ Runner.stack_base \in Nat /\ Runner.stack_size \in Nat
         /\ Bytes(Runner.stack_size) \in Nat
         /\ Runner.stack_ptr \in Nat /\ Top(Runner) \in Nat
         /\ Top(Runner) = Runner.stack_base + Bytes(Runner.stack_size)
         /\ Top(Runner) <= StackPool
         /\ Runner.stack_base <= Runner.stack_ptr
         /\ Runner.stack_ptr + FRAME <= Top(Runner)
         /\ psp \in Nat /\ FRAME \in Nat /\ StackPool \in Nat
<1>1. StacksTypeOK /\ StacksStacked /\ os_current_task_ptr # 0
  BY DEF StacksInv, RunnerFits
<1>2. PICK c \in DOMAIN os_tasks : c = os_current_task_ptr
  BY <1>1, TypeFacts DEF StacksTypeOK
<1>3. PICK t \in TaskRecord : t = os_tasks[c] /\ t = Runner
  BY <1>1, <1>2, TypeFacts DEF Runner
<1>4. /\ t.stack_base \in Nat /\ t.stack_size \in Nat
      /\ Bytes(t.stack_size) \in Nat /\ t.stack_ptr \in Nat /\ Top(t) \in Nat
      /\ Top(t) = t.stack_base + Bytes(t.stack_size)
  BY RecordFacts
<1>5. /\ t.stack_base <= t.stack_ptr /\ t.stack_ptr + FRAME <= Top(t)
      /\ Top(t) <= stack_pool_ptr
  BY <1>1, <1>2, <1>3 DEF StacksStacked
<1>6. /\ psp \in Nat /\ FRAME \in Nat /\ StackPool \in Nat
      /\ stack_pool_ptr \in Nat /\ stack_pool_ptr <= StackPool
  BY <1>1, StackConstants DEF StacksTypeOK
<1>7. Top(t) <= StackPool
  BY <1>4, <1>5, <1>6
<1> QED
  BY <1>2, <1>3, <1>4, <1>5, <1>6, <1>7

(* A step that moves the running task's stack pointer.                      *)
LEMMA PspKept ==
  ASSUME StacksInv, os_tasks # <<>>,
         UNCHANGED heapVars, UNCHANGED bootVars, UNCHANGED guard,
         boot' = "tasks",
         NEW p \in Nat, psp' = p,
         Runner.stack_base + FRAME <= p, p <= Top(Runner)
  PROVE  StacksInv'
<1>1. /\ UNCHANGED <<stack_pool_ptr, os_tasks, os_current_task_ptr, creating>>
      /\ UNCHANGED <<mpu_status, regions, pc, current>>
  BY DEF bootVars, heapVars, locals
<1>2. HeapInv'
  BY ControlFacts, HeapInvStutters
<1>3. ControlBlocks'
  BY <1>1, ControlKept
<1>4. p \in 0 .. StackPool
  BY RunnerFacts
<1>5. StacksTypeOK'
  BY <1>1, <1>2, <1>4 DEF StacksInv, StacksTypeOK, HeapInv
<1>6. StacksStacked' /\ StacksApart'
  BY <1>1 DEF StacksInv, StacksStacked, StacksApart
<1>7. RunnerFits'
  <2>1. Runner' = Runner
    BY <1>1 DEF Runner
  <2> QED
    BY <1>1, <2>1 DEF StacksInv, RunnerFits
<1> QED
  BY <1>2, <1>3, <1>5, <1>6, <1>7 DEF StacksInv

LEMMA SvcStep ==
  ASSUME StacksInv, SVC_Handler
  PROVE  StacksInv'
<1>1. /\ boot = "start" /\ boot' = "tasks"
      /\ psp' = Runner.stack_ptr + FRAME
      /\ UNCHANGED heapVars /\ UNCHANGED bootVars /\ UNCHANGED guard
  BY DEF SVC_Handler, Runner
<1>2. os_tasks # <<>>
  BY <1>1, BootFacts
<1>3. PICK p \in Nat : p = Runner.stack_ptr + FRAME
  BY <1>2, RunnerFacts
<1>4. Runner.stack_base + FRAME <= p /\ p <= Top(Runner)
  BY <1>2, <1>3, RunnerFacts
<1> QED
  BY <1>1, <1>2, <1>3, <1>4, PspKept

LEMMA PushStep ==
  ASSUME StacksInv, boot = "tasks", NEW depth \in Depths, Push(depth)
  PROVE  StacksInv'
<1>1. /\ depth + FRAME <= Bytes(Runner.stack_size)
      /\ psp' = Top(Runner) - depth
      /\ UNCHANGED heapVars /\ UNCHANGED bootVars /\ UNCHANGED guard
      /\ boot' = "tasks"
  BY DEF Push
<1>2. os_tasks # <<>>
  BY BootFacts
<1>3. depth \in Nat
  BY StackConstants
<1>4. PICK b \in Nat, z \in Nat, e \in Nat :
        /\ b = Runner.stack_base /\ z = Bytes(Runner.stack_size) /\ e = Top(Runner)
        /\ e = b + z
  BY <1>2, RunnerFacts
<1>5. FRAME \in Nat /\ depth + FRAME <= z
  BY <1>1, <1>4, StackConstants
<1>6. PICK p \in Nat : p = e - depth
  <2>1. e - depth \in Nat
    BY <1>3, <1>4, <1>5
  <2> QED
    BY <2>1
<1>7. b + FRAME <= p /\ p <= e
  BY <1>3, <1>4, <1>5, <1>6
<1>8. psp' = p /\ Runner.stack_base + FRAME <= p /\ p <= Top(Runner)
  BY <1>1, <1>4, <1>6, <1>7
<1> QED
  BY <1>1, <1>2, <1>8, PspKept

LEMMA FaultStep ==
  ASSUME StacksInv, boot = "tasks", MemManage_Handler
  PROVE  StacksInv'
<1>1. /\ boot' = "fault" /\ UNCHANGED <<psp, guard>>
      /\ UNCHANGED heapVars
      /\ UNCHANGED <<stack_pool_ptr, os_tasks, os_current_task_ptr, creating>>
  BY DEF MemManage_Handler, bootVars
<1>2. UNCHANGED <<mpu_status, regions, pc, current>>
  BY <1>1 DEF heapVars, locals
<1>3. HeapInv'
  BY <1>1, ControlFacts, HeapInvStutters
<1>4. ControlBlocks'
  BY <1>1, <1>2, ControlKept
<1> QED
  BY <1>1, <1>2, <1>3, <1>4, BootFacts, TableKept

(* The switch, task by task.                                                *)
LEMMA SwitchFacts ==
  ASSUME StacksInv, boot = "tasks", NEW next \in 1 .. Len(os_tasks),
         PendSV_Handler(next)
  PROVE  /\ os_tasks' \in Seq(TaskRecord) /\ Len(os_tasks') = Len(os_tasks)
         /\ \A i \in DOMAIN os_tasks :
              /\ os_tasks'[i].tcb = os_tasks[i].tcb
              /\ os_tasks'[i].stack_base = os_tasks[i].stack_base
              /\ os_tasks'[i].stack_size = os_tasks[i].stack_size
              /\ os_tasks'[i].stack_base <= os_tasks'[i].stack_ptr
              /\ os_tasks'[i].stack_ptr + FRAME <= Top(os_tasks'[i])
              /\ os_tasks'[i].stack_high_water >= os_tasks[i].stack_high_water
              /\ os_tasks'[i].stack_high_water < Bytes(os_tasks'[i].stack_size)
         /\ os_tasks'[next].stack_high_water + WORD_BYTES >=
              Top(os_tasks'[next]) - os_tasks'[next].stack_ptr
<1>1. os_tasks # <<>> /\ StacksTypeOK /\ StacksStacked
  BY BootFacts DEF StacksInv
<1>2. /\ os_tasks \in Seq(TaskRecord) /\ Len(os_tasks) \in Nat
      /\ DOMAIN os_tasks = 1 .. Len(os_tasks)
      /\ \A i \in DOMAIN os_tasks : os_tasks[i] \in TaskRecord
  BY <1>1, TypeFacts
<1>3. PICK c \in 1 .. Len(os_tasks) : c = os_current_task_ptr /\ Runner = os_tasks[c]
  BY <1>1, <1>2, RunnerFacts
<1>4. Runner.stack_base + FRAME <= psp /\ psp <= Top(Runner)
  BY DEF StacksInv, RunnerFits
<1>5. PICK f \in 0 .. StackPool :
        /\ f = psp - FRAME
        /\ os_tasks[c].stack_base <= f /\ f + FRAME <= Top(os_tasks[c])
  <2>1. /\ Runner.stack_base \in Nat /\ Top(Runner) \in Nat /\ Top(Runner) <= StackPool
        /\ psp \in Nat /\ FRAME \in Nat /\ StackPool \in Nat
    BY <1>1, RunnerFacts
  <2>2. psp - FRAME \in 0 .. StackPool /\ Runner.stack_base <= psp - FRAME
        /\ (psp - FRAME) + FRAME <= Top(Runner)
    BY <1>4, <2>1
  <2> QED
    BY <1>3, <2>2
<1>6. PICK saved : saved = PtrSet(os_tasks, c, f)
  OBVIOUS
<1>7. /\ saved \in Seq(TaskRecord) /\ Len(saved) = Len(os_tasks)
      /\ \A i \in 1 .. Len(os_tasks) \ {c} : saved[i] = os_tasks[i]
      /\ saved[c].stack_ptr = f
      /\ saved[c].tcb = os_tasks[c].tcb
      /\ saved[c].stack_base = os_tasks[c].stack_base
      /\ saved[c].stack_size = os_tasks[c].stack_size
      /\ saved[c].stack_high_water = os_tasks[c].stack_high_water
  <2>1. AfterPtr(os_tasks, saved, c, f)
    BY <1>2, <1>6, SetPtr
  <2> QED
    BY <2>1 DEF AfterPtr
<1>8. ASSUME NEW i \in 1 .. Len(os_tasks)
      PROVE  /\ saved[i] \in TaskRecord
             /\ saved[i].tcb = os_tasks[i].tcb
             /\ saved[i].stack_base = os_tasks[i].stack_base
             /\ saved[i].stack_size = os_tasks[i].stack_size
             /\ saved[i].stack_high_water = os_tasks[i].stack_high_water
             /\ saved[i].stack_base <= saved[i].stack_ptr
             /\ saved[i].stack_ptr + FRAME <= Top(saved[i])
             /\ saved[i].stack_high_water < Bytes(saved[i].stack_size)
             /\ Top(saved[i]) <= StackPool
  <2>1. /\ os_tasks[i].stack_base <= os_tasks[i].stack_ptr
        /\ os_tasks[i].stack_ptr + FRAME <= Top(os_tasks[i])
        /\ os_tasks[i].stack_high_water < Bytes(os_tasks[i].stack_size)
        /\ Top(os_tasks[i]) <= stack_pool_ptr
    BY <1>1, <1>2 DEF StacksStacked
  <2>2. saved[i] \in TaskRecord
    BY <1>7
  <2>3. /\ stack_pool_ptr \in Nat /\ stack_pool_ptr <= StackPool /\ StackPool \in Nat
    BY <1>1, StackConstants DEF StacksTypeOK
  <2>4. Top(os_tasks[i]) \in Nat
    BY <1>2, RecordFacts
  <2>5. Top(os_tasks[i]) <= StackPool
    BY <2>1, <2>3, <2>4
  <2>6. CASE i = c
    <3>1. Top(saved[i]) = Top(os_tasks[i])
      BY <1>7, <2>6 DEF Top
    <3> QED
      BY <1>5, <1>7, <2>1, <2>2, <2>5, <2>6, <3>1
  <2>7. CASE i # c
    <3>1. saved[i] = os_tasks[i]
      BY <1>7, <2>7
    <3> QED
      BY <2>1, <2>2, <2>5, <3>1
  <2> QED
    BY <2>6, <2>7
<1>9. PICK t \in TaskRecord : t = saved[next]
  BY <1>8
<1>10. /\ t.stack_base \in Nat /\ t.stack_size \in Nat /\ t.stack_ptr \in Nat
       /\ t.stack_high_water \in Nat
       /\ t.stack_size # 0 /\ Bytes(t.stack_size) \in Nat
       /\ Top(t) \in Nat /\ Top(t) = t.stack_base + Bytes(t.stack_size)
       /\ FRAME \in Nat \ {0} /\ StackPool \in Nat
  BY RecordFacts, StackConstants
<1>11. /\ t.stack_base <= t.stack_ptr /\ t.stack_ptr + FRAME <= Top(t)
       /\ t.stack_high_water < Bytes(t.stack_size) /\ Top(t) <= StackPool
  BY <1>8, <1>9
<1>12. PICK u \in Nat : u = used(t) /\ u < Bytes(t.stack_size) /\ u <= StackPool
                        /\ u + WORD_BYTES = Top(t) - t.stack_ptr
  <2>1. PICK b \in Nat, p \in Nat, e \in Nat, z \in Nat :
          b = t.stack_base /\ p = t.stack_ptr /\ e = Top(t) /\ z = Bytes(t.stack_size)
    BY <1>10
  <2>2. b <= p /\ p + FRAME <= e /\ e <= StackPool /\ e = b + z
        /\ FRAME \in Nat \ {0} /\ StackPool \in Nat
    BY <1>10, <1>11, <2>1
  <2>3. PICK w \in Nat \ {0} : w = WORD_BYTES /\ w <= FRAME
    BY StackConstants
  <2>4. PICK u \in Nat : u + w = e - p
    <3>1. e - p - w \in Nat /\ (e - p - w) + w = e - p
      BY <2>2, <2>3
    <3> QED
      BY <3>1
  <2>5. u < z /\ u <= StackPool
    BY <2>2, <2>3, <2>4
  <2>6. u = used(t)
    <3>1. Bytes(t.stack_size - 1) = z - w
      BY <1>10, <2>1, <2>3, LastWord
    <3>2. u = b + (z - w) - p
      BY <2>2, <2>3, <2>4
    <3> QED
      BY <2>1, <3>1, <3>2 DEF used
  <2> QED
    BY <2>1, <2>3, <2>4, <2>5, <2>6
<1>13. PICK h \in 0 .. StackPool : /\ h = high_water(t)
                                   /\ h >= t.stack_high_water /\ h < Bytes(t.stack_size)
                                   /\ h + WORD_BYTES >= Top(t) - t.stack_ptr
  <2>1. PICK m \in Nat, z \in Nat : m = t.stack_high_water /\ z = Bytes(t.stack_size)
    BY <1>10
  <2>2. PICK h \in Nat : h = high_water(t) /\ (h = u \/ h = m) /\ h >= u /\ h >= m
    <3>1. PICK h \in Nat : h = IF u > m THEN u ELSE m
      OBVIOUS
    <3>2. h = high_water(t)
      BY <1>12, <2>1, <3>1 DEF high_water
    <3>3. (h = u \/ h = m) /\ h >= u /\ h >= m
      BY <3>1
    <3> QED
      BY <3>2, <3>3
  <2>3. m < z /\ u < z /\ z <= StackPool
    <3>1. PICK b \in Nat, p \in Nat, e \in Nat :
            b = t.stack_base /\ p = t.stack_ptr /\ e = Top(t)
      BY <1>10
    <3>2. e = b + z /\ e <= StackPool /\ StackPool \in Nat
      BY <1>10, <1>11, <2>1, <3>1
    <3>3. z <= StackPool
      BY <3>2
    <3> QED
      BY <1>11, <1>12, <2>1, <3>3
  <2>4. h < z
    BY <2>1, <2>2, <2>3
  <2>5. h \in 0 .. StackPool
    BY <1>10, <2>1, <2>3, <2>4
  <2>6. h + WORD_BYTES >= u + WORD_BYTES
    BY <2>2, StackConstants
  <2> QED
    BY <1>12, <2>1, <2>2, <2>4, <2>5, <2>6
<1>14. os_tasks' = HighSet(saved, next, h)
  BY <1>3, <1>5, <1>6, <1>9, <1>13 DEF PendSV_Handler, PtrSet, HighSet
<1>15. PICK s2 : s2 = os_tasks'
  OBVIOUS
<1>16. /\ s2 \in Seq(TaskRecord) /\ Len(s2) = Len(saved)
       /\ \A i \in 1 .. Len(saved) \ {next} : s2[i] = saved[i]
       /\ s2[next].stack_high_water = h
       /\ s2[next].tcb = saved[next].tcb
       /\ s2[next].stack_base = saved[next].stack_base
       /\ s2[next].stack_size = saved[next].stack_size
       /\ s2[next].stack_ptr = saved[next].stack_ptr
  <2>1. saved \in Seq(TaskRecord) /\ next \in 1 .. Len(saved)
    BY <1>7
  <2>2. s2 = HighSet(saved, next, h)
    BY <1>14, <1>15
  <2>3. AfterHigh(saved, s2, next, h)
    BY <2>1, <2>2, SetHigh
  <2> QED
    BY <2>3 DEF AfterHigh
<1>17. Top(s2[next]) = Top(t)
  BY <1>9, <1>16 DEF Top
<1>18. ASSUME NEW i \in DOMAIN os_tasks
       PROVE  /\ s2[i].tcb = os_tasks[i].tcb
              /\ s2[i].stack_base = os_tasks[i].stack_base
              /\ s2[i].stack_size = os_tasks[i].stack_size
              /\ s2[i].stack_base <= s2[i].stack_ptr
              /\ s2[i].stack_ptr + FRAME <= Top(s2[i])
              /\ s2[i].stack_high_water >= os_tasks[i].stack_high_water
              /\ s2[i].stack_high_water < Bytes(s2[i].stack_size)
  <2>1. i \in 1 .. Len(os_tasks)
    BY <1>2
  <2>2. CASE i = next
    BY <1>8, <1>9, <1>11, <1>13, <1>16, <1>17, <2>1, <2>2
  <2>3. CASE i # next
    <3>1. s2[i] = saved[i]
      BY <1>7, <1>16, <2>1, <2>3
    <3>2. os_tasks[i].stack_high_water \in Nat
      BY <1>2, RecordFacts
    <3>3. s2[i].stack_high_water >= os_tasks[i].stack_high_water
      BY <1>8, <2>1, <3>1, <3>2
    <3> QED
      BY <1>8, <2>1, <3>1, <3>3
  <2> QED
    BY <2>2, <2>3
<1>19. s2[next].stack_high_water + WORD_BYTES >= Top(s2[next]) - s2[next].stack_ptr
  BY <1>9, <1>13, <1>16, <1>17
<1> QED
  BY <1>7, <1>15, <1>16, <1>18, <1>19

LEMMA SwitchStep ==
  ASSUME StacksInv, boot = "tasks", NEW next \in 1 .. Len(os_tasks),
         PendSV_Handler(next)
  PROVE  StacksInv'
<1>1. /\ os_current_task_ptr' = next
      /\ psp' = os_tasks'[next].stack_ptr + FRAME
      /\ guard' = GuardOf(os_tasks[next])
      /\ UNCHANGED heapVars /\ UNCHANGED <<stack_pool_ptr, creating, boot>>
  BY DEF PendSV_Handler, GuardAfter
<1>2. /\ os_tasks' \in Seq(TaskRecord) /\ Len(os_tasks') = Len(os_tasks)
      /\ \A i \in DOMAIN os_tasks :
           /\ os_tasks'[i].tcb = os_tasks[i].tcb
           /\ os_tasks'[i].stack_base = os_tasks[i].stack_base
           /\ os_tasks'[i].stack_size = os_tasks[i].stack_size
           /\ os_tasks'[i].stack_base <= os_tasks'[i].stack_ptr
           /\ os_tasks'[i].stack_ptr + FRAME <= Top(os_tasks'[i])
           /\ os_tasks'[i].stack_high_water < Bytes(os_tasks'[i].stack_size)
  BY SwitchFacts
<1>3. /\ StacksTypeOK /\ StacksStacked /\ RunnerFits
      /\ Len(os_tasks) \in Nat /\ DOMAIN os_tasks = 1 .. Len(os_tasks)
      /\ \A i \in DOMAIN os_tasks : os_tasks[i] \in TaskRecord
  BY TypeFacts DEF StacksInv
<1>4. DOMAIN os_tasks' = DOMAIN os_tasks /\ next \in DOMAIN os_tasks
  BY <1>2, <1>3
<1>5. \A i \in DOMAIN os_tasks : Top(os_tasks'[i]) = Top(os_tasks[i])
  BY <1>2 DEF Top
<1>6. UNCHANGED <<mpu_status, regions, pc, current>>
  BY <1>1 DEF heapVars, locals
<1>7. HeapInv'
  BY <1>1, ControlFacts, HeapInvStutters
<1>8. StacksStacked'
  <2>1. \A i \in DOMAIN os_tasks :
          /\ os_tasks[i].stack_base % STACK_ALIGN = 0
          /\ Top(os_tasks[i]) <= stack_pool_ptr
    BY <1>3 DEF StacksStacked
  <2>2. \A i, j \in DOMAIN os_tasks :
          i < j => Top(os_tasks[i]) <= os_tasks[j].stack_base
    BY <1>3 DEF StacksStacked
  <2>3. \A i \in DOMAIN os_tasks' :
          /\ os_tasks'[i].stack_base % STACK_ALIGN = 0
          /\ Top(os_tasks'[i]) <= stack_pool_ptr'
          /\ os_tasks'[i].stack_base <= os_tasks'[i].stack_ptr
          /\ os_tasks'[i].stack_ptr + FRAME <= Top(os_tasks'[i])
          /\ os_tasks'[i].stack_high_water < Bytes(os_tasks'[i].stack_size)
    BY <1>1, <1>2, <1>4, <1>5, <2>1
  <2>4. \A i, j \in DOMAIN os_tasks' :
          i < j => Top(os_tasks'[i]) <= os_tasks'[j].stack_base
    BY <1>2, <1>4, <1>5, <2>2
  <2> QED
    BY <2>3, <2>4 DEF StacksStacked
<1>9. PICK t \in TaskRecord : t = os_tasks'[next]
  BY <1>2, <1>4
<1>10. /\ t.stack_base \in Nat /\ t.stack_ptr \in Nat /\ Top(t) \in Nat
       /\ t.stack_base <= t.stack_ptr /\ t.stack_ptr + FRAME <= Top(t)
       /\ Top(t) <= StackPool
       /\ t.stack_base = os_tasks[next].stack_base
       /\ t.stack_base % STACK_ALIGN = 0
  <2>1. t.stack_base \in Nat /\ t.stack_ptr \in Nat /\ Top(t) \in Nat
    BY RecordFacts
  <2>2. /\ t.stack_base <= t.stack_ptr /\ t.stack_ptr + FRAME <= Top(t)
        /\ Top(t) <= stack_pool_ptr /\ t.stack_base % STACK_ALIGN = 0
    BY <1>1, <1>4, <1>8, <1>9 DEF StacksStacked
  <2>3. stack_pool_ptr \in Nat /\ stack_pool_ptr <= StackPool /\ StackPool \in Nat
    BY <1>3, StackConstants DEF StacksTypeOK
  <2>4. Top(t) <= StackPool
    BY <2>1, <2>2, <2>3
  <2> QED
    BY <1>2, <1>4, <1>9, <2>1, <2>2, <2>4
<1>11. PICK p \in 0 .. StackPool : /\ p = t.stack_ptr + FRAME
                                   /\ t.stack_base + FRAME <= p /\ p <= Top(t)
  <2>1. PICK p \in Nat : p = t.stack_ptr + FRAME
    BY <1>10, StackConstants
  <2>2. FRAME \in Nat /\ StackPool \in Nat
    BY StackConstants
  <2>3. t.stack_base + FRAME <= p
    BY <1>10, <2>1, <2>2
  <2>4. p <= Top(t) /\ p \in 0 .. StackPool
    BY <1>10, <2>1, <2>2
  <2> QED
    BY <2>1, <2>3, <2>4
<1>12. psp' = p /\ Runner' = t
  BY <1>1, <1>9, <1>11 DEF Runner
<1>13. GuardOf(os_tasks[next]) = IF mpu_status = 1 THEN t.stack_base ELSE guard
  <2>1. PICK b \in Nat : b = t.stack_base
    BY <1>10
  <2>2. b % STACK_ALIGN = 0
    BY <1>10, <2>1
  <2>3. b - (b % STACK_ALIGN) = b
    BY <2>2
  <2>4. os_tasks[next].stack_base = b
    BY <1>10, <2>1
  <2> QED
    BY <2>1, <2>3, <2>4 DEF GuardOf
<1>14. guard' \in {NoGuard} \cup 0 .. StackPool
  <2>1. guard \in {NoGuard} \cup 0 .. StackPool
    BY <1>3 DEF StacksTypeOK
  <2>2. t.stack_base \in 0 .. StackPool
    BY <1>9 DEF TaskRecord
  <2> QED
    BY <1>1, <1>13, <2>1, <2>2
<1>15. next # 0 /\ next \in 0 .. Len(os_tasks')
  BY <1>2, <1>3, <1>4
<1>16. StacksTypeOK'
  BY <1>1, <1>2, <1>3, <1>7, <1>11, <1>12, <1>14, <1>15
     DEF StacksTypeOK, TaskRecord, HeapInv
<1>17. ControlBlocks'
  <2>1. { os_tasks'[i].tcb : i \in DOMAIN os_tasks' } =
          { os_tasks[i].tcb : i \in DOMAIN os_tasks }
    BY <1>2, <1>4
  <2>2. Pending' = Pending
    BY <1>1, <1>6 DEF Pending
  <2>3. TableFull' <=> TableFull
    BY <1>2 DEF TableFull
  <2>4. { r.at : r \in regions'[Main] } =
          { os_tasks'[i].tcb : i \in DOMAIN os_tasks' } \cup Pending'
    BY <1>6, <2>1, <2>2, ControlFacts
  <2>5. \A i, j \in DOMAIN os_tasks' : os_tasks'[i].tcb = os_tasks'[j].tcb => i = j
    BY <1>2, <1>4, ControlFacts
  <2>6. \A i \in DOMAIN os_tasks' : os_tasks'[i].tcb \notin Pending'
    BY <1>2, <1>4, <2>2, ControlFacts
  <2> QED
    BY <1>1, <1>6, <2>3, <2>4, <2>5, <2>6, ControlFacts DEF ControlBlocks
<1>18. RunnerFits'
  <2>1. os_tasks' # <<>>
    BY <1>2, <1>3, <1>4, EmptySeq
  <2>2. guard' # NoGuard => mpu_status' = 1 /\ guard' = t.stack_base
    <3>1. mpu_status # 1 => guard = NoGuard
      BY <1>3 DEF RunnerFits
    <3> QED
      BY <1>1, <1>6, <1>13, <3>1
  <2> QED
    BY <1>1, <1>11, <1>12, <1>15, <2>1, <2>2 DEF RunnerFits
<1>19. StacksApart'
  <2>1. (StacksTypeOK /\ StacksStacked => StacksApart)'
    BY StackedApart, PTL
  <2> QED
    BY <1>8, <1>16, <2>1
<1> QED
  BY <1>7, <1>8, <1>16, <1>17, <1>18, <1>19 DEF StacksInv
-----------------------------------------------------------------------------
(* Every step, and every execution.                                         *)
LEMMA StacksBegin ==
  ASSUME StacksInit
  PROVE  StacksInv
<1>1. /\ HeapInit /\ stack_pool_ptr = 0 /\ os_tasks = <<>>
      /\ os_current_task_ptr = 0 /\ creating = 0 /\ boot = "main"
      /\ psp = 0 /\ guard = NoGuard
  BY DEF StacksInit
<1>2. HeapInv /\ Quiet /\ \A c \in Clients : regions[c] = {}
  BY <1>1, HeapBegins
<1>3. os_tasks \in Seq(TaskRecord) /\ Len(os_tasks) = 0 /\ DOMAIN os_tasks = {}
  BY <1>1
<1>4. 0 \in 0 .. StackPool /\ OS_MAX_TASKS_NUM \in Nat /\ Main \in Clients /\ App \in Clients
  BY StackConstants
<1>5. StacksTypeOK
  BY <1>1, <1>2, <1>3, <1>4 DEF StacksTypeOK, TaskRecord, HeapInv
<1>6. StacksStacked
  BY <1>3 DEF StacksStacked
<1>7. ControlBlocks
  <2>1. Pending = {} /\ ~ (creating > 0)
    BY <1>1 DEF Pending
  <2>2. regions[Main] = {} /\ pc[Main] = "run"
    BY <1>2, <1>4 DEF Quiet
  <2> QED
    BY <1>3, <2>1, <2>2 DEF ControlBlocks
<1>8. RunnerFits
  BY <1>1 DEF RunnerFits
<1>9. StacksApart
  BY <1>5, <1>6, StackedApart
<1> QED
  BY <1>2, <1>5, <1>6, <1>7, <1>8, <1>9 DEF StacksInv

LEMMA StacksStutter ==
  ASSUME StacksInv, UNCHANGED stackVars
  PROVE  StacksInv'
<1>1. /\ UNCHANGED heapVars
      /\ UNCHANGED <<stack_pool_ptr, os_tasks, os_current_task_ptr, creating>>
      /\ UNCHANGED <<boot, psp, guard>>
      /\ UNCHANGED <<mpu_status, regions, pc, current>>
  BY DEF stackVars, heapVars, bootVars, cpuVars, locals
<1>2. HeapInv'
  BY <1>1, ControlFacts, HeapInvStutters
<1>3. ControlBlocks'
  BY <1>1, ControlKept
<1> QED
  BY <1>1, <1>2, <1>3, BootFacts, TableKept

LEMMA StacksStep ==
  ASSUME StacksInv, [StacksNext]_stackVars
  PROVE  StacksInv'
<1>1. CASE os_mpu_init
  BY <1>1, MpuStep
<1>2. CASE AppHeap
  BY <1>2, AppStep
<1>3. CASE HeapGoesOn
  BY <1>3, HeapStep
<1>4. CASE \E size \in StackSizes : os_task_create(size)
  BY <1>4, CreateStep
<1>5. CASE CreateTask
  BY <1>5, TaskStep
<1>6. CASE CreateFails
  BY <1>6, FailStep
<1>7. CASE os_start
  BY <1>7, StartStep
<1>8. CASE SVC_Handler
  BY <1>8, SvcStep
<1>9. CASE TaskRuns
  <2>1. boot = "tasks"
    BY <1>9 DEF TaskRuns
  <2>2. CASE \E depth \in Depths : Push(depth)
    BY <2>1, <2>2, PushStep
  <2>3. CASE \E next \in 1 .. Len(os_tasks) : PendSV_Handler(next)
    BY <2>1, <2>3, SwitchStep
  <2>4. CASE MemManage_Handler
    BY <2>1, <2>4, FaultStep
  <2> QED
    BY <1>9, <2>2, <2>3, <2>4 DEF TaskRuns
<1>10. CASE UNCHANGED stackVars
  BY <1>10, StacksStutter
<1> QED
  BY <1>1, <1>2, <1>3, <1>4, <1>5, <1>6, <1>7, <1>8, <1>9, <1>10 DEF StacksNext

(* In every execution types hold, of the heap and of the task table; the    *)
(* heap is whole whenever os_malloc or os_mfree is between two steps; every *)
(* task has its stack to itself and every context lies in its own stack,    *)
(* however many creations failed before (os_stack_pool_alloc, os_malloc,    *)
(* os_mfree, PendSV_Handler).                                               *)
THEOREM StacksStayApart == StacksSpec => []StacksInv
<1>1. StacksInit => StacksInv
  BY StacksBegin
<1>2. StacksInv /\ [StacksNext]_stackVars => StacksInv'
  BY StacksStep
<1> QED
  BY <1>1, <1>2, PTL DEF StacksSpec

(* The heap's list always tiles the arena, the blocks in use are exactly    *)
(* those handed out, and os_mfree leaves no two free neighbours: merging    *)
(* is complete.                                                             *)
THEOREM ListTilesArena == StacksSpec => []BlocksTile
<1>1. StacksInv => BlocksTile
  BY InvTiles DEF StacksInv
<1> QED
  BY <1>1, StacksStayApart, PTL

(* os_malloc returns 0 only when no hole between the blocks in use could    *)
(* hold the request with its header.                                        *)
THEOREM FirstFitFinds == StacksSpec => []FindsRoom
<1>1. StacksInv => FindsRoom
  BY InvFindsRoom DEF StacksInv
<1> QED
  BY <1>1, StacksStayApart, PTL

(* Between calls os_task_create holds the control blocks of the tasks in    *)
(* the table and no other: a creation the stack pool refuses gives its      *)
(* block back.                                                              *)
THEOREM NoBlockLeaks == StacksSpec => []CreationAllOrNothing
<1>1. StacksInv => CreationAllOrNothing
  BY InvWhole
<1> QED
  BY <1>1, StacksStayApart, PTL

(* Once set, the MPU's guard region lies at the bottom of the running       *)
(* task's stack and reaches into no other task's (apply_guard_region).      *)
THEOREM GuardBelowRunner == StacksSpec => []GuardFollows
<1>1. StacksInv => GuardFollows
  BY InvGuards
<1> QED
  BY <1>1, StacksStayApart, PTL
-----------------------------------------------------------------------------
(* The heap is an allocator of the arena: Take maps to an allocation,       *)
(* os_mfree to a free, every other step to none.                            *)
LEMMA CallFrees ==
  ASSUME StacksInv, NEW c \in Clients, NEW r \in regions[c], os_mfree(c, r)
  PROVE  Allocator!Next
BY MfreeFrees DEF Allocator!Next

LEMMA ArenaStep ==
  ASSUME StacksInv, [StacksNext]_stackVars
  PROVE  [Allocator!Next]_regions
<1>1. CASE os_mpu_init
  BY <1>1 DEF os_mpu_init
<1>2. CASE AppHeap
  <2>1. App \in Clients
    BY StackConstants
  <2>2. CASE \E size \in Sizes : os_malloc(App, size)
    BY <2>2 DEF os_malloc
  <2>3. CASE \E r \in regions[App] : os_mfree(App, r)
    BY <2>1, <2>3, CallFrees
  <2> QED
    BY <1>2, <2>2, <2>3 DEF AppHeap
<1>3. CASE HeapGoesOn
  <2>1. PICK c \in Clients :
          Search(c) \/ Take(c) \/ Merge(c) \/ MergeEnds(c) \/ GiveUp(c)
    BY <1>3 DEF HeapGoesOn
  <2>2. CASE Take(c)
    <3>1. Allocator!Alloc(c)
      BY <2>2, ControlFacts, TakeAllocates
    <3> QED
      BY <3>1 DEF Allocator!Next
  <2>3. CASE Search(c) \/ Merge(c) \/ MergeEnds(c) \/ GiveUp(c)
    BY <2>3 DEF Search, Merge, MergeEnds, GiveUp
  <2> QED
    BY <2>1, <2>2, <2>3
<1>4. CASE \E size \in StackSizes : os_task_create(size)
  BY <1>4 DEF os_task_create, CreateBegin, os_malloc
<1>5. CASE CreateTask
  BY <1>5 DEF CreateTask, heapVars
<1>6. CASE CreateFails
  <2>1. HasTcb /\ os_mfree(Main, NewTcb) /\ Main \in Clients
    BY <1>6, StackConstants DEF CreateFails
  <2>2. NewTcb \in regions[Main]
    BY <2>1, NewTcbFacts
  <2> QED
    BY <2>1, <2>2, CallFrees
<1>7. CASE os_start
  BY <1>7 DEF os_start, CreateBegin, os_malloc, heapVars
<1>8. CASE SVC_Handler
  BY <1>8 DEF SVC_Handler, heapVars
<1>9. CASE TaskRuns
  BY <1>9 DEF TaskRuns, Push, PendSV_Handler, MemManage_Handler, heapVars
<1>10. CASE UNCHANGED stackVars
  BY <1>10 DEF stackVars, heapVars
<1> QED
  BY <1>1, <1>2, <1>3, <1>4, <1>5, <1>6, <1>7, <1>8, <1>9, <1>10 DEF StacksNext

(* No byte of the arena is given out twice: the heap, under main()'s and    *)
(* os_task_create's calls one after the other, implements Arena.            *)
THEOREM HeapIsAnArena == StacksSpec => ImplementsArena
<1>1. StacksInit => Allocator!Init
  BY DEF StacksInit, HeapInit, Allocator!Init
<1>2. StacksInv /\ [StacksNext]_stackVars => [Allocator!Next]_regions
  BY ArenaStep
<1> QED
  BY <1>1, <1>2, StacksStayApart, PTL DEF StacksSpec, ImplementsArena, Allocator!Spec
-----------------------------------------------------------------------------
MarkHolds ==
  \A i \in DOMAIN os_tasks :
    LET t == os_tasks'[i]
    IN  /\ t.stack_high_water >= os_tasks[i].stack_high_water
        /\ t.stack_high_water < Bytes(t.stack_size)
        /\ os_current_task_ptr' # os_current_task_ptr /\ os_current_task_ptr' = i =>
             t.stack_high_water + WORD_BYTES >= Top(t) - t.stack_ptr

LEMMA MarkUnmoved ==
  ASSUME StacksInv, \A i \in DOMAIN os_tasks : os_tasks'[i] = os_tasks[i],
         os_tasks = <<>> \/ os_current_task_ptr' = os_current_task_ptr
  PROVE  MarkHolds
<1>1. SUFFICES ASSUME NEW i \in DOMAIN os_tasks
               PROVE  /\ os_tasks'[i].stack_high_water >= os_tasks[i].stack_high_water
                      /\ os_tasks'[i].stack_high_water < Bytes(os_tasks'[i].stack_size)
                      /\ os_current_task_ptr' = os_current_task_ptr
  BY DEF MarkHolds
<1>2. os_tasks # <<>>
  OBVIOUS
<1>3. os_tasks[i].stack_high_water < Bytes(os_tasks[i].stack_size)
  BY DEF StacksInv, StacksStacked
<1>4. os_tasks[i].stack_high_water \in Nat
  <2>1. os_tasks[i] \in TaskRecord
    BY TypeFacts DEF StacksInv
  <2> QED
    BY <2>1, RecordFacts
<1>5. os_tasks'[i] = os_tasks[i]
  OBVIOUS
<1>6. os_tasks'[i].stack_high_water >= os_tasks[i].stack_high_water
  BY <1>4, <1>5
<1> QED
  BY <1>2, <1>3, <1>5, <1>6

LEMMA MarkStep ==
  ASSUME StacksInv, StacksNext
  PROVE  MarkHolds
<1>1. CASE os_mpu_init
  BY <1>1, MarkUnmoved DEF os_mpu_init, bootVars
<1>2. CASE AppHeap
  BY <1>2, MarkUnmoved DEF AppHeap, bootVars
<1>3. CASE HeapGoesOn
  BY <1>3, MarkUnmoved DEF HeapGoesOn
<1>4. CASE \E size \in StackSizes : os_task_create(size)
  BY <1>4, MarkUnmoved DEF os_task_create, CreateBegin
<1>5. CASE CreateTask
  <2>1. PICK t : os_tasks' = Append(os_tasks, t)
    BY <1>5 DEF CreateTask
  <2>2. os_tasks \in Seq(TaskRecord) /\ DOMAIN os_tasks = 1 .. Len(os_tasks)
        /\ Len(os_tasks) \in Nat
    BY TypeFacts DEF StacksInv
  <2>3. \A i \in DOMAIN os_tasks : os_tasks'[i] = os_tasks[i]
    BY <2>1, <2>2
  <2>4. os_tasks = <<>> \/ os_current_task_ptr' = os_current_task_ptr
    BY <1>5 DEF CreateTask
  <2> QED
    BY <2>3, <2>4, MarkUnmoved
<1>6. CASE CreateFails
  BY <1>6, MarkUnmoved DEF CreateFails
<1>7. CASE os_start
  BY <1>7, MarkUnmoved DEF os_start, CreateBegin, bootVars
<1>8. CASE SVC_Handler
  BY <1>8, MarkUnmoved DEF SVC_Handler, bootVars
<1>9. CASE TaskRuns
  <2>1. CASE \E depth \in Depths : Push(depth)
    BY <2>1, MarkUnmoved DEF Push, bootVars
  <2>2. CASE MemManage_Handler
    BY <2>2, MarkUnmoved DEF MemManage_Handler, bootVars
  <2>3. CASE \E next \in 1 .. Len(os_tasks) : PendSV_Handler(next)
    <3>1. PICK next \in 1 .. Len(os_tasks) : PendSV_Handler(next)
      BY <2>3
    <3>2. boot = "tasks" /\ os_current_task_ptr' = next
      BY <1>9, <3>1 DEF TaskRuns, PendSV_Handler
    <3>3. /\ \A i \in DOMAIN os_tasks :
               /\ os_tasks'[i].stack_high_water >= os_tasks[i].stack_high_water
               /\ os_tasks'[i].stack_high_water < Bytes(os_tasks'[i].stack_size)
          /\ os_tasks'[next].stack_high_water + WORD_BYTES >=
               Top(os_tasks'[next]) - os_tasks'[next].stack_ptr
      BY <3>1, <3>2, SwitchFacts
    <3> QED
      BY <3>2, <3>3 DEF MarkHolds
  <2> QED
    BY <1>9, <2>1, <2>2, <2>3 DEF TaskRuns
<1> QED
  BY <1>1, <1>2, <1>3, <1>4, <1>5, <1>6, <1>7, <1>8, <1>9 DEF StacksNext

(* No step lowers a task's high water mark or takes it to the bytes of its  *)
(* whole stack, and a switch to a task leaves the mark at most one word     *)
(* short of the context the task resumes (os_schedule_next_task): the mark  *)
(* counts bytes, and stays below WORD_BYTES times the stack_size, in words. *)
THEOREM HighWaterRises == StacksSpec => HighWaterHolds
<1>1. StacksInv /\ [StacksNext]_stackVars => [MarkHolds]_stackVars
  BY MarkStep
<1>2. [MarkHolds]_stackVars =>
      [ \A i \in DOMAIN os_tasks :
          LET t == os_tasks'[i]
          IN  /\ t.stack_high_water >= os_tasks[i].stack_high_water
              /\ t.stack_high_water < Bytes(t.stack_size)
              /\ os_current_task_ptr' # os_current_task_ptr /\ os_current_task_ptr' = i =>
                   t.stack_high_water + WORD_BYTES >= Top(t) - t.stack_ptr ]_stackVars
  BY DEF MarkHolds
<1> QED
  BY <1>1, <1>2, StacksStayApart, PTL DEF StacksSpec, HighWaterHolds
=============================================================================
