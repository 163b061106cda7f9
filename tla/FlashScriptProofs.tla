-------------------------- MODULE FlashScriptProofs --------------------------
(* Proofs about the tool's "erase" and "write", for tables, ranges and files *)
(* of every size.                                                            *)
EXTENDS FlashScript, SequenceTheorems, FiniteSetTheorems, WellFoundedInduction, TLAPS

-----------------------------------------------------------------------------
(* Induction.  What is false of some number is false of a smallest one.      *)

\* A set of numbers that is not empty has a least member.
LEMMA Smallest ==
  ASSUME NEW T, T \subseteq Nat, T # {}
  PROVE  \E x \in T : \A y \in T : ~ (y < x)
<1> DEFINE R == {ss \in Nat \X Nat : ss[1] < ss[2]}
<1>1. IsWellFoundedOn(R, Nat)
  BY NatLessThanWellFounded DEF OpToRel
<1>2. \A x, y \in Nat : y < x => <<y, x>> \in R
  OBVIOUS
<1> HIDE DEF R
<1>3. \E x \in T : \A y \in T : ~ (<<y, x>> \in R)
  BY <1>1, WFMin
<1>4. QED
  BY <1>2, <1>3

\* A set with 0 and with every successor of its members has all the numbers.
LEMMA Induct ==
  ASSUME NEW T, 0 \in T, \A n \in Nat : n \in T => n + 1 \in T
  PROVE  Nat \subseteq T
<1> SUFFICES ASSUME NEW a \in Nat, a \notin T
             PROVE  FALSE
  OBVIOUS
<1>1. PICK x \in {n \in Nat : n \notin T} : \A y \in {n \in Nat : n \notin T} : ~ (y < x)
  <2> DEFINE S == {n \in Nat : n \notin T}
  <2>1. S \subseteq Nat /\ S # {}
    OBVIOUS
  <2> HIDE DEF S
  <2>2. \E x \in S : \A y \in S : ~ (y < x)
    BY <2>1, Smallest
  <2>3. QED
    BY <2>2 DEF S
<1>2. x # 0 /\ x - 1 \in Nat
  BY <1>1
<1>3. x - 1 \in T
  BY <1>1, <1>2
<1>4. (x - 1) + 1 = x
  BY <1>1
<1>5. QED
  BY <1>1, <1>2, <1>3, <1>4

\* A definition by recursion has a solution where what it says of x depends only
\* on what is below x in some measure M.  B gives a function's values anew.
Recursive(D, V, M, B) ==
  /\ V # {} /\ M \in [D -> Nat] /\ B \in [[D -> V] -> [D -> V]]
  /\ \A f, g \in [D -> V] : \A x \in D :
       (\A y \in D : M[y] < M[x] => f[y] = g[y]) => B[f][x] = B[g][x]
Solved(D, V, B) == \E f \in [D -> V] : f = B[f]
LEMMA Recursion ==
  ASSUME NEW D, NEW V, NEW M, NEW B, Recursive(D, V, M, B)
  PROVE  Solved(D, V, B)
<1> SUFFICES ASSUME NEW v \in V, M \in [D -> Nat], B \in [[D -> V] -> [D -> V]],
                    \A f, g \in [D -> V] : \A x \in D :
                      (\A y \in D : M[y] < M[x] => f[y] = g[y]) => B[f][x] = B[g][x]
             PROVE  \E f \in [D -> V] : f = B[f]
  BY DEF Recursive, Solved
<1> DEFINE F == [D -> V]
           Right(f, n) == \A x \in D : M[x] < n => f[x] = B[f][x]
           T == {n \in Nat : \E f \in F : Right(f, n)}
<1>1. 0 \in T
  <2> DEFINE c == [x \in D |-> v]
  <2>1. c \in F /\ \A x \in D : ~ (M[x] < 0)
    OBVIOUS
  <2> HIDE DEF c
  <2>2. Right(c, 0)
    BY <2>1
  <2> HIDE DEF Right, F
  <2>3. QED
    BY <2>1, <2>2
<1>2. ASSUME NEW n \in Nat, n \in T
      PROVE  n + 1 \in T
  <2>1. PICK f \in F : Right(f, n)
    BY <1>2
  <2> DEFINE g == B[f]
  <2>2. g \in F
    OBVIOUS
  <2>3. ASSUME NEW x \in D, M[x] < n + 1
        PROVE  g[x] = B[g][x]
    <3>1. \A y \in D : M[y] < M[x] => f[y] = g[y]
      <4>1. \A y \in D : M[y] < M[x] => M[y] < n
        BY <2>3
      <4>2. QED
        BY <2>1, <4>1
    <3> HIDE DEF g
    <3>2. B[f][x] = B[g][x]
      BY <2>2, <3>1
    <3>3. QED
      BY <3>2 DEF g
  <2> HIDE DEF g
  <2>4. Right(g, n + 1)
    BY <2>3
  <2> HIDE DEF Right, F
  <2>5. QED
    BY <2>2, <2>4
<1>3. \A n \in Nat : \E f \in F : Right(f, n)
  <2> HIDE DEF Right, F
  <2>1. Nat \subseteq T
    <3> HIDE DEF T
    <3>1. QED
      BY <1>1, <1>2, Induct
  <2>2. QED
    BY <2>1
<1>4. ASSUME NEW f \in F, NEW g \in F, NEW n \in Nat, NEW m \in Nat, Right(f, n), Right(g, m),
             NEW x \in D, M[x] < n, M[x] < m
      PROVE  f[x] = g[x]
  <2> SUFFICES ASSUME f[x] # g[x]
               PROVE  FALSE
    OBVIOUS
  <2> DEFINE Off == {y \in D : M[y] < n /\ M[y] < m /\ f[y] # g[y]}
             S == {M[y] : y \in Off}
  <2>1. S \subseteq Nat /\ S # {}
    <3>1. x \in Off /\ \A y \in Off : M[y] \in Nat
      BY <1>4
    <3> HIDE DEF Off
    <3>2. QED
      BY <3>1
  <2>2. PICK k \in S : \A j \in S : ~ (j < k)
    <3> HIDE DEF S
    <3>1. QED
      BY <2>1, Smallest
  <2>3. PICK y \in Off : k = M[y]
    OBVIOUS
  <2>4. \A z \in D : M[z] < M[y] => f[z] = g[z]
    <3> SUFFICES ASSUME NEW z \in D, M[z] < M[y], f[z] # g[z]
                 PROVE  FALSE
      OBVIOUS
    <3>1. M[z] < n /\ M[z] < m
      BY <2>3
    <3>2. M[z] \in S
      BY <3>1
    <3>3. QED
      BY <2>2, <2>3, <3>2
  <2>5. B[f][y] = B[g][y]
    BY <2>3, <2>4
  <2>6. f[y] = B[f][y] /\ g[y] = B[g][y]
    BY <1>4, <2>3
  <2>7. QED
    BY <2>3, <2>5, <2>6
<1> DEFINE Pick(n) == CHOOSE f \in F : Right(f, n)
           h == [x \in D |-> Pick(M[x] + 1)[x]]
<1>5. \A n \in Nat : Pick(n) \in F /\ Right(Pick(n), n)
  <2> HIDE DEF Right, F
  <2>1. QED
    BY <1>3
<1> HIDE DEF Pick
<1>6. h \in F
  <2>1. \A x \in D : Pick(M[x] + 1) \in F
    <3> HIDE DEF F
    <3>1. \A x \in D : M[x] + 1 \in Nat
      OBVIOUS
    <3>2. QED
      BY <1>5, <3>1
  <2>2. QED
    BY <2>1
<1>7. ASSUME NEW x \in D
      PROVE  h[x] = B[h][x]
  <2> DEFINE p == Pick(M[x] + 1)
  <2>1. M[x] \in Nat /\ M[x] + 1 \in Nat /\ M[x] < M[x] + 1
    OBVIOUS
  <2>2. p \in F /\ Right(p, M[x] + 1)
    BY <1>5, <2>1
  <2>3. ASSUME NEW y \in D, M[y] < M[x]
        PROVE  p[y] = h[y]
    <3> DEFINE q == Pick(M[y] + 1)
    <3>1. M[y] \in Nat /\ M[y] + 1 \in Nat /\ M[y] < M[y] + 1 /\ M[y] < M[x] + 1
      BY <2>1, <2>3
    <3>2. q \in F /\ Right(q, M[y] + 1)
      BY <1>5, <3>1
    <3>3. h[y] = q[y]
      OBVIOUS
    <3> HIDE DEF p, q, h, Right, F
    <3>4. p[y] = q[y]
      BY <1>4, <2>1, <2>2, <3>1, <3>2
    <3>5. QED
      BY <3>3, <3>4
  <2>4. h[x] = p[x] /\ p[x] = B[p][x]
    BY <2>1, <2>2
  <2> HIDE DEF h, p
  <2>5. B[p][x] = B[h][x]
    BY <1>6, <2>2, <2>3
  <2>6. QED
    BY <2>4, <2>5
<1> HIDE DEF h
<1>8. h = B[h]
  BY <1>6, <1>7
<1>9. QED
  BY <1>6, <1>8

-----------------------------------------------------------------------------
(* Blocks and ranges                                                         *)

\* What the constants are.
LEMMA Sizes == Top \in Nat \ {0, 1} /\ {FileLen, MaxLost} \subseteq Nat
BY TableAssumption, FlashAssumption

\* A lookup that finds a block tells the size of one that starts there.
LEMMA BlockFound ==
  ASSUME NEW t \in Seq(Block), NEW b, BlockSize(t, b) # 0
  PROVE  \E i \in DOMAIN t : t[i].base = b /\ t[i].size = BlockSize(t, b)
<1>1. \E i \in DOMAIN t : t[i].base = b
  BY DEF BlockSize
<1>2. \E i \in DOMAIN t : t[i].base = b /\ \A k \in 1 .. i - 1 : t[k].base # b
  <2> DEFINE S == {i \in DOMAIN t : t[i].base = b}
  <2>1. DOMAIN t = 1 .. Len(t) /\ Len(t) \in Nat
    BY LenProperties
  <2>2. S \subseteq Nat /\ S # {}
    BY <1>1, <2>1
  <2>3. \A i : i \in S <=> i \in DOMAIN t /\ t[i].base = b
    OBVIOUS
  <2> HIDE DEF S
  <2>4. PICK x \in S : \A y \in S : ~ (y < x)
    BY <2>2, Smallest
  <2>5. x \in DOMAIN t /\ t[x].base = b /\ \A k \in 1 .. x - 1 : k \in DOMAIN t /\ k < x
    BY <2>1, <2>3, <2>4
  <2>6. \A k \in 1 .. x - 1 : t[k].base # b
    BY <2>3, <2>4, <2>5
  <2>7. QED
    BY <2>5, <2>6
<1> DEFINE P(i) == t[i].base = b /\ \A k \in 1 .. i - 1 : t[k].base # b
           first == CHOOSE i \in DOMAIN t : P(i)
<1>3. first \in DOMAIN t /\ t[first].base = b
  BY <1>2
<1>4. BlockSize(t, b) = t[first].size
  BY <1>1 DEF BlockSize
<1>5. QED
  BY <1>3, <1>4

\* A block size is a number, 0 if there is no such block.
LEMMA BlockSizeNat ==
  ASSUME NEW t \in Seq(Block), NEW b
  PROVE  BlockSize(t, b) \in Nat
<1>1. \A i \in DOMAIN t : t[i].size \in Nat
  <2>1. ASSUME NEW i \in DOMAIN t
        PROVE  t[i] \in Block
    <3>1. i \in 1 .. Len(t)
      BY LenProperties
    <3>2. QED
      BY <3>1, ElementOfSeq
  <2>2. QED
    BY <2>1 DEF Block
<1>2. CASE BlockSize(t, b) = 0
  BY <1>2
<1>3. CASE BlockSize(t, b) # 0
  <2>1. PICK i \in DOMAIN t : t[i].base = b /\ t[i].size = BlockSize(t, b)
    BY <1>3, BlockFound
  <2>2. QED
    BY <1>1, <2>1
<1>4. QED
  BY <1>2, <1>3

\* How far the blocks from got on reach, in a walk over len cells from start.
Walk(t, start, len_, f) ==
  f = [got \in Nat |-> IF got >= len_ THEN got
                       ELSE LET size == BlockSize(t, (start + got) % Top) IN
                            IF size = 0 THEN 0 ELSE f[got + size]]
CoverFrom(t, start, len_) == CHOOSE f : Walk(t, start, len_, f)

\* What Cover computes is such a walk from the start of the range.
LEMMA CoverIs ==
  ASSUME NEW t, NEW start, NEW n
  PROVE  Cover(t, start, n) = CoverFrom(t, start, n)[0]
BY DEF Cover, CoverFrom, Walk

\* There is such a function, whatever the sizes B are.
LEMMA WalkExists ==
  ASSUME NEW n \in Nat, NEW B \in [Nat -> Nat]
  PROVE  \E f \in [Nat -> Nat] : \A g \in Nat :
           f[g] = IF g >= n THEN g ELSE IF B[g] = 0 THEN 0 ELSE f[g + B[g]]
<1> DEFINE V(f, g) == IF g >= n THEN g ELSE IF B[g] = 0 THEN 0 ELSE f[g + B[g]]
           Right(f, k) == \A g \in Nat : g + k >= n => f[g] = V(f, g)
           T == {k \in Nat : \E f \in [Nat -> Nat] : Right(f, k)}
<1>1. 0 \in T
  <2> DEFINE id == [g \in Nat |-> g]
  <2>1. id \in [Nat -> Nat] /\ Right(id, 0)
    OBVIOUS
  <2> HIDE DEF Right, id
  <2>2. QED
    BY <2>1
<1>2. ASSUME NEW k \in Nat, k \in T
      PROVE  k + 1 \in T
  <2>1. PICK f \in [Nat -> Nat] : Right(f, k)
    BY <1>2
  <2> DEFINE h == [g \in Nat |-> IF g + (k + 1) = n THEN V(f, g) ELSE f[g]]
  <2>2. \A g \in Nat : V(f, g) \in Nat
    OBVIOUS
  <2>3. h \in [Nat -> Nat] /\ \A g \in Nat : h[g] = IF g + (k + 1) = n THEN V(f, g) ELSE f[g]
    <3> HIDE DEF V
    <3>1. QED
      BY <2>2
  <2> HIDE DEF h
  <2>4. ASSUME NEW g \in Nat, g + (k + 1) >= n
        PROVE  h[g] = V(h, g)
    <3>1. V(f, g) = V(h, g)
      <4>1. CASE g >= n \/ B[g] = 0
        BY <4>1
      <4>2. CASE ~ (g >= n \/ B[g] = 0)
        <5>1. B[g] \in Nat /\ B[g] # 0
          BY <4>2
        <5>2. \A x \in Nat : x # 0 => g + x \in Nat /\ ~ ((g + x) + (k + 1) = n)
          BY <2>4
        <5>3. h[g + B[g]] = f[g + B[g]]
          BY <2>3, <5>1, <5>2
        <5>4. QED
          BY <4>2, <5>3
      <4>3. QED
        BY <4>1, <4>2
    <3>2. CASE g + (k + 1) = n
      BY <2>3, <3>1, <3>2
    <3>3. CASE g + (k + 1) # n
      <4>1. g + k >= n
        BY <2>4, <3>3
      <4>2. f[g] = V(f, g)
        BY <2>1, <4>1
      <4>3. QED
        BY <2>3, <3>1, <3>3, <4>2
    <3>4. QED
      BY <3>2, <3>3
  <2>5. Right(h, k + 1)
    BY <2>4
  <2> HIDE DEF Right
  <2>6. QED
    BY <2>3, <2>5
<1> HIDE DEF T
<1>3. n \in T
  BY <1>1, <1>2, Induct
<1>4. PICK f \in [Nat -> Nat] : Right(f, n)
  BY <1>3 DEF T
<1>5. QED
  BY <1>4

\* The sizes met by a walk from start, and what a walk over n cells is.
Steps(t, start) == [g \in Nat |-> BlockSize(t, (start + g) % Top)]
IsWalk(c, B, n) == \A g \in Nat : c[g] = IF g >= n THEN g ELSE IF B[g] = 0 THEN 0 ELSE c[g + B[g]]

\* The sizes met are numbers.
LEMMA StepsNat ==
  ASSUME NEW t \in Seq(Block), NEW start \in Nat
  PROVE  /\ Steps(t, start) \in [Nat -> Nat]
         /\ \A g \in Nat : Steps(t, start)[g] = BlockSize(t, (start + g) % Top)
BY BlockSizeNat DEF Steps

\* That walk satisfies its own equation.
LEMMA CoverWalks ==
  ASSUME NEW t \in Seq(Block), NEW start \in Nat, NEW n \in Nat
  PROVE  IsWalk(CoverFrom(t, start, n), Steps(t, start), n)
<1> DEFINE B == Steps(t, start)
<1>1. B \in [Nat -> Nat] /\ \A x \in Nat : B[x] = BlockSize(t, (start + x) % Top)
  BY StepsNat
<1> HIDE DEF B
<1>2. PICK f \in [Nat -> Nat] : \A x \in Nat :
           f[x] = IF x >= n THEN x ELSE IF B[x] = 0 THEN 0 ELSE f[x + B[x]]
  BY <1>1, WalkExists
<1>3. Walk(t, start, n, f)
  <2>1. \A x \in Nat : f[x] = IF x >= n THEN x ELSE
                              LET size == BlockSize(t, (start + x) % Top) IN
                              IF size = 0 THEN 0 ELSE f[x + size]
    BY <1>1, <1>2
  <2>2. QED
    BY <2>1 DEF Walk
<1>4. Walk(t, start, n, CoverFrom(t, start, n))
  BY <1>3 DEF CoverFrom
<1> DEFINE c == CoverFrom(t, start, n)
<1>5. Walk(t, start, n, c)
  BY <1>4
<1> HIDE DEF c
<1>6. \A x \in Nat : c[x] = IF x >= n THEN x ELSE
                            LET size == BlockSize(t, (start + x) % Top) IN
                            IF size = 0 THEN 0 ELSE c[x + size]
  BY <1>5 DEF Walk
<1>7. \A x \in Nat : c[x] = IF x >= n THEN x ELSE IF B[x] = 0 THEN 0 ELSE c[x + B[x]]
  BY <1>1, <1>6
<1>8. QED
  BY <1>7 DEF IsWalk, B, c

\* Induction along a walk, backwards from its end.
LEMMA Along ==
  ASSUME NEW n \in Nat, NEW B \in [Nat -> Nat], NEW T,
         \A g \in Nat : g >= n => g \in T,
         \A g \in Nat : g < n /\ B[g] = 0 => g \in T,
         \A g \in Nat : g < n /\ B[g] # 0 /\ g + B[g] \in T => g \in T
  PROVE  Nat \subseteq T
<1> DEFINE S == {k \in Nat : \A g \in Nat : g + k >= n => g \in T}
<1>1. 0 \in S
  OBVIOUS
<1>2. ASSUME NEW k \in Nat, k \in S
      PROVE  k + 1 \in S
  <2>1. ASSUME NEW g \in Nat, g + (k + 1) >= n, g < n, B[g] # 0
        PROVE  g \in T
    <3>1. B[g] \in Nat
      OBVIOUS
    <3>2. g + B[g] \in Nat /\ (g + B[g]) + k >= n
      BY <2>1, <3>1
    <3>3. g + B[g] \in T
      BY <1>2, <3>2
    <3>4. QED
      BY <2>1, <3>3
  <2>2. \A g \in Nat : g + (k + 1) >= n => g \in T
    BY <2>1
  <2>3. QED
    BY <2>2
<1> HIDE DEF S
<1>3. n \in S
  BY <1>1, <1>2, Induct
<1>4. \A g \in Nat : g + n >= n => g \in T
  BY <1>3 DEF S
<1>5. QED
  BY <1>4

\* A walk that arrives has gone at least as far as asked.
LEMMA Arrives ==
  ASSUME NEW n \in Nat, NEW B \in [Nat -> Nat], NEW c, IsWalk(c, B, n), NEW g \in Nat, c[g] # 0
  PROVE  c[g] \in Nat /\ c[g] >= n /\ c[g] >= g
<1> DEFINE T == {x \in Nat : c[x] # 0 => c[x] \in Nat /\ c[x] >= n /\ c[x] >= x}
<1>0. \A x \in Nat : c[x] = IF x >= n THEN x ELSE IF B[x] = 0 THEN 0 ELSE c[x + B[x]]
  BY DEF IsWalk
<1>1. \A x \in Nat : x >= n => x \in T
  BY <1>0
<1>2. \A x \in Nat : x < n /\ B[x] = 0 => x \in T
  BY <1>0
<1>3. ASSUME NEW x \in Nat, x < n, B[x] # 0, x + B[x] \in T
      PROVE  x \in T
  <2>1. c[x] = c[x + B[x]] /\ B[x] \in Nat
    BY <1>0, <1>3
  <2>2. QED
    BY <1>3, <2>1
<1> HIDE DEF T
<1>4. g \in T
  BY <1>1, <1>2, <1>3, Along
<1>5. QED
  BY <1>4 DEF T

\* A walk that overshoots is one that ends with the range it suggests.
Overshoots(c, d, B, n, s) ==
  /\ n \in Nat /\ s \in Nat /\ n <= s /\ s # 0
  /\ B \in [Nat -> Nat] /\ IsWalk(c, B, n) /\ IsWalk(d, B, s)

\* So a suggested range is walked to its end.
LEMMA Suggested ==
  ASSUME NEW n, NEW s, NEW B, NEW c, NEW d, Overshoots(c, d, B, n, s)
  PROVE  \A g \in Nat : c[g] = s => d[g] = s
<1> DEFINE T == {x \in Nat : c[x] = s => d[x] = s}
<1>o. n \in Nat /\ s \in Nat /\ n <= s /\ s # 0 /\ B \in [Nat -> Nat]
  BY DEF Overshoots
<1>0. /\ \A x \in Nat : c[x] = IF x >= n THEN x ELSE IF B[x] = 0 THEN 0 ELSE c[x + B[x]]
      /\ \A x \in Nat : d[x] = IF x >= s THEN x ELSE IF B[x] = 0 THEN 0 ELSE d[x + B[x]]
  BY DEF Overshoots, IsWalk
<1>1. \A x \in Nat : x >= n => x \in T
  BY <1>0, <1>o
<1>2. \A x \in Nat : x < n /\ B[x] = 0 => x \in T
  BY <1>0, <1>o
<1>3. ASSUME NEW x \in Nat, x < n, B[x] # 0, x + B[x] \in T
      PROVE  x \in T
  <2>1. c[x] = c[x + B[x]]
    BY <1>0, <1>o, <1>3
  <2>2. d[x] = d[x + B[x]]
    BY <1>0, <1>o, <1>3
  <2>3. QED
    BY <1>3, <2>1, <2>2
<1> HIDE DEF T
<1>4. Nat \subseteq T
  BY <1>o, <1>1, <1>2, <1>3, Along
<1>5. QED
  BY <1>4 DEF T

\* A walk over blocks that end within the room there is does so itself.
Room(B, n, room) == \A x \in Nat : x < n => x + B[x] <= room

\* No walk leaves the room.
LEMMA StaysBelow ==
  ASSUME NEW n \in Nat, NEW B \in [Nat -> Nat], NEW c, IsWalk(c, B, n), NEW room \in Nat, n <= room,
         Room(B, n, room)
  PROVE  \A g \in Nat : g <= room /\ c[g] # 0 => c[g] <= room
<1> DEFINE T == {x \in Nat : x <= room /\ c[x] # 0 => c[x] <= room}
<1>0. \A x \in Nat : c[x] = IF x >= n THEN x ELSE IF B[x] = 0 THEN 0 ELSE c[x + B[x]]
  BY DEF IsWalk
<1>r. \A x \in Nat : x < n => x + B[x] <= room
  BY DEF Room
<1>1. \A x \in Nat : x >= n => x \in T
  BY <1>0
<1>2. \A x \in Nat : x < n /\ B[x] = 0 => x \in T
  BY <1>0
<1>3. ASSUME NEW x \in Nat, x < n, B[x] # 0, x + B[x] \in T
      PROVE  x \in T
  <2>1. c[x] = c[x + B[x]] /\ B[x] \in Nat
    BY <1>0, <1>3
  <2>2. QED
    BY <1>3, <1>r, <2>1
<1> HIDE DEF T
<1>4. Nat \subseteq T
  BY <1>1, <1>2, <1>3, Along
<1>5. QED
  BY <1>4 DEF T

\* A walk through one block, then on from its end.
Shifted(B, D, g) == \A h \in Nat : B[h] = D[g + h]

Continued(c, B, z, d, D, L, g) ==
  /\ z \in Nat \ {0} /\ L \in Nat /\ g \in Nat /\ g + z <= L /\ d[g + z] = L
  /\ B \in [Nat -> Nat] /\ D \in [Nat -> Nat] /\ Shifted(B, D, g)
  /\ IsWalk(c, B, z) /\ IsWalk(d, D, L)

\* From within the block on, the longer walk arrives too.
LEMMA Through ==
  ASSUME NEW z, NEW L, NEW B, NEW D, NEW g, NEW c, NEW d, Continued(c, B, z, d, D, L, g)
  PROVE  \A h \in Nat : c[h] = z => d[g + h] = L
<1> DEFINE T == {x \in Nat : c[x] = z => d[g + x] = L}
<1>o. /\ z \in Nat \ {0} /\ L \in Nat /\ g \in Nat /\ g + z <= L /\ d[g + z] = L
      /\ B \in [Nat -> Nat] /\ D \in [Nat -> Nat] /\ Shifted(B, D, g)
  BY DEF Continued
<1>0. /\ \A x \in Nat : c[x] = IF x >= z THEN x ELSE IF B[x] = 0 THEN 0 ELSE c[x + B[x]]
      /\ \A x \in Nat : d[x] = IF x >= L THEN x ELSE IF D[x] = 0 THEN 0 ELSE d[x + D[x]]
  BY DEF Continued, IsWalk
<1>1. \A x \in Nat : x >= z => x \in T
  BY <1>0, <1>o
<1>2. \A x \in Nat : x < z /\ B[x] = 0 => x \in T
  BY <1>0, <1>o
<1>3. ASSUME NEW x \in Nat, x < z, B[x] # 0, x + B[x] \in T
      PROVE  x \in T
  <2>1. c[x] = c[x + B[x]] /\ B[x] \in Nat
    BY <1>0, <1>o, <1>3
  <2>2. g + x \in Nat /\ g + x < L /\ D[g + x] = B[x]
    BY <1>o, <1>3 DEF Shifted
  <2>3. d[g + x] = d[(g + x) + D[g + x]]
    BY <1>0, <1>o, <1>3, <2>2
  <2>4. (g + x) + D[g + x] = g + (x + B[x])
    BY <1>o, <2>1, <2>2
  <2>5. d[g + x] = d[g + (x + B[x])]
    BY <2>3, <2>4
  <2>6. QED
    BY <1>o, <1>3, <2>1, <2>5
<1> HIDE DEF T
<1>4. Nat \subseteq T
  BY <1>o, <1>1, <1>2, <1>3, Along
<1>5. QED
  BY <1>4 DEF T

\* What coarse blocks fill, the fine ones that make them up fill too.
Carries(E, d, L) ==
  \A x \in Nat : x < L /\ E[x] # 0 /\ x + E[x] <= L /\ d[x + E[x]] = L => d[x] = L

Finer(e, E, d, D, L) ==
  /\ L \in Nat /\ E \in [Nat -> Nat] /\ D \in [Nat -> Nat]
  /\ IsWalk(e, E, L) /\ IsWalk(d, D, L) /\ Carries(E, d, L)

\* So the fine walk arrives where the coarse one does.
LEMMA Refined ==
  ASSUME NEW L, NEW E, NEW D, NEW e, NEW d, Finer(e, E, d, D, L)
  PROVE  \A g \in Nat : e[g] = L => d[g] = L
<1> DEFINE T == {x \in Nat : e[x] = L => d[x] = L}
<1>o. L \in Nat /\ E \in [Nat -> Nat] /\ D \in [Nat -> Nat] /\ Carries(E, d, L)
  BY DEF Finer
<1>0. /\ \A x \in Nat : e[x] = IF x >= L THEN x ELSE IF E[x] = 0 THEN 0 ELSE e[x + E[x]]
      /\ \A x \in Nat : d[x] = IF x >= L THEN x ELSE IF D[x] = 0 THEN 0 ELSE d[x + D[x]]
  BY DEF Finer, IsWalk
<1>1. \A x \in Nat : x >= L => x \in T
  BY <1>0, <1>o
<1>2. \A x \in Nat : x < L /\ E[x] = 0 => x \in T
  BY <1>0, <1>o
<1>3. ASSUME NEW x \in Nat, x < L, E[x] # 0, x + E[x] \in T
      PROVE  x \in T
  <2> SUFFICES ASSUME e[x] = L
               PROVE  d[x] = L
    OBVIOUS
  <2>1. e[x + E[x]] = L /\ x + E[x] \in Nat
    BY <1>0, <1>o, <1>3
  <2>2. x + E[x] <= L
    BY <1>0, <1>o, <2>1
  <2>3. d[x + E[x]] = L
    BY <1>o, <1>3, <2>1
  <2>4. QED
    BY <1>o, <1>3, <2>2, <2>3 DEF Carries
<1> HIDE DEF T
<1>4. Nat \subseteq T
  BY <1>o, <1>1, <1>2, <1>3, Along
<1>5. QED
  BY <1>4 DEF T

-----------------------------------------------------------------------------
(* Ranges                                                                    *)

\* A walk over n cells of t from start is at g and ends with the range.
Reaches(t, start, n, g) == g \in 0 .. n /\ CoverFrom(t, start, n)[g] = n
BlocksFit(t) == \A i \in DOMAIN t : t[i].base + t[i].size <= Top

\* A sum below the top does not wrap.
LEMMA Below ==
  ASSUME NEW a \in Nat, a < Top
  PROVE  a % Top = a
BY Sizes

\* The next block of such a walk is there and ends within the range.
LEMMA NextBlock ==
  ASSUME NEW t \in Seq(Block), NEW start \in Nat, NEW n \in Nat, start + n <= Top,
         NEW g, Reaches(t, start, n, g), g < n
  PROVE  /\ (start + g) % Top = start + g
         /\ BlockSize(t, start + g) \in Nat
         /\ BlockSize(t, start + g) # 0
         /\ g + BlockSize(t, start + g) <= n
         /\ Reaches(t, start, n, g + BlockSize(t, start + g))
<1> DEFINE c == CoverFrom(t, start, n)
           B == Steps(t, start)
<1>1. g \in Nat /\ c[g] = n
  BY DEF Reaches
<1>2. (start + g) % Top = start + g
  <2>1. start + g \in Nat /\ start + g < Top
    BY <1>1, Sizes
  <2>2. QED
    BY <2>1, Below
<1>3. B \in [Nat -> Nat] /\ B[g] = BlockSize(t, start + g)
  BY <1>1, <1>2, StepsNat
<1>4. IsWalk(c, B, n)
  BY CoverWalks
<1> HIDE DEF c, B
<1>5. \A x \in Nat : c[x] = IF x >= n THEN x ELSE IF B[x] = 0 THEN 0 ELSE c[x + B[x]]
  BY <1>4 DEF IsWalk
<1> DEFINE z == B[g]
<1>6. z \in Nat
  BY <1>1, <1>3
<1>7. z # 0 /\ c[g + z] = n
  BY <1>1, <1>5
<1> HIDE DEF z
<1>8. g + z \in Nat
  BY <1>1, <1>6
<1>9. g + z <= n
  BY <1>5, <1>7, <1>8
<1>10. g + z \in 0 .. n
  BY <1>8, <1>9
<1>11. z = BlockSize(t, start + g)
  BY <1>3 DEF z
<1>12. Reaches(t, start, n, g + z)
  BY <1>7, <1>10 DEF Reaches, c
<1>13. QED
  BY <1>2, <1>6, <1>7, <1>9, <1>11, <1>12

\* A range that scriptIsValidFlashRange accepts, and one that it suggests, is
\* walked to its end; the suggested one is no shorter and ends below the top.
LEMMA Accepted ==
  ASSUME NEW t \in Seq(Block), NEW start \in Nat, NEW n \in Nat, ValidRange(t, start, n)
  PROVE  Reaches(t, start, n, 0)
<1>1. IsWalk(CoverFrom(t, start, n), Steps(t, start), n)
  BY CoverWalks
<1>2. CASE n = 0
  BY <1>1, <1>2 DEF Reaches, IsWalk
<1>3. CASE n # 0
  BY <1>3, CoverIs DEF Reaches, ValidRange
<1>4. QED
  BY <1>2, <1>3

\* The suggestion of a longer range is one to be relied on.
LEMMA SuggestedReached ==
  ASSUME NEW t \in Seq(Block), BlocksFit(t), NEW start \in Nat, NEW n \in Nat, start + n <= Top,
         SuggestedLen(t, start, n) # 0
  PROVE  /\ SuggestedLen(t, start, n) \in Nat
         /\ start + SuggestedLen(t, start, n) <= Top
         /\ Reaches(t, start, SuggestedLen(t, start, n), 0)
<1> DEFINE c == CoverFrom(t, start, n)
           s == c[0]
           B == Steps(t, start)
           room == Top - start
<1>1. SuggestedLen(t, start, n) = s /\ s # 0
  BY CoverIs DEF SuggestedLen
<1>2. IsWalk(c, B, n) /\ B \in [Nat -> Nat]
  BY CoverWalks, StepsNat
<1>3. room \in Nat /\ n <= room /\ start + room = Top
  BY Sizes
<1>4. ASSUME NEW x \in Nat, x < n
      PROVE  x + B[x] <= room
  <2>1. start + x \in Nat /\ start + x < Top
    BY <1>3, <1>4, Sizes
  <2>2. B[x] = BlockSize(t, start + x)
    BY <2>1, Below, StepsNat
  <2>3. CASE B[x] = 0
    BY <1>3, <1>4, <2>3
  <2>4. CASE B[x] # 0
    <3>1. PICK i \in DOMAIN t : t[i].base = start + x /\ t[i].size = B[x]
      BY <2>2, <2>4, BlockFound
    <3>2. (start + x) + B[x] <= Top
      BY <3>1 DEF BlocksFit
    <3>3. B[x] \in Nat
      BY <1>2
    <3> HIDE DEF B, room
    <3>4. QED
      BY <1>3, <3>2, <3>3, Sizes
  <2>5. QED
    BY <2>3, <2>4
<1>r. Room(B, n, room)
  BY <1>4 DEF Room
<1> HIDE DEF c, s, B, room
<1>5. c[0] # 0
  BY <1>1 DEF s
<1>6. c[0] \in Nat /\ c[0] >= n
  BY <1>2, <1>5, Arrives
<1>7. c[0] <= room
  <2>1. \A g \in Nat : g <= room /\ c[g] # 0 => c[g] <= room
    BY <1>2, <1>3, <1>r, StaysBelow
  <2>2. QED
    BY <1>3, <1>5, <2>1
<1>8. s \in Nat /\ n <= s /\ s <= room
  BY <1>6, <1>7 DEF s
<1> DEFINE d == CoverFrom(t, start, s)
<1>9. IsWalk(d, B, s)
  BY <1>8, CoverWalks DEF B
<1> HIDE DEF d
<1>10. d[0] = s
  <2>1. c[0] = s
    BY DEF s
  <2>2. \A g \in Nat : c[g] = s => d[g] = s
    <3>1. Overshoots(c, d, B, n, s)
      BY <1>1, <1>2, <1>8, <1>9 DEF Overshoots
    <3>2. QED
      BY <3>1, Suggested
  <2>3. QED
    BY <2>1, <2>2
<1>11. Reaches(t, start, s, 0)
  BY <1>8, <1>10 DEF Reaches, d
<1>12. start + s <= Top
  BY <1>3, <1>8, Sizes
<1>13. QED
  BY <1>1, <1>8, <1>11, <1>12

\* A range that erase blocks fill is filled by write blocks.
MadeOf(erases, writes) ==
  \A i \in DOMAIN erases : Cover(writes, erases[i].base, erases[i].size) = erases[i].size

\* So the write loop ends where the erase loop did (writeOpDo).
LEMMA ErasedIsWritten ==
  ASSUME NEW erases \in Seq(Block), NEW writes \in Seq(Block), MadeOf(erases, writes),
         NEW start \in Nat, NEW n \in Nat, start + n <= Top, Reaches(erases, start, n, 0)
  PROVE  Reaches(writes, start, n, 0)
<1> DEFINE e == CoverFrom(erases, start, n)
           E == Steps(erases, start)
           d == CoverFrom(writes, start, n)
           D == Steps(writes, start)
<1>1. IsWalk(e, E, n) /\ E \in [Nat -> Nat]
  BY CoverWalks, StepsNat
<1>2. IsWalk(d, D, n) /\ D \in [Nat -> Nat]
  BY CoverWalks, StepsNat
<1>3. ASSUME NEW x \in Nat, x < n, E[x] # 0, x + E[x] <= n, d[x + E[x]] = n
      PROVE  d[x] = n
  <2> DEFINE z == E[x]
             from == start + x
             c == CoverFrom(writes, from, z)
             B == Steps(writes, from)
  <2>1. from \in Nat /\ from < Top /\ z \in Nat
    BY <1>1, <1>3, Sizes
  <2>2. z = BlockSize(erases, from)
    BY <2>1, Below, StepsNat
  <2>3. PICK i \in DOMAIN erases : erases[i].base = from /\ erases[i].size = z
    BY <1>3, <2>2, BlockFound
  <2>4. c[0] = z
    BY <2>3, CoverIs DEF MadeOf
  <2>5. IsWalk(c, B, z) /\ B \in [Nat -> Nat]
    BY <2>1, CoverWalks, StepsNat
  <2>6. ASSUME NEW h \in Nat
        PROVE  B[h] = D[x + h]
    <3>1. B[h] = BlockSize(writes, (from + h) % Top)
      BY <2>1, StepsNat
    <3>2. D[x + h] = BlockSize(writes, (start + (x + h)) % Top)
      BY StepsNat
    <3>3. from + h = start + (x + h)
      OBVIOUS
    <3>4. QED
      BY <3>1, <3>2, <3>3
  <2>s. Shifted(B, D, x)
    BY <2>6 DEF Shifted
  <2>7. z # 0 /\ x + z <= n /\ d[x + z] = n
    BY <1>3
  <2> HIDE DEF z, from, c, B, D, d
  <2>8. \A h \in Nat : c[h] = z => d[x + h] = n
    <3>1. Continued(c, B, z, d, D, n, x)
      BY <1>2, <2>1, <2>5, <2>7, <2>s DEF Continued
    <3>2. QED
      BY <3>1, Through
  <2>9. d[x + 0] = n
    BY <2>4, <2>8
  <2>10. QED
    BY <2>9
<1>4. e[0] = n
  BY DEF Reaches
<1>c. Carries(E, d, n)
  BY <1>3 DEF Carries
<1> HIDE DEF e, E, d, D
<1>5. d[0] = n
  <2>1. \A g \in Nat : e[g] = n => d[g] = n
    <3>1. Finer(e, E, d, D, n)
      BY <1>1, <1>2, <1>c DEF Finer
    <3>2. QED
      BY <3>1, Refined
  <2>2. QED
    BY <1>4, <2>1
<1>6. QED
  BY <1>5 DEF Reaches, d

\* There is a first among the largest areas.
LEMMA LargestIs ==
  ASSUME NEW areas \in Seq(Block), areas # <<>>
  PROVE  /\ LargestArea(areas) \in Block
         /\ \A k \in DOMAIN areas : areas[k].size <= LargestArea(areas).size
<1>1. DOMAIN areas = 1 .. Len(areas) /\ Len(areas) \in Nat \ {0}
  BY EmptySeq, LenProperties
<1>2. \A i \in DOMAIN areas : areas[i] \in Block
  BY <1>1, ElementOfSeq
<1> DEFINE sz == [i \in DOMAIN areas |-> areas[i].size]
           Best(i, k) == i \in 1 .. k /\ \A j \in 1 .. k : sz[j] <= sz[i] /\ (j < i => sz[j] < sz[i])
           HasBest(k) == \E i \in 1 .. k : Best(i, k)
           T == {k \in Nat : k \in DOMAIN areas => HasBest(k)}
<1>3. \A i \in 1 .. Len(areas) : sz[i] \in Nat
  BY <1>1, <1>2 DEF Block
<1>4. 0 \in T
  BY <1>1
<1>5. ASSUME NEW k \in Nat, k \in T
      PROVE  k + 1 \in T
  <2> SUFFICES ASSUME k + 1 \in DOMAIN areas
               PROVE  HasBest(k + 1)
    <3> HIDE DEF HasBest
    <3>1. QED
      OBVIOUS
  <2>0. \A j \in 1 .. k + 1 : sz[j] \in Nat
    BY <1>1, <1>3
  <2> HIDE DEF sz
  <2>1. CASE k = 0
    <3>1. Best(1, k + 1)
      BY <2>0, <2>1
    <3>2. QED
      BY <2>1, <3>1
  <2>2. CASE k # 0
    <3>1. k \in DOMAIN areas
      BY <1>1, <2>2
    <3>2. PICK i \in 1 .. k : Best(i, k)
      BY <1>5, <3>1
    <3>3. CASE sz[k + 1] > sz[i]
      <4>1. ASSUME NEW j \in 1 .. k + 1
            PROVE  sz[j] <= sz[k + 1] /\ (j < k + 1 => sz[j] < sz[k + 1])
        <5>1. CASE j = k + 1
          BY <2>0, <5>1
        <5>2. CASE j # k + 1
          <6>1. j \in 1 .. k
            BY <5>2
          <6>2. sz[j] <= sz[i] /\ sz[j] \in Nat /\ sz[i] \in Nat /\ sz[k + 1] \in Nat
            BY <2>0, <3>2, <6>1
          <6>3. QED
            BY <3>3, <6>2
        <5>3. QED
          BY <5>1, <5>2
      <4>2. QED
        BY <4>1
    <3>4. CASE ~ (sz[k + 1] > sz[i])
      <4>1. ASSUME NEW j \in 1 .. k + 1
            PROVE  sz[j] <= sz[i] /\ (j < i => sz[j] < sz[i])
        <5>1. CASE j = k + 1
          BY <2>0, <3>4, <5>1
        <5>2. CASE j # k + 1
          BY <3>2, <5>2
        <5>3. QED
          BY <5>1, <5>2
      <4>2. QED
        BY <4>1
    <3>5. QED
      BY <3>3, <3>4
  <2>3. QED
    BY <2>1, <2>2
<1> DEFINE Is(n) == \A k \in DOMAIN areas :
                      areas[k].size <= areas[n].size /\ (k < n => areas[k].size < areas[n].size)
<1>6. \A i \in DOMAIN areas : Best(i, Len(areas)) => Is(i)
  BY <1>1
<1> HIDE DEF T
<1>7. Len(areas) \in T
  BY <1>1, <1>4, <1>5, Induct
<1>8. \E n \in DOMAIN areas : Is(n)
  <2>1. HasBest(Len(areas))
    <3> HIDE DEF HasBest
    <3>1. Len(areas) \in DOMAIN areas
      BY <1>1
    <3>2. QED
      BY <1>7, <3>1 DEF T
  <2>2. PICK i \in 1 .. Len(areas) : Best(i, Len(areas))
    BY <2>1
  <2> HIDE DEF Best
  <2>3. QED
    BY <1>1, <1>6, <2>2
<1> DEFINE best == CHOOSE n \in DOMAIN areas : Is(n)
<1>9. best \in DOMAIN areas /\ Is(best)
  BY <1>8
<1>10. LargestArea(areas) = areas[best]
  BY DEF LargestArea
<1>11. \A k \in DOMAIN areas : areas[k].size <= areas[best].size
  BY <1>9
<1> HIDE DEF best
<1>12. QED
  BY <1>2, <1>9, <1>10, <1>11

-----------------------------------------------------------------------------
(* The inductive invariant.                                                  *)

\* The loop the tool is in, and the size of the block it is at.
AtErase == pc \in {"erase", "goErase", "waitErase"}
AtWrite == pc \in {"write", "staged", "goWrite", "waitWrite"}
Size == BlockSize(IF AtWrite THEN fiWrite ELSE fiErase, addr + ofst)

TablesInv == Regular(fiErase, fiWrite, fiContig)
StartInv ==
  pc = "check" => /\ addr = 0 /\ len = 0 /\ ofst = 0 /\ sent = 0
                  /\ flash = before /\ core = "halted" /\ job = NoJob

\* The loop is at a block's start in a walk that ends with the range, and what
\* has been read of the file is what has been written, or a block more.
PlaceInv ==
  /\ addr + len <= Top
  /\ AtErase => /\ op.mode # "noerase" /\ sent = 0
                /\ Reaches(fiErase, addr, len, ofst) /\ (op.mode # "erase" => Reaches(fiWrite, addr, len, 0))
  /\ AtWrite => op.mode # "erase" /\ Reaches(fiWrite, addr, len, ofst)
  /\ pc = "write" => sent = ofst
  /\ pc \in {"staged", "goWrite", "waitWrite"} => sent = ofst + Size /\ ofst < len
  /\ pc \in {"goErase", "waitErase"} => ofst < len
  /\ pc = "ok" => ofst = len /\ sent = IF op.mode = "erase" THEN 0 ELSE len

\* The script is at the loop's block, or at one of the range.
JobInv ==
  /\ pc \in {"goErase", "waitErase"} => ~ job.write
  /\ pc \in {"goWrite", "waitWrite"} => job.write
  /\ pc \in {"goErase", "waitErase", "goWrite", "waitWrite"} =>
       job.block = [base |-> addr + ofst, size |-> Size]
  /\ \A a \in Cells(job.block) : InRange(a)

\* As long as no answer gets lost, the script is let go, and only let go, when
\* the tool has prepared it.
Between(a) == a >= addr + ofst /\ (sent > 0 => a < addr + sent)
CoreInv ==
  lost = 0 =>
    /\ ~ skipped
    /\ pc \in {"check", "erase", "write", "staged", "ok"} => core = "halted"
    /\ pc \in {"goErase", "goWrite"} => core = "ready"
    /\ pc \in {"waitErase", "waitWrite"} => core # "ready" /\ (core = "calling" => dwpt)
    /\ core = "running" => \A a \in Cells(job.block) : Between(a)

\* What the staging area and the cells hold then.
Acked == lost = 0 /\ op.mode # "noack"
Rest(a) == IF op.mode = "noerase" THEN before[a] ELSE Erased
Unfinished == pc \in {"staged", "goWrite"} \/ (pc = "waitWrite" /\ core \in {"running", "calling"})
Finished == pc \in {"waitErase", "waitWrite"} /\ core = "halted" /\ (dwpt \/ r0 # 0)
StageInv ==
  Acked /\ pc \in {"staged", "goWrite", "waitWrite"} =>
    Len(stage) = Size /\ \A k \in 1 .. Size : stage[k] = FileWord(ofst + k)
CellRight(a) ==
  /\ a < addr + ofst => flash[a] = IF sent > 0 THEN Due(a) ELSE Erased
  /\ (sent > 0 \/ AtWrite) /\ a >= addr + sent => flash[a] = Rest(a)
  /\ Unfinished /\ addr + ofst <= a /\ a < addr + sent => flash[a] = Rest(a)
  /\ Finished /\ a \in Cells(job.block) => flash[a] = IF job.write THEN Due(a) ELSE Erased
CellInv == Acked /\ pc # "check" => \A a \in Addr : InRange(a) => CellRight(a)

Control == TypeOK /\ TablesInv /\ StartInv /\ PlaceInv /\ JobInv /\ OnlyItsRange /\ CoreInv
IInv == Control /\ StageInv /\ CellInv

\* What a step that neither moves the tool on nor takes a new job leaves alone.
Kept == UNCHANGED <<tables, asked, progress, stage, job>>

\* One by one.
LEMMA KeptIs ==
  ASSUME Kept
  PROVE  /\ rfi' = rfi /\ fiErase' = fiErase /\ fiWrite' = fiWrite /\ fiContig' = fiContig
         /\ op' = op /\ before' = before
         /\ addr' = addr /\ len' = len /\ ofst' = ofst /\ sent' = sent
         /\ stage' = stage /\ job' = job
BY DEF Kept, tables, asked, progress

\* The block the loop is at.
LEMMA AtBlock ==
  ASSUME IInv, AtErase \/ AtWrite, ofst < len
  PROVE  /\ Here = addr + ofst /\ Here \in Addr
         /\ Size = BlockSize(IF AtWrite THEN fiWrite ELSE fiErase, Here)
         /\ Size \in Nat /\ Size # 0 /\ ofst + Size <= len
         /\ Reaches(IF AtWrite THEN fiWrite ELSE fiErase, addr, len, ofst + Size)
<1> DEFINE t == IF AtWrite THEN fiWrite ELSE fiErase
<1>1. t \in Seq(Block) /\ Reaches(t, addr, len, ofst)
  BY DEF IInv, Control, TypeOK, PlaceInv, AtErase, AtWrite
<1>2. addr \in Nat /\ len \in Nat /\ addr + len <= Top /\ ofst \in Nat
  BY DEF IInv, Control, TypeOK, PlaceInv
<1> HIDE DEF t
<1>3. /\ (addr + ofst) % Top = addr + ofst
      /\ BlockSize(t, addr + ofst) \in Nat
      /\ BlockSize(t, addr + ofst) # 0
      /\ ofst + BlockSize(t, addr + ofst) <= len
      /\ Reaches(t, addr, len, ofst + BlockSize(t, addr + ofst))
  BY <1>1, <1>2, NextBlock
<1>4. Size = BlockSize(t, addr + ofst) /\ Here = addr + ofst
  BY <1>3 DEF Size, Here, t
<1>5. addr + ofst \in Addr
  BY <1>2, Sizes DEF Addr
<1>6. QED
  BY <1>3, <1>4, <1>5 DEF t

\* The tool gives up.
LEMMA GivesUp ==
  ASSUME IInv, Kept, pc' = "failed", flash' = flash,
         core' \in {"ready", "running", "calling", "hung", "halted"}, r0' \in Addr,
         lost' \in 0 .. MaxLost, {dwpt', skipped'} \subseteq BOOLEAN,
         lost' = 0 => lost = 0 /\ ~ skipped' /\ (core' = "running" => \A a \in Cells(job.block) : Between(a))
  PROVE  IInv'
<1>0. /\ rfi' = rfi /\ fiErase' = fiErase /\ fiWrite' = fiWrite /\ fiContig' = fiContig
      /\ op' = op /\ before' = before
      /\ addr' = addr /\ len' = len /\ ofst' = ofst /\ sent' = sent
      /\ stage' = stage /\ job' = job
  BY KeptIs
<1> USE DEF IInv, Control
<1>1. TypeOK'
  BY <1>0 DEF TypeOK
<1>2. TablesInv' /\ StartInv'
  BY <1>0 DEF TablesInv, Regular, StartInv
<1>3. PlaceInv'
  BY <1>0 DEF PlaceInv, AtErase, AtWrite
<1>4. JobInv' /\ OnlyItsRange'
  BY <1>0 DEF JobInv, OnlyItsRange, InRange, Cells
<1>5. CoreInv'
  BY <1>0 DEF CoreInv, Between, Cells
<1>6. StageInv'
  BY DEF StageInv
<1>7. CellInv'
  <2> SUFFICES ASSUME Acked', NEW a \in Addr, InRange(a)'
               PROVE  CellRight(a)'
    BY DEF CellInv
  <2>1. Acked /\ InRange(a)
    BY <1>0 DEF Acked, InRange
  <2>2. pc # "check"
    <3>1. ~ InRange(a) \/ pc # "check"
      BY DEF StartInv, InRange, Addr
    <3>2. QED
      BY <2>1, <3>1
  <2>3. CellRight(a)
    BY <2>1, <2>2 DEF CellInv
  <2>4. Due(a)' = Due(a) /\ Rest(a)' = Rest(a)
    BY <1>0 DEF Due, Rest
  <2>5. QED
    BY <1>0, <2>3, <2>4 DEF CellRight, AtWrite, Unfinished, Finished
<1>8. QED
  BY <1>1, <1>2, <1>3, <1>4, <1>5, <1>6, <1>7

-----------------------------------------------------------------------------
(* The script's steps.                                                       *)

\* A script may answer with 0 or 1.
LEMMA Values == 0 \in Addr /\ 1 \in Addr
BY Sizes DEF Addr

\* A step of the script spoils no cell but its block's, and where it succeeds
\* it has done its work.
LEMMA ScriptStep ==
  ASSUME IInv, Kept, pc' = pc, lost' = lost, skipped' = skipped, core = "running",
         core' \in {"calling", "hung", "halted"}, core' = "calling" => dwpt' /\ flash' = flash,
         r0' \in Addr, dwpt' \in BOOLEAN, flash' \in [Addr -> Cell],
         \A a \in Addr : a \notin Cells(job.block) => flash'[a] = flash[a],
         Acked /\ pc \in {"waitErase", "waitWrite"} /\ core' = "halted" /\ (dwpt' \/ r0' # 0) =>
           \A a \in Cells(job.block) : flash'[a] = IF job.write THEN Due(a) ELSE Erased
  PROVE  IInv'
<1>0. /\ rfi' = rfi /\ fiErase' = fiErase /\ fiWrite' = fiWrite /\ fiContig' = fiContig
      /\ op' = op /\ before' = before
      /\ addr' = addr /\ len' = len /\ ofst' = ofst /\ sent' = sent
      /\ stage' = stage /\ job' = job
  BY KeptIs
<1> USE DEF IInv, Control
<1>1. TypeOK'
  BY <1>0 DEF TypeOK
<1>2. TablesInv' /\ StartInv'
  BY <1>0 DEF TablesInv, Regular, StartInv
<1>3. PlaceInv'
  BY <1>0 DEF PlaceInv, AtErase, AtWrite, Size
<1>4. JobInv'
  BY <1>0 DEF JobInv, InRange, Cells, AtWrite, Size
<1>5. OnlyItsRange'
  <2> SUFFICES ASSUME NEW a \in Addr, flash'[a] # before[a]
               PROVE  InRange(a)
    BY <1>0 DEF OnlyItsRange, InRange
  <2>1. CASE a \in Cells(job.block)
    BY <2>1 DEF JobInv
  <2>2. CASE a \notin Cells(job.block)
    BY <2>2 DEF OnlyItsRange
  <2>3. QED
    BY <2>1, <2>2
<1>6. CoreInv'
  BY <1>0 DEF CoreInv
<1>7. StageInv'
  BY <1>0 DEF StageInv, Acked, AtWrite, Size
<1>8. CellInv'
  <2> SUFFICES ASSUME Acked, pc # "check", NEW a \in Addr, InRange(a)
               PROVE  CellRight(a)'
    BY <1>0 DEF CellInv, Acked, InRange
  <2>1. CellRight(a)
    BY DEF CellInv
  <2>2. a \in Cells(job.block) => Between(a)
    BY DEF Acked, CoreInv
  <2>3. AtWrite => sent > 0
    <3>1. ASSUME AtWrite
          PROVE  pc = "waitWrite"
      BY <3>1 DEF AtWrite, CoreInv, Acked
    <3>2. ASSUME AtWrite
          PROVE  sent = ofst + Size /\ ofst < len
      BY <3>1, <3>2 DEF PlaceInv
    <3>3. ASSUME AtWrite
          PROVE  Size \in Nat /\ Size # 0 /\ ofst \in Nat
      BY <3>2, <3>3, AtBlock DEF TypeOK
    <3> HIDE DEF IInv
    <3>4. QED
      BY <3>2, <3>3
  <2>4. Due(a)' = Due(a) /\ Rest(a)' = Rest(a)
    BY <1>0 DEF Due, Rest
  <2>5. addr \in Nat /\ ofst \in Nat /\ sent \in Nat /\ a \in Nat
    BY DEF TypeOK, Addr
  <2>6. a < addr + ofst => flash'[a] = IF sent > 0 THEN Due(a) ELSE Erased
    <3>1. a < addr + ofst => ~ (a >= addr + ofst)
      BY <2>5
    <3>2. QED
      BY <2>1, <2>2, <3>1 DEF CellRight, Between
  <2>7. (sent > 0 \/ AtWrite) /\ a >= addr + sent => flash'[a] = Rest(a)
    <3>1. a >= addr + sent => ~ (a < addr + sent)
      BY <2>5
    <3>2. QED
      BY <2>1, <2>2, <2>3, <3>1 DEF CellRight, Between
  <2>8. Unfinished' /\ addr + ofst <= a /\ a < addr + sent => flash'[a] = Rest(a)
    <3>1. Unfinished' => pc = "waitWrite" /\ core' = "calling"
      BY DEF Unfinished, CoreInv, Acked
    <3>2. QED
      BY <2>1, <3>1 DEF CellRight, Unfinished
  <2>9. Finished' /\ a \in Cells(job.block) => flash'[a] = IF job.write THEN Due(a) ELSE Erased
    BY DEF Finished
  <2>10. AtWrite' <=> AtWrite
    BY DEF AtWrite
  <2>11. Cells(job.block)' = Cells(job.block)
    BY <1>0 DEF Cells
  <2>12. QED
    BY <1>0, <2>4, <2>6, <2>7, <2>8, <2>9, <2>10, <2>11 DEF CellRight
<1>9. QED
  BY <1>1, <1>2, <1>3, <1>4, <1>5, <1>6, <1>7, <1>8

\* A script that ends well has worked on its block.
LEMMA ScriptFinishesIs ==
  ASSUME IInv, ScriptFinishes
  PROVE  IInv'
<1>1. /\ Kept /\ pc' = pc /\ lost' = lost /\ skipped' = skipped /\ core = "running" /\ core' = "halted"
      /\ flash' = IF skipped THEN Spoilt(job) ELSE Worked(job)
      /\ \/ r0' = 1 /\ dwpt' = FALSE
         \/ r0' = 0 /\ dwpt' = TRUE
  BY DEF ScriptFinishes, Kept, Running, HaltsWith
<1>2. TypeOK /\ JobInv
  BY DEF IInv, Control
<1>3. r0' \in Addr /\ dwpt' \in BOOLEAN
  <2>1. r0 \in Addr /\ dwpt \in BOOLEAN
    BY <1>2 DEF TypeOK
  <2>2. QED
    BY <1>1, <2>1, Values
<1>4. Spoilt(job) \in [Addr -> Cell] /\ Worked(job) \in [Addr -> Cell]
  <2>1. \A a \in Addr : flash[a] \in Cell
    BY <1>2 DEF TypeOK
  <2>2. {Erased, Junk} \subseteq Cell
    BY DEF Cell
  <2>3. ASSUME NEW a \in Addr, a \in Cells(job.block), a - job.block.base < Len(stage)
        PROVE  stage[a - job.block.base + 1] \in Cell
    <3>1. job.block.base \in Nat /\ job.block.base <= a /\ a \in Nat /\ stage \in Seq(Data)
      BY <1>2, <2>3 DEF TypeOK, Cells, Block, Addr
    <3>2. Len(stage) \in Nat
      BY <3>1, LenProperties
    <3>3. a - job.block.base + 1 \in 1 .. Len(stage)
      BY <2>3, <3>1, <3>2
    <3>4. stage[a - job.block.base + 1] \in Data
      BY <3>1, <3>3, ElementOfSeq
    <3>5. QED
      BY <3>4 DEF Cell
  <2>4. Spoilt(job) \in [Addr -> Cell]
    BY <2>1, <2>2 DEF Spoilt
  <2>5. Worked(job) \in [Addr -> Cell]
    BY <2>1, <2>2, <2>3 DEF Worked
  <2>6. QED
    BY <2>4, <2>5
<1>5. flash' \in [Addr -> Cell]
  BY <1>1, <1>4
<1>6. \A a \in Addr : a \notin Cells(job.block) => flash'[a] = flash[a]
  BY <1>1 DEF Spoilt, Worked
<1>7. ASSUME Acked, pc \in {"waitErase", "waitWrite"}, NEW a \in Cells(job.block)
      PROVE  flash'[a] = IF job.write THEN Due(a) ELSE Erased
  <2>1. a \in Addr /\ flash' = Worked(job)
    BY <1>1, <1>7 DEF Cells, Acked, IInv, Control, CoreInv
  <2>2. CASE ~ job.write
    BY <2>1, <2>2 DEF Worked
  <2>3. CASE job.write
    <3>1. pc = "waitWrite" /\ AtWrite
      BY <1>2, <1>7, <2>3 DEF JobInv, AtWrite
    <3>2. op.mode # "erase" /\ sent = ofst + Size /\ ofst < len
      BY <3>1 DEF IInv, Control, PlaceInv
    <3>3. Size \in Nat /\ addr \in Nat /\ ofst \in Nat /\ a \in Nat
      BY <2>1, <3>1, <3>2, AtBlock DEF Addr, IInv, Control, TypeOK
    <3>4. job.block.base = addr + ofst /\ job.block.size = Size
      BY <1>2, <3>1 DEF JobInv
    <3>5. addr + ofst <= a /\ a < (addr + ofst) + Size
      BY <1>7, <3>4 DEF Cells
    <3>6. InRange(a)
      BY <1>2, <1>7, <2>1 DEF JobInv
    <3>7. CellRight(a)
      BY <1>7, <2>1, <3>1, <3>6 DEF IInv, CellInv
    <3>8. a < addr + sent
      <4>1. (addr + ofst) + Size = addr + sent
        BY <3>2, <3>3
      <4>2. QED
        BY <3>5, <4>1
    <3>9. Unfinished
      BY <1>1, <3>1 DEF Unfinished
    <3>10. flash[a] = Rest(a)
      BY <3>5, <3>7, <3>8, <3>9 DEF CellRight
    <3>11. Len(stage) = Size /\ \A k \in 1 .. Size : stage[k] = FileWord(ofst + k)
      BY <1>7, <3>1 DEF IInv, StageInv
    <3>12. a - job.block.base < Len(stage)
      BY <3>3, <3>4, <3>5, <3>11
    <3>13. stage[a - job.block.base + 1] = FileWord(a - addr + 1)
      <4>1. ASSUME NEW k \in Int, k = a - job.block.base + 1
            PROVE  k \in 1 .. Size /\ ofst + k = a - addr + 1
        BY <3>3, <3>4, <3>5, <4>1
      <4>2. a - job.block.base + 1 \in Int
        BY <3>3, <3>4
      <4>3. QED
        BY <3>11, <4>1, <4>2
    <3>14. Worked(job)[a] = IF flash[a] # Erased THEN Junk ELSE FileWord(a - addr + 1)
      BY <1>7, <2>1, <2>3, <3>12, <3>13 DEF Worked
    <3>15. QED
      BY <2>1, <2>3, <3>2, <3>10, <3>14 DEF Rest, Due
  <2>4. QED
    BY <2>2, <2>3
<1>8. QED
  BY <1>1, <1>3, <1>5, <1>6, <1>7, ScriptStep

\* A script that fails or hangs may have spoilt its block.
LEMMA ScriptFailsIs ==
  ASSUME IInv, ScriptFails \/ ScriptHangs
  PROVE  IInv'
<1>1. /\ Kept /\ pc' = pc /\ lost' = lost /\ skipped' = skipped /\ core = "running"
      /\ flash' \in {flash, Spoilt(job)}
      /\ \/ core' = "halted" /\ r0' = 0 /\ dwpt' = FALSE
         \/ core' = "hung" /\ r0' = r0 /\ dwpt' = dwpt
  BY DEF ScriptFails, ScriptHangs, Kept, Running, HaltsWith
<1>2. TypeOK
  BY DEF IInv, Control
<1>3. r0' \in Addr /\ dwpt' \in BOOLEAN
  <2>1. r0 \in Addr /\ dwpt \in BOOLEAN
    BY <1>2 DEF TypeOK
  <2>2. QED
    BY <1>1, <2>1, Values
<1>4. flash' \in [Addr -> Cell] /\ \A a \in Addr : a \notin Cells(job.block) => flash'[a] = flash[a]
  BY <1>1, <1>2 DEF TypeOK, Spoilt, Cell
<1>5. /\ core' \in {"calling", "hung", "halted"} /\ core' # "calling"
      /\ ~ (core' = "halted" /\ (dwpt' \/ r0' # 0))
  BY <1>1
<1>6. QED
  BY <1>1, <1>3, <1>4, <1>5, ScriptStep

\* A script that calls the tool has not worked on its block yet.
LEMMA ScriptCallsIs ==
  ASSUME IInv, ScriptCalls
  PROVE  IInv'
<1>1. /\ Kept /\ pc' = pc /\ lost' = lost /\ skipped' = skipped /\ core = "running" /\ core' = "calling"
      /\ flash' = flash /\ dwpt' = TRUE /\ r0' \in {0, 1}
  BY DEF ScriptCalls, Kept, Running
<1>2. TypeOK
  BY DEF IInv, Control
<1>3. r0' \in Addr /\ dwpt' \in BOOLEAN
  BY <1>1, Values
<1>4. flash' \in [Addr -> Cell] /\ \A a \in Addr : a \notin Cells(job.block) => flash'[a] = flash[a]
  BY <1>1, <1>2 DEF TypeOK
<1>5. QED
  BY <1>1, <1>3, <1>4, ScriptStep

-----------------------------------------------------------------------------
(* The tool's steps from block to block.                                     *)

\* What is used over and over of the invariant.
LEMMA TypeParts ==
  ASSUME IInv
  PROVE  /\ addr \in Nat /\ len \in Nat /\ ofst \in Nat /\ sent \in Nat /\ ofst <= len
         /\ addr + len <= Top /\ Top \in Nat
         /\ lost \in Nat /\ lost \in 0 .. MaxLost /\ r0 \in Addr
         /\ core \in {"ready", "running", "calling", "hung", "halted"}
         /\ {dwpt, skipped} \subseteq BOOLEAN
         /\ fiErase \in Seq(Block) /\ fiWrite \in Seq(Block) /\ job.write \in BOOLEAN
BY Sizes DEF IInv, Control, TypeOK, PlaceInv

\* The tool gives up and leaves the target as it is.
LEMMA FailsQuietly ==
  ASSUME IInv, Fails, UNCHANGED <<target, lost>>
  PROVE  IInv'
<1>1. /\ Kept /\ pc' = "failed" /\ flash' = flash /\ core' = core /\ r0' = r0 /\ dwpt' = dwpt
      /\ skipped' = skipped /\ lost' = lost
  BY DEF Kept, Fails, Stays, target
<1>2. lost = 0 => ~ skipped /\ (core = "running" => \A a \in Cells(job.block) : Between(a))
  BY DEF IInv, Control, CoreInv
<1>3. QED
  BY <1>1, <1>2, TypeParts, GivesUp

\* The cells of a block at ofst are in the range.
LEMMA BlockInRange ==
  ASSUME NEW a0 \in Nat, NEW n \in Nat, NEW o \in Nat, NEW z \in Nat, o + z <= n,
         NEW a \in Nat, a0 + o <= a, a < (a0 + o) + z
  PROVE  a0 <= a /\ a < a0 + n
OBVIOUS

\* The registers are set for the block the loop is at.
LEMMA Prepares ==
  ASSUME IInv, NEW write \in BOOLEAN, pc = IF write THEN "staged" ELSE "erase", ofst < len,
         Prepare(write)
  PROVE  IInv'
<1> DEFINE t == IF write THEN fiWrite ELSE fiErase
<1>1. CASE Fails /\ UNCHANGED <<target, lost>>
  BY <1>1, FailsQuietly
<1>2. CASE ~ (Fails /\ UNCHANGED <<target, lost>>)
  <2>1. /\ job' = [write |-> write, block |-> [base |-> Here, size |-> BlockSize(t, Here)]]
        /\ core' = "ready" /\ r0' = Here
        /\ dwpt' = FALSE /\ skipped' = FALSE
        /\ pc' = IF write THEN "goWrite" ELSE "goErase"
        /\ Stays /\ UNCHANGED <<progress, stage, flash, lost>>
    BY <1>2 DEF Prepare
  <2>2. /\ rfi' = rfi /\ fiErase' = fiErase /\ fiWrite' = fiWrite /\ fiContig' = fiContig
        /\ op' = op /\ before' = before
        /\ addr' = addr /\ len' = len /\ ofst' = ofst /\ sent' = sent
        /\ stage' = stage /\ flash' = flash /\ lost' = lost
    BY <2>1 DEF Stays, tables, asked, progress
  <2>3. (AtWrite <=> write) /\ (AtErase <=> ~ write) /\ (AtWrite' <=> write) /\ (AtErase' <=> ~ write)
    BY <2>1 DEF AtWrite, AtErase
  <2>4. /\ Here = addr + ofst /\ Here \in Addr /\ Here \in Nat
        /\ Size = BlockSize(t, Here) /\ Size \in Nat /\ ofst + Size <= len
    BY <2>3, AtBlock DEF Addr
  <2> HIDE DEF t
  <2>5. Size' = Size
    BY <2>2, <2>3 DEF Size
  <2>6. job'.write = write /\ job'.block = [base |-> addr + ofst, size |-> Size]
    BY <2>1, <2>4
  <2>7. job'.block \in Block
    BY <2>4, <2>6 DEF Block
  <2> USE DEF IInv, Control
  <2>8. TypeOK'
    BY <2>1, <2>2, <2>4, <2>6, <2>7 DEF TypeOK
  <2>9. TablesInv' /\ StartInv'
    BY <2>1, <2>2 DEF TablesInv, Regular, StartInv
  <2>10. PlaceInv'
    BY <2>1, <2>2, <2>3, <2>5 DEF PlaceInv
  <2>11. JobInv' /\ OnlyItsRange'
    <3>1. ASSUME NEW a \in Cells(job.block)'
          PROVE  InRange(a)
      <4>1. a \in Nat /\ addr + ofst <= a /\ a < (addr + ofst) + Size
        BY <2>6, <3>1 DEF Cells, Addr
      <4>2. QED
        BY <2>4, <4>1, TypeParts, BlockInRange DEF InRange
    <3>2. \A a : InRange(a)' <=> InRange(a)
      BY <2>2 DEF InRange
    <3>3. OnlyItsRange'
      BY <2>2, <3>2 DEF OnlyItsRange
    <3>4. JobInv'
      BY <2>1, <2>2, <2>5, <2>6, <3>1, <3>2 DEF JobInv
    <3>5. QED
      BY <3>3, <3>4
  <2>12. CoreInv'
    BY <2>1 DEF CoreInv
  <2>13. StageInv'
    BY <2>1, <2>2, <2>5 DEF StageInv, Acked
  <2>14. CellInv'
    <3> SUFFICES ASSUME Acked, NEW a \in Addr, InRange(a)
                 PROVE  CellRight(a)'
      BY <2>1, <2>2 DEF CellInv, Acked, InRange
    <3>1. CellRight(a)
      BY DEF CellInv
    <3>2. Due(a)' = Due(a) /\ Rest(a)' = Rest(a)
      BY <2>2 DEF Due, Rest
    <3>3. ~ Finished' /\ (Unfinished' => Unfinished)
      BY <2>1 DEF Finished, Unfinished
    <3>4. QED
      BY <2>2, <2>3, <3>1, <3>2, <3>3 DEF CellRight
  <2>15. QED
    BY <2>8, <2>9, <2>10, <2>11, <2>12, <2>13, <2>14
<1>3. QED
  BY <1>1, <1>2

\* What is staged is to be written.
LEMMA WriteBlockIs ==
  ASSUME IInv, WriteBlock
  PROVE  IInv'
<1>1. pc = "staged" /\ Prepare(TRUE)
  BY DEF WriteBlock
<1>2. ofst < len
  BY <1>1 DEF IInv, Control, PlaceInv
<1>3. QED
  BY <1>1, <1>2, Prepares

\* The last block has been written.
LEMMA WritesEndIs ==
  ASSUME IInv, WritesEnd
  PROVE  IInv'
<1>1. /\ pc = "write" /\ pc' = "ok" /\ ofst >= len /\ Kept
      /\ flash' = flash /\ core' = core /\ r0' = r0 /\ dwpt' = dwpt
      /\ skipped' = skipped /\ lost' = lost
  BY DEF WritesEnd, Kept, Stays, target
<1>2. /\ rfi' = rfi /\ fiErase' = fiErase /\ fiWrite' = fiWrite /\ fiContig' = fiContig
      /\ op' = op /\ before' = before
      /\ addr' = addr /\ len' = len /\ ofst' = ofst /\ sent' = sent
      /\ stage' = stage /\ job' = job
  BY <1>1, KeptIs
<1>3. ofst = len /\ sent = len /\ op.mode # "erase"
  <2>1. ofst = len
    BY <1>1, TypeParts
  <2>2. QED
    BY <1>1, <2>1 DEF IInv, Control, PlaceInv, AtWrite
<1> USE DEF IInv, Control
<1>4. TypeOK'
  BY <1>1, <1>2 DEF TypeOK
<1>5. TablesInv' /\ StartInv'
  BY <1>1, <1>2 DEF TablesInv, Regular, StartInv
<1>6. PlaceInv'
  BY <1>1, <1>2, <1>3 DEF PlaceInv, AtErase, AtWrite
<1>7. JobInv' /\ OnlyItsRange'
  BY <1>1, <1>2 DEF JobInv, OnlyItsRange, InRange, Cells
<1>8. CoreInv'
  BY <1>1, <1>2 DEF CoreInv
<1>9. StageInv'
  BY <1>1 DEF StageInv
<1>10. CellInv'
  <2> SUFFICES ASSUME Acked, NEW a \in Addr, InRange(a)
               PROVE  CellRight(a)'
    BY <1>1, <1>2 DEF CellInv, Acked, InRange
  <2>1. CellRight(a)
    BY <1>1 DEF CellInv
  <2>2. Due(a)' = Due(a) /\ Rest(a)' = Rest(a)
    BY <1>2 DEF Due, Rest
  <2>3. QED
    BY <1>1, <1>2, <2>1, <2>2 DEF CellRight, AtWrite, Unfinished, Finished
<1>11. QED
  BY <1>4, <1>5, <1>6, <1>7, <1>8, <1>9, <1>10

\* A block is to be erased, or the last one has been.
LEMMA EraseLoopIs ==
  ASSUME IInv, EraseLoop
  PROVE  IInv'
<1>1. CASE ofst < len /\ Prepare(FALSE)
  BY <1>1, Prepares DEF EraseLoop
<1>2. CASE ~ (ofst < len /\ Prepare(FALSE))
  <2>1. /\ pc = "erase" /\ ofst >= len
        /\ IF op.mode = "erase" THEN pc' = "ok" /\ ofst' = ofst ELSE pc' = "write" /\ ofst' = 0
        /\ addr' = addr /\ len' = len /\ sent' = sent
        /\ rfi' = rfi /\ fiErase' = fiErase /\ fiWrite' = fiWrite /\ fiContig' = fiContig
        /\ op' = op /\ before' = before /\ stage' = stage /\ job' = job
        /\ flash' = flash /\ core' = core /\ r0' = r0 /\ dwpt' = dwpt
        /\ skipped' = skipped /\ lost' = lost
    BY <1>2 DEF EraseLoop, Stays, tables, asked, target
  <2>2. ofst = len /\ sent = 0 /\ op.mode # "noerase" /\ (op.mode # "erase" => Reaches(fiWrite, addr, len, 0))
    <3>1. ofst = len
      BY <2>1, TypeParts
    <3>2. QED
      BY <2>1, <3>1 DEF IInv, Control, PlaceInv, AtErase
  <2> USE DEF IInv, Control
  <2>3. TypeOK'
    <3>1. 0 \in 0 .. len
      BY TypeParts
    <3>2. ofst' \in 0 .. len
      BY <2>1, <3>1 DEF TypeOK
    <3>3. QED
      BY <2>1, <3>2 DEF TypeOK
  <2>4. TablesInv' /\ StartInv'
    BY <2>1 DEF TablesInv, Regular, StartInv
  <2>5. PlaceInv'
    <3>1. CASE op.mode = "erase"
      BY <2>1, <2>2, <3>1 DEF PlaceInv, AtErase, AtWrite
    <3>2. CASE op.mode # "erase"
      BY <2>1, <2>2, <3>2 DEF PlaceInv, AtErase, AtWrite
    <3>3. QED
      BY <3>1, <3>2
  <2>6. JobInv' /\ OnlyItsRange'
    BY <2>1 DEF JobInv, OnlyItsRange, InRange, Cells
  <2>7. CoreInv'
    BY <2>1 DEF CoreInv
  <2>8. StageInv'
    BY <2>1 DEF StageInv
  <2>9. CellInv'
    <3> SUFFICES ASSUME Acked, NEW a \in Addr, InRange(a)
                 PROVE  CellRight(a)'
      BY <2>1 DEF CellInv, Acked, InRange
    <3>1. CellRight(a)
      BY <2>1 DEF CellInv
    <3>2. Due(a)' = Due(a) /\ Rest(a)' = Rest(a)
      BY <2>1 DEF Due, Rest
    <3>3. a < addr + ofst
      BY <2>2 DEF InRange
    <3>4. flash[a] = Erased /\ Rest(a) = Erased
      BY <2>2, <3>1, <3>3 DEF CellRight, Rest
    <3>5. ~ (a < addr + 0)
      <4>1. a \in Nat /\ addr \in Nat /\ addr <= a
        BY TypeParts DEF InRange, Addr
      <4>2. QED
        BY <4>1
    <3>6. ~ Unfinished' /\ ~ Finished' /\ ~ (sent' > 0)
      BY <2>1, <2>2 DEF Unfinished, Finished
    <3>7. CASE op.mode = "erase"
      BY <2>1, <3>2, <3>4, <3>6, <3>7 DEF CellRight, AtWrite
    <3>8. CASE op.mode # "erase"
      BY <2>1, <3>2, <3>4, <3>5, <3>6, <3>8 DEF CellRight, AtWrite
    <3>9. QED
      BY <3>7, <3>8
  <2>10. QED
    BY <2>3, <2>4, <2>5, <2>6, <2>7, <2>8, <2>9
<1>3. QED
  BY <1>1, <1>2

-----------------------------------------------------------------------------
(* Letting the core go, and finding it stopped.                              *)

\* The cells a script at the loop's block works on.
LEMMA JobBetween ==
  ASSUME IInv, pc \in {"goErase", "waitErase", "goWrite", "waitWrite"}
  PROVE  \A a \in Cells(job.block) : Between(a)
<1>1. ofst < len /\ (AtWrite => sent = ofst + Size) /\ (AtErase => sent = 0) /\ (AtWrite \/ AtErase)
  BY DEF IInv, Control, PlaceInv, AtWrite, AtErase
<1>2. Size \in Nat
  BY <1>1, AtBlock
<1>3. job.block.base = addr + ofst /\ job.block.size = Size
  BY DEF IInv, Control, JobInv
<1> SUFFICES ASSUME NEW a \in Cells(job.block)
             PROVE  Between(a)
  OBVIOUS
<1>4. a \in Nat /\ addr + ofst <= a /\ a < (addr + ofst) + Size
  BY <1>3 DEF Cells, Addr
<1>5. a >= addr + ofst
  BY <1>4, TypeParts
<1>6. AtWrite => a < addr + sent
  <2>1. AtWrite => (addr + ofst) + Size = addr + sent
    BY <1>1, <1>2, TypeParts
  <2>2. QED
    BY <1>4, <2>1
<1>7. QED
  BY <1>1, <1>5, <1>6 DEF Between

\* A step that lets the script be or lets it go, and leaves the tool at its
\* block.
LEMMA StaysAtBlock ==
  ASSUME IInv, Kept, flash' = flash,
         \/ pc \in {"goErase", "waitErase"} /\ pc' \in {"goErase", "waitErase"}
         \/ pc \in {"goWrite", "waitWrite"} /\ pc' \in {"goWrite", "waitWrite"},
         core' \in {"ready", "running", "calling", "hung", "halted"}, r0' = r0,
         dwpt' \in BOOLEAN, skipped' \in BOOLEAN, lost' \in 0 .. MaxLost,
         lost' = 0 => /\ lost = 0 /\ ~ skipped'
                      /\ pc' \in {"goErase", "goWrite"} <=> core' = "ready"
                      /\ core' \in {"ready", "running"}
                      /\ pc = "waitWrite" => core \in {"running", "calling"}
  PROVE  IInv'
<1>0. /\ rfi' = rfi /\ fiErase' = fiErase /\ fiWrite' = fiWrite /\ fiContig' = fiContig
      /\ op' = op /\ before' = before
      /\ addr' = addr /\ len' = len /\ ofst' = ofst /\ sent' = sent
      /\ stage' = stage /\ job' = job
  BY KeptIs
<1>1. (AtWrite' <=> AtWrite) /\ (AtErase' <=> AtErase) /\ (AtWrite \/ AtErase)
  BY DEF AtWrite, AtErase
<1>2. Size' = Size
  BY <1>0, <1>1 DEF Size
<1> USE DEF IInv, Control
<1>3. TypeOK'
  BY <1>0 DEF TypeOK
<1>4. TablesInv' /\ StartInv'
  BY <1>0 DEF TablesInv, Regular, StartInv
<1>5. PlaceInv'
  BY <1>0, <1>1, <1>2 DEF PlaceInv
<1>6. JobInv' /\ OnlyItsRange'
  BY <1>0, <1>2 DEF JobInv, OnlyItsRange, InRange, Cells
<1>7. CoreInv'
  <2>1. \A a \in Cells(job.block) : Between(a)
    BY JobBetween
  <2>2. \A a : Between(a)' <=> Between(a)
    BY <1>0 DEF Between
  <2>3. Cells(job.block)' = Cells(job.block)
    BY <1>0 DEF Cells
  <2>4. QED
    BY <2>1, <2>2, <2>3 DEF CoreInv
<1>8. StageInv'
  BY <1>0, <1>2 DEF StageInv, Acked
<1>9. CellInv'
  <2> SUFFICES ASSUME Acked', NEW a \in Addr, InRange(a)
               PROVE  CellRight(a)'
    BY <1>0 DEF CellInv, InRange
  <2>1. Acked
    BY <1>0 DEF Acked
  <2>2. CellRight(a)
    BY <2>1 DEF CellInv
  <2>3. Due(a)' = Due(a) /\ Rest(a)' = Rest(a)
    BY <1>0 DEF Due, Rest
  <2>4. ~ Finished' /\ (Unfinished' => Unfinished)
    BY <2>1 DEF Finished, Unfinished, Acked
  <2>5. QED
    BY <1>0, <1>1, <2>2, <2>3, <2>4 DEF CellRight
<1>10. QED
  BY <1>3, <1>4, <1>5, <1>6, <1>7, <1>8, <1>9

\* An answer that is lost stays counted.
LEMMA LostIs ==
  ASSUME IInv, Lost
  PROVE  lost' \in 0 .. MaxLost /\ lost' # 0
<1>1. lost < MaxLost /\ lost' = lost + 1 /\ lost \in Nat /\ MaxLost \in Nat
  BY TypeParts, Sizes DEF Lost
<1>2. lost + 1 \in 0 .. MaxLost /\ lost + 1 # 0
  BY <1>1
<1>3. QED
  BY <1>1, <1>2

\* The core is let go, or is not, and the tool may not know.
LEMMA GoIs ==
  ASSUME IInv, Go
  PROVE  IInv'
<1>1. pc \in {"goWrite", "goErase"}
  BY DEF Go
<1>2. \/ pc = "goWrite" /\ Waiting = "waitWrite"
      \/ pc = "goErase" /\ Waiting = "waitErase"
  BY <1>1 DEF IInv, Control, JobInv, Waiting
<1>3. lost = 0 => core = "ready" /\ ~ skipped
  BY <1>1 DEF IInv, Control, CoreInv
<1>4. ASSUME Resumed \/ UNCHANGED target
      PROVE  /\ flash' = flash /\ r0' = r0 /\ dwpt' = dwpt /\ job' = job
             /\ core' \in {"ready", "running", "calling", "hung", "halted"} /\ skipped' \in BOOLEAN
             /\ lost = 0 => ~ skipped' /\ core' \in {"ready", "running"}
             /\ lost = 0 /\ Resumed => core' = "running"
  <2>1. CASE Resumed
    BY <1>3, <2>1, TypeParts DEF Resumed
  <2>2. CASE UNCHANGED target
    BY <1>3, <2>2, TypeParts DEF target, Resumed
  <2>3. QED
    BY <1>4, <2>1, <2>2
<1>5. CASE Resumed /\ pc' = Waiting /\ Stays /\ UNCHANGED <<progress, stage, lost>>
  <2>1. Kept /\ lost' = lost
    BY <1>4, <1>5 DEF Kept, Stays
  <2>2. QED
    BY <1>1, <1>2, <1>3, <1>4, <1>5, <2>1, TypeParts, StaysAtBlock
<1>6. CASE (Resumed \/ UNCHANGED target) /\ Fails /\ UNCHANGED lost
  <2>1. Kept /\ lost' = lost /\ pc' = "failed"
    BY <1>4, <1>6 DEF Kept, Fails, Stays
  <2>2. \A a \in Cells(job.block) : Between(a)
    BY <1>1, JobBetween
  <2>3. QED
    BY <1>4, <1>6, <2>1, <2>2, TypeParts, GivesUp
<1>7. CASE /\ Resumed \/ UNCHANGED target
           /\ pc' \in {pc, Waiting} /\ Lost
           /\ Stays /\ UNCHANGED <<progress, stage>>
  <2>1. Kept /\ lost' \in 0 .. MaxLost /\ lost' # 0
    BY <1>4, <1>7, LostIs DEF Kept, Stays
  <2>2. QED
    BY <1>1, <1>2, <1>4, <1>7, <2>1, TypeParts, StaysAtBlock
<1>8. QED
  BY <1>5, <1>6, <1>7 DEF Go

\* Time is up.
LEMMA TimedOutIs ==
  ASSUME IInv, TimedOut
  PROVE  IInv'
<1>1. /\ core' \in {core, "halted"} /\ pc' = "failed" /\ Kept /\ flash' = flash
      /\ r0' = r0 /\ dwpt' = dwpt /\ skipped' = skipped
      /\ lost' = lost \/ Lost
  BY DEF TimedOut, Fails, Stays, Kept
<1>2. lost' \in 0 .. MaxLost /\ (lost' = 0 => lost = 0)
  BY <1>1, LostIs, TypeParts
<1>3. lost = 0 => ~ skipped /\ (core = "running" => \A a \in Cells(job.block) : Between(a))
  BY DEF IInv, Control, CoreInv
<1>4. QED
  BY <1>1, <1>2, <1>3, TypeParts, GivesUp

\* The block is done, and the loop goes on to the next.
LEMMA BlockDoneIs ==
  ASSUME IInv, pc \in {"waitErase", "waitWrite"}, BlockDone,
         UNCHANGED <<tables, asked, stage, flash, core, r0, job, skipped, lost>>, dwpt' = FALSE,
         lost = 0 => core = "halted" /\ (dwpt \/ r0 # 0)
  PROVE  IInv'
<1>1. /\ rfi' = rfi /\ fiErase' = fiErase /\ fiWrite' = fiWrite /\ fiContig' = fiContig
      /\ op' = op /\ before' = before
      /\ addr' = addr /\ len' = len /\ sent' = sent /\ stage' = stage
      /\ flash' = flash /\ core' = core /\ r0' = r0 /\ job' = job
      /\ skipped' = skipped /\ lost' = lost
      /\ ofst' = ofst + job.block.size
      /\ pc' = IF job.write THEN "write" ELSE "erase"
  BY DEF tables, asked, BlockDone
<1> DEFINE t == IF AtWrite THEN fiWrite ELSE fiErase
<1>2. /\ AtWrite <=> pc = "waitWrite"
      /\ AtErase <=> pc = "waitErase"
      /\ job.write <=> pc = "waitWrite"
  BY DEF AtWrite, AtErase, IInv, Control, JobInv, TypeOK
<1>3. ofst < len /\ (AtWrite => sent = ofst + Size) /\ (AtErase => sent = 0)
  BY <1>2 DEF IInv, Control, PlaceInv
<1>4. job.block = [base |-> addr + ofst, size |-> Size]
  BY DEF IInv, Control, JobInv
<1>5. Size \in Nat /\ Size # 0 /\ ofst + Size <= len /\ Reaches(t, addr, len, ofst + Size)
  BY <1>2, <1>3, AtBlock
<1>6. ofst' = ofst + Size /\ ofst + Size \in 0 .. len
  <2>1. ofst + Size \in 0 .. len
    BY <1>5, TypeParts
  <2>2. QED
    BY <1>1, <1>4, <2>1
<1>7. \/ /\ pc' = "write" /\ AtWrite /\ AtWrite' /\ ~ AtErase /\ ~ AtErase' /\ job.write
         /\ op.mode # "erase" /\ sent = ofst + Size /\ sent > 0 /\ t = fiWrite
      \/ /\ pc' = "erase" /\ AtErase /\ AtErase' /\ ~ AtWrite /\ ~ AtWrite' /\ ~ job.write
         /\ op.mode # "noerase" /\ sent = 0 /\ t = fiErase
         /\ (op.mode # "erase" => Reaches(fiWrite, addr, len, 0))
  <2>1. CASE pc = "waitWrite"
    <3>1. op.mode # "erase"
      BY <1>2, <2>1 DEF IInv, Control, PlaceInv
    <3>2. pc' = "write" /\ AtWrite' /\ ~ AtErase' /\ ~ AtErase
      BY <1>1, <1>2, <2>1 DEF AtWrite, AtErase
    <3>3. sent = ofst + Size /\ sent > 0
      BY <1>2, <1>3, <1>5, <2>1, TypeParts
    <3>4. QED
      BY <1>2, <2>1, <3>1, <3>2, <3>3
  <2>2. CASE pc = "waitErase"
    <3>1. op.mode # "noerase" /\ (op.mode # "erase" => Reaches(fiWrite, addr, len, 0))
      BY <1>2, <2>2 DEF IInv, Control, PlaceInv
    <3>2. pc' = "erase" /\ AtErase' /\ ~ AtWrite' /\ ~ AtWrite
      BY <1>1, <1>2, <2>2 DEF AtWrite, AtErase
    <3>3. QED
      BY <1>2, <1>3, <2>2, <3>1, <3>2
  <2>3. QED
    BY <2>1, <2>2
<1> HIDE DEF t
<1> USE DEF IInv, Control
<1>8. TypeOK'
  BY <1>1, <1>6, <1>7 DEF TypeOK
<1>9. TablesInv' /\ StartInv'
  BY <1>1, <1>7 DEF TablesInv, Regular, StartInv
<1>10. PlaceInv'
  BY <1>1, <1>5, <1>6, <1>7 DEF PlaceInv
<1>11. JobInv' /\ OnlyItsRange'
  BY <1>1, <1>7 DEF JobInv, OnlyItsRange, InRange, Cells
<1>12. CoreInv'
  BY <1>1, <1>7 DEF CoreInv
<1>13. StageInv'
  BY <1>7 DEF StageInv
<1>14. CellInv'
  <2> SUFFICES ASSUME Acked, NEW a \in Addr, InRange(a)
               PROVE  CellRight(a)'
    BY <1>1 DEF CellInv, Acked, InRange
  <2>1. CellRight(a)
    BY DEF CellInv
  <2>2. Due(a)' = Due(a) /\ Rest(a)' = Rest(a)
    BY <1>1 DEF Due, Rest
  <2>3. Finished /\ ~ Unfinished' /\ ~ Finished'
    BY <1>7 DEF Finished, Unfinished, Acked
  <2>4. ASSUME a < addr + (ofst + Size)
        PROVE  flash[a] = IF sent > 0 THEN Due(a) ELSE Erased
    <3>1. CASE a < addr + ofst
      BY <2>1, <3>1 DEF CellRight
    <3>2. CASE ~ (a < addr + ofst)
      <4>1. a \in Nat
        BY DEF Addr
      <4>2. addr + ofst <= a /\ a < (addr + ofst) + Size
        BY <1>5, <2>4, <3>2, <4>1, TypeParts
      <4>3. a \in Cells(job.block)
        BY <1>4, <4>2 DEF Cells
      <4>4. flash[a] = IF job.write THEN Due(a) ELSE Erased
        BY <2>1, <2>3, <4>3 DEF CellRight
      <4>5. sent = 0 => ~ (sent > 0)
        OBVIOUS
      <4> HIDE DEF IInv
      <4>6. QED
        BY <1>7, <4>4, <4>5
    <3>3. QED
      BY <3>1, <3>2
  <2>5. (sent > 0 \/ AtWrite') /\ a >= addr + sent => flash[a] = Rest(a)
    BY <1>7, <2>1 DEF CellRight
  <2>6. QED
    BY <1>1, <1>6, <2>2, <2>3, <2>4, <2>5 DEF CellRight
<1>15. QED
  BY <1>8, <1>9, <1>10, <1>11, <1>12, <1>13, <1>14

\* The core is found stopped: an answer is lost, a call served, a result read.
LEMMA StoppedIs ==
  ASSUME IInv, Stopped
  PROVE  IInv'
<1>1. /\ pc \in {"waitWrite", "waitErase"} /\ core \in {"ready", "halted", "calling"}
      /\ dwpt' = FALSE /\ flash' = flash /\ job' = job
  BY DEF Stopped
<1>2. lost = 0 => ~ skipped /\ core # "ready" /\ (core = "calling" => dwpt)
  BY <1>1 DEF IInv, Control, CoreInv
<1>3. CASE Lost /\ pc' = pc /\ Stays /\ UNCHANGED <<progress, stage, core, r0, skipped>>
  <2>1. Kept /\ lost' \in 0 .. MaxLost /\ lost' # 0
    BY <1>1, <1>3, LostIs DEF Kept, Stays
  <2>2. QED
    BY <1>1, <1>3, <2>1, TypeParts, StaysAtBlock
<1>4. CASE UNCHANGED lost /\ Fails /\ UNCHANGED <<core, r0, skipped>>
  <2>1. Kept /\ pc' = "failed"
    BY <1>1, <1>4 DEF Kept, Fails, Stays
  <2>2. QED
    BY <1>1, <1>2, <1>4, <2>1, TypeParts, GivesUp
<1>5. CASE /\ UNCHANGED lost /\ dwpt /\ core = "calling"
           /\ core' = "ready" /\ pc' = IF job.write THEN "goWrite" ELSE "goErase"
           /\ Stays /\ UNCHANGED <<progress, stage, r0, skipped>>
  <2>1. Kept
    BY <1>1, <1>5 DEF Kept, Stays
  <2>2. \/ pc = "waitWrite" /\ pc' = "goWrite"
        \/ pc = "waitErase" /\ pc' = "goErase"
    BY <1>1, <1>5 DEF IInv, Control, JobInv
  <2>3. QED
    BY <1>1, <1>2, <1>5, <2>1, <2>2, TypeParts, StaysAtBlock
<1>6. CASE /\ UNCHANGED lost /\ ~ (dwpt /\ core = "calling")
           /\ Result(IF dwpt THEN 1 ELSE r0)
           /\ UNCHANGED <<core, r0, skipped>>
  <2>1. CASE Fails
    BY <1>4, <1>6, <2>1
  <2>2. CASE ~ Fails
    <3>1. (dwpt \/ r0 # 0) /\ Stays /\ BlockDone /\ UNCHANGED stage
      BY <1>6, <2>2 DEF Result
    <3>2. lost = 0 => core = "halted"
      BY <1>1, <1>2, <1>6
    <3>3. UNCHANGED <<tables, asked, stage, flash, core, r0, job, skipped, lost>>
      BY <1>1, <1>6, <3>1 DEF Stays
    <3>4. QED
      BY <1>1, <3>1, <3>2, <3>3, BlockDoneIs
  <2>3. QED
    BY <2>1, <2>2
<1>7. QED
  BY <1>3, <1>4, <1>5, <1>6 DEF Stopped

\* What is read of the file is data.
LEMMA FileWordIs ==
  ASSUME NEW k \in Nat
  PROVE  FileWord(k) \in Data
BY Sizes DEF FileWord, Data

\* The next words of the file are staged.
LEMMA UploadIs ==
  ASSUME IInv, Upload
  PROVE  IInv'
<1>1. CASE Fails /\ UNCHANGED <<target, lost>>
  BY <1>1, FailsQuietly
<1>2. CASE ~ (Fails /\ UNCHANGED <<target, lost>>)
  <2> DEFINE words(z) == [k \in 1 .. z |-> FileWord(sent + k)]
  <2>1. /\ pc = "write" /\ ofst < len /\ pc' = "staged"
        /\ stage' \in {words(BlockSize(fiWrite, Here))} \cup (IF op.mode = "noack" THEN {stage} ELSE {})
        /\ sent' = sent + BlockSize(fiWrite, Here)
        /\ rfi' = rfi /\ fiErase' = fiErase /\ fiWrite' = fiWrite /\ fiContig' = fiContig
        /\ op' = op /\ before' = before
        /\ addr' = addr /\ len' = len /\ ofst' = ofst
        /\ flash' = flash /\ core' = core /\ r0' = r0 /\ dwpt' = dwpt /\ job' = job
        /\ skipped' = skipped /\ lost' = lost
    BY <1>2 DEF Upload, Stays, tables, asked, target
  <2>2. AtWrite /\ AtWrite' /\ ~ AtErase'
    BY <2>1 DEF AtWrite, AtErase
  <2>3. /\ Size = BlockSize(fiWrite, Here) /\ Size \in Nat /\ Size # 0 /\ ofst + Size <= len
    BY <2>1, <2>2, AtBlock
  <2>4. op.mode # "erase" /\ sent = ofst /\ Reaches(fiWrite, addr, len, ofst)
    BY <2>1, <2>2 DEF IInv, Control, PlaceInv
  <2>5. Size' = Size
    BY <2>1, <2>2 DEF Size
  <2>6. sent' = ofst + Size /\ ofst + Size \in Nat /\ ofst + Size > 0
    BY <2>1, <2>3, <2>4, TypeParts
  <2>7. stage' = words(Size) \/ (stage' = stage /\ op.mode = "noack")
    BY <2>1, <2>3
  <2>8. words(Size) \in Seq(Data) /\ Len(words(Size)) = Size
    <3>1. \A k \in 1 .. Size : FileWord(sent + k) \in Data
      BY <2>3, FileWordIs, TypeParts
    <3>2. QED
      BY <2>3, <3>1
  <2>9. \A k \in 1 .. Size : words(Size)[k] = FileWord(ofst + k)
    BY <2>4
  <2> HIDE DEF words
  <2> USE DEF IInv, Control
  <2>10. TypeOK'
    BY <2>1, <2>6, <2>7, <2>8 DEF TypeOK
  <2>11. TablesInv' /\ StartInv'
    BY <2>1 DEF TablesInv, Regular, StartInv
  <2>12. PlaceInv'
    BY <2>1, <2>2, <2>4, <2>5, <2>6 DEF PlaceInv
  <2>13. JobInv' /\ OnlyItsRange'
    BY <2>1 DEF JobInv, OnlyItsRange, InRange, Cells
  <2>14. CoreInv'
    BY <2>1 DEF CoreInv
  <2>15. StageInv'
    BY <2>1, <2>5, <2>7, <2>8, <2>9 DEF StageInv, Acked
  <2>16. CellInv'
    <3> SUFFICES ASSUME Acked, NEW a \in Addr, InRange(a)
                 PROVE  CellRight(a)'
      BY <2>1 DEF CellInv, Acked, InRange
    <3>1. CellRight(a)
      BY <2>1 DEF CellInv
    <3>2. Due(a)' = Due(a) /\ Rest(a)' = Rest(a)
      BY <2>1 DEF Due, Rest
    <3>3. a \in Nat /\ addr <= a
      BY DEF Addr, InRange
    <3>4. a >= addr + ofst => flash[a] = Rest(a)
      BY <2>2, <2>4, <3>1 DEF CellRight
    <3>5. a < addr + ofst => flash[a] = Due(a)
      <4>1. a < addr + ofst => sent > 0
        BY <2>4, <3>3, TypeParts
      <4>2. QED
        BY <3>1, <4>1 DEF CellRight
    <3>6. a >= addr + (ofst + Size) => a >= addr + ofst
      BY <2>3, <3>3, TypeParts
    <3>7. addr + ofst <= a => a >= addr + ofst
      BY <3>3, TypeParts
    <3>8. ~ Finished'
      BY <2>1 DEF Finished
    <3>9. a < addr + ofst' => flash'[a] = IF sent' > 0 THEN Due(a)' ELSE Erased
      BY <2>1, <2>6, <3>2, <3>5
    <3>10. a >= addr' + sent' => flash'[a] = Rest(a)'
      BY <2>1, <2>6, <3>2, <3>4, <3>6
    <3>11. addr' + ofst' <= a => flash'[a] = Rest(a)'
      BY <2>1, <3>2, <3>4, <3>7
    <3>12. QED
      BY <2>1, <3>8, <3>9, <3>10, <3>11 DEF CellRight
  <2>17. QED
    BY <2>10, <2>11, <2>12, <2>13, <2>14, <2>15, <2>16
<1>3. QED
  BY <1>1, <1>2

-----------------------------------------------------------------------------
(* The beginning.                                                            *)

\* At first the script has no block to work on.
LEMMA NoCells == Cells(NoJob.block) = {}
<1>1. NoJob.block.base = 0 /\ NoJob.block.size = 0
  BY DEF NoJob
<1>2. \A a \in Addr : ~ (0 <= a /\ a < 0 + 0)
  BY DEF Addr
<1>3. QED
  BY <1>1, <1>2 DEF Cells

\* A range that the blocks fill is taken.
LEMMA RangeTaken ==
  ASSUME IInv, pc = "check", NEW a0 \in Nat, NEW n \in Nat, a0 + n <= Top, Reaches(Blocks, a0, n, 0),
         fiErase # NoTable, fiWrite # NoTable,
         addr' = a0, len' = n, pc' = FirstLoop, UNCHANGED <<ofst, sent>>,
         Stays, UNCHANGED <<stage, target, lost>>
  PROVE  IInv'
<1>1. /\ rfi' = rfi /\ fiErase' = fiErase /\ fiWrite' = fiWrite /\ fiContig' = fiContig
      /\ op' = op /\ before' = before /\ stage' = stage
      /\ ofst' = ofst /\ sent' = sent
      /\ flash' = flash /\ core' = core /\ r0' = r0 /\ dwpt' = dwpt /\ job' = job
      /\ skipped' = skipped /\ lost' = lost
  BY DEF Stays, tables, asked, target
<1>2. ofst = 0 /\ sent = 0 /\ flash = before /\ core = "halted" /\ job = NoJob
  BY DEF IInv, Control, StartInv
<1>3. \/ /\ op.mode = "noerase" /\ pc' = "write" /\ AtWrite' /\ ~ AtErase' /\ Reaches(fiWrite, a0, n, 0)
      \/ /\ op.mode # "noerase" /\ pc' = "erase" /\ ~ AtWrite' /\ AtErase'
         /\ Reaches(fiErase, a0, n, 0) /\ Reaches(fiWrite, a0, n, 0)
  <2>1. CASE op.mode = "noerase"
    BY <2>1 DEF Blocks, FirstLoop, AtWrite, AtErase
  <2>2. CASE op.mode # "noerase"
    <3>1. Reaches(fiErase, a0, n, 0)
      BY <2>2 DEF Blocks
    <3>2. MadeOf(fiErase, fiWrite)
      BY DEF IInv, Control, TablesInv, Regular, MadeOf
    <3>3. Reaches(fiWrite, a0, n, 0)
      BY <3>1, <3>2, TypeParts, ErasedIsWritten
    <3>4. QED
      BY <2>2, <3>1, <3>3 DEF FirstLoop, AtWrite, AtErase
  <2>3. QED
    BY <2>1, <2>2
<1> USE DEF IInv, Control
<1>4. TypeOK'
  <2>1. 0 \in 0 .. n
    OBVIOUS
  <2>2. QED
    BY <1>1, <1>2, <1>3, <2>1 DEF TypeOK
<1>5. TablesInv' /\ StartInv'
  BY <1>1, <1>3 DEF TablesInv, Regular, StartInv
<1>6. PlaceInv'
  BY <1>1, <1>2, <1>3 DEF PlaceInv
<1>7. JobInv'
  BY <1>1, <1>2, <1>3, NoCells DEF JobInv, Cells
<1>8. OnlyItsRange'
  BY <1>1, <1>2 DEF OnlyItsRange
<1>9. CoreInv'
  BY <1>1, <1>2, <1>3 DEF CoreInv
<1>10. StageInv'
  BY <1>3 DEF StageInv
<1>11. CellInv'
  <2> SUFFICES ASSUME NEW a \in Addr, InRange(a)'
               PROVE  CellRight(a)'
    BY <1>1 DEF CellInv
  <2>1. a \in Nat /\ a0 <= a
    BY DEF InRange, Addr
  <2>2. ~ (a < a0 + 0)
    BY <2>1
  <2>3. op.mode = "noerase" => Rest(a)' = flash[a]
    BY <1>1, <1>2 DEF Rest
  <2>4. ~ Unfinished' /\ ~ Finished' /\ ~ (0 > 0)
    BY <1>3 DEF Unfinished, Finished
  <2>5. QED
    BY <1>1, <1>2, <1>3, <2>2, <2>3, <2>4 DEF CellRight
<1>12. QED
  BY <1>4, <1>5, <1>6, <1>7, <1>8, <1>9, <1>10, <1>11

\* A range is taken, a longer one is, or none.
LEMMA CheckRangeIs ==
  ASSUME IInv, CheckRange
  PROVE  IInv'
<1> DEFINE area == LargestArea(fiContig)
           a == IF op.have THEN op.addr ELSE area.base
           n == IF op.mode = "erase" /\ ~ op.have THEN area.size
                ELSE IF op.rigid THEN op.len ELSE FileLen
<1>1. /\ pc = "check" /\ fiErase # NoTable /\ fiWrite # NoTable
      /\ Stays /\ UNCHANGED <<stage, target, lost>>
      /\ \/ /\ a + n <= Top /\ ValidRange(Blocks, a, n)
            /\ addr' = a /\ len' = n /\ pc' = FirstLoop
            /\ UNCHANGED <<ofst, sent>>
         \/ /\ a + n <= Top /\ SuggestedLen(Blocks, a, n) # 0
            /\ addr' = a /\ len' = SuggestedLen(Blocks, a, n) /\ pc' = FirstLoop
            /\ UNCHANGED <<ofst, sent>>
         \/ pc' = "failed" /\ UNCHANGED progress
  BY DEF CheckRange, HasTables
<1>2. Blocks \in Seq(Block) /\ BlocksFit(Blocks)
  BY TypeParts DEF Blocks, IInv, Control, TablesInv, Regular, BlocksFit
<1>3. area \in Block
  BY <1>1, LargestIs DEF IInv, Control, TypeOK, TablesInv, Regular, NoTable
<1>4. a \in Nat /\ n \in Nat
  <2>1. area.base \in Nat /\ area.size \in Nat
    BY <1>3 DEF Block
  <2>2. op.addr \in Nat /\ op.len \in Nat
    BY TypeParts DEF IInv, Control, TypeOK, Ops, Addr
  <2> HIDE DEF area
  <2>3. QED
    BY <2>1, <2>2, Sizes
<1> HIDE DEF a, n, area
<1>5. CASE /\ a + n <= Top /\ ValidRange(Blocks, a, n)
           /\ addr' = a /\ len' = n /\ pc' = FirstLoop
           /\ UNCHANGED <<ofst, sent>>
  <2>1. Reaches(Blocks, a, n, 0)
    BY <1>2, <1>4, <1>5, Accepted
  <2>2. QED
    BY <1>1, <1>4, <1>5, <2>1, RangeTaken
<1>6. CASE /\ a + n <= Top /\ SuggestedLen(Blocks, a, n) # 0
           /\ addr' = a /\ len' = SuggestedLen(Blocks, a, n) /\ pc' = FirstLoop
           /\ UNCHANGED <<ofst, sent>>
  <2> DEFINE s == SuggestedLen(Blocks, a, n)
  <2>1. s \in Nat /\ a + s <= Top /\ Reaches(Blocks, a, s, 0)
    BY <1>2, <1>4, <1>6, SuggestedReached
  <2>2. len' = s
    BY <1>6
  <2> HIDE DEF s
  <2>3. QED
    BY <1>1, <1>4, <1>6, <2>1, <2>2, RangeTaken
<1>7. CASE pc' = "failed" /\ UNCHANGED progress
  BY <1>1, <1>7, FailsQuietly DEF Fails
<1>8. QED
  BY <1>1, <1>5, <1>6, <1>7

\* The invariant holds at first.
LEMMA InitIs ==
  ASSUME Init, TablesInv
  PROVE  IInv
<1>1. pc = "check" /\ addr = 0 /\ len = 0 /\ ofst = 0 /\ sent = 0 /\ stage = NoStage
  BY DEF Init
<1>2. core = "halted" /\ r0 = 0 /\ dwpt = FALSE /\ job = NoJob /\ skipped = FALSE /\ lost = 0
  BY DEF Init
<1>3. rfi \in Layouts /\ before = flash
  BY DEF Init
<1>4. flash \in [Addr -> Cell]
  <2>1. PICK c \in {Old, Erased} : flash = [a \in Addr |-> c]
    BY DEF Init
  <2>2. c \in Cell
    BY DEF Cell
  <2>3. QED
    BY <2>1, <2>2
<1>5. op \in Ops
  <2>1. NoOp \in Ops
    <3>1. 0 \in Addr /\ 0 \in 0 .. Top
      BY Values, Sizes
    <3>2. QED
      BY <3>1 DEF NoOp, Ops, Modes
  <2>2. op = NoOp \/ op \in Ops
    BY DEF Init
  <2>3. QED
    BY <2>1, <2>2
<1>6. stage \in Seq(Data)
  BY <1>1 DEF NoStage
<1>7. job.block \in Block /\ job.write \in BOOLEAN
  BY <1>2 DEF NoJob, Block
<1>8. /\ {fiErase, fiWrite, fiContig} \subseteq Seq(Block)
      /\ addr \in Nat /\ len \in Nat /\ ofst \in 0 .. len /\ sent \in Nat
      /\ lost \in 0 .. MaxLost /\ r0 \in Addr
  BY <1>1, <1>2, Sizes, Values DEF TablesInv, Regular
<1>9. TypeOK
  BY <1>1, <1>2, <1>3, <1>4, <1>5, <1>6, <1>7, <1>8 DEF TypeOK
<1>10. StartInv /\ PlaceInv
  BY <1>1, <1>2, <1>3, Sizes DEF StartInv, PlaceInv, AtErase, AtWrite
<1>11. JobInv
  BY <1>1, <1>2, NoCells DEF JobInv
<1>12. OnlyItsRange
  BY <1>3 DEF OnlyItsRange
<1>13. CoreInv
  BY <1>1, <1>2 DEF CoreInv
<1>14. StageInv /\ CellInv
  BY <1>1 DEF StageInv, CellInv
<1>15. QED
  BY <1>9, <1>10, <1>11, <1>12, <1>13, <1>14 DEF IInv, Control

-----------------------------------------------------------------------------
(* Accepted and suggested ranges are the ones the blocks fill.               *)

\* Blocks in order and apart, none at the last address.
Tiling(t) ==
  /\ t \in Seq(Block) /\ BlocksFit(t) /\ Apart(t)
  /\ Top - 1 \notin CellsOf(t)

\* Every address from lo up to hi is in a block between the two.
Inside(t, lo, hi, x, i) ==
  /\ lo <= t[i].base /\ t[i].base <= x
  /\ x < t[i].base + t[i].size /\ t[i].base + t[i].size <= hi
FilledUp(t, lo, hi) == \A x \in Nat : lo <= x /\ x < hi => \E i \in DOMAIN t : Inside(t, lo, hi, x, i)

\* What the parts of a tiling are.
LEMMA TilingParts ==
  ASSUME NEW t, Tiling(t)
  PROVE  /\ t \in Seq(Block)
         /\ \A i \in DOMAIN t : t[i].base \in Nat /\ t[i].size \in Nat /\ t[i].base + t[i].size <= Top
         /\ \A i \in DOMAIN t : t[i].size > 0 => t[i].base + t[i].size < Top
         /\ \A i, j \in DOMAIN t : t[i].base = t[j].base => i = j
         /\ \A i, j \in DOMAIN t : \A x \in Addr : x \in Cells(t[i]) /\ x \in Cells(t[j]) => i = j
<1>1. t \in Seq(Block) /\ DOMAIN t = 1 .. Len(t) /\ Len(t) \in Nat
  BY LenProperties DEF Tiling
<1>2. ASSUME NEW i \in DOMAIN t
      PROVE  t[i].base \in Nat /\ t[i].size \in Nat /\ t[i].base + t[i].size <= Top
  <2>1. t[i] \in Block
    BY <1>1, ElementOfSeq
  <2>2. QED
    BY <2>1 DEF Block, Tiling, BlocksFit
<1>3. ASSUME NEW i \in DOMAIN t, t[i].size > 0
      PROVE  t[i].base + t[i].size < Top
  <2>1. t[i].base + t[i].size = Top => Top - 1 \in Cells(t[i])
    BY <1>2, <1>3, Sizes DEF Cells, Addr
  <2>2. Top - 1 \notin Cells(t[i])
    BY DEF Tiling, CellsOf
  <2>3. QED
    BY <1>2, <2>1, <2>2, Sizes
<1>4. ASSUME NEW i \in DOMAIN t, NEW j \in DOMAIN t, i < j
      PROVE  t[i].base < t[j].base /\ Cells(t[i]) \cap Cells(t[j]) = {}
  BY <1>4 DEF Tiling, Apart
<1>5. ASSUME NEW i \in DOMAIN t, NEW j \in DOMAIN t
      PROVE  i = j \/ i < j \/ j < i
  BY <1>1
<1>6. ASSUME NEW i \in DOMAIN t, NEW j \in DOMAIN t, i # j
      PROVE  t[i].base # t[j].base /\ Cells(t[i]) \cap Cells(t[j]) = {}
  <2>1. CASE i < j
    BY <1>2, <1>4, <2>1
  <2>2. CASE j < i
    BY <1>2, <1>4, <2>2
  <2>3. QED
    BY <1>5, <1>6, <2>1, <2>2
<1>7. QED
  BY <1>1, <1>2, <1>3, <1>6

\* A range is filled if every address of it is in a block within it.
LEMMA FilledIs ==
  ASSUME NEW t, Tiling(t), NEW a \in Nat, NEW n \in Nat
  PROVE  Filled(t, a, n) <=> FilledUp(t, a, a + n)
<1> DEFINE Span == a .. a + n - 1
           Within == {c \in {Cells(t[i]) : i \in DOMAIN t} : c \subseteq Span}
<1>1. \A i \in DOMAIN t : t[i].base \in Nat /\ t[i].size \in Nat /\ t[i].base + t[i].size <= Top
  BY TilingParts
<1>2. \A x : x \in Span <=> x \in Nat /\ a <= x /\ x < a + n
  OBVIOUS
<1> HIDE DEF Span
<1>3. ASSUME NEW i \in DOMAIN t, NEW x \in Nat, x \in Cells(t[i]), Cells(t[i]) \subseteq Span
      PROVE  Inside(t, a, a + n, x, i)
  <2>1. t[i].base <= x /\ x < t[i].base + t[i].size
    BY <1>3 DEF Cells
  <2>2. t[i].base \in Cells(t[i])
    BY <1>1, <2>1, Sizes DEF Cells, Addr
  <2>3. (t[i].base + t[i].size) - 1 \in Cells(t[i])
    BY <1>1, <2>1, Sizes DEF Cells, Addr
  <2>4. a <= t[i].base /\ (t[i].base + t[i].size) - 1 < a + n
    BY <1>2, <1>3, <2>2, <2>3
  <2>5. QED
    BY <1>1, <2>1, <2>4 DEF Inside
<1>4. ASSUME NEW i \in DOMAIN t, NEW x \in Nat, Inside(t, a, a + n, x, i)
      PROVE  x \in Cells(t[i]) /\ Cells(t[i]) \subseteq Span
  <2>1. x \in Cells(t[i])
    BY <1>1, <1>4, Sizes DEF Inside, Cells, Addr
  <2>2. \A y \in Cells(t[i]) : y \in Nat /\ a <= y /\ y < a + n
    BY <1>1, <1>4, Sizes DEF Inside, Cells, Addr
  <2>3. QED
    BY <1>2, <2>1, <2>2
<1>5. Filled(t, a, n) <=> \A x \in Span : x \in UNION Within
  <2>1. UNION Within \subseteq Span
    OBVIOUS
  <2>2. Filled(t, a, n) <=> Span = UNION Within
    BY DEF Filled, Span
  <2> HIDE DEF Within
  <2>3. QED
    BY <2>1, <2>2
<1>6. \A x \in Span : x \in UNION Within <=> \E i \in DOMAIN t : x \in Cells(t[i]) /\ Cells(t[i]) \subseteq Span
  OBVIOUS
<1> HIDE DEF Within
<1>7. \A x \in Span : x \in UNION Within <=> \E i \in DOMAIN t : Inside(t, a, a + n, x, i)
  BY <1>2, <1>3, <1>4, <1>6
<1>8. QED
  BY <1>2, <1>5, <1>7 DEF FilledUp

\* A walk through a tiling, and the size of the block it meets at g.
Walks(t, a, n, c, B) ==
  /\ Tiling(t) /\ a \in Nat /\ n \in Nat
  /\ B \in [Nat -> Nat] /\ IsWalk(c, B, n)
  /\ \A g \in Nat : B[g] = BlockSize(t, (a + g) % Top)

\* That block is one of the table, and ends below the last address.
LEMMA MetBlock ==
  ASSUME NEW t, NEW a, NEW n, NEW c, NEW B, Walks(t, a, n, c, B),
         NEW g \in Nat, a + g < Top, B[g] # 0
  PROVE  /\ B[g] \in Nat /\ (a + g) + B[g] < Top
         /\ \E i \in DOMAIN t : t[i].base = a + g /\ t[i].size = B[g]
<1>1. t \in Seq(Block) /\ a + g \in Nat /\ B[g] \in Nat
  BY TilingParts DEF Walks
<1>2. B[g] = BlockSize(t, a + g)
  BY <1>1, Below DEF Walks
<1>3. PICK i \in DOMAIN t : t[i].base = a + g /\ t[i].size = B[g]
  BY <1>1, <1>2, BlockFound
<1>4. t[i].size > 0
  BY <1>1, <1>3
<1>5. t[i].base + t[i].size < Top
  BY <1>4, TilingParts DEF Walks
<1>6. QED
  BY <1>1, <1>3, <1>5

\* A block that starts where the walk is, is met.
LEMMA BlockMet ==
  ASSUME NEW t, NEW a, NEW n, NEW c, NEW B, Walks(t, a, n, c, B),
         NEW g \in Nat, a + g < Top, NEW i \in DOMAIN t, t[i].base = a + g
  PROVE  B[g] = t[i].size
<1>1. t \in Seq(Block) /\ a + g \in Nat
  BY TilingParts DEF Walks
<1>2. B[g] = BlockSize(t, a + g)
  BY <1>1, Below DEF Walks
<1>3. \A j \in DOMAIN t : t[j].base = a + g <=> j = i
  BY TilingParts DEF Walks
<1>4. DOMAIN t = 1 .. Len(t) /\ Len(t) \in Nat
  BY <1>1, LenProperties
<1>5. \A k \in 1 .. i - 1 : t[k].base # a + g
  BY <1>3, <1>4
<1>6. i = CHOOSE j \in DOMAIN t : t[j].base = a + g /\ \A k \in 1 .. j - 1 : t[k].base # a + g
  BY <1>3, <1>5
<1>7. QED
  BY <1>2, <1>6 DEF BlockSize

\* What a walk has gone through from g on when it arrives is filled.
LEMMA WalkedIsFilled ==
  ASSUME NEW t, NEW a, NEW n, NEW c, NEW B, Walks(t, a, n, c, B)
  PROVE  \A g \in Nat : a + g < Top /\ c[g] # 0 => a + c[g] < Top /\ FilledUp(t, a + g, a + c[g])
<1> DEFINE T == {g \in Nat : a + g < Top /\ c[g] # 0 => a + c[g] < Top /\ FilledUp(t, a + g, a + c[g])}
<1>0. /\ \A x \in Nat : c[x] = IF x >= n THEN x ELSE IF B[x] = 0 THEN 0 ELSE c[x + B[x]]
      /\ B \in [Nat -> Nat] /\ a \in Nat /\ n \in Nat
  BY DEF Walks, IsWalk
<1>1. ASSUME NEW g \in Nat, g >= n
      PROVE  g \in T
  <2>1. c[g] = g
    BY <1>0, <1>1
  <2>2. FilledUp(t, a + g, a + g)
    BY <1>0 DEF FilledUp
  <2>3. QED
    BY <2>1, <2>2
<1>2. ASSUME NEW g \in Nat, g < n, B[g] = 0
      PROVE  g \in T
  BY <1>0, <1>2
<1>3. ASSUME NEW g \in Nat, g < n, B[g] # 0, g + B[g] \in T
      PROVE  g \in T
  <2> SUFFICES ASSUME a + g < Top, c[g] # 0
               PROVE  a + c[g] < Top /\ FilledUp(t, a + g, a + c[g])
    OBVIOUS
  <2>1. c[g] = c[g + B[g]]
    BY <1>0, <1>3
  <2>2. B[g] \in Nat /\ (a + g) + B[g] < Top
    BY <1>3, MetBlock
  <2>3. PICK i \in DOMAIN t : t[i].base = a + g /\ t[i].size = B[g]
    BY <1>3, MetBlock
  <2>4. g + B[g] \in Nat /\ a + (g + B[g]) < Top
    BY <1>0, <2>2
  <2>5. a + c[g] < Top /\ FilledUp(t, a + (g + B[g]), a + c[g])
    BY <1>3, <2>1, <2>4
  <2>6. c[g] \in Nat /\ c[g] >= g + B[g]
    BY <1>0, <2>1, <2>4, Arrives DEF Walks
  <2>7. ASSUME NEW x \in Nat, a + g <= x, x < a + c[g]
        PROVE  \E k \in DOMAIN t : Inside(t, a + g, a + c[g], x, k)
    <3>1. CASE x < a + (g + B[g])
      <4>1. Inside(t, a + g, a + c[g], x, i)
        BY <1>0, <2>2, <2>3, <2>6, <2>7, <3>1 DEF Inside
      <4>2. QED
        BY <4>1
    <3>2. CASE ~ (x < a + (g + B[g]))
      <4>1. PICK k \in DOMAIN t : Inside(t, a + (g + B[g]), a + c[g], x, k)
        BY <1>0, <2>2, <2>5, <2>7, <3>2 DEF FilledUp
      <4>2. t[k].base \in Nat
        BY TilingParts DEF Walks
      <4>3. Inside(t, a + g, a + c[g], x, k)
        BY <1>0, <2>2, <4>1, <4>2 DEF Inside
      <4>4. QED
        BY <4>3
    <3>3. QED
      BY <3>1, <3>2
  <2>8. QED
    BY <2>5, <2>7 DEF FilledUp
<1> HIDE DEF T
<1>4. Nat \subseteq T
  BY <1>0, <1>1, <1>2, <1>3, Along
<1>5. QED
  BY <1>4 DEF T

\* Where a range is filled a walk arrives, and goes no further than that.
LEMMA FilledIsWalked ==
  ASSUME NEW t, NEW a, NEW n, NEW c, NEW B, Walks(t, a, n, c, B), n > 0, NEW k \in Nat, k >= n
  PROVE  \A g \in Nat : a + g < Top /\ g <= k /\ FilledUp(t, a + g, a + k) => c[g] # 0 /\ c[g] <= k
<1> DEFINE T == {g \in Nat : a + g < Top /\ g <= k /\ FilledUp(t, a + g, a + k) => c[g] # 0 /\ c[g] <= k}
<1>0. /\ \A x \in Nat : c[x] = IF x >= n THEN x ELSE IF B[x] = 0 THEN 0 ELSE c[x + B[x]]
      /\ B \in [Nat -> Nat] /\ a \in Nat /\ n \in Nat
  BY DEF Walks, IsWalk
<1>f. ASSUME NEW g \in Nat, g < n, a + g < Top, FilledUp(t, a + g, a + k)
      PROVE  \E i \in DOMAIN t : /\ t[i].base = a + g /\ t[i].size > 0 /\ t[i].size \in Nat
                                 /\ t[i].size = B[g] /\ g + t[i].size <= k
  <2>1. a + g \in Nat /\ a + g < a + k
    BY <1>0, <1>f
  <2>2. PICK i \in DOMAIN t : Inside(t, a + g, a + k, a + g, i)
    BY <1>0, <1>f, <2>1 DEF FilledUp
  <2>3. t[i].base \in Nat /\ t[i].size \in Nat
    BY TilingParts DEF Walks
  <2>4. t[i].base = a + g /\ t[i].size > 0 /\ g + t[i].size <= k
    BY <1>0, <2>1, <2>2, <2>3 DEF Inside
  <2>5. t[i].size = B[g]
    BY <1>f, <2>4, BlockMet
  <2>6. QED
    BY <2>3, <2>4, <2>5
<1>1. \A g \in Nat : g >= n => g \in T
  BY <1>0
<1>2. ASSUME NEW g \in Nat, g < n, B[g] = 0
      PROVE  g \in T
  <2>1. a + g < Top => ~ FilledUp(t, a + g, a + k)
    BY <1>2, <1>f
  <2>2. QED
    BY <2>1
<1>3. ASSUME NEW g \in Nat, g < n, B[g] # 0, g + B[g] \in T
      PROVE  g \in T
  <2> SUFFICES ASSUME a + g < Top, g <= k, FilledUp(t, a + g, a + k)
               PROVE  c[g] # 0 /\ c[g] <= k
    OBVIOUS
  <2>1. c[g] = c[g + B[g]]
    BY <1>0, <1>3
  <2>2. PICK i \in DOMAIN t : /\ t[i].base = a + g /\ t[i].size > 0 /\ t[i].size \in Nat
                              /\ t[i].size = B[g] /\ g + t[i].size <= k
    BY <1>3, <1>f
  <2>3. B[g] \in Nat /\ (a + g) + B[g] < Top
    BY <1>3, MetBlock
  <2>4. g + B[g] \in Nat /\ a + (g + B[g]) < Top /\ g + B[g] <= k
    BY <1>0, <2>2, <2>3
  <2>5. ASSUME NEW x \in Nat, a + (g + B[g]) <= x, x < a + k
        PROVE  \E j \in DOMAIN t : Inside(t, a + (g + B[g]), a + k, x, j)
    <3>1. PICK j \in DOMAIN t : Inside(t, a + g, a + k, x, j)
      BY <1>0, <2>3, <2>5 DEF FilledUp
    <3>2. t[j].base \in Nat /\ t[j].size \in Nat /\ t[j].base + t[j].size <= Top
      BY TilingParts DEF Walks
    <3>3. j # i
      BY <1>0, <2>2, <2>3, <2>5, <3>1 DEF Inside
    <3>4. t[j].base \in Addr /\ t[j].base \in Cells(t[j])
      BY <3>1, <3>2, Sizes DEF Inside, Cells, Addr
    <3>5. t[j].base \notin Cells(t[i])
      BY <3>3, <3>4, TilingParts DEF Walks
    <3>6. ~ (t[j].base < a + (g + B[g]))
      <4>1. t[j].base >= t[i].base
        BY <2>2, <3>1 DEF Inside
      <4>2. ~ (t[j].base < t[i].base + t[i].size)
        BY <3>4, <3>5, <4>1 DEF Cells
      <4>3. t[i].base + t[i].size = a + (g + B[g])
        BY <1>0, <2>2, <2>3
      <4>4. QED
        BY <4>2, <4>3
    <3>7. Inside(t, a + (g + B[g]), a + k, x, j)
      BY <1>0, <2>3, <3>1, <3>2, <3>6 DEF Inside
    <3>8. QED
      BY <3>7
  <2>6. FilledUp(t, a + (g + B[g]), a + k)
    BY <2>5 DEF FilledUp
  <2>7. QED
    BY <1>3, <2>1, <2>4, <2>6
<1> HIDE DEF T
<1>4. Nat \subseteq T
  BY <1>0, <1>1, <1>2, <1>3, Along
<1>5. QED
  BY <1>4 DEF T

\* What Cover computes: nothing, or the shortest filled range that is long enough.
LEMMA CoverFills ==
  ASSUME NEW t, Tiling(t), NEW a \in Addr, NEW n \in Nat, n > 0
  PROVE  /\ Cover(t, a, n) # 0 => /\ Cover(t, a, n) \in n .. Top
                                  /\ Filled(t, a, Cover(t, a, n))
         /\ \A k \in Nat : k >= n /\ Filled(t, a, k) => Cover(t, a, n) # 0 /\ Cover(t, a, n) <= k
<1> DEFINE c == CoverFrom(t, a, n)
           B == Steps(t, a)
<1>1. a \in Nat /\ a < Top /\ t \in Seq(Block)
  BY Sizes DEF Addr, Tiling
<1>2. Walks(t, a, n, c, B)
  BY <1>1, CoverWalks, StepsNat DEF Walks
<1>3. Cover(t, a, n) = c[0]
  BY CoverIs
<1> HIDE DEF c, B
<1>4. a + 0 = a
  BY <1>1
<1>5. ASSUME c[0] # 0
      PROVE  c[0] \in n .. Top /\ Filled(t, a, c[0])
  <2>1. c[0] \in Nat /\ c[0] >= n
    BY <1>2, <1>5, Arrives DEF Walks
  <2>2. a + c[0] < Top /\ FilledUp(t, a, a + c[0])
    BY <1>1, <1>2, <1>4, <1>5, WalkedIsFilled
  <2>3. Filled(t, a, c[0])
    BY <1>1, <2>1, <2>2, FilledIs
  <2>4. QED
    BY <1>1, <2>1, <2>2, <2>3, Sizes
<1>6. ASSUME NEW k \in Nat, k >= n, Filled(t, a, k)
      PROVE  c[0] # 0 /\ c[0] <= k
  <2>1. FilledUp(t, a + 0, a + k)
    BY <1>1, <1>4, <1>6, FilledIs
  <2>2. a + 0 < Top /\ 0 <= k
    BY <1>1
  <2>3. QED
    BY <1>2, <1>6, <2>1, <2>2, FilledIsWalked
<1>7. QED
  BY <1>3, <1>5, <1>6

\* The answers about a range are right for such a table.
LEMMA RangeAnswers ==
  ASSUME NEW t, Tiling(t), NEW a \in Addr, NEW n \in 0 .. Top
  PROVE  LET longer == {k \in n .. Top : Filled(t, a, k)}
         IN /\ ValidRange(t, a, n) = Filled(t, a, n)
            /\ n > 0 => SuggestedLen(t, a, n) =
                 IF longer = {} THEN 0 ELSE CHOOSE k \in longer : \A j \in longer : k <= j
<1> DEFINE longer == {k \in n .. Top : Filled(t, a, k)}
<1>1. a \in Nat /\ n \in Nat
  BY Sizes DEF Addr
<1>2. ASSUME n = 0
      PROVE  ValidRange(t, a, n) /\ Filled(t, a, n)
  <2>1. FilledUp(t, a, a + n)
    BY <1>1, <1>2 DEF FilledUp
  <2>2. QED
    BY <1>1, <1>2, <2>1, FilledIs DEF ValidRange
<1>3. ASSUME n > 0
      PROVE  /\ ValidRange(t, a, n) <=> Filled(t, a, n)
             /\ SuggestedLen(t, a, n) =
                  IF longer = {} THEN 0 ELSE CHOOSE k \in longer : \A j \in longer : k <= j
  <2> DEFINE m == Cover(t, a, n)
  <2>1. m # 0 => m \in n .. Top /\ Filled(t, a, m)
    BY <1>1, <1>3, CoverFills
  <2>2. \A k \in Nat : k >= n /\ Filled(t, a, k) => m # 0 /\ m <= k
    BY <1>1, <1>3, CoverFills
  <2>3. ValidRange(t, a, n) <=> m = n
    BY <1>3 DEF ValidRange
  <2>4. SuggestedLen(t, a, n) = m
    BY DEF SuggestedLen
  <2> HIDE DEF m
  <2>5. ValidRange(t, a, n) <=> Filled(t, a, n)
    <3>1. m = n => Filled(t, a, n)
      BY <1>3, <2>1
    <3>2. Filled(t, a, n) => m = n
      BY <1>1, <2>1, <2>2, Sizes
    <3>3. QED
      BY <2>3, <3>1, <3>2
  <2>6. CASE m = 0
    <3>1. longer = {}
      BY <1>1, <2>2, <2>6, Sizes
    <3>2. QED
      BY <2>4, <2>5, <2>6, <3>1
  <2>7. CASE m # 0
    <3>1. m \in longer /\ longer \subseteq Nat
      BY <1>1, <2>1, <2>7, Sizes
    <3>2. \A j \in longer : m <= j
      BY <1>1, <2>2, Sizes
    <3> HIDE DEF longer
    <3>3. \A k \in longer : (\A j \in longer : k <= j) => k = m
      BY <3>1, <3>2
    <3>4. m = CHOOSE k \in longer : \A j \in longer : k <= j
      BY <3>1, <3>2, <3>3
    <3>5. QED
      BY <2>4, <2>5, <3>1, <3>4
  <2>8. QED
    BY <2>6, <2>7
<1>4. CASE n = 0
  <2>1. ValidRange(t, a, n) = Filled(t, a, n)
    BY <1>2, <1>4 DEF ValidRange, Filled
  <2>2. QED
    BY <1>4, <2>1
<1>5. CASE n # 0
  <2>1. n > 0
    BY <1>1, <1>5
  <2>2. ValidRange(t, a, n) <=> Filled(t, a, n)
    BY <1>3, <2>1
  <2>3. ValidRange(t, a, n) = Filled(t, a, n)
    BY <2>2 DEF ValidRange, Filled
  <2>4. QED
    BY <1>3, <2>1, <2>3
<1>6. QED
  BY <1>4, <1>5

\* A solution has values in V if what it says of x is in V whenever its values
\* below x are.
Closed(D, V, M, f) ==
  /\ M \in [D -> Nat] /\ f = [x \in D |-> f[x]]
  /\ \A x \in D : (\A y \in D : M[y] < M[x] => f[y] \in V) => f[x] \in V
LEMMA Typed ==
  ASSUME NEW D, NEW V, NEW M, NEW f, Closed(D, V, M, f)
  PROVE  f \in [D -> V]
<1> SUFFICES ASSUME M \in [D -> Nat], f = [x \in D |-> f[x]],
                    \A x \in D : (\A y \in D : M[y] < M[x] => f[y] \in V) => f[x] \in V,
                    NEW z \in D, f[z] \notin V
             PROVE  FALSE
  BY DEF Closed
<1> DEFINE Off == {x \in D : f[x] \notin V}
           S == {M[x] : x \in Off}
<1>1. z \in Off /\ \A x \in Off : M[x] \in Nat
  OBVIOUS
<1>2. S \subseteq Nat /\ S # {}
  <2> HIDE DEF Off
  <2>1. QED
    BY <1>1
<1>3. PICK k \in S : \A j \in S : ~ (j < k)
  <2> HIDE DEF S
  <2>1. QED
    BY <1>2, Smallest
<1>4. PICK x \in Off : k = M[x]
  OBVIOUS
<1>5. \A y \in D : M[y] < M[x] => f[y] \in V
  <2> SUFFICES ASSUME NEW y \in D, M[y] < M[x], f[y] \notin V
               PROVE  FALSE
    OBVIOUS
  <2>1. M[y] \in S
    OBVIOUS
  <2>2. QED
    BY <1>3, <1>4, <2>1
<1>6. QED
  BY <1>4, <1>5

-----------------------------------------------------------------------------
(* Sizes.                                                                    *)

\* Powers of two are numbers.
LEMMA PowersNat == PowerOfTwo \in [Nat -> Nat]
<1> DEFINE Is(f) == f = [n \in Nat |-> IF n = 0 THEN 1 ELSE 2 * f[n - 1]]
           M == [n \in Nat |-> n]
           B == [f \in [Nat -> Nat] |-> [n \in Nat |-> IF n = 0 THEN 1 ELSE 2 * f[n - 1]]]
<1>1. M \in [Nat -> Nat] /\ \A n \in Nat : M[n] = n
  OBVIOUS
<1>2. B \in [[Nat -> Nat] -> [Nat -> Nat]]
  <2>1. ASSUME NEW f \in [Nat -> Nat], NEW n \in Nat
        PROVE  (IF n = 0 THEN 1 ELSE 2 * f[n - 1]) \in Nat
    <3>1. CASE n = 0
      BY <3>1
    <3>2. CASE n # 0
      <4>1. n - 1 \in Nat
        BY <3>2
      <4>2. f[n - 1] \in Nat
        BY <4>1
      <4>3. 2 * f[n - 1] \in Nat
        BY <4>2
      <4>4. QED
        BY <3>2, <4>3
    <3>3. QED
      BY <3>1, <3>2
  <2>2. QED
    BY <2>1
<1>3. ASSUME NEW f \in [Nat -> Nat], NEW g \in [Nat -> Nat], NEW n \in Nat,
             \A y \in Nat : M[y] < M[n] => f[y] = g[y]
      PROVE  B[f][n] = B[g][n]
  <2>1. CASE n = 0
    BY <2>1
  <2>2. CASE n # 0
    <3>1. n - 1 \in Nat /\ n - 1 < n
      BY <2>2
    <3>2. f[n - 1] = g[n - 1]
      BY <1>1, <1>3, <3>1
    <3>3. QED
      BY <2>2, <3>2
  <2>3. QED
    BY <2>1, <2>2
<1>4. \E f : Is(f)
  <2>1. Solved(Nat, Nat, B)
    <3> HIDE DEF B, M
    <3>1. Recursive(Nat, Nat, M, B)
      BY <1>1, <1>2, <1>3 DEF Recursive
    <3>2. QED
      BY <3>1, Recursion
  <2>2. QED
    BY <2>1 DEF Solved
<1>5. PowerOfTwo = CHOOSE f : Is(f)
  BY DEF PowerOfTwo
<1>6. Is(PowerOfTwo)
  BY <1>4, <1>5, Zenon
<1> DEFINE p == PowerOfTwo
<1>7. p = [n \in Nat |-> p[n]] /\ p[0] = 1 /\ \A n \in Nat : n # 0 => p[n] = 2 * p[n - 1]
  BY <1>6
<1> HIDE DEF p
<1>8. ASSUME NEW n \in Nat, \A y \in Nat : M[y] < M[n] => p[y] \in Nat
      PROVE  p[n] \in Nat
  <2>1. CASE n = 0
    BY <1>7, <2>1
  <2>2. CASE n # 0
    <3>1. n - 1 \in Nat /\ n - 1 < n
      BY <2>2
    <3>2. p[n - 1] \in Nat
      BY <1>1, <1>8, <3>1
    <3>3. 2 * p[n - 1] \in Nat
      BY <3>2
    <3>4. QED
      BY <1>7, <2>2, <3>3
  <2>3. QED
    BY <2>1, <2>2
<1>9. p \in [Nat -> Nat]
  <2> HIDE DEF M
  <2>1. Closed(Nat, Nat, M, p)
    BY <1>1, <1>7, <1>8 DEF Closed
  <2>2. QED
    BY <2>1, Typed
<1>10. QED
  BY <1>9 DEF p

\* What an encoded size means is a number.
LEMMA SizesNat ==
  ASSUME NEW code \in Nat
  PROVE  BlockSizeDecode(code) \in Nat
<1>1. PowerOfTwo[code] \in Nat /\ PowerOfTwo[code % 32] \in Nat /\ code \div 32 \in Nat
  <2>1. code % 32 \in Nat /\ code \div 32 \in Nat
    OBVIOUS
  <2>2. QED
    BY <2>1, PowersNat
<1>2. (code \div 32) * PowerOfTwo[code % 32] \in Nat
  <2>1. \A x, y \in Nat : x * y \in Nat
    OBVIOUS
  <2>2. QED
    BY <1>1, <2>1
<1>3. QED
  BY <1>1, <1>2 DEF BlockSizeDecode

-----------------------------------------------------------------------------
(* Sorting.                                                                  *)

\* What a sequence of blocks is made of.
LEMMA SeqIs ==
  ASSUME NEW s \in Seq(Block)
  PROVE  /\ Len(s) \in Nat /\ DOMAIN s = 1 .. Len(s)
         /\ \A i \in DOMAIN s : s[i] \in Block /\ s[i].base \in Nat /\ s[i].size \in Nat
<1>1. Len(s) \in Nat /\ DOMAIN s = 1 .. Len(s)
  BY LenProperties
<1>2. \A i \in 1 .. Len(s) : s[i] \in Block
  BY ElementOfSeq
<1>3. QED
  BY <1>1, <1>2 DEF Block

\* Where a concatenation has what.
LEMMA ConcatAt ==
  ASSUME NEW s \in Seq(Block), NEW t \in Seq(Block)
  PROVE  /\ s \o t \in Seq(Block) /\ DOMAIN (s \o t) = 1 .. Len(s) + Len(t)
         /\ Len(s \o t) = Len(s) + Len(t)
         /\ \A i \in 1 .. Len(s) : (s \o t)[i] = s[i]
         /\ \A i \in 1 .. Len(t) : (s \o t)[Len(s) + i] = t[i]
<1>1. s \o t \in Seq(Block) /\ Len(s \o t) = Len(s) + Len(t)
  BY ConcatProperties
<1>2. DOMAIN (s \o t) = 1 .. Len(s) + Len(t)
  BY <1>1, SeqIs
<1>3. Len(s) \in Nat /\ Len(t) \in Nat
  BY SeqIs
<1>4. \A i \in 1 .. Len(s) + Len(t) : (s \o t)[i] = IF i <= Len(s) THEN s[i] ELSE t[i - Len(s)]
  BY ConcatProperties
<1>5. \A m, n \in Nat : /\ \A i \in 1 .. m : i \in 1 .. m + n /\ i <= m
                        /\ \A i \in 1 .. n : m + i \in 1 .. m + n /\ ~ (m + i <= m) /\ (m + i) - m = i
  OBVIOUS
<1>6. \A i \in 1 .. Len(s) : (s \o t)[i] = s[i]
  BY <1>3, <1>4, <1>5
<1>7. \A i \in 1 .. Len(t) : (s \o t)[Len(s) + i] = t[i]
  BY <1>3, <1>4, <1>5
<1>8. QED
  BY <1>1, <1>2, <1>6, <1>7

\* A place of a concatenation is in the first part or in the second.
LEMMA EitherPart ==
  ASSUME NEW s \in Seq(Block), NEW t \in Seq(Block), NEW i \in DOMAIN (s \o t)
  PROVE  \/ i \in DOMAIN s
         \/ i \notin DOMAIN s /\ i - Len(s) \in DOMAIN t /\ i = Len(s) + (i - Len(s))
<1>1. Len(s) \in Nat /\ Len(t) \in Nat /\ DOMAIN s = 1 .. Len(s) /\ DOMAIN t = 1 .. Len(t)
      /\ i \in 1 .. Len(s) + Len(t)
  BY SeqIs, ConcatAt
<1>2. \A m, n \in Nat : \A k \in 1 .. m + n :
        k \in 1 .. m \/ (k \notin 1 .. m /\ k - m \in 1 .. n /\ k = m + (k - m))
  OBVIOUS
<1>3. QED
  BY <1>1, <1>2

\* A sequence that has a first element.
LEMMA FirstAndRest ==
  ASSUME NEW s \in Seq(Block), s # <<>>
  PROVE  /\ s[1] \in Block /\ Tail(s) \in Seq(Block) /\ <<s[1]>> \in Seq(Block)
         /\ Len(<<s[1]>>) = 1 /\ <<s[1]>>[1] = s[1]
         /\ Len(s) \in Nat \ {0} /\ Len(Tail(s)) = Len(s) - 1
         /\ \A i \in DOMAIN Tail(s) : Tail(s)[i] = s[i + 1] /\ i + 1 \in DOMAIN s /\ i + 1 > 1
         /\ s = <<s[1]>> \o Tail(s)
<1>1. Len(s) \in Nat \ {0}
  BY EmptySeq
<1>2. DOMAIN s = 1 .. Len(s) /\ 1 \in DOMAIN s /\ s[1] \in Block
  BY <1>1, SeqIs
<1>3. /\ Tail(s) \in Seq(Block) /\ Len(Tail(s)) = Len(s) - 1
      /\ \A i \in 1 .. Len(Tail(s)) : Tail(s)[i] = s[i + 1]
  BY HeadTailProperties
<1>4. DOMAIN Tail(s) = 1 .. Len(Tail(s))
  BY <1>3, SeqIs
<1>5. \A i \in DOMAIN Tail(s) : Tail(s)[i] = s[i + 1] /\ i + 1 \in DOMAIN s /\ i + 1 > 1
  BY <1>1, <1>2, <1>3, <1>4
<1>6. <<s[1]>> \in Seq(Block) /\ Len(<<s[1]>>) = 1 /\ <<s[1]>>[1] = s[1]
  BY <1>2
<1>7. s = <<s[1]>> \o Tail(s)
  <2> DEFINE b == <<s[1]>>
             r == Tail(s)
  <2>1. b \o r \in Seq(Block) /\ Len(b \o r) = 1 + Len(r) /\ \A i \in 1 .. Len(r) : (b \o r)[1 + i] = r[i]
    BY <1>3, <1>6, ConcatAt
  <2>2. (b \o r)[1] = s[1]
    BY <1>3, <1>6, ConcatAt
  <2>3. Len(b \o r) = Len(s)
    BY <1>1, <1>3, <2>1
  <2>4. \A i \in 1 .. Len(s) : s[i] = (b \o r)[i]
    <3>1. ASSUME NEW i \in 1 .. Len(s), i # 1
          PROVE  s[i] = (b \o r)[i]
      <4>1. i - 1 \in 1 .. Len(r) /\ (i - 1) + 1 = i /\ 1 + (i - 1) = i
        BY <1>1, <1>3, <3>1
      <4>2. (b \o r)[1 + (i - 1)] = r[i - 1] /\ r[i - 1] = s[(i - 1) + 1]
        BY <1>3, <2>1, <4>1
      <4>3. QED
        BY <4>1, <4>2
    <3>2. QED
      BY <2>2, <3>1
  <2> HIDE DEF b, r
  <2>5. s = b \o r
    BY <2>1, <2>3, <2>4, SeqEqual
  <2>6. QED
    BY <2>5 DEF b, r
<1>8. QED
  BY <1>1, <1>2, <1>3, <1>5, <1>6, <1>7

\* A sequence has every element of another as often as that, wherever.
Into(s, t, f) == /\ f \in [DOMAIN s -> DOMAIN t]
                 /\ \A i, j \in DOMAIN s : f[i] = f[j] => i = j
                 /\ \A i \in DOMAIN s : s[i] = t[f[i]]
Embeds(s, t) == \E f : Into(s, t, f)
Same(s, t) == Embeds(s, t) /\ Embeds(t, s)

\* Being within is reflexive, and
LEMMA EmbedsItself ==
  ASSUME NEW s
  PROVE  Embeds(s, s)
<1>1. Into(s, s, [i \in DOMAIN s |-> i])
  BY DEF Into
<1>2. QED
  BY <1>1 DEF Embeds

\* transitive.
LEMMA EmbedsOther ==
  ASSUME NEW s, NEW t, NEW u, Embeds(s, t), Embeds(t, u)
  PROVE  Embeds(s, u)
<1>1. PICK f : Into(s, t, f)
  BY DEF Embeds
<1>2. PICK g : Into(t, u, g)
  BY DEF Embeds
<1>3. Into(s, u, [i \in DOMAIN s |-> g[f[i]]])
  BY <1>1, <1>2 DEF Into
<1>4. QED
  BY <1>3 DEF Embeds

\* What is within parts is within the whole.
LEMMA EmbedsParts ==
  ASSUME NEW s \in Seq(Block), NEW t \in Seq(Block), NEW u \in Seq(Block), NEW w \in Seq(Block),
         Embeds(s, u), Embeds(t, w)
  PROVE  Embeds(s \o t, u \o w)
<1>1. PICK f : Into(s, u, f)
  BY DEF Embeds
<1>2. PICK g : Into(t, w, g)
  BY DEF Embeds
<1> DEFINE h == [i \in DOMAIN (s \o t) |-> IF i \in DOMAIN s THEN f[i] ELSE Len(u) + g[i - Len(s)]]
<1>3. /\ Len(s) \in Nat /\ Len(t) \in Nat /\ Len(u) \in Nat /\ Len(w) \in Nat
      /\ DOMAIN s = 1 .. Len(s) /\ DOMAIN t = 1 .. Len(t)
      /\ DOMAIN u = 1 .. Len(u) /\ DOMAIN w = 1 .. Len(w)
      /\ DOMAIN (s \o t) = 1 .. Len(s) + Len(t) /\ DOMAIN (u \o w) = 1 .. Len(u) + Len(w)
  BY SeqIs, ConcatAt
<1>4. \A i \in DOMAIN (s \o t) : i \notin DOMAIN s => i - Len(s) \in DOMAIN t
  BY EitherPart
<1>5. \A i \in DOMAIN s : f[i] \in 1 .. Len(u)
  BY <1>1, <1>3 DEF Into
<1>6. \A i \in DOMAIN t : g[i] \in 1 .. Len(w)
  BY <1>2, <1>3 DEF Into
<1>7. h \in [DOMAIN (s \o t) -> DOMAIN (u \o w)]
  <2>1. ASSUME NEW i \in DOMAIN (s \o t)
        PROVE  h[i] \in 1 .. Len(u) + Len(w)
    <3>1. CASE i \in DOMAIN s
      <4>1. h[i] = f[i] /\ f[i] \in 1 .. Len(u)
        BY <1>5, <3>1
      <4> HIDE DEF h
      <4>2. QED
        BY <1>3, <4>1
    <3>2. CASE i \notin DOMAIN s
      <4>1. h[i] = Len(u) + g[i - Len(s)] /\ g[i - Len(s)] \in 1 .. Len(w)
        BY <1>4, <1>6, <3>2
      <4> HIDE DEF h
      <4>2. QED
        BY <1>3, <4>1
    <3>3. QED
      BY <3>1, <3>2
  <2>2. QED
    BY <1>3, <2>1
<1>8. ASSUME NEW i \in DOMAIN (s \o t), NEW j \in DOMAIN (s \o t), h[i] = h[j]
      PROVE  i = j
  <2>1. CASE i \in DOMAIN s /\ j \in DOMAIN s
    BY <1>1, <1>8, <2>1 DEF Into
  <2>2. CASE i \notin DOMAIN s /\ j \notin DOMAIN s
    <3>1. i - Len(s) \in DOMAIN t /\ j - Len(s) \in DOMAIN t
      BY <1>4, <2>2
    <3>2. g[i - Len(s)] \in Nat /\ g[j - Len(s)] \in Nat
      BY <1>6, <3>1
    <3>3. g[i - Len(s)] = g[j - Len(s)]
      BY <1>3, <1>8, <2>2, <3>2
    <3>4. i - Len(s) = j - Len(s)
      BY <1>2, <3>1, <3>3 DEF Into
    <3>5. QED
      BY <1>3, <3>4
  <2>3. CASE i \in DOMAIN s /\ j \notin DOMAIN s
    <3>1. h[i] \in 1 .. Len(u) /\ g[j - Len(s)] \in 1 .. Len(w) /\ h[j] = Len(u) + g[j - Len(s)]
      BY <1>4, <1>5, <1>6, <2>3
    <3>2. QED
      BY <1>3, <1>8, <3>1
  <2>4. CASE i \notin DOMAIN s /\ j \in DOMAIN s
    <3>1. h[j] \in 1 .. Len(u) /\ g[i - Len(s)] \in 1 .. Len(w) /\ h[i] = Len(u) + g[i - Len(s)]
      BY <1>4, <1>5, <1>6, <2>4
    <3>2. QED
      BY <1>3, <1>8, <3>1
  <2>5. QED
    BY <2>1, <2>2, <2>3, <2>4
<1>9. ASSUME NEW i \in DOMAIN (s \o t)
      PROVE  (s \o t)[i] = (u \o w)[h[i]]
  <2>1. CASE i \in DOMAIN s
    <3>1. h[i] = f[i] /\ f[i] \in 1 .. Len(u) /\ s[i] = u[f[i]]
      BY <1>1, <1>5, <2>1 DEF Into
    <3>2. (u \o w)[f[i]] = u[f[i]] /\ (s \o t)[i] = s[i]
      BY <1>3, <2>1, <3>1, ConcatAt
    <3>3. QED
      BY <3>1, <3>2
  <2>2. CASE i \notin DOMAIN s
    <3> DEFINE k == i - Len(s)
    <3>1. k \in DOMAIN t /\ i = Len(s) + k
      BY <2>2, EitherPart
    <3>2. h[i] = Len(u) + g[k] /\ g[k] \in 1 .. Len(w) /\ t[k] = w[g[k]]
      BY <1>2, <1>6, <2>2, <3>1 DEF Into
    <3> HIDE DEF h, k
    <3>3. (u \o w)[Len(u) + g[k]] = w[g[k]]
      BY <3>2, ConcatAt
    <3>4. (s \o t)[Len(s) + k] = t[k]
      BY <1>3, <3>1, ConcatAt
    <3>5. QED
      BY <3>1, <3>2, <3>3, <3>4
  <2>3. QED
    BY <2>1, <2>2
<1> HIDE DEF h
<1>10. Into(s \o t, u \o w, h)
  BY <1>7, <1>8, <1>9 DEF Into
<1>11. QED
  BY <1>10 DEF Embeds

\* Two parts change places.
LEMMA PartsSwap ==
  ASSUME NEW s \in Seq(Block), NEW t \in Seq(Block)
  PROVE  Embeds(s \o t, t \o s)
<1> DEFINE h == [i \in DOMAIN (s \o t) |-> IF i \in DOMAIN s THEN Len(t) + i ELSE i - Len(s)]
<1>1. /\ Len(s) \in Nat /\ Len(t) \in Nat /\ DOMAIN s = 1 .. Len(s) /\ DOMAIN t = 1 .. Len(t)
      /\ DOMAIN (s \o t) = 1 .. Len(s) + Len(t) /\ DOMAIN (t \o s) = 1 .. Len(t) + Len(s)
  BY SeqIs, ConcatAt
<1>2. \A i \in DOMAIN (s \o t) : i \notin DOMAIN s => i - Len(s) \in DOMAIN t
  BY EitherPart
<1>3. h \in [DOMAIN (s \o t) -> DOMAIN (t \o s)]
  <2>1. \A i \in DOMAIN (s \o t) : h[i] \in 1 .. Len(t) + Len(s)
    BY <1>1, <1>2
  <2>2. QED
    BY <1>1, <2>1
<1>4. \A i, j \in DOMAIN (s \o t) : h[i] = h[j] => i = j
  BY <1>1, <1>2
<1>5. ASSUME NEW i \in DOMAIN (s \o t)
      PROVE  (s \o t)[i] = (t \o s)[h[i]]
  <2>1. CASE i \in DOMAIN s
    <3>1. h[i] = Len(t) + i
      BY <2>1
    <3> HIDE DEF h
    <3>2. (t \o s)[Len(t) + i] = s[i] /\ (s \o t)[i] = s[i]
      BY <1>1, <2>1, ConcatAt
    <3>3. QED
      BY <3>1, <3>2
  <2>2. CASE i \notin DOMAIN s
    <3> DEFINE k == i - Len(s)
    <3>1. k \in DOMAIN t /\ i = Len(s) + k /\ h[i] = k
      BY <2>2, EitherPart
    <3> HIDE DEF h, k
    <3>2. (t \o s)[k] = t[k] /\ (s \o t)[Len(s) + k] = t[k]
      BY <1>1, <3>1, ConcatAt
    <3>3. QED
      BY <3>1, <3>2
  <2>3. QED
    BY <2>1, <2>2
<1> HIDE DEF h
<1>6. Into(s \o t, t \o s, h)
  BY <1>3, <1>4, <1>5 DEF Into
<1>7. QED
  BY <1>6 DEF Embeds

\* Having the same elements, and each as often, is an equivalence,
LEMMA SameIs ==
  ASSUME NEW s, NEW t, NEW u
  PROVE  /\ Same(s, s)
         /\ Same(s, t) => Same(t, s)
         /\ Same(s, t) /\ Same(t, u) => Same(s, u)
<1>1. Same(s, s)
  BY EmbedsItself DEF Same
<1>2. Same(s, t) => Same(t, s)
  BY DEF Same
<1>3. ASSUME Same(s, t), Same(t, u)
      PROVE  Same(s, u)
  <2>1. Embeds(s, t) /\ Embeds(t, u) /\ Embeds(t, s) /\ Embeds(u, t)
    BY <1>3 DEF Same
  <2>2. Embeds(s, u)
    BY <2>1, EmbedsOther
  <2>3. Embeds(u, s)
    BY <2>1, EmbedsOther
  <2>4. QED
    BY <2>2, <2>3 DEF Same
<1>4. QED
  BY <1>1, <1>2, <1>3

\* which concatenation preserves and which does not see an order of parts.
LEMMA SameParts ==
  ASSUME NEW s \in Seq(Block), NEW t \in Seq(Block), NEW u \in Seq(Block), NEW w \in Seq(Block)
  PROVE  /\ Same(s, u) /\ Same(t, w) => Same(s \o t, u \o w)
         /\ Same(s \o (t \o u), t \o (s \o u))
<1>1. Same(s, u) /\ Same(t, w) => Same(s \o t, u \o w)
  BY EmbedsParts DEF Same
<1>2. s \o (t \o u) = (s \o t) \o u /\ t \o (s \o u) = (t \o s) \o u
  <2>1. (s \o t) \o u = s \o (t \o u)
    BY ConcatAssociative
  <2>2. (t \o s) \o u = t \o (s \o u)
    BY ConcatAssociative
  <2>3. QED
    BY <2>1, <2>2
<1>3. s \o t \in Seq(Block) /\ t \o s \in Seq(Block)
  BY ConcatAt
<1>4. Embeds(s \o t, t \o s) /\ Embeds(t \o s, s \o t) /\ Embeds(u, u)
  BY PartsSwap, EmbedsItself
<1>5. Embeds((s \o t) \o u, (t \o s) \o u)
  BY <1>3, <1>4, EmbedsParts
<1>6. Embeds((t \o s) \o u, (s \o t) \o u)
  BY <1>3, <1>4, EmbedsParts
<1>7. QED
  BY <1>1, <1>2, <1>5, <1>6 DEF Same

\* What merging two halves is.
Halves == Seq(Block) \X Seq(Block)
MergedFrom(f, h) ==
  IF h[1] = <<>> \/ h[2] = <<>> THEN h[1] \o h[2]
  ELSE IF h[1][1].base < h[2][1].base THEN <<h[1][1]>> \o f[<<Tail(h[1]), h[2]>>]
  ELSE <<h[2][1]>> \o f[<<h[1], Tail(h[2])>>]
IsMerge(f) == f = [h \in Halves |-> MergedFrom(f, h)]
Together == [h \in Halves |-> Len(h[1]) + Len(h[2])]

\* The halves a merge goes on with are shorter together.
LEMMA LessTogether ==
  ASSUME NEW h \in Halves
  PROVE  /\ h[1] \in Seq(Block) /\ h[2] \in Seq(Block) /\ h = <<h[1], h[2]>> /\ Together[h] \in Nat
         /\ Together[h] = Len(h[1]) + Len(h[2])
         /\ h[1] # <<>> => /\ <<h[1][1]>> \in Seq(Block) /\ <<Tail(h[1]), h[2]>> \in Halves
                           /\ Together[<<Tail(h[1]), h[2]>>] < Together[h]
         /\ h[2] # <<>> => /\ <<h[2][1]>> \in Seq(Block) /\ <<h[1], Tail(h[2])>> \in Halves
                           /\ Together[<<h[1], Tail(h[2])>>] < Together[h]
<1>1. h[1] \in Seq(Block) /\ h[2] \in Seq(Block) /\ h = <<h[1], h[2]>>
  BY DEF Halves
<1>2. Len(h[1]) \in Nat /\ Len(h[2]) \in Nat
  BY <1>1, SeqIs
<1>3. \A s, t \in Seq(Block) : <<s, t>> \in Halves /\ Together[<<s, t>>] = Len(s) + Len(t)
  BY DEF Halves, Together
<1>4. Together[h] = Len(h[1]) + Len(h[2])
  BY <1>1, <1>3
<1>5. ASSUME h[1] # <<>>
      PROVE  /\ <<h[1][1]>> \in Seq(Block) /\ <<Tail(h[1]), h[2]>> \in Halves
             /\ Together[<<Tail(h[1]), h[2]>>] < Together[h]
  <2>1. <<h[1][1]>> \in Seq(Block) /\ Tail(h[1]) \in Seq(Block) /\ Len(Tail(h[1])) = Len(h[1]) - 1
    BY <1>1, <1>5, FirstAndRest
  <2>2. Together[<<Tail(h[1]), h[2]>>] = (Len(h[1]) - 1) + Len(h[2])
    BY <1>1, <1>3, <2>1
  <2>3. Together[<<Tail(h[1]), h[2]>>] < Together[h]
    <3> DEFINE x == Together[<<Tail(h[1]), h[2]>>]
               y == Together[h]
               a == Len(h[1])
               b == Len(h[2])
    <3>1. x = (a - 1) + b /\ y = a + b /\ a \in Nat /\ b \in Nat
      BY <1>2, <1>4, <2>2
    <3> HIDE DEF x, y, a, b
    <3>2. x < y
      BY <3>1
    <3>3. QED
      BY <3>2 DEF x, y
  <2>4. QED
    BY <1>1, <1>3, <2>1, <2>3
<1>6. ASSUME h[2] # <<>>
      PROVE  /\ <<h[2][1]>> \in Seq(Block) /\ <<h[1], Tail(h[2])>> \in Halves
             /\ Together[<<h[1], Tail(h[2])>>] < Together[h]
  <2>1. <<h[2][1]>> \in Seq(Block) /\ Tail(h[2]) \in Seq(Block) /\ Len(Tail(h[2])) = Len(h[2]) - 1
    BY <1>1, <1>6, FirstAndRest
  <2>2. Together[<<h[1], Tail(h[2])>>] = Len(h[1]) + (Len(h[2]) - 1)
    BY <1>1, <1>3, <2>1
  <2>3. Together[<<h[1], Tail(h[2])>>] < Together[h]
    <3> DEFINE x == Together[<<h[1], Tail(h[2])>>]
               y == Together[h]
               a == Len(h[1])
               b == Len(h[2])
    <3>1. x = a + (b - 1) /\ y = a + b /\ a \in Nat /\ b \in Nat
      BY <1>2, <1>4, <2>2
    <3> HIDE DEF x, y, a, b
    <3>2. x < y
      BY <3>1
    <3>3. QED
      BY <3>2 DEF x, y
  <2>4. QED
    BY <1>1, <1>3, <2>1, <2>3
<1>7. QED
  BY <1>1, <1>2, <1>4, <1>5, <1>6

\* The definition of Merged has a solution,
LEMMA MergeExists == \E f : IsMerge(f)
<1> DEFINE B == [f \in [Halves -> Seq(Block)] |-> [h \in Halves |-> MergedFrom(f, h)]]
<1>1. ASSUME NEW f \in [Halves -> Seq(Block)], NEW h \in Halves
      PROVE  MergedFrom(f, h) \in Seq(Block)
  <2>1. /\ h[1] \in Seq(Block) /\ h[2] \in Seq(Block)
        /\ h[1] # <<>> => <<h[1][1]>> \in Seq(Block) /\ f[<<Tail(h[1]), h[2]>>] \in Seq(Block)
        /\ h[2] # <<>> => <<h[2][1]>> \in Seq(Block) /\ f[<<h[1], Tail(h[2])>>] \in Seq(Block)
    BY LessTogether
  <2>2. \A s, t \in Seq(Block) : s \o t \in Seq(Block)
    BY ConcatAt
  <2>3. QED
    BY <2>1, <2>2 DEF MergedFrom
<1>2. B \in [[Halves -> Seq(Block)] -> [Halves -> Seq(Block)]]
  BY <1>1
<1>3. ASSUME NEW f \in [Halves -> Seq(Block)], NEW g \in [Halves -> Seq(Block)], NEW h \in Halves,
             \A y \in Halves : Together[y] < Together[h] => f[y] = g[y]
      PROVE  B[f][h] = B[g][h]
  <2>1. /\ h[1] # <<>> => f[<<Tail(h[1]), h[2]>>] = g[<<Tail(h[1]), h[2]>>]
        /\ h[2] # <<>> => f[<<h[1], Tail(h[2])>>] = g[<<h[1], Tail(h[2])>>]
    BY <1>3, LessTogether
  <2>2. MergedFrom(f, h) = MergedFrom(g, h)
    BY <2>1 DEF MergedFrom
  <2>3. QED
    BY <2>2
<1>4. Together \in [Halves -> Nat]
  <2>1. \A h \in Halves : Together[h] \in Nat
    BY LessTogether
  <2>2. QED
    BY <2>1 DEF Together
<1>5. <<>> \in Seq(Block)
  BY EmptySeq
<1>6. Solved(Halves, Seq(Block), B)
  <2> HIDE DEF B
  <2>1. Recursive(Halves, Seq(Block), Together, B)
    BY <1>2, <1>3, <1>4, <1>5 DEF Recursive
  <2>2. QED
    BY <2>1, Recursion
<1>7. PICK f \in [Halves -> Seq(Block)] : f = B[f]
  BY <1>6 DEF Solved
<1>8. f = [h \in Halves |-> MergedFrom(f, h)]
  BY <1>7
<1>9. QED
  BY <1>8 DEF IsMerge

\* so that Merged has it, and gives sequences.
LEMMA MergedIs ==
  /\ \A h \in Halves : Merged[h] = MergedFrom(Merged, h)
  /\ Merged \in [Halves -> Seq(Block)]
<1> DEFINE m == Merged
<1>1. m = CHOOSE f : IsMerge(f)
  BY DEF Merged, IsMerge, MergedFrom, Halves
<1>2. IsMerge(m)
  BY <1>1, MergeExists
<1> HIDE DEF m
<1>3. m = [h \in Halves |-> m[h]] /\ \A h \in Halves : m[h] = MergedFrom(m, h)
  BY <1>2 DEF IsMerge
<1>4. ASSUME NEW h \in Halves, \A y \in Halves : Together[y] < Together[h] => m[y] \in Seq(Block)
      PROVE  m[h] \in Seq(Block)
  <2>1. /\ h[1] \in Seq(Block) /\ h[2] \in Seq(Block)
        /\ h[1] # <<>> => <<h[1][1]>> \in Seq(Block) /\ m[<<Tail(h[1]), h[2]>>] \in Seq(Block)
        /\ h[2] # <<>> => <<h[2][1]>> \in Seq(Block) /\ m[<<h[1], Tail(h[2])>>] \in Seq(Block)
    BY <1>4, LessTogether
  <2>2. \A s, t \in Seq(Block) : s \o t \in Seq(Block)
    BY ConcatAt
  <2>3. MergedFrom(m, h) \in Seq(Block)
    BY <2>1, <2>2 DEF MergedFrom
  <2>4. QED
    BY <1>3, <2>3
<1>5. Together \in [Halves -> Nat]
  <2>1. \A h \in Halves : Together[h] \in Nat
    BY LessTogether
  <2>2. QED
    BY <2>1 DEF Together
<1>6. m \in [Halves -> Seq(Block)]
  <2>1. Closed(Halves, Seq(Block), Together, m)
    BY <1>3, <1>4, <1>5 DEF Closed
  <2>2. QED
    BY <2>1, Typed
<1>7. QED
  BY <1>3, <1>6 DEF m

\* Of what is wrong for some h there is an h below which nothing is wrong.
LEMMA LeastWrong ==
  ASSUME NEW D, NEW M \in [D -> Nat], NEW W, W \subseteq D, W # {}
  PROVE  \E x \in W : \A y \in D : M[y] < M[x] => y \notin W
<1> DEFINE S == {M[x] : x \in W}
<1>1. S \subseteq Nat /\ S # {}
  OBVIOUS
<1>2. PICK k \in S : \A j \in S : ~ (j < k)
  <2> HIDE DEF S
  <2>1. QED
    BY <1>1, Smallest
<1>3. PICK x \in W : k = M[x]
  OBVIOUS
<1>4. \A y \in D : M[y] < M[x] => y \notin W
  <2> SUFFICES ASSUME NEW y \in D, M[y] < M[x], y \in W
               PROVE  FALSE
    OBVIOUS
  <2>1. M[y] \in S
    OBVIOUS
  <2>2. QED
    BY <1>2, <1>3, <2>1
<1>5. QED
  BY <1>4

\* Blocks in the order of their bases.
Ordered(s) == \A i, j \in DOMAIN s : i < j => s[i].base <= s[j].base

\* A block before blocks that do not start below it.
LEMMA OrderedAfter ==
  ASSUME NEW b \in Block, NEW m \in Seq(Block), Ordered(m), \A i \in DOMAIN m : b.base <= m[i].base
  PROVE  Ordered(<<b>> \o m)
<1>1. <<b>> \in Seq(Block) /\ Len(<<b>>) = 1 /\ <<b>>[1] = b /\ DOMAIN <<b>> = 1 .. 1
  OBVIOUS
<1> DEFINE c == <<b>>
           w == c \o m
<1>2. c \in Seq(Block) /\ Len(c) = 1 /\ c[1] = b /\ DOMAIN c = 1 .. 1
  BY <1>1
<1> HIDE DEF c
<1>3. Len(m) \in Nat /\ DOMAIN m = 1 .. Len(m) /\ b.base \in Nat /\ \A i \in DOMAIN m : m[i].base \in Nat
  BY SeqIs DEF Block
<1>4. DOMAIN w = 1 .. 1 + Len(m)
  BY <1>2, ConcatAt
<1>5. w[1] = b
  BY <1>2, ConcatAt
<1>6. \A i \in 1 .. Len(m) : w[1 + i] = m[i]
  <2>1. \A i \in 1 .. Len(m) : w[Len(c) + i] = m[i]
    BY <1>2, ConcatAt
  <2>2. QED
    BY <1>2, <2>1
<1> HIDE DEF w
<1>7. ASSUME NEW i \in DOMAIN w, NEW j \in DOMAIN w, i < j
      PROVE  w[i].base <= w[j].base
  <2>1. j - 1 \in DOMAIN m /\ j = 1 + (j - 1)
    BY <1>3, <1>4, <1>7
  <2>2. w[j] = m[j - 1]
    BY <1>3, <1>6, <2>1
  <2>3. CASE i = 1
    BY <1>5, <2>1, <2>2, <2>3
  <2>4. CASE i # 1
    <3>1. i - 1 \in DOMAIN m /\ i = 1 + (i - 1) /\ i - 1 < j - 1
      BY <1>3, <1>4, <1>7, <2>4
    <3>2. w[i] = m[i - 1]
      BY <1>3, <1>6, <3>1
    <3>3. QED
      BY <2>1, <2>2, <3>1, <3>2 DEF Ordered
  <2>5. QED
    BY <2>3, <2>4
<1>8. Ordered(w)
  BY <1>7 DEF Ordered
<1>9. QED
  BY <1>8 DEF w, c

\* What is left of ordered blocks without the first.
LEMMA OrderedRest ==
  ASSUME NEW s \in Seq(Block), s # <<>>, Ordered(s)
  PROVE  Ordered(Tail(s)) /\ \A i \in DOMAIN s : s[1].base <= s[i].base
<1>1. \A i \in DOMAIN Tail(s) : Tail(s)[i] = s[i + 1] /\ i + 1 \in DOMAIN s
  BY FirstAndRest
<1>2. DOMAIN Tail(s) = 1 .. Len(Tail(s)) /\ Len(Tail(s)) \in Nat /\ DOMAIN s = 1 .. Len(s) /\ Len(s) \in Nat
  BY FirstAndRest, SeqIs
<1>3. Ordered(Tail(s))
  <2>1. \A i, j \in DOMAIN Tail(s) : i < j => i + 1 < j + 1
    BY <1>2
  <2>2. QED
    BY <1>1, <2>1 DEF Ordered
<1>4. \A i \in DOMAIN s : s[1].base <= s[i].base
  <2>1. 1 \in DOMAIN s /\ s[1].base \in Nat
    BY FirstAndRest, SeqIs
  <2>2. \A i \in DOMAIN s : i = 1 \/ 1 < i
    BY <1>2
  <2>3. QED
    BY <2>1, <2>2 DEF Ordered
<1>5. QED
  BY <1>3, <1>4

\* What is within two parts is of one of them.
LEMMA OfAPart ==
  ASSUME NEW m, NEW s \in Seq(Block), NEW t \in Seq(Block), Embeds(m, s \o t), NEW i \in DOMAIN m
  PROVE  (\E k \in DOMAIN s : m[i] = s[k]) \/ (\E k \in DOMAIN t : m[i] = t[k])
<1>1. PICK f : Into(m, s \o t, f)
  BY DEF Embeds
<1>2. f[i] \in DOMAIN (s \o t) /\ m[i] = (s \o t)[f[i]]
  BY <1>1 DEF Into
<1> DEFINE j == f[i]
<1>3. CASE j \in DOMAIN s
  <2>1. (s \o t)[j] = s[j]
    BY <1>3, ConcatAt, SeqIs
  <2>2. QED
    BY <1>2, <1>3, <2>1
<1>4. CASE j \notin DOMAIN s
  <2>1. j - Len(s) \in DOMAIN t /\ j = Len(s) + (j - Len(s))
    BY <1>2, <1>4, EitherPart
  <2>2. (s \o t)[Len(s) + (j - Len(s))] = t[j - Len(s)]
    BY <2>1, ConcatAt, SeqIs
  <2>3. QED
    BY <1>2, <2>1, <2>2
<1>5. QED
  BY <1>3, <1>4

\* Merging keeps the blocks of both halves, and in order if they are.
MergeRight(h) == /\ Same(Merged[h], h[1] \o h[2])
                 /\ Ordered(h[1]) /\ Ordered(h[2]) => Ordered(Merged[h])
LEMMA MergeSorts ==
  ASSUME NEW g \in Halves
  PROVE  MergeRight(g)
<1> SUFFICES ASSUME ~ MergeRight(g)
             PROVE  FALSE
  OBVIOUS
<1>1. PICK h \in Halves : ~ MergeRight(h) /\ \A y \in Halves : Together[y] < Together[h] => MergeRight(y)
  <2> DEFINE W == {x \in Halves : ~ MergeRight(x)}
  <2>1. W \subseteq Halves /\ W # {}
    OBVIOUS
  <2>2. Together \in [Halves -> Nat]
    <3>1. \A x \in Halves : Together[x] \in Nat
      BY LessTogether
    <3>2. QED
      BY <3>1 DEF Together
  <2>3. \A x \in W : x \in Halves /\ ~ MergeRight(x)
    OBVIOUS
  <2>4. \A x \in Halves : x \notin W => MergeRight(x)
    OBVIOUS
  <2> HIDE DEF W
  <2>5. \E x \in W : \A y \in Halves : Together[y] < Together[x] => y \notin W
    BY <2>1, <2>2, LeastWrong
  <2>6. QED
    BY <2>3, <2>4, <2>5
<1> DEFINE s == h[1]
           t == h[2]
<1>2. s \in Seq(Block) /\ t \in Seq(Block)
  BY LessTogether
<1>3. CASE s = <<>> \/ t = <<>>
  <2>1. Merged[h] = s \o t
    BY <1>3, MergedIs DEF MergedFrom
  <2>2. s \o t = s \/ s \o t = t
    BY <1>2, <1>3, ConcatEmptySeq
  <2>3. Same(s \o t, s \o t)
    BY SameIs
  <2> HIDE DEF s, t
  <2>4. QED
    BY <1>1, <2>1, <2>2, <2>3 DEF MergeRight, s, t
<1>4. CASE s # <<>> /\ t # <<>> /\ s[1].base < t[1].base
  <2> DEFINE x == <<Tail(s), t>>
             b == s[1]
             m == Merged[x]
  <2>1. x \in Halves /\ Together[x] < Together[h] /\ x[1] = Tail(s) /\ x[2] = t
    BY <1>4, LessTogether
  <2>2. Merged[h] = <<b>> \o m
    BY <1>4, MergedIs DEF MergedFrom
  <2>3. MergeRight(x) /\ m \in Seq(Block)
    BY <1>1, <2>1, MergedIs
  <2>4. Same(m, Tail(s) \o t) /\ (Ordered(Tail(s)) /\ Ordered(t) => Ordered(m))
    BY <2>1, <2>3 DEF MergeRight
  <2>5. /\ b \in Block /\ <<b>> \in Seq(Block) /\ Tail(s) \in Seq(Block) /\ s = <<b>> \o Tail(s)
        /\ t[1] \in Block
    BY <1>2, <1>4, FirstAndRest
  <2>6. ~ Same(Merged[h], s \o t) \/ (Ordered(s) /\ Ordered(t) /\ ~ Ordered(Merged[h]))
    BY <1>1 DEF MergeRight
  <2> HIDE DEF s, t, x, m, b
  <2>7. Same(<<b>> \o m, s \o t)
    <3>1. (<<b>> \o Tail(s)) \o t = <<b>> \o (Tail(s) \o t)
      BY <1>2, <2>5, ConcatAssociative
    <3>2. Tail(s) \o t \in Seq(Block)
      BY <1>2, <2>5, ConcatAt
    <3>3. Same(<<b>>, <<b>>)
      BY SameIs
    <3>4. Same(<<b>> \o m, <<b>> \o (Tail(s) \o t))
      BY <2>3, <2>4, <2>5, <3>2, <3>3, SameParts
    <3>5. QED
      BY <2>5, <3>1, <3>4
  <2>8. ASSUME Ordered(s), Ordered(t)
        PROVE  Ordered(<<b>> \o m)
    <3>1. Ordered(Tail(s)) /\ \A i \in DOMAIN s : s[1].base <= s[i].base
      BY <1>2, <1>4, <2>8, OrderedRest
    <3>2. \A i \in DOMAIN t : t[1].base <= t[i].base
      BY <1>2, <1>4, <2>8, OrderedRest
    <3>3. Embeds(m, Tail(s) \o t)
      BY <2>4 DEF Same
    <3>4. ASSUME NEW i \in DOMAIN m
          PROVE  b.base <= m[i].base
      <4>1. (\E k \in DOMAIN Tail(s) : m[i] = Tail(s)[k]) \/ (\E k \in DOMAIN t : m[i] = t[k])
        BY <1>2, <2>5, <3>3, OfAPart
      <4>2. CASE \E k \in DOMAIN Tail(s) : m[i] = Tail(s)[k]
        <5>1. PICK k \in DOMAIN Tail(s) : m[i] = Tail(s)[k]
          BY <4>2
        <5>2. m[i] = s[k + 1] /\ k + 1 \in DOMAIN s
          BY <1>2, <1>4, <5>1, FirstAndRest
        <5>3. QED
          BY <3>1, <5>2 DEF b
      <4>3. CASE \E k \in DOMAIN t : m[i] = t[k]
        <5>1. PICK k \in DOMAIN t : m[i] = t[k]
          BY <4>3
        <5>2. t[1].base <= t[k].base /\ t[1].base \in Nat /\ t[k].base \in Nat /\ b.base \in Nat
          BY <1>2, <2>5, <3>2, <5>1, SeqIs DEF Block
        <5>3. b.base < t[1].base
          BY <1>4 DEF b
        <5>4. QED
          BY <5>1, <5>2, <5>3
      <4>4. QED
        BY <4>1, <4>2, <4>3
    <3>5. QED
      BY <2>3, <2>4, <2>5, <2>8, <3>1, <3>4, OrderedAfter
  <2>9. QED
    BY <2>2, <2>6, <2>7, <2>8
<1>5. CASE s # <<>> /\ t # <<>> /\ ~ (s[1].base < t[1].base)
  <2> DEFINE x == <<s, Tail(t)>>
             b == t[1]
             m == Merged[x]
  <2>1. x \in Halves /\ Together[x] < Together[h] /\ x[1] = s /\ x[2] = Tail(t)
    BY <1>5, LessTogether
  <2>2. Merged[h] = <<b>> \o m
    BY <1>5, MergedIs DEF MergedFrom
  <2>3. MergeRight(x) /\ m \in Seq(Block)
    BY <1>1, <2>1, MergedIs
  <2>4. Same(m, s \o Tail(t)) /\ (Ordered(s) /\ Ordered(Tail(t)) => Ordered(m))
    BY <2>1, <2>3 DEF MergeRight
  <2>5. /\ b \in Block /\ <<b>> \in Seq(Block) /\ Tail(t) \in Seq(Block) /\ t = <<b>> \o Tail(t)
        /\ s[1] \in Block
    BY <1>2, <1>5, FirstAndRest
  <2>6. ~ Same(Merged[h], s \o t) \/ (Ordered(s) /\ Ordered(t) /\ ~ Ordered(Merged[h]))
    BY <1>1 DEF MergeRight
  <2> HIDE DEF s, t, x, m, b
  <2>7. Same(<<b>> \o m, s \o t)
    <3>1. s \o Tail(t) \in Seq(Block)
      BY <1>2, <2>5, ConcatAt
    <3>2. Same(<<b>>, <<b>>)
      BY SameIs
    <3>3. Same(<<b>> \o m, <<b>> \o (s \o Tail(t)))
      BY <2>3, <2>4, <2>5, <3>1, <3>2, SameParts
    <3>4. Same(<<b>> \o (s \o Tail(t)), s \o (<<b>> \o Tail(t)))
      BY <1>2, <2>5, SameParts
    <3>5. Same(<<b>> \o m, s \o (<<b>> \o Tail(t)))
      BY <3>3, <3>4, SameIs
    <3>6. QED
      BY <2>5, <3>5
  <2>8. ASSUME Ordered(s), Ordered(t)
        PROVE  Ordered(<<b>> \o m)
    <3>1. Ordered(Tail(t)) /\ \A i \in DOMAIN t : t[1].base <= t[i].base
      BY <1>2, <1>5, <2>8, OrderedRest
    <3>2. \A i \in DOMAIN s : s[1].base <= s[i].base
      BY <1>2, <1>5, <2>8, OrderedRest
    <3>3. Embeds(m, s \o Tail(t))
      BY <2>4 DEF Same
    <3>4. ASSUME NEW i \in DOMAIN m
          PROVE  b.base <= m[i].base
      <4>1. (\E k \in DOMAIN s : m[i] = s[k]) \/ (\E k \in DOMAIN Tail(t) : m[i] = Tail(t)[k])
        BY <1>2, <2>5, <3>3, OfAPart
      <4>2. CASE \E k \in DOMAIN Tail(t) : m[i] = Tail(t)[k]
        <5>1. PICK k \in DOMAIN Tail(t) : m[i] = Tail(t)[k]
          BY <4>2
        <5>2. m[i] = t[k + 1] /\ k + 1 \in DOMAIN t
          BY <1>2, <1>5, <5>1, FirstAndRest
        <5>3. QED
          BY <3>1, <5>2 DEF b
      <4>3. CASE \E k \in DOMAIN s : m[i] = s[k]
        <5>1. PICK k \in DOMAIN s : m[i] = s[k]
          BY <4>3
        <5>2. s[1].base <= s[k].base /\ s[1].base \in Nat /\ s[k].base \in Nat /\ b.base \in Nat
          BY <1>2, <2>5, <3>2, <5>1, SeqIs DEF Block
        <5>3. ~ (s[1].base < b.base)
          BY <1>5 DEF b
        <5>4. QED
          BY <5>1, <5>2, <5>3
      <4>4. QED
        BY <4>1, <4>2, <4>3
    <3>5. QED
      BY <2>3, <2>4, <2>5, <2>8, <3>1, <3>4, OrderedAfter
  <2>9. QED
    BY <2>2, <2>6, <2>7, <2>8
<1>6. QED
  BY <1>3, <1>4, <1>5

\* What sorting a sequence is.
SortedFrom(f, s) ==
  IF Len(s) <= 1 THEN s
  ELSE Merged[<<f[SubSeq(s, 1, Len(s) \div 2)], f[SubSeq(s, Len(s) \div 2 + 1, Len(s))]>>]
IsSort(f) == f = [s \in Seq(Block) |-> SortedFrom(f, s)]
Lengths == [s \in Seq(Block) |-> Len(s)]

\* A sequence of two blocks or more has two shorter halves.
LEMMA TwoHalves ==
  ASSUME NEW s \in Seq(Block), ~ (Len(s) <= 1)
  PROVE  LET a == SubSeq(s, 1, Len(s) \div 2)
             b == SubSeq(s, Len(s) \div 2 + 1, Len(s))
         IN /\ a \in Seq(Block) /\ b \in Seq(Block) /\ s = a \o b
            /\ Lengths[a] < Lengths[s] /\ Lengths[b] < Lengths[s]
<1> DEFINE n == Len(s)
           k == n \div 2
           a == SubSeq(s, 1, k)
           b == SubSeq(s, k + 1, n)
<1>1. n \in Nat /\ n > 1 /\ DOMAIN s = 1 .. n /\ \A i \in 1 .. n : s[i] \in Block
  BY SeqIs
<1> HIDE DEF n
<1>2. k \in Nat /\ 1 <= k /\ k < n
  BY <1>1
<1> HIDE DEF k
<1>3. /\ 1 \in Int /\ k \in Int /\ k + 1 \in Int /\ n \in Int
      /\ \A i \in 1 .. k : s[i] \in Block
      /\ \A i \in k + 1 .. n : s[i] \in Block
  BY <1>1, <1>2
<1>4. a \in Seq(Block) /\ Len(a) = IF 1 <= k THEN k - 1 + 1 ELSE 0
  BY <1>3, SubSeqProperties
<1>5. b \in Seq(Block) /\ Len(b) = IF k + 1 <= n THEN n - (k + 1) + 1 ELSE 0
  BY <1>3, SubSeqProperties
<1>6. Len(a) < n /\ Len(b) < n
  BY <1>1, <1>2, <1>4, <1>5
<1>7. s = a \o b
  <2>1. 1 \in 1 .. n + 1 /\ k \in 1 - 1 .. n /\ n \in k .. n
    BY <1>1, <1>2
  <2>2. a \o b = SubSeq(s, 1, n)
    BY <2>1, ConcatAdjacentSubSeq DEF n
  <2>3. SubSeq(s, 1, n) = s
    BY SubSeqFull DEF n
  <2>4. QED
    BY <2>2, <2>3
<1> HIDE DEF a, b
<1>8. Lengths[a] = Len(a) /\ Lengths[b] = Len(b) /\ Lengths[s] = n
  BY <1>4, <1>5 DEF Lengths, n
<1>9. QED
  BY <1>4, <1>5, <1>6, <1>7, <1>8 DEF a, b, k, n

\* The lengths are a measure.
LEMMA LengthsNat == Lengths \in [Seq(Block) -> Nat]
<1>1. \A s \in Seq(Block) : Len(s) \in Nat
  BY SeqIs
<1>2. QED
  BY <1>1 DEF Lengths

\* What sorted halves give is a sequence.
LEMMA SortedFromSeq ==
  ASSUME NEW f, NEW s \in Seq(Block), \A y \in Seq(Block) : Lengths[y] < Lengths[s] => f[y] \in Seq(Block)
  PROVE  SortedFrom(f, s) \in Seq(Block)
<1>1. CASE Len(s) <= 1
  BY <1>1 DEF SortedFrom
<1>2. CASE ~ (Len(s) <= 1)
  <2> DEFINE a == SubSeq(s, 1, Len(s) \div 2)
             b == SubSeq(s, Len(s) \div 2 + 1, Len(s))
  <2>1. /\ a \in Seq(Block) /\ b \in Seq(Block)
        /\ Lengths[a] < Lengths[s] /\ Lengths[b] < Lengths[s]
    BY <1>2, TwoHalves
  <2>2. SortedFrom(f, s) = Merged[<<f[a], f[b]>>]
    BY <1>2 DEF SortedFrom
  <2> HIDE DEF a, b
  <2>3. <<f[a], f[b]>> \in Halves
    BY <2>1 DEF Halves
  <2>4. QED
    BY <2>2, <2>3, MergedIs
<1>3. QED
  BY <1>1, <1>2

\* The definition of SortedChunks has a solution,
LEMMA SortExists == \E f : IsSort(f)
<1> DEFINE B == [f \in [Seq(Block) -> Seq(Block)] |-> [s \in Seq(Block) |-> SortedFrom(f, s)]]
<1>1. B \in [[Seq(Block) -> Seq(Block)] -> [Seq(Block) -> Seq(Block)]]
  <2>1. \A f \in [Seq(Block) -> Seq(Block)] : \A s \in Seq(Block) : SortedFrom(f, s) \in Seq(Block)
    BY SortedFromSeq
  <2>2. QED
    BY <2>1
<1>2. ASSUME NEW f \in [Seq(Block) -> Seq(Block)], NEW g \in [Seq(Block) -> Seq(Block)], NEW s \in Seq(Block),
             \A y \in Seq(Block) : Lengths[y] < Lengths[s] => f[y] = g[y]
      PROVE  B[f][s] = B[g][s]
  <2>1. SortedFrom(f, s) = SortedFrom(g, s)
    <3>1. CASE Len(s) <= 1
      BY <3>1 DEF SortedFrom
    <3>2. CASE ~ (Len(s) <= 1)
      <4> DEFINE a == SubSeq(s, 1, Len(s) \div 2)
                 b == SubSeq(s, Len(s) \div 2 + 1, Len(s))
      <4>1. /\ a \in Seq(Block) /\ b \in Seq(Block)
            /\ Lengths[a] < Lengths[s] /\ Lengths[b] < Lengths[s]
        BY <3>2, TwoHalves
      <4>2. SortedFrom(f, s) = Merged[<<f[a], f[b]>>] /\ SortedFrom(g, s) = Merged[<<g[a], g[b]>>]
        BY <3>2 DEF SortedFrom
      <4> HIDE DEF a, b
      <4>3. f[a] = g[a] /\ f[b] = g[b]
        BY <1>2, <4>1
      <4>4. QED
        BY <4>2, <4>3
    <3>3. QED
      BY <3>1, <3>2
  <2>2. QED
    BY <2>1
<1>3. <<>> \in Seq(Block)
  BY EmptySeq
<1>4. Solved(Seq(Block), Seq(Block), B)
  <2> HIDE DEF B
  <2>1. Recursive(Seq(Block), Seq(Block), Lengths, B)
    BY <1>1, <1>2, <1>3, LengthsNat DEF Recursive
  <2>2. QED
    BY <2>1, Recursion
<1>5. PICK f \in [Seq(Block) -> Seq(Block)] : f = B[f]
  BY <1>4 DEF Solved
<1>6. f = [s \in Seq(Block) |-> SortedFrom(f, s)]
  BY <1>5
<1>7. QED
  BY <1>6 DEF IsSort

\* so that SortedChunks has it, and gives sequences.
LEMMA SortedIs ==
  /\ \A s \in Seq(Block) : SortedChunks[s] = SortedFrom(SortedChunks, s)
  /\ SortedChunks \in [Seq(Block) -> Seq(Block)]
<1> DEFINE m == SortedChunks
<1>1. m = CHOOSE f : IsSort(f)
  BY DEF SortedChunks, IsSort, SortedFrom
<1>2. IsSort(m)
  BY <1>1, SortExists
<1> HIDE DEF m
<1>3. m = [s \in Seq(Block) |-> m[s]] /\ \A s \in Seq(Block) : m[s] = SortedFrom(m, s)
  BY <1>2 DEF IsSort
<1>4. ASSUME NEW s \in Seq(Block), \A y \in Seq(Block) : Lengths[y] < Lengths[s] => m[y] \in Seq(Block)
      PROVE  m[s] \in Seq(Block)
  <2>1. SortedFrom(m, s) \in Seq(Block)
    BY <1>4, SortedFromSeq
  <2>2. QED
    BY <1>3, <2>1
<1>5. m \in [Seq(Block) -> Seq(Block)]
  <2>1. Closed(Seq(Block), Seq(Block), Lengths, m)
    BY <1>3, <1>4, LengthsNat DEF Closed
  <2>2. QED
    BY <2>1, Typed
<1>6. QED
  BY <1>3, <1>5 DEF m

SortRight(s) == Same(SortedChunks[s], s) /\ Ordered(SortedChunks[s])

\* Sorting keeps every block, as often as it was there, and puts them in order,
\* for tables of every length (scriptSortChunksMergeSort).
THEOREM Sorts ==
  ASSUME NEW r \in Seq(Block)
  PROVE  SortRight(r)
<1> SUFFICES ASSUME ~ SortRight(r)
             PROVE  FALSE
  OBVIOUS
<1>1. PICK s \in Seq(Block) : ~ SortRight(s) /\ \A y \in Seq(Block) : Lengths[y] < Lengths[s] => SortRight(y)
  <2> DEFINE W == {x \in Seq(Block) : ~ SortRight(x)}
  <2>1. W \subseteq Seq(Block) /\ W # {}
    OBVIOUS
  <2>2. \A x \in W : x \in Seq(Block) /\ ~ SortRight(x)
    OBVIOUS
  <2>3. \A x \in Seq(Block) : x \notin W => SortRight(x)
    OBVIOUS
  <2> HIDE DEF W
  <2>4. \E x \in W : \A y \in Seq(Block) : Lengths[y] < Lengths[x] => y \notin W
    BY <2>1, LengthsNat, LeastWrong
  <2>5. QED
    BY <2>2, <2>3, <2>4
<1>2. CASE Len(s) <= 1
  <2>1. SortedChunks[s] = s
    BY <1>2, SortedIs DEF SortedFrom
  <2>2. Same(s, s)
    BY SameIs
  <2>3. Ordered(s)
    <3>1. DOMAIN s = 1 .. Len(s) /\ Len(s) \in Nat
      BY SeqIs
    <3>2. \A i, j \in DOMAIN s : ~ (i < j)
      BY <1>2, <3>1
    <3>3. QED
      BY <3>2 DEF Ordered
  <2>4. QED
    BY <1>1, <2>1, <2>2, <2>3 DEF SortRight
<1>3. CASE ~ (Len(s) <= 1)
  <2> DEFINE a == SubSeq(s, 1, Len(s) \div 2)
             b == SubSeq(s, Len(s) \div 2 + 1, Len(s))
             c == SortedChunks[a]
             d == SortedChunks[b]
             h == <<c, d>>
  <2>1. /\ a \in Seq(Block) /\ b \in Seq(Block) /\ s = a \o b
        /\ Lengths[a] < Lengths[s] /\ Lengths[b] < Lengths[s]
    BY <1>3, TwoHalves
  <2>2. SortedChunks[s] = Merged[h]
    BY <1>3, SortedIs DEF SortedFrom
  <2> HIDE DEF a, b
  <2>3. SortRight(a) /\ SortRight(b) /\ c \in Seq(Block) /\ d \in Seq(Block)
    BY <1>1, <2>1, SortedIs
  <2>4. Same(c, a) /\ Same(d, b) /\ Ordered(c) /\ Ordered(d)
    BY <2>3 DEF SortRight
  <2> HIDE DEF c, d
  <2>5. h \in Halves /\ h[1] = c /\ h[2] = d
    BY <2>3 DEF Halves
  <2> HIDE DEF h
  <2>6. MergeRight(h)
    BY <2>5, MergeSorts
  <2>7. Same(Merged[h], c \o d) /\ Ordered(Merged[h])
    BY <2>4, <2>5, <2>6 DEF MergeRight
  <2>8. Same(c \o d, a \o b)
    BY <2>1, <2>3, <2>4, SameParts
  <2>9. Same(Merged[h], a \o b)
    BY <2>7, <2>8, SameIs
  <2>10. QED
    BY <1>1, <2>1, <2>2, <2>7, <2>9 DEF SortRight
<1>4. QED
  BY <1>2, <1>3

-----------------------------------------------------------------------------
(* Pieces and their blocks.                                                  *)

\* A number, its quotient and the rest.
LEMMA Quotient ==
  ASSUME NEW x \in Int, NEW y \in Int, y > 0
  PROVE  /\ x \div y \in Int /\ x % y \in 0 .. y - 1
         /\ x = y * (x \div y) + (x % y)
<1>1. x \div y \in Int
  OBVIOUS
<1>2. x % y \in 0 .. y - 1
  OBVIOUS
<1>3. x = y * (x \div y) + (x % y)
  OBVIOUS
<1>4. QED
  BY <1>1, <1>2, <1>3

\* The quotient of numbers is a number.
LEMMA QuotientNat ==
  ASSUME NEW x \in Nat, NEW y \in Nat \ {0}
  PROVE  /\ x \div y \in Nat /\ x % y \in Nat /\ x % y < y
         /\ x = y * (x \div y) + (x % y)
<1>1. x \in Int /\ y \in Int /\ y > 0
  OBVIOUS
<1> DEFINE q == x \div y
           r == x % y
<1>2. q \in Int /\ r \in 0 .. y - 1 /\ x = y * q + r
  BY <1>1, Quotient
<1> HIDE DEF q, r
<1>3. q \in Nat
  <2> SUFFICES ASSUME ~ (q >= 0)
               PROVE  FALSE
    BY <1>2
  <2>1. q <= 0 - 1
    BY <1>2
  <2>2. \A i \in Int : i <= 0 - 1 => y * i <= 0 - y
    OBVIOUS
  <2>3. y * q \in Int /\ y * q <= 0 - y
    BY <1>2, <2>1, <2>2
  <2>4. QED
    BY <1>1, <1>2, <2>3
<1>4. QED
  BY <1>1, <1>2, <1>3 DEF q, r

\* Division without a rest.
LEMMA Divided ==
  ASSUME NEW x \in Nat, NEW y \in Nat, y # 0, x % y = 0
  PROVE  x \div y \in Nat /\ (x \div y) * y = x
<1>1. x \div y \in Nat /\ x = y * (x \div y) + (x % y)
  BY QuotientNat
<1> DEFINE q == x \div y
<1>2. q \in Nat /\ x = y * q
  BY <1>1
<1> HIDE DEF q
<1>3. \A m, n \in Nat : m * n = n * m
  OBVIOUS
<1>4. QED
  BY <1>2, <1>3 DEF q

\* What n times a size is, and what less than n times is.
LEMMA Times ==
  ASSUME NEW n \in Nat, NEW s \in Nat \ {0}
  PROVE  /\ n * s \in Nat /\ n <= n * s
         /\ \A k \in Nat : k < n => k * s \in Nat /\ (k + 1) * s = k * s + s /\ k * s + s <= n * s
<1>1. n * s \in Nat /\ n <= n * s
  OBVIOUS
<1>2. ASSUME NEW k \in Nat, k < n
      PROVE  k * s \in Nat /\ (k + 1) * s = k * s + s /\ k * s + s <= n * s
  <2>1. k * s \in Nat /\ (k + 1) * s = k * s + s
    OBVIOUS
  <2>2. \A x, y \in Nat : x <= y => x * s <= y * s
    OBVIOUS
  <2>3. k + 1 \in Nat /\ k + 1 <= n
    BY <1>2
  <2>4. QED
    BY <2>1, <2>2, <2>3
<1>3. QED
  BY <1>1, <1>2

\* Every number below n times a size is in one of n parts.
LEMMA InPart ==
  ASSUME NEW n \in Nat, NEW s \in Nat \ {0}, NEW a \in Nat, a < n * s
  PROVE  a \div s \in Nat /\ a \div s < n /\ (a \div s) * s <= a /\ a < (a \div s) * s + s
<1>1. a \div s \in Nat /\ a = s * (a \div s) + (a % s) /\ a % s \in Nat /\ a % s < s
  BY QuotientNat
<1> DEFINE q == a \div s
           r == a % s
<1>2. q \in Nat /\ r \in Nat /\ r < s /\ a = s * q + r
  BY <1>1
<1> HIDE DEF q, r
<1>3. s * q = q * s /\ q * s \in Nat
  BY <1>2
<1>4. q * s <= a /\ a < q * s + s
  BY <1>2, <1>3
<1>5. q < n
  <2> SUFFICES ASSUME n <= q
               PROVE  FALSE
    BY <1>2
  <2>1. \A x, y \in Nat : x <= y => x * s <= y * s
    OBVIOUS
  <2>2. n * s <= q * s /\ n * s \in Nat
    BY <1>2, <2>1
  <2>3. QED
    BY <1>3, <1>4, <2>2
<1>6. QED
  BY <1>2, <1>4, <1>5 DEF q

\* The number of times a piece is repeated.
Count(p) == IF p.numIdentical = 0 THEN Many ELSE p.numIdentical

\* A piece that is as it should be has a number of blocks that fill it and ends
\* below the last address.
LEMMA PlainIs ==
  ASSUME NEW p \in Raw, Plain(p), NEW forWrite \in BOOLEAN
  PROVE  /\ SizeOf(p, forWrite) \in Nat \ {0} /\ NumIdentical(p, forWrite) \in Nat \ {0}
         /\ Extent(p) = NumIdentical(p, forWrite) * SizeOf(p, forWrite)
         /\ Extent(p) \in Nat \ {0} /\ p.base \in Nat /\ p.base + Extent(p) <= Top - 1
<1> DEFINE e == EraseSize(p)
           w == WriteSize(p)
           s == SizeOf(p, forWrite)
           c == Count(p)
           x == Extent(p)
           n == c * (e \div s)
<1>1. /\ p.base \in Addr /\ p.eraseSz \in Nat /\ p.writeSz \in Nat /\ p.numIdentical \in Nat
      /\ Top \in Nat \ {0, 1} /\ Many \in Nat \ {0}
  BY TableAssumption DEF Raw
<1>2. p.base \in Nat /\ p.base <= Top - 1
  BY <1>1 DEF Addr
<1>3. e \in Nat /\ w \in Nat /\ w # 0 /\ e # 0 /\ e % w = 0
  BY <1>1, SizesNat DEF Plain, Sane, EraseSize, WriteSize
<1>4. c \in Nat \ {0} /\ x = c * e
  BY <1>1 DEF Count, Extent
<1>5. s \in Nat \ {0} /\ (s = e \/ s = w)
  BY <1>3 DEF SizeOf
<1>6. e % s = 0
  <2>1. e % e = 0
    BY <1>3
  <2>2. QED
    BY <1>3, <1>5, <2>1
<1>7. Top - 1 \notin p.base .. p.base + x - 1
  BY DEF Plain, Piece
<1>8. NumIdentical(p, forWrite) = n % Top
  BY DEF NumIdentical, Count
<1> HIDE DEF e, w, s, c, x
<1>9. x \in Nat \ {0}
  <2>1. \A i, j \in Nat \ {0} : i * j \in Nat \ {0}
    OBVIOUS
  <2>2. QED
    BY <1>3, <1>4, <2>1
<1>10. p.base + x <= Top - 1
  <2>1. Top - 1 \in Int /\ p.base + x - 1 \in Int
    BY <1>1, <1>2, <1>9
  <2>2. ~ (p.base <= Top - 1 /\ Top - 1 <= p.base + x - 1)
    BY <1>2, <1>7, <2>1
  <2>3. QED
    BY <1>1, <1>2, <1>9, <2>2
<1> DEFINE q == e \div s
<1>11. q \in Nat /\ q * s = e
  BY <1>3, <1>5, <1>6, Divided
<1> HIDE DEF q
<1>12. n * s = x /\ n \in Nat
  <2>1. \A i, j, k \in Nat : (i * j) * k = i * (j * k) /\ i * j \in Nat
    OBVIOUS
  <2>2. n = c * q
    BY DEF q
  <2>3. (c * q) * s = c * (q * s) /\ c * q \in Nat
    BY <1>4, <1>5, <1>11, <2>1
  <2>4. QED
    BY <1>4, <1>11, <2>2, <2>3
<1> HIDE DEF n
<1>13. n # 0 /\ n <= x
  <2>1. n <= n * s
    BY <1>5, <1>12, Times
  <2>2. 0 * s = 0
    BY <1>5
  <2>3. QED
    BY <1>9, <1>12, <2>1, <2>2
<1>14. n % Top = n
  BY <1>1, <1>2, <1>9, <1>10, <1>12, <1>13
<1>15. QED
  BY <1>2, <1>5, <1>8, <1>9, <1>10, <1>12, <1>13, <1>14 DEF s, x

\* What its blocks are.
LEMMA ExpandIs ==
  ASSUME NEW p \in Raw, Plain(p), NEW forWrite \in BOOLEAN
  PROVE  LET s == SizeOf(p, forWrite)
             n == NumIdentical(p, forWrite)
         IN /\ Expand(p, forWrite) \in Seq(Block)
            /\ DOMAIN Expand(p, forWrite) = 1 .. n
            /\ \A k \in 1 .. n : /\ Expand(p, forWrite)[k] = [base |-> p.base + (k - 1) * s, size |-> s]
                                 /\ (k - 1) * s \in Nat /\ (k - 1) * s + s <= n * s
<1> DEFINE s == SizeOf(p, forWrite)
           n == NumIdentical(p, forWrite)
           x == Expand(p, forWrite)
<1>1. s \in Nat \ {0} /\ n \in Nat \ {0} /\ p.base \in Nat /\ p.base + n * s <= Top - 1
  BY PlainIs
<1>2. x = [k \in 1 .. n |-> [base |-> (p.base + (k - 1) * s) % Top, size |-> s]]
  BY DEF Expand
<1> HIDE DEF s, n, x
<1>3. ASSUME NEW k \in 1 .. n
      PROVE  /\ (k - 1) * s \in Nat /\ (k - 1) * s + s <= n * s
             /\ (p.base + (k - 1) * s) % Top = p.base + (k - 1) * s
  <2>1. k - 1 \in Nat /\ k - 1 < n
    BY <1>1
  <2>2. (k - 1) * s \in Nat /\ (k - 1) * s + s <= n * s /\ n * s \in Nat
    BY <1>1, <2>1, Times
  <2> DEFINE y == (k - 1) * s
             z == n * s
  <2>3. y \in Nat /\ z \in Nat /\ y + s <= z /\ p.base + z <= Top - 1
    BY <1>1, <2>2
  <2> HIDE DEF y, z
  <2>4. (p.base + y) % Top = p.base + y
    BY <1>1, <2>3, TableAssumption
  <2>5. QED
    BY <2>2, <2>4 DEF y
<1>4. \A k \in 1 .. n : x[k] = [base |-> p.base + (k - 1) * s, size |-> s]
  BY <1>2, <1>3
<1>5. x \in Seq(Block)
  <2>1. \A k \in 1 .. n : x[k] \in Block
    <3>1. ASSUME NEW k \in 1 .. n
          PROVE  x[k] \in Block
      <4> DEFINE y == p.base + (k - 1) * s
      <4>1. y \in Nat
        BY <1>1, <1>3
      <4>2. x[k] = [base |-> y, size |-> s]
        BY <1>4
      <4> HIDE DEF y
      <4>3. [base |-> y, size |-> s] \in Block
        BY <1>1, <4>1 DEF Block
      <4>4. QED
        BY <4>2, <4>3
    <3>2. QED
      BY <3>1
  <2>2. x \in [1 .. n -> Block]
    BY <1>2, <2>1
  <2>3. QED
    BY <1>1, <2>2, SeqDef
<1>6. DOMAIN x = 1 .. n
  BY <1>2
<1>7. QED
  BY <1>3, <1>4, <1>5, <1>6 DEF s, n, x

\* A block below the last address, the addresses it has, and blocks that stay
\* clear of each other.
Sits(b) == b \in Block /\ b.size # 0 /\ b.base + b.size <= Top - 1
Holds(b, a) == b.base <= a /\ a < b.base + b.size
Clear(b, c) == b.base + b.size <= c.base \/ c.base + c.size <= b.base
Under(b, c) == c.base <= b.base /\ b.base + b.size <= c.base + c.size
Whole(p) == [base |-> p.base, size |-> Extent(p)]

\* Blocks that share no address are clear of each other.
LEMMA BlocksApart ==
  ASSUME NEW b, NEW c, Sits(b), Sits(c)
  PROVE  /\ Clear(b, c) <=> \A a \in Nat : ~ (Holds(b, a) /\ Holds(c, a))
         /\ Clear(b, c) <=> Cells(b) \cap Cells(c) = {}
         /\ Clear(b, c) <=> Clear(c, b)
         /\ \A a : a \in Cells(b) <=> a \in Nat /\ Holds(b, a)
         /\ b.base \in Nat /\ b.size \in Nat \ {0} /\ b.base + b.size <= Top - 1 /\ End(b) = b.base + b.size
<1>1. /\ b.base \in Nat /\ b.size \in Nat \ {0} /\ b.base + b.size <= Top - 1
      /\ c.base \in Nat /\ c.size \in Nat \ {0} /\ c.base + c.size <= Top - 1 /\ Top \in Nat \ {0, 1}
  BY TableAssumption DEF Sits, Block
<1>2. Clear(b, c) => \A a \in Nat : ~ (Holds(b, a) /\ Holds(c, a))
  BY <1>1 DEF Clear, Holds
<1>3. ASSUME ~ Clear(b, c)
      PROVE  \E a \in Nat : Holds(b, a) /\ Holds(c, a)
  <2>1. CASE b.base <= c.base
    <3>1. Holds(b, c.base) /\ Holds(c, c.base)
      BY <1>1, <1>3, <2>1 DEF Clear, Holds
    <3>2. QED
      BY <1>1, <3>1
  <2>2. CASE ~ (b.base <= c.base)
    <3>1. Holds(b, b.base) /\ Holds(c, b.base)
      BY <1>1, <1>3, <2>2 DEF Clear, Holds
    <3>2. QED
      BY <1>1, <3>1
  <2>3. QED
    BY <2>1, <2>2
<1>4. \A a : a \in Cells(b) <=> a \in Nat /\ Holds(b, a)
  BY <1>1 DEF Cells, Addr, Holds
<1>5. \A a : a \in Cells(c) <=> a \in Nat /\ Holds(c, a)
  BY <1>1 DEF Cells, Addr, Holds
<1>6. Clear(b, c) <=> Cells(b) \cap Cells(c) = {}
  <2>1. Cells(b) \cap Cells(c) = {} <=> \A a \in Nat : ~ (Holds(b, a) /\ Holds(c, a))
    BY <1>4, <1>5
  <2>2. QED
    BY <1>2, <1>3, <2>1
<1>7. Clear(b, c) <=> Clear(c, b)
  BY DEF Clear
<1>8. End(b) = b.base + b.size
  BY <1>1 DEF End
<1>9. QED
  BY <1>1, <1>2, <1>3, <1>4, <1>6, <1>7, <1>8

\* The addresses of a piece are those of one block.
LEMMA WholeIs ==
  ASSUME NEW p \in Raw, Plain(p)
  PROVE  Sits(Whole(p)) /\ Piece(p) = Cells(Whole(p))
<1> DEFINE b == Whole(p)
<1>1. p.base \in Nat /\ Extent(p) \in Nat \ {0} /\ p.base + Extent(p) <= Top - 1
  BY PlainIs
<1>2. b.base = p.base /\ b.size = Extent(p)
  BY DEF Whole
<1>3. b \in Block
  BY <1>1 DEF Whole, Block
<1> HIDE DEF b
<1>4. Sits(b)
  BY <1>1, <1>2, <1>3 DEF Sits
<1>5. \A a : a \in Cells(b) <=> a \in Nat /\ Holds(b, a)
  BY <1>4, BlocksApart
<1>6. \A a : a \in Piece(p) <=> a \in Nat /\ p.base <= a /\ a < p.base + Extent(p)
  BY <1>1 DEF Piece
<1>7. Piece(p) = Cells(b)
  BY <1>2, <1>5, <1>6 DEF Holds
<1>8. QED
  BY <1>4, <1>7 DEF b

\* The blocks of a piece fill it, one after the other.
Fills(x, b) ==
  /\ x \in Seq(Block) /\ x # <<>>
  /\ \A k \in DOMAIN x : Sits(x[k]) /\ Under(x[k], b)
  /\ \A j, k \in DOMAIN x : j # k => Clear(x[j], x[k])
  /\ \A a \in Nat : Holds(b, a) => \E k \in DOMAIN x : Holds(x[k], a)
LEMMA PieceFilled ==
  ASSUME NEW p \in Raw, Plain(p), NEW forWrite \in BOOLEAN
  PROVE  Fills(Expand(p, forWrite), Whole(p))
<1> DEFINE s == SizeOf(p, forWrite)
           n == NumIdentical(p, forWrite)
           x == Expand(p, forWrite)
           e == Extent(p)
           b == Whole(p)
<1>1. s \in Nat \ {0} /\ n \in Nat \ {0} /\ e = n * s /\ e \in Nat \ {0} /\ p.base \in Nat /\ p.base + e <= Top - 1
  BY PlainIs
<1>2. /\ x \in Seq(Block) /\ DOMAIN x = 1 .. n
      /\ \A k \in 1 .. n : x[k] = [base |-> p.base + (k - 1) * s, size |-> s]
      /\ \A k \in 1 .. n : (k - 1) * s \in Nat /\ (k - 1) * s + s <= n * s
  BY ExpandIs
<1>3. b.base = p.base /\ b.size = e
  BY DEF Whole
<1> HIDE DEF s, n, x, e, b
<1> DEFINE At(k) == (k - 1) * s
<1>4. \A k \in 1 .. n : x[k].base = p.base + At(k) /\ x[k].size = s /\ At(k) \in Nat /\ At(k) + s <= e
  <2>1. ASSUME NEW k \in 1 .. n
        PROVE  x[k].base = p.base + At(k) /\ x[k].size = s
    BY <1>2
  <2>2. ASSUME NEW k \in 1 .. n
        PROVE  At(k) \in Nat /\ At(k) + s <= e
    <3>1. (k - 1) * s \in Nat /\ (k - 1) * s + s <= n * s
      BY <1>2
    <3>2. QED
      BY <1>1, <3>1
  <2> HIDE DEF At
  <2>3. QED
    BY <2>1, <2>2
<1>5. \A j, k \in 1 .. n : j < k => At(j) + s <= At(k)
  <2>1. ASSUME NEW j \in 1 .. n, NEW k \in 1 .. n, j < k
        PROVE  At(j) + s <= At(k)
    <3>1. j - 1 \in Nat /\ k - 1 \in Nat /\ j - 1 < k - 1
      BY <1>1, <2>1
    <3>2. (j - 1) * s + s <= (k - 1) * s
      BY <1>1, <3>1, Times
    <3>3. QED
      BY <3>2
  <2>2. QED
    BY <2>1
<1>6. \A a \in Nat : a < e => \E k \in 1 .. n : At(k) <= a /\ a < At(k) + s
  <2>1. ASSUME NEW a \in Nat, a < e
        PROVE  \E k \in 1 .. n : At(k) <= a /\ a < At(k) + s
    <3> DEFINE q == a \div s
    <3>1. q \in Nat /\ q < n /\ q * s <= a /\ a < q * s + s
      BY <1>1, <2>1, InPart
    <3> HIDE DEF q
    <3>2. q + 1 \in 1 .. n /\ (q + 1) - 1 = q
      BY <1>1, <3>1
    <3>3. At(q + 1) = q * s
      BY <3>2
    <3>4. QED
      BY <3>1, <3>2, <3>3
  <2>2. QED
    BY <2>1
<1> HIDE DEF At
<1>7. ASSUME NEW k \in DOMAIN x
      PROVE  Sits(x[k]) /\ Under(x[k], b)
  <2>1. x[k] \in Block
    BY <1>2, SeqIs
  <2>2. x[k].base = p.base + At(k) /\ x[k].size = s /\ At(k) \in Nat /\ At(k) + s <= e
    BY <1>2, <1>4
  <2>3. Sits(x[k])
    BY <1>1, <2>1, <2>2, TableAssumption DEF Sits
  <2>4. Under(x[k], b)
    BY <1>1, <1>3, <2>2 DEF Under
  <2>5. QED
    BY <2>3, <2>4
<1>8. ASSUME NEW j \in DOMAIN x, NEW k \in DOMAIN x, j # k
      PROVE  Clear(x[j], x[k])
  <2>1. /\ x[j].base = p.base + At(j) /\ x[j].size = s /\ At(j) \in Nat
        /\ x[k].base = p.base + At(k) /\ x[k].size = s /\ At(k) \in Nat
    BY <1>2, <1>4
  <2>2. j < k \/ k < j
    BY <1>1, <1>2, <1>8
  <2>3. At(j) + s <= At(k) \/ At(k) + s <= At(j)
    BY <1>2, <1>5, <2>2
  <2>4. QED
    BY <1>1, <2>1, <2>3 DEF Clear
<1>9. ASSUME NEW a \in Nat, Holds(b, a)
      PROVE  \E k \in DOMAIN x : Holds(x[k], a)
  <2>1. a - p.base \in Nat /\ a - p.base < e
    BY <1>1, <1>3, <1>9 DEF Holds
  <2>2. PICK k \in 1 .. n : At(k) <= a - p.base /\ a - p.base < At(k) + s
    BY <1>6, <2>1
  <2>3. x[k].base = p.base + At(k) /\ x[k].size = s /\ At(k) \in Nat
    BY <1>4
  <2>4. Holds(x[k], a)
    BY <1>1, <2>2, <2>3 DEF Holds
  <2>5. QED
    BY <1>2, <2>4
<1>10. x # <<>>
  BY <1>1, <1>2
<1>11. QED
  BY <1>2, <1>7, <1>8, <1>9, <1>10 DEF Fills, x, b

\* A write block of a piece is within one of its erase blocks.
LEMMA PieceNests ==
  ASSUME NEW p \in Raw, Plain(p), NEW k \in DOMAIN Expand(p, TRUE)
  PROVE  \E j \in DOMAIN Expand(p, FALSE) : Under(Expand(p, TRUE)[k], Expand(p, FALSE)[j])
<1> DEFINE w == SizeOf(p, TRUE)
           m == NumIdentical(p, TRUE)
           e == SizeOf(p, FALSE)
           n == NumIdentical(p, FALSE)
           x == Expand(p, TRUE)
           y == Expand(p, FALSE)
           q == e \div w
<1>1. w \in Nat \ {0} /\ m \in Nat \ {0} /\ Extent(p) = m * w /\ p.base \in Nat
  BY PlainIs
<1>2. e \in Nat \ {0} /\ n \in Nat \ {0} /\ Extent(p) = n * e
  BY PlainIs
<1>3. /\ DOMAIN x = 1 .. m
      /\ \A i \in 1 .. m : x[i] = [base |-> p.base + (i - 1) * w, size |-> w]
  BY ExpandIs
<1>4. /\ DOMAIN y = 1 .. n
      /\ \A i \in 1 .. n : y[i] = [base |-> p.base + (i - 1) * e, size |-> e]
  BY ExpandIs
<1>5. q \in Nat /\ q * w = e
  <2>1. e % w = 0
    BY DEF Plain, SizeOf
  <2> HIDE DEF e, w
  <2>2. QED
    BY <1>1, <1>2, <2>1, Divided
<1> HIDE DEF w, m, e, n, x, y, q
<1>6. q # 0 /\ n * q = m
  <2>1. q # 0
    <3>1. 0 * w = 0
      BY <1>1
    <3>2. QED
      BY <1>2, <1>5, <3>1
  <2>2. n * q \in Nat /\ n * (q * w) = (n * q) * w
    <3>1. \A f, g, h \in Nat : (f * g) * h = f * (g * h) /\ f * g \in Nat
      OBVIOUS
    <3>2. QED
      BY <1>1, <1>2, <1>5, <3>1
  <2> DEFINE z == n * q
  <2>3. z \in Nat /\ z * w = m * w
    BY <1>1, <1>2, <1>5, <2>2
  <2> HIDE DEF z
  <2>4. \A f, g \in Nat : f < g => f * w < g * w
    <3>1. ASSUME NEW f \in Nat, NEW g \in Nat, f < g
          PROVE  f * w < g * w
      <4>1. f * w \in Nat /\ f * w + w <= g * w /\ g * w \in Nat
        BY <1>1, <3>1, Times
      <4>2. QED
        BY <1>1, <4>1
    <3>2. QED
      BY <3>1
  <2>5. z * w \in Nat
    BY <1>1, <2>3
  <2>6. ~ (z < m) /\ ~ (m < z)
    BY <1>1, <2>3, <2>4, <2>5
  <2>7. z = m
    BY <1>1, <2>3, <2>6
  <2>8. QED
    BY <2>1, <2>7 DEF z
<1> DEFINE i == (k - 1) \div q
           r == (k - 1) % q
<1>7. k \in 1 .. m
  BY <1>3 DEF x
<1>8. i \in Nat /\ i < n /\ i * q <= k - 1 /\ k - 1 < i * q + q
  <2>1. k - 1 \in Nat /\ k - 1 < n * q
    BY <1>1, <1>6, <1>7
  <2>2. QED
    BY <1>2, <1>5, <1>6, <2>1, InPart
<1> HIDE DEF i
<1>9. i * e <= (k - 1) * w /\ (k - 1) * w + w <= i * e + e /\ i * e \in Nat /\ (k - 1) * w \in Nat
  <2> DEFINE z == i * q
  <2>1. z \in Nat /\ z * w = i * e /\ (z + q) * w = i * e + e
    <3>1. \A f, g, h \in Nat : (f * g) * h = f * (g * h) /\ f * g \in Nat
      OBVIOUS
    <3>2. z \in Nat /\ z * w = i * e
      BY <1>1, <1>5, <1>8, <3>1
    <3> HIDE DEF z
    <3>3. (z + q) * w = z * w + q * w
      BY <1>1, <1>5, <3>2
    <3>4. QED
      BY <1>5, <3>2, <3>3
  <2> HIDE DEF z
  <2>2. z <= k - 1 /\ k - 1 < z + q /\ k - 1 \in Nat
    BY <1>1, <1>7, <1>8 DEF z
  <2>3. \A f, g \in Nat : f <= g => f * w <= g * w
    BY <1>1
  <2>4. z * w <= (k - 1) * w
    BY <2>1, <2>2, <2>3
  <2>5. (k - 1) * w + w <= (z + q) * w /\ (k - 1) * w \in Nat
    BY <1>1, <1>5, <2>1, <2>2, Times
  <2>6. i * e \in Nat
    BY <1>2, <1>8
  <2>7. QED
    BY <2>1, <2>4, <2>5, <2>6
<1>10. i + 1 \in 1 .. n /\ (i + 1) - 1 = i
  BY <1>2, <1>8
<1>11. y[i + 1].base = p.base + i * e /\ y[i + 1].size = e
  BY <1>4, <1>10
<1>12. x[k].base = p.base + (k - 1) * w /\ x[k].size = w
  BY <1>3, <1>7
<1>13. Under(x[k], y[i + 1])
  <2> DEFINE f == i * e
             g == (k - 1) * w
  <2>1. f \in Nat /\ g \in Nat /\ f <= g /\ g + w <= f + e
    BY <1>9
  <2>2. y[i + 1].base = p.base + f /\ x[k].base = p.base + g
    BY <1>11, <1>12
  <2> HIDE DEF f, g
  <2>3. QED
    BY <1>1, <1>2, <1>11, <1>12, <2>1, <2>2 DEF Under
<1>14. QED
  BY <1>4, <1>10, <1>13 DEF x, y

-----------------------------------------------------------------------------
(* The blocks of all pieces.                                                 *)

\* Blocks that are clear of each other.
Separate(s) == \A i, j \in DOMAIN s : i # j => Clear(s[i], s[j])

\* The blocks x of pieces, which stand for the spans b, are joined to s as far as
\* the i-th piece.
Filling(x, b, n) == \A j \in 1 .. n : Fills(x[j], b[j]) /\ Sits(b[j])
FromParts(x, s, i) == \A k \in DOMAIN s : \E j \in 1 .. i : \E m \in DOMAIN x[j] : s[k] = x[j][m]
ToWhole(x, s, i) == \A j \in 1 .. i : \A m \in DOMAIN x[j] : \E k \in DOMAIN s : s[k] = x[j][m]
WholesClear(b, i) == \A j, k \in 1 .. i : j < k => Clear(b[j], b[k])
Joined(x, b, s, i) ==
  /\ s \in Seq(Block) /\ FromParts(x, s, i) /\ ToWhole(x, s, i)
  /\ Separate(s) <=> WholesClear(b, i)

\* Two sequences of blocks are joined to blocks that are clear of each other if
\* those of each are and those of one are clear of those of the other.
LEMMA PartsSeparate ==
  ASSUME NEW s \in Seq(Block), NEW t \in Seq(Block)
  PROVE  Separate(s \o t) <=> /\ Separate(s) /\ Separate(t)
                              /\ \A i \in DOMAIN s : \A j \in DOMAIN t : Clear(s[i], t[j])
<1> DEFINE u == s \o t
           n == Len(s)
           m == Len(t)
<1>1. /\ n \in Nat /\ m \in Nat /\ DOMAIN s = 1 .. n /\ DOMAIN t = 1 .. m /\ DOMAIN u = 1 .. n + m
      /\ \A i \in 1 .. n : u[i] = s[i]
      /\ \A i \in 1 .. m : u[n + i] = t[i]
  BY SeqIs, ConcatAt
<1>2. \A i \in DOMAIN u : i \in DOMAIN s \/ (i - n \in DOMAIN t /\ i = n + (i - n))
  BY EitherPart
<1> HIDE DEF u, n, m
<1>3. /\ \A i \in 1 .. n : i \in 1 .. n + m
      /\ \A i \in 1 .. m : n + i \in 1 .. n + m
      /\ \A i \in 1 .. n : \A j \in 1 .. m : i # n + j
      /\ \A i, j \in 1 .. m : i # j => n + i # n + j
  BY <1>1
<1>4. ASSUME Separate(u)
      PROVE  /\ Separate(s) /\ Separate(t)
             /\ \A i \in DOMAIN s : \A j \in DOMAIN t : Clear(s[i], t[j])
  <2>1. \A i, j \in 1 .. n + m : i # j => Clear(u[i], u[j])
    BY <1>1, <1>4 DEF Separate
  <2>2. Separate(s)
    BY <1>1, <1>3, <2>1 DEF Separate
  <2>3. \A i, j \in 1 .. m : i # j => Clear(t[i], t[j])
    <3>1. ASSUME NEW i \in 1 .. m, NEW j \in 1 .. m, i # j
          PROVE  Clear(t[i], t[j])
      <4>1. Clear(u[n + i], u[n + j])
        BY <1>3, <2>1, <3>1
      <4>2. QED
        BY <1>1, <4>1
    <3>2. QED
      BY <3>1
  <2>4. \A i \in 1 .. n : \A j \in 1 .. m : Clear(s[i], t[j])
    <3>1. ASSUME NEW i \in 1 .. n, NEW j \in 1 .. m
          PROVE  Clear(s[i], t[j])
      <4>1. Clear(u[i], u[n + j])
        BY <1>3, <2>1
      <4>2. QED
        BY <1>1, <4>1
    <3>2. QED
      BY <3>1
  <2>5. QED
    BY <1>1, <2>2, <2>3, <2>4 DEF Separate
<1>5. ASSUME Separate(s), Separate(t), \A i \in DOMAIN s : \A j \in DOMAIN t : Clear(s[i], t[j])
      PROVE  Separate(u)
  <2>1. ASSUME NEW i \in DOMAIN u, NEW j \in DOMAIN u, i # j
        PROVE  Clear(u[i], u[j])
    <3>1. CASE i \in DOMAIN s /\ j \in DOMAIN s
      BY <1>1, <1>5, <2>1, <3>1 DEF Separate
    <3>2. CASE i \in DOMAIN s /\ j \notin DOMAIN s
      <4>1. j - n \in DOMAIN t /\ j = n + (j - n)
        BY <1>2, <3>2
      <4>2. u[i] = s[i] /\ u[n + (j - n)] = t[j - n]
        BY <1>1, <3>2, <4>1
      <4>3. Clear(s[i], t[j - n])
        BY <1>5, <3>2, <4>1
      <4>4. QED
        BY <4>1, <4>2, <4>3
    <3>3. CASE i \notin DOMAIN s /\ j \in DOMAIN s
      <4>1. i - n \in DOMAIN t /\ i = n + (i - n)
        BY <1>2, <3>3
      <4>2. u[j] = s[j] /\ u[n + (i - n)] = t[i - n]
        BY <1>1, <3>3, <4>1
      <4>3. Clear(s[j], t[i - n])
        BY <1>5, <3>3, <4>1
      <4>4. QED
        BY <4>1, <4>2, <4>3 DEF Clear
    <3>4. CASE i \notin DOMAIN s /\ j \notin DOMAIN s
      <4>1. i - n \in DOMAIN t /\ j - n \in DOMAIN t /\ i = n + (i - n) /\ j = n + (j - n)
        BY <1>2, <3>4
      <4>2. u[n + (i - n)] = t[i - n] /\ u[n + (j - n)] = t[j - n]
        BY <1>1, <4>1
      <4>3. i - n # j - n
        BY <2>1, <4>1
      <4>4. Clear(t[i - n], t[j - n])
        BY <1>5, <4>1, <4>3 DEF Separate
      <4>5. QED
        BY <4>1, <4>2, <4>4
    <3>5. QED
      BY <3>1, <3>2, <3>3, <3>4
  <2>2. QED
    BY <2>1 DEF Separate
<1>6. QED
  BY <1>4, <1>5 DEF u

\* The first piece's blocks,
LEMMA JoinsFirst ==
  ASSUME NEW x, NEW b, NEW n \in Nat, Filling(x, b, n), 1 \in 1 .. n
  PROVE  Joined(x, b, x[1], 1)
<1>1. Fills(x[1], b[1])
  BY DEF Filling
<1>2. 1 .. 1 = {1}
  OBVIOUS
<1>3. x[1] \in Seq(Block) /\ Separate(x[1])
  BY <1>1 DEF Fills, Separate
<1>4. FromParts(x, x[1], 1) /\ ToWhole(x, x[1], 1)
  BY <1>2 DEF FromParts, ToWhole
<1>5. WholesClear(b, 1)
  BY <1>2 DEF WholesClear
<1>6. QED
  BY <1>3, <1>4, <1>5 DEF Joined

\* and one piece's after the others'.
LEMMA JoinsNext ==
  ASSUME NEW x, NEW b, NEW n \in Nat, Filling(x, b, n),
         NEW i \in Nat, i + 1 \in 1 .. n, NEW s, Joined(x, b, s, i)
  PROVE  Joined(x, b, s \o x[i + 1], i + 1)
<1> DEFINE t == x[i + 1]
           c == b[i + 1]
           u == s \o t
<1>1. Fills(t, c) /\ Sits(c)
  BY DEF Filling
<1>2. s \in Seq(Block) /\ t \in Seq(Block)
  BY <1>1 DEF Joined, Fills
<1>3. FromParts(x, s, i) /\ ToWhole(x, s, i) /\ (Separate(s) <=> WholesClear(b, i))
  BY DEF Joined
<1>4. /\ \A j : j \in 1 .. i => j \in 1 .. i + 1 /\ j \in 1 .. n /\ j < i + 1
      /\ \A j : j \in 1 .. i + 1 => j \in 1 .. i \/ j = i + 1
      /\ i + 1 \in 1 .. i + 1
  OBVIOUS
<1>5. \A j \in 1 .. i : Fills(x[j], b[j]) /\ Sits(b[j])
  BY <1>4 DEF Filling
<1>6. /\ Len(s) \in Nat /\ Len(t) \in Nat /\ DOMAIN s = 1 .. Len(s) /\ DOMAIN t = 1 .. Len(t)
      /\ u \in Seq(Block) /\ DOMAIN u = 1 .. Len(s) + Len(t)
      /\ \A k \in 1 .. Len(s) : u[k] = s[k]
      /\ \A k \in 1 .. Len(t) : u[Len(s) + k] = t[k]
  BY <1>2, SeqIs, ConcatAt
<1>7. \A k \in DOMAIN u : k \in DOMAIN s \/ (k - Len(s) \in DOMAIN t /\ k = Len(s) + (k - Len(s)))
  BY <1>2, EitherPart
<1>8. /\ \A k \in 1 .. Len(s) : k \in DOMAIN u
      /\ \A k \in 1 .. Len(t) : Len(s) + k \in DOMAIN u
  BY <1>6
<1>9. Separate(u) <=> /\ Separate(s) /\ Separate(t)
                      /\ \A k \in DOMAIN s : \A m \in DOMAIN t : Clear(s[k], t[m])
  BY <1>2, PartsSeparate
<1> HIDE DEF u
<1>10. FromParts(x, u, i + 1)
  <2>1. ASSUME NEW k \in DOMAIN u
        PROVE  \E j \in 1 .. i + 1 : \E m \in DOMAIN x[j] : u[k] = x[j][m]
    <3>1. CASE k \in DOMAIN s
      <4>1. PICK j \in 1 .. i : \E m \in DOMAIN x[j] : s[k] = x[j][m]
        BY <1>3, <3>1 DEF FromParts
      <4>2. u[k] = s[k]
        BY <1>6, <3>1
      <4>3. QED
        BY <1>4, <4>1, <4>2
    <3>2. CASE k \notin DOMAIN s
      <4>1. k - Len(s) \in DOMAIN t /\ k = Len(s) + (k - Len(s))
        BY <1>7, <3>2
      <4>2. u[Len(s) + (k - Len(s))] = t[k - Len(s)]
        BY <1>6, <4>1
      <4>3. u[k] = x[i + 1][k - Len(s)] /\ k - Len(s) \in DOMAIN x[i + 1]
        BY <4>1, <4>2
      <4>4. QED
        BY <1>4, <4>3
    <3>3. QED
      BY <3>1, <3>2
  <2>2. QED
    BY <2>1 DEF FromParts
<1>11. ToWhole(x, u, i + 1)
  <2>1. ASSUME NEW j \in 1 .. i + 1, NEW m \in DOMAIN x[j]
        PROVE  \E k \in DOMAIN u : u[k] = x[j][m]
    <3>1. CASE j \in 1 .. i
      <4>1. PICK k \in DOMAIN s : s[k] = x[j][m]
        BY <1>3, <3>1 DEF ToWhole
      <4>2. u[k] = s[k] /\ k \in DOMAIN u
        BY <1>6, <1>8
      <4>3. QED
        BY <4>1, <4>2
    <3>2. CASE j = i + 1
      <4>1. m \in DOMAIN t
        BY <3>2
      <4>2. u[Len(s) + m] = t[m] /\ Len(s) + m \in DOMAIN u
        BY <1>6, <1>8, <4>1
      <4>3. QED
        BY <3>2, <4>2
    <3>3. QED
      BY <1>4, <3>1, <3>2
  <2>2. QED
    BY <2>1 DEF ToWhole
<1>12. Separate(t)
  BY <1>1 DEF Fills, Separate
<1>13. ASSUME WholesClear(b, i + 1)
       PROVE  /\ WholesClear(b, i)
              /\ \A k \in DOMAIN s : \A m \in DOMAIN t : Clear(s[k], t[m])
  <2>1. WholesClear(b, i)
    BY <1>4, <1>13 DEF WholesClear
  <2>2. ASSUME NEW k \in DOMAIN s, NEW m \in DOMAIN t
        PROVE  Clear(s[k], t[m])
    <3>1. PICK j \in 1 .. i : \E o \in DOMAIN x[j] : s[k] = x[j][o]
      BY <1>3 DEF FromParts
    <3>2. Sits(s[k]) /\ Under(s[k], b[j]) /\ Sits(b[j])
      BY <1>5, <3>1 DEF Fills
    <3>3. Sits(t[m]) /\ Under(t[m], c)
      BY <1>1 DEF Fills
    <3>4. Clear(b[j], c)
      BY <1>4, <1>13 DEF WholesClear
    <3>5. QED
      <4> DEFINE d == b[j]
                 e == s[k]
                 f == t[m]
      <4>1. Sits(d) /\ Sits(e) /\ Under(e, d) /\ Sits(f) /\ Under(f, c) /\ Clear(d, c)
        BY <3>2, <3>3, <3>4
      <4> HIDE DEF c, d, e, f
      <4>2. Clear(e, f)
        BY <1>1, <4>1 DEF Clear, Under, Sits, Block
      <4>3. QED
        BY <4>2 DEF e, f
  <2>3. QED
    BY <2>1, <2>2
<1>14. ASSUME WholesClear(b, i), \A k \in DOMAIN s : \A m \in DOMAIN t : Clear(s[k], t[m])
       PROVE  WholesClear(b, i + 1)
  <2>1. ASSUME NEW j \in 1 .. i
        PROVE  Clear(b[j], c)
    <3>1. Sits(b[j]) /\ Fills(x[j], b[j])
      BY <1>5
    <3>2. ASSUME NEW a \in Nat, Holds(b[j], a), Holds(c, a)
          PROVE  FALSE
      <4>1. PICK m \in DOMAIN t : Holds(t[m], a)
        BY <1>1, <3>2 DEF Fills
      <4>2. PICK o \in DOMAIN x[j] : Holds(x[j][o], a)
        BY <3>1, <3>2 DEF Fills
      <4>3. PICK k \in DOMAIN s : s[k] = x[j][o]
        BY <1>3 DEF ToWhole
      <4>4. Clear(s[k], t[m]) /\ Holds(s[k], a) /\ Holds(t[m], a) /\ Sits(s[k]) /\ Sits(t[m])
        BY <1>1, <1>14, <3>1, <4>1, <4>2, <4>3 DEF Fills
      <4>5. QED
        BY <4>4, BlocksApart
    <3>3. QED
      BY <1>1, <3>1, <3>2, BlocksApart
  <2>2. ASSUME NEW j \in 1 .. i + 1, NEW k \in 1 .. i + 1, j < k
        PROVE  Clear(b[j], b[k])
    <3>1. j \in 1 .. i
      BY <2>2
    <3>2. k \in 1 .. i \/ k = i + 1
      BY <1>4
    <3>3. QED
      BY <1>14, <2>1, <2>2, <3>1, <3>2 DEF WholesClear
  <2>3. QED
    BY <2>2 DEF WholesClear
<1>15. Separate(u) <=> WholesClear(b, i + 1)
  BY <1>3, <1>9, <1>12, <1>13, <1>14
<1>16. QED
  BY <1>6, <1>10, <1>11, <1>15 DEF Joined, u

\* Joining sequences one after the other.
JoinedFrom(f, x, i) == IF i = 1 THEN x[i] ELSE f[i - 1] \o x[i]
IsJoin(f, x) == f = [i \in 1 .. Len(x) |-> JoinedFrom(f, x, i)]
LEMMA JoinExists ==
  ASSUME NEW x \in Seq(Seq(Block)), x # <<>>
  PROVE  /\ Len(x) \in Nat \ {0} /\ DOMAIN x = 1 .. Len(x)
         /\ \A i \in 1 .. Len(x) : x[i] \in Seq(Block)
         /\ \E f : IsJoin(f, x)
<1> DEFINE n == Len(x)
           D == 1 .. n
           V == Seq(Block)
           M == [i \in D |-> i]
           B == [f \in [D -> V] |-> [i \in D |-> JoinedFrom(f, x, i)]]
<1>1. n \in Nat \ {0} /\ DOMAIN x = D
  BY EmptySeq, LenProperties
<1>2. \A i \in D : x[i] \in V
  BY <1>1, ElementOfSeq
<1> HIDE DEF n
<1>3. \A i \in D : i # 1 => i - 1 \in D /\ i - 1 < i
  BY <1>1
<1>4. M \in [D -> Nat] /\ \A i \in D : M[i] = i
  BY <1>1
<1> HIDE DEF V
<1>5. B \in [[D -> V] -> [D -> V]]
  <2>1. ASSUME NEW f \in [D -> V], NEW i \in D
        PROVE  JoinedFrom(f, x, i) \in V
    <3>1. CASE i = 1
      BY <1>2, <3>1 DEF JoinedFrom
    <3>2. CASE i # 1
      <4>1. f[i - 1] \in V /\ x[i] \in V
        BY <1>2, <1>3, <3>2
      <4>2. f[i - 1] \o x[i] \in V
        BY <4>1, ConcatAt DEF V
      <4>3. QED
        BY <3>2, <4>2 DEF JoinedFrom
    <3>3. QED
      BY <3>1, <3>2
  <2>2. QED
    BY <2>1
<1>6. ASSUME NEW f \in [D -> V], NEW g \in [D -> V], NEW i \in D,
             \A y \in D : M[y] < M[i] => f[y] = g[y]
      PROVE  B[f][i] = B[g][i]
  <2>1. i # 1 => f[i - 1] = g[i - 1]
    BY <1>3, <1>4, <1>6
  <2>2. JoinedFrom(f, x, i) = JoinedFrom(g, x, i)
    BY <2>1 DEF JoinedFrom
  <2>3. QED
    BY <2>2
<1>7. V # {}
  BY <1>1, <1>2
<1>8. Solved(D, V, B)
  <2> HIDE DEF B, M, D
  <2>1. Recursive(D, V, M, B)
    BY <1>4, <1>5, <1>6, <1>7 DEF Recursive
  <2>2. QED
    BY <2>1, Recursion
<1>9. \E f : IsJoin(f, x)
  BY <1>8 DEF Solved, IsJoin, n
<1>10. QED
  BY <1>1, <1>2, <1>9 DEF n, V

\* The blocks of all pieces are joined to one sequence.
LEMMA AllJoined ==
  ASSUME NEW x \in Seq(Seq(Block)), x # <<>>, NEW b, Filling(x, b, Len(x))
  PROVE  Joined(x, b, FlattenSeq(x), Len(x))
<1>1. /\ Len(x) \in Nat \ {0} /\ DOMAIN x = 1 .. Len(x)
      /\ \A i \in 1 .. Len(x) : x[i] \in Seq(Block)
      /\ \E f : IsJoin(f, x)
  BY JoinExists
<1> DEFINE f == CHOOSE g : IsJoin(g, x)
<1>2. IsJoin(f, x)
  BY <1>1, Zenon
<1>3. FlattenSeq(x) = f[Len(x)]
  <2>1. Len(x) # 0
    BY <1>1
  <2>2. QED
    BY <2>1 DEF FlattenSeq, IsJoin, JoinedFrom
<1> HIDE DEF f
<1>4. \A i \in 1 .. Len(x) : f[i] = JoinedFrom(f, x, i)
  BY <1>2 DEF IsJoin
<1> DEFINE n == Len(x)
           T == {i \in Nat : i \in 1 .. n => Joined(x, b, f[i], i)}
<1> HIDE DEF n
<1>5. 0 \in T
  OBVIOUS
<1>6. ASSUME NEW i \in Nat, i \in T
      PROVE  i + 1 \in T
  <2> SUFFICES ASSUME i + 1 \in 1 .. n
               PROVE  Joined(x, b, f[i + 1], i + 1)
    OBVIOUS
  <2>1. n \in Nat /\ Filling(x, b, n)
    BY <1>1 DEF n
  <2>2. f[i + 1] = JoinedFrom(f, x, i + 1)
    BY <1>4 DEF n
  <2>3. CASE i = 0
    <3>1. i + 1 = 1 /\ 1 \in 1 .. n
      BY <2>3
    <3>2. f[i + 1] = x[1]
      BY <2>2, <3>1 DEF JoinedFrom
    <3>3. Joined(x, b, x[1], 1)
      BY <2>1, <3>1, JoinsFirst
    <3>4. QED
      BY <3>1, <3>2, <3>3
  <2>4. CASE i # 0
    <3>1. i \in 1 .. n /\ i + 1 # 1 /\ (i + 1) - 1 = i
      BY <2>1, <2>4
    <3>2. Joined(x, b, f[i], i)
      BY <1>6, <3>1
    <3>3. f[i + 1] = f[i] \o x[i + 1]
      BY <2>2, <3>1 DEF JoinedFrom
    <3>4. Joined(x, b, f[i] \o x[i + 1], i + 1)
      BY <2>1, <3>2, JoinsNext
    <3>5. QED
      BY <3>3, <3>4
  <2>5. QED
    BY <2>3, <2>4
<1>7. n \in T
  <2>1. Nat \subseteq T
    <3> HIDE DEF T
    <3>1. QED
      BY <1>5, <1>6, Induct
  <2>2. n \in Nat
    BY <1>1 DEF n
  <2>3. QED
    BY <2>1, <2>2
<1>8. n \in 1 .. n
  BY <1>1 DEF n
<1>9. QED
  BY <1>3, <1>7, <1>8 DEF n

\* So are those of a description whose pieces are as they should be.
Wholes(r) == [i \in DOMAIN r |-> Whole(r[i])]
Pieces(r, forWrite) == [i \in DOMAIN r |-> Expand(r[i], forWrite)]
LEMMA ExpandedIs ==
  ASSUME NEW r \in Seq(Raw), r # <<>>, \A i \in DOMAIN r : Plain(r[i]), NEW forWrite \in BOOLEAN
  PROVE  /\ Len(r) \in Nat \ {0} /\ DOMAIN r = 1 .. Len(r)
         /\ Filling(Pieces(r, forWrite), Wholes(r), Len(r))
         /\ Joined(Pieces(r, forWrite), Wholes(r), Expanded(r, forWrite), Len(r))
<1> DEFINE x == Pieces(r, forWrite)
           b == Wholes(r)
           n == Len(r)
<1>1. n \in Nat \ {0} /\ DOMAIN r = 1 .. n
  BY EmptySeq, LenProperties
<1>2. \A i \in 1 .. n : r[i] \in Raw
  BY <1>1, ElementOfSeq
<1>3. \A i \in 1 .. n : x[i] = Expand(r[i], forWrite) /\ b[i] = Whole(r[i])
  BY <1>1 DEF Pieces, Wholes
<1>4. Expanded(r, forWrite) = FlattenSeq(x)
  BY DEF Expanded, Pieces
<1>5. DOMAIN x = 1 .. n /\ x = [i \in 1 .. n |-> x[i]]
  BY <1>1 DEF Pieces
<1> HIDE DEF x, b, n
<1>6. ASSUME NEW i \in 1 .. n
      PROVE  Fills(x[i], b[i]) /\ Sits(b[i])
  <2>1. r[i] \in Raw /\ Plain(r[i])
    BY <1>1, <1>2
  <2>2. Fills(Expand(r[i], forWrite), Whole(r[i]))
    BY <2>1, PieceFilled
  <2>3. Sits(Whole(r[i]))
    BY <2>1, WholeIs
  <2>4. QED
    BY <1>3, <2>2, <2>3
<1>7. Filling(x, b, n)
  BY <1>6 DEF Filling
<1>8. x \in Seq(Seq(Block))
  <2> DEFINE S == Seq(Block)
  <2>1. \A i \in 1 .. n : x[i] \in S
    BY <1>6 DEF Fills
  <2> HIDE DEF S
  <2>2. x \in [1 .. n -> S]
    BY <1>5, <2>1
  <2>3. x \in Seq(S)
    BY <1>1, <2>2, SeqDef
  <2>4. QED
    BY <2>3 DEF S
<1>9. Len(x) = n /\ x # <<>>
  <2>1. Len(x) \in Nat /\ DOMAIN x = 1 .. Len(x)
    BY <1>8, LenProperties
  <2> DEFINE m == Len(x)
  <2>2. m \in Nat /\ 1 .. m = 1 .. n
    BY <1>5, <2>1
  <2> HIDE DEF m
  <2>3. m = n
    BY <1>1, <2>2
  <2>4. x # <<>>
    BY <1>1, <1>5
  <2>5. QED
    BY <2>3, <2>4 DEF m
<1>10. Joined(x, b, FlattenSeq(x), n)
  BY <1>7, <1>8, <1>9, AllJoined
<1>11. QED
  BY <1>1, <1>4, <1>7, <1>10 DEF x, b, n

-----------------------------------------------------------------------------
(* A table.                                                                  *)

\* Blocks in order, none of which ends beyond the last address.
Settled(t) == t \in Seq(Block) /\ (\A i \in DOMAIN t : Sits(t[i])) /\ Ordered(t)
Parted(t) == Settled(t) /\ Separate(t)

\* What its blocks are.
LEMMA SettledIs ==
  ASSUME NEW t, Settled(t)
  PROVE  /\ t \in Seq(Block) /\ Len(t) \in Nat /\ DOMAIN t = 1 .. Len(t)
         /\ \A i \in DOMAIN t : /\ t[i] \in Block /\ t[i].base \in Nat /\ t[i].size \in Nat \ {0}
                                /\ t[i].base + t[i].size <= Top - 1
                                /\ End(t[i]) = t[i].base + t[i].size
         /\ \A i, j \in DOMAIN t : i < j => t[i].base <= t[j].base
<1>1. t \in Seq(Block) /\ Len(t) \in Nat /\ DOMAIN t = 1 .. Len(t)
  BY SeqIs DEF Settled
<1>2. \A i, j \in DOMAIN t : i < j => t[i].base <= t[j].base
  BY DEF Settled, Ordered
<1>3. ASSUME NEW i \in DOMAIN t
      PROVE  /\ t[i] \in Block /\ t[i].base \in Nat /\ t[i].size \in Nat \ {0}
             /\ t[i].base + t[i].size <= Top - 1
             /\ End(t[i]) = t[i].base + t[i].size
  <2>1. Sits(t[i])
    BY DEF Settled
  <2>2. t[i] \in Block
    BY <2>1 DEF Sits
  <2>3. QED
    BY <2>1, <2>2, BlocksApart
<1>4. QED
  BY <1>1, <1>2, <1>3

\* Blocks that are clear of each other follow each other.
LEMMA PartedIs ==
  ASSUME NEW t, Parted(t), NEW i \in DOMAIN t, NEW j \in DOMAIN t, i < j
  PROVE  t[i].base + t[i].size <= t[j].base /\ t[i].base < t[j].base
<1>1. Clear(t[i], t[j])
  <2>1. i # j
    BY SettledIs DEF Parted
  <2>2. QED
    BY <2>1 DEF Parted, Separate
<1>2. /\ t[i].base \in Nat /\ t[i].size \in Nat \ {0} /\ t[j].base \in Nat /\ t[j].size \in Nat \ {0}
      /\ t[i].base <= t[j].base
  BY SettledIs DEF Parted
<1>3. QED
  BY <1>1, <1>2 DEF Clear

\* The pass over the sorted blocks finds out whether any two of them meet.
LEMMA OverlapIs ==
  ASSUME NEW t, Settled(t)
  PROVE  PiecesOverlap(t) <=> ~ Separate(t)
<1>1. /\ Len(t) \in Nat /\ DOMAIN t = 1 .. Len(t)
      /\ \A i \in DOMAIN t : /\ t[i].base \in Nat /\ t[i].size \in Nat \ {0}
                             /\ End(t[i]) = t[i].base + t[i].size
      /\ \A i, j \in DOMAIN t : i < j => t[i].base <= t[j].base
  BY SettledIs
<1>2. ASSUME Separate(t), PiecesOverlap(t)
      PROVE  FALSE
  <2>1. PICK i, j \in DOMAIN t : i < j /\ t[j].base < End(t[i])
    BY <1>2 DEF PiecesOverlap
  <2>2. t[i].base + t[i].size <= t[j].base
    BY <1>2, <2>1, PartedIs DEF Parted
  <2>3. QED
    BY <1>1, <2>1, <2>2
<1>3. ASSUME ~ Separate(t)
      PROVE  PiecesOverlap(t)
  <2>1. PICK i, j \in DOMAIN t : i # j /\ ~ Clear(t[i], t[j])
    BY <1>3 DEF Separate
  <2>2. ASSUME NEW k \in DOMAIN t, NEW m \in DOMAIN t, k < m, ~ Clear(t[k], t[m])
        PROVE  PiecesOverlap(t)
    <3>1. t[m].base < End(t[k])
      BY <1>1, <2>2 DEF Clear
    <3>2. ASSUME NEW n \in k + 1 .. m - 1
          PROVE  t[n].base <= End(t[k])
      <4>1. n \in DOMAIN t /\ n < m
        BY <1>1
      <4>2. t[n].base <= t[m].base
        BY <1>1, <4>1
      <4>3. t[n].base \in Nat /\ t[m].base \in Nat /\ End(t[k]) \in Nat
        <5>1. t[k].base + t[k].size \in Nat
          BY <1>1
        <5>2. QED
          BY <1>1, <4>1, <5>1
      <4>4. QED
        BY <3>1, <4>2, <4>3
    <3>3. QED
      BY <2>2, <3>1, <3>2 DEF PiecesOverlap
  <2>3. CASE i < j
    BY <2>1, <2>2, <2>3
  <2>4. CASE j < i
    <3>1. ~ Clear(t[j], t[i])
      BY <2>1 DEF Clear
    <3>2. QED
      BY <2>2, <2>4, <3>1
  <2>5. QED
    BY <1>1, <2>1, <2>3, <2>4
<1>4. QED
  BY <1>2, <1>3

\* A block has as many addresses as its size says.
LEMMA CellsCounted ==
  ASSUME NEW b, Sits(b)
  PROVE  Cells(b) \subseteq Addr /\ IsFiniteSet(Cells(b)) /\ Cardinality(Cells(b)) = b.size
<1>1. /\ b.base \in Nat /\ b.size \in Nat \ {0}
      /\ \A a : a \in Cells(b) <=> a \in Nat /\ Holds(b, a)
  BY BlocksApart
<1> DEFINE x == b.base
           y == b.base + b.size - 1
<1>2. x \in Int /\ y \in Int /\ ~ (x > y) /\ y - x + 1 = b.size
  BY <1>1
<1>3. Cells(b) = x .. y
  <2>1. \A a : a \in x .. y <=> a \in Int /\ x <= a /\ a <= y
    BY <1>2
  <2>2. \A a : a \in Cells(b) <=> a \in Int /\ x <= a /\ a <= y
    BY <1>1 DEF Holds
  <2> HIDE DEF x, y
  <2>3. QED
    BY <2>1, <2>2
<1> HIDE DEF x, y
<1>4. IsFiniteSet(x .. y) /\ Cardinality(x .. y) = y - x + 1
  BY <1>2, FS_Interval
<1>5. Cells(b) \subseteq Addr
  BY DEF Cells
<1>6. QED
  BY <1>2, <1>3, <1>4, <1>5

\* What adding up sizes is.
Held(t, s) == UNION {Cells(t[i]) : i \in s}
TotalFrom(f, t, s) == IF s = {} THEN 0 ELSE t[CHOOSE x \in s : TRUE].size + f[s \ {CHOOSE x \in s : TRUE}]
IsTotal(f, t) == f = [s \in SUBSET DOMAIN t |-> TotalFrom(f, t, s)]

\* What is left of some blocks is less.
LEMMA OneLess ==
  ASSUME NEW t, Settled(t)
  PROVE  /\ \A s \in SUBSET DOMAIN t : Cardinality(s) \in Nat
         /\ \A s \in SUBSET DOMAIN t : s # {} =>
              LET x == CHOOSE y \in s : TRUE
              IN x \in s /\ s \ {x} \in SUBSET DOMAIN t /\ Cardinality(s \ {x}) < Cardinality(s)
<1>1. Len(t) \in Nat /\ DOMAIN t = 1 .. Len(t)
  BY SettledIs
<1>2. IsFiniteSet(1 .. Len(t))
  BY <1>1, FS_Interval
<1>3. ASSUME NEW s \in SUBSET DOMAIN t
      PROVE  IsFiniteSet(s) /\ Cardinality(s) \in Nat
  <2>1. IsFiniteSet(s)
    BY <1>1, <1>2, FS_Subset
  <2>2. QED
    BY <2>1, FS_CardinalityType
<1>4. ASSUME NEW s \in SUBSET DOMAIN t, s # {}
      PROVE  LET x == CHOOSE y \in s : TRUE
             IN x \in s /\ s \ {x} \in SUBSET DOMAIN t /\ Cardinality(s \ {x}) < Cardinality(s)
  <2> DEFINE x == CHOOSE y \in s : TRUE
  <2>1. x \in s
    BY <1>4
  <2> HIDE DEF x
  <2>2. s \ {x} \in SUBSET DOMAIN t
    OBVIOUS
  <2>3. Cardinality(s \ {x}) = Cardinality(s) - 1
    BY <1>3, <2>1, FS_RemoveElement
  <2>4. QED
    BY <1>3, <2>1, <2>2, <2>3 DEF x
<1>5. QED
  BY <1>3, <1>4

\* It has a result.
LEMMA TotalExists ==
  ASSUME NEW t, Settled(t)
  PROVE  \E f : IsTotal(f, t)
<1> DEFINE D == SUBSET DOMAIN t
           M == [s \in D |-> Cardinality(s)]
           B == [f \in [D -> Nat] |-> [s \in D |-> TotalFrom(f, t, s)]]
           F(s) == CHOOSE x \in s : TRUE
           R(s) == s \ {F(s)}
<1>1. /\ \A s \in D : Cardinality(s) \in Nat
      /\ \A s \in D : s # {} => F(s) \in s /\ R(s) \in D /\ Cardinality(R(s)) < Cardinality(s)
  BY OneLess
<1>2. \A f, s : TotalFrom(f, t, s) = IF s = {} THEN 0 ELSE t[F(s)].size + f[R(s)]
  BY DEF TotalFrom
<1>3. \A s \in D : \A x \in s : t[x].size \in Nat
  BY SettledIs
<1> HIDE DEF F, R, D
<1>4. M \in [D -> Nat] /\ \A s \in D : M[s] = Cardinality(s)
  BY <1>1
<1>5. B \in [[D -> Nat] -> [D -> Nat]]
  <2>1. ASSUME NEW f \in [D -> Nat], NEW s \in D
        PROVE  TotalFrom(f, t, s) \in Nat
    <3>1. CASE s = {}
      BY <1>2, <3>1
    <3>2. CASE s # {}
      <4>1. t[F(s)].size \in Nat /\ f[R(s)] \in Nat
        BY <1>1, <1>3, <3>2
      <4>2. QED
        BY <1>2, <3>2, <4>1
    <3>3. QED
      BY <3>1, <3>2
  <2>2. QED
    BY <2>1
<1>6. ASSUME NEW f \in [D -> Nat], NEW g \in [D -> Nat], NEW s \in D,
             \A y \in D : M[y] < M[s] => f[y] = g[y]
      PROVE  B[f][s] = B[g][s]
  <2>1. s # {} => f[R(s)] = g[R(s)]
    BY <1>1, <1>4, <1>6
  <2>2. TotalFrom(f, t, s) = TotalFrom(g, t, s)
    BY <1>2, <2>1
  <2>3. QED
    BY <2>2
<1>7. Solved(D, Nat, B)
  <2> HIDE DEF B, M
  <2>1. Recursive(D, Nat, M, B)
    BY <1>4, <1>5, <1>6 DEF Recursive
  <2>2. QED
    BY <2>1, Recursion
<1>8. QED
  BY <1>7 DEF Solved, IsTotal, D

\* Blocks that are clear of each other have together the size of what they hold,
\* which is never more than there are addresses.
LEMMA TotalIs ==
  ASSUME NEW t, Parted(t)
  PROVE  ~ (TotalSize(t) > Top)
<1> DEFINE f == CHOOSE g : IsTotal(g, t)
           D == SUBSET DOMAIN t
           F(s) == CHOOSE x \in s : TRUE
           R(s) == s \ {F(s)}
<1>0. Settled(t)
  BY DEF Parted
<1>1. /\ \A s \in D : Cardinality(s) \in Nat
      /\ \A s \in D : s # {} => F(s) \in s /\ R(s) \in D /\ Cardinality(R(s)) < Cardinality(s)
  BY <1>0, OneLess
<1>2. IsTotal(f, t)
  <2>1. \E g : IsTotal(g, t)
    BY <1>0, TotalExists
  <2>2. QED
    BY <2>1, Zenon
<1>3. TotalSize(t) = f[DOMAIN t]
  BY DEF TotalSize, FoldSeq, FoldFunction, FoldFunctionOnSet, MapThenFoldSet, IsTotal, TotalFrom
<1> HIDE DEF f
<1>4. \A s \in D : f[s] = IF s = {} THEN 0 ELSE t[F(s)].size + f[R(s)]
  BY <1>2 DEF IsTotal, TotalFrom
<1>5. \A i \in DOMAIN t : Sits(t[i])
  BY <1>0 DEF Settled
<1>6. \A i, j \in DOMAIN t : i # j => Cells(t[i]) \cap Cells(t[j]) = {}
  BY <1>5, BlocksApart DEF Parted, Separate
<1>7. Top \in Nat \ {0} /\ IsFiniteSet(Addr) /\ Cardinality(Addr) = Top
  <2>1. Top \in Nat \ {0, 1} /\ 0 \in Int /\ Top - 1 \in Int /\ ~ (0 > Top - 1) /\ (Top - 1) - 0 + 1 = Top
    BY TableAssumption
  <2>2. IsFiniteSet(0 .. Top - 1) /\ Cardinality(0 .. Top - 1) = (Top - 1) - 0 + 1
    BY <2>1, FS_Interval
  <2>3. QED
    BY <2>1, <2>2 DEF Addr
<1>8. ASSUME NEW s \in D
      PROVE  IsFiniteSet(Held(t, s)) /\ Cardinality(Held(t, s)) \in Nat /\ Cardinality(Held(t, s)) <= Top
  <2>1. Held(t, s) \in SUBSET Addr
    BY DEF Held, Cells
  <2>2. IsFiniteSet(Held(t, s)) /\ Cardinality(Held(t, s)) <= Cardinality(Addr)
    BY <1>7, <2>1, FS_Subset
  <2>3. Cardinality(Held(t, s)) \in Nat
    BY <2>2, FS_CardinalityType
  <2>4. QED
    BY <1>7, <2>2, <2>3
<1> DEFINE M == [s \in D |-> Cardinality(s)]
           Good(s) == f[s] = Cardinality(Held(t, s))
           W == {s \in D : ~ Good(s)}
<1>9. ASSUME NEW s \in D, \A y \in D : M[y] < M[s] => Good(y)
      PROVE  Good(s)
  <2>1. CASE s = {}
    <3>1. Held(t, s) = {}
      BY <2>1 DEF Held
    <3>2. Cardinality(Held(t, s)) = 0
      BY <3>1, FS_EmptySet
    <3>3. QED
      BY <1>4, <2>1, <3>2
  <2>2. CASE s # {}
    <3> DEFINE x == F(s)
               y == R(s)
    <3>1. x \in s /\ y \in D /\ M[y] < M[s] /\ y = s \ {x}
      BY <1>1, <2>2
    <3>2. f[s] = t[x].size + f[y]
      BY <1>4, <2>2
    <3>3. f[y] = Cardinality(Held(t, y))
      BY <1>9, <3>1
    <3> HIDE DEF x, y, M, D, Good
    <3>4. x \in DOMAIN t /\ Sits(t[x])
      BY <1>5, <3>1 DEF D
    <3>5. IsFiniteSet(Cells(t[x])) /\ Cardinality(Cells(t[x])) = t[x].size
      BY <3>4, CellsCounted
    <3>6. Held(t, s) = Cells(t[x]) \cup Held(t, y)
      BY <3>1 DEF Held
    <3>7. Cells(t[x]) \cap Held(t, y) = {}
      BY <1>6, <3>1, <3>4 DEF Held, D
    <3>8. Cardinality(Cells(t[x]) \cup Held(t, y)) =
            Cardinality(Cells(t[x])) + Cardinality(Held(t, y)) - Cardinality(Cells(t[x]) \cap Held(t, y))
      BY <1>8, <3>1, <3>5, FS_Union
    <3>9. Cardinality(Cells(t[x]) \cap Held(t, y)) = 0
      BY <3>7, FS_EmptySet
    <3>10. t[x].size \in Nat /\ Cardinality(Held(t, y)) \in Nat
      BY <1>8, <3>1, <3>4 DEF Sits, Block
    <3>11. Cardinality(Held(t, s)) = t[x].size + Cardinality(Held(t, y))
      BY <3>5, <3>6, <3>8, <3>9, <3>10
    <3>12. QED
      BY <3>2, <3>3, <3>11 DEF Good
  <2>3. QED
    BY <2>1, <2>2
<1>10. \A s \in D : Good(s)
  <2> HIDE DEF Good
  <2> SUFFICES ASSUME W # {}
               PROVE  FALSE
    OBVIOUS
  <2>1. M \in [D -> Nat] /\ W \subseteq D
    BY <1>1
  <2>2. \E s \in W : \A y \in D : M[y] < M[s] => y \notin W
    <3> HIDE DEF W, M, D
    <3>1. QED
      BY <2>1, LeastWrong
  <2>3. QED
    BY <1>9, <2>2
<1>11. DOMAIN t \in D
  OBVIOUS
<1>12. TotalSize(t) = Cardinality(Held(t, DOMAIN t))
  BY <1>3, <1>10, <1>11
<1>13. QED
  BY <1>7, <1>8, <1>11, <1>12

\* What a table is made of.
Made(r, forWrite, t) ==
  /\ Settled(t) /\ t # <<>>
  /\ FromParts(Pieces(r, forWrite), t, Len(r)) /\ ToWhole(Pieces(r, forWrite), t, Len(r))
  /\ Separate(t) <=> WholesClear(Wholes(r), Len(r))

\* Sorting the blocks of all pieces keeps what is so of them.
LEMMA SortedMade ==
  ASSUME NEW r \in Seq(Raw), r # <<>>, \A i \in DOMAIN r : Plain(r[i]), NEW forWrite \in BOOLEAN
  PROVE  Made(r, forWrite, SortedChunks[Expanded(r, forWrite)])
<1> DEFINE x == Pieces(r, forWrite)
           b == Wholes(r)
           n == Len(r)
           s == Expanded(r, forWrite)
           t == SortedChunks[s]
<1>1. n \in Nat \ {0} /\ Filling(x, b, n) /\ Joined(x, b, s, n)
  BY ExpandedIs
<1> HIDE DEF x, b, n, s
<1>2. s \in Seq(Block) /\ FromParts(x, s, n) /\ ToWhole(x, s, n) /\ (Separate(s) <=> WholesClear(b, n))
  BY <1>1 DEF Joined
<1>3. t \in Seq(Block) /\ Same(t, s) /\ Ordered(t)
  BY <1>2, Sorts, SortedIs DEF SortRight
<1> HIDE DEF t
<1>4. PICK f : Into(t, s, f)
  BY <1>3 DEF Same, Embeds
<1>5. PICK g : Into(s, t, g)
  BY <1>3 DEF Same, Embeds
<1>6. FromParts(x, t, n)
  <2>1. ASSUME NEW k \in DOMAIN t
        PROVE  \E j \in 1 .. n : \E m \in DOMAIN x[j] : t[k] = x[j][m]
    <3>1. f[k] \in DOMAIN s /\ t[k] = s[f[k]]
      BY <1>4 DEF Into
    <3>2. QED
      BY <1>2, <3>1 DEF FromParts
  <2>2. QED
    BY <2>1 DEF FromParts
<1>7. ToWhole(x, t, n)
  <2>1. ASSUME NEW j \in 1 .. n, NEW m \in DOMAIN x[j]
        PROVE  \E k \in DOMAIN t : t[k] = x[j][m]
    <3>1. PICK k \in DOMAIN s : s[k] = x[j][m]
      BY <1>2 DEF ToWhole
    <3>2. g[k] \in DOMAIN t /\ s[k] = t[g[k]]
      BY <1>5 DEF Into
    <3>3. QED
      BY <3>1, <3>2
  <2>2. QED
    BY <2>1 DEF ToWhole
<1>8. Separate(t) <=> Separate(s)
  <2>1. ASSUME NEW u, NEW w, NEW h, Into(u, w, h), Separate(w)
        PROVE  Separate(u)
    <3>1. ASSUME NEW i \in DOMAIN u, NEW j \in DOMAIN u, i # j
          PROVE  Clear(u[i], u[j])
      <4>1. h[i] \in DOMAIN w /\ h[j] \in DOMAIN w /\ h[i] # h[j] /\ u[i] = w[h[i]] /\ u[j] = w[h[j]]
        BY <2>1, <3>1 DEF Into
      <4>2. QED
        BY <2>1, <4>1 DEF Separate
    <3>2. QED
      BY <3>1 DEF Separate
  <2>2. QED
    BY <1>4, <1>5, <2>1
<1>9. \A k \in DOMAIN t : Sits(t[k])
  <2>1. ASSUME NEW k \in DOMAIN t
        PROVE  Sits(t[k])
    <3>1. PICK j \in 1 .. n : \E m \in DOMAIN x[j] : t[k] = x[j][m]
      BY <1>6 DEF FromParts
    <3>2. Fills(x[j], b[j])
      BY <1>1 DEF Filling
    <3>3. QED
      BY <3>1, <3>2 DEF Fills
  <2>2. QED
    BY <2>1
<1>10. t # <<>>
  <2>1. 1 \in 1 .. n
    BY <1>1
  <2>2. Fills(x[1], b[1])
    BY <1>1, <2>1 DEF Filling
  <2>3. x[1] \in Seq(Block) /\ x[1] # <<>>
    BY <2>2 DEF Fills
  <2>4. 1 \in DOMAIN x[1]
    <3> DEFINE w == x[1]
    <3>1. w \in Seq(Block) /\ w # <<>>
      BY <2>3
    <3> HIDE DEF w
    <3>2. Len(w) \in Nat \ {0} /\ DOMAIN w = 1 .. Len(w)
      BY <3>1, FirstAndRest, SeqIs
    <3>3. 1 \in DOMAIN w
      BY <3>2
    <3>4. QED
      BY <3>3 DEF w
  <2>5. PICK k \in DOMAIN t : t[k] = x[1][1]
    BY <1>7, <2>1, <2>4 DEF ToWhole
  <2>6. DOMAIN t # {}
    BY <2>5
  <2>7. QED
    BY <2>6
<1>11. Settled(t)
  BY <1>3, <1>9 DEF Settled
<1>12. QED
  BY <1>2, <1>6, <1>7, <1>8, <1>10, <1>11 DEF Made, x, b, n, s, t

\* A table is kept of a description whose pieces are clear of each other.
LEMMA TableIs ==
  ASSUME NEW r \in Seq(Raw), r # <<>>, \A i \in DOMAIN r : Plain(r[i]), NEW forWrite \in BOOLEAN
  PROVE  LET t == SortedChunks[Expanded(r, forWrite)]
         IN Table(r, forWrite) = IF WholesClear(Wholes(r), Len(r)) THEN t ELSE NoTable
<1> DEFINE t == SortedChunks[Expanded(r, forWrite)]
<1>1. Made(r, forWrite, t)
  BY SortedMade
<1>2. \A i \in DOMAIN r : Sane(r[i])
  BY DEF Plain
<1>3. Table(r, forWrite) = IF TotalSize(t) > Top \/ PiecesOverlap(t) THEN NoTable ELSE t
  BY <1>2 DEF Table
<1> HIDE DEF t
<1>4. Settled(t) /\ (Separate(t) <=> WholesClear(Wholes(r), Len(r)))
  BY <1>1 DEF Made
<1>5. PiecesOverlap(t) <=> ~ Separate(t)
  BY <1>4, OverlapIs
<1>6. Separate(t) => ~ (TotalSize(t) > Top)
  BY <1>4, TotalIs DEF Parted
<1>7. QED
  BY <1>3, <1>4, <1>5, <1>6 DEF t

\* A description of nothing has no table.
LEMMA NothingIs ==
  ASSUME NEW forWrite \in BOOLEAN
  PROVE  Table(<<>>, forWrite) = NoTable
<1> DEFINE x == [i \in DOMAIN <<>> |-> Expand(<<>>[i], forWrite)]
<1>1. x = <<>>
  OBVIOUS
<1>2. FlattenSeq(<<>>) = <<>>
  BY DEF FlattenSeq
<1>3. Expanded(<<>>, forWrite) = <<>>
  BY <1>1, <1>2 DEF Expanded
<1>4. SortedChunks[<<>>] = <<>>
  <2>1. <<>> \in Seq(Block) /\ Len(<<>>) <= 1
    OBVIOUS
  <2>2. SortedChunks[<<>>] = SortedFrom(SortedChunks, <<>>)
    BY <2>1, SortedIs
  <2>3. QED
    BY <2>1, <2>2 DEF SortedFrom
<1>5. QED
  BY <1>3, <1>4 DEF Table, NoTable

\* A table has in order, and without overlap, the cells of the pieces, and there
\* is one if no two pieces share a cell.
PiecesApart(r) == \A i, j \in DOMAIN r : i < j => Piece(r[i]) \cap Piece(r[j]) = {}
Tiled(r, forWrite, t) ==
  /\ (t # NoTable) = (r # <<>> /\ PiecesApart(r))
  /\ t # NoTable => Made(r, forWrite, t) /\ Parted(t) /\ Apart(t)
                    /\ CellsOf(t) = UNION {Piece(r[i]) : i \in DOMAIN r}
LEMMA TableTiles ==
  ASSUME NEW r \in Seq(Raw), \A i \in DOMAIN r : Plain(r[i]), NEW forWrite \in BOOLEAN
  PROVE  Tiled(r, forWrite, Table(r, forWrite))
<1>1. CASE r = <<>>
  <2>1. Table(r, forWrite) = NoTable
    BY <1>1, NothingIs
  <2>2. QED
    BY <1>1, <2>1 DEF Tiled
<1>2. CASE r # <<>>
  <2> DEFINE x == Pieces(r, forWrite)
             b == Wholes(r)
             n == Len(r)
             t == SortedChunks[Expanded(r, forWrite)]
  <2>1. Made(r, forWrite, t) /\ Table(r, forWrite) = IF WholesClear(b, n) THEN t ELSE NoTable
    BY <1>2, SortedMade, TableIs
  <2>2. n \in Nat \ {0} /\ DOMAIN r = 1 .. n /\ Filling(x, b, n)
    BY <1>2, ExpandedIs
  <2>3. /\ Settled(t) /\ t # <<>> /\ FromParts(x, t, n) /\ ToWhole(x, t, n)
        /\ Separate(t) <=> WholesClear(b, n)
    BY <2>1 DEF Made
  <2>4. \A i \in 1 .. n : Sits(b[i]) /\ Fills(x[i], b[i])
    BY <2>2 DEF Filling
  <2>5. \A i \in 1 .. n : Piece(r[i]) = Cells(b[i])
    <3>1. \A i \in DOMAIN r : r[i] \in Raw
      BY <2>2, ElementOfSeq
    <3>2. \A i \in DOMAIN r : b[i] = Whole(r[i])
      BY DEF Wholes
    <3>3. QED
      BY <2>2, <3>1, <3>2, WholeIs
  <2> HIDE DEF x, b, n, t
  <2>6. WholesClear(b, n) <=> PiecesApart(r)
    <3>1. ASSUME NEW i \in 1 .. n, NEW j \in 1 .. n
          PROVE  Clear(b[i], b[j]) <=> Piece(r[i]) \cap Piece(r[j]) = {}
      <4>1. Clear(b[i], b[j]) <=> Cells(b[i]) \cap Cells(b[j]) = {}
        BY <2>4, BlocksApart
      <4>2. QED
        BY <2>5, <4>1
    <3>2. QED
      BY <2>2, <3>1 DEF WholesClear, PiecesApart
  <2>7. ASSUME Separate(t)
        PROVE  Apart(t)
    <3>1. ASSUME NEW i \in DOMAIN t, NEW j \in DOMAIN t, i < j
          PROVE  Cells(t[i]) \cap Cells(t[j]) = {} /\ t[i].base < t[j].base
      <4>1. t[i].base < t[j].base
        BY <2>3, <2>7, <3>1, PartedIs DEF Parted
      <4>2. i # j
        BY <2>3, <3>1, SettledIs
      <4>3. Clear(t[i], t[j]) /\ Sits(t[i]) /\ Sits(t[j])
        BY <2>3, <2>7, <4>2 DEF Separate, Settled
      <4>4. Cells(t[i]) \cap Cells(t[j]) = {}
        BY <4>3, BlocksApart
      <4>5. QED
        BY <4>1, <4>4
    <3>2. QED
      BY <3>1 DEF Apart
  <2>8. CellsOf(t) = UNION {Piece(r[i]) : i \in DOMAIN r}
    <3>1. ASSUME NEW a, a \in CellsOf(t)
          PROVE  \E i \in DOMAIN r : a \in Piece(r[i])
      <4>1. PICK k \in DOMAIN t : a \in Cells(t[k])
        BY <3>1 DEF CellsOf
      <4>2. PICK j \in 1 .. n : \E m \in DOMAIN x[j] : t[k] = x[j][m]
        BY <2>3 DEF FromParts
      <4>3. Sits(t[k]) /\ Under(t[k], b[j]) /\ Sits(b[j])
        BY <2>4, <4>2 DEF Fills
      <4>4. a \in Nat /\ Holds(t[k], a)
        BY <4>1, <4>3, BlocksApart
      <4>5. Holds(b[j], a)
        <5> DEFINE c == b[j]
                   d == t[k]
        <5>1. Sits(d) /\ Under(d, c) /\ Sits(c) /\ Holds(d, a)
          BY <4>3, <4>4
        <5> HIDE DEF c, d
        <5>2. Holds(c, a)
          BY <4>4, <5>1, TableAssumption DEF Sits, Under, Holds, Block
        <5>3. QED
          BY <5>2 DEF c
      <4>6. a \in Cells(b[j])
        BY <4>3, <4>4, <4>5, BlocksApart
      <4>7. QED
        BY <2>2, <2>5, <4>6
    <3>2. ASSUME NEW i \in DOMAIN r, NEW a, a \in Piece(r[i])
          PROVE  a \in CellsOf(t)
      <4>1. a \in Nat /\ Holds(b[i], a)
        <5>1. a \in Cells(b[i]) /\ Sits(b[i])
          BY <2>2, <2>4, <2>5, <3>2
        <5>2. QED
          BY <5>1, BlocksApart
      <4>2. PICK m \in DOMAIN x[i] : Holds(x[i][m], a)
        BY <2>2, <2>4, <4>1 DEF Fills
      <4>3. PICK k \in DOMAIN t : t[k] = x[i][m]
        BY <2>2, <2>3 DEF ToWhole
      <4>4. Sits(t[k]) /\ Holds(t[k], a)
        BY <2>3, <4>2, <4>3 DEF Settled
      <4>5. a \in Cells(t[k])
        BY <4>1, <4>4, BlocksApart
      <4>6. QED
        BY <4>5 DEF CellsOf
    <3>3. QED
      BY <3>1, <3>2
  <2>9. QED
    BY <1>2, <2>1, <2>3, <2>6, <2>7, <2>8 DEF Tiled, Parted, NoTable, b, n
<1>3. QED
  BY <1>1, <1>2

\* Every write block is within an erase block.
LEMMA WritesNest ==
  ASSUME NEW r \in Seq(Raw), r # <<>>, \A i \in DOMAIN r : Plain(r[i]),
         NEW e, NEW w, Made(r, FALSE, e), Made(r, TRUE, w), NEW k \in DOMAIN w
  PROVE  \E i \in DOMAIN e : Under(w[k], e[i])
<1>1. /\ DOMAIN r = 1 .. Len(r)
      /\ \A i \in DOMAIN r : r[i] \in Raw
  <2>1. DOMAIN r = 1 .. Len(r)
    BY ExpandedIs
  <2>2. QED
    BY <2>1, ElementOfSeq
<1>2. PICK j \in 1 .. Len(r) : \E m \in DOMAIN Pieces(r, TRUE)[j] : w[k] = Pieces(r, TRUE)[j][m]
  BY DEF Made, FromParts
<1>3. Pieces(r, TRUE)[j] = Expand(r[j], TRUE) /\ Pieces(r, FALSE)[j] = Expand(r[j], FALSE)
  BY <1>1 DEF Pieces
<1>4. PICK m \in DOMAIN Expand(r[j], TRUE) : w[k] = Expand(r[j], TRUE)[m]
  BY <1>2, <1>3
<1>5. PICK n \in DOMAIN Expand(r[j], FALSE) : Under(Expand(r[j], TRUE)[m], Expand(r[j], FALSE)[n])
  BY <1>1, PieceNests
<1>6. PICK i \in DOMAIN e : e[i] = Expand(r[j], FALSE)[n]
  BY <1>3 DEF Made, ToWhole
<1>7. QED
  BY <1>4, <1>5, <1>6

-----------------------------------------------------------------------------
(* Contiguous areas.                                                         *)

\* Where an area that begins at a block ends.
Ends(t, i, j) == /\ j \in i .. Len(t)
                 /\ \A k \in i + 1 .. j : Follows(t, k)
                 /\ j < Len(t) => ~ Follows(t, j + 1)
LEMMA LastIs ==
  ASSUME NEW t, Settled(t), NEW i \in DOMAIN t
  PROVE  Ends(t, i, LastOf(t, i))
<1>1. Len(t) \in Nat /\ DOMAIN t = 1 .. Len(t)
  BY SettledIs
<1> DEFINE n == Len(t)
           T == {j \in i .. n : j = n \/ ~ Follows(t, j + 1)}
<1>2. \E j \in T : \A k \in T : ~ (k < j)
  <2>1. i .. n \subseteq Nat /\ n \in i .. n
    BY <1>1
  <2>2. T \subseteq Nat /\ T # {}
    BY <2>1
  <2> HIDE DEF T
  <2>3. QED
    BY <2>2, Smallest
<1>3. PICK j \in T : \A k \in T : ~ (k < j)
  BY <1>2
<1>a. n \in Nat /\ i \in 1 .. n
  BY <1>1
<1> HIDE DEF n
<1>b. j \in i .. n /\ (j = n \/ ~ Follows(t, j + 1))
  BY <1>3
<1>4. ASSUME NEW k \in i + 1 .. j
      PROVE  Follows(t, k)
  <2>1. k - 1 \in i .. n /\ k - 1 < j /\ k - 1 # n /\ (k - 1) + 1 = k
    BY <1>a, <1>b
  <2>2. k - 1 \notin T
    BY <1>3, <2>1
  <2>3. QED
    BY <2>1, <2>2
<1>5. j \in i .. n /\ (j < n => ~ Follows(t, j + 1))
  BY <1>a, <1>b
<1>6. Ends(t, i, j)
  BY <1>4, <1>5 DEF Ends, n
<1>7. LastOf(t, i) = CHOOSE k \in i .. Len(t) : Ends(t, i, k)
  BY DEF LastOf, Ends
<1>8. \E k \in i .. Len(t) : Ends(t, i, k)
  BY <1>5, <1>6 DEF n
<1>9. QED
  BY <1>7, <1>8, Zenon

\* An area has the addresses of the blocks from its first to its last.
AreaRight(t, i, b) ==
  LET last == LastOf(t, i)
  IN /\ b.base = t[i].base /\ b.base + b.size = t[last].base + t[last].size /\ Sits(b)
     /\ \A a \in Nat : Holds(b, a) <=> \E k \in i .. last : Holds(t[k], a)
LEMMA AreaIs ==
  ASSUME NEW t, Parted(t), NEW i \in DOMAIN t
  PROVE  AreaRight(t, i, AreaAt(t, i))
<1> DEFINE last == LastOf(t, i)
           b == AreaAt(t, i)
<1>0. Settled(t)
  BY DEF Parted
<1>1. /\ Len(t) \in Nat /\ DOMAIN t = 1 .. Len(t)
      /\ \A k \in DOMAIN t : /\ t[k].base \in Nat /\ t[k].size \in Nat \ {0}
                             /\ t[k].base + t[k].size <= Top - 1
                             /\ End(t[k]) = t[k].base + t[k].size
  BY <1>0, SettledIs
<1>2. last \in i .. Len(t) /\ \A k \in i + 1 .. last : Follows(t, k)
  BY <1>0, LastIs DEF Ends
<1> DEFINE x == t[i].base
           y == t[last].base + t[last].size
           z == (y - x) % Top
<1>3. b = [base |-> x, size |-> z]
  <2>1. i \in DOMAIN t /\ last \in DOMAIN t
    BY <1>1, <1>2
  <2>2. t[i].base \in Nat /\ t[last].base \in Nat /\ t[last].size \in Nat
    BY <1>1, <2>1
  <2> HIDE DEF last
  <2>3. AreaAt(t, i) = [base |-> t[i].base, size |-> (t[last].base + t[last].size - t[i].base) % Top]
    BY DEF AreaAt, last
  <2>4. QED
    BY <2>2, <2>3, TableAssumption
<1> HIDE DEF last, b
<1>4. last \in DOMAIN t /\ i \in Nat /\ \A k \in i .. last : k \in DOMAIN t
  BY <1>1, <1>2
<1>5. \A k \in i .. last : t[i].base <= t[k].base /\ t[k].base + t[k].size <= t[last].base + t[last].size
  <2>1. ASSUME NEW k \in i .. last
        PROVE  t[i].base <= t[k].base
    <3>1. CASE k = i
      BY <1>1, <1>4, <3>1
    <3>2. CASE k # i
      <4>1. i < k /\ k \in DOMAIN t
        BY <1>1, <1>4, <3>2
      <4>2. t[i].base < t[k].base
        BY <4>1, PartedIs
      <4>3. QED
        BY <1>1, <4>1, <4>2
    <3>3. QED
      BY <3>1, <3>2
  <2>2. ASSUME NEW k \in i .. last
        PROVE  t[k].base + t[k].size <= t[last].base + t[last].size
    <3>1. CASE k = last
      BY <1>1, <1>4, <3>1
    <3>2. CASE k # last
      <4>1. k < last /\ k \in DOMAIN t
        BY <1>1, <1>4, <3>2
      <4>2. t[k].base + t[k].size <= t[last].base
        BY <1>4, <4>1, PartedIs
      <4>3. QED
        BY <1>1, <1>4, <4>1, <4>2
    <3>3. QED
      BY <3>1, <3>2
  <2>3. QED
    BY <2>1, <2>2
<1>6. b \in Block /\ b.base = t[i].base /\ b.base + b.size = t[last].base + t[last].size /\ b.size # 0
  <2>1. x \in Nat /\ y \in Nat /\ x < y /\ y <= Top - 1
    <3>1. i \in i .. last
      BY <1>1, <1>2
    <3>2. t[i].base + t[i].size <= y
      BY <1>5, <3>1
    <3>3. QED
      BY <1>1, <1>4, <3>2
  <2> HIDE DEF x, y
  <2>2. z = y - x /\ z \in Nat /\ z # 0 /\ x + z = y
    BY <2>1, TableAssumption
  <2> HIDE DEF z
  <2>4. b \in Block /\ b.base = x /\ b.size = z
    BY <1>3, <2>1, <2>2 DEF Block
  <2>5. QED
    BY <2>2, <2>4 DEF x, y
<1>7. Sits(b)
  BY <1>1, <1>4, <1>6 DEF Sits
<1>8. ASSUME NEW a \in Nat, NEW k \in i .. last, Holds(t[k], a)
      PROVE  Holds(b, a)
  <2>1. t[k].base <= a /\ a < t[k].base + t[k].size
    BY <1>8 DEF Holds
  <2>2. t[i].base <= t[k].base /\ t[k].base + t[k].size <= t[last].base + t[last].size
    BY <1>5
  <2>3. t[i].base \in Nat /\ t[k].base \in Nat /\ t[k].size \in Nat /\ t[last].base \in Nat /\ t[last].size \in Nat
    BY <1>1, <1>4
  <2>4. QED
    BY <1>6, <2>1, <2>2, <2>3 DEF Holds
<1>9. ASSUME NEW a \in Nat, Holds(b, a)
      PROVE  \E k \in i .. last : Holds(t[k], a)
  <2> DEFINE T == {k \in i .. last : a < t[k].base + t[k].size}
  <2>1. last \in T
    BY <1>2, <1>4, <1>6, <1>9 DEF Holds
  <2>2. T \subseteq Nat
    BY <1>4
  <2>3. PICK m \in T : \A k \in T : ~ (k < m)
    <3> HIDE DEF T
    <3>1. QED
      BY <2>1, <2>2, Smallest
  <2>4. CASE m = i
    <3>1. Holds(t[m], a)
      BY <1>6, <1>9, <2>3, <2>4 DEF Holds
    <3>2. QED
      BY <2>3, <3>1
  <2>5. CASE m # i
    <3>1. m \in i .. last /\ m - 1 \in i .. last /\ m - 1 < m /\ m \in i + 1 .. last
      <4>1. m \in i .. last /\ i \in Nat /\ last \in Int
        BY <1>2, <1>4, <2>3
      <4>2. QED
        BY <2>5, <4>1
    <3>2. m - 1 \notin T
      BY <2>3, <3>1
    <3>3. ~ (a < t[m - 1].base + t[m - 1].size)
      BY <3>1, <3>2
    <3>4. t[m].base = End(t[m - 1])
      BY <1>2, <3>1 DEF Follows
    <3>5. /\ End(t[m - 1]) = t[m - 1].base + t[m - 1].size
          /\ t[m - 1].base \in Nat /\ t[m - 1].size \in Nat
      BY <1>1, <1>4, <3>1
    <3>6. t[m].base <= a
      BY <3>3, <3>4, <3>5
    <3>7. Holds(t[m], a)
      BY <2>3, <3>6 DEF Holds
    <3>8. QED
      BY <3>1, <3>7
  <2>6. QED
    BY <2>4, <2>5
<1>10. QED
  BY <1>6, <1>7, <1>8, <1>9 DEF AreaRight, last, b

\* Every block is in the area of a block that begins one.
LEMMA Begins ==
  ASSUME NEW t, Settled(t), NEW k \in DOMAIN t
  PROVE  \E i \in DOMAIN t : ~ Follows(t, i) /\ k \in i .. LastOf(t, i)
<1>1. Len(t) \in Nat /\ DOMAIN t = 1 .. Len(t)
  BY SettledIs
<1> DEFINE n == Len(t)
           Begun(m) == \E i \in 1 .. m : ~ Follows(t, i) /\ \A j \in i + 1 .. m : Follows(t, j)
           T == {m \in Nat : m \in 1 .. n => Begun(m)}
<1>2. 0 \in T
  OBVIOUS
<1>3. ASSUME NEW m \in Nat, m \in T
      PROVE  m + 1 \in T
  <2> SUFFICES ASSUME m + 1 \in 1 .. n
               PROVE  Begun(m + 1)
    <3> HIDE DEF Begun
    <3>1. QED
      OBVIOUS
  <2>1. CASE ~ Follows(t, m + 1)
    <3>1. m + 1 \in 1 .. m + 1 /\ \A j \in (m + 1) + 1 .. m + 1 : FALSE
      OBVIOUS
    <3>2. QED
      BY <2>1, <3>1
  <2>2. CASE Follows(t, m + 1)
    <3>1. m + 1 > 1
      BY <2>2 DEF Follows
    <3>2. m \in 1 .. n
      BY <1>1, <3>1
    <3>3. PICK i \in 1 .. m : ~ Follows(t, i) /\ \A j \in i + 1 .. m : Follows(t, j)
      BY <1>3, <3>2
    <3>4. i \in 1 .. m + 1 /\ \A j \in i + 1 .. m + 1 : j \in i + 1 .. m \/ j = m + 1
      OBVIOUS
    <3>5. QED
      BY <2>2, <3>3, <3>4
  <2>3. QED
    BY <2>1, <2>2
<1>4. k \in T
  <2>1. Nat \subseteq T
    <3> HIDE DEF T
    <3>1. QED
      BY <1>2, <1>3, Induct
  <2>2. k \in Nat
    BY <1>1
  <2>3. QED
    BY <2>1, <2>2
<1>5. PICK i \in 1 .. k : ~ Follows(t, i) /\ \A j \in i + 1 .. k : Follows(t, j)
  BY <1>1, <1>4
<1>6. i \in DOMAIN t
  BY <1>1
<1> DEFINE last == LastOf(t, i)
<1>7. last \in i .. n /\ (last < n => ~ Follows(t, last + 1))
  BY <1>6, LastIs DEF Ends
<1> HIDE DEF last
<1>8. k <= last
  <2> SUFFICES ASSUME last < k
               PROVE  FALSE
    BY <1>1, <1>7
  <2>1. last + 1 \in i + 1 .. k /\ last < n
    BY <1>1, <1>7
  <2>2. QED
    BY <1>5, <1>7, <2>1
<1>9. k \in i .. last
  BY <1>1, <1>7, <1>8
<1>10. QED
  BY <1>5, <1>6, <1>9 DEF last

\* An area ends before the next one begins.
LEMMA AreasFollow ==
  ASSUME NEW t, Parted(t), NEW i \in DOMAIN t, NEW j \in DOMAIN t, i < j, ~ Follows(t, j)
  PROVE  AreaAt(t, i).base + AreaAt(t, i).size < AreaAt(t, j).base
<1> DEFINE last == LastOf(t, i)
<1>0. Settled(t)
  BY DEF Parted
<1>1. /\ Len(t) \in Nat /\ DOMAIN t = 1 .. Len(t)
      /\ \A k \in DOMAIN t : t[k].base \in Nat /\ t[k].size \in Nat /\ End(t[k]) = t[k].base + t[k].size
  BY <1>0, SettledIs
<1>2. last \in i .. Len(t) /\ \A k \in i + 1 .. last : Follows(t, k)
  BY <1>0, LastIs DEF Ends
<1>3. /\ AreaAt(t, i).base + AreaAt(t, i).size = t[last].base + t[last].size
      /\ AreaAt(t, j).base = t[j].base
  BY AreaIs DEF AreaRight
<1> HIDE DEF last
<1>4. last < j /\ last \in DOMAIN t
  <2>1. ~ (j <= last)
    <3> SUFFICES ASSUME j <= last
                 PROVE  FALSE
      OBVIOUS
    <3>1. j \in i + 1 .. last
      BY <1>1, <1>2
    <3>2. QED
      BY <1>2, <3>1
  <2>2. QED
    BY <1>1, <1>2, <2>1
<1>5. t[last].base + t[last].size < t[j].base
  <2>1. t[last].base + t[last].size <= t[j].base
    BY <1>4, PartedIs
  <2>2. t[last].base + t[last].size # t[j].base
    <3>1. CASE last + 1 = j
      <4>1. j > 1 /\ j - 1 = last
        <5>1. last \in Nat \ {0}
          BY <1>1, <1>4
        <5>2. QED
          BY <3>1, <5>1
      <4>2. t[j].base # End(t[last])
        BY <4>1 DEF Follows
      <4>3. QED
        BY <1>1, <1>4, <4>2
    <3>2. CASE last + 1 # j
      <4>1. last + 1 \in DOMAIN t /\ last + 1 < j /\ last < last + 1
        BY <1>1, <1>4, <3>2
      <4>2. t[last].base + t[last].size <= t[last + 1].base
        BY <1>4, <4>1, PartedIs
      <4>3. t[last + 1].base < t[j].base
        BY <4>1, PartedIs
      <4>4. QED
        BY <1>1, <1>4, <4>1, <4>2, <4>3
    <3>3. QED
      BY <3>1, <3>2
  <2>3. QED
    BY <1>1, <1>4, <2>1, <2>2
<1>6. QED
  BY <1>3, <1>5

\* The areas found so far.
Found(t, s, i) ==
  /\ s \in Seq(Block)
  /\ \A m \in DOMAIN s : \E k \in 1 .. i : ~ Follows(t, k) /\ s[m] = AreaAt(t, k)
  /\ \A k \in 1 .. i : ~ Follows(t, k) => \E m \in DOMAIN s : s[m] = AreaAt(t, k)
  /\ \A l, m \in DOMAIN s : l < m => s[l].base + s[l].size < s[m].base

\* One area more.
LEMMA FoundNext ==
  ASSUME NEW t, Parted(t), NEW i \in Nat, i + 1 \in DOMAIN t, ~ Follows(t, i + 1),
         NEW s, Found(t, s, i)
  PROVE  Found(t, Append(s, AreaAt(t, i + 1)), i + 1)
<1> DEFINE b == AreaAt(t, i + 1)
           u == Append(s, b)
<1>1. Len(t) \in Nat /\ DOMAIN t = 1 .. Len(t) /\ \A k \in 1 .. i : k \in DOMAIN t /\ k < i + 1
  BY SettledIs DEF Parted
<1>2. b \in Block
  BY AreaIs DEF AreaRight, Sits
<1>3. \A k \in 1 .. i : AreaAt(t, k).base + AreaAt(t, k).size < b.base
  BY <1>1, AreasFollow
<1> HIDE DEF b
<1>4. s \in Seq(Block) /\ Len(s) \in Nat /\ DOMAIN s = 1 .. Len(s)
  BY SeqIs DEF Found
<1>5. /\ u \in Seq(Block) /\ Len(u) = Len(s) + 1
      /\ \A m \in 1 .. Len(s) : u[m] = s[m]
      /\ u[Len(s) + 1] = b
  BY <1>2, <1>4, AppendProperties
<1>6. DOMAIN u = 1 .. Len(s) + 1
  BY <1>5, SeqIs
<1> HIDE DEF u
<1>7. /\ \A m \in DOMAIN u : m \in DOMAIN s \/ m = Len(s) + 1
      /\ \A m \in DOMAIN s : m \in DOMAIN u /\ m < Len(s) + 1
      /\ Len(s) + 1 \in DOMAIN u
  BY <1>4, <1>6
<1>8. ASSUME NEW m \in DOMAIN u
      PROVE  \E k \in 1 .. i + 1 : ~ Follows(t, k) /\ u[m] = AreaAt(t, k)
  <2>1. CASE m \in DOMAIN s
    <3>1. PICK k \in 1 .. i : ~ Follows(t, k) /\ s[m] = AreaAt(t, k)
      BY <2>1 DEF Found
    <3>2. k \in 1 .. i + 1 /\ u[m] = s[m]
      BY <1>4, <1>5, <2>1
    <3>3. QED
      BY <3>1, <3>2
  <2>2. CASE m = Len(s) + 1
    <3>1. i + 1 \in 1 .. i + 1 /\ u[m] = AreaAt(t, i + 1)
      BY <1>5, <2>2 DEF b
    <3>2. QED
      BY <3>1
  <2>3. QED
    BY <1>7, <2>1, <2>2
<1>9. ASSUME NEW k \in 1 .. i + 1, ~ Follows(t, k)
      PROVE  \E m \in DOMAIN u : u[m] = AreaAt(t, k)
  <2>1. CASE k = i + 1
    BY <1>5, <1>7, <2>1 DEF b
  <2>2. CASE k # i + 1
    <3>1. k \in 1 .. i
      BY <2>2
    <3>2. PICK m \in DOMAIN s : s[m] = AreaAt(t, k)
      BY <1>9, <3>1 DEF Found
    <3>3. u[m] = s[m] /\ m \in DOMAIN u
      BY <1>4, <1>5, <1>7
    <3>4. QED
      BY <3>2, <3>3
  <2>3. QED
    BY <2>1, <2>2
<1>10. ASSUME NEW l \in DOMAIN u, NEW m \in DOMAIN u, l < m
       PROVE  u[l].base + u[l].size < u[m].base
  <2>1. l \in DOMAIN s
    BY <1>4, <1>6, <1>10
  <2>2. u[l] = s[l]
    BY <1>4, <1>5, <2>1
  <2>3. CASE m \in DOMAIN s
    <3>1. u[m] = s[m]
      BY <1>4, <1>5, <2>3
    <3>2. QED
      BY <1>10, <2>1, <2>2, <2>3, <3>1 DEF Found
  <2>4. CASE m = Len(s) + 1
    <3>1. PICK k \in 1 .. i : s[l] = AreaAt(t, k)
      BY <2>1 DEF Found
    <3>2. QED
      BY <1>3, <1>5, <2>2, <2>4, <3>1
  <2>5. QED
    BY <1>7, <2>3, <2>4
<1>11. QED
  BY <1>5, <1>8, <1>9, <1>10 DEF Found, u, b

\* What finding areas is, and
AreasFrom(f, t, i) ==
  IF i = 0 THEN <<>> ELSE IF Follows(t, i) THEN f[i - 1] ELSE Append(f[i - 1], AreaAt(t, i))
IsAreas(f, t) == f = [i \in 0 .. Len(t) |-> AreasFrom(f, t, i)]

\* that it has a result.
LEMMA AreasExist ==
  ASSUME NEW t, Parted(t)
  PROVE  \E f : IsAreas(f, t)
<1> DEFINE n == Len(t)
           D == 0 .. n
           V == Seq(Block)
           M == [i \in D |-> i]
           B == [f \in [D -> V] |-> [i \in D |-> AreasFrom(f, t, i)]]
<1>1. n \in Nat /\ DOMAIN t = 1 .. n
  BY SettledIs DEF Parted
<1>2. \A i \in DOMAIN t : AreaAt(t, i) \in Block
  BY AreaIs DEF AreaRight, Sits
<1> HIDE DEF n
<1>3. \A i \in D : i # 0 => i \in DOMAIN t /\ i - 1 \in D /\ i - 1 < i
  BY <1>1
<1>4. M \in [D -> Nat] /\ \A i \in D : M[i] = i
  BY <1>1
<1>5. <<>> \in V /\ V # {}
  <2>1. <<>> \in Seq(Block)
    OBVIOUS
  <2>2. <<>> \in V
    BY <2>1
  <2> HIDE DEF V
  <2>3. QED
    BY <2>2
<1>6. \A s \in V : \A b \in Block : Append(s, b) \in V
  BY AppendProperties
<1> HIDE DEF V
<1>7. B \in [[D -> V] -> [D -> V]]
  <2>1. ASSUME NEW f \in [D -> V], NEW i \in D
        PROVE  AreasFrom(f, t, i) \in V
    <3>1. CASE i = 0
      BY <1>5, <3>1 DEF AreasFrom
    <3>2. CASE i # 0
      <4>1. f[i - 1] \in V
        BY <1>3, <3>2
      <4>2. Append(f[i - 1], AreaAt(t, i)) \in V
        BY <1>2, <1>3, <1>6, <3>2, <4>1
      <4>3. QED
        BY <3>2, <4>1, <4>2 DEF AreasFrom
    <3>3. QED
      BY <3>1, <3>2
  <2>2. QED
    BY <2>1
<1>8. ASSUME NEW f \in [D -> V], NEW g \in [D -> V], NEW i \in D,
             \A y \in D : M[y] < M[i] => f[y] = g[y]
      PROVE  B[f][i] = B[g][i]
  <2>1. i # 0 => f[i - 1] = g[i - 1]
    BY <1>3, <1>4, <1>8
  <2>2. AreasFrom(f, t, i) = AreasFrom(g, t, i)
    BY <2>1 DEF AreasFrom
  <2>3. QED
    BY <2>2
<1>9. Solved(D, V, B)
  <2> HIDE DEF B, M, D
  <2>1. Recursive(D, V, M, B)
    BY <1>4, <1>5, <1>7, <1>8 DEF Recursive
  <2>2. QED
    BY <2>1, Recursion
<1>10. QED
  BY <1>9 DEF Solved, IsAreas, n

\* All areas of a table are found.
LEMMA AreasFound ==
  ASSUME NEW t, Parted(t)
  PROVE  Found(t, AreasOf(t), Len(t))
<1> DEFINE f == CHOOSE g : IsAreas(g, t)
           n == Len(t)
           T == {i \in Nat : i \in 0 .. n => Found(t, f[i], i)}
<1>1. IsAreas(f, t)
  BY AreasExist, Zenon
<1>2. AreasOf(t) = f[n]
  BY DEF AreasOf, IsAreas, AreasFrom
<1>3. n \in Nat /\ DOMAIN t = 1 .. n
  BY SettledIs DEF Parted
<1> HIDE DEF f, n
<1>4. \A i \in 0 .. n : f[i] = AreasFrom(f, t, i)
  BY <1>1 DEF IsAreas, n
<1>5. 0 \in T
  <2>1. f[0] = <<>>
    BY <1>3, <1>4 DEF AreasFrom
  <2>2. <<>> \in Seq(Block) /\ DOMAIN <<>> = {} /\ 1 .. 0 = {}
    OBVIOUS
  <2>3. Found(t, <<>>, 0)
    BY <2>2 DEF Found
  <2>4. QED
    BY <2>1, <2>3
<1>6. ASSUME NEW i \in Nat, i \in T
      PROVE  i + 1 \in T
  <2> SUFFICES ASSUME i + 1 \in 0 .. n
               PROVE  Found(t, f[i + 1], i + 1)
    OBVIOUS
  <2>1. i \in 0 .. n /\ i + 1 \in DOMAIN t /\ i + 1 # 0 /\ (i + 1) - 1 = i
    BY <1>3
  <2>2. Found(t, f[i], i)
    BY <1>6, <2>1
  <2>3. f[i + 1] = IF Follows(t, i + 1) THEN f[i] ELSE Append(f[i], AreaAt(t, i + 1))
    BY <1>4, <2>1 DEF AreasFrom
  <2>4. CASE ~ Follows(t, i + 1)
    BY <2>1, <2>2, <2>3, <2>4, FoundNext
  <2>5. CASE Follows(t, i + 1)
    <3>1. /\ \A k : k \in 1 .. i => k \in 1 .. i + 1
          /\ \A k \in 1 .. i + 1 : k \in 1 .. i \/ k = i + 1
      OBVIOUS
    <3>2. Found(t, f[i], i + 1)
      BY <2>2, <2>5, <3>1 DEF Found
    <3>3. QED
      BY <2>3, <2>5, <3>2
  <2>6. QED
    BY <2>4, <2>5
<1>7. n \in T
  <2>1. Nat \subseteq T
    <3> HIDE DEF T
    <3>1. QED
      BY <1>5, <1>6, Induct
  <2>2. QED
    BY <1>3, <2>1
<1>8. n \in 0 .. n
  BY <1>3
<1>9. QED
  BY <1>2, <1>7, <1>8 DEF n

\* The areas are what a table of blocks is and hold what the table holds, and
\* between two of them there is a gap.
LEMMA AreasAre ==
  ASSUME NEW t, Parted(t), t # <<>>
  PROVE  LET areas == AreasOf(t)
         IN /\ Settled(areas) /\ areas # <<>> /\ Apart(areas) /\ CellsOf(areas) = CellsOf(t)
            /\ \A i, j \in DOMAIN areas : End(areas[i]) # areas[j].base
<1> DEFINE s == AreasOf(t)
<1>0. Settled(t)
  BY DEF Parted
<1>1. Len(t) \in Nat /\ DOMAIN t = 1 .. Len(t)
  BY <1>0, SettledIs
<1>2. Found(t, s, Len(t))
  BY AreasFound
<1> HIDE DEF s
<1>3. Len(s) \in Nat /\ DOMAIN s = 1 .. Len(s) /\ s \in Seq(Block)
  BY <1>2, SeqIs DEF Found
<1>4. \A m \in DOMAIN s : \E k \in DOMAIN t : ~ Follows(t, k) /\ s[m] = AreaAt(t, k)
  BY <1>1, <1>2 DEF Found
<1>5. \A k \in DOMAIN t : ~ Follows(t, k) => \E m \in DOMAIN s : s[m] = AreaAt(t, k)
  BY <1>1, <1>2 DEF Found
<1>6. \A m \in DOMAIN s : Sits(s[m])
  BY <1>4, AreaIs DEF AreaRight
<1>7. \A l, m \in DOMAIN s : l < m => s[l].base + s[l].size < s[m].base
  BY <1>2 DEF Found
<1>8. \A m \in DOMAIN s : s[m].base \in Nat /\ s[m].size \in Nat \ {0} /\ End(s[m]) = s[m].base + s[m].size
  BY <1>6, BlocksApart
<1>9. Ordered(s)
  BY <1>7, <1>8 DEF Ordered
<1>10. Apart(s)
  <2>1. ASSUME NEW l \in DOMAIN s, NEW m \in DOMAIN s, l < m
        PROVE  Cells(s[l]) \cap Cells(s[m]) = {} /\ s[l].base < s[m].base
    <3>1. s[l].base + s[l].size < s[m].base
      BY <1>7, <2>1
    <3>2. Clear(s[l], s[m]) /\ s[l].base < s[m].base
      BY <1>8, <3>1 DEF Clear
    <3>3. QED
      BY <1>6, <3>2, BlocksApart
  <2>2. QED
    BY <2>1 DEF Apart
<1>11. \A l, m \in DOMAIN s : End(s[l]) # s[m].base
  <2>1. ASSUME NEW l \in DOMAIN s, NEW m \in DOMAIN s
        PROVE  End(s[l]) # s[m].base
    <3>1. CASE l < m
      BY <1>7, <1>8, <3>1
    <3>2. CASE l = m
      BY <1>8, <3>2
    <3>3. CASE m < l
      BY <1>7, <1>8, <3>3
    <3>4. QED
      BY <1>3, <3>1, <3>2, <3>3
  <2>2. QED
    BY <2>1
<1>12. ASSUME NEW a, a \in CellsOf(s)
       PROVE  a \in CellsOf(t)
  <2>1. PICK m \in DOMAIN s : a \in Cells(s[m])
    BY <1>12 DEF CellsOf
  <2>2. a \in Nat /\ Holds(s[m], a)
    BY <1>6, <2>1, BlocksApart
  <2>3. PICK k \in DOMAIN t : s[m] = AreaAt(t, k)
    BY <1>4
  <2>4. PICK j \in k .. LastOf(t, k) : Holds(t[j], a)
    BY <2>2, <2>3, AreaIs DEF AreaRight
  <2>5. j \in DOMAIN t
    <3>1. LastOf(t, k) \in k .. Len(t)
      BY <1>0, LastIs DEF Ends
    <3>2. QED
      BY <1>1, <3>1
  <2>6. a \in Cells(t[j])
    BY <1>0, <2>2, <2>4, <2>5, BlocksApart DEF Settled
  <2>7. QED
    BY <2>5, <2>6 DEF CellsOf
<1>13. ASSUME NEW a, a \in CellsOf(t)
       PROVE  a \in CellsOf(s)
  <2>1. PICK j \in DOMAIN t : a \in Cells(t[j])
    BY <1>13 DEF CellsOf
  <2>2. a \in Nat /\ Holds(t[j], a)
    BY <1>0, <2>1, BlocksApart DEF Settled
  <2>3. PICK k \in DOMAIN t : ~ Follows(t, k) /\ j \in k .. LastOf(t, k)
    BY <1>0, Begins
  <2>4. Holds(AreaAt(t, k), a)
    BY <2>2, <2>3, AreaIs DEF AreaRight
  <2>5. PICK m \in DOMAIN s : s[m] = AreaAt(t, k)
    BY <1>5, <2>3
  <2>6. a \in Cells(s[m])
    BY <1>6, <2>2, <2>4, <2>5, BlocksApart
  <2>7. QED
    BY <2>6 DEF CellsOf
<1>14. s # <<>>
  <2>1. 1 \in DOMAIN t
    BY <1>0, <1>1, EmptySeq DEF Settled
  <2>2. ~ Follows(t, 1)
    BY DEF Follows
  <2>3. PICK m \in DOMAIN s : s[m] = AreaAt(t, 1)
    BY <1>5, <2>1, <2>2
  <2>4. DOMAIN s # {}
    BY <2>3
  <2>5. QED
    BY <2>4
<1>15. QED
  BY <1>3, <1>6, <1>9, <1>10, <1>11, <1>12, <1>13, <1>14 DEF Settled, s

\* Cells without a gap lie in one area.
LEMMA RunInArea ==
  ASSUME NEW s, Settled(s), Apart(s), \A i, j \in DOMAIN s : End(s[i]) # s[j].base,
         NEW a \in Nat, NEW n \in Nat \ {0}, a .. a + n - 1 \subseteq CellsOf(s)
  PROVE  \E m \in DOMAIN s : n <= s[m].size
<1>1. /\ Len(s) \in Nat /\ DOMAIN s = 1 .. Len(s)
      /\ \A m \in DOMAIN s : /\ s[m].base \in Nat /\ s[m].size \in Nat \ {0}
                             /\ End(s[m]) = s[m].base + s[m].size
  BY SettledIs
<1>2. \A x : x \in a .. a + n - 1 <=> x \in Nat /\ a <= x /\ x < a + n
  OBVIOUS
<1>3. \A x \in Nat : a <= x /\ x < a + n => \E m \in DOMAIN s : Holds(s[m], x)
  <2>1. ASSUME NEW x \in Nat, a <= x, x < a + n
        PROVE  \E m \in DOMAIN s : Holds(s[m], x)
    <3>1. x \in CellsOf(s)
      BY <1>2, <2>1
    <3>2. PICK m \in DOMAIN s : x \in Cells(s[m])
      BY <3>1 DEF CellsOf
    <3>3. Holds(s[m], x)
      BY <3>2 DEF Cells, Holds
    <3>4. QED
      BY <3>3
  <2>2. QED
    BY <2>1
<1>4. \A l, m \in DOMAIN s : \A x \in Nat : Holds(s[l], x) /\ Holds(s[m], x) => l = m
  <2>1. ASSUME NEW l \in DOMAIN s, NEW m \in DOMAIN s, NEW x \in Nat, Holds(s[l], x), Holds(s[m], x), l < m
        PROVE  FALSE
    <3>1. Sits(s[l]) /\ Sits(s[m])
      BY DEF Settled
    <3>2. x \in Cells(s[l]) /\ x \in Cells(s[m])
      BY <2>1, <3>1, BlocksApart
    <3>3. QED
      BY <2>1, <3>2 DEF Apart
  <2>2. QED
    BY <1>1, <2>1
<1>5. PICK m \in DOMAIN s : Holds(s[m], a)
  BY <1>3
<1> DEFINE e == s[m].base + s[m].size
<1>6. a + n <= e
  <2> SUFFICES ASSUME e < a + n
               PROVE  FALSE
    BY <1>1
  <2>1. e \in Nat /\ a < e /\ s[m].base <= a /\ e - 1 \in Nat
    BY <1>1, <1>5 DEF Holds
  <2>2. PICK l \in DOMAIN s : Holds(s[l], e)
    BY <1>3, <2>1
  <2>3. s[l].base # e
    BY <1>1
  <2> HIDE DEF e
  <2>4. Holds(s[l], e - 1)
    BY <1>1, <2>1, <2>2, <2>3 DEF Holds
  <2>5. Holds(s[m], e - 1) /\ ~ Holds(s[m], e)
    BY <1>1, <2>1 DEF Holds, e
  <2>6. l = m
    BY <1>4, <2>1, <2>4, <2>5
  <2>7. QED
    BY <2>2, <2>5, <2>6
<1>7. n <= s[m].size
  BY <1>1, <1>5, <1>6 DEF Holds
<1>8. QED
  BY <1>7

-----------------------------------------------------------------------------
(* Tables and areas together.                                                *)

\* A table is a tiling.
LEMMA PartedTiles ==
  ASSUME NEW t, Parted(t), Apart(t)
  PROVE  Tiling(t)
<1>1. Settled(t) /\ Top \in Nat \ {0, 1}
  BY TableAssumption DEF Parted
<1>2. t \in Seq(Block)
  BY <1>1 DEF Settled
<1>3. \A i \in DOMAIN t : t[i].base \in Nat /\ t[i].size \in Nat /\ t[i].base + t[i].size <= Top - 1
  BY <1>1, SettledIs
<1>4. BlocksFit(t)
  BY <1>1, <1>3 DEF BlocksFit
<1>5. \A i \in DOMAIN t : Top - 1 \notin Cells(t[i])
  BY <1>1, <1>3 DEF Cells
<1>6. Top - 1 \notin CellsOf(t)
  BY <1>5 DEF CellsOf
<1>7. QED
  BY <1>2, <1>4, <1>6 DEF Tiling

\* The write blocks cover every erase block and end where it ends.
LEMMA EraseBlocksCovered ==
  ASSUME NEW e, Parted(e), Apart(e), NEW w, Parted(w), Apart(w), CellsOf(w) = CellsOf(e),
         \A k \in DOMAIN w : \E i \in DOMAIN e : Under(w[k], e[i]),
         NEW i \in DOMAIN e
  PROVE  Cover(w, e[i].base, e[i].size) = e[i].size
<1> DEFINE a == e[i].base
           n == e[i].size
<1>1. Settled(e) /\ Settled(w) /\ Tiling(w) /\ Top \in Nat \ {0, 1}
  BY PartedTiles, TableAssumption DEF Parted
<1>2. a \in Nat /\ n \in Nat \ {0} /\ a + n <= Top - 1
  BY <1>1, SettledIs
<1>3. \A k \in DOMAIN w : Sits(w[k])
  BY <1>1 DEF Settled
<1>4. \A j \in DOMAIN e : Sits(e[j])
  BY <1>1 DEF Settled
<1>5. ASSUME NEW x \in Nat, a <= x, x < a + n
      PROVE  \E k \in DOMAIN w : Inside(w, a, a + n, x, k)
  <2>1. x \in Cells(e[i])
    BY <1>4, <1>5, BlocksApart DEF Holds
  <2>2. PICK k \in DOMAIN w : x \in Cells(w[k])
    BY <2>1 DEF CellsOf
  <2>3. PICK j \in DOMAIN e : Under(w[k], e[j])
    OBVIOUS
  <2>4. Holds(w[k], x)
    BY <1>3, <2>2, BlocksApart
  <2>5. /\ w[k].base \in Nat /\ w[k].size \in Nat /\ e[j].base \in Nat /\ e[j].size \in Nat
    BY <1>1, SettledIs
  <2>6. Holds(e[j], x)
    BY <2>3, <2>4, <2>5 DEF Holds, Under
  <2>7. x \in Cells(e[j])
    BY <1>4, <2>6, BlocksApart
  <2>8. j = i
    <3>1. ~ (j < i) /\ ~ (i < j)
      BY <2>1, <2>7 DEF Apart
    <3>2. i \in Nat /\ j \in Nat
      BY <1>1, SettledIs
    <3>3. QED
      BY <3>1, <3>2
  <2>9. QED
    BY <2>3, <2>4, <2>8 DEF Inside, Under, Holds
<1>6. FilledUp(w, a, a + n)
  BY <1>5 DEF FilledUp
<1>7. Filled(w, a, n)
  BY <1>1, <1>2, <1>6, FilledIs
<1>8. a \in Addr /\ n \in 0 .. Top
  BY <1>1, <1>2 DEF Addr
<1>9. ValidRange(w, a, n)
  BY <1>1, <1>7, <1>8, RangeAnswers
<1>10. QED
  BY <1>2, <1>9 DEF ValidRange

\* The tables and areas of a description whose pieces are as they should be.
Described == /\ fiErase = Table(rfi, FALSE) /\ fiWrite = Table(rfi, TRUE)
             /\ fiContig = AreasOf(fiErase)
LEMMA DescribedIs ==
  ASSUME rfi \in Seq(Raw), AllPlain, Described
  PROVE  /\ Tiled(rfi, FALSE, fiErase) /\ Tiled(rfi, TRUE, fiWrite)
         /\ fiErase # NoTable <=> fiWrite # NoTable
         /\ fiErase # NoTable => \A k \in DOMAIN fiWrite : \E i \in DOMAIN fiErase : Under(fiWrite[k], fiErase[i])
<1>1. \A i \in DOMAIN rfi : Plain(rfi[i])
  BY DEF AllPlain
<1>2. Tiled(rfi, FALSE, fiErase)
  <2>1. Tiled(rfi, FALSE, Table(rfi, FALSE))
    BY <1>1, TableTiles
  <2>2. QED
    BY <2>1 DEF Described
<1>3. Tiled(rfi, TRUE, fiWrite)
  <2>1. Tiled(rfi, TRUE, Table(rfi, TRUE))
    BY <1>1, TableTiles
  <2>2. QED
    BY <2>1 DEF Described
<1>4. fiErase # NoTable <=> fiWrite # NoTable
  BY <1>2, <1>3 DEF Tiled
<1>5. ASSUME fiErase # NoTable, NEW k \in DOMAIN fiWrite
      PROVE  \E i \in DOMAIN fiErase : Under(fiWrite[k], fiErase[i])
  <2>1. rfi # <<>> /\ Made(rfi, FALSE, fiErase) /\ Made(rfi, TRUE, fiWrite)
    BY <1>2, <1>3, <1>4, <1>5 DEF Tiled
  <2>2. QED
    BY <1>1, <2>1, WritesNest
<1>6. QED
  BY <1>2, <1>3, <1>4, <1>5

\* Such tables tile the pieces,
LEMMA TablesTiled ==
  ASSUME rfi \in Seq(Raw), AllPlain, Described
  PROVE  TablesTile
<1>1. /\ Tiled(rfi, FALSE, fiErase) /\ Tiled(rfi, TRUE, fiWrite)
      /\ fiErase # NoTable <=> fiWrite # NoTable
      /\ fiErase # NoTable => \A k \in DOMAIN fiWrite : \E i \in DOMAIN fiErase : Under(fiWrite[k], fiErase[i])
  BY DescribedIs
<1>2. ASSUME fiErase # NoTable, NEW k \in DOMAIN fiWrite
      PROVE  \E i \in DOMAIN fiErase : Cells(fiWrite[k]) \subseteq Cells(fiErase[i])
  <2>1. PICK i \in DOMAIN fiErase : Under(fiWrite[k], fiErase[i])
    BY <1>1, <1>2
  <2>2. Settled(fiErase) /\ Settled(fiWrite)
    BY <1>1, <1>2 DEF Tiled, Parted
  <2>3. Sits(fiWrite[k]) /\ Sits(fiErase[i])
    BY <2>2 DEF Settled
  <2>4. /\ fiWrite[k].base \in Nat /\ fiWrite[k].size \in Nat
        /\ fiErase[i].base \in Nat /\ fiErase[i].size \in Nat
    BY <2>2, SettledIs
  <2>5. ASSUME NEW a, a \in Cells(fiWrite[k])
        PROVE  a \in Cells(fiErase[i])
    <3>1. a \in Nat /\ Holds(fiWrite[k], a)
      BY <2>3, <2>5, BlocksApart
    <3>2. Holds(fiErase[i], a)
      BY <2>1, <2>4, <3>1 DEF Under, Holds
    <3>3. QED
      BY <2>3, <3>1, <3>2, BlocksApart
  <2>6. QED
    BY <2>5
<1>3. ASSUME NEW t \in {fiErase, fiWrite}
      PROVE  /\ (t # NoTable) = (rfi # <<>> /\ PiecesApart(rfi))
             /\ t # NoTable => Apart(t) /\ CellsOf(t) = UNION {Piece(rfi[i]) : i \in DOMAIN rfi}
  BY <1>1 DEF Tiled
<1>4. QED
  BY <1>1, <1>2, <1>3 DEF TablesTile, PiecesApart

\* the areas are the maximal ones,
LEMMA AreasAreMaximal ==
  ASSUME rfi \in Seq(Raw), AllPlain, Described
  PROVE  AreasMaximal
<1> SUFFICES ASSUME fiErase # NoTable
             PROVE  /\ Apart(fiContig) /\ CellsOf(fiContig) = CellsOf(fiErase)
                    /\ \A i, j \in DOMAIN fiContig : End(fiContig[i]) # fiContig[j].base
                    /\ \A a \in Addr, n \in 1 .. Top : a .. a + n - 1 \subseteq CellsOf(fiErase) =>
                         n <= LargestArea(fiContig).size
  BY DEF AreasMaximal, HasTables
<1>1. Tiled(rfi, FALSE, fiErase) /\ fiContig = AreasOf(fiErase)
  BY DescribedIs DEF Described
<1>2. Parted(fiErase) /\ fiErase # <<>>
  BY <1>1 DEF Tiled, NoTable
<1>3. /\ Settled(fiContig) /\ fiContig # <<>> /\ Apart(fiContig) /\ CellsOf(fiContig) = CellsOf(fiErase)
      /\ \A i, j \in DOMAIN fiContig : End(fiContig[i]) # fiContig[j].base
  BY <1>1, <1>2, AreasAre
<1>4. ASSUME NEW a \in Addr, NEW n \in 1 .. Top, a .. a + n - 1 \subseteq CellsOf(fiErase)
      PROVE  n <= LargestArea(fiContig).size
  <2>1. a \in Nat /\ n \in Nat \ {0}
    BY DEF Addr
  <2>2. a .. a + n - 1 \subseteq CellsOf(fiContig)
    BY <1>3, <1>4
  <2>3. PICK m \in DOMAIN fiContig : n <= fiContig[m].size
    BY <1>3, <2>1, <2>2, RunInArea
  <2>4. fiContig \in Seq(Block)
    BY <1>3 DEF Settled
  <2>5. LargestArea(fiContig) \in Block /\ fiContig[m].size <= LargestArea(fiContig).size
    BY <1>3, <2>4, LargestIs
  <2>6. fiContig[m].size \in Nat /\ LargestArea(fiContig).size \in Nat
    BY <1>3, <2>5, SettledIs DEF Block
  <2>7. QED
    BY <2>1, <2>3, <2>5, <2>6
<1>5. QED
  BY <1>3, <1>4

\* and what the loops rely on is so.
LEMMA TablesAreRegular ==
  ASSUME rfi \in Seq(Raw), AllPlain, Described
  PROVE  Regular(fiErase, fiWrite, fiContig)
<1>1. /\ Tiled(rfi, FALSE, fiErase) /\ Tiled(rfi, TRUE, fiWrite)
      /\ fiErase # NoTable <=> fiWrite # NoTable
      /\ fiErase # NoTable => \A k \in DOMAIN fiWrite : \E i \in DOMAIN fiErase : Under(fiWrite[k], fiErase[i])
  BY DescribedIs
<1>2. fiContig = AreasOf(fiErase)
  BY DEF Described
<1>3. Parted(<<>>)
  <2>1. <<>> \in Seq(Block) /\ DOMAIN <<>> = {}
    OBVIOUS
  <2>2. QED
    BY <2>1 DEF Parted, Settled, Separate, Ordered
<1>4. Parted(fiErase) /\ Parted(fiWrite)
  BY <1>1, <1>3 DEF Tiled, NoTable
<1>5. ASSUME NEW t, Parted(t)
      PROVE  t \in Seq(Block) /\ \A i \in DOMAIN t : t[i].base + t[i].size <= Top
  <2>1. Settled(t)
    BY <1>5 DEF Parted
  <2>2. \A i \in DOMAIN t : t[i].base \in Nat /\ t[i].size \in Nat /\ t[i].base + t[i].size <= Top - 1
    BY <2>1, SettledIs
  <2>3. QED
    BY <2>1, <2>2, TableAssumption DEF Settled
<1>6. fiContig \in Seq(Block)
  BY <1>2, <1>4, AreasFound DEF Found
<1>7. ASSUME fiErase # NoTable
      PROVE  /\ fiContig # NoTable
             /\ \A i \in DOMAIN fiErase : Cover(fiWrite, fiErase[i].base, fiErase[i].size) = fiErase[i].size
  <2>1. fiContig # NoTable
    BY <1>2, <1>4, <1>7, AreasAre DEF NoTable
  <2>2. Apart(fiErase) /\ Apart(fiWrite) /\ CellsOf(fiWrite) = CellsOf(fiErase)
    BY <1>1, <1>7 DEF Tiled
  <2>3. QED
    BY <1>1, <1>4, <1>7, <2>1, <2>2, EraseBlocksCovered
<1>8. QED
  BY <1>4, <1>5, <1>6, <1>7 DEF Regular

\* What the tables of a description are at first.
LEMMA TablesAtFirst ==
  ASSUME Init
  PROVE  rfi \in Seq(Raw) /\ Described
BY LayoutsAssumption DEF Init, Described

-----------------------------------------------------------------------------
(* The theorems.                                                             *)

\* The tables are never changed.
LEMMA TablesStay ==
  ASSUME [Next]_vars
  PROVE  rfi' = rfi /\ fiErase' = fiErase /\ fiWrite' = fiWrite /\ fiContig' = fiContig
<1>1. CASE Script
  BY <1>1 DEF Script, ScriptFinishes, ScriptFails, ScriptHangs, ScriptCalls, tables
<1>2. CASE CheckRange \/ EraseLoop \/ Upload \/ WriteBlock \/ WritesEnd
  BY <1>2 DEF CheckRange, EraseLoop, Upload, WriteBlock, WritesEnd, Prepare, Fails, Stays, tables
<1>3. CASE Go \/ Stopped \/ TimedOut
  BY <1>3 DEF Go, Stopped, TimedOut, Result, Fails, Stays, tables
<1>4. CASE UNCHANGED vars
  BY <1>4 DEF vars, tables
<1>5. QED
  BY <1>1, <1>2, <1>3, <1>4 DEF Next, Tool

\* so that what is so of them stays so.
LEMMA TablesStaySo ==
  ASSUME [Next]_vars
  PROVE  (AllPlain' <=> AllPlain) /\ (TablesInv' <=> TablesInv)
<1>1. rfi' = rfi /\ fiErase' = fiErase /\ fiWrite' = fiWrite /\ fiContig' = fiContig
  BY TablesStay
<1>2. AllPlain' <=> AllPlain
  BY <1>1 DEF AllPlain
<1>3. TablesInv' <=> TablesInv
  BY <1>1 DEF TablesInv, Regular
<1>4. QED
  BY <1>2, <1>3

\* No step leads back to the checking of the range.
LEMMA CheckedOnce ==
  ASSUME [Next]_vars, pc' = "check"
  PROVE  pc = "check"
<1>1. CASE Script
  BY <1>1 DEF Script, ScriptFinishes, ScriptFails, ScriptHangs, ScriptCalls
<1>2. CASE CheckRange
  BY <1>2 DEF CheckRange
<1>3. CASE EraseLoop \/ Upload \/ WriteBlock \/ WritesEnd
  BY <1>3 DEF EraseLoop, Upload, WriteBlock, WritesEnd, Prepare, Fails
<1>4. CASE Go
  BY <1>4 DEF Go, Fails, Waiting
<1>5. CASE Stopped
  BY <1>5 DEF Stopped, Result, BlockDone, Fails
<1>6. CASE TimedOut
  BY <1>6 DEF TimedOut, Fails
<1>7. CASE UNCHANGED vars
  BY <1>7 DEF vars
<1>8. QED
  BY <1>1, <1>2, <1>3, <1>4, <1>5, <1>6, <1>7 DEF Next, Tool

\* Every step keeps the invariant.
LEMMA StepIs ==
  ASSUME IInv, [Next]_vars
  PROVE  IInv'
<1>1. CASE Script
  BY <1>1, ScriptFinishesIs, ScriptFailsIs, ScriptCallsIs DEF Script
<1>2. CASE Tool
  BY <1>2, CheckRangeIs, EraseLoopIs, UploadIs, WriteBlockIs, WritesEndIs, GoIs, StoppedIs, TimedOutIs
     DEF Tool
<1>3. CASE UNCHANGED vars
  <2>1. /\ Kept /\ flash' = flash /\ core' = core /\ r0' = r0 /\ dwpt' = dwpt
        /\ skipped' = skipped /\ lost' = lost /\ pc' = pc
    BY <1>3 DEF vars, Kept, target
  <2>2. /\ rfi' = rfi /\ fiErase' = fiErase /\ fiWrite' = fiWrite /\ fiContig' = fiContig
        /\ op' = op /\ before' = before
        /\ addr' = addr /\ len' = len /\ ofst' = ofst /\ sent' = sent
        /\ stage' = stage /\ job' = job
    BY <2>1, KeptIs
  <2> USE DEF IInv, Control
  <2>3. TypeOK' /\ TablesInv' /\ StartInv'
    BY <2>1, <2>2 DEF TypeOK, TablesInv, Regular, StartInv
  <2>4. PlaceInv' /\ JobInv' /\ OnlyItsRange' /\ CoreInv'
    BY <2>1, <2>2 DEF PlaceInv, JobInv, OnlyItsRange, CoreInv, AtErase, AtWrite, Size, InRange, Cells, Between
  <2>5. StageInv' /\ CellInv'
    BY <2>1, <2>2 DEF StageInv, CellInv, CellRight, Acked, Size, AtWrite, Unfinished, Finished,
                      InRange, Cells, Due, Rest
  <2>6. QED
    BY <2>3, <2>4, <2>5
<1>4. QED
  BY <1>1, <1>2, <1>3 DEF Next

\* What the invariant says of every moment.
LEMMA PrefixHolds ==
  ASSUME IInv
  PROVE  LeavesPrefix
<1>1. TypeOK /\ OnlyItsRange
  BY DEF IInv, Control
<1>2. Prefix
  BY DEF IInv, CellInv, CellRight, Acked, Rest, Prefix
<1>3. QED
  BY <1>1, <1>2 DEF LeavesPrefix

\* What the invariant says of success.
LEMMA SuccessHolds ==
  ASSUME IInv
  PROVE  SuccessIsDone
<1> SUFFICES ASSUME pc = "ok", Acked, NEW a \in Addr, InRange(a)
             PROVE  flash[a] = Due(a)
  BY DEF SuccessIsDone, Acked
<1>1. ofst = len /\ sent = IF op.mode = "erase" THEN 0 ELSE len
  BY DEF IInv, Control, PlaceInv
<1>2. a \in Nat /\ addr <= a /\ a < addr + len
  BY DEF InRange, Addr
<1>3. len > 0
  BY <1>2, TypeParts
<1>4. flash[a] = IF sent > 0 THEN Due(a) ELSE Erased
  BY <1>1, <1>2 DEF IInv, CellInv, CellRight
<1>5. CASE op.mode = "erase"
  BY <1>1, <1>4, <1>5 DEF Due
<1>6. CASE op.mode # "erase"
  BY <1>1, <1>3, <1>4, <1>6
<1>7. QED
  BY <1>5, <1>6

\* The tables of a description whose pieces are as they should be tile these, with
\* the write blocks within the erase blocks, and are there exactly if no two pieces
\* overlap; the areas are the maximal runs without a gap; and the loops over a
\* range find what they rely on: for every number of pieces, of blocks, and every
\* size (scriptExpandAndCheckFlashInfoByType with the merge sort and the pass
\* over its result, scriptExpandAndCheckFlashRegions, utilOpFindLargestFlashArea).
THEOREM TablesKept == Spec => []TablesRight
<1>1. Init => TablesRight
  <2> SUFFICES ASSUME Init
               PROVE  TablesRight
    OBVIOUS
  <2>1. rfi \in Seq(Raw) /\ Described
    BY TablesAtFirst
  <2>2. AllPlain => TablesTile /\ AreasMaximal /\ Regular(fiErase, fiWrite, fiContig)
    BY <2>1, TablesTiled, AreasAreMaximal, TablesAreRegular
  <2>3. ~ AllPlain => TablesTile /\ AreasMaximal
    BY DEF TablesTile, AreasMaximal
  <2>4. QED
    BY <2>2, <2>3 DEF TablesRight
<1>2. TablesRight /\ [Next]_vars => TablesRight'
  <2> SUFFICES ASSUME TablesRight, [Next]_vars
               PROVE  TablesRight'
    OBVIOUS
  <2>1. rfi' = rfi /\ fiErase' = fiErase /\ fiWrite' = fiWrite /\ fiContig' = fiContig
    BY TablesStay
  <2>2. pc' = "check" => pc = "check"
    BY CheckedOnce
  <2>3. (AllPlain' <=> AllPlain) /\ (HasTables' <=> HasTables)
    BY <2>1 DEF AllPlain, HasTables
  <2>4. TablesTile'
    BY <2>1, <2>2, <2>3 DEF TablesRight, TablesTile
  <2>5. AreasMaximal'
    BY <2>1, <2>2, <2>3 DEF TablesRight, AreasMaximal
  <2>6. (pc = "check" /\ AllPlain => Regular(fiErase, fiWrite, fiContig))'
    BY <2>1, <2>2, <2>3 DEF TablesRight, Regular
  <2>7. QED
    BY <2>4, <2>5, <2>6 DEF TablesRight
<1>3. QED
  BY <1>1, <1>2, PTL DEF Spec

\* What the inductive invariant rests on holds of such a description.
RestsInv == (AllPlain => TablesInv) /\ (TablesInv => IInv)
LEMMA RestsAtFirst ==
  ASSUME Init
  PROVE  RestsInv
<1>1. rfi \in Seq(Raw) /\ Described
  BY TablesAtFirst
<1>2. AllPlain => TablesInv
  BY <1>1, TablesAreRegular DEF TablesInv
<1>3. QED
  BY <1>2, InitIs DEF RestsInv
LEMMA RestsStep ==
  ASSUME RestsInv, [Next]_vars
  PROVE  RestsInv'
<1>1. (AllPlain' <=> AllPlain) /\ (TablesInv' <=> TablesInv)
  BY TablesStaySo
<1>2. ASSUME TablesInv'
      PROVE  IInv'
  <2>1. IInv
    BY <1>1, <1>2 DEF RestsInv
  <2>2. QED
    BY <2>1, StepIs
<1>3. QED
  BY <1>1, <1>2 DEF RestsInv

\* With pieces as they should be, or with any other tables whose blocks end below
\* the top and whose erase blocks are made of whole write blocks, whatever the
\* script does and whatever is lost, no cell outside the checked range changes,
\* and a write leaves at every moment finished blocks first, one it was at, and
\* then what the erasing left (eraseOpDo, writeOpDo, scriptRun).
THEOREM PrefixLeft == Spec => [](AllPlain \/ Regular(fiErase, fiWrite, fiContig) => LeavesPrefix)
<1>1. Init => RestsInv
  BY RestsAtFirst
<1>2. RestsInv /\ [Next]_vars => RestsInv'
  BY RestsStep
<1>3. RestsInv => (AllPlain \/ Regular(fiErase, fiWrite, fiContig) => LeavesPrefix)
  BY PrefixHolds DEF RestsInv, TablesInv
<1>4. QED
  BY <1>1, <1>2, <1>3, PTL DEF Spec

\* Then an "erase" or a "write" that reports success has done it to every cell of
\* its range, as long as no answer got lost and writes are acknowledged
\* (eraseOpDo, writeOpDo).
THEOREM SuccessDone == Spec => [](AllPlain \/ Regular(fiErase, fiWrite, fiContig) => SuccessIsDone)
<1>1. Init => RestsInv
  BY RestsAtFirst
<1>2. RestsInv /\ [Next]_vars => RestsInv'
  BY RestsStep
<1>3. RestsInv => (AllPlain \/ Regular(fiErase, fiWrite, fiContig) => SuccessIsDone)
  BY SuccessHolds DEF RestsInv, TablesInv
<1>4. QED
  BY <1>1, <1>2, <1>3, PTL DEF Spec

\* The operation asked for stays what it is.
LEMMA OpStays ==
  ASSUME [Next]_vars
  PROVE  op' = op
<1>1. CASE Script
  BY <1>1 DEF Script, ScriptFinishes, ScriptFails, ScriptHangs, ScriptCalls, asked
<1>2. CASE CheckRange \/ EraseLoop \/ Upload \/ WriteBlock \/ WritesEnd
  BY <1>2 DEF CheckRange, EraseLoop, Upload, WriteBlock, WritesEnd, Prepare, Fails, Stays, asked
<1>3. CASE Go \/ Stopped \/ TimedOut
  BY <1>3 DEF Go, Stopped, TimedOut, Result, Fails, Stays, asked
<1>4. CASE UNCHANGED vars
  BY <1>4 DEF vars, asked
<1>5. QED
  BY <1>1, <1>2, <1>3, <1>4 DEF Next, Tool

\* Every operation asked for is one there is.
LEMMA OpAtFirst ==
  ASSUME Init
  PROVE  op \in Ops
<1>1. NoOp \in Ops
  <2>1. 0 \in Addr /\ 0 \in 0 .. Top
    BY Values, Sizes
  <2>2. QED
    BY <2>1 DEF NoOp, Ops, Modes
<1>2. op = NoOp \/ op \in Ops
  BY DEF Init
<1>3. QED
  BY <1>1, <1>2

\* Tables that tile the pieces are tilings.
LEMMA TablesAreTilings ==
  ASSUME TablesRight, pc = "check", AllPlain, HasTables
  PROVE  Tiling(fiErase) /\ Tiling(fiWrite)
<1>1. Regular(fiErase, fiWrite, fiContig)
  BY DEF TablesRight
<1>2. ASSUME NEW t \in {fiErase, fiWrite}
      PROVE  Tiling(t)
  <2>1. t \in Seq(Block) /\ BlocksFit(t)
    BY <1>1 DEF Regular, BlocksFit
  <2>2. Apart(t) /\ CellsOf(t) = UNION {Piece(rfi[i]) : i \in DOMAIN rfi}
    <3>1. t # NoTable
      BY DEF HasTables
    <3>2. QED
      BY <3>1 DEF TablesRight, TablesTile
  <2>3. \A i \in DOMAIN rfi : Top - 1 \notin Piece(rfi[i])
    BY DEF AllPlain, Plain
  <2>4. Top - 1 \notin CellsOf(t)
    BY <2>2, <2>3
  <2>5. QED
    BY <2>1, <2>2, <2>4 DEF Tiling
<1>3. QED
  BY <1>2

\* A range is accepted exactly if the blocks within it fill it, and what is
\* suggested instead is the shortest longer range they fill
\* (scriptIsValidFlashRange).
THEOREM RangesAnswered == Spec => []RangesRight
<1> DEFINE Inv == op \in Ops
<1>1. Init => Inv
  BY OpAtFirst
<1>2. Inv /\ [Next]_vars => Inv'
  BY OpStays
<1>3. Inv /\ TablesRight => RangesRight
  <2> SUFFICES ASSUME op \in Ops, TablesRight, pc = "check", AllPlain, HasTables,
                      NEW t \in {fiErase, fiWrite}
               PROVE  LET longer == {n \in op.len .. Top : Filled(t, op.addr, n)}
                      IN /\ ValidRange(t, op.addr, op.len) = Filled(t, op.addr, op.len)
                         /\ op.len > 0 => SuggestedLen(t, op.addr, op.len) =
                              IF longer = {} THEN 0 ELSE CHOOSE n \in longer : \A k \in longer : n <= k
    BY DEF RangesRight
  <2>1. op.addr \in Addr /\ op.len \in 0 .. Top
    BY DEF Ops
  <2>2. Tiling(t)
    BY TablesAreTilings
  <2>3. QED
    BY <2>1, <2>2, RangeAnswers
<1>4. QED
  BY <1>1, <1>2, <1>3, TablesKept, PTL DEF Spec

=============================================================================
