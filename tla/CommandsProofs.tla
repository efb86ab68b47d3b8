---------------------------- MODULE CommandsProofs ----------------------------
(***************************************************************************)
(* Commands and the DeviceBus under it, for every configuration.           *)
(*                                                                         *)
(* First what loading makes of a file: one metric of a name, the last one  *)
(* of the layers (Merged), and of those what the filters retain (Made).    *)
(* Then the bus: a lock is held by one call at a time, so that between the *)
(* two halves of an I2C read no other call moves the register, and a value *)
(* is that of its own register.  On top of these: what writers have sent   *)
(* (WritesInv), what a read has so far (ReadInv), what pull and watch have *)
(* counted (TallyInv) and the types of all variables.                      *)
(***************************************************************************)
EXTENDS Commands, FiniteSetTheorems, SequenceTheorems, WellFoundedInduction, TLAPS

-----------------------------------------------------------------------------
(* Induction.  Sets take the place of predicates, so that the provers can    *)
(* instantiate the lemmas.                                                   *)

LEMMA LeastElement ==
    ASSUME NEW T \in SUBSET Nat, T # {}
    PROVE  \E m \in T : \A n \in T : m <= n
<1> DEFINE R == {p \in Nat \X Nat : p[1] < p[2]}
<1>1. IsWellFoundedOn(R, Nat)
    BY NatLessThanWellFounded DEF OpToRel
<1>2. PICK x \in T : \A y \in T : ~ (<<y, x>> \in R)
    BY <1>1, WFMin
<1>3. \A y \in T : ~ (y < x)
    BY <1>2
<1>4. QED BY <1>3

LEMMA Induction ==
    ASSUME NEW S, 0 \in S, \A n \in Nat : n \in S => n + 1 \in S
    PROVE  Nat \subseteq S
<1> SUFFICES ASSUME Nat \ S # {} PROVE FALSE
    OBVIOUS
<1>1. PICK m \in Nat \ S : \A n \in Nat \ S : m <= n
    BY LeastElement
<1>2. m - 1 \in Nat /\ m - 1 \in S
    BY <1>1
<1>3. QED BY <1>1, <1>2

\* A fold over a list of length n takes the sets of positions in ascending order:
\* its defining equation has a solution, and that one stays in T if each step does.
FoldEquation(iter, base, next, n) ==
    iter = [S \in SUBSET (1 .. n) |->
               IF S = {} THEN base ELSE next[<<iter[S \ {Max(S)}], Max(S)>>]]

LEMMA MaxIsLast ==
    ASSUME NEW m \in Nat, NEW S \in SUBSET (1 .. m), m \in S
    PROVE  Max(S) = m
<1> DEFINE IsMax(x) == x \in S /\ \A y \in S : x >= y
<1>1. IsMax(m)
    OBVIOUS
<1>2. \A x : IsMax(x) => x = m
    OBVIOUS
<1>3. Max(S) = CHOOSE x : IsMax(x)
    BY DEF Max
<1>4. IsMax(CHOOSE x : IsMax(x))
    BY <1>1
<1>5. QED BY <1>2, <1>3, <1>4

LEMMA FoldSolution ==
    ASSUME NEW N \in Nat, NEW T, NEW base \in T, NEW next \in [T \X (1 .. N) -> T]
    PROVE  \E iter \in [SUBSET (1 .. N) -> T] : FoldEquation(iter, base, next, N)
<1> DEFINE Solvable(n) == \E iter \in [SUBSET (1 .. n) -> T] : FoldEquation(iter, base, next, n)
           Solved == {n \in Nat : n <= N => Solvable(n)}
<1>1. Solvable(0)
    <2> DEFINE iter == [S \in SUBSET (1 .. 0) |-> base]
    <2>1. \A S \in SUBSET (1 .. 0) : S = {}
        OBVIOUS
    <2>2. iter \in [SUBSET (1 .. 0) -> T]
        OBVIOUS
    <2>3. FoldEquation(iter, base, next, 0)
        BY <2>1, Zenon DEF FoldEquation
    <2> HIDE DEF iter
    <2>4. QED BY <2>2, <2>3
<1>2. ASSUME NEW n \in Nat, n + 1 <= N, Solvable(n) PROVE Solvable(n + 1)
    <2>1. PICK old \in [SUBSET (1 .. n) -> T] : FoldEquation(old, base, next, n)
        BY <1>2
    <2> DEFINE new == [S \in SUBSET (1 .. n + 1) |->
                          IF n + 1 \in S THEN next[<<old[S \ {n + 1}], n + 1>>] ELSE old[S]]
    <2>2. \A S \in SUBSET (1 .. n + 1) : S \ {n + 1} \in SUBSET (1 .. n)
        OBVIOUS
    <2>3. \A S \in SUBSET (1 .. n + 1) : n + 1 \notin S => S \in SUBSET (1 .. n)
        OBVIOUS
    <2>4. n + 1 \in 1 .. N /\ n + 1 \in Nat
        BY <1>2
    <2>5. new \in [SUBSET (1 .. n + 1) -> T]
        BY <2>2, <2>3, <2>4
    <2>6. ASSUME NEW S \in SUBSET (1 .. n + 1)
          PROVE  new[S] = IF S = {} THEN base ELSE next[<<new[S \ {Max(S)}], Max(S)>>]
        <3>1. CASE n + 1 \in S
            <4>1. Max(S) = n + 1
                BY <2>4, <3>1, MaxIsLast
            <4>2. /\ S \ {n + 1} \in SUBSET (1 .. n + 1)
                  /\ n + 1 \notin S \ {n + 1}
                  /\ S # {}
                BY <3>1
            <4>3. new[S \ {n + 1}] = old[S \ {n + 1}]
                BY <4>2
            <4>4. QED BY <3>1, <4>1, <4>2, <4>3
        <3>2. CASE n + 1 \notin S
            <4>1. S \in SUBSET (1 .. n) /\ S \ {Max(S)} \in SUBSET (1 .. n)
                BY <2>3, <3>2
            <4>2. old[S] = IF S = {} THEN base ELSE next[<<old[S \ {Max(S)}], Max(S)>>]
                BY <2>1, <4>1, Zenon DEF FoldEquation
            <4>3. /\ S \ {Max(S)} \in SUBSET (1 .. n + 1)
                  /\ n + 1 \notin S \ {Max(S)}
                BY <3>2
            <4>4. new[S] = old[S] /\ new[S \ {Max(S)}] = old[S \ {Max(S)}]
                BY <3>2, <4>3
            <4>5. QED BY <4>2, <4>4
        <3>3. QED BY <3>1, <3>2
    <2>7. FoldEquation(new, base, next, n + 1)
        <3>1. DOMAIN new = SUBSET (1 .. n + 1)
            OBVIOUS
        <3>2. new = [S \in SUBSET (1 .. n + 1) |-> new[S]]
            OBVIOUS
        <3> HIDE DEF new
        <3>3. QED BY <2>6, <3>2, Zenon DEF FoldEquation
    <2> HIDE DEF new
    <2>8. QED BY <2>5, <2>7
<1> HIDE DEF Solvable
<1>3. 0 \in Solved /\ \A n \in Nat : n \in Solved => n + 1 \in Solved
    BY <1>1, <1>2
<1> HIDE DEF Solved
<1>4. Nat \subseteq Solved
    BY <1>3, Induction
<1>5. Solvable(N)
    BY <1>4 DEF Solved
<1>6. QED BY <1>5 DEF Solvable

LEMMA FoldTrace ==
    ASSUME NEW n \in Nat, NEW base, NEW next, NEW iter, FoldEquation(iter, base, next, n)
    PROVE  /\ iter[1 .. 0] = base
           /\ \A k \in 1 .. n : iter[1 .. k] = next[<<iter[1 .. k - 1], k>>]
<1>1. iter[1 .. 0] = base
    <2>1. 1 .. 0 = {} /\ 1 .. 0 \in SUBSET (1 .. n)
        OBVIOUS
    <2>2. QED BY <2>1, Zenon DEF FoldEquation
<1>2. ASSUME NEW k \in 1 .. n
      PROVE  iter[1 .. k] = next[<<iter[1 .. k - 1], k>>]
    <2>1. /\ 1 .. k # {}
          /\ 1 .. k \in SUBSET (1 .. n)
          /\ (1 .. k) \ {k} = 1 .. k - 1
        OBVIOUS
    <2>2. Max(1 .. k) = k
        <3>1. k \in Nat /\ 1 .. k \in SUBSET (1 .. k) /\ k \in 1 .. k
            OBVIOUS
        <3>2. QED BY <3>1, MaxIsLast
    <2>3. QED BY <2>1, <2>2, Zenon DEF FoldEquation
<1>3. QED BY <1>1, <1>2

\* The same for a recursive function on 0 .. N.
RecursionEquation(f, base, next, N) ==
    f = [k \in 0 .. N |-> IF k = 0 THEN base ELSE next[<<f[k - 1], k>>]]

LEMMA RecursionSolution ==
    ASSUME NEW N \in Nat, NEW T, NEW base \in T, NEW next \in [T \X (1 .. N) -> T]
    PROVE  \E f : RecursionEquation(f, base, next, N)
<1>1. PICK iter : FoldEquation(iter, base, next, N)
    BY FoldSolution
<1>2. /\ iter[1 .. 0] = base
      /\ \A k \in 1 .. N : iter[1 .. k] = next[<<iter[1 .. k - 1], k>>]
    BY <1>1, FoldTrace
<1> DEFINE f == [k \in 0 .. N |-> iter[1 .. k]]
<1>3. ASSUME NEW k \in 0 .. N
      PROVE  f[k] = IF k = 0 THEN base ELSE next[<<f[k - 1], k>>]
    <2>1. CASE k = 0
        BY <1>2, <2>1
    <2>2. CASE k # 0
        <3>1. k \in 1 .. N /\ k - 1 \in 0 .. N
            BY <2>2
        <3>2. f[k] = iter[1 .. k] /\ f[k - 1] = iter[1 .. k - 1]
            BY <3>1
        <3>3. QED BY <1>2, <2>2, <3>1, <3>2
    <2>3. QED BY <2>1, <2>2
<1>4. f = [k \in 0 .. N |-> f[k]]
    OBVIOUS
<1> HIDE DEF f
<1>5. RecursionEquation(f, base, next, N)
    BY <1>3, <1>4, Zenon DEF RecursionEquation
<1>6. QED BY <1>5, Zenon

-----------------------------------------------------------------------------
(* Retained *)

\* Retained(seq, kept) of the first k elements.
RetainedUpTo(seq, kept) ==
    CHOOSE f : f = [k \in 0 .. Len(seq) |->
                       IF k = 0 THEN <<>>
                       ELSE IF seq[k] \in kept THEN Append(f[k - 1], seq[k])
                       ELSE f[k - 1]]

LEMMA RetainedEquation ==
    ASSUME NEW S, NEW seq \in Seq(S), NEW kept
    PROVE  LET f == RetainedUpTo(seq, kept)
           IN  /\ Retained(seq, kept) = f[Len(seq)]
               /\ f[0] = <<>>
               /\ \A k \in 1 .. Len(seq) :
                     f[k] = IF seq[k] \in kept THEN Append(f[k - 1], seq[k]) ELSE f[k - 1]
<1> DEFINE N == Len(seq)
           Solves(f) == f = [k \in 0 .. N |->
                               IF k = 0 THEN <<>>
                               ELSE IF seq[k] \in kept THEN Append(f[k - 1], seq[k])
                               ELSE f[k - 1]]
           T == Seq(S)
           next == [p \in T \X (1 .. N) |->
                       IF seq[p[2]] \in kept THEN Append(p[1], seq[p[2]]) ELSE p[1]]
<1>1. N \in Nat /\ \A k \in 1 .. N : seq[k] \in S
    BY LenProperties, ElementOfSeq
<1>2. next \in [T \X (1 .. N) -> T]
    BY <1>1
<1>3. <<>> \in T
    OBVIOUS
<1>4. PICK g : g = [k \in 0 .. N |-> IF k = 0 THEN <<>> ELSE next[<<g[k - 1], k>>]]
    <2> HIDE DEF next, T, N
    <2>1. N \in Nat
        BY <1>1
    <2>2. \E g : RecursionEquation(g, <<>>, next, N)
        BY <2>1, <1>2, <1>3, RecursionSolution
    <2>3. QED BY <2>2, Zenon DEF RecursionEquation
<1> DEFINE Good == {n \in Nat : n <= N => g[n] \in T}
<1>5. Nat \subseteq Good
    <2>1. 0 \in Good
        BY <1>1, <1>3, <1>4
    <2>2. ASSUME NEW n \in Nat, n \in Good PROVE n + 1 \in Good
        <3>1. SUFFICES ASSUME n + 1 <= N PROVE g[n + 1] \in T
            OBVIOUS
        <3>2. /\ n + 1 \in 0 .. N /\ n + 1 # 0 /\ (n + 1) - 1 = n /\ g[n] \in T
              /\ <<g[n], n + 1>> \in T \X (1 .. N)
            BY <1>1, <2>2, <3>1
        <3> HIDE DEF next, T, N
        <3>3. g[n + 1] = next[<<g[n], n + 1>>]
            BY <1>4, <3>2, Zenon
        <3>4. QED BY <1>2, <3>2, <3>3
    <2> HIDE DEF Good
    <2>3. QED BY <2>1, <2>2, Induction
<1>6. \A k \in 1 .. N : k - 1 \in 0 .. N /\ <<g[k - 1], k>> \in T \X (1 .. N) /\ k \in 0 .. N /\ k # 0
    BY <1>1, <1>5
<1>7. ASSUME NEW k \in 0 .. N
      PROVE  g[k] = IF k = 0 THEN <<>>
                    ELSE IF seq[k] \in kept THEN Append(g[k - 1], seq[k])
                    ELSE g[k - 1]
    <2>1. CASE k = 0
        BY <1>4, <2>1
    <2>2. CASE k # 0
        <3>1. k \in 1 .. N
            BY <2>2
        <3>2. g[k] = next[<<g[k - 1], k>>]
            <4> HIDE DEF next, N
            <4>1. QED BY <1>4, <1>6, <3>1, Zenon
        <3>3. next[<<g[k - 1], k>>] = IF seq[k] \in kept THEN Append(g[k - 1], seq[k]) ELSE g[k - 1]
            BY <1>6, <3>1
        <3>4. QED BY <2>2, <3>2, <3>3
    <2>3. QED BY <2>1, <2>2
<1>8. g = [k \in 0 .. N |-> g[k]]
    <2> HIDE DEF next, N
    <2>1. g = [k \in DOMAIN g |-> g[k]] /\ DOMAIN g = 0 .. N
        BY <1>4
    <2>2. QED BY <2>1
<1>9. Solves(g)
    <2> HIDE DEF next, N
    <2>1. QED BY <1>7, <1>8, Zenon
<1> DEFINE f == RetainedUpTo(seq, kept)
<1>10. Solves(f) /\ Retained(seq, kept) = f[N]
    BY <1>9 DEF RetainedUpTo, Retained
<1> HIDE DEF f
<1>11. f[0] = <<>>
    BY <1>1, <1>10
<1>12. ASSUME NEW k \in 1 .. N
       PROVE  f[k] = IF seq[k] \in kept THEN Append(f[k - 1], seq[k]) ELSE f[k - 1]
    <2>1. k \in 0 .. N /\ k # 0
        OBVIOUS
    <2>2. QED BY <1>10, <2>1, Zenon
<1>13. QED BY <1>10, <1>11, <1>12 DEF f

\* The elements of part come from ascending places of whole.
Places(part, whole) ==
    \E pos \in [DOMAIN part -> DOMAIN whole] :
       /\ \A j, k \in DOMAIN pos : j < k => pos[j] < pos[k]
       /\ \A k \in DOMAIN pos : part[k] = whole[pos[k]]

\* What is retained has kept its order.
LEMMA RetainedFacts ==
    ASSUME NEW S, NEW seq \in Seq(S), NEW kept
    PROVE  /\ Retained(seq, kept) \in Seq(S \cap kept)
           /\ Places(Retained(seq, kept), seq)
<1> DEFINE N == Len(seq)
           f == RetainedUpTo(seq, kept)
           R == Seq(S \cap kept)
           From(n, pos) ==
               /\ \A j, k \in DOMAIN pos : j < k => pos[j] < pos[k]
               /\ \A k \in DOMAIN pos : f[n][k] = seq[pos[k]]
           Good(n) == f[n] \in R /\ \E pos \in [DOMAIN f[n] -> 1 .. n] : From(n, pos)
           AllGood == {n \in Nat : n <= N => Good(n)}
<1>1. /\ N \in Nat /\ DOMAIN seq = 1 .. N
      /\ \A k \in 1 .. N : seq[k] \in S
      /\ Retained(seq, kept) = f[N]
      /\ f[0] = <<>>
      /\ \A k \in 1 .. N : f[k] = IF seq[k] \in kept THEN Append(f[k - 1], seq[k]) ELSE f[k - 1]
    BY LenProperties, ElementOfSeq, RetainedEquation
<1> HIDE DEF f, N
<1>2. Good(0)
    <2> DEFINE pos == [k \in {} |-> 1]
    <2>1. DOMAIN <<>> = {} /\ <<>> \in R
        OBVIOUS
    <2>2. pos \in [DOMAIN f[0] -> 1 .. 0] /\ DOMAIN pos = {}
        BY <1>1, <2>1
    <2> HIDE DEF pos, R
    <2>3. From(0, pos)
        BY <2>2
    <2>4. f[0] \in R
        BY <1>1, <2>1
    <2>5. QED BY <2>2, <2>3, <2>4
<1>3. ASSUME NEW n \in Nat, n + 1 <= N, Good(n) PROVE Good(n + 1)
    <2> DEFINE t == f[n]
               u == f[n + 1]
               x == seq[n + 1]
    <2>1. PICK pos \in [DOMAIN t -> 1 .. n] : From(n, pos)
        BY <1>3
    <2>2. /\ t \in R /\ Len(t) \in Nat /\ DOMAIN t = 1 .. Len(t)
          /\ n + 1 \in 1 .. N /\ (n + 1) - 1 = n /\ x \in S
          /\ u = IF x \in kept THEN Append(t, x) ELSE t
        BY <1>1, <1>3, LenProperties
    <2> HIDE DEF x
    <2>3. CASE x \notin kept
        <3>1. u = t
            BY <2>2, <2>3
        <3>2. DOMAIN pos = DOMAIN t /\ \A k \in DOMAIN t : pos[k] \in 1 .. n + 1
            BY <2>1, <2>2
        <3>3. pos = [k \in DOMAIN pos |-> pos[k]]
            BY <2>1
        <3>4. pos \in [DOMAIN u -> 1 .. n + 1]
            BY <3>1, <3>2, <3>3, Zenon
        <3>5. From(n + 1, pos)
            BY <2>1, <3>1
        <3>6. QED BY <2>2, <3>1, <3>4, <3>5
    <2>4. CASE x \in kept
        <3> HIDE DEF t
        <3> DEFINE m == Len(t) + 1
                   new == [k \in 1 .. m |-> IF k = m THEN n + 1 ELSE pos[k]]
        <3>1. /\ u \in R /\ DOMAIN u = 1 .. m
              /\ \A k \in 1 .. Len(t) : u[k] = t[k]
              /\ u[m] = x
            <4> HIDE DEF u, R
            <4>1. x \in S \cap kept /\ u = Append(t, x)
                BY <2>2, <2>4
            <4> USE DEF R
            <4>2. QED BY <2>2, <4>1, AppendProperties, LenProperties
        <3>2. \A k \in 1 .. m : IF k = m THEN new[k] = n + 1
                                ELSE k \in 1 .. Len(t) /\ k \in DOMAIN t /\ new[k] = pos[k] /\ pos[k] \in 1 .. n
            <4>1. \A k \in 1 .. m : k # m => k \in 1 .. Len(t)
                BY <2>2
            <4>2. \A k \in 1 .. Len(t) : k \in DOMAIN t /\ pos[k] \in 1 .. n
                BY <2>1, <2>2
            <4>3. \A k \in 1 .. m : new[k] = IF k = m THEN n + 1 ELSE pos[k]
                OBVIOUS
            <4> HIDE DEF m, new
            <4>4. QED BY <4>1, <4>2, <4>3
        <3>3. new \in [DOMAIN u -> 1 .. n + 1] /\ DOMAIN new = 1 .. m
            BY <3>1, <3>2
        <3> HIDE DEF new, u
        <3>4. ASSUME NEW j \in 1 .. m, NEW k \in 1 .. m, j < k PROVE new[j] < new[k]
            <4>1. j # m /\ j \in 1 .. Len(t) /\ new[j] = pos[j] /\ pos[j] \in 1 .. n /\ j \in DOMAIN t
                BY <2>2, <3>2, <3>4
            <4>2. CASE k = m
                BY <3>2, <4>1, <4>2
            <4>3. CASE k # m
                <5>1. new[k] = pos[k] /\ k \in DOMAIN t /\ DOMAIN pos = DOMAIN t
                    BY <2>1, <3>2, <4>3
                <5>2. QED BY <2>1, <3>4, <4>1, <5>1 DEF t
            <4>4. QED BY <4>2, <4>3
        <3>5. ASSUME NEW k \in 1 .. m PROVE u[k] = seq[new[k]]
            <4>1. CASE k = m
                BY <3>1, <3>2, <4>1 DEF x
            <4>2. CASE k # m
                <5>1. u[k] = t[k] /\ new[k] = pos[k] /\ k \in DOMAIN pos
                    BY <2>1, <3>1, <3>2, <4>2
                <5>2. QED BY <2>1, <5>1 DEF t
            <4>3. QED BY <4>1, <4>2
        <3>6. From(n + 1, new)
            BY <3>3, <3>4, <3>5 DEF u
        <3>7. QED BY <3>1, <3>3, <3>6 DEF u
    <2>5. QED BY <2>3, <2>4
<1> HIDE DEF Good
<1>4. 0 \in AllGood /\ \A n \in Nat : n \in AllGood => n + 1 \in AllGood
    BY <1>1, <1>2, <1>3
<1> HIDE DEF AllGood
<1>5. Nat \subseteq AllGood
    BY <1>4, Induction
<1>6. Good(N)
    BY <1>1, <1>5 DEF AllGood
<1>7. QED BY <1>1, <1>6 DEF Good, Places

LEMMA MaxFacts ==
    ASSUME NEW N \in Nat, NEW X \in SUBSET (1 .. N), X # {}
    PROVE  Max(X) \in X /\ \A y \in X : y <= Max(X)
<1> DEFINE Bounds == {m \in Nat : \A y \in X : y <= m}
<1>1. N \in Bounds /\ Bounds \in SUBSET Nat
    OBVIOUS
<1>2. PICK m \in Bounds : \A b \in Bounds : m <= b
    <2> HIDE DEF Bounds
    <2>1. QED BY <1>1, LeastElement
<1>3. m \in X
    <2> SUFFICES ASSUME m \notin X PROVE FALSE
        OBVIOUS
    <2>1. PICK y \in X : TRUE
        OBVIOUS
    <2>2. m - 1 \in Nat /\ \A z \in X : z <= m - 1
        BY <1>2, <2>1
    <2>3. QED BY <1>2, <2>2
<1>4. QED BY <1>2, <1>3 DEF Max

-----------------------------------------------------------------------------
(* Merging *)

\* r holds one metric of each name in the first n of s: the last one of them.
Merged(r, s, n) ==
    /\ \A j, k \in DOMAIN r : r[j].name = r[k].name => j = k
    /\ \A k \in DOMAIN r : \E p \in 1 .. n :
          r[k] = s[p] /\ \A q \in 1 .. n : s[q].name = s[p].name => q <= p

LEMMA InsertFacts ==
    ASSUME NEW S, NEW s \in Seq(S), NEW n \in Nat, n + 1 <= Len(s),
           NEW r \in Seq(S), Merged(r, s, n)
    PROVE  /\ Insert(r, s[n + 1]) \in Seq(S)
           /\ Merged(Insert(r, s[n + 1]), s, n + 1)
<1> DEFINE m == s[n + 1]
           u == Insert(r, m)
<1>1. /\ Len(s) \in Nat /\ n + 1 \in 1 .. Len(s) /\ m \in S
      /\ Len(r) \in Nat /\ DOMAIN r = 1 .. Len(r) /\ \A k \in 1 .. Len(r) : r[k] \in S
    BY LenProperties, ElementOfSeq
<1> DEFINE IsLast(p) == \A q \in 1 .. n + 1 : s[q].name = s[p].name => q <= p
<1>2. IsLast(n + 1)
    OBVIOUS
<1>3. ASSUME NEW k \in DOMAIN r, r[k].name # m.name
      PROVE  \E p \in 1 .. n + 1 : r[k] = s[p] /\ IsLast(p)
    <2>1. PICK p \in 1 .. n : r[k] = s[p] /\ \A q \in 1 .. n : s[q].name = s[p].name => q <= p
        BY DEF Merged
    <2>2. IsLast(p)
        BY <1>3, <2>1
    <2>3. p \in 1 .. n + 1
        OBVIOUS
    <2>4. QED BY <2>1, <2>2, <2>3
<1>4. CASE \E k \in DOMAIN r : r[k].name = m.name
    <2>1. u = [k \in DOMAIN r |-> IF r[k].name = m.name THEN m ELSE r[k]]
        BY <1>4 DEF Insert
    <2> HIDE DEF m, u
    <2>2. DOMAIN u = DOMAIN r /\ \A k \in DOMAIN r : u[k] = IF r[k].name = m.name THEN m ELSE r[k]
        BY <2>1
    <2>3. u \in Seq(S)
        <3>1. u \in [1 .. Len(r) -> S]
            BY <1>1, <2>1
        <3>2. QED BY <1>1, <3>1, SeqDef
    <2>4. \A k \in DOMAIN u : u[k].name = r[k].name
        BY <2>2
    <2>5. \A j, k \in DOMAIN u : u[j].name = u[k].name => j = k
        BY <2>2, <2>4 DEF Merged
    <2>6. ASSUME NEW k \in DOMAIN u
          PROVE  \E p \in 1 .. n + 1 : u[k] = s[p] /\ IsLast(p)
        <3>1. CASE r[k].name = m.name
            <4>1. u[k] = s[n + 1] /\ n + 1 \in 1 .. n + 1
                BY <2>2, <3>1 DEF m
            <4>2. QED BY <1>2, <4>1
        <3>2. CASE r[k].name # m.name
            BY <1>3, <2>2, <3>2
        <3>3. QED BY <3>1, <3>2
    <2>7. QED BY <2>3, <2>5, <2>6 DEF Merged, m, u
<1>5. CASE ~\E k \in DOMAIN r : r[k].name = m.name
    <2>1. u = Append(r, m)
        BY <1>5 DEF Insert
    <2> HIDE DEF m, u
    <2>2. /\ u \in Seq(S) /\ DOMAIN u = 1 .. Len(r) + 1
          /\ u[Len(r) + 1] = m /\ \A k \in 1 .. Len(r) : u[k] = r[k]
        <3>1. u \in Seq(S) /\ Len(u) = Len(r) + 1 /\ u[Len(r) + 1] = m
              /\ \A k \in 1 .. Len(r) : u[k] = r[k]
            BY <1>1, <2>1, AppendProperties
        <3>2. QED BY <3>1, LenProperties
    <2>3. \A k \in DOMAIN u : k = Len(r) + 1 \/ (k \in DOMAIN r /\ u[k] = r[k] /\ r[k].name # m.name)
        BY <1>1, <1>5, <2>2
    <2>4. \A j, k \in DOMAIN u : u[j].name = u[k].name => j = k
        BY <2>2, <2>3 DEF Merged
    <2>5. ASSUME NEW k \in DOMAIN u
          PROVE  \E p \in 1 .. n + 1 : u[k] = s[p] /\ IsLast(p)
        <3>1. CASE k = Len(r) + 1
            <4>1. u[k] = s[n + 1] /\ n + 1 \in 1 .. n + 1
                BY <2>2, <3>1 DEF m
            <4>2. QED BY <1>2, <4>1
        <3>2. CASE k # Len(r) + 1
            BY <1>3, <2>3, <3>2
        <3>3. QED BY <3>1, <3>2
    <2>6. QED BY <2>2, <2>4, <2>5 DEF Merged, m, u
<1>6. QED BY <1>4, <1>5

\* What resolve_metrics_files makes of the layers.
LEMMA MergedFacts ==
    ASSUME NEW S, NEW s \in Seq(S)
    PROVE  LET r == FoldLeft(Insert, <<>>, s)
           IN  r \in Seq(S) /\ Merged(r, s, Len(s))
<1> DEFINE N == Len(s)
           T == Seq(S)
           next == [p \in T \X (1 .. N) |-> Insert(p[1], s[p[2]])]
           IsIter(g) == g = [X \in SUBSET (1 .. N) |->
                               IF X = {} THEN <<>>
                               ELSE LET x == Max(X) IN Insert(g[X \ {x}], s[x])]
<1>1. N \in Nat /\ DOMAIN s = 1 .. N /\ \A k \in 1 .. N : s[k] \in S
    BY LenProperties, ElementOfSeq
<1>2. ASSUME NEW r \in T, NEW m \in S PROVE Insert(r, m) \in T
    <2>1. DOMAIN r = 1 .. Len(r) /\ Len(r) \in Nat /\ \A k \in 1 .. Len(r) : r[k] \in S
        BY LenProperties, ElementOfSeq
    <2>2. CASE \E k \in DOMAIN r : r[k].name = m.name
        <3>1. Insert(r, m) = [k \in DOMAIN r |-> IF r[k].name = m.name THEN m ELSE r[k]]
            BY <2>2 DEF Insert
        <3>2. Insert(r, m) \in [1 .. Len(r) -> S]
            BY <2>1, <3>1
        <3>3. QED BY <2>1, <3>2, SeqDef
    <2>3. CASE ~\E k \in DOMAIN r : r[k].name = m.name
        <3>1. Insert(r, m) = Append(r, m)
            BY <2>3 DEF Insert
        <3>2. QED BY <3>1, AppendProperties
    <2>4. QED BY <2>2, <2>3
<1>3. next \in [T \X (1 .. N) -> T]
    BY <1>1, <1>2
<1>4. <<>> \in T
    OBVIOUS
<1>5. PICK it \in [SUBSET (1 .. N) -> T] : FoldEquation(it, <<>>, next, N)
    <2> HIDE DEF next, T, N
    <2>1. N \in Nat
        BY <1>1
    <2>2. QED BY <2>1, <1>3, <1>4, FoldSolution
<1>6. \A X \in SUBSET (1 .. N) : X # {} => Max(X) \in 1 .. N
    <2> TAKE X \in SUBSET (1 .. N)
    <2> HAVE X # {}
    <2> HIDE DEF N
    <2>1. QED BY <1>1, MaxFacts
<1>7. ASSUME NEW X \in SUBSET (1 .. N), X # {}
      PROVE  it[X] = Insert(it[X \ {Max(X)}], s[Max(X)])
    <2>1. it[X] = next[<<it[X \ {Max(X)}], Max(X)>>]
        <3> HIDE DEF next, N
        <3>1. QED BY <1>5, <1>7, Zenon DEF FoldEquation
    <2>2. Max(X) \in 1 .. N
        BY <1>6, <1>7
    <2>3. it[X \ {Max(X)}] \in T
        BY <1>5
    <2>4. <<it[X \ {Max(X)}], Max(X)>> \in T \X (1 .. N)
        BY <2>2, <2>3
    <2>5. QED BY <2>1, <2>4
<1>8. it[{}] = <<>>
    <2> HIDE DEF next, N
    <2>1. {} \in SUBSET (1 .. N)
        OBVIOUS
    <2>2. QED BY <1>5, <2>1, Zenon DEF FoldEquation
<1>9. IsIter(it)
    <2>1. it = [X \in SUBSET (1 .. N) |-> it[X]]
        BY <1>5
    <2> HIDE DEF next, N
    <2>2. \A X \in SUBSET (1 .. N) :
             it[X] = IF X = {} THEN <<>> ELSE LET x == Max(X) IN Insert(it[X \ {x}], s[x])
        BY <1>7, <1>8
    <2>3. QED BY <2>1, <2>2, Zenon
<1> DEFINE iter == CHOOSE g : IsIter(g)
<1>10. IsIter(iter) /\ FoldLeft(Insert, <<>>, s) = iter[1 .. N]
    <2>1. IsIter(iter)
        BY <1>9
    <2>2. FoldLeft(Insert, <<>>, s) = iter[1 .. N]
        BY <1>1 DEF FoldLeft, MapThenFoldSet
    <2>3. QED BY <2>1, <2>2
<1> HIDE DEF iter
<1>11. /\ iter[1 .. 0] = <<>>
       /\ \A k \in 1 .. N : iter[1 .. k] = Insert(iter[1 .. k - 1], s[k])
    <2>1. 1 .. 0 = {} /\ 1 .. 0 \in SUBSET (1 .. N)
        OBVIOUS
    <2>2. iter[1 .. 0] = <<>>
        BY <1>10, <2>1, Zenon
    <2>3. ASSUME NEW k \in 1 .. N
          PROVE  iter[1 .. k] = Insert(iter[1 .. k - 1], s[k])
        <3> HIDE DEF N
        <3>0. N \in Nat
            BY <1>1
        <3>1. /\ 1 .. k # {} /\ 1 .. k \in SUBSET (1 .. N)
              /\ (1 .. k) \ {k} = 1 .. k - 1
            <4>1. k \in Nat /\ 1 <= k /\ k <= N
                BY <3>0
            <4>2. (1 .. k) \ {k} = 1 .. k - 1
                BY <4>1
            <4>3. 1 .. k \in SUBSET (1 .. N)
                BY <3>0, <4>1
            <4>4. 1 \in 1 .. k
                BY <4>1
            <4>5. QED BY <4>2, <4>3, <4>4
        <3>2. k \in Nat /\ 1 .. k \in SUBSET (1 .. k) /\ k \in 1 .. k
            OBVIOUS
        <3>3. Max(1 .. k) = k
            BY <3>2, MaxIsLast
        <3>4. QED BY <1>10, <3>1, <3>3, Zenon
    <2>4. QED BY <2>2, <2>3
<1> DEFINE Good(n) == iter[1 .. n] \in Seq(S) /\ Merged(iter[1 .. n], s, n)
           AllGood == {n \in Nat : n <= N => Good(n)}
<1>12. Good(0)
    <2>1. Merged(<<>>, s, 0)
        BY DEF Merged
    <2>2. QED BY <1>11, <2>1
<1>13. ASSUME NEW n \in Nat, n + 1 <= N, Good(n) PROVE Good(n + 1)
    <2>1. n + 1 \in 1 .. N /\ (n + 1) - 1 = n
        BY <1>1, <1>13
    <2>2. iter[1 .. n + 1] = Insert(iter[1 .. n], s[n + 1])
        BY <1>11, <2>1
    <2>3. QED BY <1>13, <2>2, InsertFacts
<1> HIDE DEF Good
<1>14. 0 \in AllGood /\ \A n \in Nat : n \in AllGood => n + 1 \in AllGood
    BY <1>1, <1>12, <1>13
<1> HIDE DEF AllGood
<1>15. Nat \subseteq AllGood
    BY <1>14, Induction
<1>16. Good(N)
    BY <1>1, <1>15 DEF AllGood
<1>17. QED BY <1>10, <1>16 DEF Good

-----------------------------------------------------------------------------
(* What loading makes *)

LEMMA SequenceOf ==
    ASSUME NEW s, IsSequence(s)
    PROVE  /\ s \in Seq({s[k] : k \in DOMAIN s})
           /\ Len(s) \in Nat /\ DOMAIN s = 1 .. Len(s)
<1> DEFINE S == {s[k] : k \in DOMAIN s}
<1>1. s \in Seq(S)
    BY DEF IsSequence
<1> HIDE DEF S
<1>2. Len(s) \in Nat /\ DOMAIN s = 1 .. Len(s)
    BY <1>1, LenProperties
<1>3. QED BY <1>1, <1>2 DEF S

LEMMA SequenceIs ==
    ASSUME NEW S, NEW s \in Seq(S)
    PROVE  IsSequence(s)
<1>1. DOMAIN s = 1 .. Len(s) /\ Len(s) \in Nat
    BY LenProperties
<1> DEFINE R == {s[k] : k \in DOMAIN s}
<1>2. s \in [1 .. Len(s) -> S]
    BY <1>1, SeqDef
<1>3. s = [k \in 1 .. Len(s) |-> s[k]] /\ \A k \in 1 .. Len(s) : s[k] \in R
    BY <1>1, <1>2
<1> HIDE DEF R
<1>4. s \in [1 .. Len(s) -> R]
    BY <1>3
<1>5. s \in Seq(R)
    BY <1>1, <1>4, SeqDef
<1>6. QED BY <1>5 DEF IsSequence, R

LEMMA Flattened ==
    ASSUME NEW S, NEW seqs \in Seq(Seq(S))
    PROVE  FlattenSeq(seqs) \in Seq(S)
<1> DEFINE N == Len(seqs)
           T == Seq(S)
           next == [p \in T \X (1 .. N) |-> p[1] \o seqs[p[2]]]
           Solves(f) == f = [i \in 1 .. N |-> IF i = 1 THEN seqs[i] ELSE f[i - 1] \o seqs[i]]
<1>1. N \in Nat /\ \A k \in 1 .. N : seqs[k] \in T
    BY LenProperties, ElementOfSeq
<1>2. CASE N = 0
    <2>1. seqs = <<>>
        BY <1>2, EmptySeq
    <2>2. FlattenSeq(seqs) = <<>>
        BY <1>2, <2>1 DEF FlattenSeq
    <2>3. QED BY <2>2
<1>3. CASE N # 0
    <2>1. \A a, b \in T : a \o b \in T
        BY ConcatProperties
    <2>2. next \in [T \X (1 .. N) -> T] /\ <<>> \in T
        BY <1>1, <2>1
    <2>3. PICK g : RecursionEquation(g, <<>>, next, N)
        <3> HIDE DEF next, T, N
        <3>1. N \in Nat
            BY <1>1
        <3>2. QED BY <2>2, <3>1, RecursionSolution
    <2>4. /\ g[0] = <<>>
          /\ \A k \in 1 .. N : g[k] = next[<<g[k - 1], k>>]
        <3> HIDE DEF next, N
        <3>1. 0 \in 0 .. N
            BY <1>1
        <3>2. g[0] = <<>>
            BY <2>3, <3>1, Zenon DEF RecursionEquation
        <3>3. \A k \in 1 .. N : k \in 0 .. N /\ k # 0
            BY <1>1
        <3>4. \A k \in 1 .. N : g[k] = next[<<g[k - 1], k>>]
            BY <2>3, <3>3, Zenon DEF RecursionEquation
        <3>5. QED BY <3>2, <3>4
    <2> DEFINE Good == {n \in Nat : n <= N => g[n] \in T}
    <2>5. Nat \subseteq Good
        <3>1. 0 \in Good
            BY <2>2, <2>4
        <3>2. ASSUME NEW n \in Nat, n \in Good, n + 1 <= N PROVE g[n + 1] \in T
            <4>1. n + 1 \in 1 .. N /\ (n + 1) - 1 = n /\ g[n] \in T
                BY <1>1, <3>2
            <4>2. <<g[n], n + 1>> \in T \X (1 .. N)
                BY <4>1
            <4> HIDE DEF next, T, N
            <4>3. g[n + 1] = next[<<g[n], n + 1>>]
                BY <2>4, <4>1
            <4>4. QED BY <2>2, <4>2, <4>3
        <3>3. 0 \in Good /\ \A n \in Nat : n \in Good => n + 1 \in Good
            BY <3>1, <3>2
        <3> HIDE DEF Good
        <3>4. QED BY <3>3, Induction
    <2>6. ASSUME NEW k \in 1 .. N
          PROVE  /\ g[k] \in T /\ g[k - 1] \in T
                 /\ g[k] = IF k = 1 THEN seqs[k] ELSE g[k - 1] \o seqs[k]
        <3>1. k \in Nat /\ k - 1 \in Nat /\ k <= N /\ k - 1 <= N
            BY <1>1
        <3>2. g[k] \in T /\ g[k - 1] \in T
            BY <2>5, <3>1
        <3>3. g[k] = g[k - 1] \o seqs[k]
            <4>1. <<g[k - 1], k>> \in T \X (1 .. N)
                BY <3>2
            <4>2. g[k] = next[<<g[k - 1], k>>]
                BY <2>4
            <4>3. QED BY <4>1, <4>2
        <3>4. CASE k = 1
            <4>1. g[k - 1] = <<>> /\ seqs[k] \in Seq(S)
                BY <1>1, <2>4, <3>4
            <4>2. <<>> \o seqs[k] = seqs[k]
                BY <4>1, ConcatEmptySeq
            <4>3. QED BY <3>2, <3>3, <3>4, <4>1, <4>2
        <3>5. QED BY <3>2, <3>3, <3>4
    <2> DEFINE h == [k \in 1 .. N |-> g[k]]
    <2>7. Solves(h)
        <3>1. ASSUME NEW k \in 1 .. N
              PROVE  h[k] = IF k = 1 THEN seqs[k] ELSE h[k - 1] \o seqs[k]
            <4>1. k # 1 => k - 1 \in 1 .. N
                BY <1>1
            <4>2. QED BY <2>6, <4>1
        <3>2. h = [k \in 1 .. N |-> h[k]]
            OBVIOUS
        <3> HIDE DEF h, N
        <3>3. QED BY <3>1, <3>2, Zenon
    <2> DEFINE f == CHOOSE f : Solves(f)
    <2>8. Solves(f)
        BY <2>7
    <2>9. FlattenSeq(seqs) = f[N]
        BY <1>3 DEF FlattenSeq
    <2> HIDE DEF f, h
    <2> DEFINE Typed == {n \in Nat : n \in 1 .. N => f[n] \in T}
    <2>10. Nat \subseteq Typed
        <3>1. 0 \in Typed
            OBVIOUS
        <3>2. ASSUME NEW n \in Nat, n \in Typed, n + 1 \in 1 .. N PROVE f[n + 1] \in T
            <4>1. f[n + 1] = IF n + 1 = 1 THEN seqs[n + 1] ELSE f[(n + 1) - 1] \o seqs[n + 1]
                <5> HIDE DEF N
                <5>1. QED BY <2>8, <3>2, Zenon
            <4>2. seqs[n + 1] \in T /\ (n + 1) - 1 = n
                BY <1>1, <3>2
            <4>3. CASE n = 0
                BY <4>1, <4>2, <4>3
            <4>4. CASE n # 0
                <5>1. n \in 1 .. N
                    BY <1>1, <3>2, <4>4
                <5>2. f[n] \in T
                    BY <3>2, <5>1
                <5>3. f[n] \o seqs[n + 1] \in T
                    BY <2>1, <4>2, <5>2
                <5>4. QED BY <4>1, <4>2, <4>4, <5>3
            <4>5. QED BY <4>3, <4>4
        <3>3. 0 \in Typed /\ \A n \in Nat : n \in Typed => n + 1 \in Typed
            BY <3>1, <3>2
        <3> HIDE DEF Typed
        <3>4. QED BY <3>3, Induction
    <2>11. N \in Nat /\ N \in 1 .. N
        BY <1>1, <1>3
    <2>12. QED BY <2>9, <2>10, <2>11
<1>4. QED BY <1>2, <1>3

\* The metrics of a file that can be used are metrics.
LEMMA FileMetricsTyped ==
    ASSUME NEW file, FileTyped(file), UsableFile(file)
    PROVE  /\ IsSequence(FileMetrics(file))
           /\ \A k \in DOMAIN FileMetrics(file) : MetricTyped(FileMetrics(file)[k])
<1> DEFINE raws == file.metrics
           ms == FileMetrics(file)
<1>1. Len(raws) \in Nat /\ DOMAIN raws = 1 .. Len(raws)
    BY SequenceOf DEF FileTyped
<1>2. ms = [k \in 1 .. Len(raws) |-> IntoMetric(raws[k], file.defaults)]
    BY <1>1 DEF FileMetrics
<1>3. IsSequence(ms)
    <2> DEFINE R == {ms[k] : k \in DOMAIN ms}
    <2>1. DOMAIN ms = 1 .. Len(raws) /\ \A k \in 1 .. Len(raws) : ms[k] \in R
        BY <1>2
    <2> HIDE DEF R
    <2>2. ms \in [1 .. Len(raws) -> R]
        BY <1>2, <2>1
    <2>3. ms \in Seq(R)
        BY <1>1, <2>2, SeqDef
    <2> HIDE DEF ms
    <2>4. QED BY <2>3, SequenceIs
<1>4. ASSUME NEW k \in DOMAIN ms PROVE MetricTyped(ms[k])
    <2>1. k \in DOMAIN raws /\ ms[k] = IntoMetric(raws[k], file.defaults)
        BY <1>1, <1>2
    <2> DEFINE raw == raws[k]
    <2>2. FieldsTyped(raw) /\ DataTypeTyped(raw) /\ DataTypeTyped(file.defaults)
          /\ Complete(raw, file.defaults)
        BY <2>1 DEF FileTyped, UsableFile
    <2> HIDE DEF raw, ms
    <2>3. /\ ms[k].address = raw.address /\ ms[k].command = raw.command
          /\ ms[k].response_length = raw.response_length
          /\ ms[k].response_offset = raw.response_offset
          /\ ms[k].data_type = Or(raw.data_type, file.defaults.data_type)[1]
        BY <2>1 DEF IntoMetric, raw
    <2>4. FieldsTyped(ms[k])
        BY <2>2, <2>3 DEF FieldsTyped
    <2>5. Or(raw.data_type, file.defaults.data_type)[1] \in DataTypes
        BY <2>2 DEF Complete, Or, DataTypeTyped
    <2>6. QED BY <2>3, <2>4, <2>5 DEF MetricTyped
<1>5. QED BY <1>3, <1>4

-----------------------------------------------------------------------------

LEMMA MaxIs ==
    ASSUME NEW X \in SUBSET Nat, NEW p \in X, \A y \in X : y <= p
    PROVE  Max(X) = p
<1> DEFINE IsMax(x) == x \in X /\ \A y \in X : x >= y
<1>1. IsMax(p)
    OBVIOUS
<1>2. \A x : IsMax(x) => x = p
    OBVIOUS
<1>3. Max(X) = CHOOSE x : IsMax(x)
    BY DEF Max
<1>4. IsMax(CHOOSE x : IsMax(x))
    BY <1>1
<1>5. QED BY <1>2, <1>3, <1>4

LEMMA LastNamedIs ==
    ASSUME NEW S, NEW s \in Seq(S), NEW p \in 1 .. Len(s),
           \A q \in 1 .. Len(s) : s[q].name = s[p].name => q <= p
    PROVE  LastNamed(s, s[p].name) = Some(s[p])
<1> DEFINE same == {k \in DOMAIN s : s[k].name = s[p].name}
<1>1. DOMAIN s = 1 .. Len(s) /\ Len(s) \in Nat
    BY LenProperties
<1>2. same \in SUBSET Nat /\ p \in same /\ \A y \in same : y <= p
    BY <1>1
<1>3. Max(same) = p
    <2> HIDE DEF same
    <2>1. QED BY <1>2, MaxIs
<1>4. QED BY <1>2, <1>3 DEF LastNamed

LEMMA LastOfLayers ==
    ASSUME NEW S, NEW a \in Seq(S), NEW b \in Seq(S), NEW p \in 1 .. Len(a \o b),
           \A q \in 1 .. Len(a \o b) : (a \o b)[q].name = (a \o b)[p].name => q <= p
    PROVE  LET m == (a \o b)[p]
           IN  Some(m) = Or(LastNamed(b, m.name), LastNamed(a, m.name))
<1> DEFINE m == (a \o b)[p]
<1>1. /\ Len(a) \in Nat /\ Len(b) \in Nat /\ DOMAIN b = 1 .. Len(b)
      /\ Len(a \o b) = Len(a) + Len(b)
      /\ \A i \in 1 .. Len(a) + Len(b) :
            (a \o b)[i] = IF i <= Len(a) THEN a[i] ELSE b[i - Len(a)]
    BY LenProperties, ConcatProperties
<1>2. p \in 1 .. Len(a) + Len(b)
    BY <1>1
<1>3. CASE p <= Len(a)
    <2>1. p \in 1 .. Len(a) /\ m = a[p]
        BY <1>1, <1>2, <1>3
    <2>2. ASSUME NEW q \in 1 .. Len(a), a[q].name = a[p].name PROVE q <= p
        <3>1. q \in 1 .. Len(a \o b) /\ (a \o b)[q] = a[q]
            BY <1>1
        <3>2. QED BY <2>1, <2>2, <3>1
    <2>3. ASSUME NEW q \in 1 .. Len(b), b[q].name = m.name PROVE FALSE
        <3>1. Len(a) + q \in 1 .. Len(a) + Len(b) /\ ~(Len(a) + q <= Len(a)) /\ (Len(a) + q) - Len(a) = q
            BY <1>1
        <3>2. (a \o b)[Len(a) + q] = b[q]
            BY <1>1, <3>1
        <3>3. Len(a) + q <= p
            BY <1>1, <2>3, <3>1, <3>2
        <3>4. QED BY <1>1, <1>2, <1>3, <3>3
    <2>4. LastNamed(b, m.name) = None
        <3>1. {k \in DOMAIN b : b[k].name = m.name} = {}
            BY <1>1, <2>3
        <3>2. QED BY <3>1 DEF LastNamed
    <2>5. LastNamed(a, m.name) = Some(m)
        BY <2>1, <2>2, LastNamedIs
    <2>6. QED BY <2>4, <2>5 DEF Or, IsSome
<1>4. CASE ~(p <= Len(a))
    <2> DEFINE r == p - Len(a)
    <2>1. r \in 1 .. Len(b) /\ m = b[r]
        BY <1>1, <1>2, <1>4
    <2>2. ASSUME NEW q \in 1 .. Len(b), b[q].name = b[r].name PROVE q <= r
        <3>1. Len(a) + q \in 1 .. Len(a) + Len(b) /\ ~(Len(a) + q <= Len(a)) /\ (Len(a) + q) - Len(a) = q
            BY <1>1
        <3>2. (a \o b)[Len(a) + q] = b[q]
            BY <1>1, <3>1
        <3>3. Len(a) + q <= p
            BY <1>1, <2>1, <2>2, <3>1, <3>2
        <3>4. QED BY <1>1, <1>2, <3>3
    <2> HIDE DEF r
    <2>3. LastNamed(b, m.name) = Some(m)
        BY <2>1, <2>2, LastNamedIs
    <2>4. Some(m) # None
        BY DEF Some, None
    <2>5. QED BY <2>3, <2>4 DEF Or, IsSome
<1>5. QED BY <1>3, <1>4

LEMMA LayersFacts ==
    ASSUME NEW d, CollectorTyped(d), \A k \in DOMAIN d.metrics_files : UsableFile(d.metrics_files[k])
    PROVE  \E S : /\ FromFiles(d) \in Seq(S) /\ d.metrics \in Seq(S)
                  /\ \A m \in S : MetricTyped(m)
<1> DEFINE files == d.metrics_files
           Of(k) == {FileMetrics(files[k])[i] : i \in DOMAIN FileMetrics(files[k])}
           inline == {d.metrics[k] : k \in DOMAIN d.metrics}
           S == (UNION {Of(k) : k \in DOMAIN files}) \cup inline
           seqs == [k \in DOMAIN files |-> FileMetrics(files[k])]
<1>1. IsSequence(files) /\ \A k \in DOMAIN files : FileTyped(files[k]) /\ UsableFile(files[k])
    BY DEF CollectorTyped
<1>2. Len(files) \in Nat /\ DOMAIN files = 1 .. Len(files)
    BY <1>1, SequenceOf
<1>3. \A k \in DOMAIN files : /\ IsSequence(FileMetrics(files[k]))
                              /\ \A i \in DOMAIN FileMetrics(files[k]) : MetricTyped(FileMetrics(files[k])[i])
    BY <1>1, FileMetricsTyped
<1>4. \A k \in DOMAIN files : Of(k) \subseteq S
    OBVIOUS
<1>5. ASSUME NEW k \in DOMAIN files PROVE FileMetrics(files[k]) \in Seq(S)
    <2> DEFINE ms == FileMetrics(files[k])
    <2>1. /\ ms \in Seq(Of(k)) /\ Len(ms) \in Nat /\ Of(k) \subseteq S
        BY <1>3, <1>4, SequenceOf
    <2> HIDE DEF ms, S, Of
    <2>2. ms \in [1 .. Len(ms) -> Of(k)]
        BY <2>1, LenProperties
    <2>3. ms \in [1 .. Len(ms) -> S]
        BY <2>1, <2>2
    <2>4. ms \in Seq(S)
        BY <2>1, <2>3, SeqDef
    <2>5. QED BY <2>4 DEF ms
<1>6. ASSUME NEW m \in S PROVE MetricTyped(m)
    <2>1. CASE m \in inline
        BY <2>1 DEF CollectorTyped
    <2>2. CASE m \notin inline
        <3>1. PICK k \in DOMAIN files : m \in Of(k)
            <4> HIDE DEF Of, inline, files
            <4>1. QED BY <1>6, <2>2
        <3>2. QED BY <1>3, <3>1
    <2>3. QED BY <2>1, <2>2
<1>7. d.metrics \in Seq(S)
    <2> DEFINE ms == d.metrics
    <2>1. /\ ms \in Seq(inline) /\ Len(ms) \in Nat
        BY SequenceOf DEF CollectorTyped
    <2>2. inline \subseteq S
        OBVIOUS
    <2> HIDE DEF ms, S, inline
    <2>3. ms \in [1 .. Len(ms) -> inline]
        BY <2>1, LenProperties
    <2>4. ms \in [1 .. Len(ms) -> S]
        BY <2>2, <2>3
    <2>5. ms \in Seq(S)
        BY <2>1, <2>4, SeqDef
    <2>6. QED BY <2>5 DEF ms
<1>8. seqs \in Seq(Seq(S))
    <2> HIDE DEF S
    <2>1. seqs \in [1 .. Len(files) -> Seq(S)]
        BY <1>2, <1>5
    <2> HIDE DEF seqs, files
    <2>2. QED BY <1>2, <2>1, SeqDef
<1>9. FromFiles(d) = FlattenSeq(seqs)
    BY DEF FromFiles
<1> HIDE DEF S, seqs
<1>10. FromFiles(d) \in Seq(S)
    BY <1>8, <1>9, Flattened
<1>11. QED BY <1>6, <1>7, <1>10

\* What has become of the collector d of a configuration.
MadeFrom(c, d) ==
    /\ CollectorTyped(d)
    /\ DOMAIN c = CollectorFields
    /\ c.name = d.name /\ c.protocol = d.protocol
    /\ c.init_writes = d.init_writes /\ c.pre_poll = d.pre_poll
    /\ IsSequence(c.metrics)
    /\ \A j, k \in DOMAIN c.metrics : c.metrics[j].name = c.metrics[k].name => j = k
    /\ \A k \in DOMAIN c.metrics :
          LET m == c.metrics[k]
          IN  /\ MetricTyped(m)
              /\ Some(m) = Or(LastNamed(d.metrics, m.name), LastNamed(FromFiles(d), m.name))

LEMMA ResolvedMade ==
    ASSUME NEW d, CollectorTyped(d), \A k \in DOMAIN d.metrics_files : UsableFile(d.metrics_files[k])
    PROVE  MadeFrom(ResolveMetricsFiles(d), d)
<1> DEFINE a == FromFiles(d)
           b == d.metrics
           s == Layers(d)
           r == FoldLeft(Insert, <<>>, s)
           c == [d EXCEPT !.metrics = r]
<1>1. PICK S : a \in Seq(S) /\ b \in Seq(S) /\ \A m \in S : MetricTyped(m)
    BY LayersFacts
<1>2. s = a \o b
    BY DEF Layers
<1> HIDE DEF a, b
<1>3. s \in Seq(S) /\ Len(s) \in Nat
    BY <1>1, <1>2, ConcatProperties, LenProperties
<1> HIDE DEF s
<1>4. r \in Seq(S) /\ Merged(r, s, Len(s))
    BY <1>3, MergedFacts
<1> HIDE DEF r
<1>5. IsSequence(r) /\ \A k \in DOMAIN r : r[k] \in S
    BY <1>4, SequenceIs, LenProperties, ElementOfSeq
<1>6. ASSUME NEW k \in DOMAIN r
      PROVE  Some(r[k]) = Or(LastNamed(b, r[k].name), LastNamed(a, r[k].name))
    <2>1. PICK p \in 1 .. Len(s) :
             r[k] = s[p] /\ \A q \in 1 .. Len(s) : s[q].name = s[p].name => q <= p
        BY <1>4 DEF Merged
    <2>2. QED BY <1>1, <1>2, <2>1, LastOfLayers
<1>7. DOMAIN d = CollectorFields
    BY DEF CollectorTyped
<1>8. /\ DOMAIN c = CollectorFields /\ c.metrics = r
      /\ c.name = d.name /\ c.protocol = d.protocol
      /\ c.init_writes = d.init_writes /\ c.pre_poll = d.pre_poll
    BY <1>7 DEF CollectorFields
<1> HIDE DEF c
<1>9. MadeFrom(c, d)
    BY <1>1, <1>4, <1>5, <1>6, <1>8 DEF MadeFrom, Merged, a, b
<1>10. QED BY <1>9 DEF ResolveMetricsFiles, c, r, s

\* Fewer of its metrics are still what they were.
LEMMA RetainedMade ==
    ASSUME NEW c, NEW d, MadeFrom(c, d), NEW kept
    PROVE  MadeFrom([c EXCEPT !.metrics = Retained(@, kept)], d)
<1> DEFINE ms == c.metrics
           r == Retained(ms, kept)
           new == [c EXCEPT !.metrics = r]
<1>1. ms \in Seq({ms[k] : k \in DOMAIN ms})
    BY SequenceOf DEF MadeFrom
<1> DEFINE S == {ms[k] : k \in DOMAIN ms}
<1> HIDE DEF ms
<1>2. ms \in Seq(S)
    BY <1>1
<1> HIDE DEF S
<1>3. r \in Seq(S \cap kept)
    BY <1>2, RetainedFacts
<1>4. PICK pos \in [DOMAIN r -> DOMAIN ms] :
         /\ \A j, k \in DOMAIN pos : j < k => pos[j] < pos[k]
         /\ \A k \in DOMAIN pos : r[k] = ms[pos[k]]
    <2>1. Places(r, ms)
        BY <1>2, RetainedFacts
    <2> HIDE DEF r
    <2>2. QED BY <2>1 DEF Places
<1>5. /\ DOMAIN r = 1 .. Len(r) /\ Len(r) \in Nat
      /\ DOMAIN ms = 1 .. Len(ms) /\ Len(ms) \in Nat
    BY <1>2, <1>3, LenProperties
<1> HIDE DEF r
<1>6. IsSequence(r)
    BY <1>3, SequenceIs
<1>7. \A j, k \in DOMAIN ms : ms[j].name = ms[k].name => j = k
    BY DEF MadeFrom, ms
<1>8. ASSUME NEW j \in DOMAIN r, NEW k \in DOMAIN r, r[j].name = r[k].name PROVE j = k
    <2>1. pos[j] \in DOMAIN ms /\ pos[k] \in DOMAIN ms /\ j \in DOMAIN pos /\ k \in DOMAIN pos
        BY <1>4
    <2>2. r[j] = ms[pos[j]] /\ r[k] = ms[pos[k]]
        BY <1>4, <2>1
    <2>3. pos[j] = pos[k]
        BY <1>7, <1>8, <2>1, <2>2
    <2>4. j \in Nat /\ k \in Nat /\ pos[j] \in Nat /\ pos[k] \in Nat
        BY <1>5, <2>1
    <2>5. ~(j < k) /\ ~(k < j)
        BY <1>4, <2>1, <2>3, <2>4
    <2>6. QED BY <2>4, <2>5
<1>9. ASSUME NEW k \in DOMAIN r PROVE \E i \in DOMAIN ms : r[k] = ms[i]
    BY <1>4
<1>10. /\ DOMAIN new = CollectorFields /\ new.metrics = r
       /\ new.name = c.name /\ new.protocol = c.protocol
       /\ new.init_writes = c.init_writes /\ new.pre_poll = c.pre_poll
    BY DEF MadeFrom, CollectorFields
<1> HIDE DEF new
<1>11. MadeFrom(new, d)
    BY <1>6, <1>8, <1>9, <1>10 DEF MadeFrom, ms
<1>12. QED BY <1>11 DEF new, r, ms

\* Each of these has been made of a collector of the file.
Made(cs) ==
    /\ IsSequence(cs)
    /\ \A k \in DOMAIN cs : \E d \in ToSet(config.collectors) : MadeFrom(cs[k], d)

LEMMA RetainedAll ==
    ASSUME NEW cs, Made(cs), NEW kept
    PROVE  Made(Retained(cs, kept))
<1> DEFINE S == {cs[k] : k \in DOMAIN cs}
<1>1. cs \in Seq(S)
    BY SequenceOf DEF Made
<1> DEFINE r == Retained(cs, kept)
<1> HIDE DEF S
<1>2. r \in Seq(S \cap kept)
    BY <1>1, RetainedFacts
<1>3. PICK pos \in [DOMAIN r -> DOMAIN cs] :
         /\ \A j, k \in DOMAIN pos : j < k => pos[j] < pos[k]
         /\ \A k \in DOMAIN pos : r[k] = cs[pos[k]]
    <2>1. Places(r, cs)
        BY <1>1, RetainedFacts
    <2> HIDE DEF r
    <2>2. QED BY <2>1 DEF Places
<1> HIDE DEF r
<1>4. IsSequence(r)
    BY <1>2, SequenceIs
<1>5. Made(r)
    BY <1>3, <1>4 DEF Made
<1>6. QED BY <1>5 DEF r

LEMMA MappedIsSequence ==
    ASSUME NEW cs, IsSequence(cs), NEW f, f = [k \in DOMAIN cs |-> f[k]]
    PROVE  IsSequence(f)
<1> DEFINE R == {f[k] : k \in DOMAIN f}
<1>1. DOMAIN cs = 1 .. Len(cs) /\ Len(cs) \in Nat
    BY SequenceOf
<1>2. DOMAIN f = DOMAIN cs
    OBVIOUS
<1>3. \A k \in DOMAIN f : f[k] \in R
    OBVIOUS
<1> HIDE DEF R
<1>4. f \in [1 .. Len(cs) -> R]
    BY <1>1, <1>2, <1>3
<1>5. f \in Seq(R)
    BY <1>1, <1>4, SeqDef
<1>6. QED BY <1>5, SequenceIs

LEMMA SelectedMade ==
    ASSUME config \in Configs, Accepted
    PROVE  Made(Selected)
<1> DEFINE all == Resolved(config)
<1>1. IsSequence(config.collectors) /\ \A k \in DOMAIN config.collectors : CollectorTyped(config.collectors[k])
    BY CommandsAssumption DEF ConfigTyped
<1>2. all = [k \in DOMAIN config.collectors |-> ResolveMetricsFiles(config.collectors[k])]
    BY DEF Resolved
<1>3. all = [k \in DOMAIN config.collectors |-> all[k]]
    BY <1>2
<1>4. ASSUME NEW k \in DOMAIN all
      PROVE  \E d \in ToSet(config.collectors) : MadeFrom(all[k], d)
    <2> DEFINE d == config.collectors[k]
    <2>1. k \in DOMAIN config.collectors /\ all[k] = ResolveMetricsFiles(d)
        BY <1>2
    <2>2. d \in ToSet(config.collectors)
        BY <2>1 DEF ToSet
    <2>3. CollectorTyped(d) /\ \A i \in DOMAIN d.metrics_files : UsableFile(d.metrics_files[i])
        BY <1>1, <2>1, <2>2 DEF Accepted, Loadable
    <2>4. MadeFrom(all[k], d)
        BY <2>1, <2>3, ResolvedMade
    <2>5. QED BY <2>2, <2>4
<1> HIDE DEF all
<1>5. Made(all)
    BY <1>1, <1>3, <1>4, MappedIsSequence DEF Made
<1>6. CASE mode = "run"
    BY <1>5, <1>6 DEF Selected, all
<1>7. CASE mode # "run"
    <2> DEFINE kept(items, names) == {x \in ToSet(items) : x.name \in names}
               named == Retained(all, kept(all, filter.collectors))
               narrowed == [k \in DOMAIN named |->
                               [named[k] EXCEPT !.metrics = Retained(@, kept(@, filter.metrics))]]
    <2>1. Made(named)
        <3> HIDE DEF kept
        <3>1. QED BY <1>5, RetainedAll
    <2>2. Made(narrowed)
        <3> HIDE DEF named
        <3>1. narrowed = [k \in DOMAIN named |-> narrowed[k]] /\ DOMAIN narrowed = DOMAIN named
            OBVIOUS
        <3>2. ASSUME NEW k \in DOMAIN narrowed
              PROVE  \E d \in ToSet(config.collectors) : MadeFrom(narrowed[k], d)
            <4> DEFINE K == kept(named[k].metrics, filter.metrics)
            <4>1. narrowed[k] = [named[k] EXCEPT !.metrics = Retained(@, K)]
                BY <3>1
            <4>2. PICK d \in ToSet(config.collectors) : MadeFrom(named[k], d)
                BY <2>1, <3>1 DEF Made
            <4> HIDE DEF K, narrowed
            <4>3. MadeFrom(narrowed[k], d)
                BY <4>1, <4>2, RetainedMade
            <4>4. QED BY <4>3
        <3> HIDE DEF narrowed
        <3>3. IsSequence(narrowed)
            BY <2>1, <3>1, MappedIsSequence DEF Made
        <3>4. QED BY <3>2, <3>3 DEF Made
    <2> DEFINE K == {c \in ToSet(narrowed) : c.metrics # <<>>}
    <2>3. Selected = Retained(narrowed, K)
        BY <1>7 DEF Selected, FilterCollectors, all
    <2> HIDE DEF narrowed, K
    <2>4. QED BY <2>2, <2>3, RetainedAll
<1>8. QED BY <1>6, <1>7

\* The collectors at work are made from the file, or there are none yet.
LoadInv ==
    /\ config \in Configs
    /\ collectors = <<>> \/ Made(collectors)

LEMMA InitLoad ==
    ASSUME Init
    PROVE  LoadInv
BY DEF Init, BusInit, LoadInv

LEMMA LoadStep ==
    ASSUME LoadInv, [Next]_vars
    PROVE  LoadInv'
<1>1. config' = config
    BY DEF Next, Command, Work, StartFails, ShowConfig, Start, CollectOnce, CreateFails, Create,
           ConnectFails, Connect, Read, ReadPanics, Report, EndWatch, NextIteration, Poll,
           PressCtrlC, vars, argVars
<1>2. CASE Start
    <2>1. collectors' = Selected /\ Accepted
        BY <1>2 DEF Start, Provide
    <2>2. Made(Selected)
        BY <2>1, SelectedMade DEF LoadInv
    <2>3. Made(collectors)'
        BY <1>1, <2>1, <2>2 DEF Made
    <2>4. QED BY <1>1, <2>3 DEF LoadInv
<1>3. CASE ~Start
    <2>1. collectors' = collectors
        BY <1>3 DEF Next, Command, Work, StartFails, ShowConfig, Start, CollectOnce, CreateFails,
                    Create, ConnectFails, Connect, Read, ReadPanics, Report, EndWatch,
                    NextIteration, Poll, CallStep, PressCtrlC, vars
    <2>2. QED BY <1>1, <2>1 DEF LoadInv, Made
<1>4. QED BY <1>2, <1>3

LEMMA LoadedTyped ==
    ASSUME LoadInv
    PROVE  ListsTyped /\ MergedByPriority
<1>1. CASE collectors = <<>>
    <2>1. IsSequence(<<>>)
        <3>1. <<>> \in Seq(Nat)
            OBVIOUS
        <3>2. QED BY <3>1, SequenceIs
    <2>2. QED BY <1>1, <2>1 DEF ListsTyped, MergedByPriority, Tasks
<1>2. CASE Made(collectors)
    <2>1. ListsTyped
        BY <1>2 DEF ListsTyped, Made, MadeFrom, Tasks
    <2>2. MergedByPriority
        <3> SUFFICES ASSUME NEW c \in Tasks
                     PROVE  \E d \in ToSet(config.collectors) :
                               LET ms == collectors[c].metrics
                               IN  /\ collectors[c].name = d.name
                                   /\ \A j, k \in DOMAIN ms : ms[j].name = ms[k].name => j = k
                                   /\ \A m \in ToSet(ms) :
                                         Some(m) = Or(LastNamed(d.metrics, m.name),
                                                      LastNamed(FromFiles(d), m.name))
            BY DEF MergedByPriority
        <3>1. PICK d \in ToSet(config.collectors) : MadeFrom(collectors[c], d)
            BY <1>2 DEF Made, Tasks
        <3>2. QED BY <3>1 DEF MadeFrom, ToSet
    <2>3. QED BY <2>1, <2>2
<1>3. QED BY <1>1, <1>2 DEF LoadInv

-----------------------------------------------------------------------------
(* The calls *)

Points == {"between", "queued", "locked", "addressed", "done", "failed", "panicked"}
Calls == [kind : WriteKinds \cup {"none", "read"}, at : Points, next : Nat \ {0}]

\* The call has the lock.
Busy(c) == call[c].at \in {"locked", "addressed"}
UnderWay(c) == call[c].at \in {"queued", "locked", "addressed"}

\* One collector's part of ReadsOwnRegister.
OwnInv(c) ==
    Type(c) \in {"i2c", "spi"} =>
        \A m \in ToSet(collectors[c].metrics) :
            m.name \in DOMAIN results[c] /\ MetricValid(Type(c), m)
                => results[c][m.name] \in {Failed, OwnValue(c, m)}

\* The register a read has selected is the one it is about to read.
CallInv(c) ==
    /\ Busy(c) <=> <<LockOf(c), c>> \in held
    /\ UnderWay(c) => Type(c) \in {"i2c", "spi"}
    /\ UnderWay(c) /\ Reading(c) => call[c].next \in DOMAIN collectors[c].metrics
    /\ call[c].at = "addressed" =>
          /\ Reading(c) /\ Type(c) = "i2c"
          /\ register[DeviceOf(c)] = Metric(c).address[1] % 256

LocksExclusive == \A c, d \in Tasks : Busy(c) /\ Busy(d) /\ LockOf(c) = LockOf(d) => c = d

BusInv ==
    /\ call \in [Tasks -> Calls]
    /\ DOMAIN results = Tasks
    /\ DOMAIN register = I2cDevices(collectors)
    /\ \A h \in held : h[2] \in Tasks /\ h = <<LockOf(h[2]), h[2]>>
    /\ LocksExclusive
    /\ \A c \in Tasks : CallInv(c) /\ OwnInv(c)

-----------------------------------------------------------------------------
(* Helpers of DeviceBus *)

LEMMA MovedFacts ==
    ASSUME call \in [Tasks -> Calls], NEW c \in Tasks, NEW at \in Points
    PROVE  /\ Moved(c, at) \in [Tasks -> Calls]
           /\ Moved(c, at)[c].at = at
           /\ Moved(c, at)[c].kind = call[c].kind /\ Moved(c, at)[c].next = call[c].next
           /\ \A d \in Tasks : d # c => Moved(c, at)[d] = call[d]
<1> DEFINE new == [call[c] EXCEPT !.at = at]
<1>1. new \in Calls /\ new.at = at /\ new.kind = call[c].kind /\ new.next = call[c].next
    BY DEF Calls
<1>2. Moved(c, at) = [call EXCEPT ![c] = new]
    BY DEF Moved
<1> HIDE DEF new
<1> QED BY <1>1, <1>2

LEMMA ContinuedFacts ==
    ASSUME call \in [Tasks -> Calls], NEW c \in Tasks
    PROVE  /\ Continued(c) \in [Tasks -> Calls]
           /\ Continued(c)[c].at = "between" /\ Continued(c)[c].kind = call[c].kind
           /\ Continued(c)[c].next = call[c].next + 1
           /\ \A d \in Tasks : d # c => Continued(c)[d] = call[d]
<1> DEFINE new == [call[c] EXCEPT !.at = "between", !.next = call[c].next + 1]
<1>0. call[c] \in Calls /\ call[c].next + 1 \in Nat \ {0}
    BY DEF Calls
<1>1. /\ new \in Calls /\ new.at = "between" /\ new.kind = call[c].kind
      /\ new.next = call[c].next + 1
    BY <1>0 DEF Calls, Points
<1>2. Continued(c) = [call EXCEPT ![c] = new]
    BY DEF Continued
<1> HIDE DEF new
<1> QED BY <1>1, <1>2

\* Devices that are the same have the same lock.
LEMMA SameDevice ==
    ASSUME NEW c \in Tasks, NEW d \in Tasks, Type(c) = "i2c", Type(d) = "i2c", DeviceOf(c) = DeviceOf(d)
    PROVE  LockOf(c) = LockOf(d)
BY DEF LockOf

LEMMA I2cDeviceKnown ==
    ASSUME NEW c \in Tasks, Type(c) = "i2c"
    PROVE  DeviceOf(c) \in I2cDevices(collectors)
<1>1. collectors[c] \in ToSet(collectors)
    BY DEF ToSet, Tasks
<1> QED BY <1>1 DEF I2cDevices, DeviceOf, Type

\* The bytes of a value, for buses without words.
LEMMA DecodedBytes ==
    ASSUME NEW type \in DataTypes, NEW order \in {"big_endian", "little_endian"},
           NEW S, NEW bytes \in [1 .. ByteCount(type) -> S]
    PROVE  DecodeBytes(bytes, type, order) =
              Decoded([k \in 1 .. ByteCount(type) |->
                          bytes[IF order = "little_endian" THEN ByteCount(type) - k + 1 ELSE k]])
<1> DEFINE n == ByteCount(type)
<1>1. n \in Nat
    BY DEF ByteCount, DataTypes
<1> HIDE DEF n
<1>2. bytes \in [1 .. n -> S]
    BY DEF n
<1>3. bytes \in Seq(S)
    BY <1>1, <1>2, SeqDef
<1>4. Len(bytes) = n
    BY <1>1, <1>2, <1>3
<1>5. SubSeq(bytes, 1, n) = bytes
    BY <1>3, <1>4, SubSeqFull
<1>6. Reverse(bytes) = [k \in 1 .. n |-> bytes[n - k + 1]]
    BY <1>1, <1>4 DEF Reverse
<1>7. DecodeBytes(bytes, type, order) = Decoded(IF order = "little_endian" THEN Reverse(bytes) ELSE bytes)
    <2>1. ~(Len(bytes) < n)
        BY <1>1, <1>4
    <2>2. DecodeBytes(bytes, type, order) =
             Decoded(IF order \in LittleEndian THEN Reverse(bytes) ELSE bytes)
        BY <1>5, <2>1 DEF DecodeBytes, n
    <2> QED BY <2>2 DEF LittleEndian
<1>8. CASE order = "little_endian"
    BY <1>6, <1>7, <1>8 DEF n
<1>9. CASE order = "big_endian"
    <2>1. [k \in 1 .. n |-> bytes[IF order = "little_endian" THEN n - k + 1 ELSE k]] = bytes
        BY <1>2, <1>9
    <2> QED BY <1>7, <1>9, <2>1 DEF n
<1> QED BY <1>8, <1>9

-----------------------------------------------------------------------------
(* Steps of one call and the others *)

\* A step of c leaves the calls, the results, the locks and the selected
\* registers of the others alone.
Apart(c) ==
    /\ \A d \in Tasks : d # c =>
          /\ call'[d] = call[d]
          /\ results'[d] = results[d]
          /\ call[d].at = "addressed" => register'[DeviceOf(d)] = register[DeviceOf(d)]
    /\ \A h : h[2] # c => (h \in held' <=> h \in held)

LEMMA OthersKept ==
    ASSUME BusInv, collectors' = collectors, NEW c \in Tasks, Apart(c),
           NEW d \in Tasks, d # c
    PROVE  CallInv(d)' /\ OwnInv(d)' /\ (Busy(d)' <=> Busy(d))
<1>1. CallInv(d) /\ OwnInv(d)
    BY DEF BusInv
<1>2. call'[d] = call[d] /\ results'[d] = results[d]
      /\ (call[d].at = "addressed" => register'[DeviceOf(d)] = register[DeviceOf(d)])
    BY DEF Apart
<1>3. <<LockOf(d), d>> \in held' <=> <<LockOf(d), d>> \in held
    <2> DEFINE h == <<LockOf(d), d>>
    <2>1. h[2] = d
        OBVIOUS
    <2> HIDE DEF h
    <2>2. h \in held' <=> h \in held
        BY <2>1 DEF Apart
    <2> QED BY <2>2 DEF h
<1>4. Busy(d)' <=> Busy(d)
    BY <1>2 DEF Busy
<1>5. OwnInv(d)'
    BY <1>1, <1>2 DEF OwnInv, OwnValue, Type, DeviceOf
<1>6. CallInv(d)'
    BY <1>1, <1>2, <1>3, <1>4
    DEF CallInv, UnderWay, Reading, Metric, Type, DeviceOf, LockOf
<1> QED BY <1>4, <1>5, <1>6

\* What is left to show of a step of one call.
LEMMA StepKeepsBus ==
    ASSUME BusInv, collectors' = collectors, NEW c \in Tasks, Apart(c),
           call' \in [Tasks -> Calls], DOMAIN results' = Tasks,
           DOMAIN register' = DOMAIN register,
           \A h \in held' : h \in held \/ h = <<LockOf(c), c>>,
           Busy(c)' => Busy(c) \/ \A h \in held : h[1] # LockOf(c),
           CallInv(c)', OwnInv(c)'
    PROVE  BusInv'
<1>1. Tasks' = Tasks /\ I2cDevices(collectors)' = I2cDevices(collectors)
    BY DEF Tasks
<1>2. \A d : LockOf(d)' = LockOf(d)
    BY DEF LockOf, DeviceOf
<1>3. \A d \in Tasks : CallInv(d)' /\ OwnInv(d)'
    BY OthersKept
<1>4. \A h \in held' : h[2] \in Tasks /\ h = <<LockOf(h[2]), h[2]>>
    BY DEF BusInv
<1>5. LocksExclusive'
    <2> SUFFICES ASSUME NEW d \in Tasks, Busy(d)', NEW e \in Tasks, Busy(e)',
                        LockOf(d) = LockOf(e), d # e
                 PROVE  FALSE
        BY <1>1, <1>2 DEF LocksExclusive
    <2>1. \A f \in Tasks : f # c /\ Busy(f)' => Busy(f) /\ <<LockOf(f), f>> \in held
        BY OthersKept DEF BusInv, CallInv
    <2>2. \A f \in Tasks : f # c /\ Busy(f)' => ~(Busy(c)' /\ LockOf(f) = LockOf(c))
        <3> SUFFICES ASSUME NEW f \in Tasks, f # c, Busy(f)', Busy(c)', LockOf(f) = LockOf(c)
                     PROVE  FALSE
            OBVIOUS
        <3>1. Busy(f) /\ <<LockOf(f), f>> \in held
            BY <2>1
        <3>2. Busy(c)
            BY <3>1
        <3> QED BY <3>1, <3>2 DEF BusInv, LocksExclusive
    <2>3. CASE d = c \/ e = c
        BY <2>2, <2>3
    <2>4. CASE d # c /\ e # c
        BY <2>1, <2>4 DEF BusInv, LocksExclusive
    <2> QED BY <2>3, <2>4
<1>6. \A h \in held' : h[2] \in Tasks' /\ h = <<LockOf(h[2])', h[2]>>
    BY <1>1, <1>2, <1>4
<1> QED BY <1>1, <1>3, <1>5, <1>6 DEF BusInv

\* Who has the lock may move its device: nobody else has selected a register.
LEMMA DeviceIsOwn ==
    ASSUME BusInv, NEW c \in Tasks, Busy(c), Type(c) = "i2c",
           NEW value, register' = [register EXCEPT ![DeviceOf(c)] = value]
    PROVE  /\ DOMAIN register' = DOMAIN register
           /\ register'[DeviceOf(c)] = value
           /\ \A d \in Tasks : d # c /\ call[d].at = "addressed"
                 => register'[DeviceOf(d)] = register[DeviceOf(d)]
<1>1. DeviceOf(c) \in DOMAIN register
    BY I2cDeviceKnown DEF BusInv
<1>2. ASSUME NEW d \in Tasks, d # c, call[d].at = "addressed"
      PROVE  DeviceOf(d) # DeviceOf(c)
    <2>1. Busy(d) /\ Type(d) = "i2c"
        BY <1>2 DEF BusInv, CallInv, Busy
    <2> QED BY <1>2, <2>1, SameDevice DEF BusInv, LocksExclusive
<1> QED BY <1>1, <1>2

LEMMA ReleasedFacts ==
    ASSUME BusInv, NEW c \in Tasks, held' = Released(c)
    PROVE  /\ \A h \in held' : h \in held
           /\ \A h : h[2] # c => (h \in held' <=> h \in held)
           /\ <<LockOf(c), c>> \notin held'
BY DEF Released

\* A value that is not there or is its metric's own.
LEMMA ResultKept ==
    ASSUME BusInv, ListsTyped, collectors' = collectors,
           NEW c \in Tasks, NEW value, results' = WithResult(c, value),
           call[c].next \in DOMAIN collectors[c].metrics,
           MetricValid(Type(c), Metric(c)) => value \in {Failed, OwnValue(c, Metric(c))}
    PROVE  /\ DOMAIN results' = Tasks
           /\ \A d \in Tasks : d # c => results'[d] = results[d]
           /\ OwnInv(c)'
<1> DEFINE name == Metric(c).name
           new == [n \in DOMAIN results[c] \cup {name} |-> IF n = name THEN value ELSE results[c][n]]
<1>1. results' = [results EXCEPT ![c] = new] /\ DOMAIN results = Tasks
    BY DEF WithResult, BusInv
<1>2. results'[c] = new
    BY <1>1
<1>3. ASSUME Type(c) \in {"i2c", "spi"},
             NEW m \in ToSet(collectors[c].metrics), m.name \in DOMAIN new, MetricValid(Type(c), m)
      PROVE  new[m.name] \in {Failed, OwnValue(c, m)}
    <2>1. PICK k \in DOMAIN collectors[c].metrics : m = collectors[c].metrics[k]
        BY DEF ToSet
    <2>2. CASE m.name = name
        <3>1. m = Metric(c)
            BY <2>1, <2>2 DEF ListsTyped, MetricTyped, FieldsTyped, Metric
        <3> QED BY <1>3, <2>2, <3>1
    <2>3. CASE m.name # name
        BY <1>3, <2>3 DEF BusInv, OwnInv
    <2> QED BY <2>2, <2>3
<1> HIDE DEF new
<1>4. OwnInv(c)'
    BY <1>2, <1>3 DEF OwnInv, OwnValue, Type, DeviceOf
<1> QED BY <1>1, <1>4

-----------------------------------------------------------------------------
(* The steps of a call, one by one *)

LEMMA OwnKept ==
    ASSUME BusInv, collectors' = collectors, NEW c \in Tasks, results'[c] = results[c]
    PROVE  OwnInv(c)'
<1>1. OwnInv(c)
    BY DEF BusInv
<1> QED BY <1>1 DEF OwnInv, OwnValue, Type, DeviceOf

LEMMA BeginCallKeeps ==
    ASSUME BusInv, collectors' = collectors, NEW c \in Tasks, ~UnderWay(c),
           NEW kind \in WriteKinds \cup {"read"}, BeginCall(c, kind)
    PROVE  BusInv'
<1> DEFINE new == [kind |-> kind, at |-> "between", next |-> 1]
<1>1. call' \in [Tasks -> Calls] /\ call'[c] = new /\ \A d \in Tasks : d # c => call'[d] = call[d]
    BY DEF BeginCall, BusInv, Calls, Points
<1>2. ~Busy(c)' /\ ~UnderWay(c)' /\ call'[c].at # "addressed"
    BY <1>1 DEF Busy, UnderWay
<1>3. held' = held /\ register' = register
    BY DEF BeginCall
<1>4. DOMAIN results' = Tasks /\ (\A d \in Tasks : d # c => results'[d] = results[d])
      /\ results'[c] \in {results[c], NoResults}
    BY DEF BeginCall, BusInv
<1>5. <<LockOf(c), c>>' \notin held'
    BY <1>3 DEF BusInv, CallInv, Busy, UnderWay, LockOf, DeviceOf
<1>6. CallInv(c)'
    BY <1>2, <1>5 DEF CallInv
<1>7. OwnInv(c)'
    <2>1. CASE results'[c] = results[c]
        BY <2>1, OwnKept
    <2>2. CASE results'[c] = NoResults
        BY <2>2 DEF OwnInv, NoResults
    <2> QED BY <1>4, <2>1, <2>2
<1>8. Apart(c)
    BY <1>1, <1>3, <1>4 DEF Apart
<1> QED BY <1>1, <1>2, <1>3, <1>4, <1>6, <1>7, <1>8, StepKeepsBus

LEMMA EndCallKeeps ==
    ASSUME BusInv, collectors' = collectors, NEW c \in Tasks, ~UnderWay(c), EndCall(c)
    PROVE  BusInv'
<1>1. call' \in [Tasks -> Calls] /\ call'[c] = Idle /\ \A d \in Tasks : d # c => call'[d] = call[d]
    BY DEF EndCall, BusInv, Calls, Points, Idle
<1>2. ~Busy(c)' /\ ~UnderWay(c)' /\ call'[c].at # "addressed"
    BY <1>1 DEF Busy, UnderWay, Idle
<1>3. held' = held /\ register' = register /\ results' = results
    BY DEF EndCall
<1>4. <<LockOf(c), c>>' \notin held'
    BY <1>3 DEF BusInv, CallInv, Busy, UnderWay, LockOf, DeviceOf
<1>5. CallInv(c)' /\ OwnInv(c)'
    BY <1>2, <1>3, <1>4, OwnKept DEF CallInv
<1>6. Apart(c) /\ DOMAIN results' = Tasks
    BY <1>1, <1>3 DEF Apart, BusInv
<1> QED BY <1>1, <1>2, <1>3, <1>5, <1>6, StepKeepsBus

\* From one point of a call to another without the lock.
LEMMA WithoutLock ==
    ASSUME BusInv, collectors' = collectors, NEW c \in Tasks, ~UnderWay(c),
           call' \in [Tasks -> Calls], \A d \in Tasks : d # c => call'[d] = call[d],
           ~Busy(c)', UnderWay(c)' => /\ Type(c) \in {"i2c", "spi"}
                                      /\ Reading(c)' => call'[c].next \in DOMAIN collectors[c].metrics,
           UNCHANGED <<results, held, register>>
    PROVE  BusInv'
<1>1. <<LockOf(c), c>>' \notin held'
    BY DEF BusInv, CallInv, Busy, UnderWay, LockOf, DeviceOf
<1>2. call'[c].at # "addressed"
    BY DEF Busy
<1>3. CallInv(c)' /\ OwnInv(c)'
    BY <1>1, <1>2, OwnKept DEF CallInv, Type
<1>4. Apart(c) /\ DOMAIN results' = Tasks
    BY DEF Apart, BusInv
<1> QED BY <1>3, <1>4, StepKeepsBus

LEMMA NextMetricKeeps ==
    ASSUME BusInv, ListsTyped, collectors' = collectors, NEW c \in Tasks,
           NEW cancelled, NextMetric(c, cancelled)
    PROVE  BusInv'
<1>1. call \in [Tasks -> Calls] /\ call[c].at = "between" /\ Type(c) \in {"i2c", "spi"}
    BY DEF NextMetric, BusInv
<1>2. PICK at \in {"done", "panicked", "queued"} :
         call' = Moved(c, at) /\ (at = "queued" => ~(call[c].next > Len(collectors[c].metrics)))
    BY DEF NextMetric
<1>3. at \in Points
    BY DEF Points
<1>4. /\ call' \in [Tasks -> Calls]
      /\ call'[c].at = at /\ call'[c].kind = call[c].kind /\ call'[c].next = call[c].next
      /\ \A d \in Tasks : d # c => call'[d] = call[d]
    BY <1>1, <1>2, <1>3, MovedFacts
<1>5. at = "queued" => call'[c].next \in DOMAIN collectors[c].metrics
    <2> DEFINE ms == collectors[c].metrics
    <2>1. ms \in Seq({ms[k] : k \in DOMAIN ms})
        BY DEF ListsTyped, IsSequence
    <2>2. DOMAIN ms = 1 .. Len(ms) /\ Len(ms) \in Nat
        BY <2>1, LenProperties
    <2>3. call[c].next \in Nat \ {0}
        BY <1>1 DEF Calls
    <2> QED BY <1>2, <1>4, <2>2, <2>3
<1>6. ~UnderWay(c) /\ ~Busy(c)' /\ (UnderWay(c)' => at = "queued")
    BY <1>1, <1>2, <1>4 DEF UnderWay, Busy
<1>7. UNCHANGED <<results, held, register>>
    BY DEF NextMetric
<1> QED BY <1>1, <1>4, <1>5, <1>6, <1>7, WithoutLock

LEMMA NextStepKeeps ==
    ASSUME BusInv, collectors' = collectors, NEW c \in Tasks, NextStep(c)
    PROVE  BusInv'
<1>1. call \in [Tasks -> Calls] /\ call[c].at = "between" /\ Type(c) \in {"i2c", "spi"} /\ Writing(c)
    BY DEF NextStep, BusInv
<1>2. /\ call' \in [Tasks -> Calls]
      /\ call'[c].at \in {"done", "queued", "between"} /\ call'[c].kind = call[c].kind
      /\ \A d \in Tasks : d # c => call'[d] = call[d]
    BY <1>1, MovedFacts, ContinuedFacts DEF NextStep, Points
<1>3. ~UnderWay(c) /\ ~Busy(c)' /\ ~Reading(c)'
    BY <1>1, <1>2 DEF UnderWay, Busy, Reading, Writing, WriteKinds
<1>4. UNCHANGED <<results, held, register>>
    BY DEF NextStep
<1> QED BY <1>1, <1>2, <1>3, <1>4, WithoutLock

LEMMA TakeLockKeeps ==
    ASSUME BusInv, collectors' = collectors, NEW c \in Tasks, TakeLock(c)
    PROVE  BusInv'
<1>1. call \in [Tasks -> Calls] /\ call[c].at = "queued"
    BY DEF TakeLock, BusInv
<1>2. /\ call' \in [Tasks -> Calls]
      /\ call'[c].at = "locked" /\ call'[c].kind = call[c].kind /\ call'[c].next = call[c].next
      /\ \A d \in Tasks : d # c => call'[d] = call[d]
    BY <1>1, MovedFacts DEF TakeLock, Points
<1>3. /\ \A h \in held' : h \in held \/ h = <<LockOf(c), c>>
      /\ \A h : h[2] # c => (h \in held' <=> h \in held)
      /\ <<LockOf(c), c>> \in held'
      /\ \A h \in held : h[1] # LockOf(c)
    BY DEF TakeLock
<1>4. results' = results /\ register' = register
    BY DEF TakeLock
<1>5. CallInv(c)
    BY DEF BusInv
<1>6. CallInv(c)'
    BY <1>1, <1>2, <1>3, <1>5
    DEF CallInv, Busy, UnderWay, Reading, Type, LockOf, DeviceOf
<1>7. OwnInv(c)' /\ DOMAIN results' = Tasks
    BY <1>4, OwnKept DEF BusInv
<1>8. Apart(c)
    BY <1>2, <1>3, <1>4 DEF Apart
<1> QED BY <1>2, <1>3, <1>4, <1>6, <1>7, <1>8, StepKeepsBus

\* A transfer is over and the lock is free again.
LEMMA TransferEnds ==
    ASSUME BusInv, collectors' = collectors, NEW c \in Tasks, Busy(c), held' = Released(c),
           call' \in [Tasks -> Calls], call'[c].at \in {"between", "failed", "panicked"},
           DOMAIN results' = Tasks, OwnInv(c)', DOMAIN register' = DOMAIN register,
           \A d \in Tasks : d # c =>
              /\ call'[d] = call[d]
              /\ results'[d] = results[d]
              /\ call[d].at = "addressed" => register'[DeviceOf(d)] = register[DeviceOf(d)]
    PROVE  BusInv'
<1>1. /\ \A h \in held' : h \in held
      /\ \A h : h[2] # c => (h \in held' <=> h \in held)
      /\ <<LockOf(c), c>> \notin held'
    BY ReleasedFacts
<1>2. ~Busy(c)' /\ ~UnderWay(c)' /\ call'[c].at # "addressed"
    BY DEF Busy, UnderWay
<1>3. <<LockOf(c), c>>' \notin held'
    BY <1>1 DEF LockOf, DeviceOf
<1>4. CallInv(c)'
    BY <1>2, <1>3 DEF CallInv
<1>5. Apart(c)
    BY <1>1 DEF Apart
<1> QED BY <1>1, <1>2, <1>4, <1>5, StepKeepsBus

LEMMA WriteRegisterKeeps ==
    ASSUME BusInv, collectors' = collectors, NEW c \in Tasks, WriteRegister(c)
    PROVE  BusInv'
<1>1. call \in [Tasks -> Calls] /\ call[c].at = "locked" /\ Reading(c) /\ Type(c) = "i2c" /\ Busy(c)
    BY DEF WriteRegister, BusInv, Busy
<1>2. /\ call' \in [Tasks -> Calls]
      /\ call'[c].at = "addressed" /\ call'[c].kind = call[c].kind /\ call'[c].next = call[c].next
      /\ \A d \in Tasks : d # c => call'[d] = call[d]
    BY <1>1, MovedFacts DEF WriteRegister, Points
<1> DEFINE value == Metric(c).address[1] % 256
<1>3. register' = [register EXCEPT ![DeviceOf(c)] = value]
    BY DEF WriteRegister
<1> HIDE DEF value
<1>4. /\ DOMAIN register' = DOMAIN register
      /\ register'[DeviceOf(c)] = value
      /\ \A d \in Tasks : d # c /\ call[d].at = "addressed"
            => register'[DeviceOf(d)] = register[DeviceOf(d)]
    BY <1>1, <1>3, DeviceIsOwn
<1>5. results' = results /\ held' = held
    BY DEF WriteRegister
<1>6. CallInv(c)
    BY DEF BusInv
<1>7. Reading(c)' /\ Type(c)' = "i2c" /\ register'[DeviceOf(c)'] = Metric(c)'.address[1] % 256
    BY <1>1, <1>2, <1>4 DEF Reading, Type, DeviceOf, Metric, value
<1>8. CallInv(c)'
    BY <1>1, <1>2, <1>5, <1>6, <1>7 DEF CallInv, Busy, UnderWay, LockOf, DeviceOf
<1>9. OwnInv(c)' /\ DOMAIN results' = Tasks
    BY <1>5, OwnKept DEF BusInv
<1>10. Apart(c)
    BY <1>2, <1>4, <1>5 DEF Apart
<1> QED BY <1>1, <1>2, <1>4, <1>5, <1>8, <1>9, <1>10, StepKeepsBus

\* The registers from the selected one are those of the metric.
LEMMA OwnRegisters ==
    ASSUME ListsTyped, NEW c \in Tasks, Type(c) = "i2c",
           call[c].next \in DOMAIN collectors[c].metrics,
           MetricValid(Type(c), Metric(c)),
           NEW first, first = Metric(c).address[1] % 256
    PROVE  LET m == Metric(c)
               bytes == [k \in 1 .. ByteCount(m.data_type) |-> <<DeviceOf(c), (first + k - 1) % 256>>]
           IN  DecodeBytes(bytes, m.data_type, m.byte_order) = OwnValue(c, m)
<1> DEFINE m == Metric(c)
           n == ByteCount(m.data_type)
           bytes == [k \in 1 .. n |-> <<DeviceOf(c), (first + k - 1) % 256>>]
           S == {<<DeviceOf(c), (first + k - 1) % 256>> : k \in 1 .. n}
           little == m.byte_order = "little_endian"
<1>1. m.data_type \in DataTypes /\ m.address[1] \in Nat
    BY DEF ListsTyped, MetricTyped, FieldsTyped, Metric, MetricValid
<1>2. m.byte_order \in {"big_endian", "little_endian"}
    BY DEF MetricValid, RegisterMetricValid
<1>3. n \in Nat
    BY <1>1 DEF ByteCount, DataTypes
<1>4. bytes \in [1 .. n -> S]
    OBVIOUS
<1>5. DecodeBytes(bytes, m.data_type, m.byte_order)
         = Decoded([k \in 1 .. n |-> bytes[IF little THEN n - k + 1 ELSE k]])
    <2> HIDE DEF m, bytes, S
    <2> QED BY <1>1, <1>2, <1>4, DecodedBytes
<1>6. ASSUME NEW k \in 1 .. n
      PROVE  bytes[IF little THEN n - k + 1 ELSE k]
                = <<DeviceOf(c), (m.address[1] + (IF little THEN n - k ELSE k - 1)) % 256>>
    <2> HIDE DEF m, n
    <2> DEFINE i == IF little THEN n - k + 1 ELSE k
               a == m.address[1]
    <2>1. i \in 1 .. n /\ i \in Int /\ i - 1 = IF little THEN n - k ELSE k - 1
        BY <1>3, <1>6
    <2>2. bytes[i] = <<DeviceOf(c), (first + i - 1) % 256>>
        BY <2>1
    <2> HIDE DEF i
    <2>3. (first + i - 1) % 256 = (a + (i - 1)) % 256
        BY <1>1, <2>1 DEF m
    <2> HIDE DEF a
    <2>4. bytes[i] = <<DeviceOf(c), (a + (i - 1)) % 256>>
        BY <2>2, <2>3
    <2> QED BY <2>1, <2>4 DEF i, a
<1>7. OwnValue(c, m) = Decoded([k \in 1 .. n |->
         <<DeviceOf(c), (m.address[1] + (IF little THEN n - k ELSE k - 1)) % 256>>])
    BY DEF OwnValue
<1>8. [k \in 1 .. n |-> bytes[IF little THEN n - k + 1 ELSE k]]
        = [k \in 1 .. n |->
             <<DeviceOf(c), (m.address[1] + (IF little THEN n - k ELSE k - 1)) % 256>>]
    <2> HIDE DEF m, n, bytes, little
    <2> QED BY <1>6
<1> QED BY <1>5, <1>7, <1>8

\* What the device answers to the metric's own command is its own value.
LEMMA OwnAnswer ==
    ASSUME ListsTyped, NEW c \in Tasks, Type(c) = "spi",
           call[c].next \in DOMAIN collectors[c].metrics,
           MetricValid(Type(c), Metric(c))
    PROVE  LET m == Metric(c)
               payload == [k \in 1 .. ByteCount(m.data_type) |->
                              <<DeviceOf(c), m.command, m.response_offset + k>>]
           IN  DecodeBytes(payload, m.data_type, m.byte_order) = OwnValue(c, m)
<1> DEFINE m == Metric(c)
           n == ByteCount(m.data_type)
           payload == [k \in 1 .. n |-> <<DeviceOf(c), m.command, m.response_offset + k>>]
           S == {<<DeviceOf(c), m.command, m.response_offset + k>> : k \in 1 .. n}
           little == m.byte_order = "little_endian"
<1>1. m.data_type \in DataTypes /\ m.response_offset \in Nat
    BY DEF ListsTyped, MetricTyped, FieldsTyped, Metric
<1>2. m.byte_order \in {"big_endian", "little_endian"}
    BY DEF MetricValid, SpiMetricValid
<1>3. n \in Nat
    BY <1>1 DEF ByteCount, DataTypes
<1>4. payload \in [1 .. n -> S]
    OBVIOUS
<1>5. DecodeBytes(payload, m.data_type, m.byte_order)
         = Decoded([k \in 1 .. n |-> payload[IF little THEN n - k + 1 ELSE k]])
    <2> HIDE DEF m, payload, S
    <2> QED BY <1>1, <1>2, <1>4, DecodedBytes
<1>6. ASSUME NEW k \in 1 .. n
      PROVE  payload[IF little THEN n - k + 1 ELSE k]
                = <<DeviceOf(c), m.command,
                    m.response_offset + (IF little THEN n - k ELSE k - 1) + 1>>
    <2> HIDE DEF m, n
    <2> DEFINE i == IF little THEN n - k + 1 ELSE k
               j == IF little THEN n - k ELSE k - 1
               o == m.response_offset
    <2>1. i \in 1 .. n /\ i = j + 1 /\ j \in Int
        BY <1>3, <1>6
    <2>2. payload[i] = <<DeviceOf(c), m.command, o + i>>
        BY <2>1
    <2> HIDE DEF i, j
    <2>3. o + i = o + j + 1
        BY <1>1, <2>1 DEF m
    <2> HIDE DEF o
    <2>4. payload[i] = <<DeviceOf(c), m.command, o + j + 1>>
        BY <2>2, <2>3
    <2> QED BY <2>4 DEF i, j, o
<1>7. OwnValue(c, m) = Decoded([k \in 1 .. n |->
         <<DeviceOf(c), m.command, m.response_offset + (IF little THEN n - k ELSE k - 1) + 1>>])
    BY DEF OwnValue
<1>8. [k \in 1 .. n |-> payload[IF little THEN n - k + 1 ELSE k]]
        = [k \in 1 .. n |->
             <<DeviceOf(c), m.command, m.response_offset + (IF little THEN n - k ELSE k - 1) + 1>>]
    <2> HIDE DEF m, n, payload, little
    <2> QED BY <1>6
<1> QED BY <1>5, <1>7, <1>8

LEMMA ReadBytesKeeps ==
    ASSUME BusInv, ListsTyped, collectors' = collectors, NEW c \in Tasks, ReadBytes(c)
    PROVE  BusInv'
<1>1. call \in [Tasks -> Calls] /\ call[c].at = "addressed" /\ Busy(c) /\ UnderWay(c)
    BY DEF ReadBytes, BusInv, Busy, UnderWay
<1>2. /\ Reading(c) /\ Type(c) = "i2c"
      /\ register[DeviceOf(c)] = Metric(c).address[1] % 256
      /\ call[c].next \in DOMAIN collectors[c].metrics
    BY <1>1 DEF BusInv, CallInv
<1>3. /\ call' \in [Tasks -> Calls] /\ call'[c].at = "between"
      /\ \A d \in Tasks : d # c => call'[d] = call[d]
    BY <1>1, ContinuedFacts DEF ReadBytes
<1> DEFINE m == Metric(c)
           first == register[DeviceOf(c)]
           bytes == [k \in 1 .. ByteCount(m.data_type) |-> <<DeviceOf(c), (first + k - 1) % 256>>]
           value == DecodeBytes(bytes, m.data_type, m.byte_order)
           moved == (first + ByteCount(m.data_type)) % 256
<1>4. MetricValid(Type(c), m) => value = OwnValue(c, m)
    <2> SUFFICES ASSUME MetricValid(Type(c), m) PROVE value = OwnValue(c, m)
        OBVIOUS
    <2> QED BY <1>2, OwnRegisters
<1>5. results' = WithResult(c, value) /\ register' = [register EXCEPT ![DeviceOf(c)] = moved]
      /\ held' = Released(c)
    BY DEF ReadBytes
<1> HIDE DEF value, moved
<1>6. /\ DOMAIN results' = Tasks
      /\ \A d \in Tasks : d # c => results'[d] = results[d]
      /\ OwnInv(c)'
    BY <1>2, <1>4, <1>5, ResultKept
<1>7. /\ DOMAIN register' = DOMAIN register
      /\ \A d \in Tasks : d # c /\ call[d].at = "addressed"
            => register'[DeviceOf(d)] = register[DeviceOf(d)]
    BY <1>1, <1>2, <1>5, DeviceIsOwn
<1> QED BY <1>1, <1>3, <1>5, <1>6, <1>7, TransferEnds

LEMMA SpiReadKeeps ==
    ASSUME BusInv, ListsTyped, collectors' = collectors, NEW c \in Tasks, SpiRead(c)
    PROVE  BusInv'
<1>1. /\ call \in [Tasks -> Calls] /\ call[c].at = "locked" /\ Busy(c) /\ UnderWay(c)
      /\ Reading(c) /\ Type(c) = "spi"
    BY DEF SpiRead, BusInv, Busy, UnderWay
<1>2. call[c].next \in DOMAIN collectors[c].metrics
    BY <1>1 DEF BusInv, CallInv
<1>3. /\ call' \in [Tasks -> Calls] /\ call'[c].at \in {"between", "panicked"}
      /\ \A d \in Tasks : d # c => call'[d] = call[d]
    BY <1>1, MovedFacts, ContinuedFacts DEF SpiRead, Points
<1> DEFINE m == Metric(c)
           payload == [k \in 1 .. ByteCount(m.data_type) |->
                          <<DeviceOf(c), m.command, m.response_offset + k>>]
           value == DecodeBytes(payload, m.data_type, m.byte_order)
<1>4. MetricValid(Type(c), m) => value = OwnValue(c, m)
    <2> SUFFICES ASSUME MetricValid(Type(c), m) PROVE value = OwnValue(c, m)
        OBVIOUS
    <2> QED BY <1>1, <1>2, OwnAnswer
<1>5. results' = results \/ results' = WithResult(c, value)
    BY DEF SpiRead
<1> HIDE DEF value
<1>6. /\ DOMAIN results' = Tasks
      /\ \A d \in Tasks : d # c => results'[d] = results[d]
      /\ OwnInv(c)'
    <2>1. CASE results' = results
        BY <2>1, OwnKept DEF BusInv
    <2>2. CASE results' = WithResult(c, value)
        BY <1>2, <1>4, <2>2, ResultKept
    <2> QED BY <1>5, <2>1, <2>2
<1>7. register' = register /\ held' = Released(c)
    BY DEF SpiRead
<1> QED BY <1>1, <1>3, <1>6, <1>7, TransferEnds

LEMMA WriteStepKeeps ==
    ASSUME BusInv, collectors' = collectors, NEW c \in Tasks, WriteStep(c)
    PROVE  BusInv'
<1>1. call \in [Tasks -> Calls] /\ Busy(c)
    BY DEF WriteStep, BusInv, Busy
<1>2. /\ call' \in [Tasks -> Calls] /\ call'[c].at = "between"
      /\ \A d \in Tasks : d # c => call'[d] = call[d]
    BY <1>1, ContinuedFacts DEF WriteStep
<1>3. results' = results /\ held' = Released(c)
    BY DEF WriteStep
<1>4. /\ DOMAIN register' = DOMAIN register
      /\ \A d \in Tasks : d # c /\ call[d].at = "addressed"
            => register'[DeviceOf(d)] = register[DeviceOf(d)]
    <2>1. CASE Type(c) = "i2c"
        <3> DEFINE value == Step(c).address[1]
        <3>1. register' = [register EXCEPT ![DeviceOf(c)] = value]
            BY <2>1 DEF WriteStep
        <3> HIDE DEF value
        <3> QED BY <1>1, <2>1, <3>1, DeviceIsOwn
    <2>2. CASE Type(c) # "i2c"
        BY <2>2 DEF WriteStep
    <2> QED BY <2>1, <2>2
<1>5. DOMAIN results' = Tasks /\ OwnInv(c)'
    BY <1>3, OwnKept DEF BusInv
<1> QED BY <1>1, <1>2, <1>3, <1>4, <1>5, TransferEnds

LEMMA TransferFailsKeeps ==
    ASSUME BusInv, ListsTyped, collectors' = collectors, NEW c \in Tasks, TransferFails(c)
    PROVE  BusInv'
<1>1. call \in [Tasks -> Calls] /\ Busy(c) /\ UnderWay(c)
    BY DEF TransferFails, BusInv, Busy, UnderWay
<1>2. /\ call' \in [Tasks -> Calls] /\ call'[c].at \in {"between", "failed"}
      /\ \A d \in Tasks : d # c => call'[d] = call[d]
    BY <1>1, MovedFacts, ContinuedFacts DEF TransferFails, AfterFailedStep, Points
<1>3. register' = register /\ held' = Released(c)
    BY DEF TransferFails
<1>4. /\ DOMAIN results' = Tasks
      /\ \A d \in Tasks : d # c => results'[d] = results[d]
      /\ OwnInv(c)'
    <2>1. CASE Reading(c)
        <3>1. call[c].next \in DOMAIN collectors[c].metrics
            BY <1>1, <2>1 DEF BusInv, CallInv
        <3>2. results' = WithResult(c, Failed)
            BY <2>1 DEF TransferFails
        <3> QED BY <3>1, <3>2, ResultKept
    <2>2. CASE ~Reading(c)
        <3>1. results' = results
            BY <2>2 DEF TransferFails
        <3> QED BY <3>1, OwnKept DEF BusInv
    <2> QED BY <2>1, <2>2
<1> QED BY <1>1, <1>2, <1>3, <1>4, TransferEnds

LEMMA OtherKeeps ==
    ASSUME BusInv, collectors' = collectors, NEW c \in Tasks,
           NEW cancelled, OtherRead(c, cancelled) \/ OtherWrites(c)
    PROVE  BusInv'
<1>1. call \in [Tasks -> Calls] /\ ~UnderWay(c) /\ Type(c) \notin {"i2c", "spi"}
    BY DEF OtherRead, OtherWrites, BusInv, UnderWay
<1>2. PICK at \in {"done", "failed", "panicked"} : call' = Moved(c, at)
    BY DEF OtherRead, OtherWrites
<1>3. at \in Points
    BY DEF Points
<1>4. /\ call' \in [Tasks -> Calls] /\ call'[c].at = at
      /\ \A d \in Tasks : d # c => call'[d] = call[d]
    BY <1>1, <1>2, <1>3, MovedFacts
<1>5. held' = held /\ register' = register
    BY DEF OtherRead, OtherWrites
<1>6. DOMAIN results' = Tasks /\ \A d \in Tasks : d # c => results'[d] = results[d]
    BY DEF OtherRead, OtherWrites, BusInv
<1>7. OwnInv(c)'
    BY <1>1 DEF OwnInv, Type
<1>8. ~Busy(c)' /\ ~UnderWay(c)' /\ call'[c].at # "addressed"
    BY <1>4 DEF Busy, UnderWay
<1>9. <<LockOf(c), c>>' \notin held'
    BY <1>1, <1>5 DEF BusInv, CallInv, Busy, UnderWay, LockOf, DeviceOf
<1>10. CallInv(c)'
    BY <1>8, <1>9 DEF CallInv
<1>11. Apart(c)
    BY <1>4, <1>5, <1>6 DEF Apart
<1> QED BY <1>4, <1>5, <1>6, <1>7, <1>8, <1>10, <1>11, StepKeepsBus

\* Whatever step a call takes.
LEMMA CallStepKeeps ==
    ASSUME BusInv, ListsTyped, NEW c \in Tasks, NEW cancelled, CallStep(c, cancelled)
    PROVE  BusInv'
<1>1. collectors' = collectors
    BY DEF CallStep
<1>2. CASE NextMetric(c, cancelled)
    BY <1>1, <1>2, NextMetricKeeps
<1>3. CASE NextStep(c)
    BY <1>1, <1>3, NextStepKeeps
<1>4. CASE TakeLock(c)
    BY <1>1, <1>4, TakeLockKeeps
<1>5. CASE WriteRegister(c)
    BY <1>1, <1>5, WriteRegisterKeeps
<1>6. CASE ReadBytes(c)
    BY <1>1, <1>6, ReadBytesKeeps
<1>7. CASE SpiRead(c)
    BY <1>1, <1>7, SpiReadKeeps
<1>8. CASE WriteStep(c)
    BY <1>1, <1>8, WriteStepKeeps
<1>9. CASE TransferFails(c)
    BY <1>1, <1>9, TransferFailsKeeps
<1>10. CASE OtherRead(c, cancelled) \/ OtherWrites(c)
    BY <1>1, <1>10, OtherKeeps
<1> QED BY <1>2, <1>3, <1>4, <1>5, <1>6, <1>7, <1>8, <1>9, <1>10 DEF CallStep, Transfer

-----------------------------------------------------------------------------
(* The process *)

\* The bus is in order from the moment there are readers; pull and watch have
\* one call under way at most, that of the collector they are at.
ProcessInv ==
    /\ phase \in {"loading", "polling", "creating", "connecting", "reading", "resting", "exited"}
    /\ phase = "loading" => collectors = <<>> /\ held = {} /\ current = 1
    /\ phase \notin {"loading", "exited"} => BusInv
    /\ collectors = <<>> \/ BusInv
    /\ phase \in {"creating", "connecting", "reading"} => current \in Tasks
    /\ phase = "resting" => current = 1 /\ 1 \in Tasks
    /\ phase \in {"creating", "connecting", "resting"} => \A c \in Tasks : ~UnderWay(c)
    /\ phase = "reading" => \A c \in Tasks : UnderWay(c) => c = current

LEMMA BusStands ==
    ASSUME BusInv, UNCHANGED <<busVars, collectors>>
    PROVE  BusInv'
BY DEF busVars, BusInv, LocksExclusive, CallInv, OwnInv, OwnValue, Busy, UnderWay, Reading, Metric,
       Type, DeviceOf, LockOf, Tasks

LEMMA CallStepApart ==
    ASSUME BusInv, NEW c \in Tasks, NEW cancelled, CallStep(c, cancelled),
           NEW d \in Tasks, d # c
    PROVE  call'[d] = call[d]
<1>1. \/ call' = Continued(c)
      \/ \E at \in Points : call' = Moved(c, at)
    BY DEF CallStep, Transfer, NextMetric, NextStep, TakeLock, WriteRegister, ReadBytes, SpiRead,
           WriteStep, TransferFails, AfterFailedStep, OtherRead, OtherWrites, Points
<1> QED BY <1>1, MovedFacts, ContinuedFacts DEF BusInv

LEMMA FirstOfSequence ==
    ASSUME NEW s, IsSequence(s), s # <<>>
    PROVE  1 \in DOMAIN s
<1> DEFINE S == {s[k] : k \in DOMAIN s}
<1>1. s \in Seq(S)
    BY DEF IsSequence
<1> HIDE DEF S
<1> QED BY <1>1, EmptySeq, LenProperties

\* collect_once goes on to a collector that exists, or ends.
LEMMA AdvanceFacts ==
    ASSUME ListsTyped, current \in Tasks, collectors' = collectors, Advance
    PROVE  \/ phase' = "creating" /\ current' \in Tasks'
           \/ phase' = "resting" /\ current' = 1 /\ 1 \in Tasks'
           \/ phase' = "exited"
<1> DEFINE S == {collectors[k] : k \in DOMAIN collectors}
<1>1. collectors \in Seq(S)
    BY DEF ListsTyped, IsSequence
<1> HIDE DEF S
<1>2. Tasks = 1 .. Len(collectors) /\ Tasks' = Tasks /\ Len(collectors) \in Nat
    BY <1>1, LenProperties DEF Tasks
<1>3. CASE current < Len(collectors)
    BY <1>2, <1>3 DEF Advance
<1>4. CASE ~(current < Len(collectors))
    BY <1>2, <1>4 DEF Advance, ExitWith
<1> QED BY <1>3, <1>4

LEMMA InitProcess ==
    ASSUME Init
    PROVE  ProcessInv
BY DEF Init, BusInit, ProcessInv

LEMMA StartProcess ==
    ASSUME ProcessInv, ListsTyped', Start
    PROVE  ProcessInv'
<1>1. /\ collectors' = Selected /\ Selected # <<>> /\ held = {} /\ current' = 1
      /\ phase' \in {"polling", "creating"}
    BY DEF Start, Provide, ProcessInv
<1>2. 1 \in Tasks'
    <2>1. collectors' # <<>> /\ IsSequence(collectors')
        BY <1>1 DEF ListsTyped, IsSequence
    <2> QED BY <2>1, FirstOfSequence DEF Tasks
<1>3. /\ call' = [c \in Tasks' |-> Idle] /\ results' = [c \in Tasks' |-> NoResults]
      /\ DOMAIN register' = I2cDevices(collectors') /\ held' = {}
    BY <1>1 DEF Start, Provide, Tasks
<1>4. call' \in [Tasks' -> Calls] /\ \A c \in Tasks' : ~Busy(c)' /\ ~UnderWay(c)' /\ call'[c].at = "done"
    BY <1>3 DEF Busy, UnderWay, Idle, Calls, Points
<1>5. \A c \in Tasks' : CallInv(c)'
    BY <1>3, <1>4 DEF CallInv
<1>6. \A c \in Tasks' : OwnInv(c)'
    BY <1>3 DEF OwnInv, NoResults
<1>7. LocksExclusive'
    BY <1>4 DEF LocksExclusive
<1>8. BusInv'
    BY <1>3, <1>4, <1>5, <1>6, <1>7 DEF BusInv
<1> QED BY <1>1, <1>2, <1>4, <1>8 DEF ProcessInv

LEMMA PollProcess ==
    ASSUME ProcessInv, ListsTyped, NEW c \in Tasks, Poll(c)
    PROVE  ProcessInv'
<1>1. BusInv /\ phase = "polling" /\ phase' = phase
    BY DEF Poll, ProcessInv
<1>2. BusInv'
    <2>1. CASE CallStep(c, FALSE)
        BY <1>1, <2>1, CallStepKeeps
    <2>2. CASE Initialise(c) \/ BeginCycle(c) \/ BeginRead(c)
        <3>1. ~UnderWay(c) /\ collectors' = collectors
            BY <2>2 DEF Poll, Initialise, BeginCycle, BeginRead, At, UnderWay, CallStep
        <3>2. \E kind \in WriteKinds \cup {"read"} : BeginCall(c, kind)
            BY <2>2 DEF Initialise, BeginCycle, BeginRead, WriteKinds
        <3> QED BY <1>1, <3>1, <3>2, BeginCallKeeps
    <2>3. CASE InitialisedEnds(c) \/ SkipCycle(c) \/ EndCycle(c)
        <3>1. ~UnderWay(c) /\ collectors' = collectors /\ EndCall(c)
            BY <2>3 DEF Poll, InitialisedEnds, SkipCycle, EndCycle, At, UnderWay, CallStep
        <3> QED BY <1>1, <3>1, EndCallKeeps
    <2> QED BY <2>1, <2>2, <2>3 DEF Poll
<1> QED BY <1>1, <1>2 DEF ProcessInv

LEMMA CollectProcess ==
    ASSUME ProcessInv, ListsTyped, CollectOnce
    PROVE  ProcessInv'
<1>1. /\ BusInv /\ current \in Tasks /\ phase \in {"creating", "connecting", "reading"}
      /\ \A c \in Tasks : UnderWay(c) => phase = "reading" /\ c = current
    BY DEF ProcessInv, CollectOnce, CreateFails, Create, ConnectFails, Connect, Read, ReadPanics,
           Report
<1>2. CASE CreateFails \/ ConnectFails
    <2>1. /\ BusInv' /\ UNCHANGED <<busVars, collectors>> /\ Advance
          /\ \A c \in Tasks' : ~UnderWay(c)'
        BY <1>1, <1>2, BusStands DEF CreateFails, ConnectFails, busVars, UnderWay, Tasks
    <2> QED BY <1>1, <2>1, AdvanceFacts DEF ProcessInv
<1>3. CASE Create
    <2>1. /\ BusInv' /\ phase = "creating" /\ phase' \in {"connecting", "exited"}
          /\ current' = current /\ Tasks' = Tasks
          /\ \A c \in Tasks' : ~UnderWay(c)'
        BY <1>1, <1>3, BusStands DEF Create, ExitWith, busVars, tallyVars, UnderWay, Tasks
    <2> QED BY <1>1, <2>1 DEF ProcessInv
<1>4. CASE Connect
    <2>1. /\ phase = "connecting" /\ phase' = "reading" /\ current' = current /\ Tasks' = Tasks
          /\ collectors' = collectors /\ BeginCall(current, "read") /\ ~UnderWay(current)
        BY <1>1, <1>4 DEF Connect, tallyVars, Tasks
    <2>2. BusInv'
        BY <1>1, <2>1, BeginCallKeeps
    <2>3. \A c \in Tasks' : ~UnderWay(c)'
        BY <1>1, <2>1 DEF BeginCall, UnderWay, BusInv
    <2> QED BY <1>1, <2>1, <2>2, <2>3 DEF ProcessInv
<1>5. CASE Read
    <2>1. /\ phase = "reading" /\ phase' = phase /\ current' = current /\ Tasks' = Tasks
          /\ CallStep(current, ctrlC)
        BY <1>5 DEF Read, tallyVars, CallStep, Tasks
    <2>2. BusInv'
        BY <1>1, <2>1, CallStepKeeps
    <2>3. \A c \in Tasks' : c # current => ~UnderWay(c)'
        BY <1>1, <2>1, CallStepApart DEF UnderWay
    <2> QED BY <1>1, <2>1, <2>2, <2>3 DEF ProcessInv
<1>6. CASE ReadPanics
    <2>1. BusInv' /\ phase' = "exited"
        BY <1>1, <1>6, BusStands DEF ReadPanics, ExitWith
    <2> QED BY <2>1 DEF ProcessInv
<1>7. CASE Report
    <2>1. /\ collectors' = collectors /\ Tasks' = Tasks /\ Advance /\ EndCall(current)
          /\ ~UnderWay(current)
        BY <1>7 DEF Report, Tasks, UnderWay
    <2>2. BusInv'
        BY <1>1, <2>1, EndCallKeeps
    <2>3. \A c \in Tasks' : ~UnderWay(c)'
        BY <1>1, <2>1 DEF EndCall, UnderWay, Idle, BusInv
    <2> QED BY <1>1, <2>1, <2>2, <2>3, AdvanceFacts DEF ProcessInv
<1> QED BY <1>2, <1>3, <1>4, <1>5, <1>6, <1>7 DEF CollectOnce

\* What is left does not touch the bus.
LEMMA RestProcess ==
    ASSUME ProcessInv,
           StartFails \/ ShowConfig \/ EndWatch \/ NextIteration \/ PressCtrlC \/ UNCHANGED vars
    PROVE  ProcessInv'
<1>1. UNCHANGED <<busVars, collectors, current>>
    BY DEF StartFails, ShowConfig, EndWatch, NextIteration, PressCtrlC, vars, tallyVars
<1>2. /\ phase' \in {phase, "exited"} \/ (phase = "resting" /\ phase' = "creating")
      /\ Tasks' = Tasks /\ \A c \in Tasks : UnderWay(c)' <=> UnderWay(c)
    BY <1>1 DEF StartFails, ShowConfig, EndWatch, NextIteration, PressCtrlC, vars, ExitWith, busVars,
                UnderWay, Tasks
<1>3. BusInv => BusInv'
    BY <1>1, BusStands
<1>4. collectors' = collectors /\ held' = held /\ current' = current
    BY <1>1 DEF busVars
<1> QED BY <1>2, <1>3, <1>4 DEF ProcessInv

LEMMA ProcessStep ==
    ASSUME ProcessInv, ListsTyped, ListsTyped', [Next]_vars
    PROVE  ProcessInv'
<1>1. CASE Start
    BY <1>1, StartProcess
<1>2. CASE \E c \in Tasks : Poll(c)
    BY <1>2, PollProcess
<1>3. CASE CollectOnce
    BY <1>3, CollectProcess
<1>4. CASE StartFails \/ ShowConfig \/ EndWatch \/ NextIteration \/ PressCtrlC \/ UNCHANGED vars
    BY <1>4, RestProcess
<1> QED BY <1>1, <1>2, <1>3, <1>4 DEF Next, Command, Work

-----------------------------------------------------------------------------
(* Panics *)

Valid == \A c \in Tasks : \A m \in ToSet(collectors[c].metrics) : MetricValid(Type(c), m)

\* run has a validated configuration or none.
RunInv ==
    mode = "run" =>
        /\ phase \in {"loading", "polling", "exited"}
        /\ collectors = <<>> \/ Valid
        /\ ValidatedNeverPanics

LEMMA MetricListed ==
    ASSUME NEW c \in Tasks, call[c].next \in DOMAIN collectors[c].metrics
    PROVE  Metric(c) \in ToSet(collectors[c].metrics)
BY DEF Metric, ToSet

LEMMA ResponseSliced ==
    ASSUME ListsTyped, NEW c \in Tasks, call[c].next \in DOMAIN collectors[c].metrics,
           ResponseHolds(Metric(c)), ~Wraps(Metric(c))
    PROVE  LET m == Metric(c)
               received == IF Len(m.command) < ResponseLength(m) THEN ResponseLength(m)
                           ELSE Len(m.command)
           IN  ~(m.response_offset + ByteCount(m.data_type) > received)
<1> DEFINE m == Metric(c)
           n == ByteCount(m.data_type)
           o == m.response_offset
           l == Len(m.command)
           r == ResponseLength(m)
<1>1. /\ m.data_type \in DataTypes /\ o \in Nat /\ IsSequence(m.command)
      /\ IsSome(m.response_length) => m.response_length[1] \in Nat
    BY DEF ListsTyped, MetricTyped, FieldsTyped, Metric
<1>2. n \in Nat
    BY <1>1 DEF ByteCount, DataTypes
<1>3. l \in Nat
    <2> DEFINE s == m.command
               S == {s[k] : k \in DOMAIN s}
    <2>1. s \in Seq(S)
        BY <1>1 DEF IsSequence
    <2> HIDE DEF s, S
    <2>2. Len(s) \in Nat
        BY <2>1, LenProperties
    <2> QED BY <2>2 DEF s
<1>4. r \in Nat
    <2>1. CASE IsSome(m.response_length)
        BY <1>1, <2>1 DEF ResponseLength, UnwrapOr, Or
    <2>2. CASE ~IsSome(m.response_length)
        <3>1. r = l % 65536
            BY <2>2 DEF ResponseLength, UnwrapOr, Or, Some
        <3> HIDE DEF l, r
        <3> QED BY <1>3, <3>1
    <2> QED BY <2>1, <2>2
<1>5. (o + n) % 65536 <= r /\ ~(o + n > 65535)
    BY DEF ResponseHolds, Wraps
<1> HIDE DEF n, o, l, r
<1>6. o \in Nat
    BY <1>1 DEF o
<1>7. o + n <= r
    BY <1>2, <1>4, <1>5, <1>6
<1>8. ~(o + n > IF l < r THEN r ELSE l)
    BY <1>2, <1>3, <1>4, <1>6, <1>7
<1> QED BY <1>8 DEF n, o, l, r

LEMMA CallPanics ==
    ASSUME BusInv, ListsTyped, Valid, NEW c \in Tasks, NEW cancelled, CallStep(c, cancelled),
           call'[c].at = "panicked"
    PROVE  \E m \in ToSet(collectors[c].metrics) : Wraps(m)
<1>1. call \in [Tasks -> Calls]
    BY DEF BusInv
<1>2. CASE NextMetric(c, cancelled)
    <2>1. call' = Moved(c, "panicked")
        BY <1>1, <1>2, MovedFacts DEF NextMetric, Points
    <2>2. /\ Type(c) = "i2c" /\ Metric(c).address = None
          /\ ~(call[c].next > Len(collectors[c].metrics))
        BY <1>1, <1>2, MovedFacts DEF NextMetric, Points
    <2>3. call[c].next \in DOMAIN collectors[c].metrics
        <3> DEFINE ms == collectors[c].metrics
        <3>1. ms \in Seq({ms[k] : k \in DOMAIN ms})
            BY DEF ListsTyped, IsSequence
        <3>2. DOMAIN ms = 1 .. Len(ms) /\ Len(ms) \in Nat
            BY <3>1, LenProperties
        <3>3. call[c].next \in Nat \ {0}
            BY <1>1 DEF Calls
        <3> QED BY <2>2, <3>2, <3>3
    <2> QED BY <2>2, <2>3, MetricListed DEF Valid, MetricValid, IsSome
<1>3. CASE SpiRead(c)
    <2>1. Reading(c) /\ Type(c) = "spi" /\ call[c].next \in DOMAIN collectors[c].metrics
        BY <1>3 DEF SpiRead, BusInv, CallInv, UnderWay
    <2>2. MetricValid(Type(c), Metric(c)) /\ Metric(c) \in ToSet(collectors[c].metrics)
        BY <2>1, MetricListed DEF Valid
    <2>3. CASE Wraps(Metric(c))
        BY <2>2, <2>3
    <2>4. CASE ~Wraps(Metric(c))
        <3>1. ResponseHolds(Metric(c))
            BY <2>1, <2>2 DEF MetricValid, SpiMetricValid
        <3>2. call' = Continued(c)
            BY <1>3, <2>1, <2>4, <3>1, ResponseSliced DEF SpiRead
        <3> QED BY <1>1, <3>2, ContinuedFacts
    <2> QED BY <2>3, <2>4
<1>4. CASE OtherRead(c, cancelled)
    <2>1. \/ call' = Moved(c, "done")
          \/ /\ Type(c) = "i3c"
             /\ {m \in ToSet(collectors[c].metrics) : IsSome(m.address)} # ToSet(collectors[c].metrics)
        BY <1>4 DEF OtherRead
    <2>2. CASE call' = Moved(c, "done")
        BY <1>1, <2>2, MovedFacts DEF Points
    <2>3. CASE Type(c) = "i3c"
        BY <2>1, <2>2, <2>3 DEF Valid, MetricValid
    <2> QED BY <2>1, <2>2, <2>3
<1>5. CASE \/ NextStep(c) \/ TakeLock(c) \/ WriteRegister(c) \/ ReadBytes(c) \/ WriteStep(c)
           \/ TransferFails(c) \/ OtherWrites(c)
    <2>1. call' = Continued(c) \/ \E at \in Points \ {"panicked"} : call' = Moved(c, at)
        BY <1>5 DEF NextStep, TakeLock, WriteRegister, ReadBytes, WriteStep, TransferFails,
                    AfterFailedStep, OtherWrites, Points
    <2> QED BY <1>1, <2>1, MovedFacts, ContinuedFacts
<1> QED BY <1>2, <1>3, <1>4, <1>5 DEF CallStep, Transfer

LEMMA RunStep ==
    ASSUME ProcessInv, RunInv, ListsTyped, [Next]_vars
    PROVE  RunInv'
<1> SUFFICES ASSUME mode' = "run" PROVE RunInv'
    BY DEF RunInv
<1>1. mode = "run"
    BY DEF Next, Command, Work, StartFails, ShowConfig, Start, CollectOnce, CreateFails, Create,
           ConnectFails, Connect, Read, ReadPanics, Report, EndWatch, NextIteration, Poll,
           PressCtrlC, vars, argVars
<1>2. CASE Start
    <2>1. collectors' = Resolved(config) /\ Validate(config.exporters, Resolved(config))
          /\ phase' = "polling"
        BY <1>1, <1>2 DEF Start, Provide, Selected, Accepted
    <2>2. Valid'
        <3>1. \A c \in Tasks' : collectors'[c] \in ToSet(collectors')
            BY DEF Tasks, ToSet
        <3>2. \A c \in ToSet(collectors') : CollectorValid(c)
            BY <2>1 DEF Validate
        <3> QED BY <3>1, <3>2 DEF CollectorValid, Valid, Type
    <2>3. \A c \in Tasks' : call'[c].at = "done"
        BY <1>2 DEF Start, Provide, Tasks, Idle
    <2> QED BY <2>1, <2>2, <2>3 DEF RunInv, ValidatedNeverPanics
<1>3. CASE \E c \in Tasks : Poll(c)
    <2>1. PICK c \in Tasks : Poll(c)
        BY <1>3
    <2>2. /\ BusInv /\ phase' = "polling" /\ collectors' = collectors /\ Tasks' = Tasks
          /\ RunInv /\ ValidatedNeverPanics
        BY <1>1, <2>1 DEF Poll, CallStep, ProcessInv, RunInv, Tasks
    <2>3. Valid
        BY <1>1, <2>2 DEF RunInv, Valid, Tasks
    <2>4. Valid'
        BY <2>2, <2>3 DEF Valid, Type
    <2>5. ASSUME NEW d \in Tasks, call'[d].at = "panicked"
          PROVE  \E m \in ToSet(collectors[d].metrics) : Wraps(m)
        <3>1. CASE call'[d] = call[d]
            BY <1>1, <2>2, <2>5, <3>1 DEF ValidatedNeverPanics
        <3>2. CASE d = c /\ CallStep(c, FALSE)
            BY <2>2, <2>3, <2>5, <3>2, CallPanics
        <3>3. CASE d # c /\ CallStep(c, FALSE)
            BY <2>2, <3>1, <3>3, CallStepApart
        <3>4. CASE Initialise(c) \/ InitialisedEnds(c) \/ BeginCycle(c) \/ BeginRead(c)
                   \/ SkipCycle(c) \/ EndCycle(c)
            <4>1. EndCall(c) \/ \E kind \in WriteKinds \cup {"read"} : BeginCall(c, kind)
                BY <3>4 DEF Initialise, InitialisedEnds, BeginCycle, BeginRead, SkipCycle, EndCycle,
                            WriteKinds
            <4>2. call'[d] = call[d] \/ call'[d].at \in {"done", "between"}
                BY <2>2, <4>1 DEF BeginCall, EndCall, Idle, BusInv
            <4> QED BY <2>5, <3>1, <4>2
        <3> QED BY <2>1, <3>2, <3>3, <3>4 DEF Poll
    <2> QED BY <2>2, <2>4, <2>5 DEF RunInv, ValidatedNeverPanics
<1>4. CASE CollectOnce \/ EndWatch \/ NextIteration \/ PressCtrlC
    BY <1>1, <1>4 DEF RunInv, CollectOnce, CreateFails, Create, ConnectFails, Connect, Read,
                      ReadPanics, Report, EndWatch, NextIteration, PressCtrlC
<1>5. CASE StartFails \/ ShowConfig \/ UNCHANGED vars
    <2>1. UNCHANGED <<busVars, collectors>> /\ phase' \in {phase, "exited"}
        BY <1>5 DEF StartFails, ShowConfig, ExitWith, vars
    <2>2. Valid => Valid'
        BY <2>1 DEF Valid, Type, Tasks
    <2>3. ValidatedNeverPanics'
        BY <1>1, <2>1 DEF RunInv, ValidatedNeverPanics, busVars, Tasks
    <2> QED BY <1>1, <2>1, <2>2, <2>3 DEF RunInv
<1> QED BY <1>2, <1>3, <1>4, <1>5 DEF Next, Command, Work

-----------------------------------------------------------------------------
(* Steps *)

LEMMA RetainedAppend ==
    ASSUME NEW S, NEW s \in Seq(S), NEW x \in S, NEW kept
    PROVE  Retained(Append(s, x), kept) =
              IF x \in kept THEN Append(Retained(s, kept), x) ELSE Retained(s, kept)
<1> DEFINE t == Append(s, x)
           N == Len(s)
           f == RetainedUpTo(s, kept)
           g == RetainedUpTo(t, kept)
           Same == {n \in Nat : n <= N => f[n] = g[n]}
<1>1. /\ N \in Nat /\ t \in Seq(S) /\ Len(t) = N + 1 /\ t[N + 1] = x
      /\ \A k \in 1 .. N : t[k] = s[k]
    BY AppendProperties, LenProperties
<1> HIDE DEF t
<1>2. /\ Retained(s, kept) = f[N]
      /\ f[0] = <<>>
      /\ \A k \in 1 .. N : f[k] = IF s[k] \in kept THEN Append(f[k - 1], s[k]) ELSE f[k - 1]
    BY RetainedEquation
<1>3. /\ Retained(t, kept) = g[N + 1]
      /\ g[0] = <<>>
      /\ \A k \in 1 .. N + 1 : g[k] = IF t[k] \in kept THEN Append(g[k - 1], t[k]) ELSE g[k - 1]
    BY <1>1, RetainedEquation
<1> HIDE DEF f, g, N
<1>4. 0 \in Same
    BY <1>1, <1>2, <1>3
<1>5. ASSUME NEW n \in Nat, n \in Same PROVE n + 1 \in Same
    <2> SUFFICES ASSUME n + 1 <= N PROVE f[n + 1] = g[n + 1]
        OBVIOUS
    <2>1. n + 1 \in 1 .. N /\ n + 1 \in 1 .. N + 1 /\ (n + 1) - 1 = n /\ n <= N
        BY <1>1
    <2>2. f[n] = g[n] /\ t[n + 1] = s[n + 1]
        BY <1>1, <1>5, <2>1
    <2>3. QED BY <1>2, <1>3, <2>1, <2>2
<1> HIDE DEF Same
<1>6. Nat \subseteq Same
    BY <1>4, <1>5, Induction
<1>7. f[N] = g[N]
    BY <1>1, <1>6 DEF Same
<1>8. g[N + 1] = IF x \in kept THEN Append(g[N], x) ELSE g[N]
    <2>1. N + 1 \in 1 .. N + 1 /\ (N + 1) - 1 = N
        BY <1>1
    <2>2. QED BY <1>1, <1>3, <2>1
<1>9. QED BY <1>2, <1>3, <1>7, <1>8 DEF t

LEMMA RetainedNone ==
    ASSUME NEW kept
    PROVE  Retained(<<>>, kept) = <<>>
<1>1. <<>> \in Seq({}) /\ Len(<<>>) = 0
    OBVIOUS
<1>2. Retained(<<>>, kept) = RetainedUpTo(<<>>, kept)[Len(<<>>)] /\ RetainedUpTo(<<>>, kept)[0] = <<>>
    BY <1>1, RetainedEquation
<1>3. QED BY <1>1, <1>2

LEMMA PayloadsAppend ==
    ASSUME NEW S, NEW s \in Seq(S), NEW x \in S
    PROVE  Payloads(Append(s, x)) = Append(Payloads(s), Payload(x))
<1> DEFINE R == {Payload(y) : y \in S}
           n == Len(s)
           p == Payloads(s)
           t == Append(s, x)
           q == Append(p, Payload(x))
<1>1. /\ n \in Nat /\ DOMAIN s = 1 .. n /\ DOMAIN t = 1 .. n + 1
      /\ t[n + 1] = x /\ \A k \in 1 .. n : t[k] = s[k] /\ s[k] \in S
    BY AppendProperties, LenProperties, ElementOfSeq
<1>2. p = [k \in 1 .. n |-> Payload(s[k])]
    BY <1>1 DEF Payloads
<1>3. p \in Seq(R) /\ Len(p) = n /\ Payload(x) \in R
    <2>1. p \in [1 .. n -> R]
        BY <1>1, <1>2
    <2> HIDE DEF p, R
    <2>2. p \in Seq(R)
        BY <1>1, <2>1, SeqDef
    <2>3. DOMAIN p = 1 .. n
        BY <2>1
    <2>4. Len(p) = n
        BY <1>1, <2>2, <2>3, LenProperties
    <2>5. QED BY <2>2, <2>4 DEF R
<1> HIDE DEF p, R
<1>4. /\ q \in Seq(R) /\ DOMAIN q = 1 .. n + 1 /\ q[n + 1] = Payload(x)
      /\ \A k \in 1 .. n : q[k] = p[k]
    BY <1>1, <1>3, AppendProperties, LenProperties
<1> HIDE DEF q, t
<1>5. \A k \in 1 .. n + 1 : q[k] = Payload(t[k])
    <2> TAKE k \in 1 .. n + 1
    <2>1. CASE k = n + 1
        BY <1>1, <1>4, <2>1
    <2>2. CASE k # n + 1
        <3>1. k \in 1 .. n
            BY <1>1, <2>2
        <3>2. QED BY <1>1, <1>2, <1>4, <3>1
    <2>3. QED BY <2>1, <2>2
<1>6. Payloads(t) = [k \in 1 .. n + 1 |-> Payload(t[k])]
    BY <1>1 DEF Payloads
<1>7. q = [k \in 1 .. n + 1 |-> q[k]]
    <2>1. q \in [1 .. n + 1 -> R]
        BY <1>4, LenProperties
    <2>2. QED BY <2>1
<1>8. q = Payloads(t)
    BY <1>5, <1>6, <1>7
<1>9. QED BY <1>8 DEF q, p, t

\* The steps that have something to send.
Sending(steps) == {s \in ToSet(steps) : IsSome(s.address) \/ IsSome(s.value) \/ IsSome(s.command)}

\* What the first n steps have sent.
Sent(steps, n) == Payloads(Retained(SubSeq(steps, 1, n), Sending(steps)))

LEMMA SentFacts ==
    ASSUME NEW steps, IsSequence(steps)
    PROVE  /\ Sent(steps, 0) = <<>>
           /\ Sent(steps, Len(steps)) = Payloads(Meant(steps))
           /\ \A k \in 1 .. Len(steps) :
                 Sent(steps, k) = IF steps[k] \in Sending(steps)
                                  THEN Append(Sent(steps, k - 1), Payload(steps[k]))
                                  ELSE Sent(steps, k - 1)
<1> DEFINE S == {steps[k] : k \in DOMAIN steps}
           N == Len(steps)
           kept == Sending(steps)
<1>1. steps \in Seq(S) /\ N \in Nat /\ DOMAIN steps = 1 .. N
    BY SequenceOf
<1>2. \A k \in 1 .. N : steps[k] \in S
    BY <1>1
<1> HIDE DEF S, kept
<1>3. Sent(steps, 0) = <<>>
    <2>1. SubSeq(steps, 1, 0) = <<>>
        BY <1>1
    <2>2. Payloads(<<>>) = <<>>
        BY DEF Payloads
    <2>3. QED BY <2>1, <2>2, RetainedNone DEF Sent
<1>4. Sent(steps, N) = Payloads(Meant(steps))
    <2>1. SubSeq(steps, 1, N) = steps
        BY <1>1, SubSeqFull
    <2>2. Meant(steps) = Retained(steps, kept)
        BY DEF Meant, kept, Sending
    <2>3. QED BY <2>1, <2>2 DEF Sent, kept
<1>5. ASSUME NEW k \in 1 .. N
      PROVE  Sent(steps, k) = IF steps[k] \in kept
                              THEN Append(Sent(steps, k - 1), Payload(steps[k]))
                              ELSE Sent(steps, k - 1)
    <2> DEFINE s == SubSeq(steps, 1, k - 1)
               x == steps[k]
    <2>1. s \in Seq(S) /\ x \in S
        <3>1. /\ k \in Nat /\ 1 <= k /\ k <= N
            BY <1>1
        <3>2. \A i \in 1 .. k - 1 : steps[i] \in S
            BY <1>1, <1>2, <3>1
        <3>3. s \in Seq(S)
            BY <1>1, <3>1, <3>2, SubSeqProperties
        <3>4. QED BY <1>2, <3>3
    <2>2. SubSeq(steps, 1, k) = Append(s, x)
        BY <1>1, <2>1
    <2> HIDE DEF s, x
    <2>3. Retained(Append(s, x), kept) =
             IF x \in kept THEN Append(Retained(s, kept), x) ELSE Retained(s, kept)
        BY <2>1, RetainedAppend
    <2>4. Retained(s, kept) \in Seq(S)
        <3> DEFINE r == Retained(s, kept)
        <3>1. r \in Seq(S \cap kept)
            BY <2>1, RetainedFacts
        <3> HIDE DEF r
        <3>2. r \in [1 .. Len(r) -> S \cap kept] /\ Len(r) \in Nat
            BY <3>1, LenProperties
        <3>3. r \in [1 .. Len(r) -> S]
            BY <3>2
        <3>4. r \in Seq(S)
            BY <3>2, <3>3, SeqDef
        <3>5. QED BY <3>4 DEF r
    <2>5. Payloads(Append(Retained(s, kept), x)) = Append(Payloads(Retained(s, kept)), Payload(x))
        BY <2>1, <2>4, PayloadsAppend
    <2>6. QED BY <2>2, <2>3, <2>5 DEF Sent, s, x, kept
<1>6. QED BY <1>3, <1>4, <1>5 DEF kept

-----------------------------------------------------------------------------
(* Writes *)

StepsOf(c, kind) == IF kind = "init_writes" THEN collectors[c].init_writes ELSE collectors[c].pre_poll

\* While its steps are made, what a call has sent is what the steps before the
\* next one had to send.
WriteInv(c) ==
    /\ call[c].kind = "init_writes" => session[c] = "down"
    /\ session[c] = "up"
          => delivered[c]["init_writes"] = Payloads(Meant(collectors[c].init_writes))
    /\ Reading(c) => delivered[c]["pre_poll"] = Payloads(Meant(collectors[c].pre_poll))
    /\ Writing(c) =>
          /\ call[c].at \in {"between", "queued", "locked"} =>
                /\ call[c].next \in 1 .. Len(Steps(c)) + 1
                /\ delivered[c][call[c].kind] = Sent(Steps(c), call[c].next - 1)
          /\ call[c].at \in {"queued", "locked"} =>
                call[c].next <= Len(Steps(c)) /\ HasPayload(c, Step(c))
          /\ call[c].at = "done" => delivered[c][call[c].kind] = Payloads(Meant(Steps(c)))

Delivering ==
    /\ DOMAIN session = Tasks /\ DOMAIN delivered = Tasks
    /\ \A c \in Tasks :
          /\ DOMAIN delivered[c] = WriteKinds
          /\ \A kind \in WriteKinds : /\ IsSequence(StepsOf(c, kind))
                                      /\ StepsValid(Type(c), StepsOf(c, kind))
          /\ WriteInv(c)

WritesInv == mode = "run" => Delivering

\* The code that skips a step and the validation agree on which steps send.
LEMMA ValidStepSends ==
    ASSUME NEW c \in Tasks, NEW steps, StepsValid(Type(c), steps),
           NEW k \in DOMAIN steps
    PROVE  HasPayload(c, steps[k]) <=> steps[k] \in Sending(steps)
<1> DEFINE s == steps[k]
<1>1. s \in ToSet(steps)
    BY DEF ToSet
<1>2. IF Type(c) = "spi" THEN SpiStepValid(s) ELSE RegisterStepValid(s)
    BY <1>1 DEF StepsValid
<1> HIDE DEF s
<1>3. s \in Sending(steps) <=> IsSome(s.address) \/ IsSome(s.value) \/ IsSome(s.command)
    BY <1>1 DEF Sending
<1>4. CASE Type(c) = "spi"
    BY <1>2, <1>3, <1>4 DEF HasPayload, SpiStepValid, IsSome, s
<1>5. CASE Type(c) # "spi"
    BY <1>2, <1>3, <1>5 DEF HasPayload, RegisterStepValid, IsSome, s
<1>6. QED BY <1>4, <1>5

LEMMA WriteInvStands ==
    ASSUME collectors' = collectors, NEW c \in Tasks, WriteInv(c),
           call'[c] = call[c], session'[c] = session[c], delivered'[c] = delivered[c]
    PROVE  WriteInv(c)'
BY DEF WriteInv, Reading, Writing, Steps, Step, HasPayload, Type

\* A step of c leaves what the others have delivered alone.
LEMMA DeliveringKept ==
    ASSUME Delivering, collectors' = collectors, NEW c \in Tasks,
           \A d \in Tasks : d # c => /\ call'[d] = call[d]
                                     /\ session'[d] = session[d]
                                     /\ delivered'[d] = delivered[d],
           DOMAIN session' = Tasks, DOMAIN delivered' = Tasks,
           DOMAIN delivered'[c] = WriteKinds, WriteInv(c)'
    PROVE  Delivering'
<1>1. Tasks' = Tasks
    BY DEF Tasks
<1>2. \A d \in Tasks : WriteInv(d)'
    BY WriteInvStands DEF Delivering
<1>3. \A d \in Tasks : DOMAIN delivered'[d] = WriteKinds
    BY DEF Delivering
<1>4. \A d \in Tasks, kind \in WriteKinds : /\ IsSequence(StepsOf(d, kind))'
                                            /\ StepsValid(Type(d), StepsOf(d, kind))'
    BY DEF Delivering, StepsOf, Type
<1>5. QED BY <1>1, <1>2, <1>3, <1>4 DEF Delivering

\* A step of a call that writes nothing.
LEMMA NotWritingKept ==
    ASSUME Delivering, collectors' = collectors, NEW c \in Tasks, ~Writing(c),
           call'[c].kind = call[c].kind,
           session' = session, delivered' = delivered
    PROVE  WriteInv(c)'
<1>1. WriteInv(c) /\ call[c].kind # "init_writes" /\ ~Writing(c)'
    BY DEF Delivering, Writing, WriteKinds
<1>2. QED BY <1>1 DEF WriteInv, Reading

LEMMA WritingKept ==
    ASSUME Delivering, collectors' = collectors, NEW c \in Tasks, Writing(c),
           call'[c].kind = call[c].kind, session' = session,
           NEW value,
           delivered' = delivered \/ delivered' = [delivered EXCEPT ![c][call[c].kind] = value],
           call'[c].at \in {"between", "queued", "locked"} =>
                /\ call'[c].next \in 1 .. Len(Steps(c)) + 1
                /\ delivered'[c][call[c].kind] = Sent(Steps(c), call'[c].next - 1),
           call'[c].at \in {"queued", "locked"} =>
                call'[c].next <= Len(Steps(c)) /\ HasPayload(c, Steps(c)[call'[c].next]),
           call'[c].at = "done" => delivered'[c][call[c].kind] = Payloads(Meant(Steps(c)))
    PROVE  /\ WriteInv(c)'
           /\ DOMAIN delivered' = Tasks /\ DOMAIN delivered'[c] = WriteKinds
           /\ \A d \in Tasks : d # c => delivered'[d] = delivered[d]
<1>1. /\ WriteInv(c) /\ call[c].kind \in WriteKinds /\ Writing(c)' /\ ~Reading(c)'
      /\ DOMAIN delivered = Tasks /\ DOMAIN delivered[c] = WriteKinds
    BY DEF Delivering, Writing, Reading, WriteKinds
<1>2. Steps(c)' = Steps(c) /\ Step(c)' = Steps(c)[call'[c].next]
    BY DEF Steps, Step
<1>3. \A s : HasPayload(c, s)' <=> HasPayload(c, s)
    BY DEF HasPayload, Type
<1>4. /\ DOMAIN delivered' = Tasks /\ DOMAIN delivered'[c] = WriteKinds
      /\ \A d \in Tasks : d # c => delivered'[d] = delivered[d]
      /\ \A kind \in WriteKinds : kind # call[c].kind => delivered'[c][kind] = delivered[c][kind]
    BY <1>1
<1>5. session[c] = "up" => delivered'[c]["init_writes"] = delivered[c]["init_writes"]
    BY <1>1, <1>4 DEF WriteInv, WriteKinds
<1>6. /\ call'[c].kind = "init_writes" => session'[c] = "down"
      /\ session'[c] = "up"
            => delivered'[c]["init_writes"] = Payloads(Meant(collectors'[c].init_writes))
    BY <1>1, <1>5 DEF WriteInv
<1>7. HasPayload(c, Steps(c)[call'[c].next]) => HasPayload(c, Step(c))'
    BY <1>2, <1>3
<1>8. WriteInv(c)'
    BY <1>1, <1>2, <1>6, <1>7 DEF WriteInv
<1>9. QED BY <1>4, <1>8

\* Whatever step a call takes.
LEMMA CallDelivers ==
    ASSUME BusInv, Delivering, NEW c \in Tasks, NEW cancelled, CallStep(c, cancelled),
           session' = session
    PROVE  Delivering'
<1> DEFINE steps == Steps(c)
           next == call[c].next
           kind == call[c].kind
           Same == \A d \in Tasks : d # c => delivered'[d] = delivered[d]
           Good == /\ WriteInv(c)' /\ Same
                   /\ DOMAIN delivered' = Tasks /\ DOMAIN delivered'[c] = WriteKinds
<1>1. /\ collectors' = collectors /\ call \in [Tasks -> Calls] /\ WriteInv(c)
      /\ DOMAIN delivered = Tasks /\ DOMAIN delivered[c] = WriteKinds /\ DOMAIN session = Tasks
    BY DEF CallStep, BusInv, Delivering
<1>2. \A d \in Tasks : d # c => call'[d] = call[d]
    BY CallStepApart
<1>3. Good => Delivering'
    BY <1>1, <1>2, DeliveringKept
<1>4. CASE ~Writing(c)
    <2>1. call'[c].kind = call[c].kind
        <3>1. \/ call' = Continued(c)
              \/ \E at \in Points : call' = Moved(c, at)
            BY DEF CallStep, Transfer, NextMetric, NextStep, TakeLock, WriteRegister, ReadBytes,
                   SpiRead, WriteStep, TransferFails, AfterFailedStep, OtherRead, OtherWrites, Points
        <3>2. QED BY <1>1, <3>1, MovedFacts, ContinuedFacts
    <2>2. delivered' = delivered
        BY <1>4 DEF CallStep, Transfer, NextMetric, NextStep, TakeLock, WriteRegister, ReadBytes,
                    SpiRead, WriteStep, TransferFails, OtherRead, OtherWrites
    <2>3. WriteInv(c)'
        BY <1>1, <1>4, <2>1, <2>2, NotWritingKept
    <2>4. QED BY <1>1, <1>3, <2>2, <2>3
<1>5. CASE Writing(c)
    <2>1. /\ kind \in WriteKinds /\ ~Reading(c) /\ steps = StepsOf(c, kind)
          /\ IsSequence(steps) /\ StepsValid(Type(c), steps)
        BY <1>5 DEF Writing, Reading, WriteKinds, Steps, StepsOf, Delivering
    <2>2. Len(steps) \in Nat /\ DOMAIN steps = 1 .. Len(steps)
        BY <2>1, SequenceOf
    <2>3. /\ Sent(steps, Len(steps)) = Payloads(Meant(steps))
          /\ \A k \in 1 .. Len(steps) :
                Sent(steps, k) = IF steps[k] \in Sending(steps)
                                 THEN Append(Sent(steps, k - 1), Payload(steps[k]))
                                 ELSE Sent(steps, k - 1)
        BY <2>1, SentFacts
    <2>4. /\ call[c].at \in {"between", "queued", "locked"} =>
                next \in 1 .. Len(steps) + 1 /\ delivered[c][kind] = Sent(steps, next - 1)
          /\ call[c].at \in {"queued", "locked"} =>
                next <= Len(steps) /\ HasPayload(c, steps[next])
        BY <1>1, <1>5 DEF WriteInv, Step
    <2>5. \A k \in 1 .. Len(steps) : HasPayload(c, steps[k]) <=> steps[k] \in Sending(steps)
        BY <2>1, <2>2, ValidStepSends
    <2>6. /\ Continued(c)[c].at = "between" /\ Continued(c)[c].kind = kind
          /\ Continued(c)[c].next = next + 1
        BY <1>1, ContinuedFacts
    <2> HIDE DEF Good, Same, steps, next, kind
    <2>7. CASE NextStep(c)
        <3>1. call[c].at = "between" /\ delivered' = delivered
            BY <2>7 DEF NextStep
        <3>2. next \in 1 .. Len(steps) + 1 /\ delivered[c][kind] = Sent(steps, next - 1)
            BY <2>4, <3>1
        <3>3. CASE next > Len(steps)
            <4>1. call' = Moved(c, "done")
                BY <2>7, <3>3 DEF NextStep, steps, next
            <4>2. call'[c].at = "done" /\ call'[c].kind = call[c].kind
                BY <1>1, <4>1, MovedFacts DEF Points
            <4>3. next - 1 = Len(steps)
                BY <2>2, <3>2, <3>3
            <4>4. delivered'[c][kind] = Payloads(Meant(steps))
                BY <2>3, <3>1, <3>2, <4>3
            <4>5. QED BY <1>1, <1>3, <1>5, <3>1, <4>2, <4>4, WritingKept DEF Good, Same, steps, kind
        <3>4. CASE ~(next > Len(steps)) /\ HasPayload(c, steps[next])
            <4>1. call' = Moved(c, "queued")
                BY <2>7, <3>4 DEF NextStep, steps, next, Step
            <4>2. call'[c].at = "queued" /\ call'[c].kind = call[c].kind /\ call'[c].next = next
                BY <1>1, <4>1, MovedFacts DEF Points, next
            <4>3. next <= Len(steps)
                BY <2>2, <3>2, <3>4
            <4>4. QED BY <1>1, <1>3, <1>5, <3>1, <3>2, <3>4, <4>2, <4>3, WritingKept
                      DEF Good, Same, steps, kind
        <3>5. CASE ~(next > Len(steps)) /\ ~HasPayload(c, steps[next])
            <4>1. call' = Continued(c)
                BY <2>7, <3>5 DEF NextStep, steps, next, Step
            <4>2. next \in 1 .. Len(steps) /\ next + 1 \in 1 .. Len(steps) + 1 /\ (next + 1) - 1 = next
                BY <2>2, <3>2, <3>5
            <4>3. Sent(steps, next) = Sent(steps, next - 1)
                BY <2>3, <2>5, <3>5, <4>2
            <4>4. delivered'[c][kind] = Sent(steps, (next + 1) - 1)
                BY <3>1, <3>2, <4>2, <4>3
            <4>5. /\ call'[c].at = "between" /\ call'[c].kind = call[c].kind
                  /\ call'[c].next = next + 1
                BY <2>6, <4>1 DEF kind
            <4>6. QED BY <1>1, <1>3, <1>5, <3>1, <4>2, <4>4, <4>5, WritingKept
                      DEF Good, Same, steps, kind
        <3>6. QED BY <3>3, <3>4, <3>5
    <2>8. CASE TakeLock(c)
        <3>1. call[c].at = "queued" /\ delivered' = delivered /\ call' = Moved(c, "locked")
            BY <2>8 DEF TakeLock
        <3>2. call'[c].at = "locked" /\ call'[c].kind = call[c].kind /\ call'[c].next = next
            BY <1>1, <3>1, MovedFacts DEF Points, next
        <3>3. QED BY <1>1, <1>3, <1>5, <2>4, <3>1, <3>2, WritingKept DEF Good, Same, steps, kind
    <2>9. CASE WriteStep(c)
        <3> DEFINE new == Append(delivered[c][kind], Payload(steps[next]))
        <3>1. /\ call[c].at = "locked" /\ call' = Continued(c)
              /\ delivered' = [delivered EXCEPT ![c][kind] = new]
            BY <2>9 DEF WriteStep, kind, steps, next, Step
        <3>2. /\ next \in 1 .. Len(steps) + 1 /\ delivered[c][kind] = Sent(steps, next - 1)
              /\ next <= Len(steps) /\ HasPayload(c, steps[next])
            BY <2>4, <3>1
        <3>3. next \in 1 .. Len(steps) /\ next + 1 \in 1 .. Len(steps) + 1 /\ (next + 1) - 1 = next
            BY <2>2, <3>2
        <3>4. Sent(steps, next) = new
            BY <2>3, <2>5, <3>2, <3>3
        <3> HIDE DEF new
        <3>5. delivered'[c][kind] = Sent(steps, (next + 1) - 1)
            BY <1>1, <2>1, <3>1, <3>3, <3>4
        <3>6. /\ call'[c].at = "between" /\ call'[c].kind = call[c].kind
              /\ call'[c].next = next + 1
            BY <2>6, <3>1 DEF kind
        <3>7. QED BY <1>1, <1>3, <1>5, <3>1, <3>3, <3>5, <3>6, WritingKept
                  DEF Good, Same, steps, kind
    <2>10. CASE TransferFails(c)
        <3>1. call' = Moved(c, "failed") /\ delivered' = delivered
            BY <2>1, <2>10 DEF TransferFails, AfterFailedStep
        <3>2. call'[c].at = "failed" /\ call'[c].kind = call[c].kind
            BY <1>1, <3>1, MovedFacts DEF Points
        <3>3. QED BY <1>1, <1>3, <1>5, <3>1, <3>2, WritingKept DEF Good, Same, steps, kind
    <2>11. CASE OtherWrites(c)
        <3> DEFINE new == Payloads(Retained(steps, {s \in ToSet(steps) : HasPayload(c, s)}))
        <3>1. \/ call' = Moved(c, "done") /\ delivered' = [delivered EXCEPT ![c][kind] = new]
              \/ call' = Moved(c, "failed") /\ delivered' = delivered
            BY <2>11 DEF OtherWrites, kind, steps
        <3>2. new = Payloads(Meant(steps))
            <4>1. {s \in ToSet(steps) : HasPayload(c, s)} = Sending(steps)
                <5>1. ASSUME NEW s \in ToSet(steps)
                      PROVE  HasPayload(c, s) <=> s \in Sending(steps)
                    <6>1. PICK k \in DOMAIN steps : s = steps[k]
                        BY DEF ToSet
                    <6>2. QED BY <2>2, <2>5, <6>1
                <5>2. Sending(steps) \subseteq ToSet(steps)
                    BY DEF Sending
                <5>3. QED BY <5>1, <5>2
            <4>2. Meant(steps) = Retained(steps, Sending(steps))
                BY DEF Meant, Sending
            <4>3. QED BY <4>1, <4>2
        <3> HIDE DEF new
        <3>3. CASE call' = Moved(c, "done") /\ delivered' = [delivered EXCEPT ![c][kind] = new]
            <4>1. call'[c].at = "done" /\ call'[c].kind = call[c].kind
                BY <1>1, <3>3, MovedFacts DEF Points
            <4>2. delivered'[c][kind] = Payloads(Meant(steps))
                BY <1>1, <2>1, <3>2, <3>3
            <4>3. QED BY <1>1, <1>3, <1>5, <3>3, <4>1, <4>2, WritingKept DEF Good, Same, steps, kind
        <3>4. CASE call' = Moved(c, "failed") /\ delivered' = delivered
            <4>1. call'[c].at = "failed" /\ call'[c].kind = call[c].kind
                BY <1>1, <3>4, MovedFacts DEF Points
            <4>2. QED BY <1>1, <1>3, <1>5, <3>4, <4>1, WritingKept DEF Good, Same, steps, kind
        <3>5. QED BY <3>1, <3>3, <3>4
    <2>12. ~(\/ NextMetric(c, cancelled) \/ WriteRegister(c) \/ ReadBytes(c) \/ SpiRead(c)
             \/ OtherRead(c, cancelled))
        <3>1. ~NextMetric(c, cancelled) /\ ~WriteRegister(c) /\ ~SpiRead(c) /\ ~OtherRead(c, cancelled)
            BY <2>1 DEF NextMetric, WriteRegister, SpiRead, OtherRead
        <3>2. ~ReadBytes(c)
            BY <2>1 DEF ReadBytes, BusInv, CallInv
        <3>3. QED BY <3>1, <3>2
    <2>13. QED BY <2>7, <2>8, <2>9, <2>10, <2>11, <2>12 DEF CallStep, Transfer
<1>6. QED BY <1>4, <1>5

LEMMA BegunDelivers ==
    ASSUME BusInv, Delivering, collectors' = collectors, NEW c \in Tasks,
           call[c].at = "done", session' = session,
           \/ call[c].kind = "none" /\ session[c] = "down" /\ BeginCall(c, "init_writes")
           \/ call[c].kind = "none" /\ session[c] = "up" /\ BeginCall(c, "pre_poll")
           \/ call[c].kind = "pre_poll" /\ BeginCall(c, "read")
    PROVE  Delivering'
<1>1. /\ call \in [Tasks -> Calls] /\ WriteInv(c) /\ DOMAIN delivered = Tasks
      /\ DOMAIN delivered[c] = WriteKinds /\ DOMAIN session = Tasks
      /\ IsSequence(collectors[c].init_writes) /\ IsSequence(collectors[c].pre_poll)
    BY DEF BusInv, Delivering, StepsOf, WriteKinds
<1>2. ASSUME NEW kind \in WriteKinds, BeginCall(c, kind),
             kind = "init_writes" => session[c] = "down"
      PROVE  Delivering'
    <2>1. /\ call'[c] = [kind |-> kind, at |-> "between", next |-> 1]
          /\ \A d \in Tasks : d # c => call'[d] = call[d]
        BY <1>1, <1>2 DEF BeginCall
    <2>2. delivered' = [delivered EXCEPT ![c][kind] = <<>>]
        BY <1>2 DEF BeginCall
    <2>3. /\ DOMAIN delivered' = Tasks /\ DOMAIN delivered'[c] = WriteKinds
          /\ delivered'[c][kind] = <<>>
          /\ \A other \in WriteKinds : other # kind => delivered'[c][other] = delivered[c][other]
          /\ \A d \in Tasks : d # c => delivered'[d] = delivered[d]
        BY <1>1, <2>2
    <2>4. IsSequence(Steps(c)')
        BY <1>1, <2>1 DEF Steps
    <2>5. Len(Steps(c)') \in Nat /\ Sent(Steps(c)', 0) = <<>>
        <3> DEFINE steps == Steps(c)'
        <3> HIDE DEF steps
        <3>1. IsSequence(steps)
            BY <2>4 DEF steps
        <3>2. Len(steps) \in Nat /\ Sent(steps, 0) = <<>>
            BY <3>1, SequenceOf, SentFacts
        <3>3. QED BY <3>2 DEF steps
    <2>6. /\ call'[c].kind = kind /\ call'[c].at = "between" /\ call'[c].next = 1
        BY <2>1
    <2>7. session[c] = "up" => kind = "pre_poll" /\ "init_writes" \in WriteKinds
        BY <1>2 DEF WriteKinds
    <2>8. session[c] = "up" => delivered'[c]["init_writes"] = delivered[c]["init_writes"]
        BY <2>3, <2>7
    <2>9. ~Reading(c)'
        BY <2>6 DEF Reading, WriteKinds
    <2>10. /\ call'[c].next \in 1 .. Len(Steps(c)') + 1
           /\ delivered'[c][call'[c].kind] = Sent(Steps(c)', call'[c].next - 1)
        BY <2>3, <2>5, <2>6
    <2>11. WriteInv(c)'
        BY <1>1, <1>2, <2>6, <2>8, <2>9, <2>10 DEF WriteInv
    <2>12. QED BY <1>1, <2>1, <2>3, <2>11, DeliveringKept
<1>3. CASE call[c].kind = "pre_poll" /\ BeginCall(c, "read")
    <2>1. /\ call'[c] = [kind |-> "read", at |-> "between", next |-> 1]
          /\ \A d \in Tasks : d # c => call'[d] = call[d]
          /\ delivered' = delivered
        BY <1>1, <1>3 DEF BeginCall, WriteKinds
    <2>2. delivered[c]["pre_poll"] = Payloads(Meant(collectors[c].pre_poll))
        BY <1>1, <1>3 DEF WriteInv, Writing, WriteKinds, Steps
    <2>3. call'[c].kind = "read" /\ ~Writing(c)'
        BY <2>1 DEF Writing, WriteKinds
    <2>4. WriteInv(c)'
        BY <1>1, <2>1, <2>2, <2>3 DEF WriteInv
    <2>5. QED BY <1>1, <2>1, <2>4, DeliveringKept
<1>4. QED BY <1>2, <1>3 DEF WriteKinds

LEMMA EndedDelivers ==
    ASSUME BusInv, Delivering, collectors' = collectors, NEW c \in Tasks, EndCall(c),
           \/ session' = session
           \/ session' = [session EXCEPT ![c] = "down"]
           \/ /\ session' = [session EXCEPT ![c] = "up"]
              /\ call[c].kind = "init_writes" /\ call[c].at = "done"
    PROVE  Delivering'
<1>1. /\ call \in [Tasks -> Calls] /\ WriteInv(c) /\ DOMAIN delivered = Tasks
      /\ DOMAIN delivered[c] = WriteKinds /\ DOMAIN session = Tasks
    BY DEF BusInv, Delivering
<1>2. /\ call'[c] = Idle /\ \A d \in Tasks : d # c => call'[d] = call[d]
      /\ delivered' = delivered
    BY <1>1 DEF EndCall
<1>3. DOMAIN session' = Tasks /\ \A d \in Tasks : d # c => session'[d] = session[d]
    BY <1>1
<1>4. session'[c] = "up" => delivered[c]["init_writes"] = Payloads(Meant(collectors[c].init_writes))
    <2>1. CASE call[c].kind = "init_writes" /\ call[c].at = "done"
        BY <1>1, <2>1 DEF WriteInv, Writing, WriteKinds, Steps
    <2>2. CASE session' = session
        BY <1>1, <2>2 DEF WriteInv
    <2>3. CASE session' = [session EXCEPT ![c] = "down"]
        BY <1>1, <2>3
    <2>4. QED BY <2>1, <2>2, <2>3
<1>5. WriteInv(c)'
    BY <1>2, <1>4 DEF WriteInv, Reading, Writing, WriteKinds, Idle
<1>6. QED BY <1>1, <1>2, <1>3, <1>5, DeliveringKept

LEMMA DeliveringStands ==
    ASSUME Delivering, UNCHANGED <<busVars, collectors, session>>
    PROVE  Delivering'
<1>1. Tasks' = Tasks
    BY DEF Tasks
<1>2. \A c \in Tasks : WriteInv(c)'
    BY WriteInvStands DEF Delivering, busVars
<1>3. \A d \in Tasks, kind \in WriteKinds : /\ IsSequence(StepsOf(d, kind))'
                                            /\ StepsValid(Type(d), StepsOf(d, kind))'
    BY DEF Delivering, StepsOf, Type
<1>4. QED BY <1>1, <1>2, <1>3 DEF Delivering, busVars

LEMMA StartDelivers ==
    ASSUME LoadInv', Start, mode = "run"
    PROVE  Delivering'
<1>1. /\ collectors' = Resolved(config) /\ Validate(config.exporters, Resolved(config))
      /\ Selected = Resolved(config)
    BY DEF Start, Provide, Selected, Accepted
<1>2. /\ call' = [c \in Tasks' |-> Idle]
      /\ delivered' = [c \in Tasks' |-> [kind \in WriteKinds |-> <<>>]]
      /\ session' = [c \in Tasks' |-> "down"]
    BY <1>1 DEF Start, Provide, Tasks
<1>3. ASSUME NEW c \in Tasks'
      PROVE  /\ \A kind \in WriteKinds : /\ IsSequence(StepsOf(c, kind)')
                                         /\ StepsValid(Type(c)', StepsOf(c, kind)')
             /\ WriteInv(c)'
    <2>1. collectors'[c] \in ToSet(collectors')
        BY DEF Tasks, ToSet
    <2>2. CollectorValid(collectors'[c])
        BY <1>1, <2>1 DEF Validate
    <2>3. /\ StepsValid(Type(c)', collectors'[c].init_writes)
          /\ StepsValid(Type(c)', collectors'[c].pre_poll)
        BY <2>2 DEF CollectorValid, Type
    <2>4. collectors' # <<>> /\ Made(collectors)'
        BY <1>1 DEF LoadInv, Start
    <2>5. \E d : CollectorTyped(d) /\ collectors'[c].init_writes = d.init_writes
                 /\ collectors'[c].pre_poll = d.pre_poll
        BY <2>4 DEF Made, MadeFrom, Tasks
    <2>6. IsSequence(collectors'[c].init_writes) /\ IsSequence(collectors'[c].pre_poll)
        BY <2>5 DEF CollectorTyped
    <2>7. call'[c] = Idle /\ session'[c] = "down"
        BY <1>2
    <2>8. WriteInv(c)'
        BY <2>7 DEF WriteInv, Reading, Writing, WriteKinds, Idle
    <2>9. QED BY <2>3, <2>6, <2>8 DEF StepsOf
<1>4. QED BY <1>2, <1>3 DEF Delivering

LEMMA WritesStep ==
    ASSUME LoadInv', ProcessInv, RunInv, WritesInv, [Next]_vars
    PROVE  WritesInv'
<1> SUFFICES ASSUME mode' = "run" PROVE Delivering'
    BY DEF WritesInv
<1>1. mode = "run"
    BY DEF Next, Command, Work, StartFails, ShowConfig, Start, CollectOnce, CreateFails, Create,
           ConnectFails, Connect, Read, ReadPanics, Report, EndWatch, NextIteration, Poll,
           PressCtrlC, vars, argVars
<1>2. Delivering /\ phase \in {"loading", "polling", "exited"}
    BY <1>1 DEF WritesInv, RunInv
<1>3. CASE Start
    BY <1>1, <1>3, StartDelivers
<1>4. CASE \E c \in Tasks : Poll(c)
    <2>1. PICK c \in Tasks : Poll(c)
        BY <1>4
    <2>2. BusInv /\ collectors' = collectors
        BY <2>1 DEF ProcessInv, Poll, CallStep
    <2>3. CASE CallStep(c, FALSE) /\ UNCHANGED pollVars
        BY <1>2, <2>2, <2>3, CallDelivers DEF pollVars
    <2>4. CASE Initialise(c) \/ BeginCycle(c) \/ BeginRead(c)
        <3>1. session' = session /\ call[c].at = "done"
            BY <2>4 DEF Initialise, BeginCycle, BeginRead, At, pollVars
        <3>2. \/ call[c].kind = "none" /\ session[c] = "down" /\ BeginCall(c, "init_writes")
              \/ call[c].kind = "none" /\ session[c] = "up" /\ BeginCall(c, "pre_poll")
              \/ call[c].kind = "pre_poll" /\ BeginCall(c, "read")
            BY <2>4 DEF Initialise, BeginCycle, BeginRead, At
        <3>3. QED BY <1>2, <2>2, <3>1, <3>2, BegunDelivers
    <2>5. CASE InitialisedEnds(c) \/ SkipCycle(c) \/ EndCycle(c)
        <3>1. EndCall(c)
            BY <2>5 DEF InitialisedEnds, SkipCycle, EndCycle
        <3>2. \/ session' = session
              \/ session' = [session EXCEPT ![c] = "down"]
              \/ /\ session' = [session EXCEPT ![c] = "up"]
                 /\ call[c].kind = "init_writes" /\ call[c].at = "done"
            BY <2>5 DEF InitialisedEnds, SkipCycle, EndCycle, At, pollVars
        <3>3. QED BY <1>2, <2>2, <3>1, <3>2, EndedDelivers
    <2>6. QED BY <2>1, <2>3, <2>4, <2>5 DEF Poll
<1>5. CASE StartFails \/ ShowConfig \/ UNCHANGED vars
    <2>1. UNCHANGED <<busVars, collectors, session>>
        BY <1>5 DEF StartFails, ShowConfig, vars, pollVars
    <2>2. QED BY <1>2, <2>1, DeliveringStands
<1>6. ~CollectOnce /\ ~EndWatch /\ ~NextIteration /\ ~PressCtrlC
    BY <1>1, <1>2 DEF CollectOnce, CreateFails, Create, ConnectFails, Connect, Read, ReadPanics,
                      Report, EndWatch, NextIteration, PressCtrlC
<1>7. QED BY <1>3, <1>4, <1>5, <1>6 DEF Next, Command, Work

-----------------------------------------------------------------------------
(* Counting *)

LEMMA CountSolution ==
    ASSUME NEW S, NEW cs \in Seq(S), \A c \in S : Len(c.metrics) \in Nat
    PROVE  \E p \in [0 .. Len(cs) -> Nat] :
              /\ p[0] = 0
              /\ \A k \in 1 .. Len(cs) : p[k] = p[k - 1] + Len(cs[k].metrics)
              /\ MetricsOf(cs) = p[Len(cs)]
<1> DEFINE N == Len(cs)
           next == [p \in Nat \X (1 .. N) |-> p[1] + Len(cs[p[2]].metrics)]
           IsIter(g) == g = [X \in SUBSET (1 .. N) |->
                               IF X = {} THEN 0
                               ELSE LET x == Max(X) IN g[X \ {x}] + Len(cs[x].metrics)]
<1>1. N \in Nat /\ DOMAIN cs = 1 .. N /\ \A k \in 1 .. N : cs[k] \in S /\ Len(cs[k].metrics) \in Nat
    BY LenProperties, ElementOfSeq
<1>2. next \in [Nat \X (1 .. N) -> Nat]
    BY <1>1
<1>3. PICK it \in [SUBSET (1 .. N) -> Nat] : FoldEquation(it, 0, next, N)
    <2> HIDE DEF next, N
    <2>1. N \in Nat /\ 0 \in Nat
        BY <1>1
    <2>2. QED BY <1>2, <2>1, FoldSolution
<1>4. ASSUME NEW X \in SUBSET (1 .. N), X # {}
      PROVE  it[X] = it[X \ {Max(X)}] + Len(cs[Max(X)].metrics)
    <2>1. it[X] = next[<<it[X \ {Max(X)}], Max(X)>>]
        <3> HIDE DEF next, N
        <3>1. QED BY <1>3, <1>4, Zenon DEF FoldEquation
    <2>2. Max(X) \in 1 .. N
        <3> HIDE DEF N
        <3>1. QED BY <1>1, <1>4, MaxFacts
    <2>3. it[X \ {Max(X)}] \in Nat
        BY <1>3
    <2>4. <<it[X \ {Max(X)}], Max(X)>> \in Nat \X (1 .. N)
        BY <2>2, <2>3
    <2>5. QED BY <2>1, <2>4
<1>5. it[{}] = 0
    <2> HIDE DEF next, N
    <2>1. {} \in SUBSET (1 .. N)
        OBVIOUS
    <2>2. QED BY <1>3, <2>1, Zenon DEF FoldEquation
<1>6. IsIter(it)
    <2>1. it = [X \in SUBSET (1 .. N) |-> it[X]]
        BY <1>3
    <2> HIDE DEF next, N
    <2>2. \A X \in SUBSET (1 .. N) :
             it[X] = IF X = {} THEN 0 ELSE LET x == Max(X) IN it[X \ {x}] + Len(cs[x].metrics)
        BY <1>4, <1>5
    <2>3. QED BY <2>1, <2>2, Zenon
<1> DEFINE iter == CHOOSE g : IsIter(g)
<1>7. IsIter(iter) /\ MetricsOf(cs) = iter[1 .. N]
    <2>1. IsIter(iter)
        BY <1>6
    <2>2. MetricsOf(cs) = iter[1 .. N]
        BY <1>1 DEF MetricsOf, FoldLeft, MapThenFoldSet
    <2>3. QED BY <2>1, <2>2
<1> HIDE DEF iter
<1>8. /\ iter[1 .. 0] = 0
      /\ \A k \in 1 .. N : iter[1 .. k] = iter[1 .. k - 1] + Len(cs[k].metrics)
    <2>1. 1 .. 0 = {} /\ 1 .. 0 \in SUBSET (1 .. N)
        OBVIOUS
    <2>2. iter[1 .. 0] = 0
        BY <1>7, <2>1, Zenon
    <2>3. ASSUME NEW k \in 1 .. N
          PROVE  iter[1 .. k] = iter[1 .. k - 1] + Len(cs[k].metrics)
        <3> HIDE DEF N
        <3>1. k \in Nat /\ 1 <= k /\ k <= N /\ N \in Nat
            BY <1>1
        <3>2. (1 .. k) \ {k} = 1 .. k - 1
            BY <3>1
        <3>3. 1 .. k \in SUBSET (1 .. N) /\ 1 .. k # {}
            <4>1. 1 \in 1 .. k
                BY <3>1
            <4>2. 1 .. k \in SUBSET (1 .. N)
                BY <3>1
            <4>3. QED BY <4>1, <4>2
        <3>4. 1 .. k \in SUBSET (1 .. k) /\ k \in 1 .. k
            BY <3>1
        <3>5. Max(1 .. k) = k
            BY <3>1, <3>4, MaxIsLast
        <3>6. QED BY <1>7, <3>2, <3>3, <3>5, Zenon
    <2>4. QED BY <2>2, <2>3
<1> DEFINE p == [k \in 0 .. N |-> iter[1 .. k]]
           Good == {n \in Nat : n <= N => iter[1 .. n] \in Nat}
<1>9. 0 \in Good
    BY <1>8
<1>10. ASSUME NEW n \in Nat, n \in Good PROVE n + 1 \in Good
    <2> SUFFICES ASSUME n + 1 <= N PROVE iter[1 .. n + 1] \in Nat
        OBVIOUS
    <2>1. n + 1 \in 1 .. N /\ (n + 1) - 1 = n /\ n <= N
        BY <1>1
    <2>2. iter[1 .. n] \in Nat /\ Len(cs[n + 1].metrics) \in Nat
        BY <1>1, <1>10, <2>1
    <2>3. iter[1 .. n + 1] = iter[1 .. n] + Len(cs[n + 1].metrics)
        BY <1>8, <2>1
    <2>4. QED BY <2>2, <2>3
<1> HIDE DEF Good
<1>11. Nat \subseteq Good
    BY <1>9, <1>10, Induction
<1>12. \A k \in 0 .. N : iter[1 .. k] \in Nat
    BY <1>1, <1>11 DEF Good
<1>13. p \in [0 .. N -> Nat]
    BY <1>12
<1>14. \A k \in 0 .. N : p[k] = iter[1 .. k]
    OBVIOUS
<1> HIDE DEF p, N
<1>15. 0 \in 0 .. N /\ N \in 0 .. N /\ \A k \in 1 .. N : k \in 0 .. N /\ k - 1 \in 0 .. N
    BY <1>1
<1>16. p[0] = 0 /\ p[N] = MetricsOf(cs)
    BY <1>7, <1>8, <1>14, <1>15
<1>17. \A k \in 1 .. N : p[k] = p[k - 1] + Len(cs[k].metrics)
    BY <1>8, <1>14, <1>15
<1>18. QED BY <1>13, <1>16, <1>17 DEF N

\* The metrics of the first k collectors.
CountTo(cs, k) == MetricsOf(SubSeq(cs, 1, k))

LEMMA CountFacts ==
    ASSUME NEW S, NEW cs \in Seq(S), \A c \in S : Len(c.metrics) \in Nat
    PROVE  /\ CountTo(cs, 0) = 0
           /\ CountTo(cs, Len(cs)) = MetricsOf(cs)
           /\ \A k \in 0 .. Len(cs) : CountTo(cs, k) \in Nat
           /\ \A k \in 1 .. Len(cs) : CountTo(cs, k) = CountTo(cs, k - 1) + Len(cs[k].metrics)
<1> DEFINE N == Len(cs)
<1>1. N \in Nat /\ DOMAIN cs = 1 .. N /\ \A k \in 1 .. N : cs[k] \in S /\ Len(cs[k].metrics) \in Nat
    BY LenProperties, ElementOfSeq
<1>2. PICK p \in [0 .. N -> Nat] :
         /\ p[0] = 0
         /\ \A k \in 1 .. N : p[k] = p[k - 1] + Len(cs[k].metrics)
    BY CountSolution
<1>3. ASSUME NEW k \in 0 .. N PROVE CountTo(cs, k) = p[k]
    <2> DEFINE part == SubSeq(cs, 1, k)
    <2>1. k \in Nat /\ k <= N
        BY <1>1
    <2>2. \A i \in 1 .. k : i \in 1 .. N /\ cs[i] \in S
        BY <1>1, <2>1
    <2>3. part \in Seq(S) /\ Len(part) = k /\ \A i \in 1 .. k : part[i] = cs[i]
        BY <2>1, <2>2, SubSeqProperties
    <2> HIDE DEF part, N
    <2>4. PICK q \in [0 .. k -> Nat] :
             /\ q[0] = 0
             /\ \A i \in 1 .. k : q[i] = q[i - 1] + Len(part[i].metrics)
             /\ MetricsOf(part) = q[k]
        BY <2>3, CountSolution
    <2> DEFINE Same == {n \in Nat : n <= k => q[n] = p[n]}
    <2>5. 0 \in Same
        BY <1>2, <2>4
    <2>6. ASSUME NEW n \in Nat, n \in Same PROVE n + 1 \in Same
        <3> SUFFICES ASSUME n + 1 <= k PROVE q[n + 1] = p[n + 1]
            OBVIOUS
        <3>1. n + 1 \in 1 .. k /\ n + 1 \in 1 .. N /\ (n + 1) - 1 = n /\ n <= k
            BY <1>1, <2>1
        <3>2. QED BY <1>2, <2>3, <2>4, <2>6, <3>1
    <2> HIDE DEF Same
    <2>7. Nat \subseteq Same
        BY <2>5, <2>6, Induction
    <2>8. q[k] = p[k]
        BY <2>1, <2>7 DEF Same
    <2>9. QED BY <2>4, <2>8 DEF CountTo, part
<1> HIDE DEF N
<1>4. 0 \in 0 .. N /\ \A k \in 1 .. N : k \in 0 .. N /\ k - 1 \in 0 .. N
    BY <1>1
<1>5. SubSeq(cs, 1, N) = cs
    BY SubSeqFull DEF N
<1>6. QED BY <1>2, <1>3, <1>4, <1>5 DEF CountTo, N

-----------------------------------------------------------------------------
(* What a read has so far *)

Values(c) == {name \in DOMAIN results[c] : results[c][name] # Failed}

NamesBefore(c, n) == {collectors[c].metrics[k].name : k \in 1 .. n - 1}

\* While metrics are read, there are results only of those before the next one.
Scanned(c) ==
    /\ DOMAIN results[c] \subseteq NamesBefore(c, Len(collectors[c].metrics) + 1)
    /\ Reading(c) /\ call[c].at \in {"between", "queued", "locked", "addressed"} =>
          /\ DOMAIN results[c] \subseteq NamesBefore(c, call[c].next)
          /\ call[c].next \in 1 .. Len(collectors[c].metrics) + 1
          /\ call[c].at = "between" /\ Type(c) \notin {"i2c", "spi"} => call[c].next = 1

ReadInv == \A c \in Tasks : Scanned(c)

LEMMA MetricsListed ==
    ASSUME ListsTyped, NEW c \in Tasks
    PROVE  LET ms == collectors[c].metrics
           IN  /\ Len(ms) \in Nat /\ DOMAIN ms = 1 .. Len(ms)
               /\ \A j, k \in 1 .. Len(ms) : ms[j].name = ms[k].name => j = k
<1> DEFINE ms == collectors[c].metrics
<1>1. IsSequence(ms) /\ \A j, k \in DOMAIN ms : ms[j].name = ms[k].name => j = k
    BY DEF ListsTyped
<1> HIDE DEF ms
<1>2. Len(ms) \in Nat /\ DOMAIN ms = 1 .. Len(ms)
    BY <1>1, SequenceOf
<1>3. QED BY <1>1, <1>2 DEF ms

LEMMA ScannedStands ==
    ASSUME collectors' = collectors, NEW c \in Tasks, Scanned(c),
           call'[c] = call[c], results'[c] = results[c]
    PROVE  Scanned(c)'
BY DEF Scanned, NamesBefore, Reading, Type

\* From one point to another with no result.
LEMMA NothingRead ==
    ASSUME collectors' = collectors, NEW c \in Tasks, Scanned(c),
           results'[c] = results[c], call'[c].kind = call[c].kind,
           \/ ~Reading(c)
           \/ call'[c].at \in {"done", "failed", "panicked"}
           \/ /\ call'[c].next = call[c].next
              /\ call[c].at \in {"between", "queued", "locked", "addressed"}
              /\ call'[c].at \in {"queued", "locked", "addressed"}
    PROVE  Scanned(c)' /\ Values(c)' = Values(c)
<1>1. Values(c)' = Values(c)
    BY DEF Values
<1>2. Reading(c)' <=> Reading(c)
    BY DEF Reading
<1>3. DOMAIN results'[c] \subseteq NamesBefore(c, Len(collectors[c].metrics) + 1)'
    BY DEF Scanned, NamesBefore
<1>4. ASSUME Reading(c)', call'[c].at \in {"between", "queued", "locked", "addressed"}
      PROVE  /\ DOMAIN results'[c] \subseteq NamesBefore(c, call[c].next)'
             /\ call'[c].next \in 1 .. Len(collectors'[c].metrics) + 1
             /\ call'[c].at = "between" /\ Type(c)' \notin {"i2c", "spi"} => call'[c].next = 1
    <2>1. /\ call'[c].next = call[c].next
          /\ call[c].at \in {"between", "queued", "locked", "addressed"}
          /\ call'[c].at \in {"queued", "locked", "addressed"}
        BY <1>2, <1>4
    <2>2. QED BY <1>2, <1>4, <2>1 DEF Scanned, NamesBefore
<1>5. QED BY <1>1, <1>3, <1>4 DEF Scanned

\* The next metric has a result, and no other loses its own.
LEMMA OneRead ==
    ASSUME ListsTyped, BusInv, collectors' = collectors, NEW c \in Tasks, Scanned(c),
           Reading(c), call[c].at \in {"locked", "addressed"}, Type(c) \in {"i2c", "spi"},
           call[c].next \in DOMAIN collectors[c].metrics,
           NEW value, results' = WithResult(c, value), call' = Continued(c)
    PROVE  Scanned(c)' /\ Values(c) \subseteq Values(c)'
<1> DEFINE ms == collectors[c].metrics
           n == call[c].next
           name == Metric(c).name
           new == [x \in DOMAIN results[c] \cup {name} |-> IF x = name THEN value ELSE results[c][x]]
<1>1. /\ Len(ms) \in Nat /\ DOMAIN ms = 1 .. Len(ms) /\ n \in 1 .. Len(ms)
      /\ \A j, k \in 1 .. Len(ms) : ms[j].name = ms[k].name => j = k
      /\ name = ms[n].name
    BY MetricsListed DEF Metric
<1>2. results' = [results EXCEPT ![c] = new] /\ DOMAIN results = Tasks
    BY DEF WithResult, BusInv
<1>3. results'[c] = new /\ DOMAIN new = DOMAIN results[c] \cup {name}
      /\ \A x \in DOMAIN results[c] : x # name => new[x] = results[c][x]
    BY <1>2
<1>4. /\ call'[c].at = "between" /\ call'[c].kind = call[c].kind /\ call'[c].next = n + 1
    BY ContinuedFacts DEF BusInv
<1>5. DOMAIN results[c] \subseteq NamesBefore(c, n)
    BY DEF Scanned
<1> HIDE DEF new
<1>6. name \notin DOMAIN results[c]
    <2> SUFFICES ASSUME name \in NamesBefore(c, n) PROVE FALSE
        BY <1>5
    <2>1. PICK k \in 1 .. n - 1 : name = ms[k].name
        BY DEF NamesBefore
    <2>2. k \in 1 .. Len(ms) /\ k # n
        BY <1>1, <2>1
    <2>3. QED BY <1>1, <2>1, <2>2
<1>7. Values(c) \subseteq Values(c)'
    BY <1>3, <1>6 DEF Values
<1>8. /\ NamesBefore(c, n) \cup {name} \subseteq NamesBefore(c, n + 1)
      /\ NamesBefore(c, n + 1) \subseteq NamesBefore(c, Len(ms) + 1)
    <2> HIDE DEF n, name
    <2>1. \A k \in 1 .. n - 1 : k \in 1 .. (n + 1) - 1
        BY <1>1
    <2>2. n \in 1 .. (n + 1) - 1
        BY <1>1
    <2>3. \A k \in 1 .. (n + 1) - 1 : k \in 1 .. (Len(ms) + 1) - 1
        BY <1>1
    <2>4. name = collectors[c].metrics[n].name
        BY <1>1
    <2> HIDE DEF ms
    <2>5. QED BY <2>1, <2>2, <2>3, <2>4 DEF NamesBefore
<1>9. \A k : NamesBefore(c, k)' = NamesBefore(c, k)
    BY DEF NamesBefore
<1>10. /\ DOMAIN results'[c] \subseteq NamesBefore(c, n + 1)
       /\ DOMAIN results'[c] \subseteq NamesBefore(c, Len(ms) + 1)
    BY <1>3, <1>5, <1>8
<1>11. n + 1 \in 1 .. Len(ms) + 1
    BY <1>1
<1>12. Type(c)' = Type(c)
    BY DEF Type
<1>13. Scanned(c)'
    BY <1>4, <1>9, <1>10, <1>11, <1>12 DEF Scanned, Type
<1>14. QED BY <1>7, <1>13

\* Whatever step a call takes, no value is lost.
LEMMA CallScans ==
    ASSUME BusInv, ListsTyped, NEW c \in Tasks, Scanned(c), NEW cancelled, CallStep(c, cancelled)
    PROVE  /\ Scanned(c)' /\ Values(c) \subseteq Values(c)'
           /\ call'[c].kind = call[c].kind
           /\ ~Reading(c) => results'[c] = results[c]
<1> DEFINE ms == collectors[c].metrics
<1>1. collectors' = collectors /\ call \in [Tasks -> Calls] /\ DOMAIN results = Tasks
    BY DEF CallStep, BusInv
<1>2. /\ call'[c].kind = call[c].kind
      /\ call' = Continued(c) \/ call'[c].next = call[c].next
    <2>1. \/ call' = Continued(c)
          \/ \E at \in Points : call' = Moved(c, at)
        BY DEF CallStep, Transfer, NextMetric, NextStep, TakeLock, WriteRegister, ReadBytes,
               SpiRead, WriteStep, TransferFails, AfterFailedStep, OtherRead, OtherWrites, Points
    <2>2. QED BY <1>1, <2>1, MovedFacts, ContinuedFacts
<1>3. CASE ~Reading(c)
    <2>1. results' = results
        BY <1>3 DEF CallStep, Transfer, NextMetric, NextStep, TakeLock, WriteRegister, ReadBytes,
                    SpiRead, WriteStep, TransferFails, OtherRead, OtherWrites, BusInv, CallInv
    <2>2. QED BY <1>1, <1>2, <1>3, <2>1, NothingRead
<1>4. CASE Reading(c)
    <2>1. CASE NextMetric(c, cancelled)
        <3>1. /\ call[c].at = "between" /\ results' = results
              /\ \E at \in {"done", "panicked", "queued"} : call' = Moved(c, at)
            BY <2>1 DEF NextMetric
        <3>2. call'[c].at \in {"done", "panicked", "queued"} /\ call'[c].next = call[c].next
            BY <1>1, <3>1, MovedFacts DEF Points
        <3>3. QED BY <1>1, <1>2, <1>4, <3>1, <3>2, NothingRead
    <2>2. CASE TakeLock(c)
        <3>1. call[c].at = "queued" /\ results' = results /\ call' = Moved(c, "locked")
            BY <2>2 DEF TakeLock
        <3>2. call'[c].at = "locked" /\ call'[c].next = call[c].next
            BY <1>1, <3>1, MovedFacts DEF Points
        <3>3. QED BY <1>1, <1>2, <1>4, <3>1, <3>2, NothingRead
    <2>3. CASE WriteRegister(c)
        <3>1. call[c].at = "locked" /\ results' = results /\ call' = Moved(c, "addressed")
            BY <2>3 DEF WriteRegister
        <3>2. call'[c].at = "addressed" /\ call'[c].next = call[c].next
            BY <1>1, <3>1, MovedFacts DEF Points
        <3>3. QED BY <1>1, <1>2, <1>4, <3>1, <3>2, NothingRead
    <2>4. CASE ReadBytes(c) \/ SpiRead(c) \/ TransferFails(c)
        <3>1. call[c].at \in {"locked", "addressed"}
            BY <2>4 DEF ReadBytes, SpiRead, TransferFails
        <3>2. UnderWay(c) /\ CallInv(c)
            BY <3>1 DEF UnderWay, BusInv
        <3>3. Type(c) \in {"i2c", "spi"} /\ call[c].next \in DOMAIN ms
            BY <1>4, <3>2 DEF CallInv
        <3>4. \/ call' = Continued(c) /\ \E value : results' = WithResult(c, value)
              \/ call' = Moved(c, "panicked") /\ results' = results
            BY <1>4, <2>4 DEF ReadBytes, SpiRead, TransferFails
        <3>5. CASE call' = Continued(c) /\ \E value : results' = WithResult(c, value)
            BY <1>1, <1>2, <1>4, <3>1, <3>3, <3>5, OneRead
        <3>6. CASE call' = Moved(c, "panicked") /\ results' = results
            <4>1. call'[c].at = "panicked"
                BY <1>1, <3>6, MovedFacts DEF Points
            <4>2. QED BY <1>1, <1>2, <1>4, <3>6, <4>1, NothingRead
        <3>7. QED BY <3>4, <3>5, <3>6
    <2>5. CASE OtherRead(c, cancelled)
        <3>1. call[c].at = "between" /\ Type(c) \notin {"i2c", "spi"}
            BY <2>5 DEF OtherRead
        <3>2. DOMAIN results[c] \subseteq NamesBefore(c, 1)
            BY <1>4, <3>1 DEF Scanned
        <3>3. Values(c) = {}
            BY <3>2 DEF Values, NamesBefore
        <3>4. \/ call' = Moved(c, "done")
              \/ call' = Moved(c, "panicked") /\ results' = results
            BY <2>5 DEF OtherRead
        <3>5. call'[c].at \in {"done", "panicked"}
            BY <1>1, <3>4, MovedFacts DEF Points
        <3>6. CASE results' = results
            BY <1>1, <1>2, <1>4, <3>5, <3>6, NothingRead
        <3>7. CASE results' # results
            <4>1. DOMAIN results'[c] \subseteq {m.name : m \in ToSet(ms)}
                <5>1. PICK read \in SUBSET ToSet(ms) : \E good \in SUBSET read :
                         results' = [results EXCEPT ![c] =
                              [name \in {m.name : m \in read} |->
                                  IF name \in {m.name : m \in good} THEN Decoded(<<>>) ELSE Failed]]
                    BY <2>5, <3>7 DEF OtherRead
                <5>2. DOMAIN results'[c] = {m.name : m \in read}
                    BY <1>1, <5>1
                <5>3. QED BY <5>2
            <4>2. {m.name : m \in ToSet(ms)} \subseteq NamesBefore(c, Len(ms) + 1)
                <5>1. Len(ms) \in Nat /\ DOMAIN ms = 1 .. Len(ms)
                    BY MetricsListed
                <5>2. (Len(ms) + 1) - 1 = Len(ms)
                    BY <5>1
                <5>3. QED BY <5>1, <5>2 DEF NamesBefore, ToSet
            <4>3. NamesBefore(c, Len(ms) + 1)' = NamesBefore(c, Len(ms) + 1)
                BY <1>1 DEF NamesBefore
            <4>4. Scanned(c)'
                BY <1>1, <3>5, <4>1, <4>2, <4>3 DEF Scanned
            <4>5. QED BY <1>2, <1>4, <3>3, <4>4
        <3>8. QED BY <3>6, <3>7
    <2>6. ~NextStep(c) /\ ~WriteStep(c) /\ ~OtherWrites(c)
        BY <1>4 DEF Reading, Writing, WriteKinds, NextStep, WriteStep, OtherWrites
    <2>7. QED BY <2>1, <2>2, <2>3, <2>4, <2>5, <2>6 DEF CallStep, Transfer
<1>5. QED BY <1>2, <1>3, <1>4

\* Each value is that of one metric.
LEMMA ValuesCounted ==
    ASSUME ListsTyped, NEW c \in Tasks, Scanned(c)
    PROVE  LET ms == collectors[c].metrics
               r == results[c]
               good == {k \in DOMAIN ms : LET name == ms[k].name
                                          IN  name \in DOMAIN r /\ r[name] # Failed}
           IN  /\ IsFiniteSet(Values(c)) /\ Cardinality(Values(c)) \in Nat
               /\ Cardinality(good) = Cardinality(Values(c))
               /\ Cardinality(Values(c)) <= Len(ms)
<1> DEFINE ms == collectors[c].metrics
           r == results[c]
           good == {k \in DOMAIN ms : LET name == ms[k].name
                                      IN  name \in DOMAIN r /\ r[name] # Failed}
           f == [k \in good |-> ms[k].name]
<1>1. /\ Len(ms) \in Nat /\ DOMAIN ms = 1 .. Len(ms)
      /\ \A j, k \in 1 .. Len(ms) : ms[j].name = ms[k].name => j = k
    BY MetricsListed
<1>2. good \in SUBSET (1 .. Len(ms))
    BY <1>1
<1>3. IsFiniteSet(1 .. Len(ms)) /\ Cardinality(1 .. Len(ms)) = Len(ms)
    <2> DEFINE n == Len(ms)
    <2>1. n \in Nat
        BY <1>1
    <2> HIDE DEF n
    <2>2. IsFiniteSet(1 .. n) /\ Cardinality(1 .. n) = n
        <3>1. Cardinality(1 .. n) = IF 1 > n THEN 0 ELSE n - 1 + 1
            BY <2>1, FS_Interval
        <3>2. IsFiniteSet(1 .. n)
            BY <2>1, FS_Interval
        <3>3. QED BY <2>1, <3>1, <3>2
    <2>3. QED BY <2>2 DEF n
<1>4. IsFiniteSet(good) /\ Cardinality(good) <= Len(ms) /\ Cardinality(good) \in Nat
    <2> DEFINE D == 1 .. Len(ms)
    <2>1. IsFiniteSet(D) /\ Cardinality(D) = Len(ms) /\ good \in SUBSET D
        BY <1>2, <1>3
    <2> HIDE DEF D, good
    <2>2. IsFiniteSet(good) /\ Cardinality(good) <= Cardinality(D)
        BY <2>1, FS_Subset
    <2>3. QED BY <2>1, <2>2, FS_CardinalityType
<1>5. \A name \in Values(c) : \E k \in good : ms[k].name = name
    <2> TAKE name \in Values(c)
    <2>1. name \in DOMAIN r /\ r[name] # Failed
        BY DEF Values
    <2>2. name \in NamesBefore(c, Len(ms) + 1)
        BY <2>1 DEF Scanned
    <2>3. PICK k \in 1 .. (Len(ms) + 1) - 1 : name = ms[k].name
        BY <2>2 DEF NamesBefore
    <2>4. k \in DOMAIN ms
        BY <1>1, <2>3
    <2>5. QED BY <2>1, <2>3, <2>4
<1>6. \A k \in good : ms[k].name \in Values(c)
    BY DEF Values
<1>7. \A j, k \in good : ms[j].name = ms[k].name => j = k
    BY <1>1
<1> HIDE DEF good
<1>8. f \in Bijection(good, Values(c))
    <2>1. f \in [good -> Values(c)]
        BY <1>6
    <2>2. \A j, k \in good : f[j] = f[k] => j = k
        BY <1>7
    <2>3. \A name \in Values(c) : \E k \in good : f[k] = name
        BY <1>5
    <2> HIDE DEF f
    <2>4. QED BY <2>1, <2>2, <2>3 DEF Bijection, Injection, Surjection, IsInjective
<1>9. ExistsBijection(good, Values(c))
    BY <1>8 DEF ExistsBijection
<1>10. IsFiniteSet(Values(c)) /\ Cardinality(Values(c)) = Cardinality(good)
    BY <1>4, <1>9, FS_Bijection
<1>11. QED BY <1>4, <1>10 DEF good

LEMMA ScannedBegun ==
    ASSUME BusInv, ListsTyped, collectors' = collectors, NEW c \in Tasks, Scanned(c),
           EndCall(c) \/ \E kind \in WriteKinds \cup {"read"} : BeginCall(c, kind)
    PROVE  /\ Scanned(c)'
           /\ \A d \in Tasks : d # c => call'[d] = call[d] /\ results'[d] = results[d]
<1>1. /\ call \in [Tasks -> Calls] /\ DOMAIN results = Tasks
      /\ Len(collectors[c].metrics) \in Nat
    BY MetricsListed DEF BusInv
<1>2. CASE EndCall(c)
    <2>1. call' = [call EXCEPT ![c] = Idle] /\ results' = results
        BY <1>2 DEF EndCall
    <2>2. call'[c] = Idle
        BY <1>1, <2>1
    <2>3. Scanned(c)'
        BY <2>1, <2>2 DEF Scanned, NamesBefore, Reading, Idle
    <2>4. QED BY <1>1, <2>1, <2>3
<1>3. ASSUME NEW kind \in WriteKinds \cup {"read"}, BeginCall(c, kind)
      PROVE  /\ Scanned(c)'
             /\ \A d \in Tasks : d # c => call'[d] = call[d] /\ results'[d] = results[d]
    <2>1. call'[c] = [kind |-> kind, at |-> "between", next |-> 1]
        BY <1>1, <1>3 DEF BeginCall
    <2>2. \A d \in Tasks : d # c => call'[d] = call[d] /\ results'[d] = results[d]
        BY <1>1, <1>3 DEF BeginCall
    <2>3. CASE kind = "read"
        <3>1. results'[c] = NoResults
            BY <1>1, <1>3, <2>3 DEF BeginCall
        <3>2. DOMAIN results'[c] = {}
            BY <3>1 DEF NoResults
        <3>3. call'[c].next = 1
            BY <2>1
        <3>4. Scanned(c)'
            BY <1>1, <3>2, <3>3 DEF Scanned
        <3>5. QED BY <2>2, <3>4
    <2>4. CASE kind # "read"
        <3>1. results' = results
            BY <1>3, <2>4 DEF BeginCall
        <3>2. ~Reading(c)'
            BY <2>1, <2>4 DEF Reading
        <3>3. Scanned(c)'
            BY <3>1, <3>2 DEF Scanned, NamesBefore
        <3>4. QED BY <2>2, <3>3
    <2>5. QED BY <2>3, <2>4
<1>4. QED BY <1>2, <1>3

LEMMA CallResultsApart ==
    ASSUME BusInv, NEW c \in Tasks, NEW cancelled, CallStep(c, cancelled),
           NEW d \in Tasks, d # c
    PROVE  results'[d] = results[d]
<1>1. DOMAIN results = Tasks
    BY DEF BusInv
<1>2. \A value : results' = WithResult(c, value) => results'[d] = results[d]
    BY <1>1 DEF WithResult
<1>3. CASE OtherRead(c, cancelled)
    BY <1>1, <1>3 DEF OtherRead
<1>4. CASE ~OtherRead(c, cancelled)
    <2>1. results' = results \/ \E value : results' = WithResult(c, value)
        BY <1>4 DEF CallStep, Transfer, NextMetric, NextStep, TakeLock, WriteRegister, ReadBytes,
                    SpiRead, WriteStep, TransferFails, OtherWrites
    <2>2. QED BY <1>2, <2>1
<1>5. QED BY <1>3, <1>4

LEMMA ReadStep ==
    ASSUME ProcessInv, ListsTyped, ListsTyped', ReadInv, [Next]_vars
    PROVE  ReadInv'
<1>1. CASE Start
    <2>1. /\ collectors' = Selected /\ call' = [c \in Tasks' |-> Idle]
          /\ results' = [c \in Tasks' |-> NoResults]
        BY <1>1 DEF Start, Provide, Tasks
    <2>2. ASSUME NEW c \in Tasks' PROVE Scanned(c)'
        <3>1. call'[c] = Idle /\ DOMAIN results'[c] = {}
            BY <2>1 DEF NoResults
        <3>2. QED BY <3>1 DEF Scanned, Reading, Idle
    <2>3. QED BY <2>2 DEF ReadInv
<1>2. ASSUME NEW c \in Tasks, BusInv, collectors' = collectors,
             \/ EndCall(c)
             \/ \E kind \in WriteKinds \cup {"read"} : BeginCall(c, kind)
             \/ \E cancelled : CallStep(c, cancelled)
      PROVE  ReadInv'
    <2>1. Scanned(c) /\ Tasks' = Tasks
        BY <1>2 DEF ReadInv, Tasks
    <2>2. /\ Scanned(c)'
          /\ \A d \in Tasks : d # c => call'[d] = call[d] /\ results'[d] = results[d]
        <3>1. CASE \E cancelled : CallStep(c, cancelled)
            BY <1>2, <2>1, <3>1, CallScans, CallStepApart, CallResultsApart
        <3>2. CASE EndCall(c) \/ \E kind \in WriteKinds \cup {"read"} : BeginCall(c, kind)
            BY <1>2, <2>1, <3>2, ScannedBegun
        <3>3. QED BY <1>2, <3>1, <3>2
    <2>3. \A d \in Tasks : d # c => Scanned(d)'
        BY <1>2, <2>2, ScannedStands DEF ReadInv
    <2>4. QED BY <2>1, <2>2, <2>3 DEF ReadInv
<1>3. ASSUME UNCHANGED <<busVars, collectors>> PROVE ReadInv'
    <2>1. Tasks' = Tasks
        BY <1>3 DEF Tasks
    <2>2. \A c \in Tasks : Scanned(c)'
        BY <1>3, ScannedStands DEF ReadInv, busVars
    <2>3. QED BY <2>1, <2>2 DEF ReadInv
<1>4. CASE \E c \in Tasks : Poll(c)
    <2>1. PICK c \in Tasks : Poll(c)
        BY <1>4
    <2>2. BusInv /\ collectors' = collectors
        BY <2>1 DEF ProcessInv, Poll, CallStep
    <2>3. \/ EndCall(c)
          \/ \E kind \in WriteKinds \cup {"read"} : BeginCall(c, kind)
          \/ \E cancelled : CallStep(c, cancelled)
        BY <2>1 DEF Poll, Initialise, InitialisedEnds, BeginCycle, BeginRead, SkipCycle, EndCycle,
                    WriteKinds
    <2>4. QED BY <1>2, <2>2, <2>3
<1>5. CASE Connect \/ Read \/ Report
    <2>1. /\ BusInv /\ current \in Tasks /\ collectors' = collectors
        BY <1>5 DEF Connect, Read, Report, ProcessInv, CallStep
    <2>2. \/ EndCall(current)
          \/ \E kind \in WriteKinds \cup {"read"} : BeginCall(current, kind)
          \/ \E cancelled : CallStep(current, cancelled)
        BY <1>5 DEF Connect, Read, Report
    <2>3. QED BY <1>2, <2>1, <2>2
<1>6. CASE \/ StartFails \/ ShowConfig \/ CreateFails \/ Create \/ ConnectFails \/ ReadPanics
           \/ EndWatch \/ NextIteration \/ PressCtrlC \/ UNCHANGED vars
    <2>1. UNCHANGED <<busVars, collectors>>
        BY <1>6 DEF StartFails, ShowConfig, CreateFails, Create, ConnectFails, ReadPanics, EndWatch,
                    NextIteration, PressCtrlC, vars
    <2>2. QED BY <1>3, <2>1
<1>7. QED BY <1>1, <1>4, <1>5, <1>6 DEF Next, Command, Work, CollectOnce

-----------------------------------------------------------------------------
(* The summary *)

\* Each metric of each iteration is in successful or failed when its collector
\* has been reported, and successful are the values that the reads delivered.
TallyInv ==
    /\ mode \in Modes
    /\ exit \in {Running, 0, 1, 2, Panic}
    /\ phase = "exited" <=> exit # Running
    /\ successful \in Nat /\ failed \in Nat /\ obtained \in Nat
    /\ iteration \in 0 .. MaxIterations
    /\ current = 1 \/ current \in Tasks
    /\ phase = "loading" => iteration = 0 /\ successful = 0 /\ failed = 0 /\ obtained = 0
    /\ phase = "polling" => mode = "run"
    /\ phase \in {"creating", "connecting", "reading", "resting"} => mode \in {"pull", "watch"}
    /\ phase \in {"creating", "connecting", "reading"} =>
          /\ iteration >= 1
          /\ successful + failed = (iteration - 1) * MetricCount + CountTo(collectors, current - 1)
    /\ phase \in {"creating", "connecting", "resting"} => obtained = successful
    /\ phase = "reading" =>
          Reading(current) /\ obtained = successful + Cardinality(Values(current))
    /\ phase = "resting" => successful + failed = iteration * MetricCount
    /\ exit \in {0, 2} /\ mode \in {"pull", "watch"} =>
          /\ obtained = successful
          /\ successful + failed = iteration * MetricCount
          /\ exit = 0 <=> failed = 0

LEMMA CountedCollectors ==
    ASSUME ListsTyped
    PROVE  /\ CountTo(collectors, 0) = 0 /\ MetricCount \in Nat
           /\ CountTo(collectors, Len(collectors)) = MetricCount
           /\ \A c \in Tasks : /\ CountTo(collectors, c) = CountTo(collectors, c - 1)
                                                              + Len(collectors[c].metrics)
                               /\ CountTo(collectors, c - 1) \in Nat
           /\ Tasks = 1 .. Len(collectors) /\ Len(collectors) \in Nat
<1> DEFINE S == {collectors[k] : k \in DOMAIN collectors}
<1>1. collectors \in Seq(S) /\ Tasks = 1 .. Len(collectors) /\ Len(collectors) \in Nat
    BY SequenceOf DEF ListsTyped, Tasks
<1>2. \A c \in S : Len(c.metrics) \in Nat
    BY MetricsListed DEF Tasks
<1> HIDE DEF S
<1>3. /\ CountTo(collectors, 0) = 0
      /\ CountTo(collectors, Len(collectors)) = MetricsOf(collectors)
      /\ \A k \in 0 .. Len(collectors) : CountTo(collectors, k) \in Nat
      /\ \A k \in 1 .. Len(collectors) : CountTo(collectors, k) = CountTo(collectors, k - 1)
                                                                    + Len(collectors[k].metrics)
    BY <1>1, <1>2, CountFacts
<1>4. /\ Len(collectors) \in 0 .. Len(collectors)
      /\ \A k \in 1 .. Len(collectors) : k - 1 \in 0 .. Len(collectors)
    BY <1>1
<1>5. QED BY <1>1, <1>3, <1>4 DEF MetricCount

LEMMA OnceMore ==
    ASSUME NEW a \in Nat, NEW b \in Nat
    PROVE  (a - 1) * b + b = a * b /\ a * b \in Nat /\ ((a + 1) - 1) * b = a * b
OBVIOUS

\* A collector is reported, and the next one begins or the iteration ends.
LEMMA AdvanceCounts ==
    ASSUME ListsTyped, TallyInv, mode \in {"pull", "watch"}, collectors' = collectors,
           current \in Tasks, phase \in {"creating", "connecting", "reading"},
           NEW good \in 0 .. Len(collectors[current].metrics), NEW reached, Tally(good, reached),
           Advance, obtained' = successful', UNCHANGED <<mode, iteration>>
    PROVE  TallyInv'
<1> DEFINE n == Len(collectors[current].metrics)
           before == CountTo(collectors, current - 1)
<1>1. /\ MetricCount \in Nat /\ n \in Nat /\ before \in Nat
      /\ CountTo(collectors, current) = before + n
      /\ CountTo(collectors, Len(collectors)) = MetricCount
      /\ Tasks = 1 .. Len(collectors) /\ Len(collectors) \in Nat
    BY CountedCollectors, MetricsListed
<1>2. successful' = successful + good /\ failed' = failed + n - good
    BY DEF Tally
<1>3. /\ successful \in Nat /\ failed \in Nat /\ iteration \in Nat /\ iteration >= 1
      /\ iteration \in 0 .. MaxIterations /\ MaxIterations \in Nat
      /\ successful + failed = (iteration - 1) * MetricCount + before
    BY CommandsAssumption DEF TallyInv
<1> HIDE DEF n, before
<1>4. good \in Nat /\ good <= n
    BY <1>1 DEF n
<1>5. successful' \in Nat /\ failed' \in Nat /\ obtained' \in Nat
    BY <1>2, <1>3, <1>4, <1>1
<1> DEFINE rounds == (iteration - 1) * MetricCount
<1>6. rounds \in Nat /\ rounds + MetricCount = iteration * MetricCount
    <2>1. iteration - 1 \in Nat
        BY <1>3
    <2>2. (iteration - 1) * MetricCount \in Nat
        BY <1>1, <2>1, OnceMore
    <2>3. QED BY <1>1, <1>3, <2>2, OnceMore
<1>7. successful' + failed' = rounds + CountTo(collectors, current)
    <2> HIDE DEF rounds
    <2>1. successful + failed = rounds + before
        BY <1>3 DEF rounds
    <2>2. QED BY <1>1, <1>2, <1>3, <1>4, <1>6, <2>1
<1>8. /\ MetricCount' = MetricCount /\ Tasks' = Tasks
      /\ exit = Running
    BY DEF MetricCount, Tasks, TallyInv
<1>9. CASE current < Len(collectors)
    <2>1. phase' = "creating" /\ current' = current + 1 /\ exit' = Running
        BY <1>8, <1>9 DEF Advance
    <2>2. current' \in Tasks' /\ current' - 1 = current
        BY <1>1, <1>8, <1>9, <2>1
    <2>3. CountTo(collectors', current' - 1) = CountTo(collectors, current)
        BY <2>2
    <2>4. QED BY <1>3, <1>5, <1>7, <1>8, <2>1, <2>2, <2>3 DEF TallyInv, Running
<1>10. CASE ~(current < Len(collectors))
    <2>1. current = Len(collectors)
        BY <1>1, <1>10
    <2>2. successful' + failed' = iteration * MetricCount
        BY <1>1, <1>6, <1>7, <2>1
    <2>3. /\ current' = 1
          /\ \/ mode = "watch" /\ phase' = "resting" /\ exit' = Running
             \/ mode = "pull" /\ phase' = "exited" /\ exit' = IF failed' > 0 THEN 2 ELSE 0
        BY <1>8, <1>10 DEF Advance, ExitWith
    <2>4. phase' = "exited" => (exit' = 0 <=> failed' = 0) /\ exit' \in {0, 2}
        BY <1>5, <2>3
    <2>5. mode' = mode /\ iteration' = iteration
        OBVIOUS
    <2>6. CASE phase' = "resting"
        BY <1>3, <1>5, <1>8, <2>2, <2>3, <2>5, <2>6 DEF TallyInv, Running, Modes
    <2>7. CASE phase' = "exited"
        BY <1>3, <1>5, <1>8, <2>2, <2>3, <2>4, <2>5, <2>7 DEF TallyInv, Running, Modes
    <2>8. QED BY <2>3, <2>6, <2>7
<1>11. QED BY <1>9, <1>10

\* The command goes to work.
LEMMA StartTallies ==
    ASSUME ProcessInv, ListsTyped', TallyInv, Start
    PROVE  TallyInv'
<1>1. /\ phase = "loading" /\ mode # "show-config" /\ mode' = mode /\ exit' = exit
      /\ successful' = successful /\ failed' = failed /\ obtained' = obtained
      /\ current = 1 /\ current' = 1
      /\ phase' = IF mode = "run" THEN "polling" ELSE "creating"
      /\ iteration' = IF mode = "run" THEN 0 ELSE 1
    BY DEF Start, argVars, ProcessInv
<1>2. /\ mode \in {"run", "pull", "watch"} /\ exit = Running
      /\ successful = 0 /\ failed = 0 /\ obtained = 0
    BY <1>1 DEF TallyInv, Modes
<1>3. 0 \in 0 .. MaxIterations /\ 1 \in 0 .. MaxIterations
    BY CommandsAssumption
<1>4. CountTo(collectors', 0) = 0 /\ MetricCount' \in Nat
    <2> DEFINE S == {collectors'[k] : k \in DOMAIN collectors'}
    <2>1. IsSequence(collectors') /\ \A c \in DOMAIN collectors' : IsSequence(collectors'[c].metrics)
        BY DEF ListsTyped, Tasks
    <2>2. collectors' \in Seq(S)
        BY <2>1, SequenceOf
    <2>3. \A c \in S : Len(c.metrics) \in Nat
        BY <2>1, SequenceOf
    <2> HIDE DEF S
    <2>4. Len(collectors') \in 0 .. Len(collectors')
        BY <2>1, SequenceOf
    <2>5. QED BY <2>2, <2>3, <2>4, CountFacts DEF MetricCount
<1>5. CountTo(collectors', current' - 1) = 0 /\ (1 - 1) * MetricCount' = 0
    <2>1. current' - 1 = 0
        BY <1>1
    <2>2. CountTo(collectors', current' - 1) = 0
        BY <1>4, <2>1
    <2> DEFINE count == MetricCount'
    <2>3. count \in Nat
        BY <1>4
    <2> HIDE DEF count
    <2>4. (1 - 1) * count = 0
        BY <2>3
    <2>5. QED BY <2>2, <2>4 DEF count
<1>6. CASE mode = "run"
    BY <1>1, <1>2, <1>3, <1>6 DEF TallyInv, Running, Modes
<1>7. CASE mode # "run"
    BY <1>1, <1>2, <1>3, <1>5, <1>7 DEF TallyInv, Running, Modes
<1>8. QED BY <1>6, <1>7

\* A step of collect_once that reports nothing.
LEMMA CollectTallies ==
    ASSUME ProcessInv, ListsTyped, ReadInv, TallyInv,
           Create \/ Connect \/ Read \/ ReadPanics
    PROVE  TallyInv'
<1>1. /\ BusInv /\ current \in Tasks /\ phase \in {"creating", "connecting", "reading"}
      /\ mode \in {"pull", "watch"} /\ exit = Running /\ collectors' = collectors
      /\ UNCHANGED <<mode, current, iteration, successful, failed>>
    BY DEF Create, Connect, Read, ReadPanics, ProcessInv, TallyInv, tallyVars, argVars, CallStep
<1>2. /\ MetricCount' = MetricCount /\ Tasks' = Tasks
      /\ CountTo(collectors', current' - 1) = CountTo(collectors, current - 1)
    BY <1>1 DEF MetricCount, Tasks
<1>3. CASE Create \/ ReadPanics
    <2>1. /\ obtained' = obtained
          /\ \/ phase' = "exited" /\ exit' = Panic
             \/ phase = "creating" /\ phase' = "connecting" /\ exit' = exit
        BY <1>3 DEF Create, ReadPanics, ExitWith
    <2>2. CASE phase' = "exited" /\ exit' = Panic
        BY <1>1, <1>2, <2>1, <2>2 DEF TallyInv, Running, Panic
    <2>3. CASE phase = "creating" /\ phase' = "connecting" /\ exit' = exit
        BY <1>1, <1>2, <2>1, <2>3 DEF TallyInv, Running
    <2>4. QED BY <2>1, <2>2, <2>3
<1>4. CASE Connect
    <2>1. /\ phase = "connecting" /\ phase' = "reading" /\ exit' = exit /\ obtained' = obtained
          /\ BeginCall(current, "read")
        BY <1>4 DEF Connect
    <2>2. DOMAIN results = Tasks /\ call \in [Tasks -> Calls]
        BY <1>1 DEF BusInv
    <2>3. /\ call'[current].kind = "read" /\ results'[current] = NoResults
        BY <1>1, <2>1, <2>2 DEF BeginCall
    <2>4. Reading(current)' /\ Values(current)' = {}
        BY <1>1, <2>3 DEF Reading, Values, NoResults
    <2>5. Cardinality(Values(current)') = 0
        BY <2>4, FS_EmptySet
    <2>6. obtained' = successful' + Cardinality(Values(current)')
        BY <1>1, <2>1, <2>5 DEF TallyInv
    <2>7. QED BY <1>1, <1>2, <2>1, <2>4, <2>6 DEF TallyInv, Running
<1>5. CASE Read
    <2>1. /\ phase = "reading" /\ phase' = "reading" /\ exit' = exit /\ CallStep(current, ctrlC)
          /\ obtained' = obtained + Obtained(current) /\ Reading(current)
        BY <1>5 DEF Read, TallyInv
    <2>2. /\ Scanned(current)' /\ Values(current) \subseteq Values(current)'
          /\ call'[current].kind = call[current].kind
        <3>1. Scanned(current)
            BY <1>1 DEF ReadInv
        <3>2. QED BY <1>1, <2>1, <3>1, CallScans
    <2>3. Obtained(current) = Cardinality(Values(current)') - Cardinality(Values(current))
        BY <1>1, <2>1 DEF Obtained, Values
    <2>4. Reading(current)'
        BY <1>1, <2>1, <2>2 DEF Reading
    <2>5. /\ IsFiniteSet(Values(current)') /\ Cardinality(Values(current)') \in Nat
          /\ Cardinality(Values(current)) \in Nat
          /\ Cardinality(Values(current)) <= Cardinality(Values(current)')
        <3> DEFINE new == Values(current)'
                   old == Values(current)
                   names == {collectors[current].metrics[k].name :
                                k \in 1 .. (Len(collectors[current].metrics) + 1) - 1}
        <3>1. IsFiniteSet(names)
            <4>1. Len(collectors[current].metrics) \in Nat
                BY <1>1, MetricsListed
            <4>2. (Len(collectors[current].metrics) + 1) - 1 \in Int
                BY <4>1
            <4> DEFINE D == 1 .. (Len(collectors[current].metrics) + 1) - 1
                       f == [k \in D |-> collectors[current].metrics[k].name]
            <4>3. IsFiniteSet(D)
                BY <4>2, FS_Interval
            <4>4. f \in Surjection(D, names)
                BY DEF Surjection
            <4> HIDE DEF D, f, names
            <4>5. QED BY <4>3, <4>4, FS_Surjection
        <3>2. new \in SUBSET names
            <4>1. new \subseteq NamesBefore(current, Len(collectors[current].metrics) + 1)'
                BY <2>2 DEF Scanned, Values
            <4>2. QED BY <1>1, <4>1 DEF NamesBefore
        <3> HIDE DEF new, names
        <3>3. IsFiniteSet(new)
            BY <3>1, <3>2, FS_Subset
        <3>4. old \in SUBSET new
            BY <2>2 DEF new
        <3> HIDE DEF old
        <3>5. IsFiniteSet(old) /\ Cardinality(old) <= Cardinality(new)
            BY <3>3, <3>4, FS_Subset
        <3>6. Cardinality(old) \in Nat /\ Cardinality(new) \in Nat
            BY <3>3, <3>5, FS_CardinalityType
        <3>7. QED BY <3>3, <3>5, <3>6 DEF old, new
    <2>6. obtained' \in Nat /\ obtained' = successful' + Cardinality(Values(current)')
        <3> DEFINE a == Cardinality(Values(current))
                   b == Cardinality(Values(current)')
        <3>1. a \in Nat /\ b \in Nat /\ a <= b
            BY <2>5
        <3>2. obtained \in Nat /\ successful \in Nat /\ obtained = successful + a
            BY <2>1 DEF TallyInv
        <3>3. obtained' = obtained + (b - a)
            BY <2>1, <2>3
        <3> HIDE DEF a, b
        <3>4. obtained' \in Nat /\ obtained' = successful + b
            BY <3>1, <3>2, <3>3
        <3>5. QED BY <1>1, <3>4 DEF b
    <2>7. QED BY <1>1, <1>2, <2>1, <2>4, <2>6 DEF TallyInv, Running
<1>6. QED BY <1>3, <1>4, <1>5

\* A collector is counted, whether it could be read or not.
LEMMA ReportTallies ==
    ASSUME ProcessInv, ListsTyped, ReadInv, TallyInv,
           CreateFails \/ ConnectFails \/ Report
    PROVE  TallyInv'
<1>1. /\ current \in Tasks /\ phase \in {"creating", "connecting", "reading"}
      /\ mode \in {"pull", "watch"} /\ collectors' = collectors /\ Advance
      /\ UNCHANGED <<mode, iteration>> /\ obtained' = obtained
      /\ successful \in Nat
    BY DEF CreateFails, ConnectFails, Report, ProcessInv, TallyInv, argVars
<1>2. Len(collectors[current].metrics) \in Nat
    BY <1>1, MetricsListed
<1>3. CASE CreateFails \/ ConnectFails
    <2>1. Tally(0, FALSE) /\ phase \in {"creating", "connecting"}
        BY <1>3 DEF CreateFails, ConnectFails
    <2>2. obtained' = successful' /\ 0 \in 0 .. Len(collectors[current].metrics)
        BY <1>1, <1>2, <2>1 DEF TallyInv, Tally
    <2>3. QED BY <1>1, <2>1, <2>2, AdvanceCounts
<1>4. CASE Report
    <2> DEFINE good == Cardinality(Values(current))
    <2>1. Scanned(current)
        BY <1>1 DEF ReadInv
    <2>2. Tally(good, TRUE) /\ good \in Nat /\ good <= Len(collectors[current].metrics)
        BY <1>1, <1>4, <2>1, ValuesCounted DEF Report
    <2>3. obtained = successful + good
        BY <1>4 DEF Report, TallyInv
    <2> HIDE DEF good
    <2>4. good \in 0 .. Len(collectors[current].metrics) /\ obtained' = successful'
        BY <1>1, <1>2, <2>2, <2>3 DEF Tally
    <2>5. QED BY <1>1, <2>2, <2>4, AdvanceCounts
<1>5. QED BY <1>3, <1>4

LEMMA RestTallies ==
    ASSUME ProcessInv, ListsTyped, TallyInv,
           \/ StartFails \/ ShowConfig \/ EndWatch \/ NextIteration \/ PressCtrlC
           \/ UNCHANGED vars \/ \E c \in Tasks : Poll(c)
    PROVE  TallyInv'
<1>1. collectors' = collectors /\ mode' = mode
    BY DEF StartFails, ShowConfig, EndWatch, NextIteration, PressCtrlC, vars, Poll, argVars, CallStep
<1>2. /\ MetricCount' = MetricCount /\ Tasks' = Tasks
      /\ CountTo(collectors', current - 1) = CountTo(collectors, current - 1)
    BY <1>1 DEF MetricCount, Tasks
<1>3. CASE StartFails \/ ShowConfig
    <2>1. /\ phase = "loading" /\ phase' = "exited" /\ obtained' = obtained
          /\ exit' = 1 \/ (exit' = 0 /\ mode = "show-config")
          /\ UNCHANGED <<current, iteration, successful, failed>>
        BY <1>3 DEF StartFails, ShowConfig, ExitWith, tallyVars
    <2>2. exit' \in {0, 1} /\ ~(exit' \in {0, 2} /\ mode' \in {"pull", "watch"})
        BY <1>1, <2>1
    <2>3. QED BY <1>1, <1>2, <2>1, <2>2 DEF TallyInv, Running
<1>4. CASE EndWatch
    <2>1. /\ phase = "resting" /\ phase' = "exited" /\ obtained' = obtained
          /\ exit' = IF failed > 0 THEN 2 ELSE 0
          /\ UNCHANGED <<current, iteration, successful, failed>>
        BY <1>4 DEF EndWatch, ExitWith, tallyVars
    <2>2. exit' \in {0, 2} /\ (exit' = 0 <=> failed' = 0)
        BY <2>1 DEF TallyInv
    <2>3. QED BY <1>1, <1>2, <2>1, <2>2 DEF TallyInv, Running
<1>5. CASE NextIteration
    <2>1. /\ phase = "resting" /\ phase' = "creating" /\ obtained' = obtained /\ exit' = exit
          /\ iteration' = iteration + 1 /\ iteration < MaxIterations
          /\ UNCHANGED <<current, successful, failed>>
        BY <1>5 DEF NextIteration
    <2>2. current = 1 /\ CountTo(collectors, current - 1) = 0 /\ MetricCount \in Nat
        <3>1. current = 1 /\ current - 1 = 0
            BY <2>1 DEF ProcessInv
        <3>2. CountTo(collectors, 0) = 0 /\ MetricCount \in Nat
            BY CountedCollectors
        <3>3. QED BY <3>1, <3>2
    <2>3. iteration \in Nat /\ MaxIterations \in Nat
        BY CommandsAssumption DEF TallyInv
    <2>4. iteration' \in 0 .. MaxIterations /\ iteration' >= 1
        BY <2>1, <2>3
    <2>5. (iteration' - 1) * MetricCount = iteration * MetricCount /\ iteration * MetricCount \in Nat
        <3>1. ((iteration + 1) - 1) * MetricCount = iteration * MetricCount /\ iteration * MetricCount \in Nat
            BY <2>2, <2>3, OnceMore
        <3>2. QED BY <2>1, <3>1
    <2>6. successful + failed = iteration * MetricCount + CountTo(collectors, current - 1)
        <3> DEFINE rounds == iteration * MetricCount
        <3>1. successful + failed = rounds /\ rounds \in Nat
            BY <2>1, <2>5 DEF TallyInv
        <3> HIDE DEF rounds
        <3>2. successful + failed = rounds + CountTo(collectors, current - 1)
            BY <2>2, <3>1
        <3>3. QED BY <3>2 DEF rounds
    <2>7. /\ (iteration' - 1) * MetricCount' = iteration * MetricCount
          /\ CountTo(collectors', current' - 1) = CountTo(collectors, current - 1)
        BY <1>2, <2>1, <2>5
    <2>8. successful' + failed' = (iteration' - 1) * MetricCount' + CountTo(collectors', current' - 1)
        BY <2>1, <2>6, <2>7, Zenon
    <2>9. mode \in {"pull", "watch"} /\ exit = Running /\ obtained = successful
        BY <2>1 DEF TallyInv
    <2>10. QED BY <1>1, <1>2, <2>1, <2>4, <2>8, <2>9 DEF TallyInv, Running
<1>6. CASE PressCtrlC \/ UNCHANGED vars \/ \E c \in Tasks : Poll(c)
    <2>1. UNCHANGED <<mode, phase, exit, current, iteration, successful, failed>>
        BY <1>6 DEF PressCtrlC, Poll, vars, tallyVars, argVars
    <2>2. \/ UNCHANGED <<busVars, obtained>>
          \/ phase = "polling" /\ obtained' = obtained
        BY <1>6 DEF PressCtrlC, Poll, vars
    <2>3. CASE UNCHANGED <<busVars, obtained>>
        <3>1. call' = call /\ results' = results /\ obtained' = obtained
            BY <2>3 DEF busVars
        <3>2. /\ Values(current)' = Values(current) /\ (Reading(current)' <=> Reading(current))
            BY <2>1, <3>1 DEF Values, Reading
        <3>3. QED BY <1>1, <1>2, <2>1, <3>1, <3>2 DEF TallyInv
    <2>4. CASE phase = "polling" /\ obtained' = obtained
        BY <1>1, <1>2, <2>1, <2>4 DEF TallyInv
    <2>5. QED BY <2>2, <2>3, <2>4
<1>7. QED BY <1>3, <1>4, <1>5, <1>6

LEMMA TallyStep ==
    ASSUME ProcessInv, ListsTyped, ListsTyped', ReadInv, TallyInv, [Next]_vars
    PROVE  TallyInv'
BY StartTallies, CollectTallies, ReportTallies, RestTallies DEF Next, Command, Work, CollectOnce

-----------------------------------------------------------------------------
(* Types *)

\* What TypeOK needs beyond the other invariants.
PollInv ==
    /\ session \in [Tasks -> {"down", "up"}]
    /\ cycles \in [Tasks -> 0 .. MaxCycles]
    /\ ctrlC \in BOOLEAN
    /\ collectors = <<>> => held = {}

LEMMA InitPoll ==
    ASSUME Init
    PROVE  PollInv
<1>1. Tasks = {} /\ session = <<>> /\ cycles = <<>> /\ ctrlC = FALSE /\ held = {}
    BY DEF Init, BusInit, Tasks
<1>2. <<>> \in [{} -> {"down", "up"}] /\ <<>> \in [{} -> 0 .. MaxCycles]
    OBVIOUS
<1>3. QED BY <1>1, <1>2 DEF PollInv

LEMMA PollStep ==
    ASSUME PollInv, ProcessInv, [Next]_vars
    PROVE  PollInv'
<1>1. CASE Start
    <2>1. /\ collectors' = Selected /\ Selected # <<>> /\ ctrlC' = ctrlC
          /\ session' = [c \in DOMAIN Selected |-> "down"]
          /\ cycles' = [c \in DOMAIN Selected |-> 0]
        BY <1>1 DEF Start, Provide
    <2>2. Tasks' = DOMAIN Selected /\ 0 \in 0 .. MaxCycles
        BY <2>1, CommandsAssumption DEF Tasks
    <2> HIDE DEF Selected
    <2>3. QED BY <2>1, <2>2 DEF PollInv
<1>2. CASE \E c \in Tasks : Poll(c)
    <2>1. PICK c \in Tasks : Poll(c)
        BY <1>2
    <2>2. /\ collectors' = collectors /\ ctrlC' = ctrlC /\ Tasks' = Tasks /\ collectors # <<>>
        <3>1. collectors' = collectors /\ ctrlC' = ctrlC
            BY <2>1 DEF Poll, CallStep
        <3>2. collectors # <<>>
            BY DEF Tasks
        <3>3. QED BY <3>1, <3>2 DEF Tasks
    <2>3. session' \in [Tasks -> {"down", "up"}]
        <3>1. \/ session' = session
              \/ session' = [session EXCEPT ![c] = "up"]
              \/ session' = [session EXCEPT ![c] = "down"]
            BY <2>1 DEF Poll, Initialise, InitialisedEnds, BeginCycle, BeginRead, SkipCycle, EndCycle,
                        pollVars
        <3>2. QED BY <3>1 DEF PollInv
    <2>4. cycles' \in [Tasks -> 0 .. MaxCycles]
        <3>1. \/ cycles' = cycles
              \/ cycles[c] < MaxCycles /\ cycles' = [cycles EXCEPT ![c] = @ + 1]
            BY <2>1 DEF Poll, Initialise, InitialisedEnds, BeginCycle, BeginRead, SkipCycle, EndCycle,
                        pollVars
        <3>2. cycles[c] \in 0 .. MaxCycles /\ MaxCycles \in Nat
            BY CommandsAssumption DEF PollInv
        <3>3. cycles[c] < MaxCycles => cycles[c] + 1 \in 0 .. MaxCycles
            BY <3>2
        <3>4. QED BY <3>1, <3>3 DEF PollInv
    <2>5. QED BY <2>2, <2>3, <2>4 DEF PollInv
<1>3. CASE Read
    <2>1. UNCHANGED <<pollVars, ctrlC, collectors>> /\ current \in Tasks
        BY <1>3 DEF Read, CallStep, ProcessInv
    <2>2. collectors # <<>> /\ Tasks' = Tasks
        BY <2>1 DEF Tasks
    <2>3. QED BY <2>1, <2>2 DEF PollInv, pollVars
<1>4. CASE \/ StartFails \/ ShowConfig \/ CreateFails \/ Create \/ ConnectFails \/ Connect
           \/ ReadPanics \/ Report \/ EndWatch \/ NextIteration \/ PressCtrlC \/ UNCHANGED vars
    <2>1. UNCHANGED <<session, cycles, held, collectors>> /\ ctrlC' \in {ctrlC, TRUE}
        BY <1>4 DEF StartFails, ShowConfig, CreateFails, Create, ConnectFails, Connect, ReadPanics,
                    Report, EndWatch, NextIteration, PressCtrlC, vars, busVars, pollVars, BeginCall,
                    EndCall
    <2>2. QED BY <2>1 DEF PollInv, Tasks
<1>5. QED BY <1>1, <1>2, <1>3, <1>4 DEF Next, Command, Work, CollectOnce

LEMMA TypesFollow ==
    ASSUME ListsTyped, ProcessInv, TallyInv, PollInv
    PROVE  TypeOK
<1>1. Tasks = 1 .. Len(collectors) /\ Len(collectors) \in Nat
    BY CountedCollectors
<1>2. current \in 1 .. Len(collectors) + 1
    BY <1>1 DEF TallyInv
<1>3. /\ \A c \in Tasks : /\ call[c].kind \in WriteKinds \cup {"none", "read"}
                          /\ call[c].at \in Points
      /\ held = {<<LockOf(c), c>> : c \in {d \in Tasks : call[d].at \in {"locked", "addressed"}}}
    <2>1. CASE collectors = <<>>
        <3>1. Tasks = {} /\ held = {}
            BY <2>1 DEF Tasks, PollInv
        <3>2. QED BY <3>1
    <2>2. CASE BusInv
        <3> DEFINE Holders == {<<LockOf(c), c>> : c \in {d \in Tasks : call[d].at \in {"locked", "addressed"}}}
        <3>1. \A c \in Tasks : call[c].kind \in WriteKinds \cup {"none", "read"} /\ call[c].at \in Points
            BY <2>2 DEF BusInv, Calls
        <3>2. ASSUME NEW h \in held PROVE h \in Holders
            <4>1. h[2] \in Tasks /\ h = <<LockOf(h[2]), h[2]>>
                BY <2>2 DEF BusInv
            <4>2. Busy(h[2])
                BY <2>2, <4>1 DEF BusInv, CallInv
            <4>3. QED BY <4>1, <4>2 DEF Busy
        <3>3. ASSUME NEW h \in Holders PROVE h \in held
            <4>1. PICK c \in Tasks : call[c].at \in {"locked", "addressed"} /\ h = <<LockOf(c), c>>
                OBVIOUS
            <4>2. QED BY <2>2, <4>1 DEF BusInv, CallInv, Busy
        <3> HIDE DEF Holders
        <3>4. held = Holders
            BY <3>2, <3>3
        <3>5. QED BY <3>1, <3>4 DEF Holders
    <2>3. QED BY <2>1, <2>2 DEF ProcessInv
<1>4. \A c \in Tasks : session[c] \in {"down", "up"} /\ cycles[c] \in 0 .. MaxCycles
    BY DEF PollInv
<1>5. {successful, failed, obtained} \subseteq Nat /\ ctrlC \in BOOLEAN
    BY DEF TallyInv, PollInv
<1>6. QED BY <1>2, <1>3, <1>4, <1>5 DEF TypeOK, ProcessInv, TallyInv, Points

LEMMA TruthFollows ==
    ASSUME ListsTyped, TallyInv
    PROVE  SummaryTruthful
<1> SUFFICES ASSUME phase \in {"resting", "exited"}, exit \in {Running, 0, 2},
                    mode \in {"pull", "watch"}
             PROVE  /\ successful = obtained
                    /\ successful + failed = iteration * MetricCount
                    /\ phase = "exited" => (exit = 0 <=> obtained = iteration * MetricCount)
    BY DEF SummaryTruthful
<1>1. /\ successful = obtained /\ successful \in Nat /\ failed \in Nat
      /\ successful + failed = iteration * MetricCount
      /\ phase = "exited" => (exit = 0 <=> failed = 0)
    BY DEF TallyInv
<1> DEFINE all == iteration * MetricCount
<1> HIDE DEF all
<1>2. failed = 0 <=> obtained = all
    BY <1>1 DEF all
<1>3. QED BY <1>1, <1>2 DEF all

-----------------------------------------------------------------------------
(* Theorems *)

\* The lists that readers and writers work on are what their types say, and have
\* one metric of a name: neither merging nor filtering makes anything else.
THEOREM ListsTypedHolds == Spec => []ListsTyped
<1>1. Init => LoadInv
    BY InitLoad
<1>2. LoadInv /\ [Next]_vars => LoadInv'
    BY LoadStep
<1>3. LoadInv => ListsTyped
    BY LoadedTyped
<1>4. QED BY <1>1, <1>2, <1>3, PTL DEF Spec

\* Whatever the layers define twice, and whatever the filters of the command line
\* leave, each collector's metrics have different names, and a metric is the
\* inline one of its name, or else that of the last file to have it.
THEOREM MergedByPriorityHolds == Spec => []MergedByPriority
<1>1. Init => LoadInv
    BY InitLoad
<1>2. LoadInv /\ [Next]_vars => LoadInv'
    BY LoadStep
<1>3. LoadInv => MergedByPriority
    BY LoadedTyped
<1>4. QED BY <1>1, <1>2, <1>3, PTL DEF Spec

\* No two transfers of this process are under way on one bus or device path at
\* a time, however many collectors and calls share it: the lock of
\* read_single_metric and execute_writes covers the transfer from its first
\* byte to its last, also where it fails.
THEOREM LocksExclusiveHolds == Spec => []LocksExclusive
<1>1. Init => LoadInv /\ ProcessInv
    BY InitLoad, InitProcess
<1>2. LoadInv /\ [Next]_vars => LoadInv'
    BY LoadStep
<1>3. LoadInv => ListsTyped
    BY LoadedTyped
<1>4. ProcessInv /\ ListsTyped /\ ListsTyped' /\ [Next]_vars => ProcessInv'
    BY ProcessStep
<1>5. ProcessInv => LocksExclusive
    BY DEF ProcessInv, BusInv, LocksExclusive, Tasks
<1> QED BY <1>1, <1>2, <1>3, <1>4, <1>5, PTL DEF Spec

\* Every value reported for a metric that the validation accepts is that of its
\* own register or of the answer to its own command, for any collectors that
\* share a bus, any configuration and each of the commands: nobody moves the
\* register between the two halves of an I2C read.
THEOREM ReadsOwnRegisterHolds == Spec => []ReadsOwnRegister
<1>1. Init => LoadInv /\ ProcessInv
    BY InitLoad, InitProcess
<1>2. LoadInv /\ [Next]_vars => LoadInv'
    BY LoadStep
<1>3. LoadInv => ListsTyped
    BY LoadedTyped
<1>4. ProcessInv /\ ListsTyped /\ ListsTyped' /\ [Next]_vars => ProcessInv'
    BY ProcessStep
<1>5. ProcessInv => ReadsOwnRegister
    <2> SUFFICES ASSUME ProcessInv PROVE ReadsOwnRegister
        OBVIOUS
    <2>1. CASE collectors = <<>>
        BY <2>1 DEF ReadsOwnRegister, Tasks
    <2>2. CASE BusInv
        BY <2>2 DEF BusInv, OwnInv, ReadsOwnRegister
    <2> QED BY <2>1, <2>2 DEF ProcessInv
<1> QED BY <1>1, <1>2, <1>3, <1>4, <1>5, PTL DEF Spec

\* No configuration that load accepts makes a reader of the daemon panic, but
\* for a response offset with which the sum in the validation wraps: unwrapped
\* addresses are there, and responses are as long as the slice taken of them.
THEOREM ValidatedNeverPanicsHolds == Spec => []ValidatedNeverPanics
<1>1. Init => LoadInv /\ ProcessInv /\ RunInv
    <2>1. Init => RunInv
        BY DEF Init, BusInit, RunInv, ValidatedNeverPanics, Tasks
    <2> QED BY <2>1, InitLoad, InitProcess
<1>2. LoadInv /\ [Next]_vars => LoadInv'
    BY LoadStep
<1>3. LoadInv => ListsTyped
    BY LoadedTyped
<1>4. ProcessInv /\ RunInv /\ ListsTyped /\ ListsTyped' /\ [Next]_vars => ProcessInv' /\ RunInv'
    BY ProcessStep, RunStep
<1>5. RunInv => ValidatedNeverPanics
    BY DEF RunInv, ValidatedNeverPanics
<1> QED BY <1>1, <1>2, <1>3, <1>4, <1>5, PTL DEF Spec

\* For any number of collectors, any steps and any order in which buses and
\* failures interrupt them: a collector of the daemon is up only with every
\* step of init_writes delivered, and reads only with every step of pre_poll
\* of the cycle delivered, in order; which steps are skipped for lack of a
\* field, the validation has made sure nobody meant.
THEOREM ReadsFollowAllWritesHolds == Spec => []ReadsFollowAllWrites
<1>1. Init => LoadInv /\ ProcessInv /\ RunInv /\ WritesInv
    <2>1. Init => RunInv /\ WritesInv
        BY DEF Init, BusInit, RunInv, ValidatedNeverPanics, WritesInv, Delivering, Tasks
    <2> QED BY <2>1, InitLoad, InitProcess
<1>2. LoadInv /\ [Next]_vars => LoadInv'
    BY LoadStep
<1>3. LoadInv => ListsTyped
    BY LoadedTyped
<1>4. ProcessInv /\ RunInv /\ ListsTyped /\ ListsTyped' /\ [Next]_vars => ProcessInv' /\ RunInv'
    BY ProcessStep, RunStep
<1>5. LoadInv' /\ ProcessInv /\ RunInv /\ WritesInv /\ [Next]_vars => WritesInv'
    BY WritesStep
<1>6. WritesInv => ReadsFollowAllWrites
    BY DEF WritesInv, Delivering, WriteInv, ReadsFollowAllWrites
<1>7. QED BY <1>1, <1>2, <1>3, <1>4, <1>5, <1>6, PTL DEF Spec

\* Whatever opens, answers, fails or is interrupted, over any number of
\* collectors and iterations, the summary of pull and watch counts each metric
\* of each iteration once, its successes are the values that devices delivered,
\* and the exit code is 0 exactly when nothing was missed.
THEOREM SummaryTruthfulHolds == Spec => []SummaryTruthful
<1>1. Init => LoadInv /\ ProcessInv /\ ReadInv /\ TallyInv
    <2>1. Init => ReadInv
        BY DEF Init, BusInit, ReadInv, Tasks
    <2>2. Init => TallyInv
        BY CommandsAssumption DEF Init, TallyInv, Running, Modes
    <2>3. QED BY <2>1, <2>2, InitLoad, InitProcess
<1>2. LoadInv /\ [Next]_vars => LoadInv'
    BY LoadStep
<1>3. LoadInv => ListsTyped
    BY LoadedTyped
<1>4. ProcessInv /\ ReadInv /\ TallyInv /\ ListsTyped /\ ListsTyped' /\ [Next]_vars
         => ProcessInv' /\ ReadInv' /\ TallyInv'
    BY ProcessStep, ReadStep, TallyStep
<1>5. ListsTyped /\ TallyInv => SummaryTruthful
    BY TruthFollows
<1>6. QED BY <1>1, <1>2, <1>3, <1>4, <1>5, PTL DEF Spec

\* Process, calls and counters of the commands are where they can be, and a lock
\* is held exactly while its call is inside a transfer.
THEOREM TypeOKHolds == Spec => []TypeOK
<1>1. Init => LoadInv /\ ProcessInv /\ ReadInv /\ TallyInv /\ PollInv
    <2>1. Init => ReadInv
        BY DEF Init, BusInit, ReadInv, Tasks
    <2>2. Init => TallyInv
        BY CommandsAssumption DEF Init, TallyInv, Running, Modes
    <2>3. QED BY <2>1, <2>2, InitLoad, InitProcess, InitPoll
<1>2. LoadInv /\ [Next]_vars => LoadInv'
    BY LoadStep
<1>3. LoadInv => ListsTyped
    BY LoadedTyped
<1>4. ProcessInv /\ ReadInv /\ TallyInv /\ PollInv /\ ListsTyped /\ ListsTyped' /\ [Next]_vars
         => ProcessInv' /\ ReadInv' /\ TallyInv' /\ PollInv'
    BY ProcessStep, ReadStep, TallyStep, PollStep
<1>5. ListsTyped /\ ProcessInv /\ TallyInv /\ PollInv => TypeOK
    BY TypesFollow
<1>6. QED BY <1>1, <1>2, <1>3, <1>4, <1>5, PTL DEF Spec
=============================================================================
