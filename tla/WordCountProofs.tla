---------------------------- MODULE WordCountProofs ----------------------------
(***************************************************************************)
(* Theorems about WordCount, for every number of files and every text in   *)
(* them, whichever call fails and whichever child is killed.               *)
(***************************************************************************)
EXTENDS WordCount, SequenceTheorems, FiniteSetTheorems, TLAPS

-----------------------------------------------------------------------------
(* Induction, and the folds of the community modules.                      *)

\* The least-number principle: a nonempty set of naturals has a least member.
LEMMA LeastNumber ==
  ASSUME NEW T \in SUBSET Nat, T # {}
  PROVE  \E m \in T : \A x \in T : m <= x
<1>1. PICK n \in T : TRUE
  OBVIOUS
<1> DEFINE S == 0 .. n
           W == {0 .. k : k \in T \cap S}
           R == StrictSubsetOrdering(S)
<1>2. IsWellFoundedOn(R, SUBSET S)
  <2>1. IsFiniteSet(S)
    BY <1>1, FS_Interval
  <2> HIDE DEF S
  <2>2. FiniteSubsetsOf(S) = SUBSET S
    BY <2>1, FS_FiniteSubsetsOfFinite
  <2> QED
    BY <2>2, FS_StrictSubsetOrderingWellFounded
<1>3. W \subseteq SUBSET S /\ W # {}
  BY <1>1
<1>4. \E w \in W : \A v \in W : ~(<<v, w>> \in R)
  <2> HIDE DEF R, W
  <2> QED BY <1>2, <1>3, WFMin
<1>5. PICK m \in T \cap S : \A k \in T \cap S : ~(<<0 .. k, 0 .. m>> \in R)
  BY <1>4
<1>6. ASSUME NEW k \in T, k < m PROVE FALSE
  <2>1. k \in T \cap S /\ m \in Nat /\ k \in Nat
    BY <1>6, <1>1
  <2>2. 0 .. k \subseteq 0 .. m /\ 0 .. k # 0 .. m
    BY <1>6, <2>1
  <2>3. 0 .. k \in SUBSET S /\ 0 .. m \in SUBSET S
    BY <2>1, <1>1
  <2> QED
    BY <1>5, <2>1, <2>2, <2>3 DEF StrictSubsetOrdering
<1> QED
  BY <1>1, <1>5, <1>6

\* Induction, for the property of being in a set.
LEMMA Induction ==
  ASSUME NEW T, 0 \in T, \A k \in Nat : k \in T => k + 1 \in T
  PROVE  Nat \subseteq T
<1> SUFFICES ASSUME Nat \ T # {} PROVE FALSE
  OBVIOUS
<1>1. PICK m \in Nat \ T : \A x \in Nat \ T : m <= x
  BY LeastNumber
<1>2. m # 0 /\ m - 1 \in Nat /\ (m - 1) + 1 = m /\ ~(m <= m - 1)
  BY <1>1
<1>3. m - 1 \in T
  BY <1>1, <1>2
<1> QED
  BY <1>1, <1>2, <1>3

\* A finite set of naturals has a greatest member.
LEMMA GreatestNumber ==
  ASSUME NEW n \in Nat, NEW s \in SUBSET (1 .. n), s # {}
  PROVE  Max(s) \in s /\ \A x \in s : x <= Max(s)
<1> DEFINE T == {n - x : x \in s}
<1>1. T \in SUBSET Nat /\ T # {}
  <2>1. \A x \in s : n - x \in Nat
    OBVIOUS
  <2> QED BY <2>1
<1>2. PICK m \in T : \A x \in T : m <= x
  BY <1>1, LeastNumber
<1>3. PICK y \in s : m = n - y
  BY <1>2
<1>4. \A x \in s : y >= x
  <2> SUFFICES ASSUME NEW x \in s PROVE y >= x
    OBVIOUS
  <2>1. n - x \in T
    OBVIOUS
  <2>2. n - y <= n - x
    BY <1>2, <1>3, <2>1
  <2> QED BY <2>2
<1>5. Max(s) \in s /\ \A x \in s : Max(s) >= x
  BY <1>4 DEF Max
<1> QED
  BY <1>5

\* The subsets of a set with at most so many members.
UpTo(S, k) == {s \in SUBSET S : Cardinality(s) <= k}

\* A function on the subsets of S that recurs from a set s to s without ch[s].
Recurs(g, S, V, base, op, ch) ==
  /\ g \in [SUBSET S -> V]
  /\ \A s \in SUBSET S : g[s] = IF s = {} THEN base ELSE op[ch[s]][g[s \ {ch[s]}]]

\* A function that recurs from a set to the set without one of its members is
\* well defined on the subsets of a finite set.
LEMMA RecursionDefined ==
  ASSUME NEW S, IsFiniteSet(S), NEW V, NEW base \in V, NEW op, NEW ch,
         \A s \in SUBSET S : s # {} => ch[s] \in s,
         \A x \in S : \A v \in V : op[x][v] \in V
  PROVE  \E g : Recurs(g, S, V, base, op, ch)
<1> DEFINE Good(k, g) ==
      \A s \in UpTo(S, k) : g[s] = IF s = {} THEN base ELSE op[ch[s]][g[s \ {ch[s]}]]
           T == {k \in Nat : \E g \in [UpTo(S, k) -> V] : Good(k, g)}
<1>0. \A s \in SUBSET S : IsFiniteSet(s) /\ Cardinality(s) \in Nat /\ Cardinality(s) <= Cardinality(S)
  BY FS_Subset, FS_CardinalityType
<1>1. 0 \in T
  <2>1. \A s \in UpTo(S, 0) : s = {}
    <3> SUFFICES ASSUME NEW s \in UpTo(S, 0) PROVE s = {}
      OBVIOUS
    <3>1. IsFiniteSet(s) /\ Cardinality(s) = 0
      BY <1>0 DEF UpTo
    <3> QED BY <3>1, FS_EmptySet
  <2>2. [s \in UpTo(S, 0) |-> base] \in [UpTo(S, 0) -> V]
    OBVIOUS
  <2>3. Good(0, [s \in UpTo(S, 0) |-> base])
    BY <2>1
  <2> QED BY <2>2, <2>3
<1>2. ASSUME NEW k \in Nat, k \in T PROVE k + 1 \in T
  <2>1. PICK g \in [UpTo(S, k) -> V] : Good(k, g)
    BY <1>2
  <2> DEFINE h == [s \in UpTo(S, k + 1) |-> IF s = {} THEN base ELSE op[ch[s]][g[s \ {ch[s]}]]]
  <2>2. ASSUME NEW s \in UpTo(S, k + 1), s # {}
        PROVE  ch[s] \in S /\ s \ {ch[s]} \in UpTo(S, k) /\ s \ {ch[s]} \in UpTo(S, k + 1)
    <3>1. s \in SUBSET S /\ ch[s] \in s /\ Cardinality(s) <= k + 1
      BY <2>2 DEF UpTo
    <3>2. Cardinality(s \ {ch[s]}) = Cardinality(s) - 1 /\ Cardinality(s) \in Nat
      BY <3>1, <1>0, FS_RemoveElement
    <3>3. Cardinality(s \ {ch[s]}) <= k /\ Cardinality(s \ {ch[s]}) <= k + 1
      BY <3>1, <3>2
    <3> QED BY <3>1, <3>3 DEF UpTo
  <2>3. h \in [UpTo(S, k + 1) -> V]
    BY <2>2
  <2>4. \A r \in UpTo(S, k) : r \in UpTo(S, k + 1)
    <3> SUFFICES ASSUME NEW r \in UpTo(S, k) PROVE r \in UpTo(S, k + 1)
      OBVIOUS
    <3>1. r \in SUBSET S /\ Cardinality(r) <= k
      BY DEF UpTo
    <3>2. Cardinality(r) <= k + 1
      BY <3>1, <1>0
    <3> QED BY <3>1, <3>2 DEF UpTo
  <2>5. \A r \in UpTo(S, k) : h[r] = g[r]
    BY <2>1, <2>4
  <2>6. Good(k + 1, h)
    BY <2>2, <2>5
  <2> HIDE DEF h, Good
  <2> QED BY <2>3, <2>6
<1>3. Nat \subseteq T
  <2> HIDE DEF T
  <2> QED BY <1>1, <1>2, Induction
<1>4. PICK g \in [UpTo(S, Cardinality(S)) -> V] : Good(Cardinality(S), g)
  <2>1. Cardinality(S) \in Nat
    BY FS_CardinalityType
  <2> HIDE DEF Good
  <2> QED BY <1>3, <2>1
<1>5. UpTo(S, Cardinality(S)) = SUBSET S
  BY <1>0 DEF UpTo
<1> QED
  BY <1>4, <1>5 DEF Recurs

-----------------------------------------------------------------------------
(* What word_count counts.                                                 *)

\* The loop of word_count: a count before each character, and one at the end.
LEMMA CountLoop ==
  ASSUME NEW q \in Seq(Chars)
  PROVE  \E h : /\ \A k \in 0 .. Len(q) : h[k] \in Counts
                /\ h[0] = ZeroCount
                /\ \A k \in 1 .. Len(q) : h[k] = CountChar(h[k - 1], q[k])
                /\ FoldLeft(CountChar, ZeroCount, q) = h[Len(q)]
<1> DEFINE S == 1 .. Len(q)
           op == [x \in S |-> [v \in Counts |-> CountChar(v, q[x])]]
           ch == [s \in SUBSET S |-> Max(s)]
           eqn(g) == g = [s \in SUBSET S |-> IF s = {} THEN ZeroCount
                                             ELSE CountChar(g[s \ {Max(s)}], q[Max(s)])]
<1>1. Len(q) \in Nat /\ DOMAIN q = S /\ IsFiniteSet(S)
  BY FS_Interval
<1>2. \A x \in S : \A v \in Counts : CountChar(v, q[x]) \in Counts
  BY DEF CountChar, Counts
<1>3. \A s \in SUBSET S : s # {} => Max(s) \in s /\ \A x \in s : x <= Max(s)
  BY <1>1, GreatestNumber
<1>4. PICK g : Recurs(g, S, Counts, ZeroCount, op, ch)
  <2>1. ZeroCount \in Counts
    BY DEF ZeroCount, Counts
  <2>2. \A s \in SUBSET S : s # {} => ch[s] \in s
    BY <1>3
  <2>3. \A x \in S : \A v \in Counts : op[x][v] \in Counts
    BY <1>2
  <2> HIDE DEF S, op, ch
  <2> QED BY <2>1, <2>2, <2>3, <1>1, RecursionDefined
<1>5. eqn(g)
  <2>1. \A s \in SUBSET S : s # {} => op[ch[s]][g[s \ {ch[s]}]] = CountChar(g[s \ {Max(s)}], q[Max(s)])
    BY <1>3, <1>4 DEF Recurs
  <2>2. \A s \in SUBSET S : g[s] = IF s = {} THEN ZeroCount ELSE CountChar(g[s \ {Max(s)}], q[Max(s)])
    BY <2>1, <1>4 DEF Recurs
  <2> HIDE DEF S, op, ch
  <2> QED BY <2>2, <1>4 DEF Recurs
<1>6. FoldLeft(CountChar, ZeroCount, q) = (CHOOSE f : eqn(f))[S]
  <2>1. FoldLeft(CountChar, ZeroCount, q)
          = (CHOOSE f : f = [s \in SUBSET (DOMAIN q) |->
                              IF s = {} THEN ZeroCount
                              ELSE CountChar(f[s \ {Max(s)}], q[Max(s)])])[DOMAIN q]
    BY Zenon DEF FoldLeft, MapThenFoldSet
  <2> QED BY <2>1, <1>1, Zenon
<1>7. PICK f : eqn(f) /\ FoldLeft(CountChar, ZeroCount, q) = f[S]
  <2> HIDE DEF eqn, S
  <2> QED BY <1>5, <1>6
<1> DEFINE h == [k \in 0 .. Len(q) |-> f[1 .. k]]
<1>8. h[0] = ZeroCount
  <2>1. 1 .. 0 = {} /\ {} \in SUBSET S
    OBVIOUS
  <2> QED BY <2>1, <1>1, <1>7
<1>9. ASSUME NEW k \in 1 .. Len(q) PROVE h[k] = CountChar(h[k - 1], q[k])
  <2>1. 1 .. k \in SUBSET S /\ 1 .. k # {} /\ k - 1 \in 0 .. Len(q)
    <3>1. k \in 1 .. k /\ k - 1 \in 0 .. Len(q)
      BY <1>1
    <3>2. \A x \in 1 .. k : x \in S
      BY <1>1
    <3> QED BY <3>1, <3>2
  <2>2. Max(1 .. k) = k
    <3>1. PICK s \in SUBSET S : s = 1 .. k
      BY <2>1
    <3>2. Max(s) \in s /\ \A x \in s : x <= Max(s)
      BY <3>1, <2>1, <1>3
    <3>3. k \in s
      BY <3>1
    <3>4. Max(s) \in 1 .. k /\ k <= Max(s)
      BY <3>1, <3>2, <3>3
    <3> QED BY <3>1, <3>4
  <2>3. (1 .. k) \ {k} = 1 .. k - 1
    OBVIOUS
  <2>4. f[1 .. k] = CountChar(f[1 .. k - 1], q[k])
    BY <2>1, <2>2, <2>3, <1>7
  <2> QED BY <2>1, <2>4
<1>10. \A k \in 0 .. Len(q) : h[k] \in Counts
  <2> DEFINE T == {k \in Nat : k \in 0 .. Len(q) => h[k] \in Counts}
  <2> HIDE DEF h
  <2>1. 0 \in T
    BY <1>8 DEF ZeroCount, Counts
  <2>2. ASSUME NEW k \in Nat, k \in T PROVE k + 1 \in T
    <3> SUFFICES ASSUME k + 1 \in 0 .. Len(q) PROVE h[k + 1] \in Counts
      OBVIOUS
    <3>1. k \in 0 .. Len(q) /\ k + 1 \in S /\ (k + 1) - 1 = k
      OBVIOUS
    <3>2. h[k] \in Counts
      BY <3>1, <2>2
    <3>3. h[k + 1] = CountChar(h[k], q[k + 1])
      BY <3>1, <1>9
    <3> QED BY <3>1, <3>2, <3>3, <1>2
  <2> HIDE DEF T
  <2>3. Nat \subseteq T
    BY <2>1, <2>2, Induction
  <2> QED BY <2>3 DEF T
<1>11. FoldLeft(CountChar, ZeroCount, q) = h[Len(q)]
  BY <1>1, <1>7
<1> HIDE DEF h
<1> QED
  BY <1>8, <1>9, <1>10, <1>11

\* What is read of a text is a text.
LEMMA BeforeEOFType ==
  ASSUME NEW t \in Seq(Chars)
  PROVE  /\ BeforeEOF(t) \in Seq(Chars)
         /\ (\A k \in 1 .. Len(t) : t[k] # "xFF") => BeforeEOF(t) = t
<1> DEFINE ends == {k \in 1 .. Len(t) : t[k] = "xFF"}
<1>1. BeforeEOF(t) = IF ends = {} THEN t ELSE SubSeq(t, 1, Min(ends) - 1)
  BY DEF BeforeEOF
<1>2. ASSUME ends # {} PROVE SubSeq(t, 1, Min(ends) - 1) \in Seq(Chars)
  <2>1. ends \in SUBSET Nat
    OBVIOUS
  <2>2. \E m \in ends : \A x \in ends : m <= x
    <3> HIDE DEF ends
    <3> QED BY <1>2, <2>1, LeastNumber
  <2>3. Min(ends) \in ends
    BY <2>2 DEF Min
  <2>4. PICK n \in Nat : n = Min(ends) - 1 /\ n + 1 \in 1 .. Len(t)
    <3>1. PICK m \in 1 .. Len(t) : m = Min(ends)
      BY <2>3
    <3>2. m - 1 \in Nat /\ (m - 1) + 1 = m
      OBVIOUS
    <3> QED BY <3>1, <3>2
  <2>5. \A k \in 1 .. n : k \in 1 .. Len(t)
    BY <2>4
  <2>6. \A k \in 1 .. n : t[k] \in Chars
    BY <2>5
  <2>7. SubSeq(t, 1, n) \in Seq(Chars)
    BY <2>6, SubSeqProperties
  <2> QED BY <2>4, <2>7
<1> QED
  BY <1>1, <1>2

\* One line and one word more.
LEMMA LastAdded ==
  ASSUME NEW c \in Counts
  PROVE  /\ [c EXCEPT !.lines = @ + 1, !.words = @ + 1]
              = [lines |-> c.lines + 1, words |-> c.words + 1, chars |-> c.chars]
         /\ [c EXCEPT !.lines = @ + 1, !.words = @ + 1] \in Counts
<1>1. PICK l \in Nat, w \in Nat, k \in Nat : c = [lines |-> l, words |-> w, chars |-> k]
  BY DEF Counts
<1>2. [c EXCEPT !.lines = @ + 1, !.words = @ + 1] = [lines |-> l + 1, words |-> w + 1, chars |-> k]
  <2>1. [c EXCEPT !.lines = @ + 1] = [lines |-> l + 1, words |-> w, chars |-> k]
    BY <1>1
  <2>2. [[lines |-> l + 1, words |-> w, chars |-> k] EXCEPT !.words = @ + 1]
          = [lines |-> l + 1, words |-> w + 1, chars |-> k]
    OBVIOUS
  <2>3. [c EXCEPT !.lines = @ + 1, !.words = @ + 1] = [[c EXCEPT !.lines = @ + 1] EXCEPT !.words = @ + 1]
    BY Zenon
  <2> QED BY <2>1, <2>2, <2>3
<1>3. [lines |-> l + 1, words |-> w + 1, chars |-> k] \in Counts
  BY DEF Counts
<1> QED
  BY <1>1, <1>2, <1>3

\* What word_count makes of a text is a count.
LEMMA WordCountType ==
  ASSUME NEW t \in Seq(Chars) PROVE WordCount(t) \in Counts
<1>1. PICK q \in Seq(Chars) : q = BeforeEOF(t)
  BY BeforeEOFType
<1>2. PICK c \in Counts : c = FoldLeft(CountChar, ZeroCount, q)
  <2>1. Len(q) \in 0 .. Len(q)
    OBVIOUS
  <2> QED BY <2>1, CountLoop
<1>3. WordCount(t) = IF c.chars > 0 THEN [c EXCEPT !.lines = @ + 1, !.words = @ + 1] ELSE c
  BY <1>1, <1>2 DEF WordCount
<1> QED
  BY <1>3, LastAdded

\* How many members of a set are among the first k numbers.
Below(P, k) == Cardinality(P \cap (1 .. k))

\* One number further.
LEMMA BelowNext ==
  ASSUME NEW P, NEW k \in Nat
  PROVE  /\ Below(P, 0) = 0 /\ Below(P, k) \in Nat
         /\ Below(P, k + 1) = IF k + 1 \in P THEN Below(P, k) + 1 ELSE Below(P, k)
<1>1. IsFiniteSet(1 .. k)
  BY FS_Interval
<1>2. IsFiniteSet(P \cap (1 .. k)) /\ Cardinality(P \cap (1 .. k)) \in Nat
  BY <1>1, FS_Subset, FS_CardinalityType
<1>3. Below(P, 0) = 0
  <2>1. P \cap (1 .. 0) = {}
    OBVIOUS
  <2> QED BY <2>1, FS_EmptySet DEF Below
<1>4. \A m : m \in 1 .. k + 1 <=> m \in 1 .. k \/ m = k + 1
  OBVIOUS
<1>5. k + 1 \notin P \cap (1 .. k)
  OBVIOUS
<1>6. CASE k + 1 \in P
  <2>1. P \cap (1 .. k + 1) = (P \cap (1 .. k)) \cup {k + 1}
    BY <1>4, <1>6
  <2>2. Cardinality(P \cap (1 .. k + 1)) = Cardinality(P \cap (1 .. k)) + 1
    BY <2>1, <1>2, <1>5, FS_AddElement
  <2> QED BY <2>2, <1>2, <1>3, <1>6 DEF Below
<1>7. CASE k + 1 \notin P
  <2>1. P \cap (1 .. k + 1) = P \cap (1 .. k)
    BY <1>4, <1>7
  <2> QED BY <2>1, <1>2, <1>3, <1>7 DEF Below
<1> QED
  BY <1>6, <1>7

\* On a tidy text word_count counts the lines, the words - the letters that
\* begin one - and the letters.
LEMMA TidyCounted ==
  ASSUME NEW t \in Seq(Chars), Tidy(t)
  PROVE  WordCount(t)
           = [lines |-> 1 + Cardinality({k \in 1 .. Len(t) : t[k] = "newline"}),
              words |-> Cardinality({k \in 1 .. Len(t) :
                          /\ t[k] = "letter"
                          /\ k = 1 \/ t[k - 1] \in Separators}),
              chars |-> Cardinality({k \in 1 .. Len(t) : t[k] = "letter"})]
<1> DEFINE N == {k \in 1 .. Len(t) : t[k] = "newline"}
           B == {k \in 1 .. Len(t) : t[k] = "letter" /\ (k = 1 \/ t[k - 1] \in Separators)}
           L == {k \in 1 .. Len(t) : t[k] = "letter"}
<1>1. PICK n \in Nat : n = Len(t) /\ n >= 1
  BY DEF Tidy
<1>2. /\ \A k \in 1 .. n : t[k] \in {"letter", "space", "newline"}
      /\ t[1] = "letter" /\ t[n] = "letter"
      /\ \A k \in 1 .. n - 1 : t[k] \in Separators => t[k + 1] = "letter"
  BY <1>1 DEF Tidy, Chars
<1>3. PICK h : /\ \A k \in 0 .. n : h[k] \in Counts
               /\ h[0] = ZeroCount
               /\ \A k \in 1 .. n : h[k] = CountChar(h[k - 1], t[k])
               /\ FoldLeft(CountChar, ZeroCount, t) = h[n]
  BY <1>1, CountLoop
<1> DEFINE Right(k) == /\ h[k].lines = Below(N, k) /\ h[k].chars = Below(L, k)
                       /\ k = 0 => h[k].words = 0 /\ Below(B, k) = 0
                       /\ k # 0 => Below(B, k) = IF t[k] = "letter" THEN h[k].words + 1 ELSE h[k].words
           T == {k \in Nat : k <= n => Right(k)}
<1>4. 0 \in T
  <2>1. Below(N, 0) = 0 /\ Below(L, 0) = 0 /\ Below(B, 0) = 0
    BY BelowNext
  <2> QED BY <2>1, <1>3 DEF ZeroCount
<1>5. ASSUME NEW k \in Nat, k \in T PROVE k + 1 \in T
  <2> SUFFICES ASSUME k + 1 <= n PROVE Right(k + 1)
    OBVIOUS
  <2>1. Right(k) /\ k \in 0 .. n /\ k + 1 \in 1 .. n /\ (k + 1) - 1 = k /\ k + 1 # 0
    BY <1>5
  <2>2. h[k] \in Counts /\ h[k + 1] = CountChar(h[k], t[k + 1])
    BY <2>1, <1>3
  <2>3. /\ k + 1 \in N <=> t[k + 1] = "newline"
        /\ k + 1 \in L <=> t[k + 1] = "letter"
        /\ k + 1 \in B <=> t[k + 1] = "letter" /\ (k = 0 \/ t[k] \in Separators)
    BY <2>1, <1>1
  <2> HIDE DEF N, B, L
  <2>4. /\ Below(N, k + 1) = IF k + 1 \in N THEN Below(N, k) + 1 ELSE Below(N, k)
        /\ Below(L, k + 1) = IF k + 1 \in L THEN Below(L, k) + 1 ELSE Below(L, k)
        /\ Below(B, k + 1) = IF k + 1 \in B THEN Below(B, k) + 1 ELSE Below(B, k)
    BY BelowNext
  <2>5. h[k + 1].lines = Below(N, k + 1) /\ h[k + 1].chars = Below(L, k + 1)
    <3>1. t[k + 1] \in {"letter", "space", "newline"}
      BY <2>1, <1>2
    <3> QED BY <3>1, <2>1, <2>2, <2>3, <2>4 DEF CountChar, Separators
  <2>6. Below(B, k + 1) = IF t[k + 1] = "letter" THEN h[k + 1].words + 1 ELSE h[k + 1].words
    <3>1. t[k + 1] \in {"letter", "space", "newline"}
      BY <2>1, <1>2
    <3>2. h[k + 1].words = IF t[k + 1] = "letter" THEN h[k].words ELSE h[k].words + 1
      BY <3>1, <2>2 DEF CountChar, Separators
    <3>3. CASE k = 0
      <4>1. t[k + 1] = "letter" /\ Below(B, k) = 0 /\ h[k].words = 0
        BY <3>3, <2>1, <1>2
      <4> QED BY <4>1, <3>2, <3>3, <2>3, <2>4
    <3>4. CASE k # 0
      <4>1. k \in 1 .. n /\ k \in 1 .. n - 1 /\ t[k] \in {"letter", "space", "newline"}
        BY <3>4, <2>1, <1>2
      <4>2. t[k] # "letter" <=> t[k] \in Separators
        BY <4>1 DEF Separators
      <4>3. t[k] # "letter" => t[k + 1] = "letter"
        BY <4>1, <4>2, <1>2
      <4>4. h[k].words \in Nat
        BY <2>2 DEF Counts
      <4> QED BY <4>2, <4>3, <4>4, <3>1, <3>2, <3>4, <2>1, <2>3, <2>4
    <3> QED BY <3>3, <3>4
  <2> QED BY <2>1, <2>5, <2>6
<1>6. Right(n)
  <2>1. Nat \subseteq T
    <3> HIDE DEF T
    <3> QED BY <1>4, <1>5, Induction
  <2>2. n \in Nat /\ n <= n
    BY <1>1
  <2> HIDE DEF Right
  <2> QED BY <2>1, <2>2
<1>7. Below(N, n) = Cardinality(N) /\ Below(L, n) = Cardinality(L) /\ Below(B, n) = Cardinality(B)
  <2>1. N \cap (1 .. n) = N /\ L \cap (1 .. n) = L /\ B \cap (1 .. n) = B
    BY <1>1
  <2> QED BY <2>1 DEF Below
<1>8. h[n].chars > 0
  <2>1. n - 1 \in 0 .. n /\ n \in 1 .. n
    BY <1>1
  <2>2. h[n - 1] \in Counts /\ h[n] = CountChar(h[n - 1], "letter")
    BY <2>1, <1>2, <1>3
  <2> QED BY <2>2 DEF CountChar, Separators, Counts
<1>9. WordCount(t) = [h[n] EXCEPT !.lines = @ + 1, !.words = @ + 1]
  <2>1. BeforeEOF(t) = t
    BY BeforeEOFType DEF Tidy
  <2> QED BY <2>1, <1>3, <1>8 DEF WordCount
<1>10. h[n] \in Counts /\ n # 0 /\ t[n] = "letter"
  BY <1>1, <1>2, <1>3
<1>11. /\ h[n].lines = Cardinality(N) /\ h[n].words + 1 = Cardinality(B)
       /\ h[n].chars = Cardinality(L)
  BY <1>6, <1>7, <1>10
<1> HIDE DEF N, B, L, Right
<1>12. WordCount(t) = [lines |-> 1 + Cardinality(N), words |-> Cardinality(B), chars |-> Cardinality(L)]
  <2>1. /\ h[n].lines \in Nat /\ h[n].words \in Nat
        /\ WordCount(t) = [lines |-> h[n].lines + 1, words |-> h[n].words + 1, chars |-> h[n].chars]
    BY <1>9, <1>10, LastAdded DEF Counts
  <2>2. h[n].lines + 1 = 1 + h[n].lines
    BY <2>1
  <2> QED BY <2>1, <2>2, <1>11
<1> QED
  BY <1>12 DEF N, B, L

-----------------------------------------------------------------------------
(* Sums of records.                                                        *)

\* The sum of the records that f has for the members of S.
Total(f, S) == FoldFunctionOnSet(Add, ZeroCount, f, S)

\* Adding records is commutative and has a zero.
LEMMA AddAdds ==
  /\ ZeroCount \in Records /\ ZeroCount \in Counts /\ Counts \subseteq Records
  /\ \A a, b \in Records : Add(a, b) \in Records /\ Add(a, b) = Add(b, a)
  /\ \A a, b \in Counts : Add(a, b) \in Counts
  /\ \A a \in Records : Add(a, ZeroCount) = a /\ Add(ZeroCount, a) = a
<1>1. /\ ZeroCount \in Records /\ ZeroCount \in Counts /\ Counts \subseteq Records
  BY DEF ZeroCount, Records, Counts
<1>2. \A a, b \in Records : Add(a, b) \in Records /\ Add(a, b) = Add(b, a)
  BY DEF Add, Records
<1>3. \A a, b \in Counts : Add(a, b) \in Counts
  BY DEF Add, Counts
<1>4. \A a \in Records : Add(a, ZeroCount) = a /\ Add(ZeroCount, a) = a
  BY DEF Add, Records, ZeroCount
<1> QED
  BY <1>1, <1>2, <1>3, <1>4

\* And it is associative.
LEMMA AddAssociates ==
  ASSUME NEW a \in Records, NEW b \in Records, NEW c \in Records
  PROVE  Add(a, Add(b, c)) = Add(Add(a, b), c)
  BY DEF Add, Records

\* How the fold adds up: the members in the order in which CHOOSE takes them.
AnyOf(s) == CHOOSE x \in s : TRUE
SumsUp(g, f, S) ==
  /\ g \in [SUBSET S -> Records]
  /\ \A s \in SUBSET S : g[s] = IF s = {} THEN ZeroCount ELSE Add(f[AnyOf(s)], g[s \ {AnyOf(s)}])

\* The fold is what it recurs to.
LEMMA TotalSumsUp ==
  ASSUME NEW S, IsFiniteSet(S), NEW f, \A x \in S : f[x] \in Records
  PROVE  \E g : SumsUp(g, f, S) /\ Total(f, S) = g[S]
<1> DEFINE op == [x \in S |-> [v \in Records |-> Add(f[x], v)]]
           ch == [s \in SUBSET S |-> AnyOf(s)]
           eqn(g) == g = [s \in SUBSET S |-> IF s = {} THEN ZeroCount
                                             ELSE Add(f[AnyOf(s)], g[s \ {AnyOf(s)}])]
<1>1. \A s \in SUBSET S : s # {} => AnyOf(s) \in s
  BY DEF AnyOf
<1>2. PICK g : Recurs(g, S, Records, ZeroCount, op, ch)
  <2>1. \A s \in SUBSET S : s # {} => ch[s] \in s
    BY <1>1
  <2>2. \A x \in S : \A v \in Records : op[x][v] \in Records
    BY AddAdds
  <2> HIDE DEF op, ch
  <2> QED BY <2>1, <2>2, AddAdds, RecursionDefined
<1>3. \A s \in SUBSET S : g[s] = IF s = {} THEN ZeroCount ELSE Add(f[AnyOf(s)], g[s \ {AnyOf(s)}])
  <2>1. \A s \in SUBSET S : s # {} => op[ch[s]][g[s \ {ch[s]}]] = Add(f[AnyOf(s)], g[s \ {AnyOf(s)}])
    BY <1>1, <1>2 DEF Recurs
  <2> HIDE DEF op, ch
  <2> QED BY <2>1, <1>2 DEF Recurs
<1>4. eqn(g)
  BY <1>2, <1>3 DEF Recurs
<1>5. Total(f, S) = (CHOOSE h : eqn(h))[S]
  BY Zenon DEF Total, FoldFunctionOnSet, MapThenFoldSet, AnyOf
<1>6. PICK h : eqn(h) /\ Total(f, S) = h[S]
  <2> HIDE DEF eqn
  <2> QED BY <1>4, <1>5
<1>7. \A s \in SUBSET S : h[s] \in Records
  <2> DEFINE T == {k \in Nat : \A s \in UpTo(S, k) : h[s] = g[s]}
  <2>0. \A s \in SUBSET S : IsFiniteSet(s) /\ Cardinality(s) \in Nat
    BY FS_Subset, FS_CardinalityType
  <2>1. \A s \in SUBSET S : h[s] = IF s = {} THEN ZeroCount ELSE Add(f[AnyOf(s)], h[s \ {AnyOf(s)}])
    BY <1>6
  <2>2. 0 \in T
    <3> SUFFICES ASSUME NEW s \in UpTo(S, 0) PROVE h[s] = g[s]
      OBVIOUS
    <3>1. s \in SUBSET S /\ Cardinality(s) = 0 /\ IsFiniteSet(s)
      BY <2>0 DEF UpTo
    <3>2. s = {}
      BY <3>1, FS_EmptySet
    <3> QED BY <3>1, <3>2, <2>1, <1>3
  <2>3. ASSUME NEW k \in Nat, k \in T PROVE k + 1 \in T
    <3> SUFFICES ASSUME NEW s \in UpTo(S, k + 1) PROVE h[s] = g[s]
      OBVIOUS
    <3>0. CASE s = {}
      BY <3>0, <2>1, <1>3
    <3> SUFFICES ASSUME s # {} PROVE h[s] = g[s]
      BY <3>0
    <3>1. s \in SUBSET S /\ AnyOf(s) \in s /\ Cardinality(s) <= k + 1
      BY <1>1 DEF UpTo
    <3>2. Cardinality(s \ {AnyOf(s)}) = Cardinality(s) - 1 /\ Cardinality(s) \in Nat
      BY <3>1, <2>0, FS_RemoveElement
    <3>3. s \ {AnyOf(s)} \in UpTo(S, k)
      BY <3>1, <3>2 DEF UpTo
    <3>4. h[s \ {AnyOf(s)}] = g[s \ {AnyOf(s)}]
      BY <3>3, <2>3
    <3> QED BY <3>1, <3>4, <2>1, <1>3
  <2> HIDE DEF T
  <2>4. Nat \subseteq T
    BY <2>2, <2>3, Induction
  <2>5. Cardinality(S) \in T
    BY <2>4, FS_CardinalityType
  <2>6. SUBSET S = UpTo(S, Cardinality(S))
    BY FS_Subset DEF UpTo
  <2> QED BY <2>5, <2>6, <1>2 DEF T, Recurs
<1> QED
  BY <1>6, <1>7 DEF SumsUp

\* A sum over a subset is the same, whatever set it is taken in.
LEMMA SumsUpAgree ==
  ASSUME NEW S, IsFiniteSet(S), NEW r \in SUBSET S, NEW f, NEW g, NEW h,
         SumsUp(g, f, S), SumsUp(h, f, r)
  PROVE  g[r] = h[r]
<1> DEFINE T == {k \in Nat : \A s \in UpTo(r, k) : h[s] = g[s]}
<1>1. \A s \in SUBSET r : /\ IsFiniteSet(s) /\ Cardinality(s) \in Nat
                          /\ s # {} => AnyOf(s) \in s
  BY FS_Subset, FS_CardinalityType DEF AnyOf
<1>2. \A s \in SUBSET r : /\ h[s] = IF s = {} THEN ZeroCount ELSE Add(f[AnyOf(s)], h[s \ {AnyOf(s)}])
                          /\ g[s] = IF s = {} THEN ZeroCount ELSE Add(f[AnyOf(s)], g[s \ {AnyOf(s)}])
  BY DEF SumsUp
<1>3. 0 \in T
  <2> SUFFICES ASSUME NEW s \in UpTo(r, 0) PROVE h[s] = g[s]
    OBVIOUS
  <2>1. s \in SUBSET r /\ Cardinality(s) = 0 /\ IsFiniteSet(s)
    BY <1>1 DEF UpTo
  <2>2. s = {}
    BY <2>1, FS_EmptySet
  <2> QED BY <2>1, <2>2, <1>2
<1>4. ASSUME NEW k \in Nat, k \in T PROVE k + 1 \in T
  <2> SUFFICES ASSUME NEW s \in UpTo(r, k + 1) PROVE h[s] = g[s]
    OBVIOUS
  <2>1. s \in SUBSET r /\ Cardinality(s) <= k + 1
    BY DEF UpTo
  <2>2. CASE s = {}
    BY <2>1, <2>2, <1>2
  <2>3. CASE s # {}
    <3>1. Cardinality(s \ {AnyOf(s)}) = Cardinality(s) - 1 /\ Cardinality(s) \in Nat
      BY <2>1, <2>3, <1>1, FS_RemoveElement
    <3>2. s \ {AnyOf(s)} \in UpTo(r, k)
      BY <2>1, <3>1 DEF UpTo
    <3>3. h[s \ {AnyOf(s)}] = g[s \ {AnyOf(s)}]
      BY <3>2, <1>4
    <3> QED BY <2>1, <2>3, <3>3, <1>2
  <2> QED BY <2>2, <2>3
<1> HIDE DEF T
<1>5. Nat \subseteq T
  BY <1>3, <1>4, Induction
<1>6. Cardinality(r) \in T
  BY <1>1, <1>5
<1>7. r \in UpTo(r, Cardinality(r))
  BY <1>1 DEF UpTo
<1> QED
  BY <1>6, <1>7 DEF T

\* One step of the fold.
LEMMA TotalStep ==
  ASSUME NEW S, IsFiniteSet(S), NEW f, \A x \in S : f[x] \in Records
  PROVE  /\ Total(f, S) \in Records
         /\ S = {} => Total(f, S) = ZeroCount
         /\ S # {} => AnyOf(S) \in S /\ Total(f, S) = Add(f[AnyOf(S)], Total(f, S \ {AnyOf(S)}))
<1>1. PICK g : SumsUp(g, f, S) /\ Total(f, S) = g[S]
  BY TotalSumsUp
<1>2. Total(f, S) \in Records /\ (S = {} => Total(f, S) = ZeroCount)
  BY <1>1 DEF SumsUp
<1>3. ASSUME S # {}
      PROVE  AnyOf(S) \in S /\ Total(f, S) = Add(f[AnyOf(S)], Total(f, S \ {AnyOf(S)}))
  <2>1. PICK r \in SUBSET S : r = S \ {AnyOf(S)}
    OBVIOUS
  <2>2. PICK h : SumsUp(h, f, r) /\ Total(f, r) = h[r]
    <3>1. IsFiniteSet(r) /\ \A x \in r : f[x] \in Records
      BY FS_Subset
    <3> QED BY <3>1, TotalSumsUp
  <2>3. g[r] = h[r]
    BY <1>1, <2>2, SumsUpAgree
  <2>4. g[S] = Add(f[AnyOf(S)], g[S \ {AnyOf(S)}]) /\ AnyOf(S) \in S
    BY <1>1, <1>3 DEF SumsUp, AnyOf
  <2> QED BY <1>1, <2>1, <2>2, <2>3, <2>4
<1> QED
  BY <1>2, <1>3

\* The order of adding is of no account: any member can be taken out.
LEMMA TotalRemove ==
  ASSUME NEW S, IsFiniteSet(S), NEW f, \A x \in S : f[x] \in Records, NEW y \in S
  PROVE  Total(f, S) = Add(f[y], Total(f, S \ {y}))
<1> DEFINE Takes(s) == \A x \in s : Total(f, s) = Add(f[x], Total(f, s \ {x}))
           T == {k \in Nat : \A s \in UpTo(S, k) : Takes(s)}
<1>1. \A s \in SUBSET S : IsFiniteSet(s) /\ Cardinality(s) \in Nat /\ \A x \in s : f[x] \in Records
  BY FS_Subset, FS_CardinalityType
<1>2. 0 \in T
  <2> SUFFICES ASSUME NEW s \in UpTo(S, 0) PROVE Takes(s)
    OBVIOUS
  <2>1. Cardinality(s) = 0 /\ IsFiniteSet(s)
    BY <1>1 DEF UpTo
  <2>2. s = {}
    BY <2>1, FS_EmptySet
  <2> QED BY <2>2
<1>3. ASSUME NEW k \in Nat, k \in T PROVE k + 1 \in T
  <2> SUFFICES ASSUME NEW s \in UpTo(S, k + 1), NEW x \in s
               PROVE  Total(f, s) = Add(f[x], Total(f, s \ {x}))
    OBVIOUS
  <2>1. s \in SUBSET S /\ Cardinality(s) <= k + 1 /\ IsFiniteSet(s) /\ Cardinality(s) \in Nat
    BY <1>1 DEF UpTo
  <2>2. PICK c : c = AnyOf(s)
    OBVIOUS
  <2>3. c \in s /\ Total(f, s) = Add(f[c], Total(f, s \ {c}))
    BY <2>1, <2>2, <1>1, TotalStep
  <2>4. \A z \in s : s \ {z} \in UpTo(S, k)
    <3> SUFFICES ASSUME NEW z \in s PROVE s \ {z} \in UpTo(S, k)
      OBVIOUS
    <3>1. Cardinality(s \ {z}) = Cardinality(s) - 1
      BY <2>1, FS_RemoveElement
    <3> QED BY <3>1, <2>1 DEF UpTo
  <2>5. CASE x = c
    BY <2>3, <2>5
  <2>6. CASE x # c
    <3> DEFINE r == (s \ {c}) \ {x}
    <3>1. (s \ {x}) \ {c} = r /\ r \in SUBSET S /\ x \in s \ {c} /\ c \in s \ {x}
      BY <2>1, <2>3, <2>6
    <3>2. Total(f, s \ {c}) = Add(f[x], Total(f, r))
      BY <2>3, <2>4, <3>1, <1>3
    <3>3. Total(f, s \ {x}) = Add(f[c], Total(f, r))
      BY <2>4, <3>1, <1>3
    <3>4. Total(f, r) \in Records /\ f[x] \in Records /\ f[c] \in Records
      BY <3>1, <2>1, <2>3, <1>1, TotalStep
    <3> HIDE DEF r
    <3>5. Add(f[c], Add(f[x], Total(f, r))) = Add(f[x], Add(f[c], Total(f, r)))
      <4>1. /\ Add(f[c], Add(f[x], Total(f, r))) = Add(Add(f[c], f[x]), Total(f, r))
            /\ Add(f[x], Add(f[c], Total(f, r))) = Add(Add(f[x], f[c]), Total(f, r))
        BY <3>4, AddAssociates
      <4>2. Add(f[c], f[x]) = Add(f[x], f[c])
        BY <3>4, AddAdds
      <4> QED BY <4>1, <4>2
    <3> QED BY <2>3, <3>2, <3>3, <3>5
  <2> QED BY <2>5, <2>6
<1>4. Nat \subseteq T
  <2> HIDE DEF T
  <2> QED BY <1>2, <1>3, Induction
<1>5. S \in UpTo(S, Cardinality(S)) /\ Cardinality(S) \in Nat
  BY <1>1 DEF UpTo
<1>6. Takes(S)
  <2> HIDE DEF Takes
  <2> QED BY <1>4, <1>5
<1> QED
  BY <1>6

\* Functions that agree on a set have the same total on it.
LEMMA TotalSame ==
  ASSUME NEW S, IsFiniteSet(S), NEW f, NEW h,
         \A x \in S : f[x] \in Records /\ h[x] = f[x]
  PROVE  Total(h, S) = Total(f, S)
<1> DEFINE T == {k \in Nat : \A s \in UpTo(S, k) : Total(h, s) = Total(f, s)}
<1>1. \A s \in SUBSET S : /\ IsFiniteSet(s) /\ Cardinality(s) \in Nat
                          /\ \A x \in s : f[x] \in Records /\ h[x] \in Records /\ h[x] = f[x]
  BY FS_Subset, FS_CardinalityType
<1>2. 0 \in T
  <2> SUFFICES ASSUME NEW s \in UpTo(S, 0) PROVE Total(h, s) = Total(f, s)
    OBVIOUS
  <2>1. Cardinality(s) = 0 /\ IsFiniteSet(s) /\ s \in SUBSET S
    BY <1>1 DEF UpTo
  <2>2. s = {}
    BY <2>1, FS_EmptySet
  <2>3. Total(h, s) = ZeroCount /\ Total(f, s) = ZeroCount
    BY <2>1, <2>2, <1>1, TotalStep
  <2> QED BY <2>3
<1>3. ASSUME NEW k \in Nat, k \in T PROVE k + 1 \in T
  <2> SUFFICES ASSUME NEW s \in UpTo(S, k + 1) PROVE Total(h, s) = Total(f, s)
    OBVIOUS
  <2>1. s \in SUBSET S /\ Cardinality(s) <= k + 1 /\ IsFiniteSet(s) /\ Cardinality(s) \in Nat
    BY <1>1 DEF UpTo
  <2>2. CASE s = {}
    <3>1. Total(h, s) = ZeroCount /\ Total(f, s) = ZeroCount
      BY <2>1, <2>2, <1>1, TotalStep
    <3> QED BY <3>1
  <2>3. CASE s # {}
    <3>1. PICK x : x \in s
      BY <2>3
    <3>2. Cardinality(s \ {x}) = Cardinality(s) - 1
      BY <2>1, <3>1, FS_RemoveElement
    <3>3. s \ {x} \in UpTo(S, k)
      BY <3>2, <2>1 DEF UpTo
    <3>4. Total(h, s \ {x}) = Total(f, s \ {x})
      BY <3>3, <1>3
    <3>5. /\ Total(h, s) = Add(h[x], Total(h, s \ {x}))
          /\ Total(f, s) = Add(f[x], Total(f, s \ {x}))
      BY <3>1, <2>1, <1>1, TotalRemove
    <3> QED BY <3>1, <3>4, <3>5, <2>1, <1>1
  <2> QED BY <2>2, <2>3
<1>4. Nat \subseteq T
  <2> HIDE DEF T
  <2> QED BY <1>2, <1>3, Induction
<1>5. S \in UpTo(S, Cardinality(S)) /\ Cardinality(S) \in T
  BY <1>1, <1>4 DEF UpTo
<1> QED
  BY <1>5

\* Intervals without one of their ends.
LEMMA IntervalEnds ==
  ASSUME NEW m \in Nat, NEW n \in Nat, m <= n
  PROVE  /\ m \in m .. n /\ n \in m .. n /\ IsFiniteSet(m .. n)
         /\ (m .. n) \ {m} = m + 1 .. n
         /\ (m .. n) \ {n} = m .. n - 1
<1>1. m \in m .. n /\ n \in m .. n
  OBVIOUS
<1>2. IsFiniteSet(m .. n)
  BY FS_Interval
<1>3. \A k \in Int : /\ k \in m .. n /\ k # m <=> k \in m + 1 .. n
                   /\ k \in m .. n /\ k # n <=> k \in m .. n - 1
  OBVIOUS
<1>4. m .. n \subseteq Int /\ m + 1 .. n \subseteq Int /\ m .. n - 1 \subseteq Int
  OBVIOUS
<1>5. (m .. n) \ {m} = m + 1 .. n
  BY <1>3, <1>4
<1>6. (m .. n) \ {n} = m .. n - 1
  BY <1>3, <1>4
<1> QED
  BY <1>1, <1>2, <1>5, <1>6

\* The records in a pipe.
InPipe(q) == FoldSeq(Add, ZeroCount, q)

\* The records in a pipe are summed up by their places.
LEMMA InPipeIsTotal ==
  ASSUME NEW q \in Seq(Records)
  PROVE  /\ InPipe(q) = Total(q, 1 .. Len(q)) /\ InPipe(q) \in Records
         /\ IsFiniteSet(1 .. Len(q)) /\ \A k \in 1 .. Len(q) : q[k] \in Records
         /\ q = <<>> => InPipe(q) = ZeroCount
<1>1. DOMAIN q = 1 .. Len(q) /\ Len(q) \in Nat /\ \A k \in 1 .. Len(q) : q[k] \in Records
  OBVIOUS
<1>2. InPipe(q) = Total(q, 1 .. Len(q))
  <2>1. FoldSeq(Add, ZeroCount, q) = FoldFunctionOnSet(Add, ZeroCount, q, DOMAIN q)
    BY Zenon DEF FoldSeq, FoldFunction
  <2> QED BY <2>1, <1>1, Zenon DEF InPipe, Total
<1>3. IsFiniteSet(1 .. Len(q))
  BY <1>1, FS_Interval
<1>4. Total(q, 1 .. Len(q)) \in Records /\ (1 .. Len(q) = {} => Total(q, 1 .. Len(q)) = ZeroCount)
  BY <1>1, <1>3, TotalStep
<1>5. q = <<>> => 1 .. Len(q) = {}
  OBVIOUS
<1> QED
  BY <1>1, <1>2, <1>3, <1>4, <1>5

\* A record is written.
LEMMA InPipeAppend ==
  ASSUME NEW q \in Seq(Records), NEW x \in Records
  PROVE  InPipe(Append(q, x)) = Add(x, InPipe(q))
<1>1. PICK r \in Seq(Records) : r = Append(q, x)
  BY AppendProperties
<1>2. PICK n \in Nat : n = Len(q)
  OBVIOUS
<1>3. Len(r) = n + 1 /\ r[n + 1] = x /\ \A k \in 1 .. n : r[k] = q[k]
  BY <1>1, <1>2
<1>4. InPipe(r) = Total(r, 1 .. n + 1) /\ IsFiniteSet(1 .. n + 1) /\ \A k \in 1 .. n + 1 : r[k] \in Records
  BY <1>3, InPipeIsTotal
<1>5. n + 1 \in 1 .. n + 1 /\ (1 .. n + 1) \ {n + 1} = 1 .. n
  <2>1. 1 \in Nat /\ n + 1 \in Nat /\ 1 <= n + 1 /\ (n + 1) - 1 = n
    OBVIOUS
  <2> QED BY <2>1, IntervalEnds
<1>6. Total(r, 1 .. n + 1) = Add(x, Total(r, 1 .. n))
  BY <1>3, <1>4, <1>5, TotalRemove
<1>7. Total(r, 1 .. n) = Total(q, 1 .. n)
  <2>1. IsFiniteSet(1 .. n) /\ \A k \in 1 .. n : q[k] \in Records
    BY <1>2, InPipeIsTotal
  <2> QED BY <2>1, <1>3, TotalSame
<1> QED
  BY <1>1, <1>2, <1>4, <1>6, <1>7, InPipeIsTotal

\* A record is read.
LEMMA InPipeTail ==
  ASSUME NEW q \in Seq(Records), q # <<>>
  PROVE  /\ InPipe(q) = Add(Head(q), InPipe(Tail(q)))
         /\ Head(q) \in Records /\ Tail(q) \in Seq(Records)
<1>1. PICK r \in Seq(Records) : r = Tail(q)
  BY HeadTailProperties
<1>2. PICK n \in Nat : n = Len(r)
  OBVIOUS
<1>3. /\ Len(q) = n + 1 /\ Head(q) = q[1] /\ Head(q) \in Records
      /\ \A k \in 1 .. n : r[k] = q[k + 1]
  <2>1. /\ Len(r) = Len(q) - 1 /\ \A k \in 1 .. Len(r) : r[k] = q[k + 1]
        /\ Head(q) \in Records /\ Head(q) = q[1]
    BY <1>1, HeadTailProperties
  <2>2. Len(q) \in Nat
    OBVIOUS
  <2> QED BY <2>1, <2>2, <1>2
<1>4. /\ InPipe(q) = Total(q, 1 .. n + 1) /\ IsFiniteSet(1 .. n + 1)
      /\ \A k \in 1 .. n + 1 : q[k] \in Records
  BY <1>3, InPipeIsTotal
<1>5. InPipe(r) = Total(r, 1 .. n) /\ \A k \in 1 .. n : r[k] \in Records
  BY <1>2, InPipeIsTotal
<1> DEFINE T == {k \in Nat : k <= n => Total(r, 1 .. k) = Total(q, 2 .. k + 1)}
<1>6. 0 \in T
  <2>1. 1 .. 0 = {} /\ 2 .. 0 + 1 = {} /\ IsFiniteSet({})
    BY FS_EmptySet
  <2>2. Total(r, {}) = ZeroCount /\ Total(q, {}) = ZeroCount
    BY <2>1, TotalStep
  <2> QED BY <2>1, <2>2
<1>7. ASSUME NEW k \in Nat, k \in T PROVE k + 1 \in T
  <2> SUFFICES ASSUME k + 1 <= n PROVE Total(r, 1 .. k + 1) = Total(q, 2 .. (k + 1) + 1)
    OBVIOUS
  <2>1. (k + 1) + 1 = k + 2 /\ k <= n /\ k + 1 \in 1 .. n
    OBVIOUS
  <2>2. PICK A, B : A = 1 .. k + 1 /\ B = 2 .. k + 2
    OBVIOUS
  <2>3. /\ IsFiniteSet(A) /\ k + 1 \in A /\ A \ {k + 1} = 1 .. k
        /\ IsFiniteSet(B) /\ k + 2 \in B /\ B \ {k + 2} = 2 .. k + 1
    <3>1. /\ 1 \in Nat /\ k + 1 \in Nat /\ 1 <= k + 1 /\ (k + 1) - 1 = k
          /\ 2 \in Nat /\ k + 2 \in Nat /\ 2 <= k + 2 /\ (k + 2) - 1 = k + 1
      OBVIOUS
    <3> QED BY <3>1, <2>2, IntervalEnds
  <2>7. /\ \A m \in A : r[m] \in Records
        /\ \A m \in B : q[m] \in Records
    <3>1. \A m \in A : m \in 1 .. n
      BY <2>2
    <3>2. \A m \in B : m \in 1 .. n + 1
      BY <2>2
    <3> QED BY <3>1, <3>2, <1>4, <1>5
  <2>4. Total(r, A) = Add(r[k + 1], Total(r, 1 .. k))
    <3>1. PICK u \in A : u = k + 1
      BY <2>3
    <3>2. Total(r, A) = Add(r[u], Total(r, A \ {u}))
      BY <2>3, <2>7, TotalRemove
    <3> QED BY <3>1, <3>2, <2>3
  <2>5. Total(q, B) = Add(q[k + 2], Total(q, 2 .. k + 1))
    <3>1. PICK u \in B : u = k + 2
      BY <2>3
    <3>2. Total(q, B) = Add(q[u], Total(q, B \ {u}))
      BY <2>3, <2>7, TotalRemove
    <3> QED BY <3>1, <3>2, <2>3
  <2>6. r[k + 1] = q[k + 2]
    BY <2>1, <1>3
  <2> QED BY <2>1, <2>2, <2>4, <2>5, <2>6, <1>7
<1>8. Total(r, 1 .. n) = Total(q, 2 .. n + 1)
  <2>1. Nat \subseteq T
    <3> HIDE DEF T
    <3> QED BY <1>6, <1>7, Induction
  <2> QED BY <2>1
<1>9. Total(q, 1 .. n + 1) = Add(q[1], Total(q, 2 .. n + 1))
  <2>1. 1 \in 1 .. n + 1 /\ (1 .. n + 1) \ {1} = 2 .. n + 1
    <3>1. 1 \in Nat /\ n + 1 \in Nat /\ 1 <= n + 1 /\ 1 + 1 = 2
      OBVIOUS
    <3> QED BY <3>1, IntervalEnds
  <2> QED BY <2>1, <1>4, TotalRemove
<1> QED
  BY <1>1, <1>3, <1>4, <1>5, <1>8, <1>9

-----------------------------------------------------------------------------
(* Who has written and who is still there.                                 *)

\* The children whose record went into the pipe.
Wrote == {c \in Files : cpc[c] \in {"exit", "done"}}

\* The files are numbered from 0, and the parent forks for them in that order.
Forked ==
  /\ \E n \in 1 .. MAX_FILES : Files = 0 .. n - 1
  /\ ppc \in {"pipe", "fork", "read", "done", "failed", "noPipe"}
  /\ i \in 0 .. numFiles /\ j \in 0 .. numFiles
  /\ cpc \in [Files -> {"none", "count", "close", "write", "exit", "done", "killed"}]
  /\ \A c \in Files : c < i <=> cpc[c] # "none"
  /\ ppc = "pipe" => i = 0
  /\ ppc \in {"read", "done"} => i = numFiles
  /\ ppc = "done" => j = numFiles

\* Who holds the ends of the pipe.
Held ==
  /\ readers \subseteq Files \cup {Parent} /\ writers \subseteq Files \cup {Parent}
  /\ \A c \in Files : c \in writers <=> cpc[c] \notin {"none", "done", "killed"}

\* Every record read or in the pipe is some child's, until a read meets the end
\* of the pipe; then no child is left that could write one.
Accounted ==
  \/ j + Len(pipe) = Cardinality(Wrote)
  \/ pipe = <<>> /\ \A c \in Files : cpc[c] \in {"done", "killed"}

PipeInv == Forked /\ Held /\ Accounted /\ \E S : pipe \in Seq(S)

-----------------------------------------------------------------------------
(* Every step keeps it.                                                    *)

\* The files are as many as the command line's.
LEMMA FilesAre ==
  ASSUME Forked
  PROVE  /\ numFiles \in Nat /\ Files = 0 .. numFiles - 1 /\ IsFiniteSet(Files)
         /\ Parent \notin Files
         /\ IsFiniteSet(Wrote) /\ Cardinality(Wrote) \in 0 .. numFiles
         /\ Cardinality(Wrote) = numFiles => Wrote = Files
<1>1. PICK n \in 1 .. MAX_FILES : Files = 0 .. n - 1
  BY DEF Forked
<1>2. n \in Nat /\ n >= 1
  BY <1>1, WordCountAssumption
<1>3. IsFiniteSet(Files) /\ numFiles = n
  <2>1. 0 \in Int /\ n - 1 \in Int /\ 0 <= n - 1 /\ (n - 1) - 0 + 1 = n
    BY <1>2
  <2>2. IsFiniteSet(0 .. n - 1) /\ Cardinality(0 .. n - 1) = n
    BY <2>1, FS_Interval
  <2> QED BY <2>2, <1>1 DEF numFiles
<1>4. Parent \notin Files
  BY <1>1, <1>2 DEF Parent
<1>5. Wrote \subseteq Files
  BY DEF Wrote
<1>6. /\ IsFiniteSet(Wrote) /\ Cardinality(Wrote) \in Nat /\ Cardinality(Wrote) <= numFiles
      /\ Cardinality(Wrote) = numFiles => Wrote = Files
  BY <1>3, <1>5, FS_Subset, FS_CardinalityType DEF numFiles
<1> QED
  BY <1>1, <1>2, <1>3, <1>4, <1>6

\* A child that writes is one more that has written.
LEMMA OneMoreWrote ==
  ASSUME Forked, NEW c \in Files, c \notin Wrote
  PROVE  Cardinality(Wrote \cup {c}) = Cardinality(Wrote) + 1
  BY FilesAre, FS_AddElement

\* The parent's own steps before it reads.
LEMMA ForkingKeepsPipeInv ==
  ASSUME PipeInv, MakePipe \/ PipeFails \/ Fork \/ ForkFails \/ CloseWrite
  PROVE  PipeInv'
<1> USE DEF PipeInv
<1>1. UNCHANGED <<text, j, pipe>> /\ Files' = Files /\ numFiles' = numFiles
  BY DEF MakePipe, PipeFails, Fork, ForkFails, CloseWrite, Files, numFiles
<1>2. numFiles \in Nat /\ Files = 0 .. numFiles - 1 /\ Parent \notin Files
  BY FilesAre
<1>3. CASE MakePipe \/ PipeFails \/ ForkFails \/ CloseWrite
  <2>1. /\ UNCHANGED <<i, cpc>> /\ (ppc' = "read" => i = numFiles) /\ ppc' # "done"
        /\ ppc' \in {"fork", "read", "failed", "noPipe"}
    BY <1>3 DEF MakePipe, PipeFails, ForkFails, CloseWrite
  <2>2. Forked'
    BY <2>1, <1>1 DEF Forked
  <2>3. /\ readers' \subseteq readers \cup {Parent} /\ writers' \subseteq writers \cup {Parent}
        /\ \A c \in Files : c \in writers' <=> c \in writers
    <3>1. CASE MakePipe
      <4>1. i = 0 /\ readers' = {Parent} /\ writers' = {Parent}
        BY <3>1 DEF MakePipe, Forked
      <4>2. \A c \in Files : cpc[c] = "none"
        BY <4>1, <1>2 DEF Forked
      <4>3. \A c \in Files : c \notin writers /\ c \notin writers'
        BY <4>1, <4>2, <1>2 DEF Held
      <4> QED BY <4>1, <4>3
    <3> QED
      BY <3>1, <1>2, <1>3 DEF PipeFails, ForkFails, CloseWrite
  <2>4. Held'
    BY <2>1, <2>3, <1>1 DEF Held
  <2>5. Accounted'
    BY <2>1, <1>1 DEF Accounted, Wrote
  <2> QED BY <2>2, <2>4, <2>5, <1>1
<1>4. CASE Fork
  <2>1. /\ ppc = "fork" /\ ppc' = "fork" /\ i < numFiles /\ i' = i + 1
        /\ cpc' = [cpc EXCEPT ![i] = "count"]
        /\ readers' = readers \cup {i} /\ writers' = writers \cup {i}
    BY <1>4 DEF Fork
  <2>2. i \in Files /\ i \in Nat /\ cpc[i] = "none"
    BY <2>1, <1>2 DEF Forked
  <2>3. Forked'
    <3>1. \A c \in Files : c < i + 1 <=> (c < i \/ c = i)
      BY <2>2, <1>2
    <3>2. \A c \in Files : c < i + 1 <=> cpc'[c] # "none"
      BY <3>1, <2>1, <2>2 DEF Forked
    <3>3. i + 1 \in 0 .. numFiles
      BY <2>1, <2>2, <1>2
    <3> QED BY <3>2, <3>3, <2>1, <1>1 DEF Forked
  <2>4. Held'
    BY <2>1, <2>2, <1>1 DEF Held, Forked
  <2>5. Accounted'
    <3>1. Wrote' = Wrote
      BY <2>1, <2>2, <1>1 DEF Wrote, Forked
    <3>2. ~(\A c \in Files : cpc[c] \in {"done", "killed"})
      BY <2>2
    <3> QED BY <3>1, <3>2, <1>1 DEF Accounted
  <2> QED BY <2>3, <2>4, <2>5, <1>1
<1> QED
  BY <1>3, <1>4

\* The parent reads.  A read that meets the end of the pipe has found every
\* write end closed: no child is left that has not written or died.
LEMMA ReadingKeepsPipeInv ==
  ASSUME PipeInv, ReadRecord \/ ReadEnd \/ Report PROVE PipeInv'
<1> USE DEF PipeInv
<1>1. /\ UNCHANGED <<text, i, cpc, writers>> /\ Files' = Files /\ numFiles' = numFiles
      /\ Wrote' = Wrote /\ ppc = "read" /\ i = numFiles
      /\ readers' \subseteq readers
  BY DEF ReadRecord, ReadEnd, Report, Files, numFiles, Wrote, Forked
<1>2. numFiles \in Nat /\ Files = 0 .. numFiles - 1
  BY FilesAre
<1>3. Held'
  BY <1>1 DEF Held
<1>4. \A c \in Files : cpc[c] # "none"
  BY <1>1, <1>2 DEF Forked
<1>5. CASE ReadRecord
  <2>1. /\ pipe # <<>> /\ pipe' = Tail(pipe) /\ j < numFiles /\ j' = j + 1 /\ ppc' = ppc
    BY <1>5 DEF ReadRecord
  <2>2. PICK S : pipe \in Seq(S)
    OBVIOUS
  <2>3. pipe' \in Seq(S) /\ Len(pipe') = Len(pipe) - 1 /\ Len(pipe) \in Nat
    BY <2>1, <2>2, HeadTailProperties
  <2>4. Accounted'
    BY <2>1, <2>3, <1>1, <1>2 DEF Accounted, Forked
  <2>5. Forked'
    <3>1. j + 1 \in 0 .. numFiles
      BY <2>1, <1>2 DEF Forked
    <3> QED BY <3>1, <2>1, <1>1 DEF Forked
  <2> QED BY <2>3, <2>4, <2>5, <1>3
<1>6. CASE ReadEnd
  <2>1. /\ pipe = <<>> /\ writers = {} /\ pipe' = pipe /\ j < numFiles /\ j' = j + 1 /\ ppc' = ppc
    BY <1>6 DEF ReadEnd
  <2>2. \A c \in Files : cpc[c] \in {"done", "killed"}
    BY <2>1, <1>4 DEF Held
  <2>3. Forked'
    <3>1. j + 1 \in 0 .. numFiles
      BY <2>1, <1>2 DEF Forked
    <3> QED BY <3>1, <2>1, <1>1 DEF Forked
  <2> QED BY <2>1, <2>2, <2>3, <1>1, <1>3 DEF Accounted
<1>7. CASE Report
  <2>1. j = numFiles /\ ppc' = "done" /\ UNCHANGED <<pipe, j>>
    BY <1>7 DEF Report
  <2>2. Forked'
    BY <2>1, <1>1 DEF Forked
  <2> QED BY <2>1, <2>2, <1>1, <1>3 DEF Accounted
<1> QED
  BY <1>5, <1>6, <1>7

\* The children's steps, and the death of one.
LEMMA ChildKeepsPipeInv ==
  ASSUME PipeInv, NEW c \in Files, ChildStep(c) \/ Kill(c) PROVE PipeInv'
<1> USE DEF PipeInv
<1>1. /\ UNCHANGED <<text, ppc, i, j>> /\ Files' = Files /\ numFiles' = numFiles
      /\ \E p \in {"close", "write", "exit", "done", "killed"} : cpc' = [cpc EXCEPT ![c] = p]
      /\ cpc[c] \in {"count", "close", "write", "exit"}
      /\ readers' \subseteq readers
  BY DEF ChildStep, Count, CloseRead, Write, WriteKills, Exit, Kill, Files, numFiles
<1>2. Parent \notin Files /\ cpc \in [Files -> {"none", "count", "close", "write", "exit", "done", "killed"}]
  BY FilesAre DEF Forked
<1>3. Forked'
  <2>1. \A f \in Files : cpc'[f] # "none" <=> cpc[f] # "none"
    BY <1>1, <1>2
  <2>2. cpc' \in [Files -> {"none", "count", "close", "write", "exit", "done", "killed"}]
    BY <1>1, <1>2
  <2> QED BY <2>1, <2>2, <1>1 DEF Forked
<1>4. Held'
  <2>1. CASE Count(c) \/ CloseRead(c) \/ Write(c)
    <3>1. writers' = writers /\ cpc'[c] \in {"close", "write", "exit"}
          /\ \A f \in Files : f # c => cpc'[f] = cpc[f]
      BY <2>1, <1>2 DEF Count, CloseRead, Write
    <3> QED BY <3>1, <1>1 DEF Held
  <2>2. CASE WriteKills(c) \/ Exit(c) \/ Kill(c)
    <3>1. writers' = writers \ {c} /\ cpc'[c] \in {"done", "killed"}
          /\ \A f \in Files : f # c => cpc'[f] = cpc[f]
      BY <2>2, <1>2 DEF WriteKills, Exit, Kill
    <3> QED BY <3>1, <1>1 DEF Held
  <2> QED BY <2>1, <2>2 DEF ChildStep
<1>5. Accounted /\ cpc[c] \notin {"done", "killed"} => j + Len(pipe) = Cardinality(Wrote)
  BY DEF Accounted
<1>6. j + Len(pipe) = Cardinality(Wrote)
  BY <1>1, <1>5
<1>7. CASE Write(c)
  <2>1. cpc[c] = "write" /\ pipe' = Append(pipe, tmp[c]) /\ cpc' = [cpc EXCEPT ![c] = "exit"]
    BY <1>7 DEF Write
  <2>2. PICK S : pipe \in Seq(S)
    OBVIOUS
  <2>3. pipe \in Seq(S \cup {tmp[c]}) /\ tmp[c] \in S \cup {tmp[c]}
    BY <2>2
  <2>4. pipe' \in Seq(S \cup {tmp[c]}) /\ Len(pipe') = Len(pipe) + 1 /\ Len(pipe) \in Nat
    BY <2>1, <2>3, AppendProperties
  <2>5. Wrote' = Wrote \cup {c} /\ c \notin Wrote
    BY <2>1, <1>1, <1>2 DEF Wrote
  <2>6. Cardinality(Wrote') = Cardinality(Wrote) + 1
    BY <2>5, OneMoreWrote
  <2>7. j' + Len(pipe') = Cardinality(Wrote')
    BY <2>4, <2>6, <1>1, <1>6, FilesAre DEF Forked
  <2> QED BY <2>4, <2>7, <1>3, <1>4 DEF Accounted
<1>8. CASE Count(c) \/ CloseRead(c) \/ WriteKills(c) \/ Exit(c) \/ Kill(c)
  <2>1. /\ pipe' = pipe /\ (cpc[c] = "exit" <=> cpc'[c] = "done") /\ cpc'[c] # "exit"
        /\ \A f \in Files : f # c => cpc'[f] = cpc[f]
    BY <1>2, <1>8 DEF Count, CloseRead, WriteKills, Exit, Kill
  <2>2. Wrote' = Wrote
    BY <2>1, <1>1, <1>2 DEF Wrote
  <2> QED BY <2>1, <2>2, <1>1, <1>3, <1>4, <1>6 DEF Accounted
<1> QED
  BY <1>7, <1>8 DEF ChildStep

-----------------------------------------------------------------------------
(* The theorems.                                                           *)

\* The parent and the pipe keep step with the children that have written.
THEOREM PipeInvAlways == Spec => []PipeInv
<1>1. Init => PipeInv
  <2> SUFFICES ASSUME Init PROVE PipeInv
    OBVIOUS
  <2>1. PICK n \in 1 .. MAX_FILES : text \in [0 .. n - 1 -> Texts(MAX_SIZE - n)]
    BY DEF Init
  <2>2. Files = 0 .. n - 1 /\ n \in Nat
    BY <2>1, WordCountAssumption DEF Files
  <2>3. numFiles = n
    <3>1. Cardinality(0 .. n - 1) = n
      <4>1. 0 \in Int /\ n - 1 \in Int /\ 0 <= n - 1 /\ (n - 1) - 0 + 1 = n
        BY <2>1, <2>2
      <4> QED BY <4>1, FS_Interval
    <3> QED BY <3>1, <2>2 DEF numFiles
  <2>4. \A c \in Files : cpc[c] = "none"
    BY DEF Init
  <2>5. Forked
    <3>1. \A c \in Files : ~(c < 0)
      BY <2>2
    <3>2. 0 \in 0 .. numFiles
      BY <2>2, <2>3
    <3> QED BY <3>1, <3>2, <2>1, <2>2, <2>4 DEF Init, Forked
  <2>6. Held
    BY <2>4 DEF Init, Held
  <2>7. Accounted /\ <<>> \in Seq({})
    <3>1. Wrote = {}
      BY <2>4 DEF Wrote
    <3>2. Len(<<>>) = 0 /\ Cardinality({}) = 0
      BY FS_EmptySet
    <3>3. pipe = <<>> /\ j = 0
      BY DEF Init
    <3>4. j + Len(pipe) = Cardinality(Wrote)
      BY <3>1, <3>2, <3>3
    <3>5. <<>> \in Seq({})
      OBVIOUS
    <3> QED BY <3>4, <3>5 DEF Accounted
  <2> QED BY <2>5, <2>6, <2>7 DEF Init, PipeInv
<1>2. PipeInv /\ [Next]_vars => PipeInv'
  <2> SUFFICES ASSUME PipeInv, [Next]_vars PROVE PipeInv'
    OBVIOUS
  <2>1. CASE ParentStep
    BY <2>1, ForkingKeepsPipeInv, ReadingKeepsPipeInv DEF ParentStep
  <2>2. ASSUME NEW c \in Files, ChildStep(c) \/ Kill(c) PROVE PipeInv'
    BY <2>2, ChildKeepsPipeInv
  <2>3. CASE UNCHANGED vars
    BY <2>3 DEF vars, PipeInv, Forked, Held, Accounted, Wrote, Files, numFiles
  <2> QED BY <2>1, <2>2, <2>3 DEF Next
<1> QED
  BY <1>1, <1>2, PTL DEF Spec

\* Without a wait in the code, the parent reports only when every child has
\* written or died (wc_multi.c 118-139).
THEOREM ReportedLast == Spec => []ReportsLast
<1>1. PipeInv => ReportsLast
  <2> SUFFICES ASSUME PipeInv, ppc = "done", NEW c \in Files
               PROVE  cpc[c] \in {"exit", "done", "killed"}
    BY DEF ReportsLast
  <2>1. CASE j + Len(pipe) = Cardinality(Wrote)
    <3>1. j = numFiles /\ Len(pipe) \in Nat
      BY DEF PipeInv, Forked
    <3>2. Cardinality(Wrote) = numFiles
      BY <3>1, <2>1, FilesAre DEF PipeInv
    <3>3. c \in Wrote
      BY <3>2, FilesAre DEF PipeInv
    <3> QED BY <3>3 DEF Wrote
  <2> QED BY <2>1 DEF PipeInv, Accounted
<1> QED
  BY <1>1, PipeInvAlways, PTL

-----------------------------------------------------------------------------
(* What is counted, and that nothing of it is lost.                        *)

\* The children still to write, what each file counts, and the sum of those.
ToWrite == {c \in Files : cpc[c] \notin {"exit", "done"}}
FileCounts == [f \in Files |-> WordCount(text[f])]

\* Texts are texts and records records; a child that has counted holds the
\* count of its file.
Counted ==
  /\ \A f \in Files : text[f] \in Seq(Chars)
  /\ tmp \in [Files -> Counts]
  /\ \A c \in Files : cpc[c] \in {"close", "write", "exit", "done"} => tmp[c] = WordCount(text[c])
  /\ pipe \in Seq(Counts)
  /\ kk \in Records /\ count \in Records

\* While no child was killed, every record read or in the pipe is a child's
\* that has written, and nothing was lost.
Conserved ==
  (\A c \in Files : cpc[c] # "killed") =>
    /\ j + Len(pipe) = Cardinality(Wrote)
    /\ Add(count, Add(InPipe(pipe), Total(FileCounts, ToWrite))) = Total(FileCounts, Files)

CountInv == PipeInv /\ Counted /\ Conserved

\* A record that moves from a sum to the next leaves their sum as it was.
LEMMA AddMoves ==
  ASSUME NEW a \in Records, NEW b \in Records, NEW c \in Records, NEW x \in Records
  PROVE  /\ Add(a, Add(Add(x, b), c)) = Add(a, Add(b, Add(x, c)))
         /\ Add(Add(a, x), Add(b, c)) = Add(a, Add(Add(x, b), c))
  BY DEF Add, Records

\* What each file counts is a record, and so is the sum over some files.
LEMMA FileCountsAdd ==
  ASSUME CountInv
  PROVE  /\ IsFiniteSet(Files) /\ IsFiniteSet(ToWrite)
         /\ \A f \in Files : FileCounts[f] \in Counts /\ FileCounts[f] \in Records
         /\ Total(FileCounts, ToWrite) \in Records /\ Total(FileCounts, Files) \in Records
         /\ pipe \in Seq(Records)
<1>1. IsFiniteSet(Files) /\ ToWrite \subseteq Files
  BY FilesAre DEF CountInv, PipeInv, ToWrite
<1>2. IsFiniteSet(ToWrite)
  BY <1>1, FS_Subset
<1>3. \A f \in Files : FileCounts[f] \in Counts /\ FileCounts[f] \in Records
  BY WordCountType, AddAdds DEF CountInv, Counted, FileCounts
<1>4. Total(FileCounts, ToWrite) \in Records /\ Total(FileCounts, Files) \in Records
  BY <1>1, <1>2, <1>3, TotalStep
<1>5. pipe \in Seq(Records)
  BY AddAdds DEF CountInv, Counted
<1> QED
  BY <1>1, <1>2, <1>3, <1>4, <1>5

\* Before anything ran nothing was read and everything is to be written.
LEMMA InitHasCountInv ==
  ASSUME Init, PipeInv PROVE CountInv
<1>1. PICK n \in 1 .. MAX_FILES : text \in [0 .. n - 1 -> Texts(MAX_SIZE - n)]
  BY DEF Init
<1>2. \A f \in Files : text[f] \in Seq(Chars)
  <2> SUFFICES ASSUME NEW f \in Files PROVE text[f] \in Seq(Chars)
    OBVIOUS
  <2>1. text[f] \in Texts(MAX_SIZE - n)
    BY <1>1 DEF Files
  <2>2. PICK m \in 0 .. MAX_SIZE - n : text[f] \in [1 .. m -> Chars]
    BY <2>1 DEF Texts
  <2>3. m \in Nat
    BY <2>2
  <2> QED BY <2>2, <2>3, SeqDef
<1>3. /\ cpc = [f \in Files |-> "none"] /\ tmp = [f \in Files |-> ZeroCount]
      /\ pipe = <<>> /\ kk = ZeroCount /\ count = ZeroCount /\ j = 0
  BY DEF Init
<1>4. Counted
  <2>1. <<>> \in Seq(Counts)
    OBVIOUS
  <2> QED BY <1>2, <1>3, <2>1, AddAdds DEF Counted
<1>5. Wrote = {} /\ ToWrite = Files
  BY <1>3 DEF Wrote, ToWrite
<1>6. j + Len(pipe) = Cardinality(Wrote)
  <2>1. Len(<<>>) = 0 /\ Cardinality({}) = 0
    BY FS_EmptySet
  <2> QED BY <2>1, <1>3, <1>5
<1>7. Add(count, Add(InPipe(pipe), Total(FileCounts, ToWrite))) = Total(FileCounts, Files)
  <2>1. InPipe(pipe) = ZeroCount
    <3>1. <<>> \in Seq(Records)
      OBVIOUS
    <3> QED BY <3>1, <1>3, InPipeIsTotal
  <2>2. PICK s \in Records : s = Total(FileCounts, Files)
    <3>1. \A f \in Files : FileCounts[f] \in Records
      BY <1>2, WordCountType, AddAdds DEF FileCounts
    <3>2. IsFiniteSet(Files)
      BY FilesAre DEF PipeInv
    <3> QED BY <3>1, <3>2, TotalStep
  <2> QED BY <2>1, <2>2, <1>3, <1>5, AddAdds
<1> QED
  BY <1>4, <1>6, <1>7 DEF CountInv, Conserved

\* A step that leaves the pipe, what was read and the set of those that have
\* written keeps the sum.
LEMMA SameConserved ==
  ASSUME Conserved, UNCHANGED <<text, pipe, count, j>>, Wrote' = Wrote, ToWrite' = ToWrite,
         \A c \in Files : cpc[c] = "killed" => cpc'[c] = "killed"
  PROVE  Conserved'
<1>1. Files' = Files /\ FileCounts' = FileCounts
  BY DEF Files, FileCounts
<1> QED
  BY <1>1 DEF Conserved

\* The parent's steps.  A read that meets the end of the pipe adds what it did
\* not read, but only when a child was killed: else every record was read.
LEMMA ParentKeepsCounted ==
  ASSUME CountInv, ParentStep PROVE Counted' /\ Conserved'
<1> USE DEF CountInv
<1>1. text' = text /\ tmp' = tmp /\ Files' = Files /\ FileCounts' = FileCounts
  BY DEF ParentStep, MakePipe, PipeFails, Fork, ForkFails, CloseWrite, ReadRecord, ReadEnd,
         Report, Files, FileCounts
<1>2. CASE MakePipe \/ PipeFails \/ ForkFails \/ CloseWrite \/ Report
  <2>1. UNCHANGED <<cpc, pipe, kk, count, j>>
    BY <1>2 DEF MakePipe, PipeFails, ForkFails, CloseWrite, Report
  <2>2. Counted'
    BY <2>1, <1>1 DEF Counted
  <2>3. Wrote' = Wrote /\ ToWrite' = ToWrite
    BY <2>1, <1>1 DEF Wrote, ToWrite
  <2> QED BY <2>1, <2>2, <2>3, <1>1, SameConserved
<1>3. CASE Fork
  <2>1. /\ UNCHANGED <<pipe, kk, count, j>> /\ i < numFiles /\ cpc' = [cpc EXCEPT ![i] = "count"]
    BY <1>3 DEF Fork
  <2>2. i \in Files /\ cpc[i] = "none"
    BY <2>1, FilesAre DEF PipeInv, Forked
  <2>3. \A c \in Files : c # i => cpc'[c] = cpc[c]
    BY <2>1 DEF PipeInv, Forked
  <2>4. cpc'[i] = "count"
    BY <2>1, <2>2 DEF PipeInv, Forked
  <2>5. Counted'
    BY <2>1, <2>2, <2>3, <2>4, <1>1 DEF Counted
  <2>6. Wrote' = Wrote /\ ToWrite' = ToWrite
    BY <2>2, <2>3, <2>4, <1>1 DEF Wrote, ToWrite
  <2> QED BY <2>1, <2>2, <2>3, <2>4, <2>5, <2>6, <1>1, SameConserved
<1>4. CASE ReadRecord
  <2>1. /\ pipe # <<>> /\ kk' = Head(pipe) /\ pipe' = Tail(pipe)
        /\ count' = Add(count, kk') /\ j' = j + 1 /\ cpc' = cpc
    BY <1>4 DEF ReadRecord
  <2>2. pipe \in Seq(Counts) /\ pipe \in Seq(Records) /\ count \in Records
    BY FileCountsAdd DEF Counted
  <2>3. PICK x \in Counts, r \in Seq(Counts) : x = Head(pipe) /\ r = Tail(pipe) /\ Len(pipe) = Len(r) + 1
    <3>1. Head(pipe) \in Counts /\ Tail(pipe) \in Seq(Counts) /\ Len(Tail(pipe)) = Len(pipe) - 1
      BY <2>1, <2>2, HeadTailProperties
    <3>2. Len(pipe) \in Nat /\ Len(pipe) = Len(Tail(pipe)) + 1
      <4>1. PICK n \in Nat : n = Len(pipe)
        BY <2>2
      <4>2. (n - 1) + 1 = n
        OBVIOUS
      <4> QED BY <3>1, <4>1, <4>2
    <3> QED BY <3>1, <3>2, Zenon
  <2>4. x \in Records /\ r \in Seq(Records)
    BY <2>3, AddAdds
  <2>5. Counted'
    <3>1. Add(count, x) \in Records
      BY <2>2, <2>4, AddAdds
    <3> QED BY <3>1, <2>1, <2>3, <2>4, <1>1 DEF Counted
  <2>6. Wrote' = Wrote /\ ToWrite' = ToWrite
    BY <2>1, <1>1 DEF Wrote, ToWrite
  <2>7. Conserved'
    <3> SUFFICES ASSUME \A c \in Files : cpc[c] # "killed"
                 PROVE  /\ j' + Len(pipe') = Cardinality(Wrote')
                        /\ Add(count', Add(InPipe(pipe'), Total(FileCounts', ToWrite')))
                             = Total(FileCounts', Files')
      BY <2>1, <1>1 DEF Conserved
    <3>1. j' + Len(pipe') = Cardinality(Wrote')
      BY <2>1, <2>3, <2>6, FilesAre DEF Conserved, PipeInv, Forked
    <3>2. InPipe(pipe) = Add(x, InPipe(r)) /\ InPipe(r) \in Records
      BY <2>1, <2>2, <2>3, <2>4, InPipeTail, InPipeIsTotal
    <3>3. PICK u \in Records : u = Total(FileCounts, ToWrite)
      BY FileCountsAdd
    <3>4. Add(Add(count, x), Add(InPipe(r), u)) = Add(count, Add(InPipe(pipe), u))
      BY <3>2, <2>2, <2>4, AddMoves
    <3>5. Add(count, Add(InPipe(pipe), u)) = Total(FileCounts, Files)
      BY <3>3 DEF Conserved
    <3> QED BY <3>1, <3>3, <3>4, <3>5, <2>1, <2>3, <2>6, <1>1
  <2> QED BY <2>5, <2>7
<1>5. CASE ReadEnd
  <2>1. /\ ppc = "read" /\ j < numFiles /\ pipe = <<>> /\ writers = {} /\ pipe' = pipe /\ cpc' = cpc
        /\ kk' \in {kk} \cup Garbage /\ count' = Add(count, kk')
    BY <1>5 DEF ReadEnd
  <2>2. kk' \in Records /\ Add(count, kk') \in Records
    <3>1. kk' \in Records
      BY <2>1, WordCountAssumption DEF Counted
    <3> QED BY <3>1, AddAdds DEF Counted
  <2>3. Counted'
    BY <2>1, <2>2, <1>1 DEF Counted
  <2>4. ASSUME \A c \in Files : cpc[c] # "killed" PROVE FALSE
    <3>1. j + Len(pipe) = Cardinality(Wrote)
      BY <2>4 DEF Conserved
    <3>2. \A c \in Files : cpc[c] # "none"
      BY <2>1, FilesAre DEF PipeInv, Forked
    <3>3. \A c \in Files : cpc[c] = "done"
      BY <2>1, <2>4, <3>2 DEF PipeInv, Held
    <3>4. Wrote = Files
      BY <3>3 DEF Wrote
    <3>5. Len(pipe) = 0
      BY <2>1
    <3>6. j \in Nat
      BY FilesAre DEF PipeInv, Forked
    <3> QED BY <2>1, <3>1, <3>4, <3>5, <3>6 DEF numFiles
  <2> QED BY <2>1, <2>3, <2>4, <1>1 DEF Conserved
<1> QED
  BY <1>2, <1>3, <1>4, <1>5 DEF ParentStep

\* The children's steps: a write moves a count from those still to be written
\* to those in the pipe.
LEMMA ChildKeepsCounted ==
  ASSUME CountInv, NEW c \in Files, ChildStep(c) \/ Kill(c) PROVE Counted' /\ Conserved'
<1> USE DEF CountInv
<1>1. /\ UNCHANGED <<text, kk, count, j>> /\ Files' = Files /\ FileCounts' = FileCounts
  BY DEF ChildStep, Count, CloseRead, Write, WriteKills, Exit, Kill, Files, FileCounts
<1>2. cpc \in [Files -> {"none", "count", "close", "write", "exit", "done", "killed"}]
  BY DEF PipeInv, Forked
<1>3. CASE Write(c)
  <2>1. cpc[c] = "write" /\ pipe' = Append(pipe, tmp[c]) /\ cpc' = [cpc EXCEPT ![c] = "exit"] /\ tmp' = tmp
    BY <1>3 DEF Write
  <2>2. PICK x \in Counts : x = tmp[c] /\ x = FileCounts[c]
    BY <2>1 DEF Counted, FileCounts
  <2>3. PICK q \in Seq(Counts) : q = pipe
    BY DEF Counted
  <2>4. PICK r : r = Append(q, x) /\ r \in Seq(Counts) /\ Len(r) = Len(q) + 1
    BY AppendProperties
  <2>5. /\ cpc'[c] = "exit" /\ \A f \in Files : f # c => cpc'[f] = cpc[f]
    BY <2>1, <1>2
  <2>6. Counted'
    BY <2>1, <2>2, <2>3, <2>4, <2>5, <1>1 DEF Counted
  <2>7. /\ Wrote' = Wrote \cup {c} /\ c \notin Wrote
        /\ ToWrite' = ToWrite \ {c} /\ c \in ToWrite
    BY <2>1, <2>5, <1>1 DEF Wrote, ToWrite
  <2>8. Conserved'
    <3> SUFFICES ASSUME \A f \in Files : cpc'[f] # "killed"
                 PROVE  /\ j' + Len(pipe') = Cardinality(Wrote')
                        /\ Add(count', Add(InPipe(pipe'), Total(FileCounts', ToWrite')))
                             = Total(FileCounts', Files')
      BY <1>1 DEF Conserved
    <3>1. \A f \in Files : cpc[f] # "killed"
      BY <2>1, <2>5
    <3>2. /\ j + Len(q) = Cardinality(Wrote)
          /\ Add(count, Add(InPipe(q), Total(FileCounts, ToWrite))) = Total(FileCounts, Files)
      BY <3>1, <2>3 DEF Conserved
    <3>3. Cardinality(Wrote \cup {c}) = Cardinality(Wrote) + 1
      BY <2>7, OneMoreWrote DEF PipeInv
    <3>4. j' + Len(pipe') = Cardinality(Wrote')
      <4>1. Len(q) \in Nat /\ j \in Nat
        BY FilesAre DEF PipeInv, Forked
      <4> QED BY <4>1, <3>2, <3>3, <2>1, <2>2, <2>3, <2>4, <2>7, <1>1
    <3>5. InPipe(r) = Add(x, InPipe(q)) /\ InPipe(q) \in Records /\ x \in Records
      <4>1. q \in Seq(Records) /\ x \in Records
        BY AddAdds
      <4> QED BY <4>1, <2>4, InPipeAppend, InPipeIsTotal
    <3>6. Total(FileCounts, ToWrite) = Add(x, Total(FileCounts, ToWrite \ {c}))
      <4>1. \A f \in ToWrite : FileCounts[f] \in Records
        BY FileCountsAdd DEF ToWrite
      <4> QED BY <4>1, <2>2, <2>7, FileCountsAdd, TotalRemove
    <3>7. PICK u \in Records : u = Total(FileCounts, ToWrite \ {c})
      <4>1. IsFiniteSet(ToWrite \ {c}) /\ \A f \in ToWrite \ {c} : FileCounts[f] \in Records
        BY FileCountsAdd, FS_Subset DEF ToWrite
      <4> QED BY <4>1, TotalStep
    <3>8. Add(count, Add(Add(x, InPipe(q)), u)) = Add(count, Add(InPipe(q), Add(x, u)))
      BY <3>5, <3>7, AddMoves DEF Counted
    <3>9. Add(count, Add(InPipe(r), u)) = Total(FileCounts, Files)
      BY <3>2, <3>5, <3>6, <3>7, <3>8
    <3> QED BY <3>4, <3>7, <3>9, <2>1, <2>2, <2>3, <2>4, <2>7, <1>1
  <2> QED BY <2>6, <2>8
<1>4. CASE Count(c)
  <2>1. /\ cpc[c] = "count" /\ tmp' = [tmp EXCEPT ![c] = WordCount(text[c])]
        /\ cpc' = [cpc EXCEPT ![c] = "close"] /\ pipe' = pipe
    BY <1>4 DEF Count
  <2>2. PICK x \in Counts : x = WordCount(text[c])
    BY WordCountType DEF Counted
  <2>3. /\ cpc'[c] = "close" /\ \A f \in Files : f # c => cpc'[f] = cpc[f]
        /\ tmp'[c] = x /\ tmp' \in [Files -> Counts] /\ \A f \in Files : f # c => tmp'[f] = tmp[f]
    BY <2>1, <2>2, <1>2 DEF Counted
  <2>4. Counted'
    BY <2>1, <2>2, <2>3, <1>1 DEF Counted
  <2>5. Wrote' = Wrote /\ ToWrite' = ToWrite
    BY <2>1, <2>3, <1>1 DEF Wrote, ToWrite
  <2> QED BY <2>1, <2>3, <2>4, <2>5, <1>1, SameConserved
<1>5. CASE CloseRead(c) \/ Exit(c)
  <2>1. /\ UNCHANGED <<tmp, pipe>>
        /\ \E p \in {"write", "done"} : cpc' = [cpc EXCEPT ![c] = p]
        /\ cpc[c] \in {"close", "exit"} /\ (cpc[c] = "exit" <=> cpc'[c] = "done")
    BY <1>5, <1>2 DEF CloseRead, Exit
  <2>2. /\ cpc'[c] \in {"write", "done"} /\ \A f \in Files : f # c => cpc'[f] = cpc[f]
    BY <2>1, <1>2
  <2>3. Counted'
    <3>1. \A f \in Files : cpc'[f] \in {"close", "write", "exit", "done"}
                            => cpc[f] \in {"close", "write", "exit", "done"}
      BY <2>1, <2>2
    <3> QED BY <3>1, <2>1, <1>1 DEF Counted
  <2>4. Wrote' = Wrote /\ ToWrite' = ToWrite
    BY <2>1, <2>2, <1>1 DEF Wrote, ToWrite
  <2> QED BY <2>1, <2>2, <2>3, <2>4, <1>1, SameConserved
<1>6. CASE WriteKills(c) \/ Kill(c)
  <2>1. UNCHANGED <<tmp, pipe>> /\ cpc' = [cpc EXCEPT ![c] = "killed"]
    BY <1>6 DEF WriteKills, Kill
  <2>2. cpc'[c] = "killed" /\ \A f \in Files : f # c => cpc'[f] = cpc[f]
    BY <2>1, <1>2
  <2>3. Counted'
    BY <2>1, <2>2, <1>1 DEF Counted
  <2> QED BY <2>2, <2>3, <1>1 DEF Conserved
<1> QED
  BY <1>3, <1>4, <1>5, <1>6 DEF ChildStep

\* The invariant of the counting.
THEOREM CountInvAlways == Spec => []CountInv
<1>1. Init /\ PipeInv => CountInv
  BY InitHasCountInv
<1>2. CountInv /\ PipeInv' /\ [Next]_vars => CountInv'
  <2> SUFFICES ASSUME CountInv, PipeInv', [Next]_vars PROVE Counted' /\ Conserved'
    BY DEF CountInv
  <2>1. CASE ParentStep
    BY <2>1, ParentKeepsCounted
  <2>2. ASSUME NEW c \in Files, ChildStep(c) \/ Kill(c) PROVE Counted' /\ Conserved'
    BY <2>2, ChildKeepsCounted
  <2>3. CASE UNCHANGED vars
    <3>1. UNCHANGED <<text, cpc, tmp, pipe, kk, count, j>>
      BY <2>3 DEF vars
    <3>2. Wrote' = Wrote /\ ToWrite' = ToWrite /\ Files' = Files
      BY <3>1 DEF Wrote, ToWrite, Files
    <3>3. Counted'
      BY <3>1, <3>2 DEF CountInv, Counted
    <3> QED BY <3>1, <3>2, <3>3, SameConserved DEF CountInv
  <2> QED BY <2>1, <2>2, <2>3 DEF Next
<1> QED
  BY <1>1, <1>2, PipeInvAlways, PTL DEF Spec

\* Types; the parent stays within its loops, the pipe never holds more records
\* than files, and a process that lives holds its end of the pipe.
THEOREM TypesKept == Spec => []TypeOK
<1>1. CountInv => TypeOK
  <2> SUFFICES ASSUME CountInv PROVE TypeOK
    OBVIOUS
  <2>1. Len(pipe) <= numFiles
    <3>1. Len(pipe) \in Nat /\ j \in Nat /\ numFiles \in Nat /\ numFiles >= 0
      BY FilesAre DEF CountInv, Counted, PipeInv, Forked
    <3>2. CASE pipe = <<>>
      <4>1. Len(<<>>) = 0
        OBVIOUS
      <4> QED BY <4>1, <3>1, <3>2
    <3>3. CASE j + Len(pipe) = Cardinality(Wrote)
      <4>1. Cardinality(Wrote) \in 0 .. numFiles
        BY FilesAre DEF CountInv, PipeInv
      <4> QED BY <4>1, <3>1, <3>3
    <3> QED BY <3>2, <3>3 DEF CountInv, PipeInv, Accounted
  <2> QED BY <2>1 DEF CountInv, PipeInv, Forked, Held, Counted, TypeOK
<1> QED
  BY <1>1, CountInvAlways, PTL

\* While no child was killed and no call failed, what the parent has added, what
\* is in the pipe and what is still to be written make up the files
\* (wc_multi.c 64-139).
THEOREM CountsAlwaysConserved == Spec => []CountsConserved
<1>1. CountInv => CountsConserved
  BY DEF CountInv, Conserved, CountsConserved, SumOf, Total, InPipe, FileCounts, ToWrite
<1> QED
  BY <1>1, CountInvAlways, PTL

\* On a tidy text a child's record holds its lines, words and letters, however
\* long the text is (wc_multi.c 21-60).
THEOREM TidyTextsCounted == Spec => []CountsWords
<1>1. CountInv => CountsWords
  <2> SUFFICES ASSUME CountInv, NEW c \in Files,
                      cpc[c] \in {"close", "write", "exit", "done"}, Tidy(text[c])
               PROVE  tmp[c] = [lines |-> 1 + Cardinality({k \in 1 .. Len(text[c]) : text[c][k] = "newline"}),
                                words |-> Cardinality({k \in 1 .. Len(text[c]) :
                                            /\ text[c][k] = "letter"
                                            /\ k = 1 \/ text[c][k - 1] \in Separators}),
                                chars |-> Cardinality({k \in 1 .. Len(text[c]) : text[c][k] = "letter"})]
    BY DEF CountsWords
  <2>1. text[c] \in Seq(Chars) /\ tmp[c] = WordCount(text[c])
    BY DEF CountInv, Counted
  <2> QED BY <2>1, TidyCounted
<1> QED
  BY <1>1, CountInvAlways, PTL
=============================================================================
