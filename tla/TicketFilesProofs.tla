-------------------------- MODULE TicketFilesProofs --------------------------
(***************************************************************************)
(* Proofs about MarkdownFormat and TicketFiles: for texts of any length,   *)
(* with any number of comments in a file.                                  *)
(***************************************************************************)
EXTENDS TicketFiles, TicketStoreProofs, SequenceTheorems, FiniteSetTheorems

(***************************************************************************)
(* The least and the greatest of some numbers.                             *)
(***************************************************************************)

\* A non-empty set of numbers has a least one.
LEMMA LeastExists ==
    ASSUME NEW I \in SUBSET Nat, I # {}
    PROVE  \E m \in I : \A i \in I : m <= i
  <1>1. PICK m \in I : \A i \in I : ~ (<<i, m>> \in OpToRel(<, Nat))
    BY NatLessThanWellFounded, WFMin
  <1>2. \A i \in I : ~ (i < m)
    BY <1>1 DEF OpToRel
  <1> QED BY <1>2

LEMMA MinIsLeast ==
    ASSUME NEW I \in SUBSET Nat, I # {}
    PROVE  SX!Min(I) \in I /\ \A i \in I : SX!Min(I) <= i
  BY LeastExists DEF SX!Min

\* A finite set of numbers has a greatest one.
LEMMA MaxIsGreatest ==
    ASSUME NEW n \in Nat, NEW I \in SUBSET (1..n), I # {}
    PROVE  SX!Max(I) \in I /\ \A i \in I : SX!Max(I) >= i
  <1> DEFINE J == {n - i : i \in I}
  <1>1. PICK m \in J : \A j \in J : m <= j
    <2>1. \A i \in I : n - i \in Nat
      OBVIOUS
    <2>2. J \subseteq Nat
      BY <2>1
    <2>3. J # {}
      OBVIOUS
    <2> HIDE DEF J
    <2> QED BY <2>2, <2>3, LeastExists
  <1>2. PICK k \in I : m = n - k
    OBVIOUS
  <1>3. \A i \in I : k >= i
    <2> SUFFICES ASSUME NEW i \in I PROVE k >= i
      OBVIOUS
    <2>1. n - k <= n - i
      BY <1>1, <1>2
    <2> QED BY <2>1
  <1> QED BY <1>2, <1>3 DEF SX!Max

\* The first line of a kind is of the kind, and no line before it is.
LEMMA FirstLineIs ==
    ASSUME NEW S, NEW lines \in Seq(S), NEW kind
    PROVE  LET f == FirstLine(lines, kind)
           IN  /\ f \in 0..Len(lines)
               /\ f = 0 => \A i \in 1..Len(lines) : lines[i].is # kind
               /\ f # 0 => lines[f].is = kind /\ \A i \in 1..(f - 1) : lines[i].is # kind
  <1> DEFINE I == {i \in 1..Len(lines) : lines[i].is = kind}
  <1>1. FirstLine(lines, kind) = IF I # {} THEN SX!Min(I) ELSE 0
    BY DEF FirstLine, SX!SelectInSeq
  <1>2. Len(lines) \in Nat
    OBVIOUS
  <1>3. CASE I = {}
    BY <1>1, <1>2, <1>3
  <1>4. CASE I # {}
    <2>1. SX!Min(I) \in I /\ \A i \in I : SX!Min(I) <= i
      BY <1>4, MinIsLeast, I \in SUBSET Nat
    <2>2. PICK f : f = FirstLine(lines, kind)
      OBVIOUS
    <2>3. f \in I /\ \A i \in I : f <= i
      BY <1>1, <1>4, <2>1, <2>2
    <2>4. /\ f \in 1..Len(lines) /\ lines[f].is = kind
          /\ \A i \in 1..(f - 1) : lines[i].is # kind
      BY <1>2, <2>3
    <2> QED BY <1>2, <2>2, <2>4
  <1> QED BY <1>3, <1>4

\* A line of the kind with none before it is the first.
LEMMA FirstLineAt ==
    ASSUME NEW S, NEW lines \in Seq(S), NEW kind, NEW f \in 1..Len(lines),
           lines[f].is = kind, \A i \in 1..(f - 1) : lines[i].is # kind
    PROVE  FirstLine(lines, kind) = f
  <1> DEFINE g == FirstLine(lines, kind)
  <1>1. /\ g \in 0..Len(lines)
        /\ g = 0 => \A i \in 1..Len(lines) : lines[i].is # kind
        /\ g # 0 => lines[g].is = kind /\ \A i \in 1..(g - 1) : lines[i].is # kind
    BY FirstLineIs
  <1> HIDE DEF g
  <1>2. g # 0
    BY <1>1
  <1>3. ~ (g < f) /\ ~ (f < g)
    BY <1>1, <1>2
  <1> QED BY <1>1, <1>3 DEF g

\* If there is a line of the kind, the first one comes no later.
LEMMA FirstLineUpTo ==
    ASSUME NEW S, NEW lines \in Seq(S), NEW kind, NEW i \in 1..Len(lines), lines[i].is = kind
    PROVE  /\ FirstLine(lines, kind) \in 1..Len(lines) /\ FirstLine(lines, kind) # 0
           /\ FirstLine(lines, kind) <= i
  <1> DEFINE f == FirstLine(lines, kind)
  <1>1. /\ f \in 0..Len(lines)
        /\ f = 0 => \A k \in 1..Len(lines) : lines[k].is # kind
        /\ f # 0 => lines[f].is = kind /\ \A k \in 1..(f - 1) : lines[k].is # kind
    BY FirstLineIs
  <1> HIDE DEF f
  <1>2. f # 0 /\ ~ (i < f)
    BY <1>1
  <1>3. f \in 1..Len(lines) /\ f <= i
    BY <1>1, <1>2
  <1> QED BY <1>2, <1>3 DEF f

-----------------------------------------------------------------------------
\* Between blank lines, a text that neither starts nor ends with one is what
\* remains.
LEMMA TrimTo ==
    ASSUME NEW S, NEW lines \in Seq(S), NEW a \in 1..Len(lines), NEW b \in 1..Len(lines),
           lines[a] # Blank, lines[b] # Blank,
           \A i \in 1..Len(lines) : i < a \/ i > b => lines[i] = Blank
    PROVE  Trim(lines) = SubSeq(lines, a, b)
  <1> DEFINE I == {i \in 1..Len(lines) : lines[i] # Blank}
  <1>1. Trim(lines) = LET f == IF I # {} THEN SX!Min(I) ELSE 0
                         l == IF I # {} THEN SX!Max(I) ELSE 0
                     IN  IF f = 0 THEN <<>> ELSE SubSeq(lines, f, l)
    BY DEF Trim, SX!SelectInSeq, SX!SelectLastInSeq
  <1>2. a \in I /\ b \in I /\ (\A i \in I : a <= i /\ i <= b) /\ Len(lines) \in Nat
    OBVIOUS
  <1>3. I \in SUBSET Nat /\ I \in SUBSET (1..Len(lines)) /\ I # {}
    BY <1>2
  <1> HIDE DEF I
  <1>4. SX!Min(I) = a
    <2>1. PICK m : m = SX!Min(I)
      OBVIOUS
    <2>2. m \in I /\ \A i \in I : m <= i
      BY <1>3, <2>1, MinIsLeast
    <2>3. m \in Nat /\ a \in Nat /\ m <= a /\ a <= m
      BY <1>2, <1>3, <2>2
    <2> QED BY <2>1, <2>3
  <1>5. SX!Max(I) = b
    <2>1. PICK m : m = SX!Max(I)
      OBVIOUS
    <2>2. m \in I /\ \A i \in I : m >= i
      BY <1>2, <1>3, <2>1, MaxIsGreatest
    <2>3. m \in Nat /\ b \in Nat /\ m <= b /\ b <= m
      BY <1>2, <1>3, <2>2
    <2> QED BY <2>1, <2>3
  <1> QED BY <1>1, <1>3, <1>4, <1>5

\* Of blank lines nothing remains.
LEMMA TrimBlank ==
    ASSUME NEW S, NEW lines \in Seq(S), \A i \in 1..Len(lines) : lines[i] = Blank
    PROVE  Trim(lines) = <<>>
  <1>1. {i \in 1..Len(lines) : lines[i] # Blank} = {}
    OBVIOUS
  <1> QED BY <1>1 DEF Trim, SX!SelectInSeq

\* Trimming a trimmed text that stands between blank lines gives the text.
LEMMA TrimPadded ==
    ASSUME NEW S, NEW s \in Seq(S), NEW u \in Seq(S), NEW n \in Nat, Trimmed(u),
           n + Len(u) <= Len(s), \A i \in 1..Len(u) : s[n + i] = u[i],
           \A i \in 1..Len(s) : i <= n \/ i > n + Len(u) => s[i] = Blank
    PROVE  Trim(s) = u
  <1>1. Len(s) \in Nat /\ Len(u) \in Nat
    OBVIOUS
  <1>2. CASE u = <<>>
    <2>1. Len(u) = 0
      BY <1>2
    <2>2. \A i \in 1..Len(s) : s[i] = Blank
      BY <1>1, <2>1
    <2> QED BY <1>2, <2>2, TrimBlank
  <1>3. CASE u # <<>>
    <2>1. Len(u) > 0
      BY <1>1, <1>3, EmptySeq
    <2>2. Trim(s) = SubSeq(s, n + 1, n + Len(u))
      <3>1. n + 1 \in 1..Len(s) /\ n + Len(u) \in 1..Len(s)
        BY <1>1, <2>1
      <3>2. s[n + 1] # Blank /\ s[n + Len(u)] # Blank
        BY <1>1, <1>3, <2>1 DEF Trimmed
      <3>3. \A i \in 1..Len(s) : i < n + 1 \/ i > n + Len(u) => s[i] = Blank
        BY <1>1
      <3> QED BY <3>1, <3>2, <3>3, TrimTo
    <2> DEFINE t == SubSeq(s, n + 1, n + Len(u))
    <2>3. t \in Seq(S) /\ Len(t) = Len(u) /\ \A i \in 1..Len(t) : t[i] = u[i]
      <3>1. \A i \in (n + 1)..(n + Len(u)) : s[i] \in S
        BY <1>1, <2>1
      <3>2. /\ t \in Seq(S) /\ Len(t) = Len(u)
            /\ \A i \in 1..Len(u) : t[i] = s[n + i]
        BY <1>1, <2>1, <3>1, SubSeqProperties, n + 1 \in Int, n + Len(u) \in Int
      <3> QED BY <3>2
    <2> HIDE DEF t
    <2>4. t = u
      BY <2>3, SeqEqual
    <2> QED BY <2>2, <2>4 DEF t
  <1> QED BY <1>2, <1>3

\* Blank lines at the end do not show.
LEMMA TrimSame ==
    ASSUME NEW S, NEW s \in Seq(S), NEW t \in Seq(S), Len(s) <= Len(t),
           \A i \in 1..Len(s) : t[i] = s[i],
           \A i \in 1..Len(t) : i > Len(s) => t[i] = Blank
    PROVE  Trim(t) = Trim(s)
  <1> DEFINE I == {i \in 1..Len(s) : s[i] # Blank}
             J == {i \in 1..Len(t) : t[i] # Blank}
  <1>1. Len(s) \in Nat /\ Len(t) \in Nat
    OBVIOUS
  <1>2. I = J
    BY <1>1
  <1>3. CASE I = {}
    BY <1>2, <1>3, TrimBlank
  <1>4. CASE I # {}
    <2>1. PICK a \in I : \A i \in I : a <= i
      <3>1. I \in SUBSET Nat
        OBVIOUS
      <3> HIDE DEF I
      <3> QED BY <1>4, <3>1, LeastExists
    <2>2. PICK b \in I : \A i \in I : b >= i
      <3>1. I \in SUBSET (1..Len(s))
        OBVIOUS
      <3> HIDE DEF I
      <3> QED BY <1>1, <1>4, <3>1, MaxIsGreatest
    <2>3. Trim(s) = SubSeq(s, a, b)
      <3>1. \A i \in 1..Len(s) : i < a \/ i > b => s[i] = Blank
        BY <2>1, <2>2
      <3> QED BY <2>1, <2>2, <3>1, TrimTo
    <2>4. Trim(t) = SubSeq(t, a, b)
      <3>1. \A i \in 1..Len(t) : i < a \/ i > b => t[i] = Blank
        BY <1>2, <2>1, <2>2
      <3>2. a \in J /\ b \in J
        BY <1>2, <2>1, <2>2
      <3> QED BY <3>1, <3>2, TrimTo
    <2>5. SubSeq(s, a, b) = SubSeq(t, a, b)
      <3>1. a \in 1..Len(s) /\ b \in 1..Len(s) /\ a <= b
        BY <2>1, <2>2
      <3>2. \A i \in a..b : s[i] \in S /\ t[i] = s[i]
        BY <3>1
      <3>3. PICK n \in Nat : n = b - a + 1
        BY <3>1
      <3>4. /\ SubSeq(s, a, b) \in Seq(S) /\ Len(SubSeq(s, a, b)) = n
            /\ \A i \in 1..n : SubSeq(s, a, b)[i] = s[a + i - 1]
        BY <3>1, <3>2, <3>3, SubSeqProperties
      <3>5. /\ SubSeq(t, a, b) \in Seq(S) /\ Len(SubSeq(t, a, b)) = n
            /\ \A i \in 1..n : SubSeq(t, a, b)[i] = t[a + i - 1]
        BY <3>1, <3>2, <3>3, SubSeqProperties
      <3>6. \A i \in 1..n : t[a + i - 1] = s[a + i - 1]
        <4>1. \A i \in 1..n : a + i - 1 \in a..b
          BY <3>1, <3>3
        <4> QED BY <3>2, <4>1
      <3>7. PICK p, q \in Seq(S) : p = SubSeq(s, a, b) /\ q = SubSeq(t, a, b)
        BY <3>4, <3>5
      <3>8. p = q
        BY <3>4, <3>5, <3>6, <3>7, SeqEqual
      <3> QED BY <3>7, <3>8
    <2> QED BY <2>3, <2>4, <2>5
  <1> QED BY <1>3, <1>4

-----------------------------------------------------------------------------
\* A line number k says how many of the numbers H are at most k.
Rank(H, n) == Cardinality({j \in H : j <= n})

\* Line numbers are finitely many.
LEMMA NumbersFinite ==
    ASSUME NEW m \in Nat, NEW H, H \subseteq 1..m
    PROVE  IsFiniteSet(H) /\ Cardinality(H) \in Nat
  <1>1. IsFiniteSet(1..m)
    BY FS_Interval, 1 \in Int, m \in Int
  <1>2. H \in SUBSET (1..m)
    OBVIOUS
  <1>3. IsFiniteSet(H)
    BY <1>1, <1>2, FS_Subset
  <1> QED BY <1>3, FS_CardinalityType

\* One more number counts at most one more.
LEMMA RankGrows ==
    ASSUME NEW m \in Nat, NEW H \in SUBSET (1..m), NEW n \in Nat
    PROVE  /\ Rank(H, n) \in Nat
           /\ Rank(H, n + 1) = IF n + 1 \in H THEN Rank(H, n) + 1 ELSE Rank(H, n)
  <1> DEFINE A == {j \in H : j <= n}
  <1>1. IsFiniteSet(A)
    <2>1. A \subseteq 1..m
      OBVIOUS
    <2> QED BY <2>1, NumbersFinite
  <1>2. {j \in H : j <= n + 1} = IF n + 1 \in H THEN A \cup {n + 1} ELSE A
    <2>1. \A j \in H : j <= n + 1 <=> j <= n \/ j = n + 1
      OBVIOUS
    <2> QED BY <2>1
  <1>3. n + 1 \notin A
    OBVIOUS
  <1> HIDE DEF A
  <1>4. Cardinality(A) \in Nat /\ Cardinality(A \cup {n + 1}) = Cardinality(A) + 1
    BY <1>1, <1>3, FS_AddElement, FS_CardinalityType
  <1> QED BY <1>2, <1>4 DEF Rank, A

\* The k-th of some numbers is one of them.
LEMMA NthExists ==
    ASSUME NEW m \in Nat, NEW H \in SUBSET (1..m), NEW k \in 1..Cardinality(H)
    PROVE  Nth(H, k) \in H /\ Rank(H, Nth(H, k)) = k
  <1> DEFINE I == {n \in Nat : Rank(H, n) >= k}
  <1>1. I # {}
    <2>1. \A j \in H : j <= m
      OBVIOUS
    <2>2. {j \in H : j <= m} = H
      BY <2>1
    <2>3. Rank(H, m) >= k
      BY <2>2, NumbersFinite DEF Rank
    <2> QED BY <2>3
  <1>2. PICK n \in I : \A i \in I : n <= i
    <2> HIDE DEF I
    <2>1. I \in SUBSET Nat
      BY DEF I
    <2> QED BY <1>1, <2>1, LeastExists
  <1>3. Rank(H, 0) = 0
    <2>1. \A j \in H : ~ (j <= 0)
      OBVIOUS
    <2>2. {j \in H : j <= 0} = {}
      BY <2>1
    <2> QED BY <2>2, FS_EmptySet DEF Rank
  <1>4. n # 0
    BY <1>3
  <1>5. n - 1 \in Nat /\ ~ (Rank(H, n - 1) >= k)
    BY <1>2, <1>4
  <1>6. /\ Rank(H, n - 1) \in Nat
        /\ Rank(H, n) = IF n \in H THEN Rank(H, n - 1) + 1 ELSE Rank(H, n - 1)
    <2> DEFINE p == n - 1
    <2>1. p \in Nat /\ p + 1 = n
      BY <1>5
    <2>2. /\ Rank(H, p) \in Nat
          /\ Rank(H, p + 1) = IF p + 1 \in H THEN Rank(H, p) + 1 ELSE Rank(H, p)
      <3> HIDE DEF p
      <3> QED BY <2>1, RankGrows
    <2> QED BY <2>1, <2>2
  <1>7. n \in H /\ Rank(H, n) = k
    <2>1. Rank(H, n) >= k /\ k \in Int
      OBVIOUS
    <2> QED BY <1>5, <1>6, <2>1
  <1>8. \E i \in H : Cardinality({j \in H : j <= i}) = k
    BY <1>7 DEF Rank
  <1> QED BY <1>8 DEF Nth, Rank

-----------------------------------------------------------------------------
\* The lines from a line on.
LEMMA FromIs ==
    ASSUME NEW S, NEW s \in Seq(S), NEW i \in 1..(Len(s) + 1)
    PROVE  /\ From(s, i) \in Seq(S)
           /\ Len(From(s, i)) = Len(s) - i + 1
           /\ \A j \in 1..(Len(s) - i + 1) : From(s, i)[j] = s[i + j - 1]
  <1>1. Len(s) \in Int /\ i \in Int /\ \A j \in i..Len(s) : s[j] \in S
    OBVIOUS
  <1> QED BY <1>1, SubSeqProperties DEF From

\* The lines before a line.
LEMMA BeforeIs ==
    ASSUME NEW S, NEW s \in Seq(S), NEW i \in 1..Len(s)
    PROVE  /\ Before(s, i) \in Seq(S)
           /\ Len(Before(s, i)) = i - 1
           /\ \A j \in 1..(i - 1) : Before(s, i)[j] = s[j]
  <1>1. 1 \in Int /\ i - 1 \in Int /\ i # 0 /\ \A j \in 1..(i - 1) : s[j] \in S
    OBVIOUS
  <1>2. /\ SubSeq(s, 1, i - 1) \in Seq(S)
        /\ Len(SubSeq(s, 1, i - 1)) = IF 1 <= i - 1 THEN (i - 1) - 1 + 1 ELSE 0
        /\ \A j \in 1..((i - 1) - 1 + 1) : SubSeq(s, 1, i - 1)[j] = s[1 + j - 1]
    BY <1>1, SubSeqProperties
  <1> QED BY <1>1, <1>2 DEF Before

\* t starts with the lines of s.
Continues(t, s) == Len(s) <= Len(t) /\ \A i \in 1..Len(s) : t[i] = s[i]

\* What is there is found in the same place when the text goes on.
LEMMA ContinuesFrom ==
    ASSUME NEW S, NEW s \in Seq(S), NEW t \in Seq(S), Continues(t, s),
           NEW i \in 1..(Len(s) + 1)
    PROVE  Continues(From(t, i), From(s, i))
  <1>1. i \in 1..(Len(t) + 1)
    BY DEF Continues
  <1>2. /\ Len(From(s, i)) = Len(s) - i + 1 /\ Len(From(t, i)) = Len(t) - i + 1
        /\ \A j \in 1..(Len(s) - i + 1) : From(s, i)[j] = s[i + j - 1]
        /\ \A j \in 1..(Len(t) - i + 1) : From(t, i)[j] = t[i + j - 1]
    BY <1>1, FromIs
  <1> QED BY <1>2 DEF Continues

LEMMA ContinuesFirst ==
    ASSUME NEW S, NEW s \in Seq(S), NEW t \in Seq(S), Continues(t, s), NEW kind,
           FirstLine(s, kind) # 0
    PROVE  FirstLine(t, kind) = FirstLine(s, kind)
  <1> DEFINE f == FirstLine(s, kind)
  <1>1. f \in 1..Len(s) /\ s[f].is = kind /\ \A i \in 1..(f - 1) : s[i].is # kind
    BY FirstLineIs
  <1>2. f \in 1..Len(t) /\ t[f].is = kind /\ \A i \in 1..(f - 1) : t[i].is # kind
    <2> HIDE DEF f
    <2> QED BY <1>1 DEF Continues
  <1> QED BY <1>2, FirstLineAt

LEMMA ContinuesBefore ==
    ASSUME NEW S, NEW s \in Seq(S), NEW t \in Seq(S), Continues(t, s), NEW i \in 1..Len(s)
    PROVE  Before(t, i) = Before(s, i)
  <1>1. i \in 1..Len(t)
    BY DEF Continues
  <1>2. /\ Before(s, i) \in Seq(S) /\ Before(t, i) \in Seq(S)
        /\ Len(Before(s, i)) = i - 1 /\ Len(Before(t, i)) = i - 1
        /\ \A j \in 1..(i - 1) : Before(s, i)[j] = s[j] /\ Before(t, i)[j] = t[j]
    BY <1>1, BeforeIs
  <1>3. \A j \in 1..(i - 1) : Before(t, i)[j] = Before(s, i)[j]
    BY <1>2 DEF Continues
  <1> QED BY <1>2, <1>3, SeqEqual

-----------------------------------------------------------------------------
\* t is s with a comment of the author and the words u at its end.
Appended(t, s, by, u) ==
    /\ Continues(t, s)
    /\ Len(t) = Len(s) + 3 + Len(u)
    /\ t[Len(s) + 1] = Blank
    /\ t[Len(s) + 2] = CommentHeader(by)
    /\ t[Len(s) + 3] = Blank
    /\ \A i \in 1..Len(u) : t[Len(s) + 3 + i] = u[i]

\* Two texts, one after the other.
LEMMA ConcatIs ==
    ASSUME NEW S, NEW s \in Seq(S), NEW u \in Seq(S)
    PROVE  /\ s \o u \in Seq(S) /\ Len(s \o u) = Len(s) + Len(u) /\ Continues(s \o u, s)
           /\ \A i \in 1..Len(u) : (s \o u)[Len(s) + i] = u[i]
  <1>1. Len(s) \in Nat /\ Len(u) \in Nat
    OBVIOUS
  <1>2. /\ s \o u \in Seq(S) /\ Len(s \o u) = Len(s) + Len(u)
        /\ \A i \in 1..(Len(s) + Len(u)) : (s \o u)[i] = IF i <= Len(s) THEN s[i] ELSE u[i - Len(s)]
    BY ConcatProperties
  <1>3. Continues(s \o u, s)
    BY <1>1, <1>2 DEF Continues
  <1>4. \A i \in 1..Len(u) : (s \o u)[Len(s) + i] = u[i]
    <2> SUFFICES ASSUME NEW i \in 1..Len(u) PROVE (s \o u)[Len(s) + i] = u[i]
      OBVIOUS
    <2>1. /\ Len(s) + i \in 1..(Len(s) + Len(u)) /\ ~ (Len(s) + i <= Len(s))
          /\ (Len(s) + i) - Len(s) = i
      BY <1>1
    <2> QED BY <1>2, <2>1
  <1> QED BY <1>2, <1>3, <1>4

\* A comment starts with three lines of its own.
LEMMA AppendedIs ==
    ASSUME NEW S, NEW s \in Seq(S), NEW c, c.text \in Seq(S), Blank \in S, CommentHeader(c.by) \in S
    PROVE  /\ AppendComment(s, c) \in Seq(S)
           /\ Appended(AppendComment(s, c), s, c.by, c.text)
  <1>1. PICK h \in Seq(S) : h = <<Blank, CommentHeader(c.by), Blank>>
    <2>1. <<Blank, CommentHeader(c.by), Blank>> \in Seq(S)
      OBVIOUS
    <2> QED BY <2>1
  <1>2. PICK u \in Seq(S) : u = c.text
    OBVIOUS
  <1>3. PICK v \in Seq(S) : v = h \o u
    BY ConcatIs
  <1>4. PICK t \in Seq(S) : t = s \o v
    BY ConcatIs
  <1>5. t = AppendComment(s, c)
    BY <1>1, <1>2, <1>3, <1>4 DEF AppendComment, FormatComment
  <1>6. /\ Len(v) = 3 + Len(u) /\ \A i \in 1..3 : v[i] = h[i]
        /\ \A i \in 1..Len(u) : v[3 + i] = u[i]
    <2>1. Len(h) = 3
      BY <1>1
    <2>2. /\ Len(h \o u) = Len(h) + Len(u) /\ Continues(h \o u, h)
          /\ \A i \in 1..Len(u) : (h \o u)[Len(h) + i] = u[i]
      BY ConcatIs
    <2> QED BY <1>3, <2>1, <2>2 DEF Continues
  <1>7. /\ Len(t) = Len(s) + Len(v) /\ Continues(t, s)
        /\ \A i \in 1..Len(v) : t[Len(s) + i] = v[i]
    <2>1. /\ Len(s \o v) = Len(s) + Len(v) /\ Continues(s \o v, s)
          /\ \A i \in 1..Len(v) : (s \o v)[Len(s) + i] = v[i]
      BY ConcatIs
    <2> QED BY <1>4, <2>1
  <1>8. Len(s) \in Nat /\ Len(u) \in Nat
    OBVIOUS
  <1>9. t[Len(s) + 1] = Blank /\ t[Len(s) + 2] = CommentHeader(c.by) /\ t[Len(s) + 3] = Blank
    <2>1. \A i \in 1..3 : t[Len(s) + i] = h[i]
      BY <1>6, <1>7, <1>8
    <2> QED BY <1>1, <2>1
  <1>10. \A i \in 1..Len(u) : t[Len(s) + 3 + i] = u[i]
    <2> SUFFICES ASSUME NEW i \in 1..Len(u) PROVE t[Len(s) + 3 + i] = u[i]
      OBVIOUS
    <2>1. 3 + i \in 1..Len(v) /\ Len(s) + (3 + i) = Len(s) + 3 + i
      BY <1>6, <1>8
    <2> QED BY <1>6, <1>7, <2>1
  <1>11. Len(t) = Len(s) + 3 + Len(u)
    BY <1>6, <1>7, <1>8
  <1> QED BY <1>2, <1>5, <1>7, <1>9, <1>10, <1>11 DEF Appended

-----------------------------------------------------------------------------
\* What is at the end is at the end of the lines from any line on.
LEMMA AppendedFrom ==
    ASSUME NEW S, NEW s \in Seq(S), NEW t \in Seq(S), NEW by, NEW u \in Seq(S),
           Appended(t, s, by, u), NEW i \in 1..(Len(s) + 1)
    PROVE  Appended(From(t, i), From(s, i), by, u)
  <1>1. Len(s) \in Nat /\ Len(t) \in Nat /\ Len(t) = Len(s) + 3 + Len(u) /\ Len(u) \in Nat
    BY DEF Appended
  <1>2. i \in 1..(Len(t) + 1)
    BY <1>1
  <1>3. PICK b : b = From(t, i)
    OBVIOUS
  <1>4. /\ Len(b) = Len(t) - i + 1
        /\ \A j \in 1..(Len(t) - i + 1) : b[j] = t[i + j - 1]
    BY <1>2, <1>3, FromIs
  <1>5. PICK n \in Nat : n = Len(s) - i + 1
    BY <1>1
  <1>6. Len(From(s, i)) = n
    BY <1>5, FromIs
  <1>7. Continues(b, From(s, i))
    BY <1>3, ContinuesFrom DEF Appended
  <1>8. ASSUME NEW k \in 1..(3 + Len(u)) PROVE b[n + k] = t[Len(s) + k]
    <2>1. n + k \in 1..(Len(t) - i + 1) /\ i + (n + k) - 1 = Len(s) + k
      BY <1>1, <1>5
    <2> QED BY <1>4, <2>1
  <1>9. b[n + 1] = Blank /\ b[n + 2] = CommentHeader(by) /\ b[n + 3] = Blank
    <2>1. 1 \in 1..(3 + Len(u)) /\ 2 \in 1..(3 + Len(u)) /\ 3 \in 1..(3 + Len(u))
      BY <1>1
    <2>2. b[n + 1] = t[Len(s) + 1] /\ b[n + 2] = t[Len(s) + 2] /\ b[n + 3] = t[Len(s) + 3]
      BY <1>8, <2>1
    <2> QED BY <2>2 DEF Appended
  <1>10. ASSUME NEW k \in 1..Len(u) PROVE b[n + 3 + k] = u[k]
    <2>1. 3 + k \in 1..(3 + Len(u)) /\ n + (3 + k) = n + 3 + k /\ Len(s) + (3 + k) = Len(s) + 3 + k
      BY <1>1
    <2>2. b[n + (3 + k)] = t[Len(s) + (3 + k)]
      BY <1>8, <2>1
    <2> QED BY <2>1, <2>2 DEF Appended
  <1>11. Len(b) = n + 3 + Len(u)
    BY <1>1, <1>4, <1>5
  <1> QED BY <1>3, <1>6, <1>7, <1>9, <1>10, <1>11 DEF Appended

\* The comments of a text have their headers, and one more has one more.
LEMMA HeadsAppended ==
    ASSUME NEW S, NEW s \in Seq(S), NEW t \in Seq(S), NEW by, NEW u \in Seq(S),
           Appended(t, s, by, u), \A i \in 1..Len(u) : u[i].is # "###"
    PROVE  Heads(t) = Heads(s) \cup {Len(s) + 2}
  <1>1. Len(s) \in Nat /\ Len(t) \in Nat /\ Len(u) \in Nat /\ Len(t) = Len(s) + 3 + Len(u)
    BY DEF Appended
  <1>2. /\ t[Len(s) + 1].is # "###" /\ t[Len(s) + 2].is = "###" /\ t[Len(s) + 3].is # "###"
        /\ \A i \in 1..Len(u) : t[Len(s) + 3 + i].is # "###"
    BY DEF Appended, Blank, Line, CommentHeader
  <1>3. ASSUME NEW i \in 1..Len(t)
        PROVE  t[i].is = "###" <=> i \in Heads(s) \/ i = Len(s) + 2
    <2>1. CASE i <= Len(s)
      <3>1. t[i] = s[i] /\ i \in 1..Len(s)
        BY <1>1, <2>1 DEF Appended, Continues
      <3> QED BY <1>1, <3>1 DEF Heads
    <2>2. CASE i \in {Len(s) + 1, Len(s) + 2, Len(s) + 3}
      BY <1>1, <1>2, <2>2 DEF Heads
    <2>3. CASE i > Len(s) + 3
      <3>1. PICK j \in 1..Len(u) : Len(s) + 3 + j = i
        <4>1. i - (Len(s) + 3) \in 1..Len(u)
          BY <1>1, <2>3
        <4>2. Len(s) + 3 + (i - (Len(s) + 3)) = i
          BY <1>1
        <4> QED BY <4>1, <4>2
      <3>2. t[i].is # "###"
        BY <1>2, <3>1
      <3> QED BY <1>1, <2>3, <3>2 DEF Heads
    <2> QED BY <1>1, <2>1, <2>2, <2>3
  <1>4. Heads(s) \cup {Len(s) + 2} \subseteq 1..Len(t)
    <2>1. \A i \in 1..Len(s) : i \in 1..Len(t)
      BY <1>1
    <2> QED BY <1>1, <2>1 DEF Heads
  <1> QED BY <1>3, <1>4 DEF Heads

\* The first headers keep their places in the count, and the new one is the last.
LEMMA NthAppended ==
    ASSUME NEW m \in Nat, NEW H \in SUBSET (1..m), NEW n \in Nat, n > m
    PROVE  LET G == H \cup {n}
           IN  /\ Cardinality(H) \in Nat /\ Cardinality(G) = Cardinality(H) + 1
               /\ \A k \in 1..Cardinality(H) : Nth(G, k) = Nth(H, k)
               /\ Nth(G, Cardinality(H) + 1) = n
  <1> DEFINE G == H \cup {n}
  <1>1. IsFiniteSet(H) /\ Cardinality(H) \in Nat
    BY NumbersFinite
  <1>2. n \notin H /\ \A j \in H : j \in Nat /\ j < n /\ j <= n
    OBVIOUS
  <1>3. Cardinality(G) = Cardinality(H) + 1
    BY <1>1, <1>2, FS_AddElement
  <1>4. {j \in G : j <= n} = G
    <2>1. n <= n
      OBVIOUS
    <2>2. \A j \in G : j <= n
      BY <1>2, <2>1
    <2> QED BY <2>2
  <1>5. \A i \in H : {j \in G : j <= i} = {j \in H : j <= i}
    BY <1>2
  <1>6. \A i \in H : Cardinality({j \in H : j <= i}) \in Nat
                    /\ Cardinality({j \in H : j <= i}) <= Cardinality(H)
    BY <1>1, FS_Subset, FS_CardinalityType
  <1>7. \A k \in 1..Cardinality(H) : Nth(G, k) = Nth(H, k)
    <2> SUFFICES ASSUME NEW k \in 1..Cardinality(H) PROVE Nth(G, k) = Nth(H, k)
      OBVIOUS
    <2>1. k # Cardinality(G)
      BY <1>1, <1>3
    <2>2. \A i : (i \in G /\ Cardinality({j \in G : j <= i}) = k)
              <=> (i \in H /\ Cardinality({j \in H : j <= i}) = k)
      BY <1>2, <1>4, <1>5, <2>1
    <2> HIDE DEF G
    <2> QED BY <2>2 DEF Nth
  <1>8. Nth(G, Cardinality(H) + 1) = n
    <2>1. \A i \in G : Cardinality({j \in G : j <= i}) = Cardinality(H) + 1 <=> i = n
      BY <1>1, <1>3, <1>4, <1>5, <1>6
    <2>2. n \in G
      OBVIOUS
    <2> HIDE DEF G
    <2> QED BY <2>1, <2>2 DEF Nth
  <1> QED BY <1>1, <1>3, <1>7, <1>8

\* A comment that is there stays as it is: it ends at its last line, or at the
\* header of the new one.
LEMMA CommentKept ==
    ASSUME NEW S, NEW s \in Seq(S), NEW t \in Seq(S), NEW by, NEW u \in Seq(S),
           Appended(t, s, by, u), NEW i \in 1..Len(s)
    PROVE  CommentAt(t, i) = CommentAt(s, i)
  <1>1. Len(s) \in Nat /\ Len(t) \in Nat /\ Len(t) = Len(s) + 3 + Len(u) /\ Len(u) \in Nat
    BY DEF Appended
  <1>2. PICK a \in Seq(S) : a = From(s, i + 1)
    BY FromIs
  <1>3. PICK b \in Seq(S) : b = From(t, i + 1)
    <2>1. i + 1 \in 1..(Len(t) + 1)
      BY <1>1
    <2> QED BY <2>1, FromIs
  <1>4. Continues(b, a) /\ Len(a) = Len(s) - i
    <2>1. Len(From(s, i + 1)) = Len(s) - (i + 1) + 1 /\ Continues(From(t, i + 1), From(s, i + 1))
      <3>1. i + 1 \in 1..(Len(s) + 1)
        BY <1>1
      <3> QED BY <3>1, FromIs, ContinuesFrom DEF Appended
    <2> QED BY <1>1, <1>2, <1>3, <2>1
  <1>5. t[i].by = s[i].by
    BY DEF Appended, Continues
  <1>6. CASE FirstLine(a, "###") # 0
    <2>1. FirstLine(b, "###") = FirstLine(a, "###")
      BY <1>4, <1>6, ContinuesFirst
    <2>2. FirstLine(a, "###") \in 1..Len(a)
      BY <1>6, FirstLineIs
    <2>3. Before(b, FirstLine(b, "###")) = Before(a, FirstLine(a, "###"))
      BY <1>4, <2>1, <2>2, ContinuesBefore
    <2> QED BY <1>2, <1>3, <1>5, <2>3 DEF CommentAt
  <1>7. CASE FirstLine(a, "###") = 0
    <2>1. \A j \in 1..Len(a) : a[j].is # "###"
      BY <1>7, FirstLineIs
    <2>2. /\ Len(b) = Len(a) + 3 + Len(u)
          /\ b[Len(a) + 1] = Blank /\ b[Len(a) + 2] = CommentHeader(by)
      <3>1. i + 1 \in 1..(Len(s) + 1)
        BY <1>1
      <3>2. Appended(b, a, by, u)
        BY <1>2, <1>3, <3>1, AppendedFrom
      <3> QED BY <3>2 DEF Appended
    <2>3. FirstLine(b, "###") = Len(a) + 2
      <3>1. b[Len(a) + 2].is = "###" /\ b[Len(a) + 1].is # "###"
        BY <2>2 DEF CommentHeader, Blank, Line
      <3>2. Len(a) + 2 \in 1..Len(b)
        BY <1>1, <1>4, <2>2
      <3>3. \A j \in 1..((Len(a) + 2) - 1) : b[j].is # "###"
        <4> SUFFICES ASSUME NEW j \in 1..((Len(a) + 2) - 1) PROVE b[j].is # "###"
          OBVIOUS
        <4>1. CASE j = Len(a) + 1
          BY <3>1, <4>1
        <4>2. CASE j # Len(a) + 1
          <5>1. j \in 1..Len(a)
            BY <4>2, Len(a) \in Nat
          <5> QED BY <1>4, <2>1, <5>1 DEF Continues
        <4> QED BY <4>1, <4>2
      <3> QED BY <3>1, <3>2, <3>3, FirstLineAt
    <2>4. PICK c \in Seq(S) : /\ c = Before(b, Len(a) + 2) /\ Len(c) = Len(a) + 1
                             /\ \A j \in 1..(Len(a) + 1) : c[j] = b[j]
      <3>1. Len(a) + 2 \in 1..Len(b) /\ (Len(a) + 2) - 1 = Len(a) + 1
        BY <1>1, <1>4, <2>2
      <3> QED BY <3>1, BeforeIs
    <2>5. Trim(c) = Trim(a)
      <3>1. Len(a) <= Len(c) /\ \A j \in 1..Len(a) : c[j] = a[j]
        BY <1>1, <1>4, <2>4 DEF Continues
      <3>2. \A j \in 1..Len(c) : j > Len(a) => c[j] = Blank
        <4> SUFFICES ASSUME NEW j \in 1..Len(c), j > Len(a) PROVE c[j] = Blank
          OBVIOUS
        <4>1. j = Len(a) + 1
          BY <2>4, Len(a) \in Nat
        <4> QED BY <2>2, <2>4, <4>1
      <3> QED BY <3>1, <3>2, TrimSame
    <2>6. Before(a, FirstLine(a, "###")) = a
      BY <1>7 DEF Before
    <2> QED BY <1>2, <1>3, <1>5, <2>3, <2>4, <2>5, <2>6 DEF CommentAt
  <1> QED BY <1>6, <1>7

\* The comment at the end is read as it was written.
LEMMA CommentAdded ==
    ASSUME NEW S, NEW s \in Seq(S), NEW t \in Seq(S), NEW by, NEW u \in Seq(S),
           Appended(t, s, by, u), Trimmed(u), \A i \in 1..Len(u) : u[i].is # "###"
    PROVE  CommentAt(t, Len(s) + 2) = [by |-> by, text |-> u]
  <1>1. Len(s) \in Nat /\ Len(t) \in Nat /\ Len(t) = Len(s) + 3 + Len(u) /\ Len(u) \in Nat
    BY DEF Appended
  <1>2. PICK a \in Seq(S) : /\ a = From(t, (Len(s) + 2) + 1) /\ Len(a) = Len(u) + 1
                           /\ a[1] = Blank /\ \A i \in 1..Len(u) : a[1 + i] = u[i]
    <2> DEFINE n == Len(s) + 3
    <2>1. n \in 1..(Len(t) + 1) /\ n = (Len(s) + 2) + 1 /\ Len(t) - n + 1 = Len(u) + 1
      BY <1>1
    <2>2. /\ From(t, n) \in Seq(S) /\ Len(From(t, n)) = Len(u) + 1
          /\ \A j \in 1..(Len(u) + 1) : From(t, n)[j] = t[n + j - 1]
      <3> HIDE DEF n
      <3>1. /\ From(t, n) \in Seq(S) /\ Len(From(t, n)) = Len(t) - n + 1
            /\ \A j \in 1..(Len(t) - n + 1) : From(t, n)[j] = t[n + j - 1]
        BY <2>1, FromIs
      <3> QED BY <2>1, <3>1
    <2>3. From(t, n)[1] = Blank
      <3>1. 1 \in 1..(Len(u) + 1) /\ n + 1 - 1 = Len(s) + 3
        BY <1>1
      <3> QED BY <2>2, <3>1 DEF Appended
    <2>4. ASSUME NEW i \in 1..Len(u) PROVE From(t, n)[1 + i] = u[i]
      <3>1. 1 + i \in 1..(Len(u) + 1) /\ n + (1 + i) - 1 = Len(s) + 3 + i
        BY <1>1
      <3> QED BY <2>2, <3>1 DEF Appended
    <2> QED BY <2>1, <2>2, <2>3, <2>4
  <1>3. FirstLine(a, "###") = 0
    <2>1. \A j \in 1..Len(a) : a[j].is # "###"
      <3> SUFFICES ASSUME NEW j \in 1..Len(a) PROVE a[j].is # "###"
        OBVIOUS
      <3>1. CASE j = 1
        BY <1>2, <3>1 DEF Blank, Line
      <3>2. CASE j # 1
        <4>1. j - 1 \in 1..Len(u) /\ 1 + (j - 1) = j
          BY <1>1, <1>2, <3>2
        <4> QED BY <1>2, <4>1
      <3> QED BY <3>1, <3>2
    <2> QED BY <2>1, FirstLineIs
  <1>4. Trim(a) = u
    <2>1. 1 + Len(u) <= Len(a)
      BY <1>1, <1>2
    <2>2. \A i \in 1..Len(a) : i <= 1 \/ i > 1 + Len(u) => a[i] = Blank
      BY <1>1, <1>2
    <2> QED BY <1>2, <2>1, <2>2, TrimPadded
  <1>5. t[Len(s) + 2].by = by
    BY DEF Appended, CommentHeader
  <1> QED BY <1>2, <1>3, <1>4, <1>5 DEF CommentAt, Before

\* A sequence that has one more value than another is the other with it appended.
LEMMA OneMore ==
    ASSUME NEW m \in Nat, NEW R, NEW f \in [1..m -> R], NEW c \in R, NEW g \in [1..(m + 1) -> R],
           \A k \in 1..m : g[k] = f[k], g[m + 1] = c
    PROVE  g = Append(f, c)
  <1>1. f \in Seq(R) /\ Len(f) = m
    <2>1. f \in Seq(R)
      OBVIOUS
    <2>2. DOMAIN f = 1..m /\ DOMAIN f = 1..Len(f) /\ Len(f) \in Nat
      BY <2>1, LenProperties
    <2> QED BY <2>1, <2>2
  <1>2. g \in Seq(R) /\ Len(g) = m + 1
    <2>1. g \in Seq(R)
      BY m + 1 \in Nat
    <2>2. DOMAIN g = 1..(m + 1) /\ DOMAIN g = 1..Len(g) /\ Len(g) \in Nat
      BY <2>1, LenProperties
    <2> QED BY <2>1, <2>2
  <1>3. /\ Append(f, c) \in Seq(R) /\ Len(Append(f, c)) = m + 1
        /\ \A i \in 1..m : Append(f, c)[i] = f[i]
        /\ Append(f, c)[m + 1] = c
    BY <1>1, AppendProperties
  <1>4. \A i \in 1..(m + 1) : g[i] = Append(f, c)[i]
    <2> SUFFICES ASSUME NEW i \in 1..(m + 1), i # m + 1 PROVE g[i] = Append(f, c)[i]
      BY <1>3
    <2>1. i \in 1..m
      OBVIOUS
    <2> QED BY <1>3, <2>1
  <1> QED BY <1>2, <1>3, <1>4, SeqEqual

\* A comment of the author who says u.
IsComment(c, by, u) == c = [by |-> by, text |-> u]

\* An appended comment comes after the others.
LEMMA CommentsAppended ==
    ASSUME NEW S, NEW s \in Seq(S), NEW t \in Seq(S), NEW by, NEW u \in Seq(S),
           Appended(t, s, by, u), ReadsAsComment(u), NEW C, IsComment(C, by, u)
    PROVE  CommentsIn(t) = Append(CommentsIn(s), C)
  <1> DEFINE H == Heads(s)
  <1>1. Len(s) \in Nat /\ H \in SUBSET (1..Len(s))
    BY DEF Heads
  <1>2. Heads(t) = H \cup {Len(s) + 2}
    BY HeadsAppended DEF ReadsAsComment, Without
  <1>3. /\ Cardinality(H) \in Nat /\ Cardinality(Heads(t)) = Cardinality(H) + 1
        /\ \A k \in 1..Cardinality(H) : Nth(Heads(t), k) = Nth(H, k)
        /\ Nth(Heads(t), Cardinality(H) + 1) = Len(s) + 2
    <2> HIDE DEF H
    <2>1. PICK m \in Nat : m = Len(s)
      BY <1>1
    <2>2. PICK n \in Nat : n = Len(s) + 2
      BY <1>1
    <2>3. H \in SUBSET (1..m) /\ n > m
      BY <1>1, <2>1, <2>2
    <2>4. LET G == H \cup {n}
          IN  /\ Cardinality(H) \in Nat /\ Cardinality(G) = Cardinality(H) + 1
              /\ \A k \in 1..Cardinality(H) : Nth(G, k) = Nth(H, k)
              /\ Nth(G, Cardinality(H) + 1) = n
      BY <2>3, NthAppended
    <2> QED BY <1>2, <2>2, <2>4
  <1>4. \A k \in 1..Cardinality(H) : CommentAt(t, Nth(Heads(t), k)) = CommentAt(s, Nth(H, k))
    <2> SUFFICES ASSUME NEW k \in 1..Cardinality(H)
                 PROVE  CommentAt(t, Nth(Heads(t), k)) = CommentAt(s, Nth(H, k))
      OBVIOUS
    <2>1. Nth(H, k) \in 1..Len(s)
      <3> HIDE DEF H
      <3> QED BY <1>1, NthExists
    <2> QED BY <1>3, <2>1, CommentKept
  <1>5. CommentAt(t, Nth(Heads(t), Cardinality(H) + 1)) = C
    BY <1>3, CommentAdded DEF ReadsAsComment, Without, IsComment
  <1> DEFINE m == Cardinality(H)
             F == [k \in 1..m |-> CommentAt(s, Nth(H, k))]
             G == [k \in 1..(m + 1) |-> CommentAt(t, Nth(Heads(t), k))]
  <1>6. CommentsIn(s) = F /\ CommentsIn(t) = G
    BY <1>3 DEF CommentsIn
  <1>7. G = Append(F, C)
    <2> DEFINE R == {CommentAt(s, Nth(H, k)) : k \in 1..m} \cup {C}
    <2>1. m \in Nat
      BY <1>3
    <2>2. F \in [1..m -> R] /\ C \in R
      OBVIOUS
    <2>3. /\ \A k \in 1..m : G[k] = F[k]
          /\ G[m + 1] = C
      BY <1>4, <1>5, <2>1
    <2>4. G \in [1..(m + 1) -> R]
      <3>1. \A k \in 1..(m + 1) : k \in 1..m \/ k = m + 1
        BY <2>1
      <3>2. \A k \in 1..(m + 1) : G[k] \in R
        <4> HIDE DEF F, G, R, m
        <4> QED BY <2>2, <2>3, <3>1
      <3>3. G = [k \in 1..(m + 1) |-> G[k]]
        OBVIOUS
      <3> HIDE DEF G, R
      <3> QED BY <3>2, <3>3
    <2> HIDE DEF F, G, R, m
    <2> QED BY <2>1, <2>2, <2>3, <2>4, OneMore
  <1> QED BY <1>6, <1>7

-----------------------------------------------------------------------------
\* A file with both sections parses.
LEMMA ParseSectioned ==
    ASSUME NEW S, NEW lines \in Seq(S), Sectioned(lines)
    PROVE  ParseTicket(lines) = [labels |-> lines[2].labels,
                                description |-> ParseDescription(From(lines, 4)),
                                comments |-> ParseComments(From(lines, 4))]
  <1>1. Len(lines) \in Nat /\ Len(lines) >= 3 /\ lines # <<>> /\ Head(lines) = Rule
    <2>1. Len(lines) \in Nat /\ Len(lines) >= 3 /\ lines[1] = Rule
      BY DEF Sectioned, HasFrontMatter
    <2>2. lines # <<>>
      BY <2>1, EmptySeq
    <2> QED BY <2>1, <2>2
  <1>2. PICK r \in Seq(S) : /\ r = Tail(lines) /\ Len(r) = Len(lines) - 1
                           /\ \A i \in 1..Len(r) : r[i] = lines[i + 1]
    BY <1>1, HeadTailProperties
  <1>3. FirstLine(r, "---") = 2
    <2>1. 1 \in 1..Len(r) /\ 2 \in 1..Len(r)
      BY <1>1, <1>2
    <2>2. r[1] = lines[2] /\ r[2] = lines[3]
      BY <1>2, <2>1
    <2>3. r[1].is # "---" /\ r[2].is = "---"
      BY <2>2 DEF Sectioned, HasFrontMatter
    <2>4. \A i \in 1..(2 - 1) : r[i].is # "---"
      BY <2>3
    <2> QED BY <2>1, <2>3, <2>4, FirstLineAt
  <1>4. Parses(lines)
    BY <1>1, <1>2, <1>3 DEF Parses, Sectioned, HasFrontMatter
  <1> QED BY <1>4 DEF ParseTicket

\* A section for comments that stands after the one for the description is found
\* after it, and somewhere in the body.
LEMMA SectionsFound ==
    ASSUME NEW S, NEW lines \in Seq(S), Sectioned(lines)
    PROVE  LET body == From(lines, 4)
               d == FirstLine(body, "Description")
           IN  /\ body \in Seq(S)
               /\ d \in 1..Len(body) /\ FirstLine(body, "Comments") \in 1..Len(body)
               /\ FirstLine(From(body, d + 1), "Comments") # 0
  <1>1. Len(lines) \in Nat /\ 4 \in 1..(Len(lines) + 1)
    BY DEF Sectioned, HasFrontMatter
  <1>2. PICK body \in Seq(S) : /\ body = From(lines, 4) /\ Len(body) = Len(lines) - 4 + 1
                              /\ \A j \in 1..(Len(lines) - 4 + 1) : body[j] = lines[4 + j - 1]
    BY <1>1, FromIs
  <1>3. PICK i, j \in 1..Len(body) : i < j /\ body[i].is = "Description" /\ body[j].is = "Comments"
    <2>1. PICK i, j \in 4..Len(lines) : i < j /\ lines[i].is = "Description" /\ lines[j].is = "Comments"
      BY DEF Sectioned, HasSections
    <2>2. ASSUME NEW k \in 4..Len(lines) PROVE k - 3 \in 1..Len(body) /\ body[k - 3] = lines[k]
      <3>1. k - 3 \in 1..(Len(lines) - 4 + 1) /\ 4 + (k - 3) - 1 = k
        BY <1>1
      <3> QED BY <1>2, <3>1
    <2>3. i - 3 < j - 3
      <3>1. i \in Int /\ j \in Int
        OBVIOUS
      <3>2. i < j
        BY Zenon, <2>1
      <3> QED BY <3>1, <3>2
    <2> QED BY <2>1, <2>2, <2>3
  <1>4. FirstLine(body, "Comments") \in 1..Len(body)
    BY <1>3, FirstLineUpTo
  <1>5. PICK d \in 1..Len(body) : d = FirstLine(body, "Description") /\ d <= i
    BY <1>3, FirstLineUpTo
  <1>6. PICK a \in Seq(S) : /\ a = From(body, d + 1) /\ Len(a) = Len(body) - (d + 1) + 1
                           /\ \A k \in 1..(Len(body) - (d + 1) + 1) : a[k] = body[(d + 1) + k - 1]
    <2>1. PICK n \in 1..(Len(body) + 1) : n = d + 1
      OBVIOUS
    <2>2. /\ From(body, n) \in Seq(S) /\ Len(From(body, n)) = Len(body) - n + 1
          /\ \A k \in 1..(Len(body) - n + 1) : From(body, n)[k] = body[n + k - 1]
      BY FromIs
    <2> QED BY <2>1, <2>2
  <1>7. a[j - d].is = "Comments" /\ j - d \in 1..Len(a)
    <2>1. j - d \in 1..(Len(body) - (d + 1) + 1) /\ (d + 1) + (j - d) - 1 = j
      <3>1. i \in Int /\ j \in Int /\ d \in Int /\ j <= Len(body) /\ Len(body) \in Nat
        OBVIOUS
      <3>2. i < j /\ d <= i
        BY Zenon, <1>3, <1>5
      <3> QED BY <3>1, <3>2
    <2> QED BY <1>3, <1>6, <2>1
  <1>8. FirstLine(a, "Comments") # 0
    BY <1>7, FirstLineUpTo
  <1> QED BY <1>2, <1>4, <1>5, <1>6, <1>8

\* A comment at the end leaves the sections in their places.
LEMMA SectionsKept ==
    ASSUME NEW S, NEW s \in Seq(S), NEW t \in Seq(S), Continues(t, s), Sectioned(s)
    PROVE  Sectioned(t) /\ t[2] = s[2]
  <1>1. Len(s) \in Nat /\ Len(t) \in Nat /\ Len(s) <= Len(t) /\ Len(s) >= 3
    BY DEF Continues, Sectioned, HasFrontMatter
  <1>2. \A i \in 1..Len(s) : i \in 1..Len(t) /\ t[i] = s[i]
    BY <1>1 DEF Continues
  <1>3. t[1] = s[1] /\ t[2] = s[2] /\ t[3] = s[3]
    <2>1. 1 \in 1..Len(s) /\ 2 \in 1..Len(s) /\ 3 \in 1..Len(s)
      BY <1>1
    <2> QED BY <1>2, <2>1
  <1>4. Len(t) >= 3
    BY <1>1
  <1>5. HasFrontMatter(t)
    BY <1>3, <1>4 DEF Sectioned, HasFrontMatter
  <1>6. HasSections(t)
    <2>1. PICK i, j \in 4..Len(s) : i < j /\ s[i].is = "Description" /\ s[j].is = "Comments"
      BY DEF Sectioned, HasSections
    <2>2. i \in 4..Len(t) /\ t[i] = s[i] /\ j \in 4..Len(t) /\ t[j] = s[j]
      <3>1. i \in 1..Len(s) /\ j \in 1..Len(s) /\ i \in 4..Len(t) /\ j \in 4..Len(t)
        BY <1>1
      <3> QED BY <1>2, <3>1
    <2> QED BY <2>1, <2>2, Zenon DEF HasSections
  <1> QED BY <1>3, <1>5, <1>6 DEF Sectioned


\* A ticket of these labels, description and comments.
IsTicket(k, l, d, cs) == k = [labels |-> l, description |-> d, comments |-> cs]

\* A ticket with one more comment.
LEMMA OneMoreComment ==
    ASSUME NEW k, NEW l, NEW d, NEW cs, NEW C, IsTicket(k, l, d, cs)
    PROVE  IsTicket(WithComment(k, C), l, d, Append(cs, C))
  BY DEF IsTicket, WithComment

\* Its fields make a ticket.
LEMMA SameTicket ==
    ASSUME NEW k, NEW m, NEW l, NEW d, NEW cs, IsTicket(k, l, d, cs), IsTicket(m, l, d, cs)
    PROVE  k = m
  BY DEF IsTicket

\* A comment that is appended to a file is read as one more comment, and all that
\* was read before is read again.
LEMMA ParseAppended ==
    ASSUME NEW S, NEW s \in Seq(S), NEW t \in Seq(S), NEW by, NEW u \in Seq(S),
           Appended(t, s, by, u), ReadsAsComment(u), Sectioned(s), NEW C, IsComment(C, by, u)
    PROVE  ParseTicket(t) = WithComment(ParseTicket(s), C)
  <1>1. Sectioned(t) /\ t[2] = s[2] /\ Len(s) \in Nat /\ 4 \in 1..(Len(s) + 1)
    <2>1. Len(s) \in Nat /\ Len(s) >= 3
      BY DEF Sectioned, HasFrontMatter
    <2> QED BY <2>1, SectionsKept DEF Appended
  <1>2. PICK a, b \in Seq(S) : a = From(s, 4) /\ b = From(t, 4)
    BY <1>1, SectionsFound
  <1>3. Appended(b, a, by, u)
    BY <1>1, <1>2, AppendedFrom
  <1>4. PICK d \in 1..Len(a) : d = FirstLine(a, "Description")
    BY <1>2, SectionsFound
  <1>5. PICK c \in 1..Len(a) : c = FirstLine(a, "Comments")
    BY <1>2, SectionsFound
  <1>6. FirstLine(b, "Description") = d /\ FirstLine(b, "Comments") = c
    <2>1. FirstLine(a, "Description") # 0 /\ FirstLine(a, "Comments") # 0
      BY <1>4, <1>5
    <2>2. Continues(b, a)
      BY <1>3 DEF Appended
    <2> QED BY <1>4, <1>5, <2>1, <2>2, ContinuesFirst
  <1>7. PICK m, n \in 1..(Len(a) + 1) : m = d + 1 /\ n = c + 1
    <2>1. d + 1 \in 1..(Len(a) + 1) /\ c + 1 \in 1..(Len(a) + 1)
      OBVIOUS
    <2> QED BY <2>1
  <1>8. ParseDescription(b) = ParseDescription(a)
    <2>1. PICK e \in Seq(S) : e = From(a, m)
      BY FromIs
    <2>2. PICK f \in Seq(S) : f = From(b, m)
      <3>1. m \in 1..(Len(b) + 1)
        <4>1. Len(a) \in Nat /\ Len(b) \in Nat /\ Len(u) \in Nat /\ Len(b) = Len(a) + 3 + Len(u)
          BY <1>3 DEF Appended
        <4> QED BY <4>1
      <3> QED BY <3>1, FromIs
    <2>3. Continues(f, e)
      BY <1>3, <2>1, <2>2, ContinuesFrom DEF Appended
    <2>4. PICK k \in 1..Len(e) : k = FirstLine(e, "Comments")
      <3>1. FirstLine(e, "Comments") # 0
        BY <1>2, <1>4, <1>7, <2>1, SectionsFound
      <3>2. FirstLine(e, "Comments") \in 0..Len(e)
        BY FirstLineIs
      <3> QED BY <3>1, <3>2
    <2>5. FirstLine(f, "Comments") = k
      <3>1. k # 0
        OBVIOUS
      <3> QED BY <2>3, <2>4, <3>1, ContinuesFirst
    <2>6. Before(f, k) = Before(e, k)
      BY <2>3, ContinuesBefore
    <2> QED BY <1>4, <1>6, <1>7, <2>1, <2>2, <2>4, <2>5, <2>6 DEF ParseDescription
  <1>9. ParseComments(b) = Append(ParseComments(a), C)
    <2>1. Appended(From(b, n), From(a, n), by, u)
      BY <1>3, AppendedFrom
    <2>2. PICK e \in Seq(S) : e = From(a, n)
      BY FromIs
    <2>3. PICK f \in Seq(S) : f = From(b, n)
      <3>1. n \in 1..(Len(b) + 1)
        <4>1. Len(a) \in Nat /\ Len(b) \in Nat /\ Len(u) \in Nat /\ Len(b) = Len(a) + 3 + Len(u)
          BY <1>3 DEF Appended
        <4> QED BY <4>1
      <3> QED BY <3>1, FromIs
    <2>4. CommentsIn(f) = Append(CommentsIn(e), C)
      <3>1. Appended(f, e, by, u)
        BY <2>1, <2>2, <2>3
      <3> QED BY <3>1, CommentsAppended
    <2>5. c # 0
      OBVIOUS
    <2> QED BY <1>5, <1>6, <1>7, <2>2, <2>3, <2>4, <2>5 DEF ParseComments
  <1>10. /\ ParseTicket(s) = [labels |-> s[2].labels, description |-> ParseDescription(a),
                              comments |-> ParseComments(a)]
         /\ ParseTicket(t) = [labels |-> t[2].labels, description |-> ParseDescription(b),
                              comments |-> ParseComments(b)]
    BY <1>1, <1>2, ParseSectioned
  <1>11. PICK l, d0, cs : l = s[2].labels /\ d0 = ParseDescription(a) /\ cs = ParseComments(a)
    OBVIOUS
  <1>12. IsTicket(ParseTicket(s), l, d0, cs)
    BY <1>10, <1>11 DEF IsTicket
  <1>13. IsTicket(ParseTicket(t), l, d0, Append(cs, C))
    BY <1>1, <1>8, <1>9, <1>10, <1>11 DEF IsTicket
  <1>14. IsTicket(WithComment(ParseTicket(s), C), l, d0, Append(cs, C))
    BY <1>12, OneMoreComment
  <1> QED BY <1>13, <1>14, SameTicket

\* The writer writes the sections, and what it writes is read as it was written,
\* as long as the description neither starts nor ends with a blank line and does
\* not look like the section for comments.
LEMMA FormatReads ==
    ASSUME NEW S, NEW labels, NEW u \in Seq(S), ReadsAsDescription(u),
           {Blank, Rule, Line("Description"), Line("Comments"), FrontMatter(labels)} \subseteq S
    PROVE  LET k == [labels |-> labels, description |-> u, comments |-> <<>>]
           IN  /\ FormatTicket(k) \in Seq(S) /\ Sectioned(FormatTicket(k))
               /\ ParseTicket(FormatTicket(k)) = k
  <1> DEFINE k == [labels |-> labels, description |-> u, comments |-> <<>>]
  <1>1. Trimmed(u) /\ \A i \in 1..Len(u) : u[i].is # "Comments"
    BY DEF ReadsAsDescription, Without
  <1>2. PICK h, g \in Seq(S) :
           /\ h = <<Rule, FrontMatter(labels), Rule, Blank, Line("Description"), Blank>>
           /\ g = <<Blank, Line("Comments")>>
    <2>1. <<Rule, FrontMatter(labels), Rule, Blank, Line("Description"), Blank>> \in Seq(S)
      OBVIOUS
    <2>2. <<Blank, Line("Comments")>> \in Seq(S)
      OBVIOUS
    <2> QED BY <2>1, <2>2
  <1>3. /\ Len(h) = 6 /\ h[1] = Rule /\ h[2] = FrontMatter(labels) /\ h[3] = Rule
        /\ h[4] = Blank /\ h[5] = Line("Description") /\ h[6] = Blank
    BY <1>2
  <1>4. Len(g) = 2 /\ g[1] = Blank /\ g[2] = Line("Comments")
    BY <1>2
  <1>5. PICK v \in Seq(S) : /\ v = h \o u /\ Len(v) = 6 + Len(u) /\ Continues(v, h)
                           /\ \A i \in 1..Len(u) : v[6 + i] = u[i]
    <2>1. /\ h \o u \in Seq(S) /\ Len(h \o u) = Len(h) + Len(u) /\ Continues(h \o u, h)
          /\ \A i \in 1..Len(u) : (h \o u)[Len(h) + i] = u[i]
      BY ConcatIs
    <2> QED BY <1>3, <2>1
  <1>6. PICK t \in Seq(S) : /\ t = v \o g /\ Len(t) = Len(v) + 2 /\ Continues(t, v)
                           /\ t[Len(v) + 1] = g[1] /\ t[Len(v) + 2] = g[2]
    <2>1. /\ v \o g \in Seq(S) /\ Len(v \o g) = Len(v) + Len(g) /\ Continues(v \o g, v)
          /\ \A i \in 1..Len(g) : (v \o g)[Len(v) + i] = g[i]
      BY ConcatIs
    <2>2. 1 \in 1..Len(g) /\ 2 \in 1..Len(g)
      BY <1>4
    <2> QED BY <1>4, <2>1, <2>2
  <1>7. FormatTicket(k) = t
    <2>1. [i \in DOMAIN k.comments |-> FormatComment(k.comments[i])] = <<>>
      OBVIOUS
    <2>2. SX!FlattenSeq(<<>>) = <<>>
      BY DEF SX!FlattenSeq
    <2>3. FormatTicket(k) = t \o <<>>
      BY <1>2, <1>5, <1>6, <2>1, <2>2 DEF FormatTicket
    <2> QED BY <2>3, ConcatEmptySeq
  <1>8. Len(u) \in Nat /\ Len(t) = 8 + Len(u) /\ Len(t) \in Nat
    BY <1>5, <1>6
  <1>9. /\ \A i \in 1..6 : t[i] = h[i]
        /\ \A i \in 1..Len(u) : t[6 + i] = u[i]
        /\ t[Len(u) + 7] = Blank /\ t[Len(u) + 8] = Line("Comments")
    <2>1. \A i \in 1..(6 + Len(u)) : t[i] = v[i]
      BY <1>5, <1>6 DEF Continues
    <2>2. \A i \in 1..6 : v[i] = h[i] /\ i \in 1..(6 + Len(u))
      BY <1>3, <1>5, <1>8 DEF Continues
    <2>3. \A i \in 1..Len(u) : 6 + i \in 1..(6 + Len(u))
      BY <1>8
    <2>4. t[Len(v) + 1] = Blank /\ t[Len(v) + 2] = Line("Comments")
      BY <1>4, <1>6
    <2>5. Len(v) + 1 = Len(u) + 7 /\ Len(v) + 2 = Len(u) + 8
      BY <1>5, <1>8
    <2> QED BY <1>5, <2>1, <2>2, <2>3, <2>4, <2>5
  <1>10. /\ t[1] = Rule /\ t[2] = FrontMatter(labels) /\ t[3] = Rule
        /\ t[4] = Blank /\ t[5] = Line("Description") /\ t[6] = Blank
    BY <1>3, <1>9
  <1>11. Sectioned(t)
    <2>1. HasFrontMatter(t)
      BY <1>8, <1>10 DEF HasFrontMatter, Rule, Line, FrontMatter
    <2>2. HasSections(t)
      <3>1. /\ 5 \in 4..Len(t) /\ Len(u) + 8 \in 4..Len(t) /\ 5 < Len(u) + 8
            /\ t[5].is = "Description" /\ t[Len(u) + 8].is = "Comments"
        BY <1>8, <1>9, <1>10 DEF Line
      <3> QED BY <3>1 DEF HasSections
    <2> QED BY <2>1, <2>2 DEF Sectioned
  \* The body, and in it the description.
  <1>12. PICK b \in Seq(S) : /\ b = From(t, 4) /\ Len(b) = Len(u) + 5
                            /\ \A i \in 1..Len(b) : b[i] = t[3 + i]
    <2>1. 4 \in 1..(Len(t) + 1) /\ Len(t) - 4 + 1 = Len(u) + 5 /\ \A i \in Int : 4 + i - 1 = 3 + i
      BY <1>8
    <2>2. /\ From(t, 4) \in Seq(S) /\ Len(From(t, 4)) = Len(t) - 4 + 1
          /\ \A i \in 1..(Len(t) - 4 + 1) : From(t, 4)[i] = t[4 + i - 1]
      BY <1>6, <2>1, FromIs
    <2> QED BY <2>1, <2>2
  <1>13. /\ b[1] = Blank /\ b[2] = Line("Description") /\ b[3] = Blank
         /\ b[Len(u) + 4] = Blank /\ b[Len(u) + 5] = Line("Comments")
         /\ \A i \in 1..Len(u) : b[3 + i] = u[i]
    <2>1. /\ 1 \in 1..Len(b) /\ 2 \in 1..Len(b) /\ 3 \in 1..Len(b)
          /\ Len(u) + 4 \in 1..Len(b) /\ 3 + (Len(u) + 4) = Len(u) + 7
          /\ Len(u) + 5 \in 1..Len(b) /\ 3 + (Len(u) + 5) = Len(u) + 8
          /\ \A i \in 1..Len(u) : 3 + i \in 1..Len(b) /\ 3 + (3 + i) = 6 + i
      BY <1>8, <1>12
    <2>2. b[1] = t[4] /\ b[2] = t[5] /\ b[3] = t[6]
      BY <1>12, <2>1
    <2>3. b[Len(u) + 4] = t[Len(u) + 7] /\ b[Len(u) + 5] = t[Len(u) + 8]
      BY <1>12, <2>1
    <2>4. \A i \in 1..Len(u) : b[3 + i] = t[6 + i]
      BY <1>12, <2>1
    <2> QED BY <1>9, <1>10, <2>2, <2>3, <2>4
  <1>14. FirstLine(b, "Description") = 2
    <2>1. 2 \in 1..Len(b)
      BY <1>8, <1>12
    <2>2. b[2].is = "Description" /\ \A i \in 1..(2 - 1) : b[i].is # "Description"
      BY <1>13 DEF Line, Blank
    <2> QED BY <2>1, <2>2, FirstLineAt
  <1>15. PICK a \in Seq(S) : /\ a = From(b, 3) /\ Len(a) = Len(u) + 3
                            /\ \A i \in 1..Len(a) : a[i] = b[2 + i]
    <2>1. 3 \in 1..(Len(b) + 1) /\ Len(b) - 3 + 1 = Len(u) + 3 /\ \A i \in Int : 3 + i - 1 = 2 + i
      BY <1>8, <1>12
    <2>2. /\ From(b, 3) \in Seq(S) /\ Len(From(b, 3)) = Len(b) - 3 + 1
          /\ \A i \in 1..(Len(b) - 3 + 1) : From(b, 3)[i] = b[3 + i - 1]
      BY <2>1, FromIs
    <2> QED BY <2>1, <2>2
  <1>16. /\ a[1] = Blank /\ a[Len(u) + 2] = Blank /\ a[Len(u) + 3] = Line("Comments")
         /\ \A i \in 1..Len(u) : a[1 + i] = u[i]
    <2>1. /\ 1 \in 1..Len(a)
          /\ Len(u) + 2 \in 1..Len(a) /\ 2 + (Len(u) + 2) = Len(u) + 4
          /\ Len(u) + 3 \in 1..Len(a) /\ 2 + (Len(u) + 3) = Len(u) + 5
          /\ \A i \in 1..Len(u) : 1 + i \in 1..Len(a) /\ 2 + (1 + i) = 3 + i
      BY <1>8, <1>15
    <2>2. a[1] = b[3] /\ a[Len(u) + 2] = b[Len(u) + 4] /\ a[Len(u) + 3] = b[Len(u) + 5]
      BY <1>15, <2>1
    <2>3. \A i \in 1..Len(u) : a[1 + i] = b[3 + i]
      BY <1>15, <2>1
    <2> QED BY <1>13, <2>2, <2>3
  <1>17. FirstLine(a, "Comments") = Len(u) + 3
    <2>1. Len(u) + 3 \in 1..Len(a) /\ a[Len(u) + 3].is = "Comments"
      BY <1>8, <1>15, <1>16 DEF Line
    <2>2. ASSUME NEW i \in 1..((Len(u) + 3) - 1) PROVE a[i].is # "Comments"
      <3>1. CASE i = 1 \/ i = Len(u) + 2
        BY <1>16, <3>1 DEF Line, Blank
      <3>2. CASE i # 1 /\ i # Len(u) + 2
        <4>1. i - 1 \in 1..Len(u) /\ 1 + (i - 1) = i
          BY <1>8, <3>2
        <4> QED BY <1>16, <1>1, <4>1
      <3> QED BY <3>1, <3>2
    <2> QED BY <2>1, <2>2, FirstLineAt
  <1>18. ParseDescription(b) = u
    <2>1. PICK n \in 1..Len(a) : n = Len(u) + 3
      BY <1>8, <1>15
    <2>2. PICK c \in Seq(S) : /\ c = Before(a, n) /\ Len(c) = n - 1
                             /\ \A i \in 1..(n - 1) : c[i] = a[i]
      BY BeforeIs
    <2>3. 1 + Len(u) <= Len(c) /\ Len(c) = Len(u) + 2
      BY <1>8, <2>1, <2>2
    <2>4. \A i \in 1..Len(u) : c[1 + i] = u[i]
      <3>1. \A i \in 1..Len(u) : 1 + i \in 1..(n - 1)
        BY <1>8, <2>1
      <3> QED BY <1>16, <2>2, <3>1
    <2>5. \A i \in 1..Len(c) : i <= 1 \/ i > 1 + Len(u) => c[i] = Blank
      <3> SUFFICES ASSUME NEW i \in 1..Len(c), i <= 1 \/ i > 1 + Len(u) PROVE c[i] = Blank
        OBVIOUS
      <3>1. i = 1 \/ i = Len(u) + 2
        BY <1>8, <2>3
      <3>2. c[i] = a[i]
        BY <2>1, <2>2
      <3> QED BY <1>16, <3>1, <3>2
    <2>6. Trim(c) = u
      BY <1>1, <2>3, <2>4, <2>5, TrimPadded
    <2>7. From(b, FirstLine(b, "Description") + 1) = a
      BY <1>14, <1>15
    <2> QED BY <1>14, <1>17, <2>1, <2>2, <2>6, <2>7 DEF ParseDescription
  <1>19. ParseComments(b) = <<>>
    <2>1. PICK c \in 1..Len(b) : c = FirstLine(b, "Comments") /\ c = Len(b)
      <3>1. Len(b) \in 1..Len(b) /\ b[Len(b)].is = "Comments"
        BY <1>8, <1>12, <1>13 DEF Line
      <3>2. ASSUME NEW i \in 1..(Len(b) - 1) PROVE b[i].is # "Comments"
        <4>1. CASE i \in {1, 2, 3} \/ i = Len(u) + 4
          BY <1>13, <4>1 DEF Line, Blank
        <4>2. CASE i \notin {1, 2, 3} /\ i # Len(u) + 4
          <5>1. PICK n \in Nat : n = Len(u) /\ i \in 1..(n + 4)
            BY <1>8, <1>12
          <5>2. i # 1 /\ i # 2 /\ i # 3 /\ i # n + 4
            BY <4>2, <5>1
          <5>3. i - 3 \in 1..n /\ 3 + (i - 3) = i
            BY <5>1, <5>2
          <5> QED BY <1>13, <1>1, <5>1, <5>3
        <4> QED BY <4>1, <4>2
      <3>3. FirstLine(b, "Comments") = Len(b)
        BY <3>1, <3>2, FirstLineAt
      <3> QED BY <3>1, <3>3
    <2>2. PICK e \in Seq(S) : e = From(b, c + 1) /\ Len(e) = 0
      <3>1. c + 1 \in 1..(Len(b) + 1) /\ Len(b) - (c + 1) + 1 = 0
        BY <2>1
      <3>2. From(b, c + 1) \in Seq(S) /\ Len(From(b, c + 1)) = Len(b) - (c + 1) + 1
        BY <3>1, FromIs
      <3> QED BY <3>1, <3>2
    <2>3. CommentsIn(e) = <<>>
      <3>1. Heads(e) = {}
        BY <2>2 DEF Heads
      <3>2. Cardinality({}) = 0
        BY FS_EmptySet
      <3> QED BY <3>1, <3>2 DEF CommentsIn
    <2> QED BY <2>1, <2>2, <2>3 DEF ParseComments
  <1>20. t[2].labels = labels
    BY <1>10 DEF FrontMatter
  <1>21. ParseTicket(t) = k
    BY <1>6, <1>11, <1>12, <1>18, <1>19, <1>20, ParseSectioned
  <1> QED BY <1>11, <1>21, <1>7

-----------------------------------------------------------------------------
(***************************************************************************)
(* The files read back.                                                    *)
(***************************************************************************)

\* The lines are a file that is read as ticket k, and still will be with a
\* comment at its end.
Reads(lines, k) == lines \in Texts /\ Sectioned(lines) /\ ParseTicket(lines) = k

\* So is every file, and what an added comment is appended to.
FilesInv ==
    /\ text \in [Tickets -> Texts]
    /\ known = [t \in Tickets |-> known[t]]
    /\ copy = [w \in Workers |-> copy[w]]
    /\ \A t \in Tickets : md[t] # None => Reads(text[t], known[t])
    /\ \A w \in Workers : At(w, "write", "AddComment") => Reads(copy[w].text, copy[w].known)

\* What a create or an update writes.
LEMMA WrittenReads ==
    ASSUME TextsReadable, NEW q \in Requests, q.op \in {"Create", "Update"}, NEW d \in Descriptions
    PROVE  Reads(FormatTicket(Written(q, d)), Written(q, d))
  <1>1. q.labels \in SUBSET Labels
    BY RequestFields
  <1>2. {Blank, Rule, Line("Description"), Line("Comments"), FrontMatter(q.labels)} \subseteq Lines
    BY <1>1 DEF Lines
  <1>3. d \in Seq(Lines) /\ ReadsAsDescription(d)
    BY TextsAssumption DEF Texts, TextsReadable
  <1>4. PICK L : L = q.labels
    OBVIOUS
  <1>5. LET k == [labels |-> L, description |-> d, comments |-> <<>>]
        IN  /\ FormatTicket(k) \in Seq(Lines) /\ Sectioned(FormatTicket(k))
            /\ ParseTicket(FormatTicket(k)) = k
    BY <1>2, <1>3, <1>4, FormatReads
  <1> QED BY <1>4, <1>5 DEF Reads, Written, Texts

\* What an added comment makes of a file.
LEMMA AddedReads ==
    ASSUME TextsReadable, NEW lines, NEW k, Reads(lines, k), NEW c \in Comments
    PROVE  Reads(AppendComment(lines, c), WithComment(k, c))
  <1>1. c \in [by : Authors, text : Texts] /\ ReadsAsComment(c.text)
    BY TextsAssumption DEF TextsReadable
  <1>2. c.text \in Seq(Lines) /\ IsComment(c, c.by, c.text)
    BY <1>1 DEF Texts, IsComment
  <1>3. Blank \in Lines /\ CommentHeader(c.by) \in Lines
    BY <1>1 DEF Lines
  <1>4. lines \in Seq(Lines) /\ Sectioned(lines) /\ ParseTicket(lines) = k
    BY DEF Reads, Texts
  <1>5. PICK s, t \in Seq(Lines) : s = lines /\ t = AppendComment(lines, c)
    BY <1>2, <1>3, <1>4, AppendedIs
  <1>6. Appended(t, s, c.by, c.text)
    BY <1>2, <1>3, <1>5, AppendedIs
  <1>7. Sectioned(t)
    BY <1>4, <1>5, <1>6, SectionsKept DEF Appended
  <1>8. ParseTicket(t) = WithComment(ParseTicket(s), c)
    BY <1>1, <1>2, <1>4, <1>5, <1>6, ParseAppended
  <1> QED BY <1>4, <1>5, <1>7, <1>8 DEF Reads, Texts

\* The labels of a file that someone writes are labels.
LEMMA HandLabels ==
    ASSUME NEW lines \in HandTexts
    PROVE  ByHand[lines].labels \in SUBSET Labels
  <1>1. lines \in Seq(Lines) /\ Parses(lines)
    BY TextsAssumption DEF Texts
  <1>2. PICK r \in Seq(Lines) : r = Tail(lines) /\ Len(r) = Len(lines) - 1
    <2>1. lines # <<>>
      BY <1>1 DEF Parses
    <2> QED BY <1>1, <2>1, HeadTailProperties
  <1>3. 2 \in 0..Len(r)
    <2>1. FirstLine(r, "---") \in 0..Len(r)
      BY FirstLineIs
    <2> QED BY <1>1, <1>2, <2>1 DEF Parses
  <1>4. lines[2] \in Lines /\ lines[2].is = "yaml"
    <2>1. Len(lines) \in Nat /\ 2 \in 1..Len(lines)
      BY <1>1, <1>2, <1>3
    <2> QED BY <1>1, <2>1 DEF Parses
  <1>5. lines[2].labels \in SUBSET Labels
    <2>1. lines[2] \notin {Blank, Rule, Line("Description"), Line("Comments")}
      BY <1>4 DEF Blank, Rule, Line
    <2>2. lines[2] \notin {CommentHeader(a) : a \in Authors} \cup {Words(p) : p \in Phrases}
      BY <1>4 DEF CommentHeader, Words
    <2>3. PICK L \in SUBSET Labels : lines[2] = FrontMatter(L)
      BY <1>4, <2>1, <2>2 DEF Lines
    <2> QED BY <2>3 DEF FrontMatter
  <1>6. ByHand[lines] = ParseTicket(lines)
    BY DEF ByHand
  <1>7. ParseTicket(lines).labels = lines[2].labels
    BY <1>1 DEF ParseTicket
  <1> QED BY <1>5, <1>6, <1>7

\* Every step is one of TicketStore, or someone writes a file.
LEMMA FileStepIs == [NextF]_varsF => [Next]_vars \/ \E t \in Tickets, lines \in HandTexts : HandEdit(t, lines)
  <1> SUFFICES ASSUME [NextF]_varsF
               PROVE  [Next]_vars \/ \E t \in Tickets, lines \in HandTexts : HandEdit(t, lines)
    OBVIOUS
  <1>1. ASSUME NEW w \in Workers, StepF(w) PROVE Step(w)
    BY <1>1 DEF StepF, ReadText, WriteTicketText, WriteCommentText, RemoveText, OtherStep, Step
  <1>2. ASSUME NEW w \in Workers, IOErrorF(w) PROVE IOError(w)
    BY <1>2 DEF IOErrorF
  <1>3. ASSUME NEW w \in Workers, NEW q \in Requests, BeginF(w, q) PROVE Begin(w, q)
    BY <1>3 DEF BeginF
  <1>4. ASSUME NEW t \in Tickets, DropFileF(t) PROVE DropFile(t)
    BY <1>4 DEF DropFileF
  <1>5. RestartF => Restart
    BY DEF RestartF
  <1>6. UNCHANGED varsF => UNCHANGED vars
    BY DEF varsF, vars
  <1> QED BY <1>1, <1>2, <1>3, <1>4, <1>5, <1>6 DEF NextF, Next

\* So the types hold: what someone writes is a ticket.
LEMMA TypeStepF == TypeOK /\ [NextF]_varsF => TypeOK'
  <1> SUFFICES ASSUME TypeOK, [NextF]_varsF PROVE TypeOK'
    OBVIOUS
  <1>1. ASSUME NEW t \in Tickets, NEW lines \in HandTexts, HandEdit(t, lines) PROVE TypeOK'
    <2>1. PICK c : c = Content(ByHand[lines])
      OBVIOUS
    <2>2. c \in Contents
      BY <2>1, HandLabels DEF Content, Contents
    <2>3. md' = [md EXCEPT ![t] = c] /\ UNCHANGED <<index, pc, req, mem, todo, hits, res>>
      BY <1>1, <2>1 DEF HandEdit
    <2> QED BY <2>2, <2>3 DEF TypeOK
  <1> QED BY <1>1, TypeStep, FileStepIs

\* A step that leaves the texts alone and brings no one to write a comment.
LEMMA TextsKept ==
    ASSUME FilesInv, Same, \A t \in Tickets : md'[t] = md[t],
           copy' = [w \in Workers |-> copy'[w]],
           \A w \in Workers : At(w, "write", "AddComment")'
              => At(w, "write", "AddComment") /\ copy'[w] = copy[w]
    PROVE  FilesInv'
  BY DEF FilesInv, Same

\* A step that changes the file of a ticket to what reads back, and brings no one
\* to write a comment.
LEMMA TextChanged ==
    ASSUME FilesInv, NEW t \in Tickets, NEW lines \in Texts, NEW k, Put(t, lines, k),
           \A u \in Tickets \ {t} : md'[u] = md[u],
           md'[t] = None \/ Reads(lines, k),
           copy' = [w \in Workers |-> copy'[w]],
           \A w \in Workers : At(w, "write", "AddComment")'
              => At(w, "write", "AddComment") /\ copy'[w] = copy[w]
    PROVE  FilesInv'
  <1>1. text' = [text EXCEPT ![t] = lines] /\ known' = [known EXCEPT ![t] = k]
    BY DEF Put
  <1>2. text' \in [Tickets -> Texts] /\ text'[t] = lines /\ \A u \in Tickets \ {t} : text'[u] = text[u]
    BY <1>1 DEF FilesInv
  <1>3. /\ known' = [u \in Tickets |-> known'[u]] /\ known'[t] = k
        /\ \A u \in Tickets \ {t} : known'[u] = known[u]
    <2>1. known = [u \in Tickets |-> known[u]]
      BY DEF FilesInv
    <2> QED BY <1>1, <2>1
  <1>4. ASSUME NEW u \in Tickets, md'[u] # None PROVE Reads(text'[u], known'[u])
    BY <1>2, <1>3, <1>4 DEF FilesInv
  <1>5. ASSUME NEW w \in Workers, At(w, "write", "AddComment")'
        PROVE  Reads(copy'[w].text, copy'[w].known)
    BY <1>5 DEF FilesInv
  <1> QED BY <1>2, <1>3, <1>4, <1>5 DEF FilesInv, Reads

\* A step of a worker that does not read for a comment brings no one to write one.
LEMMA NoNewComment ==
    ASSUME TypeOK, NEW w \in Workers, Step(w) \/ IOError(w), ~ Read(w)
    PROVE  /\ ~ At(w, "write", "AddComment")'
           /\ \A v \in Workers \ {w} : At(v, "write", "AddComment")' <=> At(v, "write", "AddComment")
  <1>1. Moves(w)
    BY OnlyOwnFile
  <1>2. \A v \in Workers \ {w} : At(v, "write", "AddComment")' <=> At(v, "write", "AddComment")
    BY <1>1 DEF Moves, At
  <1>3. pc'[w] # "write"
    BY MayFailAssumption
    DEF Step, IOError, NotFound, WriteTicket, IndexCreated, IndexUpdated, WriteComment,
        ReadForDelete, Unindex, RemoveFile, AskIndex, ReadDir, ListDone, ReadListed,
        ListedFileGone, Respond, Answer, Goes, At, TypeOK
  <1> QED BY <1>2, <1>3 DEF At

\* A worker that changes what it has copied leaves the others' copies alone.
LEMMA CopyChanged ==
    ASSUME FilesInv, NEW w \in Workers, NEW c, copy' = [copy EXCEPT ![w] = c]
    PROVE  /\ copy' = [v \in Workers |-> copy'[v]]
           /\ copy'[w] = c /\ \A v \in Workers \ {w} : copy'[v] = copy[v]
  <1>1. copy = [v \in Workers |-> copy[v]]
    BY DEF FilesInv
  <1> QED BY <1>1

\* Every step keeps the files readable.
LEMMA FilesStep == TextsReadable /\ TypeOK /\ FilesInv /\ [NextF]_varsF => FilesInv'
  <1> SUFFICES ASSUME TextsReadable, TypeOK, FilesInv, [NextF]_varsF PROVE FilesInv'
    OBVIOUS
  <1>0. copy = [v \in Workers |-> copy[v]]
    BY DEF FilesInv
  <1>1. ASSUME NEW w \in Workers, NEW q \in Requests, BeginF(w, q) PROVE FilesInv'
    <2>1. Begin(w, q) /\ Same /\ copy' = copy
      BY <1>1 DEF BeginF
    <2>2. FirstStep(q) = "write" => q.op = "Create"
      BY DEF FirstStep
    <2>3. \A v \in Workers : At(v, "write", "AddComment")' => At(v, "write", "AddComment")
      BY <2>1, <2>2 DEF Begin, Goes, At, TypeOK
    <2>4. md' = md
      BY <2>1 DEF Begin
    <2> QED BY <1>0, <2>1, <2>3, <2>4, TextsKept
  <1>2. ASSUME NEW w \in Workers, ReadText(w) PROVE FilesInv'
    <2>1. Read(w) /\ Same /\ md' = md
      BY <1>2 DEF ReadText, Read
    <2>2. req[w].id \in Tickets /\ md[req[w].id] # None
      BY <2>1, Serving, RequestFields DEF Read, ReadOp, File
    <2>3. PICK c : /\ copy' = [copy EXCEPT ![w] = c]
                   /\ req[w].op = "AddComment"
                         => c = [text |-> text[req[w].id], known |-> known[req[w].id]]
      BY <1>2 DEF ReadText
    <2>4. /\ copy' = [v \in Workers |-> copy'[v]]
          /\ copy'[w] = c /\ \A v \in Workers \ {w} : copy'[v] = copy[v]
      BY <2>3, CopyChanged
    <2>5. req' = req /\ \A v \in Workers \ {w} : pc'[v] = pc[v]
      BY <2>1 DEF Read, Goes, TypeOK
    <2>6. ASSUME NEW v \in Workers, At(v, "write", "AddComment")'
          PROVE  Reads(copy'[v].text, copy'[v].known)
      <3>1. CASE v = w
        <4>1. req[w].op = "AddComment"
          BY <2>5, <2>6, <3>1 DEF At
        <4>2. Reads(text[req[w].id], known[req[w].id])
          BY <2>2 DEF FilesInv
        <4> QED BY <2>3, <2>4, <3>1, <4>1, <4>2
      <3>2. CASE v # w
        BY <2>4, <2>5, <2>6, <3>2 DEF At, FilesInv
      <3> QED BY <3>1, <3>2
    <2> QED BY <2>1, <2>4, <2>6 DEF FilesInv, Same
  <1>3. ASSUME NEW w \in Workers, WriteTicketText(w) PROVE FilesInv'
    <2>1. WriteTicket(w) /\ copy' = copy
      BY <1>3 DEF WriteTicketText
    <2>2. PICK d \in Descriptions :
             Put(req[w].id, FormatTicket(Written(req[w], d)), Written(req[w], d))
      BY <1>3 DEF WriteTicketText
    <2>3. req[w] \in Requests /\ req[w].id \in Tickets /\ req[w].op \in {"Create", "Update"}
      BY <2>1, Serving, RequestFields DEF WriteTicket
    <2>4. Reads(FormatTicket(Written(req[w], d)), Written(req[w], d))
      BY <2>3, WrittenReads
    <2>5. \A u \in Tickets \ {req[w].id} : md'[u] = md[u]
      BY <2>1 DEF WriteTicket, WriteFile, TypeOK
    <2>6. \A v \in Workers : At(v, "write", "AddComment")' => At(v, "write", "AddComment")
      BY <2>1, <2>3, NoNewComment DEF Step, WriteTicket, Read, ReadOp
    <2> QED BY <1>0, <2>1, <2>2, <2>3, <2>4, <2>5, <2>6, TextChanged DEF Reads
  <1>4. ASSUME NEW w \in Workers, WriteCommentText(w) PROVE FilesInv'
    <2>1. WriteComment(w) /\ copy' = [copy EXCEPT ![w] = None]
      BY <1>4 DEF WriteCommentText, Forgets
    <2>2. Put(req[w].id, AppendComment(copy[w].text, req[w].comment),
                         WithComment(copy[w].known, req[w].comment))
      BY <1>4 DEF WriteCommentText
    <2>3. req[w].id \in Tickets /\ req[w].comment \in Comments
      BY <2>1, Serving, RequestFields DEF WriteComment, At
    <2>4. Reads(AppendComment(copy[w].text, req[w].comment),
                WithComment(copy[w].known, req[w].comment))
      BY <2>1, <2>3, AddedReads DEF WriteComment, FilesInv
    <2>5. \A u \in Tickets \ {req[w].id} : md'[u] = md[u]
      BY <2>1 DEF WriteComment, WriteFile, TypeOK
    <2>6. /\ copy' = [v \in Workers |-> copy'[v]]
          /\ \A v \in Workers \ {w} : copy'[v] = copy[v]
      BY <2>1, CopyChanged
    <2>7. \A v \in Workers : At(v, "write", "AddComment")'
              => At(v, "write", "AddComment") /\ copy'[v] = copy[v]
      BY <2>1, <2>6, NoNewComment DEF Step, WriteComment, At, Read, ReadOp
    <2> QED BY <2>2, <2>3, <2>4, <2>5, <2>6, <2>7, TextChanged DEF Reads
  <1>5. ASSUME NEW w \in Workers, RemoveText(w) PROVE FilesInv'
    <2>1. RemoveFile(w) /\ copy' = copy /\ Put(req[w].id, <<>>, None)
      BY <1>5 DEF RemoveText
    <2>2. req[w].id \in Tickets
      BY <2>1, Serving, RequestFields DEF RemoveFile, TypeOK
    <2>3. md'[req[w].id] = None /\ \A u \in Tickets \ {req[w].id} : md'[u] = md[u]
      BY <2>1, <2>2 DEF RemoveFile, WriteFile, TypeOK
    <2>4. \A v \in Workers : At(v, "write", "AddComment")' => At(v, "write", "AddComment")
      BY <2>1, NoNewComment DEF Step, RemoveFile, Read, ReadOp
    <2>5. <<>> \in Texts
      BY DEF Texts
    <2> QED BY <1>0, <2>1, <2>2, <2>3, <2>4, <2>5, TextChanged
  <1>6. ASSUME NEW w \in Workers, OtherStep(w) PROVE FilesInv'
    <2>1. Step(w) /\ Same /\ copy' = copy
      BY <1>6 DEF OtherStep, Step
    <2>2. ~ Read(w)
      BY <1>6 DEF OtherStep, NotFound, IndexCreated, IndexUpdated, ReadForDelete, Unindex,
                  AskIndex, ReadDir, ListDone, ReadListed, ListedFileGone, Respond, Read, ReadOp,
                  At, ListOps
    <2>3. md' = md
      BY <1>6 DEF OtherStep, NotFound, IndexCreated, IndexUpdated, ReadForDelete, Unindex,
                  AskIndex, ReadDir, ListDone, ReadListed, ListedFileGone, Respond, files
    <2> QED BY <1>0, <2>1, <2>2, <2>3, NoNewComment, TextsKept
  <1>7. ASSUME NEW w \in Workers, IOErrorF(w) PROVE FilesInv'
    <2>1. IOError(w) /\ Same /\ md' = md /\ copy' = [copy EXCEPT ![w] = None]
      BY <1>7 DEF IOErrorF, IOError, Forgets, files
    <2>2. /\ copy' = [v \in Workers |-> copy'[v]]
          /\ \A v \in Workers \ {w} : copy'[v] = copy[v]
      BY <2>1, CopyChanged
    <2>3. \A v \in Workers : At(v, "write", "AddComment")'
              => At(v, "write", "AddComment") /\ v # w
      <3>1. pc'[w] # "write"
        BY <2>1 DEF IOError, Answer, Goes, TypeOK
      <3> QED BY <2>1, <3>1, OnlyOwnFile DEF Moves, At
    <2> QED BY <2>1, <2>2, <2>3, TextsKept
  <1>8. ASSUME NEW t \in Tickets, DropFileF(t) PROVE FilesInv'
    <2>1. DropFile(t) /\ copy' = copy /\ Put(t, <<>>, None)
      BY <1>8 DEF DropFileF
    <2>2. md'[t] = None /\ \A u \in Tickets \ {t} : md'[u] = md[u]
      BY <2>1 DEF DropFile, TypeOK
    <2>3. \A v \in Workers : At(v, "write", "AddComment")' => At(v, "write", "AddComment")
      BY <2>1 DEF DropFile, At
    <2>4. <<>> \in Texts
      BY DEF Texts
    <2> QED BY <1>0, <2>1, <2>2, <2>3, <2>4, TextChanged
  <1>9. ASSUME NEW t \in Tickets, NEW lines \in HandTexts, HandEdit(t, lines) PROVE FilesInv'
    <2>1. Put(t, lines, ByHand[lines]) /\ UNCHANGED <<pc, req, copy>>
      BY <1>9 DEF HandEdit
    <2>2. lines \in Texts /\ Reads(lines, ByHand[lines])
      BY TextsAssumption DEF TextsReadable, Reads, ByHand
    <2>3. \A u \in Tickets \ {t} : md'[u] = md[u]
      BY <1>9 DEF HandEdit, TypeOK
    <2>4. \A v \in Workers : At(v, "write", "AddComment")' => At(v, "write", "AddComment")
      BY <2>1 DEF At
    <2> QED BY <1>0, <2>1, <2>2, <2>3, <2>4, TextChanged
  <1>10. CASE RestartF
    <2>1. Restart /\ Same /\ copy' = [w \in Workers |-> None]
      BY <1>10 DEF RestartF
    <2>2. copy' = [w \in Workers |-> copy'[w]] /\ md' = md
      BY <2>1 DEF Restart
    <2>3. \A v \in Workers : ~ At(v, "write", "AddComment")'
      BY <2>1 DEF Restart, At
    <2> QED BY <2>1, <2>2, <2>3, TextsKept
  <1>11. CASE UNCHANGED varsF
    <2>1. Same /\ md' = md /\ copy' = copy /\ UNCHANGED <<pc, req>>
      BY <1>11 DEF varsF, Same
    <2>2. \A v \in Workers : At(v, "write", "AddComment")' => At(v, "write", "AddComment")
      BY <2>1 DEF At
    <2> QED BY <1>0, <2>1, <2>2, TextsKept
  <1> QED
    BY <1>1, <1>2, <1>3, <1>4, <1>5, <1>6, <1>7, <1>8, <1>9, <1>10, <1>11 DEF NextF, StepF

\* The program starts without files.
LEMMA FilesInit == InitF => TypeOK /\ FilesInv
  <1> SUFFICES ASSUME InitF PROVE FilesInv
    BY TypeInit DEF InitF
  <1>1. <<>> \in Texts
    BY DEF Texts
  <1> QED BY <1>1 DEF InitF, Init, FilesInv, At

\* As long as what requests and people write reads back by itself, every file reads
\* back as the ticket it holds with each comment added since: with texts of any
\* length and any number of comments, whatever overlaps, fails or stops.
THEOREM FilesAlwaysReadBack == TextsReadable => (SpecF => []FilesReadBack)
  <1> SUFFICES ASSUME TextsReadable PROVE SpecF => []FilesReadBack
    OBVIOUS
  <1>1. TypeOK /\ FilesInv /\ [NextF]_varsF => FilesInv'
    BY FilesStep
  <1>2. FilesInv => FilesReadBack
    BY DEF FilesInv, Reads, FilesReadBack
  <1> QED BY <1>1, <1>2, FilesInit, TypeStepF, PTL DEF SpecF

-----------------------------------------------------------------------------
(***************************************************************************)
(* The files hold the contents of TicketStore.                             *)
(***************************************************************************)

\* TicketStore has the content of the ticket that was written, and a comment is
\* added to it where it is appended to the text.
ContentInv ==
    /\ \A t \in Tickets : md[t] = None => text[t] = <<>>
    /\ \A t \in Tickets : md[t] # None => md[t] = Content(known[t])
    /\ \A w \in Workers : At(w, "write", "AddComment") => mem[w] = Content(copy[w].known)

\* The comments of a file are in a sequence.
LEMMA ParsedComments ==
    ASSUME NEW S, NEW section \in Seq(S)
    PROVE  \E R : CommentsIn(section) \in Seq(R)
  <1> DEFINE n == Cardinality(Heads(section))
             f == [k \in 1..n |-> CommentAt(section, Nth(Heads(section), k))]
             R == {f[k] : k \in 1..n}
  <1>1. n \in Nat
    <2>1. Len(section) \in Nat /\ Heads(section) \subseteq 1..Len(section)
      BY DEF Heads
    <2> QED BY <2>1, NumbersFinite
  <1>2. f \in [1..n -> R]
    OBVIOUS
  <1>3. f \in Seq(R)
    <2> HIDE DEF f, R, n
    <2> QED BY <1>1, <1>2
  <1>4. CommentsIn(section) = f
    BY DEF CommentsIn
  <1> HIDE DEF f, R
  <1> QED BY <1>3, <1>4

LEMMA TicketRead ==
    ASSUME NEW lines, NEW k, Reads(lines, k)
    PROVE  \E l, d, R : \E cs \in Seq(R) : IsTicket(k, l, d, cs)
  <1>1. lines \in Seq(Lines) /\ Sectioned(lines) /\ k = ParseTicket(lines)
    BY DEF Reads, Texts
  <1>2. PICK b \in Seq(Lines) : b = From(lines, 4)
    BY <1>1, SectionsFound
  <1>3. IsTicket(k, lines[2].labels, ParseDescription(b), ParseComments(b))
    BY <1>1, <1>2, ParseSectioned DEF IsTicket
  <1>4. PICK c \in 1..Len(b) : c = FirstLine(b, "Comments")
    BY <1>1, <1>2, SectionsFound
  <1>5. PICK e \in Seq(Lines) : e = From(b, c + 1)
    <2>1. PICK n \in 1..(Len(b) + 1) : n = c + 1
      <3>1. c + 1 \in 1..(Len(b) + 1)
        OBVIOUS
      <3> QED BY <3>1
    <2> QED BY <2>1, FromIs
  <1>6. ParseComments(b) = CommentsIn(e)
    BY <1>4, <1>5 DEF ParseComments
  <1>7. PICK R : ParseComments(b) \in Seq(R)
    BY <1>6, ParsedComments
  <1> QED BY <1>3, <1>7

\* q is r with comment c.
HasOneMore(q, r, c) == q = [r EXCEPT !.comments = @ \cup {c}]

LEMMA OneMoreInContent ==
    ASSUME NEW l, NEW A, NEW r, NEW q, NEW c,
           r = [labels |-> l, comments |-> A], q = [labels |-> l, comments |-> A \cup {c}]
    PROVE  HasOneMore(q, r, c)
  <1>1. PICK B : B = A \cup {c}
    OBVIOUS
  <1>2. q = [r EXCEPT !.comments = B]
    BY <1>1
  <1>3. r.comments = A
    OBVIOUS
  <1> QED BY <1>1, <1>2, <1>3 DEF HasOneMore

\* With a comment at its end, a file holds one comment more.
LEMMA ContentAdded ==
    ASSUME NEW lines, NEW k, Reads(lines, k), NEW c \in Comments
    PROVE  Content(WithComment(k, c)) = [Content(k) EXCEPT !.comments = @ \cup {c}]
  <1>1. PICK l, d, R : \E cs \in Seq(R) : IsTicket(k, l, d, cs)
    BY TicketRead
  <1>2. PICK cs \in Seq(R) : IsTicket(k, l, d, cs)
    BY <1>1
  <1>3. WithComment(k, c).labels = l /\ WithComment(k, c).comments = Append(cs, c)
    BY <1>2, OneMoreComment DEF IsTicket
  <1>4. k.labels = l /\ k.comments = cs
    BY <1>2 DEF IsTicket
  <1>5. SX!ToSet(Append(cs, c)) = SX!ToSet(cs) \cup {c}
    <2>1. cs \in Seq(R \cup {c}) /\ Len(cs) \in Nat /\ DOMAIN cs = 1..Len(cs)
      OBVIOUS
    <2>2. /\ DOMAIN Append(cs, c) = 1..(Len(cs) + 1)
          /\ \A i \in 1..Len(cs) : Append(cs, c)[i] = cs[i]
          /\ Append(cs, c)[Len(cs) + 1] = c
      <3>1. Append(cs, c) \in Seq(R \cup {c}) /\ Len(Append(cs, c)) = Len(cs) + 1
        BY <2>1, AppendProperties
      <3> QED BY <2>1, <3>1, AppendProperties, LenProperties
    <2>3. \A i : i \in 1..(Len(cs) + 1) <=> i \in 1..Len(cs) \/ i = Len(cs) + 1
      BY <2>1
    <2> QED BY <2>1, <2>2, <2>3, Zenon DEF SX!ToSet
  <1>6. PICK A : A = Comments \cap SX!ToSet(cs)
    OBVIOUS
  <1>7. Content(k) = [labels |-> l, comments |-> A]
    BY <1>4, <1>6 DEF Content
  <1>8. Content(WithComment(k, c)) = [labels |-> l, comments |-> A \cup {c}]
    <2>1. Comments \cap (SX!ToSet(cs) \cup {c}) = A \cup {c}
      BY <1>6
    <2> QED BY <1>3, <1>5, <2>1 DEF Content
  <1>9. PICK r, q : r = Content(k) /\ q = Content(WithComment(k, c))
    OBVIOUS
  <1>10. HasOneMore(q, r, c)
    BY <1>7, <1>8, <1>9, OneMoreInContent
  <1> QED BY <1>9, <1>10, Zenon DEF HasOneMore

\* A step that leaves the files alone and brings no one to write a comment.
LEMMA ContentsKept ==
    ASSUME ContentInv, Same, \A t \in Tickets : md'[t] = md[t],
           \A w \in Workers : At(w, "write", "AddComment")'
              => At(w, "write", "AddComment") /\ copy'[w] = copy[w] /\ mem'[w] = mem[w]
    PROVE  ContentInv'
  BY DEF ContentInv, Same

\* A step that changes the file of a ticket and what TicketStore has for it, and
\* brings no one to write a comment.
LEMMA ContentChanged ==
    ASSUME FilesInv, ContentInv, NEW t \in Tickets, NEW lines, NEW k, Put(t, lines, k),
           \A u \in Tickets \ {t} : md'[u] = md[u],
           \/ md'[t] = None /\ lines = <<>>
           \/ md'[t] # None /\ md'[t] = Content(k),
           \A w \in Workers : At(w, "write", "AddComment")'
              => At(w, "write", "AddComment") /\ copy'[w] = copy[w] /\ mem'[w] = mem[w]
    PROVE  ContentInv'
  <1>1. text' = [text EXCEPT ![t] = lines] /\ known' = [known EXCEPT ![t] = k]
    BY DEF Put
  <1>2. text'[t] = lines /\ \A u \in Tickets \ {t} : text'[u] = text[u]
    BY <1>1 DEF FilesInv
  <1>3. known'[t] = k /\ \A u \in Tickets \ {t} : known'[u] = known[u]
    <2>1. known = [u \in Tickets |-> known[u]]
      BY DEF FilesInv
    <2> QED BY <1>1, <2>1
  <1>4. ASSUME NEW u \in Tickets PROVE /\ md'[u] = None => text'[u] = <<>>
                                       /\ md'[u] # None => md'[u] = Content(known'[u])
    <2>1. CASE u = t
      BY <1>2, <1>3, <2>1
    <2>2. CASE u # t
      BY <1>2, <1>3, <2>2 DEF ContentInv
    <2> QED BY <2>1, <2>2
  <1>5. ASSUME NEW w \in Workers, At(w, "write", "AddComment")'
        PROVE  mem'[w] = Content(copy'[w].known)
    BY <1>5 DEF ContentInv
  <1> QED BY <1>4, <1>5 DEF ContentInv

\* The worker that moves is the only one whose ticket to write may change.
LEMMA OthersKeep ==
    ASSUME TypeOK, NEW w \in Workers, Step(w) \/ IOError(w), ~ Read(w)
    PROVE  \A v \in Workers : At(v, "write", "AddComment")'
              => v # w /\ At(v, "write", "AddComment") /\ mem'[v] = mem[v]
  BY NoNewComment, OnlyOwnFile DEF Moves

\* Every step keeps the contents those of the files.
LEMMA ContentStep ==
    TypeOK /\ FilesInv /\ ContentInv /\ [NextF]_varsF => ContentInv'
  <1> SUFFICES ASSUME TypeOK, FilesInv, ContentInv, [NextF]_varsF PROVE ContentInv'
    OBVIOUS
  <1>1. ASSUME NEW w \in Workers, NEW q \in Requests, BeginF(w, q) PROVE ContentInv'
    <2>1. Begin(w, q) /\ Same /\ UNCHANGED <<md, mem, copy>>
      BY <1>1 DEF BeginF, Begin
    <2>2. FirstStep(q) = "write" => q.op = "Create"
      BY DEF FirstStep
    <2>3. \A v \in Workers : At(v, "write", "AddComment")' => At(v, "write", "AddComment")
      BY <2>1, <2>2 DEF Begin, Goes, At, TypeOK
    <2> QED BY <2>1, <2>3, ContentsKept
  <1>2. ASSUME NEW w \in Workers, ReadText(w) PROVE ContentInv'
    <2>1. Read(w) /\ Same /\ md' = md
      BY <1>2 DEF ReadText, Read
    <2>2. req[w].id \in Tickets /\ md[req[w].id] # None
      BY <2>1, Serving, RequestFields DEF Read, ReadOp, File
    <2>3. PICK c : /\ copy' = [copy EXCEPT ![w] = c]
                   /\ req[w].op = "AddComment"
                         => c = [text |-> text[req[w].id], known |-> known[req[w].id]]
      BY <1>2 DEF ReadText
    <2>4. copy'[w] = c /\ \A v \in Workers \ {w} : copy'[v] = copy[v]
      BY <2>3, CopyChanged
    <2>5. /\ req' = req /\ mem'[w] = md[req[w].id]
          /\ \A v \in Workers \ {w} : pc'[v] = pc[v] /\ mem'[v] = mem[v]
      BY <2>1 DEF Read, File, Goes, TypeOK
    <2>6. ASSUME NEW v \in Workers, At(v, "write", "AddComment")'
          PROVE  mem'[v] = Content(copy'[v].known)
      <3>1. CASE v = w
        <4>1. copy'[w].known = known[req[w].id]
          BY <2>3, <2>4, <2>5, <2>6, <3>1 DEF At
        <4>2. md[req[w].id] = Content(known[req[w].id])
          BY <2>2 DEF ContentInv
        <4> QED BY <2>5, <3>1, <4>1, <4>2
      <3>2. CASE v # w
        BY <2>4, <2>5, <2>6, <3>2 DEF At, ContentInv
      <3> QED BY <3>1, <3>2
    <2> QED BY <2>1, <2>6 DEF ContentInv, Same
  <1>3. ASSUME NEW w \in Workers, WriteTicketText(w) PROVE ContentInv'
    <2>1. WriteTicket(w) /\ copy' = copy
      BY <1>3 DEF WriteTicketText
    <2>2. PICK d \in Descriptions :
             Put(req[w].id, FormatTicket(Written(req[w], d)), Written(req[w], d))
      BY <1>3 DEF WriteTicketText
    <2>3. req[w].id \in Tickets /\ req[w].op \in {"Create", "Update"} /\ req[w].labels \in SUBSET Labels
      BY <2>1, Serving, RequestFields DEF WriteTicket
    <2>4. PICK c : c = [labels |-> req[w].labels, comments |-> {}]
      OBVIOUS
    <2>5. md'[req[w].id] = c /\ \A u \in Tickets \ {req[w].id} : md'[u] = md[u]
      BY <2>1, <2>3, <2>4 DEF WriteTicket, WriteFile, TypeOK
    <2>6. c # None
      BY <2>3, <2>4, NoContentAssumption DEF Contents
    <2>7. c = Content(Written(req[w], d))
      <3>1. SX!ToSet(<<>>) = {}
        BY DEF SX!ToSet
      <3> QED BY <2>4, <3>1 DEF Content, Written
    <2>8. \A v \in Workers : At(v, "write", "AddComment")'
              => At(v, "write", "AddComment") /\ mem'[v] = mem[v]
      BY <2>1, <2>3, OthersKeep DEF Step, WriteTicket, Read, ReadOp
    <2> QED BY <2>1, <2>2, <2>3, <2>5, <2>6, <2>7, <2>8, ContentChanged
  <1>4. ASSUME NEW w \in Workers, WriteCommentText(w) PROVE ContentInv'
    <2>1. WriteComment(w) /\ At(w, "write", "AddComment") /\ copy' = [copy EXCEPT ![w] = None]
      BY <1>4 DEF WriteCommentText, WriteComment, Forgets
    <2>2. Put(req[w].id, AppendComment(copy[w].text, req[w].comment),
                         WithComment(copy[w].known, req[w].comment))
      BY <1>4 DEF WriteCommentText
    <2>3. req[w].id \in Tickets /\ req[w].comment \in Comments
      BY <2>1, Serving, RequestFields DEF At
    <2>4. PICK c : c = [mem[w] EXCEPT !.comments = @ \cup {req[w].comment}]
      OBVIOUS
    <2>5. md'[req[w].id] = c /\ \A u \in Tickets \ {req[w].id} : md'[u] = md[u]
      BY <2>1, <2>3, <2>4 DEF WriteComment, WriteFile, TypeOK
    <2>6. c # None
      <3>1. mem[w] \in Contents
        BY <2>1 DEF At, TypeOK
      <3>2. c \in Contents
        BY <2>3, <2>4, <3>1 DEF Contents
      <3> QED BY <3>2, NoContentAssumption
    <2>7. c = Content(WithComment(copy[w].known, req[w].comment))
      <3>1. mem[w] = Content(copy[w].known) /\ Reads(copy[w].text, copy[w].known)
        BY <2>1 DEF ContentInv, FilesInv
      <3> QED BY <2>3, <2>4, <3>1, ContentAdded
    <2>8. \A v \in Workers \ {w} : copy'[v] = copy[v]
      BY <2>1, CopyChanged
    <2>9. \A v \in Workers : At(v, "write", "AddComment")'
              => v # w /\ At(v, "write", "AddComment") /\ mem'[v] = mem[v]
      BY <2>1, OthersKeep DEF Step, At, Read, ReadOp
    <2> QED BY <2>2, <2>3, <2>5, <2>6, <2>7, <2>8, <2>9, ContentChanged
  <1>5. ASSUME NEW w \in Workers, RemoveText(w) PROVE ContentInv'
    <2>1. RemoveFile(w) /\ copy' = copy /\ Put(req[w].id, <<>>, None)
      BY <1>5 DEF RemoveText
    <2>2. req[w].id \in Tickets
      BY <2>1, Serving, RequestFields DEF RemoveFile, TypeOK
    <2>3. md'[req[w].id] = None /\ \A u \in Tickets \ {req[w].id} : md'[u] = md[u]
      BY <2>1, <2>2 DEF RemoveFile, WriteFile, TypeOK
    <2>4. \A v \in Workers : At(v, "write", "AddComment")'
              => At(v, "write", "AddComment") /\ mem'[v] = mem[v]
      BY <2>1, OthersKeep DEF Step, RemoveFile, Read, ReadOp
    <2> QED BY <2>1, <2>2, <2>3, <2>4, ContentChanged
  <1>6. ASSUME NEW w \in Workers, OtherStep(w) PROVE ContentInv'
    <2>1. Step(w) /\ Same /\ copy' = copy
      BY <1>6 DEF OtherStep, Step
    <2>2. ~ Read(w)
      BY <1>6 DEF OtherStep, NotFound, IndexCreated, IndexUpdated, ReadForDelete, Unindex,
                  AskIndex, ReadDir, ListDone, ReadListed, ListedFileGone, Respond, Read, ReadOp,
                  At, ListOps
    <2>3. md' = md
      BY <1>6 DEF OtherStep, NotFound, IndexCreated, IndexUpdated, ReadForDelete, Unindex,
                  AskIndex, ReadDir, ListDone, ReadListed, ListedFileGone, Respond, files
    <2> QED BY <2>1, <2>2, <2>3, OthersKeep, ContentsKept
  <1>7. ASSUME NEW w \in Workers, IOErrorF(w) PROVE ContentInv'
    <2>1. IOError(w) /\ Same /\ md' = md /\ copy' = [copy EXCEPT ![w] = None]
      BY <1>7 DEF IOErrorF, IOError, Forgets, files
    <2>2. \A v \in Workers \ {w} : copy'[v] = copy[v]
      BY <2>1, CopyChanged
    <2>3. \A v \in Workers : At(v, "write", "AddComment")'
              => v # w /\ At(v, "write", "AddComment") /\ mem'[v] = mem[v]
      <3>1. pc'[w] # "write"
        BY <2>1 DEF IOError, Answer, Goes, TypeOK
      <3> QED BY <2>1, <3>1, OnlyOwnFile DEF Moves, At
    <2> QED BY <2>1, <2>2, <2>3, ContentsKept
  <1>8. ASSUME NEW t \in Tickets, DropFileF(t) PROVE ContentInv'
    <2>1. DropFile(t) /\ copy' = copy /\ Put(t, <<>>, None)
      BY <1>8 DEF DropFileF
    <2>2. md'[t] = None /\ (\A u \in Tickets \ {t} : md'[u] = md[u]) /\ UNCHANGED <<pc, req, mem>>
      BY <2>1 DEF DropFile, TypeOK
    <2> QED BY <2>1, <2>2, ContentChanged DEF At
  <1>9. ASSUME NEW t \in Tickets, NEW lines \in HandTexts, HandEdit(t, lines) PROVE ContentInv'
    <2>1. Put(t, lines, ByHand[lines]) /\ UNCHANGED <<pc, req, mem, copy>>
      BY <1>9 DEF HandEdit
    <2>2. PICK c : c = Content(ByHand[lines])
      OBVIOUS
    <2>3. c # None
      BY <2>2, HandLabels, NoContentAssumption DEF Content, Contents
    <2>4. md'[t] = c /\ \A u \in Tickets \ {t} : md'[u] = md[u]
      BY <1>9, <2>2 DEF HandEdit, TypeOK
    <2> QED BY <2>1, <2>2, <2>3, <2>4, ContentChanged DEF At
  <1>10. CASE RestartF
    <2>1. Same /\ md' = md /\ \A v \in Workers : ~ At(v, "write", "AddComment")'
      BY <1>10 DEF RestartF, Restart, At
    <2> QED BY <2>1, ContentsKept
  <1>11. CASE UNCHANGED varsF
    <2>1. Same /\ UNCHANGED <<md, pc, req, mem, copy>>
      BY <1>11 DEF varsF, Same
    <2> QED BY <2>1, ContentsKept DEF At
  <1> QED
    BY <1>1, <1>2, <1>3, <1>4, <1>5, <1>6, <1>7, <1>8, <1>9, <1>10, <1>11 DEF NextF, StepF

\* Where nobody edits files, TicketFiles does what TicketStore does: what is proved
\* of the index and of added comments holds beside the texts.
THEOREM FilesAreThoseOfTicketStore == HandTexts = {} => (SpecF => Spec)
  <1> SUFFICES ASSUME HandTexts = {} PROVE SpecF => Spec
    OBVIOUS
  <1>1. InitF => Init
    BY DEF InitF
  <1>2. [NextF]_varsF => [Next]_vars
    BY FileStepIs
  <1> QED BY <1>1, <1>2, PTL DEF SpecF, Spec

\* As long as what requests and people write reads back by itself, the reader finds
\* in every file the labels and comments that TicketStore has for it: what its
\* properties say of the content of files, they say of the texts.
THEOREM FilesAlwaysHoldContents == TextsReadable => (SpecF => []FilesHoldContents)
  <1> SUFFICES ASSUME TextsReadable PROVE SpecF => []FilesHoldContents
    OBVIOUS
  <1>1. InitF => ContentInv
    BY DEF InitF, Init, ContentInv, At
  <1>2. TypeOK /\ FilesInv /\ [NextF]_varsF => FilesInv'
    BY FilesStep
  <1>3. FilesInv /\ ContentInv => FilesHoldContents
    <2> SUFFICES ASSUME FilesInv, ContentInv, NEW t \in Tickets
                 PROVE  md[t] = IF text[t] = <<>> THEN None ELSE Content(ParseTicket(text[t]))
      BY DEF FilesHoldContents
    <2>1. CASE md[t] = None
      BY <2>1 DEF ContentInv
    <2>2. CASE md[t] # None
      <3>1. text[t] \in Seq(Lines) /\ Sectioned(text[t]) /\ ParseTicket(text[t]) = known[t]
        BY <2>2 DEF FilesInv, Reads, Texts
      <3>2. text[t] # <<>>
        BY <3>1, EmptySeq DEF Sectioned, HasFrontMatter
      <3> QED BY <2>2, <3>1, <3>2 DEF ContentInv
    <2> QED BY <2>1, <2>2
  <1> QED BY <1>1, <1>2, <1>3, FilesInit, TypeStepF, ContentStep, PTL DEF SpecF

-----------------------------------------------------------------------------
(***************************************************************************)
(* Comments are appended.                                                  *)
(***************************************************************************)

\* Who writes a file leaves the tickets alone that a request changes.
LEMMA CommentStepF == Exclusive /\ TypeOK /\ CommentInv /\ [NextF]_varsF => CommentInv'
  <1> SUFFICES ASSUME Exclusive, TypeOK, CommentInv, [NextF]_varsF PROVE CommentInv'
    OBVIOUS
  <1>1. ASSUME NEW t \in Tickets, NEW lines \in HandTexts, HandEdit(t, lines) PROVE CommentInv'
    <2>1. UNCHANGED <<pc, req, mem>> /\ \A u \in Tickets \ {t} : md'[u] = md[u]
      BY <1>1 DEF HandEdit, TypeOK
    <2>2. OneMutation'
      BY <2>1 DEF CommentInv, OneMutation, Mutates
    <2>3. ASSUME NEW w \in Workers PROVE ReadIsCurrent(w)'
      <3>1. At(w, "write", "AddComment") => req[w].id \in Tickets /\ req[w].id # t
        BY <1>1, Serving, RequestFields DEF At, HandEdit, Mutates
      <3> QED BY <2>1, <3>1 DEF CommentInv, ReadIsCurrent, At, File
    <2> QED BY <2>2, <2>3 DEF CommentInv
  <1> QED BY <1>1, CommentStep, FileStepIs

\* As long as mutations of one ticket do not overlap, an added comment is added to
\* what the file holds when it is written, also where people edit the files between
\* the requests that change them.
THEOREM CommentsAreAppendedToFiles == Exclusive => (SpecF => CommentAppended)
  <1> SUFFICES ASSUME Exclusive PROVE SpecF => CommentAppended
    OBVIOUS
  <1>1. InitF => TypeOK /\ CommentInv
    BY TypeInit DEF InitF, Init, CommentInv, OneMutation, ReadIsCurrent, At
  <1>2. TypeOK /\ CommentInv /\ [NextF]_varsF => CommentInv'
    BY CommentStepF
  <1>3. TypeOK /\ CommentInv /\ [NextF]_varsF =>
            [\A w \in Workers :
                At(w, "write", "AddComment") /\ pc'[w] = "done" /\ res'[w] = "ok" /\ File(w) # None
                   => md'[req[w].id] = [File(w) EXCEPT !.comments = @ \cup {req[w].comment}]]_vars
    <2> SUFFICES ASSUME TypeOK, CommentInv, [NextF]_varsF, NEW w \in Workers,
                        At(w, "write", "AddComment"), pc'[w] = "done", res'[w] = "ok",
                        File(w) # None
                 PROVE  md'[req[w].id] = [File(w) EXCEPT !.comments = @ \cup {req[w].comment}]
      OBVIOUS
    <2>1. [Next]_vars
      BY FileStepIs DEF HandEdit, At
    <2> QED BY <2>1, CommentWritten
  <1> QED BY <1>1, <1>2, <1>3, TypeStepF, PTL DEF SpecF, CommentAppended
=============================================================================
