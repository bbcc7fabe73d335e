-------------------------- MODULE ConfLinesProofs --------------------------
(***************************************************************************)
(* What the edits of a configuration file do to its lines, for files of    *)
(* any length.  The edits drop lines by recursion over the file; facts     *)
(* about all files follow by induction, which comes here from the least    *)
(* element of a set of natural numbers.                                    *)
(***************************************************************************)
EXTENDS ConfLines, SequenceTheorems, WellFoundedInduction, TLAPS

\* A set of natural numbers has a least element.
LEMMA LeastNatural ==
    ASSUME NEW S \in SUBSET Nat, S # {}
    PROVE  \E m \in S : \A k \in S : m <= k
<1> DEFINE less == {p \in Nat \X Nat : p[1] < p[2]}
<1>1. IsWellFoundedOn(less, Nat)
  BY Zenon, NatLessThanWellFounded DEF OpToRel
<1> HIDE DEF less
<1>2. PICK m \in S : \A k \in S : ~(<<k, m>> \in less)
  BY <1>1, WFMin
<1>3. ASSUME NEW k \in S PROVE m <= k
  <2> DEFINE p == <<k, m>>
  <2>1. p \in Nat \X Nat /\ p[1] = k /\ p[2] = m
    OBVIOUS
  <2>2. k \in Nat /\ m \in Nat /\ p \notin less
    BY <1>2
  <2> HIDE DEF p
  <2>3. ~(p[1] < p[2])
    BY <2>1, <2>2 DEF less
  <2>4. QED
    BY <2>1, <2>2, <2>3
<1>4. QED
  BY <1>3

\* Induction over the natural numbers, on the set of those of which a fact holds.
LEMMA NatSetInduction ==
    ASSUME NEW S, 0 \in S, \A n \in Nat : n \in S => n + 1 \in S
    PROVE  Nat \subseteq S
<1> SUFFICES ASSUME ~(Nat \subseteq S) PROVE FALSE
  OBVIOUS
<1> DEFINE T == {n \in Nat : n \notin S}
<1>1. PICK m \in T : \A k \in T : m <= k
  BY LeastNatural
<1>2. m # 0 /\ m - 1 \in Nat /\ m - 1 \notin T
  BY <1>1
<1>3. QED
  BY <1>1, <1>2

\* Induction over sequences, likewise.
LEMMA SeqSetInduction ==
    ASSUME NEW S, NEW Q, <<>> \in Q,
           \A s \in Seq(S), e \in S : s \in Q => Append(s, e) \in Q
    PROVE  Seq(S) \subseteq Q
<1> DEFINE T == {n \in Nat : \A s \in Seq(S) : Len(s) = n => s \in Q}
<1>1. 0 \in T
  <2>1. ASSUME NEW s \in Seq(S), Len(s) = 0 PROVE s \in Q
    <3>1. s = <<>>
      BY <2>1, EmptySeq
    <3>2. QED
      BY <3>1
  <2>2. QED
    BY <2>1
<1>2. ASSUME NEW n \in Nat, n \in T PROVE n + 1 \in T
  <2>1. ASSUME NEW s \in Seq(S), Len(s) = n + 1 PROVE s \in Q
    <3>1. s # <<>>
      BY <2>1, EmptySeq
    <3>2. PICK t \in Seq(S), e \in S : s = Append(t, e)
      BY <3>1, SequenceEmptyOrAppend
    <3>3. Len(t) = n
      BY <2>1, <3>2, AppendProperties, LenProperties
    <3>4. QED
      BY <1>2, <3>2, <3>3
  <2>2. QED
    BY <2>1
<1>3. Nat \subseteq T
  <2> HIDE DEF T
  <2>1. QED
    BY <1>1, <1>2, NatSetInduction
<1>4. ASSUME NEW s \in Seq(S) PROVE s \in Q
  BY <1>3, LenProperties
<1>5. QED
  BY <1>4

-----------------------------------------------------------------------------
\* The prefixes of what is kept of a file, as Kept computes them.
IsUpTo(f, c, places, m) ==
    f = [n \in 0..m |->
            IF n = 0 THEN <<>>
            ELSE IF n \in places THEN Append(f[n - 1], c[n]) ELSE f[n - 1]]

Follows(f, c, places, m) ==
    \A n \in 0..m : f[n] = IF n = 0 THEN <<>>
                           ELSE IF n \in places THEN Append(f[n - 1], c[n]) ELSE f[n - 1]

LEMMA UpToFollows ==
    ASSUME NEW f, NEW c, NEW places, NEW m \in Nat, IsUpTo(f, c, places, m), NEW k \in 0..m
    PROVE  Follows(f, c, places, k)
<1>1. ASSUME NEW n \in 0..k
      PROVE  f[n] = IF n = 0 THEN <<>>
                    ELSE IF n \in places THEN Append(f[n - 1], c[n]) ELSE f[n - 1]
  <2>1. n \in 0..m
    OBVIOUS
  <2>2. QED
    BY <2>1 DEF IsUpTo
<1>2. QED
  BY <1>1 DEF Follows

LEMMA UpToExists ==
    ASSUME NEW c, NEW places, NEW m \in Nat
    PROVE  \E f : IsUpTo(f, c, places, m)
<1> DEFINE T == {n \in Nat : \E f : IsUpTo(f, c, places, n)}
<1>1. 0 \in T
  <2> DEFINE f == [n \in 0..0 |-> <<>>]
  <2>1. IsUpTo(f, c, places, 0)
    BY DEF IsUpTo
  <2>2. QED
    BY <2>1
<1>2. ASSUME NEW k \in Nat, k \in T PROVE k + 1 \in T
  <2>1. PICK f : IsUpTo(f, c, places, k)
    BY <1>2
  <2> DEFINE last == IF k + 1 \in places THEN Append(f[k], c[k + 1]) ELSE f[k]
             g == [n \in 0..k + 1 |-> IF n = k + 1 THEN last ELSE f[n]]
  <2>2. ASSUME NEW n \in 0..k + 1
        PROVE  g[n] = IF n = 0 THEN <<>>
                      ELSE IF n \in places THEN Append(g[n - 1], c[n]) ELSE g[n - 1]
    <3>1. CASE n = k + 1
      <4>1. g[n] = last /\ g[n - 1] = f[k]
        BY <3>1
      <4> HIDE DEF g
      <4>2. QED
        BY <3>1, <4>1
    <3>2. CASE n \in 0..k
      <4>1. g[n] = f[n] /\ (n # 0 => g[n - 1] = f[n - 1])
        BY <3>2
      <4> HIDE DEF g
      <4>2. f[n] = IF n = 0 THEN <<>>
                   ELSE IF n \in places THEN Append(f[n - 1], c[n]) ELSE f[n - 1]
        BY <2>1, <3>2 DEF IsUpTo
      <4>3. QED
        BY <4>1, <4>2
    <3>3. QED
      BY <3>1, <3>2
  <2>3. g = [n \in 0..k + 1 |->
                IF n = 0 THEN <<>>
                ELSE IF n \in places THEN Append(g[n - 1], c[n]) ELSE g[n - 1]]
    BY <2>2
  <2>4. IsUpTo(g, c, places, k + 1)
    BY <2>3 DEF IsUpTo
  <2>5. QED
    BY <2>4
<1>3. Nat \subseteq T
  <2> HIDE DEF T
  <2>1. QED
    BY <1>1, <1>2, NatSetInduction
<1>4. QED
  BY <1>3

\* Kept is the last of its prefixes.
LEMMA KeptIsUpTo ==
    ASSUME NEW S, NEW c \in Seq(S), NEW places
    PROVE  \E f : IsUpTo(f, c, places, Len(c)) /\ Kept(c, places) = f[Len(c)]
<1> DEFINE f == CHOOSE f : f = [n \in 0..Len(c) |->
            IF n = 0 THEN <<>>
            ELSE IF n \in places THEN Append(f[n - 1], c[n]) ELSE f[n - 1]]
<1>1. Len(c) \in Nat
  BY LenProperties
<1>2. \E g : IsUpTo(g, c, places, Len(c))
  BY <1>1, UpToExists
<1>3. Kept(c, places) = f[Len(c)]
  BY Zenon DEF Kept
<1>4. IsUpTo(f, c, places, Len(c))
  BY <1>2, Zenon DEF IsUpTo
<1> HIDE DEF f
<1>5. QED
  BY <1>3, <1>4

\* Prefixes are alike as long as the files are alike at the places kept.
LEMMA UpToAgrees ==
    ASSUME NEW c, NEW d, NEW places, NEW others, NEW f, NEW g, NEW k \in Nat,
           Follows(f, c, places, k), Follows(g, d, others, k),
           \A i \in 1..k : (i \in places <=> i \in others) /\ (i \in places => c[i] = d[i])
    PROVE  f[k] = g[k]
<1> DEFINE T == {n \in Nat : n <= k => f[n] = g[n]}
<1>1. 0 \in T
  BY DEF Follows
<1>2. ASSUME NEW n \in Nat, n \in T PROVE n + 1 \in T
  <2> SUFFICES ASSUME n + 1 <= k PROVE f[n + 1] = g[n + 1]
    OBVIOUS
  <2>1. f[n] = g[n] /\ n + 1 \in 1..k
    BY <1>2
  <2>2. n + 1 \in 0..k /\ n + 1 # 0 /\ (n + 1) - 1 = n
    OBVIOUS
  <2>3. f[n + 1] = IF n + 1 \in places THEN Append(f[n], c[n + 1]) ELSE f[n]
    BY <2>2 DEF Follows
  <2>4. g[n + 1] = IF n + 1 \in others THEN Append(g[n], d[n + 1]) ELSE g[n]
    BY <2>2 DEF Follows
  <2>5. QED
    BY <2>1, <2>3, <2>4
<1>3. Nat \subseteq T
  <2> HIDE DEF T
  <2>1. QED
    BY <1>1, <1>2, NatSetInduction
<1>4. QED
  BY <1>3

\* What is kept depends on the lines at the places kept only.
LEMMA KeptAgrees ==
    ASSUME NEW S, NEW c \in Seq(S), NEW d \in Seq(S), Len(c) = Len(d), NEW places, NEW others,
           \A i \in 1..Len(c) : i \in places <=> i \in others,
           \A i \in 1..Len(c) : i \in places => c[i] = d[i]
    PROVE  Kept(c, places) = Kept(d, others)
<1>1. PICK f : IsUpTo(f, c, places, Len(c)) /\ Kept(c, places) = f[Len(c)]
  BY KeptIsUpTo
<1>2. PICK g : IsUpTo(g, d, others, Len(d)) /\ Kept(d, others) = g[Len(d)]
  BY KeptIsUpTo
<1>3. Len(c) \in Nat /\ Len(c) \in 0..Len(c)
  BY LenProperties
<1>4. Follows(f, c, places, Len(c)) /\ Follows(g, d, others, Len(c))
  BY <1>1, <1>2, <1>3, UpToFollows
<1>5. f[Len(c)] = g[Len(c)]
  BY <1>3, <1>4, UpToAgrees
<1>6. QED
  BY <1>1, <1>2, <1>5

LEMMA KeptOfEmpty == ASSUME NEW places PROVE Kept(<<>>, places) = <<>>
<1>1. <<>> \in Seq({}) /\ Len(<<>>) = 0
  BY EmptySeq
<1>2. PICK f : IsUpTo(f, <<>>, places, 0) /\ Kept(<<>>, places) = f[0]
  BY <1>1, KeptIsUpTo
<1>3. QED
  BY <1>2 DEF IsUpTo

\* A line at the end is kept after the others or dropped.
LEMMA KeptOfAppend ==
    ASSUME NEW S, NEW c \in Seq(S), NEW e \in S, NEW places, NEW others,
           \A i \in 1..Len(c) : i \in places <=> i \in others
    PROVE  Kept(Append(c, e), others)
               = IF Len(c) + 1 \in others THEN Append(Kept(c, places), e) ELSE Kept(c, places)
<1> DEFINE d == Append(c, e)
<1>1. /\ d \in Seq(S) /\ Len(d) = Len(c) + 1 /\ d[Len(c) + 1] = e
      /\ \A i \in 1..Len(c) : d[i] = c[i]
  BY AppendProperties
<1>2. Len(c) \in Nat
  BY LenProperties
<1> HIDE DEF d
<1>3. PICK f : IsUpTo(f, c, places, Len(c)) /\ Kept(c, places) = f[Len(c)]
  BY KeptIsUpTo
<1>4. PICK g : IsUpTo(g, d, others, Len(c) + 1) /\ Kept(d, others) = g[Len(c) + 1]
  BY <1>1, KeptIsUpTo
<1>5. f[Len(c)] = g[Len(c)]
  <2>1. Follows(f, c, places, Len(c)) /\ Follows(g, d, others, Len(c))
    BY <1>2, <1>3, <1>4, UpToFollows
  <2>2. \A i \in 1..Len(c) : (i \in places <=> i \in others) /\ (i \in places => c[i] = d[i])
    BY <1>1
  <2>3. QED
    BY <1>2, <2>1, <2>2, UpToAgrees
<1>6. g[Len(c) + 1] = IF Len(c) + 1 \in others THEN Append(g[Len(c)], d[Len(c) + 1]) ELSE g[Len(c)]
  <2>1. Follows(g, d, others, Len(c) + 1)
    BY <1>2, <1>4, UpToFollows
  <2>2. Len(c) + 1 \in 0..Len(c) + 1 /\ Len(c) + 1 # 0 /\ (Len(c) + 1) - 1 = Len(c)
    BY <1>2
  <2>3. QED
    BY <2>1, <2>2 DEF Follows
<1>7. Kept(d, others)
          = IF Len(c) + 1 \in others THEN Append(Kept(c, places), e) ELSE Kept(c, places)
  BY <1>1, <1>3, <1>4, <1>5, <1>6
<1>8. QED
  BY <1>7 DEF d

-----------------------------------------------------------------------------
LEMMA ConcatAppend ==
    ASSUME NEW S, NEW c \in Seq(S), NEW d \in Seq(S), NEW e \in S
    PROVE  c \o Append(d, e) = Append(c \o d, e)
<1>1. <<e>> \in Seq(S) /\ c \o d \in Seq(S)
  BY ConcatProperties
<1>2. Append(d, e) = d \o <<e>> /\ Append(c \o d, e) = (c \o d) \o <<e>>
  BY <1>1, AppendIsConcat
<1>3. QED
  BY <1>1, <1>2, ConcatAssociative

\* What every edit is stated by: the lines of a file that are in a set.
LinesIn(c, L) == Kept(c, {i \in DOMAIN c : c[i] \in L})

LEMMA LinesInEmpty == ASSUME NEW L PROVE LinesIn(<<>>, L) = <<>>
  BY KeptOfEmpty DEF LinesIn

LEMMA LinesInAppend ==
    ASSUME NEW S, NEW c \in Seq(S), NEW e \in S, NEW L
    PROVE  LinesIn(Append(c, e), L) = IF e \in L THEN Append(LinesIn(c, L), e) ELSE LinesIn(c, L)
<1> DEFINE d == Append(c, e)
           places == {i \in DOMAIN c : c[i] \in L}
           others == {i \in DOMAIN d : d[i] \in L}
<1>1. /\ Len(d) = Len(c) + 1 /\ d[Len(c) + 1] = e /\ \A i \in 1..Len(c) : d[i] = c[i]
      /\ DOMAIN d = 1..Len(c) + 1 /\ DOMAIN c = 1..Len(c) /\ Len(c) \in Nat
  BY AppendProperties, LenProperties
<1> HIDE DEF d
<1>2. \A i \in 1..Len(c) : i \in places <=> i \in others
  BY <1>1
<1>3. Len(c) + 1 \in others <=> e \in L
  BY <1>1
<1> HIDE DEF places, others
<1>4. Kept(d, others) = IF Len(c) + 1 \in others THEN Append(Kept(c, places), e) ELSE Kept(c, places)
  BY <1>2, KeptOfAppend DEF d
<1>5. LinesIn(d, L) = Kept(d, others) /\ LinesIn(c, L) = Kept(c, places)
  BY Zenon DEF LinesIn, places, others
<1>6. QED
  BY <1>3, <1>4, <1>5 DEF d

LEMMA LinesInType == ASSUME NEW S, NEW c \in Seq(S), NEW L PROVE LinesIn(c, L) \in Seq(S)
<1> DEFINE Q == {s \in Seq(S) : LinesIn(s, L) \in Seq(S)}
<1>1. <<>> \in Q
  BY LinesInEmpty, EmptySeq
<1>2. ASSUME NEW s \in Seq(S), NEW e \in S, s \in Q PROVE Append(s, e) \in Q
  <2>1. LinesIn(s, L) \in Seq(S) /\ Append(s, e) \in Seq(S)
    BY <1>2, AppendProperties
  <2>2. Append(LinesIn(s, L), e) \in Seq(S)
    BY <2>1, AppendProperties
  <2>4. LinesIn(Append(s, e), L) = IF e \in L THEN Append(LinesIn(s, L), e) ELSE LinesIn(s, L)
    BY LinesInAppend
  <2>5. QED
    BY <2>1, <2>2, <2>4
<1>3. Seq(S) \subseteq Q
  <2> HIDE DEF Q
  <2>1. QED
    BY <1>1, <1>2, SeqSetInduction
<1>4. QED
  BY <1>3

\* Filters compose to the filter of the lines that are in both sets.
LEMMA LinesInBoth ==
    ASSUME NEW S, NEW c \in Seq(S), NEW L, NEW M
    PROVE  LinesIn(LinesIn(c, L), M) = LinesIn(c, L \cap M)
<1> DEFINE Q == {s \in Seq(S) : LinesIn(LinesIn(s, L), M) = LinesIn(s, L \cap M)}
<1>1. <<>> \in Q
  BY LinesInEmpty, EmptySeq
<1>2. ASSUME NEW s \in Seq(S), NEW e \in S, s \in Q PROVE Append(s, e) \in Q
  <2>1. LinesIn(LinesIn(s, L), M) = LinesIn(s, L \cap M) /\ LinesIn(s, L) \in Seq(S)
    BY <1>2, LinesInType
  <2>2. LinesIn(Append(s, e), L) = IF e \in L THEN Append(LinesIn(s, L), e) ELSE LinesIn(s, L)
    BY LinesInAppend
  <2>3. LinesIn(Append(LinesIn(s, L), e), M)
            = IF e \in M THEN Append(LinesIn(LinesIn(s, L), M), e) ELSE LinesIn(LinesIn(s, L), M)
    BY ZenonT(30), <2>1, LinesInAppend
  <2>4. LinesIn(Append(s, e), L \cap M)
            = IF e \in L \cap M THEN Append(LinesIn(s, L \cap M), e) ELSE LinesIn(s, L \cap M)
    BY LinesInAppend
  <2>5. LinesIn(LinesIn(Append(s, e), L), M) = LinesIn(Append(s, e), L \cap M)
    <3>1. CASE e \in L
      <4>1. LinesIn(LinesIn(Append(s, e), L), M) = LinesIn(Append(LinesIn(s, L), e), M)
        BY <2>2, <3>1
      <4>2. e \in L \cap M <=> e \in M
        BY <3>1
      <4>3. QED
        BY <2>1, <2>3, <2>4, <4>1, <4>2
    <3>2. CASE e \notin L
      BY <3>2, <2>1, <2>2, <2>4, Zenon
    <3>3. QED
      BY <3>1, <3>2
  <2>6. QED
    BY <2>5, AppendProperties
<1>3. Seq(S) \subseteq Q
  <2> HIDE DEF Q
  <2>1. QED
    BY <1>1, <1>2, SeqSetInduction
<1>4. QED
  BY <1>3

LEMMA LinesInConcat ==
    ASSUME NEW S, NEW c \in Seq(S), NEW d \in Seq(S), NEW L
    PROVE  LinesIn(c \o d, L) = LinesIn(c, L) \o LinesIn(d, L)
<1> DEFINE Q == {s \in Seq(S) : LinesIn(c \o s, L) = LinesIn(c, L) \o LinesIn(s, L)}
<1>0. LinesIn(c, L) \in Seq(S)
  BY LinesInType
<1>1. <<>> \in Q
  <2>1. c \o <<>> = c /\ LinesIn(c, L) \o <<>> = LinesIn(c, L)
    BY <1>0, ConcatEmptySeq
  <2>2. QED
    BY <2>1, LinesInEmpty, EmptySeq
<1>2. ASSUME NEW s \in Seq(S), NEW e \in S, s \in Q PROVE Append(s, e) \in Q
  <2>1. LinesIn(c \o s, L) = LinesIn(c, L) \o LinesIn(s, L) /\ LinesIn(s, L) \in Seq(S)
    BY <1>2, LinesInType
  <2>2. c \o s \in Seq(S)
    BY ConcatProperties
  <2>3. c \o Append(s, e) = Append(c \o s, e)
    BY ConcatAppend
  <2>4. LinesIn(c, L) \o Append(LinesIn(s, L), e) = Append(LinesIn(c, L) \o LinesIn(s, L), e)
    BY <1>0, <2>1, ConcatAppend
  <2>5. LinesIn(c \o Append(s, e), L) = LinesIn(c, L) \o LinesIn(Append(s, e), L)
    <3>1. LinesIn(Append(c \o s, e), L)
              = IF e \in L THEN Append(LinesIn(c \o s, L), e) ELSE LinesIn(c \o s, L)
      BY <2>2, LinesInAppend
    <3>2. LinesIn(Append(s, e), L) = IF e \in L THEN Append(LinesIn(s, L), e) ELSE LinesIn(s, L)
      BY LinesInAppend
    <3>3. QED
      BY <2>1, <2>3, <2>4, <3>1, <3>2, Zenon
  <2>6. QED
    BY <2>5, AppendProperties
<1>3. Seq(S) \subseteq Q
  <2> HIDE DEF Q
  <2>1. QED
    BY <1>1, <1>2, SeqSetInduction
<1>4. QED
  BY <1>3

\* The lines that are in the set are those found, each in its turn.
LEMMA LinesInPlaces ==
    ASSUME NEW S, NEW c \in Seq(S), NEW L
    PROVE  \E at \in [DOMAIN LinesIn(c, L) -> DOMAIN c] :
               /\ \A i \in DOMAIN LinesIn(c, L) : LinesIn(c, L)[i] = c[at[i]] /\ c[at[i]] \in L
               /\ \A i, j \in DOMAIN LinesIn(c, L) : at[i] = at[j] => i = j
               /\ \A i, j \in DOMAIN LinesIn(c, L) : i < j => at[i] < at[j]
               /\ \A k \in DOMAIN c : c[k] \in L => \E i \in DOMAIN LinesIn(c, L) : at[i] = k
<1> DEFINE Places(s, at) ==
              /\ at \in [DOMAIN LinesIn(s, L) -> DOMAIN s]
              /\ \A i \in DOMAIN LinesIn(s, L) : LinesIn(s, L)[i] = s[at[i]] /\ s[at[i]] \in L
              /\ \A i, j \in DOMAIN LinesIn(s, L) : at[i] = at[j] => i = j
              /\ \A i, j \in DOMAIN LinesIn(s, L) : i < j => at[i] < at[j]
              /\ \A k \in DOMAIN s : s[k] \in L => \E i \in DOMAIN LinesIn(s, L) : at[i] = k
           Q == {s \in Seq(S) : \E at : Places(s, at)}
<1>1. <<>> \in Q
  <2> DEFINE at == [i \in DOMAIN <<>> |-> 0]
  <2>1. DOMAIN <<>> = {}
    OBVIOUS
  <2>2. LinesIn(<<>>, L) = <<>>
    BY LinesInEmpty
  <2>3. Places(<<>>, at)
    BY <2>1, <2>2
  <2> HIDE DEF Places
  <2>4. QED
    BY <2>3, EmptySeq
<1>2. ASSUME NEW s \in Seq(S), NEW e \in S, s \in Q PROVE Append(s, e) \in Q
  <2> DEFINE d == Append(s, e)
             l == LinesIn(s, L)
             m == LinesIn(d, L)
  <2>1. PICK at : Places(s, at)
    BY <1>2
  <2>2. /\ d \in Seq(S) /\ Len(d) = Len(s) + 1 /\ d[Len(s) + 1] = e
        /\ \A i \in 1..Len(s) : d[i] = s[i]
        /\ DOMAIN d = 1..Len(s) + 1 /\ DOMAIN s = 1..Len(s) /\ Len(s) \in Nat
    BY AppendProperties, LenProperties
  <2>3. l \in Seq(S) /\ DOMAIN l = 1..Len(l) /\ Len(l) \in Nat
    BY LinesInType, LenProperties
  <2>4. m = IF e \in L THEN Append(l, e) ELSE l
    BY LinesInAppend
  <2>5. /\ at \in [1..Len(l) -> 1..Len(s)]
        /\ \A i \in 1..Len(l) : l[i] = s[at[i]] /\ s[at[i]] \in L
        /\ \A i, j \in 1..Len(l) : at[i] = at[j] => i = j
        /\ \A i, j \in 1..Len(l) : i < j => at[i] < at[j]
        /\ \A k \in 1..Len(s) : s[k] \in L => \E i \in 1..Len(l) : at[i] = k
    BY <2>1, <2>2, <2>3
  <2> HIDE DEF l, m, d
  <2>6. CASE e \notin L
    <3>1. m = l
      BY <2>4, <2>6
    <3>2. DOMAIN m = 1..Len(l)
      BY <2>3, <3>1
    <3>3. at \in [1..Len(l) -> 1..Len(s) + 1]
      BY <2>2, <2>5
    <3>4. \A i \in 1..Len(l) : m[i] = d[at[i]] /\ d[at[i]] \in L
      BY <2>2, <2>5, <3>1
    <3>5. ASSUME NEW k \in 1..Len(s) + 1, d[k] \in L PROVE \E i \in 1..Len(l) : at[i] = k
      <4>1. k \in 1..Len(s) /\ s[k] \in L
        BY <2>2, <2>6, <3>5
      <4>2. QED
        BY <2>5, <4>1
    <3>6. Places(d, at)
      BY <2>2, <2>5, <3>2, <3>3, <3>4, <3>5 DEF m
    <3> HIDE DEF Places
    <3>7. QED
      BY <2>2, <3>6 DEF d
  <2>7. CASE e \in L
    <3> DEFINE more == [i \in 1..Len(l) + 1 |-> IF i = Len(l) + 1 THEN Len(s) + 1 ELSE at[i]]
    <3>1. /\ m = Append(l, e) /\ DOMAIN m = 1..Len(l) + 1 /\ m[Len(l) + 1] = e
          /\ \A i \in 1..Len(l) : m[i] = l[i]
      BY <2>3, <2>4, <2>7, AppendProperties, LenProperties
    <3>2. /\ more \in [1..Len(l) + 1 -> 1..Len(s) + 1]
          /\ more[Len(l) + 1] = Len(s) + 1
          /\ \A i \in 1..Len(l) : more[i] = at[i] /\ at[i] \in 1..Len(s)
      <4>1. \A i \in 1..Len(l) + 1 : i = Len(l) + 1 \/ i \in 1..Len(l)
        BY <2>3
      <4>2. \A i \in 1..Len(l) : at[i] \in 1..Len(s) /\ i # Len(l) + 1 /\ i \in 1..Len(l) + 1
        <5>1. at \in [1..Len(l) -> 1..Len(s)]
          BY <2>5
        <5>2. \A i \in 1..Len(l) : i # Len(l) + 1 /\ i \in 1..Len(l) + 1
          BY <2>3
        <5>3. QED
          BY <5>1, <5>2
      <4>3. 1..Len(s) \subseteq 1..Len(s) + 1 /\ Len(s) + 1 \in 1..Len(s) + 1
            /\ Len(l) + 1 \in 1..Len(l) + 1
        BY <2>2, <2>3
      <4>4. QED
        BY <4>1, <4>2, <4>3
    <3> HIDE DEF more
    <3>3. \A i \in 1..Len(l) + 1 : m[i] = d[more[i]] /\ d[more[i]] \in L
      BY <2>2, <2>3, <2>5, <2>7, <3>1, <3>2
    <3>4. ASSUME NEW i \in 1..Len(l) + 1, NEW j \in 1..Len(l) + 1, more[i] = more[j] PROVE i = j
      <4>1. (i = Len(l) + 1 \/ i \in 1..Len(l)) /\ (j = Len(l) + 1 \/ j \in 1..Len(l))
        BY <2>3
      <4>2. Len(s) + 1 \notin 1..Len(s)
        BY <2>2
      <4>3. QED
        BY <2>5, <3>2, <3>4, <4>1, <4>2
    <3>5. ASSUME NEW k \in 1..Len(s) + 1, d[k] \in L PROVE \E i \in 1..Len(l) + 1 : more[i] = k
      <4>1. CASE k = Len(s) + 1
        BY <2>3, <3>2, <4>1
      <4>2. CASE k \in 1..Len(s)
        <5>1. PICK i \in 1..Len(l) : at[i] = k
          BY <2>2, <2>5, <3>5, <4>2
        <5>2. i \in 1..Len(l) + 1 /\ more[i] = k
          BY <2>3, <3>2, <5>1
        <5>3. QED
          BY <5>2
      <4>3. QED
        BY <2>2, <4>1, <4>2
    <3>6. ASSUME NEW i \in 1..Len(l) + 1, NEW j \in 1..Len(l) + 1, i < j PROVE more[i] < more[j]
      <4>1. i \in 1..Len(l) /\ (j = Len(l) + 1 \/ j \in 1..Len(l))
        BY <2>3, <3>6
      <4>2. \A n \in 1..Len(s) : n < Len(s) + 1
        BY <2>2
      <4>3. QED
        BY <2>5, <3>2, <3>6, <4>1, <4>2
    <3>7. Places(d, more)
      BY <2>2, <3>1, <3>2, <3>3, <3>4, <3>5, <3>6 DEF m
    <3> HIDE DEF Places
    <3>8. QED
      BY <2>2, <3>7 DEF d
  <2>8. QED
    BY <2>6, <2>7
<1>3. Seq(S) \subseteq Q
  <2> HIDE DEF Q
  <2>1. QED
    BY <1>1, <1>2, SeqSetInduction
<1>4. QED
  BY <1>3

-----------------------------------------------------------------------------
\* Files of lines: a key and a value are texts of a set T.
Pair(T) == [key : T, value : T]
File(T) == Seq(Pair(T))

Once(c) == \A i, j \in DOMAIN c : c[i].key = c[j].key => i = j

LEMMA LineIsPair ==
    ASSUME NEW T, NEW k \in T, NEW v \in T
    PROVE  Line(k, v) \in Pair(T) /\ Line(k, v).key = k /\ Line(k, v).value = v
  BY DEF Line, Pair

LEMMA LineAt == ASSUME NEW T, NEW c \in File(T), NEW i \in DOMAIN c PROVE c[i] \in Pair(T)
<1>1. DOMAIN c = 1..Len(c)
  BY LenProperties DEF File
<1>2. QED
  BY <1>1, ElementOfSeq DEF File

LEMMA FirstOfFound ==
    ASSUME NEW T, NEW c \in File(T), NEW k, Has(c, k)
    PROVE  FirstOf(c, k) \in DOMAIN c /\ c[FirstOf(c, k)].key = k
<1> DEFINE S == {i \in DOMAIN c : c[i].key = k}
<1>1. DOMAIN c = 1..Len(c) /\ Len(c) \in Nat
  BY LenProperties DEF File
<1>2. S \in SUBSET Nat /\ S # {}
  BY <1>1 DEF Has
<1>3. PICK m \in S : \A j \in S : m <= j
  BY <1>2, LeastNatural
<1>4. \E i \in DOMAIN c : c[i].key = k /\ \A j \in DOMAIN c : c[j].key = k => i <= j
  BY <1>3
<1>5. QED
  BY <1>4, Zenon DEF FirstOf

\* Updating a key puts a line in place of one of its own, or at the end.
LEMMA SetLineCases ==
    ASSUME NEW T, NEW c \in File(T), NEW k \in T, NEW v \in T
    PROVE  \/ ~Has(c, k) /\ SetLine(c, k, v) = Append(c, Line(k, v))
           \/ \E i \in DOMAIN c : c[i].key = k /\ SetLine(c, k, v) = [c EXCEPT ![i] = Line(k, v)]
<1>1. CASE ~Has(c, k)
  BY <1>1 DEF SetLine
<1>2. CASE Has(c, k)
  <2> DEFINE i == FirstOf(c, k)
  <2>1. i \in DOMAIN c /\ c[i].key = k
    BY <1>2, FirstOfFound
  <2>2. SetLine(c, k, v) = [c EXCEPT ![i].value = v]
    BY <1>2 DEF SetLine
  <2> HIDE DEF i
  <2>3. c[i] \in [key : T, value : T]
    BY <2>1, LineAt DEF Pair
  <2>4. [c[i] EXCEPT !.value = v] = Line(k, v)
    BY <2>1, <2>3 DEF Line
  <2>5. SetLine(c, k, v) = [c EXCEPT ![i] = Line(k, v)]
    BY <2>2, <2>4
  <2>6. QED
    BY <2>1, <2>5
<1>3. QED
  BY <1>1, <1>2

LEMMA PutInPlace ==
    ASSUME NEW T, NEW c \in File(T), NEW i \in DOMAIN c, NEW l \in Pair(T), l.key = c[i].key
    PROVE  /\ [c EXCEPT ![i] = l] \in File(T)
           /\ DOMAIN [c EXCEPT ![i] = l] = DOMAIN c
           /\ \A j \in DOMAIN c : [c EXCEPT ![i] = l][j] = IF j = i THEN l ELSE c[j]
           /\ \A j \in DOMAIN c : [c EXCEPT ![i] = l][j].key = c[j].key
<1>1. DOMAIN c = 1..Len(c)
  BY LenProperties DEF File
<1>2. /\ [c EXCEPT ![i] = l] \in File(T)
      /\ \A j \in DOMAIN c : [c EXCEPT ![i] = l][j] = IF j = i THEN l ELSE c[j]
  BY <1>1, ExceptSeq DEF File
<1>3. \A j \in DOMAIN c : [c EXCEPT ![i] = l][j].key = c[j].key
  BY <1>2
<1>4. QED
  BY <1>2, <1>3

LEMMA AppendLine ==
    ASSUME NEW T, NEW c \in File(T), NEW l \in Pair(T)
    PROVE  /\ Append(c, l) \in File(T)
           /\ DOMAIN Append(c, l) = 1..Len(c) + 1 /\ DOMAIN c = 1..Len(c) /\ Len(c) \in Nat
           /\ \A j \in 1..Len(c) : Append(c, l)[j] = c[j]
           /\ Append(c, l)[Len(c) + 1] = l
  BY AppendProperties, LenProperties DEF File

LEMMA HasAppend ==
    ASSUME NEW T, NEW c \in File(T), NEW l \in Pair(T), NEW j
    PROVE  Has(Append(c, l), j) <=> Has(c, j) \/ l.key = j
<1>1. ASSUME Has(c, j) PROVE Has(Append(c, l), j)
  <2>1. PICK i \in 1..Len(c) : c[i].key = j
    BY <1>1, AppendLine DEF Has
  <2>2. i \in DOMAIN Append(c, l) /\ Append(c, l)[i].key = j
    BY <2>1, AppendLine
  <2>3. QED
    BY <2>2 DEF Has
<1>2. ASSUME l.key = j PROVE Has(Append(c, l), j)
  <2>1. Len(c) + 1 \in DOMAIN Append(c, l) /\ Append(c, l)[Len(c) + 1].key = j
    BY <1>2, AppendLine
  <2>2. QED
    BY <2>1 DEF Has
<1>3. ASSUME Has(Append(c, l), j), l.key # j PROVE Has(c, j)
  <2>1. PICK i \in 1..Len(c) + 1 : Append(c, l)[i].key = j
    BY <1>3, AppendLine DEF Has
  <2>2. i \in 1..Len(c)
    BY <1>3, <2>1, AppendLine
  <2>3. c[i].key = j /\ i \in DOMAIN c
    BY <2>1, <2>2, AppendLine
  <2>4. QED
    BY <2>3 DEF Has
<1>4. QED
  BY <1>1, <1>2, <1>3

LEMMA OnceAppend ==
    ASSUME NEW T, NEW c \in File(T), NEW l \in Pair(T), Once(c), ~Has(c, l.key)
    PROVE  Once(Append(c, l))
<1> SUFFICES ASSUME NEW i \in DOMAIN Append(c, l), NEW j \in DOMAIN Append(c, l),
                    Append(c, l)[i].key = Append(c, l)[j].key
             PROVE  i = j
  BY DEF Once
<1>1. (i = Len(c) + 1 \/ i \in 1..Len(c)) /\ (j = Len(c) + 1 \/ j \in 1..Len(c))
  BY AppendLine
<1>2. \A n \in 1..Len(c) : Append(c, l)[n] = c[n] /\ c[n].key # l.key
  BY AppendLine DEF Has
<1>3. Append(c, l)[Len(c) + 1] = l /\ DOMAIN c = 1..Len(c)
  BY AppendLine
<1>4. QED
  BY <1>1, <1>2, <1>3 DEF Once

\* Updating a key gives it a line, and no other key, and none a second one.
LEMMA SetLineKeys ==
    ASSUME NEW T, NEW c \in File(T), NEW k \in T, NEW v \in T
    PROVE  /\ SetLine(c, k, v) \in File(T)
           /\ \A j : Has(SetLine(c, k, v), j) <=> j = k \/ Has(c, j)
           /\ Once(c) => Once(SetLine(c, k, v))
<1> DEFINE l == Line(k, v)
<1>1. l \in Pair(T) /\ l.key = k
  BY LineIsPair
<1>2. CASE ~Has(c, k) /\ SetLine(c, k, v) = Append(c, l)
  <2> HIDE DEF l
  <2>1. Append(c, l) \in File(T)
    BY <1>1, AppendLine
  <2>2. \A j : Has(Append(c, l), j) <=> j = k \/ Has(c, j)
    BY <1>1, HasAppend
  <2>3. Once(c) => Once(Append(c, l))
    BY <1>1, <1>2, OnceAppend
  <2>4. QED
    BY <1>2, <2>1, <2>2, <2>3
<1>3. ASSUME NEW i \in DOMAIN c, c[i].key = k, SetLine(c, k, v) = [c EXCEPT ![i] = l]
      PROVE  /\ SetLine(c, k, v) \in File(T)
             /\ \A j : Has(SetLine(c, k, v), j) <=> j = k \/ Has(c, j)
             /\ Once(c) => Once(SetLine(c, k, v))
  <2> DEFINE d == [c EXCEPT ![i] = l]
  <2> HIDE DEF l
  <2>1. d \in File(T) /\ DOMAIN d = DOMAIN c /\ \A j \in DOMAIN c : d[j].key = c[j].key
    BY <1>1, <1>3, PutInPlace
  <2> HIDE DEF d
  <2>2. \A j : Has(d, j) <=> j = k \/ Has(c, j)
    BY <1>3, <2>1 DEF Has
  <2>3. Once(c) => Once(d)
    BY <2>1 DEF Once
  <2>4. QED
    BY <1>3, <2>1, <2>2, <2>3 DEF d
<1>4. QED
  BY <1>2, <1>3, SetLineCases

\* An update is invisible to a filter that lets no line of its key through.
LEMMA SetLineElsewhere ==
    ASSUME NEW T, NEW c \in File(T), NEW k \in T, NEW v \in T, NEW L,
           \A l \in L : l.key # k
    PROVE  LinesIn(SetLine(c, k, v), L) = LinesIn(c, L)
<1> DEFINE l == Line(k, v)
<1>1. l \in Pair(T) /\ l.key = k /\ l \notin L
  BY ZenonT(30), LineIsPair
<1>2. CASE SetLine(c, k, v) = Append(c, l)
  BY <1>1, <1>2, LinesInAppend DEF File
<1>3. ASSUME NEW i \in DOMAIN c, c[i].key = k, SetLine(c, k, v) = [c EXCEPT ![i] = l]
      PROVE  LinesIn(SetLine(c, k, v), L) = LinesIn(c, L)
  <2> DEFINE d == [c EXCEPT ![i] = l]
             places == {n \in DOMAIN c : c[n] \in L}
             others == {n \in DOMAIN d : d[n] \in L}
  <2> HIDE DEF l
  <2>1. d \in File(T) /\ DOMAIN d = DOMAIN c /\ \A j \in DOMAIN c : d[j] = IF j = i THEN l ELSE c[j]
    BY ZenonT(30), <1>1, <1>3, PutInPlace
  <2> HIDE DEF d
  <2>2. Len(c) = Len(d) /\ DOMAIN c = 1..Len(c)
    BY <2>1, LenProperties DEF File
  <2>3. \A n \in 1..Len(c) : (n \in places <=> n \in others) /\ (n \in places => c[n] = d[n])
    BY <1>1, <1>3, <2>1, <2>2
  <2> HIDE DEF places, others
  <2>4. Kept(c, places) = Kept(d, others)
    BY <2>1, <2>2, <2>3, KeptAgrees DEF File
  <2>5. LinesIn(c, L) = LinesIn(d, L)
    BY <2>4, Zenon DEF LinesIn, places, others
  <2>6. QED
    BY <1>3, <2>5 DEF d
<1>4. QED
  BY <1>2, <1>3, SetLineCases

\* A filter keeps the keys of the lines it lets through, and their number.
LEMMA LinesInKeys ==
    ASSUME NEW T, NEW c \in File(T), NEW L
    PROVE  /\ LinesIn(c, L) \in File(T)
           /\ \A j : Has(LinesIn(c, L), j) <=> \E i \in DOMAIN c : c[i].key = j /\ c[i] \in L
           /\ Once(c) => Once(LinesIn(c, L))
<1> DEFINE d == LinesIn(c, L)
<1>1. d \in File(T)
  BY LinesInType DEF File
<1>2. PICK at \in [DOMAIN d -> DOMAIN c] :
          /\ \A i \in DOMAIN d : d[i] = c[at[i]] /\ c[at[i]] \in L
          /\ \A i, j \in DOMAIN d : at[i] = at[j] => i = j
          /\ \A k \in DOMAIN c : c[k] \in L => \E i \in DOMAIN d : at[i] = k
  BY LinesInPlaces DEF File
<1> HIDE DEF d
<1>3. ASSUME NEW j, Has(d, j) PROVE \E i \in DOMAIN c : c[i].key = j /\ c[i] \in L
  BY <1>2, <1>3 DEF Has
<1>4. ASSUME NEW j, NEW i \in DOMAIN c, c[i].key = j, c[i] \in L PROVE Has(d, j)
  BY <1>2, <1>4 DEF Has
<1>5. ASSUME Once(c) PROVE Once(d)
  BY <1>2, <1>5 DEF Once
<1>6. QED
  BY <1>1, <1>3, <1>4, <1>5 DEF d

OfKey(T, k) == {l \in Pair(T) : l.key = k}
ButKey(T, k) == {l \in Pair(T) : l.key # k}

LEMMA GetAllIsFilter == ASSUME NEW T, NEW c \in File(T), NEW k PROVE GetAll(c, k) = LinesIn(c, OfKey(T, k))
<1>1. {i \in DOMAIN c : c[i].key = k} = {i \in DOMAIN c : c[i] \in OfKey(T, k)}
  BY LineAt DEF OfKey
<1>2. QED
  BY <1>1 DEF GetAll, LinesIn

LEMMA RemoveKeyIsFilter == ASSUME NEW T, NEW c \in File(T), NEW k PROVE RemoveKey(c, k) = LinesIn(c, ButKey(T, k))
<1>1. {i \in DOMAIN c : c[i].key # k} = {i \in DOMAIN c : c[i] \in ButKey(T, k)}
  BY LineAt DEF ButKey
<1>2. QED
  BY <1>1 DEF RemoveKey, LinesIn

\* Dropping a key takes its lines and no others.
LEMMA RemoveKeyKeys ==
    ASSUME NEW T, NEW c \in File(T), NEW k
    PROVE  /\ RemoveKey(c, k) \in File(T)
           /\ \A j : Has(RemoveKey(c, k), j) <=> j # k /\ Has(c, j)
           /\ Once(c) => Once(RemoveKey(c, k))
<1>1. \A i \in DOMAIN c : c[i] \in ButKey(T, k) <=> c[i].key # k
  BY LineAt DEF ButKey
<1>2. ASSUME NEW j PROVE Has(LinesIn(c, ButKey(T, k)), j) <=> j # k /\ Has(c, j)
  <2>1. Has(LinesIn(c, ButKey(T, k)), j) <=> \E i \in DOMAIN c : c[i].key = j /\ c[i] \in ButKey(T, k)
    BY LinesInKeys
  <2>2. Has(c, j) <=> \E i \in DOMAIN c : c[i].key = j
    BY DEF Has
  <2>3. QED
    BY <1>1, <2>1, <2>2
<1>3. QED
  BY <1>2, LinesInKeys, RemoveKeyIsFilter

LEMMA RemoveKeyElsewhere ==
    ASSUME NEW T, NEW c \in File(T), NEW k, NEW L \in SUBSET Pair(T), \A l \in L : l.key # k
    PROVE  LinesIn(RemoveKey(c, k), L) = LinesIn(c, L)
<1>1. ButKey(T, k) \cap L = L
  BY DEF ButKey
<1>2. LinesIn(LinesIn(c, ButKey(T, k)), L) = LinesIn(c, ButKey(T, k) \cap L)
  BY LinesInBoth DEF File
<1>3. QED
  BY <1>1, <1>2, RemoveKeyIsFilter

\* A file whose lines are none of a filter's leaves nothing.
LEMMA LinesInNone ==
    ASSUME NEW S, NEW c \in Seq(S), NEW L, \A i \in DOMAIN c : c[i] \notin L
    PROVE  LinesIn(c, L) = <<>>
<1>1. PICK at \in [DOMAIN LinesIn(c, L) -> DOMAIN c] :
          \A i \in DOMAIN LinesIn(c, L) : LinesIn(c, L)[i] = c[at[i]] /\ c[at[i]] \in L
  BY LinesInPlaces
<1>2. DOMAIN LinesIn(c, L) = {}
  BY <1>1
<1>3. LinesIn(c, L) \in Seq(S)
  BY LinesInType
<1>4. Len(LinesIn(c, L)) \in Nat /\ DOMAIN LinesIn(c, L) = 1..Len(LinesIn(c, L))
  BY <1>3, LenProperties
<1>5. Len(LinesIn(c, L)) = 0
  BY <1>2, <1>4
<1>6. QED
  BY <1>3, <1>5, EmptySeq

LEMMA HasConcat ==
    ASSUME NEW T, NEW c \in File(T), NEW d \in File(T)
    PROVE  c \o d \in File(T) /\ \A j : Has(c \o d, j) <=> Has(c, j) \/ Has(d, j)
<1>1. /\ c \o d \in File(T)
      /\ DOMAIN c = 1..Len(c) /\ DOMAIN d = 1..Len(d) /\ DOMAIN (c \o d) = 1..Len(c) + Len(d)
      /\ Len(c) \in Nat /\ Len(d) \in Nat
      /\ \A i \in 1..Len(c) + Len(d) : (c \o d)[i] = IF i <= Len(c) THEN c[i] ELSE d[i - Len(c)]
  BY ConcatProperties, LenProperties DEF File
<1>2. ASSUME NEW i \in DOMAIN c PROVE i \in DOMAIN (c \o d) /\ (c \o d)[i] = c[i]
  BY <1>1
<1>3. ASSUME NEW i \in DOMAIN d
      PROVE  i + Len(c) \in DOMAIN (c \o d) /\ (c \o d)[i + Len(c)] = d[i]
  <2>1. i + Len(c) \in 1..Len(c) + Len(d) /\ ~(i + Len(c) <= Len(c)) /\ (i + Len(c)) - Len(c) = i
    BY <1>1
  <2>2. QED
    BY <1>1, <2>1
<1>4. ASSUME NEW i \in DOMAIN (c \o d)
      PROVE  \/ i \in DOMAIN c /\ (c \o d)[i] = c[i]
             \/ i - Len(c) \in DOMAIN d /\ (c \o d)[i] = d[i - Len(c)]
  BY <1>1
<1>5. ASSUME NEW j PROVE Has(c \o d, j) <=> Has(c, j) \/ Has(d, j)
  <2>1. Has(c, j) => Has(c \o d, j)
    BY <1>2 DEF Has
  <2>2. Has(d, j) => Has(c \o d, j)
    BY <1>3 DEF Has
  <2>3. Has(c \o d, j) => Has(c, j) \/ Has(d, j)
    BY <1>4 DEF Has
  <2>4. QED
    BY <2>1, <2>2, <2>3
<1>6. QED
  BY <1>1, <1>5

-----------------------------------------------------------------------------
\* The first line of a pair, and the file without it.
Drop(c, i) == SubSeq(c, 1, i - 1) \o SubSeq(c, i + 1, Len(c))

LEMMA RemoveOnceCases ==
    ASSUME NEW T, NEW c \in File(T), NEW k, NEW v
    PROVE  \/ RemoveOnce(c, k, v) = c
           \/ \E i \in DOMAIN c : c[i].key = k /\ c[i].value = v /\ RemoveOnce(c, k, v) = Drop(c, i)
<1> DEFINE Found(i) == c[i].key = k /\ c[i].value = v
           S == {i \in DOMAIN c : Found(i)}
           first == CHOOSE i \in DOMAIN c : Found(i) /\ \A j \in DOMAIN c : Found(j) => i <= j
<1>1. CASE S = {}
  BY <1>1 DEF RemoveOnce
<1>2. CASE S # {}
  <2>1. DOMAIN c = 1..Len(c) /\ Len(c) \in Nat
    BY LenProperties DEF File
  <2>2. S \in SUBSET Nat
    BY <2>1
  <2>3. PICK m \in S : \A j \in S : m <= j
    BY <1>2, <2>2, LeastNatural
  <2>4. \E i \in DOMAIN c : Found(i) /\ \A j \in DOMAIN c : Found(j) => i <= j
    BY <2>3
  <2>5. first \in DOMAIN c /\ Found(first)
    BY <2>4, Zenon
  <2>6. RemoveOnce(c, k, v) = Drop(c, first)
    BY <1>2 DEF RemoveOnce, Drop
  <2>7. QED
    BY <2>5, <2>6
<1>3. QED
  BY <1>1, <1>2

LEMMA DropSplits ==
    ASSUME NEW T, NEW c \in File(T), NEW i \in DOMAIN c
    PROVE  /\ SubSeq(c, 1, i - 1) \in File(T) /\ SubSeq(c, i + 1, Len(c)) \in File(T)
           /\ c[i] \in Pair(T)
           /\ c = (SubSeq(c, 1, i - 1) \o <<c[i]>>) \o SubSeq(c, i + 1, Len(c))
<1>1. DOMAIN c = 1..Len(c) /\ Len(c) \in Nat /\ \A j \in 1..Len(c) : c[j] \in Pair(T)
  BY LenProperties, ElementOfSeq DEF File
<1>2. i \in 1..Len(c) /\ i \in Nat /\ i # 0
  BY <1>1
<1>3. SubSeq(c, 1, i - 1) \in Seq(Pair(T))
  <2>1. \A j \in 1..i - 1 : c[j] \in Pair(T)
    BY <1>1, <1>2
  <2>2. QED
    BY <1>2, <2>1, SubSeqProperties
<1>4. SubSeq(c, i + 1, Len(c)) \in Seq(Pair(T))
  <2>1. \A j \in i + 1..Len(c) : c[j] \in Pair(T)
    BY <1>1, <1>2
  <2>2. QED
    BY <1>1, <1>2, <2>1, SubSeqProperties
<1>5. SubSeq(c, 1, i) = SubSeq(c, 1, i - 1) \o <<c[i]>>
  <2>1. 1 \in 1..Len(c) /\ i \in 1..Len(c)
    BY <1>1, <1>2
  <2>2. QED
    BY <1>2, <2>1, SubSeqRecursiveSecond DEF File
<1>6. SubSeq(c, 1, i) \o SubSeq(c, i + 1, Len(c)) = SubSeq(c, 1, Len(c))
  <2>1. 1 \in 1..Len(c) + 1 /\ i \in 1 - 1..Len(c) /\ Len(c) \in i..Len(c)
    BY <1>1, <1>2
  <2>2. QED
    BY <2>1, ConcatAdjacentSubSeq DEF File
<1>7. SubSeq(c, 1, Len(c)) = c
  BY SubSeqFull DEF File
<1>8. QED
  BY <1>1, <1>2, <1>3, <1>4, <1>5, <1>6, <1>7 DEF File

LEMMA LinesInDrop ==
    ASSUME NEW T, NEW c \in File(T), NEW i \in DOMAIN c, NEW L, c[i] \notin L
    PROVE  LinesIn(Drop(c, i), L) = LinesIn(c, L)
<1> DEFINE a == SubSeq(c, 1, i - 1)
           b == SubSeq(c, i + 1, Len(c))
           upTo == Append(a, c[i])
<1>1. a \in File(T) /\ b \in File(T) /\ c[i] \in Pair(T) /\ c = (a \o <<c[i]>>) \o b
  BY DropSplits
<1> HIDE DEF a, b
<1>2. upTo \in File(T) /\ c = upTo \o b
  BY <1>1, AppendIsConcat, AppendProperties DEF File
<1>3. LinesIn(upTo, L) = LinesIn(a, L)
  BY <1>1, LinesInAppend DEF File
<1> HIDE DEF upTo
<1>4. LinesIn(upTo \o b, L) = LinesIn(upTo, L) \o LinesIn(b, L)
  BY SMTT(30), <1>1, <1>2, LinesInConcat DEF File
<1>5. LinesIn(a \o b, L) = LinesIn(a, L) \o LinesIn(b, L)
  BY SMTT(30), <1>1, LinesInConcat DEF File
<1>6. LinesIn(c, L) = LinesIn(a \o b, L)
  BY <1>2, <1>3, <1>4, <1>5
<1>7. QED
  BY <1>6 DEF Drop, a, b

\* Every line of the rest is one of the file, and of two that are alike two are.
LEMMA DropPlaces ==
    ASSUME NEW T, NEW c \in File(T), NEW i \in DOMAIN c
    PROVE  /\ Drop(c, i) \in File(T)
           /\ DOMAIN Drop(c, i) = 1..Len(c) - 1
           /\ \A j \in DOMAIN Drop(c, i) : Drop(c, i)[j] = c[IF j < i THEN j ELSE j + 1]
           /\ \A j \in DOMAIN Drop(c, i) : (IF j < i THEN j ELSE j + 1) \in DOMAIN c
<1> DEFINE a == SubSeq(c, 1, i - 1)
           b == SubSeq(c, i + 1, Len(c))
<1>1. DOMAIN c = 1..Len(c) /\ Len(c) \in Nat /\ i \in Nat /\ 1 <= i /\ i <= Len(c)
  BY LenProperties DEF File
<1>2. a \in File(T) /\ b \in File(T)
  BY DropSplits
<1>3. Len(a) = i - 1 /\ \A j \in 1..i - 1 : a[j] = c[j]
  <2>1. \A j \in 1..i - 1 : c[j] \in Pair(T)
    BY <1>1, LineAt
  <2>2. QED
    BY <1>1, <2>1, SubSeqProperties
<1>4. Len(b) = Len(c) - i /\ \A j \in 1..Len(c) - i : b[j] = c[i + j]
  <2>1. \A j \in i + 1..Len(c) : c[j] \in Pair(T)
    BY <1>1, LineAt
  <2>2. /\ Len(b) = IF i + 1 <= Len(c) THEN Len(c) - (i + 1) + 1 ELSE 0
        /\ \A j \in 1..Len(c) - (i + 1) + 1 : b[j] = c[(i + 1) + j - 1]
    BY <1>1, <2>1, SubSeqProperties
  <2> HIDE DEF b
  <2>3. Len(b) = Len(c) - i
    BY <1>1, <2>2
  <2>4. \A j \in 1..Len(c) - i : j \in 1..Len(c) - (i + 1) + 1 /\ (i + 1) + j - 1 = i + j
    BY <1>1
  <2>5. QED
    BY <2>2, <2>3, <2>4
<1> HIDE DEF a, b
<1>5. /\ a \o b \in File(T) /\ Len(a \o b) = Len(c) - 1
      /\ \A j \in 1..Len(c) - 1 : (a \o b)[j] = IF j <= i - 1 THEN a[j] ELSE b[j - (i - 1)]
  <2>1. /\ a \o b \in File(T) /\ Len(a \o b) = Len(a) + Len(b)
        /\ \A j \in 1..Len(a) + Len(b) :
               (a \o b)[j] = IF j <= Len(a) THEN a[j] ELSE b[j - Len(a)]
    BY <1>2, ConcatProperties DEF File
  <2>2. Len(a) + Len(b) = Len(c) - 1
    BY <1>1, <1>3, <1>4
  <2>3. QED
    BY <1>3, <2>1, <2>2
<1>6. DOMAIN (a \o b) = 1..Len(c) - 1
  BY <1>5, LenProperties DEF File
<1>7. ASSUME NEW j \in 1..Len(c) - 1 PROVE (a \o b)[j] = c[IF j < i THEN j ELSE j + 1]
  <2>1. CASE j < i
    BY <1>1, <1>3, <1>5, <2>1
  <2>2. CASE ~(j < i)
    <3>1. j - (i - 1) \in 1..Len(c) - i /\ i + (j - (i - 1)) = j + 1
      BY <1>1, <2>2
    <3>2. QED
      BY SMTT(30), <1>1, <1>4, <1>5, <2>2, <3>1
  <2>3. QED
    BY <2>1, <2>2
<1>8. \A j \in 1..Len(c) - 1 : (IF j < i THEN j ELSE j + 1) \in DOMAIN c
  BY <1>1
<1>9. QED
  BY <1>5, <1>6, <1>7, <1>8 DEF Drop, a, b
-----------------------------------------------------------------------------
\* A filter that lets every line through changes nothing.
LEMMA LinesInAll ==
    ASSUME NEW S, NEW c \in Seq(S), NEW L, \A i \in DOMAIN c : c[i] \in L
    PROVE  LinesIn(c, L) = c
<1> DEFINE Q == {s \in Seq(S) : (\A i \in DOMAIN s : s[i] \in L) => LinesIn(s, L) = s}
<1>1. <<>> \in Q
  BY LinesInEmpty, EmptySeq
<1>2. ASSUME NEW s \in Seq(S), NEW e \in S, s \in Q PROVE Append(s, e) \in Q
  <2>1. /\ Append(s, e) \in Seq(S) /\ Append(s, e)[Len(s) + 1] = e
        /\ \A i \in 1..Len(s) : Append(s, e)[i] = s[i]
        /\ DOMAIN Append(s, e) = 1..Len(s) + 1 /\ DOMAIN s = 1..Len(s) /\ Len(s) \in Nat
    BY AppendProperties, LenProperties
  <2>2. ASSUME \A i \in DOMAIN Append(s, e) : Append(s, e)[i] \in L
        PROVE  LinesIn(Append(s, e), L) = Append(s, e)
    <3>1. Len(s) + 1 \in 1..Len(s) + 1 /\ 1..Len(s) \subseteq 1..Len(s) + 1
      BY <2>1
    <3>2. e \in L /\ \A i \in DOMAIN s : s[i] \in L
      BY <2>1, <2>2, <3>1
    <3>3. LinesIn(s, L) = s
      BY <1>2, <3>2
    <3>4. QED
      BY <3>2, <3>3, LinesInAppend
  <2>3. QED
    BY <2>1, <2>2
<1>3. Seq(S) \subseteq Q
  <2> HIDE DEF Q
  <2>1. QED
    BY <1>1, <1>2, SeqSetInduction
<1>4. QED
  BY <1>3

\* The first line of a key is the first of its lines.
LEMMA FirstIsFirst ==
    ASSUME NEW T, NEW c \in File(T), NEW k, Has(c, k)
    PROVE  LinesIn(c, OfKey(T, k)) # <<>> /\ c[FirstOf(c, k)] = LinesIn(c, OfKey(T, k))[1]
<1> DEFINE ls == LinesIn(c, OfKey(T, k))
           n == FirstOf(c, k)
<1>1. PICK at \in [DOMAIN ls -> DOMAIN c] :
          /\ \A i \in DOMAIN ls : ls[i] = c[at[i]] /\ c[at[i]] \in OfKey(T, k)
          /\ \A i, j \in DOMAIN ls : i < j => at[i] < at[j]
          /\ \A m \in DOMAIN c : c[m] \in OfKey(T, k) => \E i \in DOMAIN ls : at[i] = m
  BY LinesInPlaces DEF File
<1>2. ls \in File(T) /\ DOMAIN ls = 1..Len(ls) /\ Len(ls) \in Nat
  BY LinesInKeys, LenProperties DEF File
<1>3. DOMAIN c \subseteq Nat
  BY LenProperties DEF File
<1>4. n \in DOMAIN c /\ c[n].key = k /\ \A j \in DOMAIN c : c[j].key = k => n <= j
  <2> DEFINE S == {i \in DOMAIN c : c[i].key = k}
  <2>1. S \in SUBSET Nat /\ S # {}
    BY <1>3 DEF Has
  <2>2. \E i \in S : \A j \in S : i <= j
    BY <2>1, LeastNatural
  <2>3. \E i \in DOMAIN c : c[i].key = k /\ \A j \in DOMAIN c : c[j].key = k => i <= j
    BY <2>2
  <2>4. QED
    BY <2>3 DEF FirstOf
<1> HIDE DEF ls, n
<1>5. c[n] \in OfKey(T, k)
  BY <1>4, LineAt DEF OfKey
<1>6. PICK i \in DOMAIN ls : at[i] = n
  BY <1>1, <1>4, <1>5
<1>7. 1 \in DOMAIN ls /\ (i = 1 \/ 1 < i)
  BY <1>2, <1>6
<1>8. at[1] \in DOMAIN c /\ c[at[1]].key = k
  BY <1>1, <1>7 DEF OfKey
<1>9. n <= at[1] /\ at[1] \in Nat /\ n \in Nat
  BY <1>3, <1>4, <1>8
<1>10. i = 1
  BY <1>1, <1>6, <1>7, <1>9
<1>11. ls[1] = c[n] /\ ls # <<>>
  BY <1>1, <1>2, <1>6, <1>7, <1>10
<1>12. QED
  BY <1>11 DEF ls, n

\* Two files with the same lines of a key give it the same value.
LEMMA GetOfSameLines ==
    ASSUME NEW T, NEW c \in File(T), NEW d \in File(T), NEW k, NEW default,
           LinesIn(c, OfKey(T, k)) = LinesIn(d, OfKey(T, k))
    PROVE  (Has(c, k) <=> Has(d, k)) /\ Get(c, k, default) = Get(d, k, default)
<1>1. ASSUME NEW e \in File(T) PROVE Has(e, k) <=> LinesIn(e, OfKey(T, k)) # <<>>
  <2>1. ASSUME ~Has(e, k) PROVE LinesIn(e, OfKey(T, k)) = <<>>
    <3>1. \A i \in DOMAIN e : e[i] \notin OfKey(T, k)
      BY <2>1 DEF Has, OfKey
    <3>2. QED
      BY <3>1, LinesInNone DEF File
  <2>2. QED
    BY <2>1, FirstIsFirst
<1>2. Has(c, k) <=> Has(d, k)
  BY <1>1
<1>3. CASE Has(c, k)
  <2>1. c[FirstOf(c, k)] = d[FirstOf(d, k)]
    BY <1>2, <1>3, FirstIsFirst
  <2>2. QED
    BY <1>2, <1>3, <2>1 DEF Get
<1>4. CASE ~Has(c, k)
  BY <1>2, <1>4 DEF Get
<1>5. QED
  BY <1>2, <1>3, <1>4

\* A value that is got is a text.
LEMMA GetIsText ==
    ASSUME NEW T, NEW c \in File(T), NEW k, NEW default \in T
    PROVE  Get(c, k, default) \in T
<1>1. CASE Has(c, k)
  BY <1>1, FirstOfFound, LineAt DEF Get, Pair
<1>2. CASE ~Has(c, k)
  BY <1>2 DEF Get
<1>3. QED
  BY <1>1, <1>2

\* Dropping a line takes it and no other, and leaves each key that is not its.
LEMMA DropKeys ==
    ASSUME NEW T, NEW c \in File(T), NEW i \in DOMAIN c, NEW k, c[i].key # k
    PROVE  /\ LinesIn(Drop(c, i), OfKey(T, k)) = LinesIn(c, OfKey(T, k))
           /\ Has(Drop(c, i), k) <=> Has(c, k)
<1>1. c[i] \notin OfKey(T, k)
  BY DEF OfKey
<1>2. LinesIn(Drop(c, i), OfKey(T, k)) = LinesIn(c, OfKey(T, k))
  BY <1>1, LinesInDrop
<1>3. Drop(c, i) \in File(T)
  BY DropPlaces
<1>4. QED
  BY <1>2, <1>3, GetOfSameLines
-----------------------------------------------------------------------------
\* A text written over another's is a file, and one written into an empty file
\* is what it was meant to be.
LEMMA OverIsFile ==
    ASSUME NEW T, "cut" \in T, NEW file \in File(T), NEW text \in File(T), NEW new \in Over(file, text)
    PROVE  new \in File(T)
<1>1. <<Cut>> \in File(T)
  <2>1. Cut \in Pair(T)
    BY LineIsPair DEF Cut
  <2>2. QED
    BY <2>1 DEF File
<1>2. CASE new = text
  BY <1>2
<1>3. CASE new # text
  <2>1. PICK n \in 2..Len(file) + 1 :
            \/ new = text \o SubSeq(file, n, Len(file))
            \/ new = text \o (<<Cut>> \o SubSeq(file, n, Len(file)))
    BY <1>3 DEF Over
  <2>2. Len(file) \in Nat /\ n \in Nat
    BY LenProperties DEF File
  <2>3. SubSeq(file, n, Len(file)) \in File(T)
    <3>1. CASE n \in 1..Len(file)
      BY <2>2, <3>1, SubSeqProperties DEF File
    <3>2. CASE n \notin 1..Len(file)
      <4>1. n > Len(file)
        BY <2>1, <2>2, <3>2
      <4>2. SubSeq(file, n, Len(file)) = <<>>
        BY <2>2, <4>1, SubSeqEmpty
      <4>3. QED
        BY <4>2, EmptySeq DEF File
    <3>3. QED
      BY <3>1, <3>2
  <2>4. <<Cut>> \o SubSeq(file, n, Len(file)) \in File(T)
    BY <1>1, <2>3, ConcatProperties DEF File
  <2>5. QED
    BY <2>1, <2>3, <2>4, ConcatProperties DEF File
<1>4. QED
  BY <1>2, <1>3

LEMMA OverEmpty == ASSUME NEW text PROVE Over(<<>>, text) = {text}
<1>1. 2..Len(<<>>) + 1 = {}
  BY EmptySeq
<1>2. QED
  BY <1>1 DEF Over

=============================================================================
