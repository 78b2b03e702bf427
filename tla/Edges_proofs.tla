---------------------------- MODULE Edges_proofs ----------------------------
(***************************************************************************)
(* Proofs about MCEdges, for every set of texts, calls, requests, queries, *)
(* sessions and chunks: what the tools that write files do, what is        *)
(* reported of the programs they start, where the output of shell sessions *)
(* goes, with what identity a request goes out, and what a search says of  *)
(* the helper it asked.                                                    *)
(***************************************************************************)
EXTENDS MCEdges, SequenceTheorems, FiniteSetTheorems, WellFoundedInduction, TLAPS

-----------------------------------------------------------------------------
(* Numbers, sequences and functions that are defined by recursion. *)

(* The usual induction, over a set of numbers. *)
LEMMA NatSetInduction ==
    ASSUME NEW T \in SUBSET Nat, 0 \in T, \A n \in T : n + 1 \in T
    PROVE  T = Nat
<1> DEFINE R == {p \in Nat \X Nat : p[1] < p[2]}
           U == Nat \ T
<1>1. IsWellFoundedOn(R, Nat)
  BY NatLessThanWellFounded DEF OpToRel
<1>2. ASSUME U # {} PROVE FALSE
  <2> HIDE DEF R
  <2>1. PICK x \in U : \A y \in U : ~(<<y, x>> \in R)
    BY <1>1, <1>2, WFMin
  <2>2. x \in Nat /\ x # 0 /\ x - 1 \in Nat
    OBVIOUS
  <2>3. x - 1 \in U
    BY <2>2
  <2>4. <<x - 1, x>> \in R
    BY <2>2 DEF R
  <2> QED BY <2>1, <2>3, <2>4
<1> QED BY <1>2

(* A function over D whose value at a point rests on its values at points of  *)
(* a lower rank, as step says: there is one.                                  *)
Steps(D, S) == [D -> [[D -> S] -> S]]
Ranked(D, rank, n) == n \in Nat /\ rank \in [D -> Nat] /\ \A i \in D : rank[i] < n
Grounded(D, S, rank, step) ==
    \A i \in D : \A f, g \in [D -> S] :
      (\A j \in D : rank[j] < rank[i] => f[j] = g[j]) => step[i][f] = step[i][g]
Solved(D, S, step) == \E f \in [D -> S] : f = [i \in D |-> step[i][f]]

LEMMA Recursion ==
    ASSUME NEW D, NEW S, NEW r, NEW n, Ranked(D, r, n),
           S # {}, NEW G \in Steps(D, S), Grounded(D, S, r, G)
    PROVE  Solved(D, S, G)
<1> USE DEF Ranked, Steps, Grounded
<1> DEFINE T == {k \in Nat : \E f \in [D -> S] : \A i \in D : r[i] < k => f[i] = G[i][f]}
<1>1. 0 \in T
  <2>0. PICK b : b \in S
    OBVIOUS
  <2> DEFINE f == [i \in D |-> b]
  <2>1. f \in [D -> S] /\ \A i \in D : ~(r[i] < 0)
    BY <2>0
  <2> QED BY <2>1
<1>2. ASSUME NEW k \in T PROVE k + 1 \in T
  <2>1. PICK f \in [D -> S] : \A i \in D : r[i] < k => f[i] = G[i][f]
    OBVIOUS
  <2> DEFINE g == [i \in D |-> G[i][f]]
  <2>2. g \in [D -> S]
    OBVIOUS
  <2>3. ASSUME NEW i \in D, r[i] < k + 1 PROVE g[i] = G[i][g]
    <3>1. \A j \in D : r[j] < r[i] => f[j] = g[j]
      BY <2>1, <2>3
    <3>2. G[i][f] = G[i][g]
      <4> HIDE DEF g
      <4> QED BY <2>2, <3>1
    <3> QED BY <3>2
  <2> HIDE DEF g
  <2> QED BY <2>2, <2>3
<1>3. T = Nat
  <2> HIDE DEF T
  <2>1. T \in SUBSET Nat
    BY DEF T
  <2> QED BY <1>1, <1>2, <2>1, NatSetInduction
<1>4. PICK f \in [D -> S] : \A i \in D : r[i] < n => f[i] = G[i][f]
  BY <1>3
<1>5. f = [i \in D |-> G[i][f]]
  BY <1>4
<1> QED BY <1>5 DEF Solved

-----------------------------------------------------------------------------
(* What apply_patch makes of a text. *)

Letter == Seq(Alphabet)

(* How texts are joined and cut.  Cat and Sub keep the provers from looking    *)
(* into a text they need not know.                                            *)
Cat(s, t) == s \o t
Sub(s, m, n) == SubSeq(s, m, n)

LEMMA Joined ==
    /\ <<>> \in Letter /\ Len(<<>>) = 0
    /\ \A c \in Alphabet : <<c>> \in Letter
    /\ \A s \in Letter : /\ Len(s) \in Nat
                          /\ s # <<>> => Len(s) \in Nat \ {0}
                          /\ \A i \in 1..Len(s) : s[i] \in Alphabet
                          /\ Cat(<<>>, s) = s
    /\ \A s, t \in Letter : Cat(s, t) \in Letter /\ Len(Cat(s, t)) = Len(s) + Len(t)
    /\ \A s, t, u \in Letter : Cat(Cat(s, t), u) = Cat(s, Cat(t, u))
    /\ \A s, t \in Letter : \A i \in 1..(Len(s) + Len(t)) :
         Cat(s, t)[i] = IF i <= Len(s) THEN s[i] ELSE t[i - Len(s)]
<1> USE DEF Letter, Cat
<1>1. <<>> \in Letter /\ Len(<<>>) = 0 /\ \A c \in Alphabet : <<c>> \in Letter
  BY EmptySeq
<1>2. ASSUME NEW s \in Letter
      PROVE  /\ Len(s) \in Nat
             /\ s # <<>> => Len(s) \in Nat \ {0}
             /\ \A i \in 1..Len(s) : s[i] \in Alphabet
             /\ <<>> \o s = s
  BY EmptySeq, LenProperties, ConcatEmptySeq
<1>3. ASSUME NEW s \in Letter, NEW t \in Letter
      PROVE  /\ Cat(s, t) \in Letter /\ Len(Cat(s, t)) = Len(s) + Len(t)
             /\ \A i \in 1..(Len(s) + Len(t)) : Cat(s, t)[i] = IF i <= Len(s) THEN s[i] ELSE t[i - Len(s)]
  BY ConcatProperties
<1>4. ASSUME NEW s \in Letter, NEW t \in Letter, NEW u \in Letter
      PROVE  (s \o t) \o u = s \o (t \o u)
  BY ConcatAssociative
<1> QED BY <1>1, <1>2, <1>3, <1>4

LEMMA CatEmpty == \A s \in Letter : Cat(<<>>, s) = s
BY ConcatEmptySeq DEF Letter, Cat

LEMMA CatSingle == \A s \in Letter : \A i \in 1..Len(s) : <<s[i]>> \in Letter
BY LenProperties DEF Letter

LEMMA CatTwice == \A s, t, u \in Letter : Cat(Cat(s, t), u) = Cat(s, Cat(t, u))
BY Joined, Zenon

(* Two texts of the same letters are one.                                     *)
LEMMA SameLetters ==
    ASSUME NEW s \in Letter, NEW t \in Letter, Len(s) = Len(t), \A i \in 1..Len(s) : s[i] = t[i]
    PROVE  s = t
BY SeqEqual DEF Letter

LEMMA CutLetters ==
    ASSUME NEW s \in Letter, NEW m \in 1..(Len(s) + 1), NEW n \in (m - 1)..Len(s)
    PROVE  /\ Sub(s, m, n) \in Letter /\ Len(Sub(s, m, n)) = n - m + 1
           /\ \A i \in 1..(n - m + 1) : Sub(s, m, n)[i] = s[m + i - 1]
<1>1. s \in Seq(Alphabet) /\ Len(s) \in Nat /\ m \in Int /\ n \in Int
  BY Joined DEF Letter
<1>2. \A i \in m..n : s[i] \in Alphabet
  BY <1>1, Joined
<1> QED BY <1>1, <1>2, SubSeqProperties DEF Letter, Sub

LEMMA CutTyped ==
    \A s \in Letter : \A m \in 1..(Len(s) + 1) : \A n \in (m - 1)..Len(s) : Sub(s, m, n) \in Letter
BY CutLetters, Zenon

LEMMA Cut ==
    ASSUME NEW s \in Letter, NEW m \in 1..(Len(s) + 1), NEW n \in (m - 1)..Len(s)
    PROVE  /\ n < m => Sub(s, m, n) = <<>>
           /\ m <= n => /\ Sub(s, m, n) = Cat(<<s[m]>>, Sub(s, m + 1, n))
                        /\ Sub(s, m, n) = Cat(Sub(s, m, n - 1), <<s[n]>>)
           /\ \A k \in (m - 1)..n : Cat(Sub(s, m, k), Sub(s, k + 1, n)) = Sub(s, m, n)
<1>1. s \in Seq(Alphabet) /\ Len(s) \in Nat /\ m \in Int /\ n \in Int
  BY Joined DEF Letter
<1>2. n < m => Sub(s, m, n) = <<>>
  BY <1>1, SubSeqEmpty DEF Sub
<1>3. ASSUME m <= n
      PROVE  /\ Sub(s, m, n) = Cat(<<s[m]>>, Sub(s, m + 1, n))
             /\ Sub(s, m, n) = Cat(Sub(s, m, n - 1), <<s[n]>>)
  <2>1. m \in 1..Len(s) /\ n \in m..Len(s)
    BY <1>1, <1>3
  <2> QED BY <1>1, <2>1, SubSeqRecursiveFirst, SubSeqRecursiveSecond, Zenon DEF Sub, Cat
<1>4. ASSUME NEW k \in (m - 1)..n PROVE Cat(Sub(s, m, k), Sub(s, k + 1, n)) = Sub(s, m, n)
  <2>1. k \in (m - 1)..Len(s) /\ n \in k..Len(s)
    BY <1>1
  <2> QED BY <1>1, <2>1, ConcatAdjacentSubSeq, Zenon DEF Sub, Cat
<1> QED BY <1>2, <1>3, <1>4

LEMMA CutOfJoined ==
    ASSUME NEW s \in Letter, NEW t \in Letter, NEW k \in 0..Len(s)
    PROVE  /\ Sub(Cat(s, t), 1, k) = Sub(s, 1, k)
           /\ Sub(Cat(s, t), Len(s) + 1, Len(Cat(s, t))) = t
<1>1. /\ Len(s) \in Nat /\ Len(t) \in Nat /\ k \in Nat
      /\ Cat(s, t) \in Letter /\ Len(Cat(s, t)) = Len(s) + Len(t)
      /\ \A i \in 1..(Len(s) + Len(t)) : Cat(s, t)[i] = IF i <= Len(s) THEN s[i] ELSE t[i - Len(s)]
  <2>1. Len(s) \in Nat /\ Len(t) \in Nat /\ k \in Nat
    BY LenProperties DEF Letter
  <2>3. Cat(s, t) \in Letter /\ Len(Cat(s, t)) = Len(s) + Len(t)
    BY Joined, Zenon
  <2>2. \A i \in 1..(Len(s) + Len(t)) : Cat(s, t)[i] = IF i <= Len(s) THEN s[i] ELSE t[i - Len(s)]
    BY Joined, Zenon
  <2> QED BY <2>1, <2>2, <2>3
<1>2. Sub(Cat(s, t), 1, k) = Sub(s, 1, k)
  <2>1. /\ Sub(Cat(s, t), 1, k) \in Letter /\ Len(Sub(Cat(s, t), 1, k)) = k - 1 + 1
        /\ \A i \in 1..(k - 1 + 1) : Sub(Cat(s, t), 1, k)[i] = Cat(s, t)[1 + i - 1]
    <3>1. 1 \in 1..(Len(Cat(s, t)) + 1) /\ k \in (1 - 1)..Len(Cat(s, t))
      BY <1>1
    <3> QED BY <1>1, <3>1, CutLetters
  <2>2. /\ Sub(s, 1, k) \in Letter /\ Len(Sub(s, 1, k)) = k - 1 + 1
        /\ \A i \in 1..(k - 1 + 1) : Sub(s, 1, k)[i] = s[1 + i - 1]
    <3>1. 1 \in 1..(Len(s) + 1) /\ k \in (1 - 1)..Len(s)
      BY <1>1
    <3> QED BY <1>1, <3>1, CutLetters
  <2> QED BY <1>1, <2>1, <2>2, SameLetters
<1>3. Sub(Cat(s, t), Len(s) + 1, Len(Cat(s, t))) = t
  <2> DEFINE d == Cat(s, t)
             b == Len(s) + 1
             e == Len(d)
             c == Sub(d, b, e)
  <2>1. d \in Letter /\ b \in 1..(Len(d) + 1) /\ e \in (b - 1)..Len(d)
    BY <1>1
  <2>2. /\ e - b + 1 = Len(t)
        /\ \A i \in 1..Len(t) : d[b + i - 1] = t[i]
    <3>1. e - b + 1 = Len(t)
      BY <1>1
    <3>2. ASSUME NEW i \in 1..Len(t) PROVE d[b + i - 1] = t[i]
      <4> DEFINE j == b + i - 1
      <4>1. j \in 1..(Len(s) + Len(t)) /\ ~(j <= Len(s)) /\ j - Len(s) = i
        BY <1>1
      <4> HIDE DEF b, j
      <4>2. Cat(s, t)[j] = IF j <= Len(s) THEN s[j] ELSE t[j - Len(s)]
        BY <1>1, <4>1, Zenon
      <4> QED BY <4>1, <4>2 DEF j
    <3> QED BY <3>1, <3>2
  <2> HIDE DEF b, d, e
  <2>3. c \in Letter /\ Len(c) = e - b + 1 /\ \A i \in 1..(e - b + 1) : c[i] = d[b + i - 1]
    BY <2>1, CutLetters, Zenon
  <2> HIDE DEF c
  <2>4. Len(c) = Len(t) /\ \A i \in 1..Len(c) : c[i] = t[i]
    BY <2>2, <2>3, Zenon
  <2>5. c = t
    BY <2>3, <2>4, SameLetters
  <2> QED BY <2>5 DEF b, c, d, e
<1> QED BY <1>2, <1>3

(* A match lies within the text. *)
LEMMA MatchesFit ==
    ASSUME NEW text \in Letter, NEW old \in Letter, NEW i \in Matches(text, old)
    PROVE  i \in 1..Len(text) /\ i + Len(old) <= Len(text) + 1
<1>1. i \in 1..Len(text) /\ Len(old) <= Len(SubSeq(text, i, Len(text)))
  BY DEF Matches, IsPrefix
<1>2. Len(SubSeq(text, i, Len(text))) = Len(text) - i + 1
  BY <1>1, SubSeqProperties, LenProperties DEF Letter
<1>3. Len(text) \in Nat /\ Len(old) \in Nat
  BY LenProperties DEF Letter
<1> QED BY <1>1, <1>2, <1>3

(* What LeftToRight unfolds, from a position on.                              *)
Turned(text, edit, f, i) ==
    IF i > Len(text) THEN <<>>
    ELSE IF i \in Matches(text, edit.old) THEN Cat(edit.new, f[i + Len(edit.old)])
    ELSE Cat(<<text[i]>>, f[i + 1])

LEMMA TurnedTyped ==
    ASSUME NEW text \in Letter, NEW edit \in Edits, edit.old # <<>>,
           NEW i \in 1..(Len(text) + 1),
           NEW f, \A j \in (i + 1)..(Len(text) + 1) : f[j] \in Letter
    PROVE  /\ Turned(text, edit, f, i) \in Letter
           /\ \A g : (\A j \in (i + 1)..(Len(text) + 1) : f[j] = g[j])
                       => Turned(text, edit, f, i) = Turned(text, edit, g, i)
<1>1. /\ Len(text) \in Nat /\ edit.old \in Letter /\ edit.new \in Letter
      /\ Len(edit.old) \in Nat \ {0}
  BY LenProperties, EmptySeq DEF Letter, Edits
<1>2. CASE i > Len(text)
  BY <1>2, EmptySeq DEF Turned, Letter
<1>3. CASE i <= Len(text) /\ i \in Matches(text, edit.old)
  <2>1. i + Len(edit.old) \in (i + 1)..(Len(text) + 1)
    BY <1>1, <1>3, MatchesFit
  <2>2. Cat(edit.new, f[i + Len(edit.old)]) \in Letter
    BY <1>1, <2>1, Joined
  <2> QED BY <1>1, <1>3, <2>1, <2>2 DEF Turned
<1>4. CASE i <= Len(text) /\ i \notin Matches(text, edit.old)
  <2>1. i + 1 \in (i + 1)..(Len(text) + 1) /\ text[i] \in Alphabet
    BY <1>1, <1>4, LenProperties DEF Letter
  <2>2. <<text[i]>> \in Letter
    BY <2>1 DEF Letter
  <2>3. Cat(<<text[i]>>, f[i + 1]) \in Letter
    BY <2>1, <2>2, Joined
  <2> QED BY <1>1, <1>4, <2>1, <2>3 DEF Turned
<1> QED BY <1>1, <1>2, <1>3, <1>4

LEMMA LeftToRightUnfolds ==
    ASSUME NEW text \in Letter, NEW edit \in Edits, edit.old # <<>>
    PROVE  \E f \in [1..(Len(text) + 1) -> Letter] :
             /\ f = [i \in 1..(Len(text) + 1) |-> Turned(text, edit, f, i)]
             /\ LeftToRight(text, edit) = f[1]
<1> DEFINE n == Len(text) + 1
           D == 1..n
           r == [i \in D |-> n - i]
           G == [i \in D |-> [f \in [D -> Letter] |-> Turned(text, edit, f, i)]]
<1>1. n \in Nat \ {0} /\ r \in [D -> Nat] /\ \A i \in D : r[i] < n
  BY LenProperties DEF Letter
<1>2. ASSUME NEW i \in D, NEW f \in [D -> Letter]
      PROVE  /\ Turned(text, edit, f, i) \in Letter
             /\ \A g \in [D -> Letter] : (\A j \in D : r[j] < r[i] => f[j] = g[j])
                  => Turned(text, edit, f, i) = Turned(text, edit, g, i)
  <2>1. \A j \in (i + 1)..n : j \in D /\ r[j] < r[i]
    BY <1>1
  <2>2. \A j \in (i + 1)..n : f[j] \in Letter
    BY <2>1
  <2> HIDE DEF r
  <2> QED BY <2>1, <2>2, TurnedTyped
<1>3. G \in [D -> [[D -> Letter] -> Letter]]
  BY <1>2
<1>4. \A i \in D : \A f, g \in [D -> Letter] :
        (\A j \in D : r[j] < r[i] => f[j] = g[j]) => G[i][f] = G[i][g]
  <2> HIDE DEF r
  <2> QED BY <1>2
<1>5. <<>> \in Letter
  BY EmptySeq DEF Letter
<1>6. Solved(D, Letter, G)
  <2>1. Ranked(D, r, n) /\ G \in Steps(D, Letter) /\ Grounded(D, Letter, r, G)
    BY <1>1, <1>3, <1>4 DEF Ranked, Steps, Grounded
  <2> HIDE DEF n, D, r, G
  <2> QED BY <2>1, <1>5, Recursion
<1>7. PICK f \in [D -> Letter] : f = [i \in D |-> Turned(text, edit, f, i)]
  BY <1>6 DEF Solved
<1> DEFINE h == CHOOSE h : h = [i \in D |-> Turned(text, edit, h, i)]
<1>8. h = [i \in D |-> Turned(text, edit, h, i)]
  <2> HIDE DEF D
  <2> QED BY <1>7
<1>9. LeftToRight(text, edit) = h[1]
  BY DEF LeftToRight, Turned, Cat
<1> HIDE DEF h
<1>10. \A i \in D : h[i] = Turned(text, edit, h, i)
  BY <1>8
<1> DEFINE T == {k \in Nat : \A i \in D : i + k >= n => h[i] \in Letter}
<1>11. 0 \in T
  <2>1. n \in D /\ h[n] = Turned(text, edit, h, n)
    BY <1>1, <1>10
  <2>2. n > Len(text)
    BY <1>1
  <2>3. h[n] = <<>>
    BY <2>1, <2>2 DEF Turned
  <2>4. \A i \in D : i + 0 >= n => i = n
    BY <1>1
  <2> QED BY <2>3, <2>4, <1>5
<1>12. ASSUME NEW k \in T PROVE k + 1 \in T
  <2>1. ASSUME NEW i \in D, i + k + 1 >= n PROVE h[i] \in Letter
    <3>1. \A j \in (i + 1)..n : h[j] \in Letter
      BY <1>1, <2>1
    <3> QED BY <1>10, <3>1, TurnedTyped
  <2> QED BY <2>1, <1>1
<1>13. T = Nat
  <2> HIDE DEF T
  <2>1. T \in SUBSET Nat
    BY DEF T
  <2> QED BY <1>11, <1>12, <2>1, NatSetInduction
<1>14. \A i \in D : h[i] \in Letter
  BY <1>1, <1>13
<1>15. h \in [D -> Letter]
  BY <1>8, <1>14
<1> QED BY <1>8, <1>9, <1>15

(* A stretch of a text with no match in it stays as it is. *)
LEMMA NothingTurned ==
    ASSUME NEW text \in Letter, NEW edit \in Edits,
           NEW f \in [1..(Len(text) + 1) -> Letter],
           \A i \in 1..(Len(text) + 1) : f[i] = Turned(text, edit, f, i),
           NEW e \in 1..(Len(text) + 1), NEW b \in 1..e,
           \A i \in b..(e - 1) : i \notin Matches(text, edit.old)
    PROVE  f[b] = Cat(Sub(text, b, e - 1), f[e])
<1> DEFINE T == {k \in Nat : \A i \in b..e : i + k >= e => f[i] = Cat(Sub(text, i, e - 1), f[e])}
<1>1. Len(text) \in Nat /\ b \in Nat /\ e \in Nat /\ b >= 1 /\ e <= Len(text) + 1 /\ f[e] \in Letter
  BY LenProperties DEF Letter
<1>2. 0 \in T
  <2>1. Sub(text, e, e - 1) = <<>>
    <3>1. e - 1 \in (e - 1)..Len(text) /\ e - 1 < e
      BY <1>1
    <3> QED BY <3>1, Cut
  <2>2. Cat(<<>>, f[e]) = f[e]
    BY <1>1, CatEmpty, Zenon
  <2>3. \A i \in b..e : i + 0 >= e => i = e
    BY <1>1
  <2> QED BY <2>1, <2>2, <2>3
<1>3. ASSUME NEW k \in T PROVE k + 1 \in T
  <2>1. ASSUME NEW i \in b..e, i + k + 1 >= e PROVE f[i] = Cat(Sub(text, i, e - 1), f[e])
    <3>1. CASE i + k >= e
      BY <3>1
    <3>2. CASE i + k < e
      <4>1. /\ i \in b..(e - 1) /\ i + 1 \in b..e /\ i + 1 + k >= e
            /\ i <= Len(text) /\ i \in 1..Len(text)
            /\ i \in 1..(Len(text) + 1) /\ e - 1 \in (i - 1)..Len(text) /\ i <= e - 1
            /\ i + 1 \in 1..(Len(text) + 1) /\ e - 1 \in (i + 1 - 1)..Len(text)
        BY <1>1, <2>1, <3>2
      <4>2. f[i] = Cat(<<text[i]>>, f[i + 1])
        BY <1>1, <4>1 DEF Turned
      <4>3. f[i + 1] = Cat(Sub(text, i + 1, e - 1), f[e])
        BY <4>1
      <4>4. Sub(text, i, e - 1) = Cat(<<text[i]>>, Sub(text, i + 1, e - 1))
        BY <4>1, Cut
      <4>5. <<text[i]>> \in Letter /\ Sub(text, i + 1, e - 1) \in Letter
        <5>1. <<text[i]>> \in Letter
          BY <4>1, CatSingle, Zenon
        <5>2. Sub(text, i + 1, e - 1) \in Letter
          BY <4>1, CutTyped
        <5> QED BY <5>1, <5>2
      <4>6. Cat(Cat(<<text[i]>>, Sub(text, i + 1, e - 1)), f[e])
              = Cat(<<text[i]>>, Cat(Sub(text, i + 1, e - 1), f[e]))
        BY <1>1, <4>5, CatTwice, Zenon
      <4> QED BY <4>2, <4>3, <4>4, <4>6, Zenon
    <3> QED BY <1>1, <2>1, <3>1, <3>2
  <2> QED BY <1>1, <2>1
<1>4. T = Nat
  <2> HIDE DEF T
  <2>1. T \in SUBSET Nat
    BY DEF T
  <2> QED BY <1>2, <1>3, <2>1, NatSetInduction
<1>5. e - b \in Nat /\ b + (e - b) >= e /\ b \in b..e
  BY <1>1
<1> QED BY <1>4, <1>5

(* Matches that overlap nowhere. *)
Apart(text, edit) ==
    \A i, j \in Matches(text, edit.old) : i < j => i + Len(edit.old) <= j

(* What is right of a position turned, and what is left of it as it was:      *)
(* replacing the matches from the last to the first goes through these texts. *)
Half(text, f, i) == Cat(Sub(text, 1, i - 1), f[i])

LEMMA HalfSteps ==
    ASSUME NEW text \in Letter, NEW edit \in Edits, edit.old # <<>>, Apart(text, edit),
           NEW f \in [1..(Len(text) + 1) -> Letter],
           \A i \in 1..(Len(text) + 1) : f[i] = Turned(text, edit, f, i),
           NEW i \in 1..Len(text)
    PROVE  Half(text, f, i) = IF i \in Matches(text, edit.old)
                              THEN Replaced(Half(text, f, i + 1), i, edit)
                              ELSE Half(text, f, i + 1)
<1>1. /\ Len(text) \in Nat /\ i \in Nat /\ i <= Len(text) /\ i >= 1 /\ i + 1 - 1 = i
      /\ Len(edit.old) \in Nat \ {0}
      /\ i \in 1..(Len(text) + 1) /\ i + 1 \in 1..(Len(text) + 1)
  BY LenProperties, EmptySeq DEF Letter, Edits
<1>2. edit.new \in Letter /\ \A j \in 1..(Len(text) + 1) : f[j] \in Letter
  BY DEF Letter, Edits
<1>3. CASE i \notin Matches(text, edit.old)
  <2>1. f[i] = Cat(<<text[i]>>, f[i + 1])
    BY <1>1, <1>3 DEF Turned
  <2>2. <<text[i]>> \in Letter /\ f[i + 1] \in Letter
    BY <1>1, <1>2, CatSingle, Zenon
  <2>3. Sub(text, 1, i - 1) \in Letter /\ Sub(text, 1, i) = Cat(Sub(text, 1, i - 1), <<text[i]>>)
    <3>1. /\ 1 \in 1..(Len(text) + 1) /\ i \in (1 - 1)..Len(text) /\ 1 <= i
          /\ i - 1 \in (1 - 1)..Len(text)
      BY <1>1
    <3> QED BY <3>1, Cut, CutLetters
  <2>4. Cat(Sub(text, 1, i - 1), Cat(<<text[i]>>, f[i + 1]))
          = Cat(Cat(Sub(text, 1, i - 1), <<text[i]>>), f[i + 1])
    BY <2>2, <2>3, CatTwice, Zenon
  <2> QED BY <1>1, <1>3, <2>1, <2>3, <2>4 DEF Half
<1>4. CASE i \in Matches(text, edit.old)
  <2> DEFINE e == i + Len(edit.old)
             a == Sub(text, 1, i - 1)
             c == Sub(text, 1, e - 1)
             m == Sub(text, i + 1, e - 1)
             z == f[e]
  <2>1. /\ e \in 1..(Len(text) + 1) /\ e - 1 \in (1 - 1)..Len(text) /\ i - 1 \in (1 - 1)..Len(text)
        /\ 1 \in 1..(Len(text) + 1) /\ i \in (1 - 1)..(e - 1) /\ i + 1 \in 1..e
        /\ i \in (1 - 1)..Len(text) /\ i - 1 \in (1 - 1)..(e - 1)
        /\ e - 1 \in (i + 1 - 1)..Len(text) /\ i - 1 \in 0..(e - 1)
        /\ e \in Nat
    BY <1>1, <1>4, MatchesFit DEF Letter, Edits
  <2>2. \A j \in (i + 1)..(e - 1) : j \notin Matches(text, edit.old)
    BY <1>1, <1>4, <2>1 DEF Apart, Matches
  <2>3. f[i] = Cat(edit.new, z)
    <3>1. ~(i > Len(text))
      BY <1>1
    <3> QED BY <1>1, <1>4, <3>1, Zenon DEF Turned
  <2> HIDE DEF e
  <2>4. f[i + 1] = Cat(m, z)
    BY <2>1, <2>2, NothingTurned
  <2>5. /\ a \in Letter /\ c \in Letter /\ m \in Letter /\ Sub(text, 1, i) \in Letter
        /\ Len(a) = i - 1 - 1 + 1 /\ Len(c) = e - 1 - 1 + 1
    <3>1. a \in Letter /\ Len(a) = i - 1 - 1 + 1
      BY <1>1, <2>1, CutLetters, Zenon
    <3>2. c \in Letter /\ Len(c) = e - 1 - 1 + 1
      BY <1>1, <2>1, CutLetters, Zenon
    <3>3. m \in Letter
      BY <1>1, <2>1, CutTyped
    <3>4. Sub(text, 1, i) \in Letter
      BY <1>1, <2>1, CutLetters, Zenon
    <3> QED BY <3>1, <3>2, <3>3, <3>4
  <2>6. z \in Letter
    BY <1>2, <2>1
  <2>7. Cat(Sub(text, 1, i), m) = c
    BY <2>1, Cut
  <2>8. Half(text, f, i + 1) = Cat(c, z)
    <3>1. Cat(Sub(text, 1, i), Cat(m, z)) = Cat(Cat(Sub(text, 1, i), m), z)
      BY <2>5, <2>6, CatTwice, Zenon
    <3> QED BY <1>1, <2>4, <2>7, <3>1 DEF Half
  <2> HIDE DEF a, c, m, z
  <2>9. Sub(Cat(c, z), 1, i - 1) = a
    <3>1. i - 1 \in 0..Len(c)
      BY <1>1, <2>1, <2>5
    <3>2. Sub(Cat(c, z), 1, i - 1) = Sub(c, 1, i - 1)
      BY <2>5, <2>6, <3>1, CutOfJoined
    <3>3. Sub(c, 1, i - 1) = a
      <4>1. Len(c) = e - 1 /\ 1 \in 1..(Len(c) + 1) /\ i - 1 \in (1 - 1)..Len(c)
        BY <1>1, <2>1, <2>5
      <4>2. Sub(c, 1, i - 1) \in Letter /\ Len(Sub(c, 1, i - 1)) = i - 1 - 1 + 1
        BY <2>5, <4>1, CutLetters
      <4>3. ASSUME NEW k \in 1..(i - 1) PROVE Sub(c, 1, i - 1)[k] = a[k]
        <5>1. /\ k \in 1..(i - 1 - 1 + 1) /\ k \in 1..(e - 1 - 1 + 1) /\ 1 + k - 1 = k
          BY <1>1, <2>1
        <5>2. Sub(c, 1, i - 1)[k] = c[1 + k - 1]
          BY <2>5, <4>1, <5>1, CutLetters
        <5>3. c[k] = text[1 + k - 1]
          BY <2>1, <5>1, CutLetters DEF c
        <5>4. a[k] = text[1 + k - 1]
          BY <2>1, <5>1, CutLetters DEF a
        <5> QED BY <5>1, <5>2, <5>3, <5>4
      <4>4. Len(Sub(c, 1, i - 1)) = Len(a) /\ Len(a) = i - 1
        BY <1>1, <2>5, <4>2
      <4>5. \A k \in 1..Len(Sub(c, 1, i - 1)) : Sub(c, 1, i - 1)[k] = a[k]
        BY <4>3, <4>4
      <4> QED BY <2>5, <4>2, <4>4, <4>5, SameLetters, Zenon
    <3> QED BY <3>2, <3>3
  <2>10. Sub(Cat(c, z), i + Len(edit.old), Len(Cat(c, z))) = z
    <3>1. Len(c) + 1 = i + Len(edit.old) /\ 0 \in 0..Len(c)
      BY <1>1, <2>1, <2>5 DEF e
    <3>2. Sub(Cat(c, z), Len(c) + 1, Len(Cat(c, z))) = z
      BY <2>5, <2>6, <3>1, CutOfJoined
    <3> QED BY <3>1, <3>2
  <2>11. Replaced(Cat(c, z), i, edit)
           = Cat(Cat(Sub(Cat(c, z), 1, i - 1), edit.new), Sub(Cat(c, z), i + Len(edit.old), Len(Cat(c, z))))
    BY Zenon DEF Replaced, Cat, Sub
  <2>12. Cat(Cat(a, edit.new), z) = Cat(a, Cat(edit.new, z))
    <3>1. a \in Letter /\ edit.new \in Letter /\ z \in Letter
      BY <1>2, <2>5, <2>6
    <3> QED BY <3>1, CatTwice
  <2>13. Half(text, f, i) = Cat(a, f[i])
    BY DEF Half, a
  <2> QED BY <1>4, <2>3, <2>8, <2>9, <2>10, <2>11, <2>12, <2>13, Zenon
<1> QED BY <1>3, <1>4

(* What Applied unfolds, from a position on.                                  *)
Undone(text, edit, g, i) ==
    IF i > Len(text) THEN text
    ELSE IF i \in Matches(text, edit.old) THEN Replaced(g[i + 1], i, edit) ELSE g[i + 1]

UndoneBy(text, edit, g) == g = [i \in 1..(Len(text) + 1) |-> Undone(text, edit, g, i)]

(* Two solutions of the equation of Applied are one.                          *)
LEMMA UndoneUnique ==
    ASSUME NEW text \in Letter, NEW edit,
           NEW g, UndoneBy(text, edit, g), NEW h, UndoneBy(text, edit, h)
    PROVE  g[1] = h[1]
<1> USE DEF UndoneBy
<1> DEFINE n == Len(text) + 1
           D == 1..n
           T == {k \in Nat : \A i \in D : i + k >= n => g[i] = h[i]}
<1>1. Len(text) \in Nat /\ n \in Nat \ {0}
  BY LenProperties DEF Letter
<1>2. \A i \in D : g[i] = Undone(text, edit, g, i) /\ h[i] = Undone(text, edit, h, i)
  <2>1. \A i \in D : g[i] = Undone(text, edit, g, i)
    OBVIOUS
  <2>2. \A i \in D : h[i] = Undone(text, edit, h, i)
    OBVIOUS
  <2> QED BY <2>1, <2>2
<1>3. 0 \in T
  <2>1. ASSUME NEW i \in D, i + 0 >= n PROVE g[i] = h[i]
    <3>1. i > Len(text)
      BY <1>1, <2>1
    <3> QED BY <1>2, <3>1 DEF Undone
  <2> QED BY <2>1
<1>4. ASSUME NEW k \in T PROVE k + 1 \in T
  <2>1. ASSUME NEW i \in D, i + k + 1 >= n PROVE g[i] = h[i]
    <3>1. i <= Len(text) => i + 1 \in D /\ i + 1 + k >= n
      BY <1>1, <2>1
    <3>2. i <= Len(text) => g[i + 1] = h[i + 1]
      BY <3>1
    <3>3. i <= Len(text) \/ i > Len(text)
      BY <1>1
    <3> QED BY <1>2, <3>2, <3>3, Zenon DEF Undone
  <2> QED BY <1>1, <2>1
<1>5. T = Nat
  <2> HIDE DEF T
  <2>1. T \in SUBSET Nat
    BY DEF T
  <2> QED BY <1>3, <1>4, <2>1, NatSetInduction
<1>6. 1 \in D /\ 1 + n >= n /\ n \in T
  BY <1>1, <1>5
<1> QED BY <1>6

LEMMA CutEnds ==
    ASSUME NEW text \in Letter
    PROVE  Sub(text, 1, Len(text)) = text /\ Sub(text, 1, 0) = <<>> /\ Cat(text, <<>>) = text
BY SubSeqFull, SubSeqEmpty, ConcatEmptySeq DEF Letter, Sub, Cat

(* apply_exact_edit replaces the matches from the last to the first: it makes *)
(* the text one makes that goes from left to right, when no two matches       *)
(* overlap.                                                                   *)
LEMMA AppliedIsLeftToRight ==
    ASSUME NEW text \in Letter, NEW edit \in Edits, edit.old # <<>>, Apart(text, edit)
    PROVE  Applied(text, edit) = LeftToRight(text, edit) /\ LeftToRight(text, edit) \in Letter
<1>1. Len(text) \in Nat
  BY LenProperties DEF Letter
<1>2. PICK f \in [1..(Len(text) + 1) -> Letter] :
         /\ f = [i \in 1..(Len(text) + 1) |-> Turned(text, edit, f, i)]
         /\ LeftToRight(text, edit) = f[1]
  BY LeftToRightUnfolds
<1>3. \A i \in 1..(Len(text) + 1) : f[i] = Turned(text, edit, f, i)
  BY <1>2
<1>4. f[1] \in Letter
  BY <1>1
<1> DEFINE g == [i \in 1..(Len(text) + 1) |-> Half(text, f, i)]
<1>5. ASSUME NEW i \in 1..(Len(text) + 1) PROVE g[i] = Undone(text, edit, g, i)
  <2>1. CASE i > Len(text)
    <3>1. i = Len(text) + 1 /\ i - 1 = Len(text)
      BY <1>1, <2>1
    <3>2. f[i] = <<>>
      BY <1>3, <2>1 DEF Turned
    <3>3. Half(text, f, i) = text
      BY <3>1, <3>2, CutEnds DEF Half
    <3> QED BY <2>1, <3>3 DEF Undone
  <2>2. CASE i <= Len(text)
    <3>1. i \in 1..Len(text) /\ ~(i > Len(text)) /\ i + 1 \in 1..(Len(text) + 1)
      BY <1>1, <2>2
    <3>2. Half(text, f, i) = IF i \in Matches(text, edit.old)
                              THEN Replaced(Half(text, f, i + 1), i, edit)
                              ELSE Half(text, f, i + 1)
      BY <1>3, <3>1, HalfSteps
    <3>3. g[i] = Half(text, f, i) /\ g[i + 1] = Half(text, f, i + 1)
      BY <3>1
    <3> HIDE DEF g
    <3> QED BY <3>1, <3>2, <3>3, Zenon DEF Undone
  <2> QED BY <1>1, <2>1, <2>2
<1>6. g = [i \in 1..(Len(text) + 1) |-> Undone(text, edit, g, i)]
  <2>1. g = [i \in 1..(Len(text) + 1) |-> g[i]]
    OBVIOUS
  <2> HIDE DEF g
  <2> QED BY <1>5, <2>1
<1> DEFINE h == CHOOSE h : h = [i \in 1..(Len(text) + 1) |-> Undone(text, edit, h, i)]
<1>7. Applied(text, edit) = h[1]
  BY DEF Applied, Undone
<1>8. h = [i \in 1..(Len(text) + 1) |-> Undone(text, edit, h, i)]
  <2> HIDE DEF g
  <2> QED BY <1>6
<1>9. g[1] = h[1]
  <2>1. UndoneBy(text, edit, g) /\ UndoneBy(text, edit, h)
    BY <1>6, <1>8 DEF UndoneBy
  <2> HIDE DEF g, h
  <2> QED BY <2>1, UndoneUnique
<1>10. g[1] = f[1]
  <2>1. 1 \in 1..(Len(text) + 1) /\ 1 - 1 = 0
    BY <1>1
  <2>2. g[1] = Cat(Sub(text, 1, 0), f[1])
    BY <2>1 DEF Half
  <2> QED BY <1>4, <2>2, CutEnds, CatEmpty
<1> QED BY <1>2, <1>4, <1>7, <1>9, <1>10

(* What Described unfolds.                                                    *)
EditedOnce(text, list, g, k) == IF k = 0 THEN text ELSE LeftToRight(g[k - 1], list[k])
EditedBy(text, list, n, g) == g = [k \in 0..n |-> EditedOnce(text, list, g, k)]

LEMMA EditedExists ==
    ASSUME NEW text, NEW list, NEW n \in Nat
    PROVE  \E g : EditedBy(text, list, n, g)
<1> DEFINE T == {k \in Nat : \E g : EditedBy(text, list, k, g)}
<1>1. 0 \in T
  <2> DEFINE g == [k \in 0..0 |-> text]
  <2>1. \A k \in 0..0 : k = 0
    OBVIOUS
  <2>2. g = [k \in 0..0 |-> EditedOnce(text, list, g, k)]
    BY <2>1 DEF EditedOnce
  <2> QED BY <2>2 DEF EditedBy
<1>2. ASSUME NEW k \in T PROVE k + 1 \in T
  <2>1. PICK g : g = [j \in 0..k |-> EditedOnce(text, list, g, j)]
    BY DEF EditedBy
  <2> DEFINE h == [j \in 0..(k + 1) |-> IF j = k + 1 THEN LeftToRight(g[k], list[k + 1]) ELSE g[j]]
  <2>2. ASSUME NEW j \in 0..(k + 1) PROVE h[j] = EditedOnce(text, list, h, j)
    <3>1. CASE j = k + 1
      <4>1. j # 0 /\ j - 1 = k /\ k \in 0..(k + 1) /\ k # k + 1
        BY <3>1
      <4>2. h[k] = g[k] /\ h[j] = LeftToRight(g[k], list[j])
        BY <3>1, <4>1
      <4> HIDE DEF h
      <4> QED BY <4>1, <4>2 DEF EditedOnce
    <3>2. CASE j # k + 1
      <4>1. j \in 0..k /\ (j # 0 => j - 1 \in 0..(k + 1) /\ j - 1 # k + 1)
        BY <3>2
      <4>2. h[j] = EditedOnce(text, list, g, j)
        BY <2>1, <3>2, <4>1
      <4>3. j # 0 => h[j - 1] = g[j - 1]
        BY <4>1
      <4> HIDE DEF h
      <4> QED BY <4>2, <4>3 DEF EditedOnce
    <3> QED BY <3>1, <3>2
  <2>3. h = [j \in 0..(k + 1) |-> h[j]]
    OBVIOUS
  <2> HIDE DEF h
  <2>4. h = [j \in 0..(k + 1) |-> EditedOnce(text, list, h, j)]
    BY <2>2, <2>3
  <2> QED BY <2>4 DEF EditedBy
<1>3. T = Nat
  <2> HIDE DEF T
  <2>1. T \in SUBSET Nat
    BY DEF T
  <2> QED BY <1>1, <1>2, <2>1, NatSetInduction
<1> QED BY <1>3

LEMMA EditedUnique ==
    ASSUME NEW text, NEW list, NEW n \in Nat,
           NEW g, EditedBy(text, list, n, g), NEW h, EditedBy(text, list, n, h)
    PROVE  g[n] = h[n]
<1> DEFINE T == {k \in Nat : k <= n => g[k] = h[k]}
<1>1. \A k \in 0..n : g[k] = EditedOnce(text, list, g, k)
  BY DEF EditedBy
<1>2. \A k \in 0..n : h[k] = EditedOnce(text, list, h, k)
  BY DEF EditedBy
<1>3. 0 \in T
  BY <1>1, <1>2 DEF EditedOnce
<1>4. ASSUME NEW k \in T PROVE k + 1 \in T
  <2>1. CASE k + 1 <= n
    <3>1. k + 1 \in 0..n /\ k + 1 # 0 /\ k + 1 - 1 = k /\ k <= n
      BY <2>1
    <3>2. g[k + 1] = LeftToRight(g[k], list[k + 1])
      BY <1>1, <3>1 DEF EditedOnce
    <3>3. h[k + 1] = LeftToRight(h[k], list[k + 1])
      BY <1>2, <3>1 DEF EditedOnce
    <3> QED BY <3>1, <3>2, <3>3
  <2> QED BY <2>1
<1>5. T = Nat
  <2> HIDE DEF T
  <2>1. T \in SUBSET Nat
    BY DEF T
  <2> QED BY <1>3, <1>4, <2>1, NatSetInduction
<1> QED BY <1>5

LEMMA DescribedIs ==
    ASSUME NEW text, NEW list, Len(list) \in Nat
    PROVE  \E g : EditedBy(text, list, Len(list), g) /\ Described(text, list) = g[Len(list)]
<1> DEFINE h == CHOOSE h : h = [k \in 0..Len(list) |-> EditedOnce(text, list, h, k)]
<1>1. h = [k \in 0..Len(list) |-> EditedOnce(text, list, h, k)]
  BY EditedExists DEF EditedBy
<1>2. Described(text, list) = h[Len(list)]
  BY DEF Described, EditedOnce
<1> QED BY <1>1, <1>2 DEF EditedBy

(* A text and the edits that are left describe what the first edit makes of   *)
(* the text and the edits behind it do.                                       *)
LEMMA DescribedStep ==
    ASSUME NEW text, NEW list \in Seq(Edits)
    PROVE  /\ list = <<>> => Described(text, list) = text
           /\ list # <<>> => Described(text, list) = Described(LeftToRight(text, Head(list)), Tail(list))
<1>1. Len(list) \in Nat /\ (list # <<>> => Len(list) # 0)
  BY LenProperties, EmptySeq
<1>2. PICK g : EditedBy(text, list, Len(list), g) /\ Described(text, list) = g[Len(list)]
  BY <1>1, DescribedIs
<1>3. \A k \in 0..Len(list) : g[k] = EditedOnce(text, list, g, k)
  BY <1>2 DEF EditedBy
<1>4. g[0] = text
  BY <1>1, <1>3 DEF EditedOnce
<1>5. CASE list = <<>>
  <2>1. Len(list) = 0
    BY <1>5, EmptySeq
  <2> QED BY <1>2, <1>4, <1>5, <2>1
<1>6. CASE list # <<>>
  <2> DEFINE n == Len(list) - 1
             x == LeftToRight(text, Head(list))
             h == [k \in 0..n |-> g[k + 1]]
  <2>1. /\ n \in Nat /\ n + 1 = Len(list) /\ Tail(list) \in Seq(Edits) /\ Len(Tail(list)) = n
        /\ Head(list) = list[1] /\ \A i \in 1..n : Tail(list)[i] = list[i + 1]
    BY <1>1, <1>6, HeadTailProperties
  <2>2. ASSUME NEW k \in 0..n PROVE h[k] = EditedOnce(x, Tail(list), h, k)
    <3>1. k + 1 \in 0..Len(list) /\ k + 1 # 0 /\ k + 1 - 1 = k
      BY <2>1
    <3>2. h[k] = LeftToRight(g[k], list[k + 1])
      BY <1>3, <3>1 DEF EditedOnce
    <3>3. CASE k = 0
      BY <1>4, <2>1, <3>2, <3>3 DEF EditedOnce
    <3>4. CASE k # 0
      <4>1. k \in 1..n /\ k - 1 \in 0..n /\ k - 1 + 1 = k
        BY <2>1, <3>4
      <4>2. h[k - 1] = g[k]
        BY <4>1
      <4>3. Tail(list)[k] = list[k + 1]
        BY <2>1, <4>1
      <4> HIDE DEF h, n
      <4> QED BY <3>2, <3>4, <4>2, <4>3, Zenon DEF EditedOnce
    <3> QED BY <3>3, <3>4
  <2>3. h = [k \in 0..n |-> h[k]]
    OBVIOUS
  <2>4. h[n] = g[Len(list)]
    BY <2>1
  <2> HIDE DEF h, n, x
  <2>5. EditedBy(x, Tail(list), n, h)
    BY <2>2, <2>3 DEF EditedBy
  <2>6. PICK e : EditedBy(x, Tail(list), n, e) /\ Described(x, Tail(list)) = e[n]
    BY <2>1, DescribedIs
  <2>7. e[n] = h[n]
    BY <2>1, <2>5, <2>6, EditedUnique
  <2> QED BY <1>2, <1>6, <2>4, <2>6, <2>7 DEF x
<1> QED BY <1>5, <1>6

-----------------------------------------------------------------------------
(* The checks of the tools: an outcome is what the first check that fails     *)
(* says, and a pass when none does.                                           *)
LEMMA LeastNumber ==
    ASSUME NEW F \in SUBSET Nat, F # {}
    PROVE  Min(F) \in F /\ \A j \in F : Min(F) <= j
<1> DEFINE R == {p \in Nat \X Nat : p[1] < p[2]}
<1>1. IsWellFoundedOn(R, Nat)
  BY NatLessThanWellFounded DEF OpToRel
<1>2. PICK x \in F : \A y \in F : ~(<<y, x>> \in R)
  <2> HIDE DEF R
  <2> QED BY <1>1, WFMin
<1>3. ASSUME NEW y \in F PROVE x <= y
  <2>1. ~(y < x)
    BY <1>2
  <2>2. x \in Nat /\ y \in Nat
    OBVIOUS
  <2> QED BY <2>1, <2>2
<1> QED BY <1>3 DEF Min

LEMMA OutcomeIs ==
    ASSUME NEW n \in Nat, NEW checks, DOMAIN checks = 1..n
    PROVE  \/ (\A i \in 1..n : ~checks[i][1]) /\ Outcome(checks) = Passed
           \/ \E i \in 1..n : /\ checks[i][1] /\ Outcome(checks) = checks[i][2]
                              /\ \A j \in 1..n : j < i => ~checks[j][1]
<1> DEFINE F == {i \in DOMAIN checks : checks[i][1]}
<1>1. CASE F = {}
  BY <1>1 DEF Outcome
<1>2. CASE F # {}
  <2>1. Min(F) \in F /\ \A j \in F : Min(F) <= j
    <3>1. F \in SUBSET Nat
      OBVIOUS
    <3> HIDE DEF F
    <3> QED BY <1>2, <3>1, LeastNumber
  <2>2. Outcome(checks) = checks[Min(F)][2]
    BY <1>2 DEF Outcome
  <2>3. ASSUME NEW j \in 1..n, j < Min(F) PROVE ~checks[j][1]
    <3> DEFINE m == Min(F)
    <3>1. m \in Nat /\ j \in Nat /\ \A k \in F : m <= k
      BY <2>1
    <3>2. j \notin F
      <4> HIDE DEF m
      <4>1. ~(m <= j)
        BY <2>3, <3>1 DEF m
      <4> QED BY <3>1, <4>1
    <3> QED BY <3>2
  <2> QED BY <2>1, <2>2, <2>3
<1> QED BY <1>1, <1>2

(* Checks of which none says that it passed: they pass when none fails.       *)
LEMMA OutcomePassed ==
    ASSUME NEW n \in Nat, NEW checks, DOMAIN checks = 1..n,
           \A i \in 1..n : checks[i][1] => checks[i][2] # Passed
    PROVE  Outcome(checks) = Passed <=> \A i \in 1..n : ~checks[i][1]
BY OutcomeIs

LEMMA Distinct ==
    /\ \A c : Rejected(c) # Passed /\ Failed(c) # Passed
    /\ CancelledResult # Passed
BY DEF Rejected, Failed, CancelledResult, Passed, Denied

(* A call that passes the preflight is of a registered tool, well formed.     *)
LEMMA PreflightPassed ==
    ASSUME NEW inv, NEW cancel, Preflight(inv, "Confirm", "Restricted", cancel) = Passed
    PROVE  /\ inv.tool \in DOMAIN Schemas /\ inv.tool \notin ShellTools /\ Fits(inv)
           /\ "path" \in DOMAIN inv.args => PathCheck(inv.args["path"]) = Passed
<1> DEFINE known == inv.tool \in DOMAIN Schemas
           shell == inv.tool \in ShellTools
           r == IF "path" \in DOMAIN inv.args THEN PathCheck(inv.args["path"]) ELSE Passed
           c7 == ~shell /\ "path" \in DOMAIN inv.args /\ PathCheck(inv.args["path"]) # Passed
           c6 == shell /\ ~("Confirm" = "FullAccess" /\ "Restricted" = "Disabled")
           c4 == known /\ Schemas[inv.tool].effect # inv.effect
           c5 == known /\ ~Fits(inv)
           c8 == ~shell /\ inv.secret
           c == << <<cancel, CancelledResult>>, <<inv.values = "too_large", Rejected("input_limit")>>,
                   <<~known, Rejected("unknown_tool")>>, <<c4, Rejected("effect_mismatch")>>,
                   <<c5, Rejected("invalid_arguments")>>, <<c6, Rejected("shell_requires_full_access")>>,
                   <<c7, r>>, <<c8, Rejected("secret_content")>> >>
<1>1. Outcome(c) = Passed
  BY Zenon DEF Preflight
<1>2. DOMAIN c = 1..8 /\ \A i \in 1..8 : c[i][1] => c[i][2] # Passed
  <2>1. c7 => r # Passed
    OBVIOUS
  <2> HIDE DEF known, shell, r, c7, c6, c4, c5, c8
  <2> QED BY <2>1, Distinct
<1>3. known /\ ~c5 /\ ~c6 /\ ~c7
  <2>1. \A i \in 1..8 : ~c[i][1]
    <3> HIDE DEF c
    <3> QED BY <1>1, <1>2, OutcomePassed, Zenon
  <2>2. ~c[3][1] /\ ~c[5][1] /\ ~c[6][1] /\ ~c[7][1]
    <3> HIDE DEF c
    <3> QED BY <2>1
  <2> HIDE DEF known, shell, r, c7, c6, c4, c5, c8
  <2> QED BY <2>2
<1> QED BY <1>3

(* What read_editable_file lets pass is a text that is safe to show.          *)
LEMMA EditablePassed ==
    ASSUME NEW x, Editable(x) = Passed
    PROVE  IsText(x) /\ Safe(x) = Passed
<1> DEFINE c1 == ~IsText(x)
           c2 == IsText(x) /\ Len(x) > MaxBytes
           c3 == IsText(x) /\ Has(x, "0")
           c4 == IsText(x) /\ Safe(x) # Passed
           r == Safe(x)
           c == << <<c1, Rejected("wrong_file_type")>>, <<c2, Rejected("input_limit")>>,
                   <<c3, Rejected("binary_file")>>, <<c4, r>> >>
<1>1. Outcome(c) = Passed
  BY Zenon DEF Editable
<1>2. DOMAIN c = 1..4 /\ \A i \in 1..4 : c[i][1] => c[i][2] # Passed
  <2>1. c4 => r # Passed
    OBVIOUS
  <2> HIDE DEF c1, c2, c3, c4, r
  <2> QED BY <2>1, Distinct
<1>3. ~c1 /\ ~c4
  <2>1. \A i \in 1..4 : ~c[i][1]
    <3> HIDE DEF c
    <3> QED BY <1>1, <1>2, OutcomePassed, Zenon
  <2>2. ~c[1][1] /\ ~c[4][1]
    <3> HIDE DEF c
    <3> QED BY <2>1
  <2> HIDE DEF c1, c2, c3, c4, r
  <2> QED BY <2>2
<1> QED BY <1>3

(* An edit that passes its check does what it describes.                      *)
LEMMA EditPassed ==
    ASSUME NEW text \in Letter, NEW edit \in Edits, EditCheck(text, edit) = Passed
    PROVE  Applied(text, edit) = LeftToRight(text, edit) /\ Applied(text, edit) \in Letter
<1> DEFINE at == Matches(text, edit.old)
           c1 == edit.old = <<>> \/ edit.times = 0
           c2 == \E i, j \in at : i < j /\ j < i + Len(edit.old)
           c3 == Cardinality(at) # edit.times
           c4 == Len(Applied(text, edit)) > MaxBytes
           c == << <<c1, Rejected("invalid_arguments")>>, <<c2, Failed("overlapping_matches")>>,
                   <<c3, Failed("occurrence_conflict")>>, <<c4, Rejected("input_limit")>> >>
<1>1. Outcome(c) = Passed
  BY Zenon DEF EditCheck
<1>2. DOMAIN c = 1..4 /\ \A i \in 1..4 : c[i][2] # Passed
  <2> HIDE DEF c1, c2, c3, c4
  <2> QED BY Distinct
<1>3. ~c1 /\ ~c2
  <2>1. \A i \in 1..4 : ~c[i][1]
    <3> HIDE DEF c
    <3> QED BY <1>1, <1>2, OutcomePassed, Zenon
  <2>2. ~c[1][1] /\ ~c[2][1]
    <3> HIDE DEF c
    <3> QED BY <2>1
  <2> HIDE DEF c1, c2, c3, c4
  <2> QED BY <2>2
<1>4. Apart(text, edit)
  <2>1. at \subseteq Nat /\ Len(edit.old) \in Nat
    BY LenProperties DEF Matches, Edits
  <2> HIDE DEF at
  <2>2. \A i, j \in at : i < j => i + Len(edit.old) <= j
    BY <1>3, <2>1
  <2> QED BY <2>2 DEF Apart, at
<1> QED BY <1>3, <1>4, AppliedIsLeftToRight

(* Checks that say results say a result.                                      *)
LEMMA OutcomeResult ==
    ASSUME NEW n \in Nat, NEW checks, DOMAIN checks = 1..n,
           \A i \in 1..n : checks[i][1] => checks[i][2] \in Results
    PROVE  Outcome(checks) \in Results
<1>1. Passed \in Results
  BY DEF Passed, Denied, Results, Codes
<1> QED BY <1>1, OutcomeIs

LEMMA PlainResults ==
    /\ Passed \in Results /\ CancelledResult \in Results
    /\ \A c \in Codes : Rejected(c) \in Results /\ Failed(c) \in Results
BY DEF Passed, CancelledResult, Rejected, Failed, Denied, Results, Codes

LEMMA PathCheckResult == \A p : PathCheck(p) \in Results
<1> TAKE p
<1> DEFINE c == << <<~ValidPath(p), Rejected("invalid_path")>>,
                   <<p.name = "protected", Rejected("protected_path")>>,
                   <<p.name = "secret", Rejected("secret_path")>> >>
<1>1. DOMAIN c = 1..3 /\ \A i \in 1..3 : c[i][2] \in Results
  BY PlainResults DEF Codes
<1>2. Outcome(c) \in Results
  <2> HIDE DEF c
  <2> QED BY <1>1, OutcomeResult, Zenon
<1> QED BY <1>2 DEF PathCheck

LEMMA ResolveResult ==
    \A p, x, y : ResolveExisting(p, x, y) \in Results /\ ResolveWrite(p, y) \in Results
<1> TAKE p, x, y
<1> DEFINE c == << <<~ValidPath(p), Rejected("invalid_path")>>, <<x, Rejected("path_not_found")>>,
                   <<y, Rejected("outside_workspace")>> >>
           d == << <<~ValidPath(p), Rejected("invalid_path")>>, <<y, Rejected("outside_workspace")>> >>
<1>1. DOMAIN c = 1..3 /\ \A i \in 1..3 : c[i][2] \in Results
  BY PlainResults DEF Codes
<1>2. DOMAIN d = 1..2 /\ \A i \in 1..2 : d[i][2] \in Results
  BY PlainResults DEF Codes
<1>3. Outcome(c) \in Results /\ Outcome(d) \in Results
  <2> HIDE DEF c, d
  <2>1. Outcome(c) \in Results
    BY <1>1, OutcomeResult, Zenon
  <2>2. Outcome(d) \in Results
    BY <1>2, OutcomeResult, Zenon
  <2> QED BY <2>1, <2>2
<1> QED BY <1>3 DEF ResolveExisting, ResolveWrite

LEMMA SafeResult == \A x : Safe(x) \in Results
<1> TAKE x
<1> DEFINE c == << <<Len(x) > MaxBytes, Failed("output_limit")>>, <<Has(x, "0"), Failed("binary_file")>>,
                   <<Has(x, "s"), Rejected("secret_content")>> >>
<1>1. DOMAIN c = 1..3 /\ \A i \in 1..3 : c[i][2] \in Results
  BY PlainResults DEF Codes
<1>2. Outcome(c) \in Results
  <2> HIDE DEF c
  <2> QED BY <1>1, OutcomeResult, Zenon
<1> QED BY <1>2 DEF Safe, SafeOutput

LEMMA EditableResult == \A x : Editable(x) \in Results
<1> TAKE x
<1> DEFINE c1 == ~IsText(x)
           c2 == IsText(x) /\ Len(x) > MaxBytes
           c3 == IsText(x) /\ Has(x, "0")
           c4 == IsText(x) /\ Safe(x) # Passed
           r == Safe(x)
           c == << <<c1, Rejected("wrong_file_type")>>, <<c2, Rejected("input_limit")>>,
                   <<c3, Rejected("binary_file")>>, <<c4, r>> >>
<1>1. DOMAIN c = 1..4 /\ \A i \in 1..4 : c[i][2] \in Results
  <2>1. r \in Results
    BY SafeResult
  <2> HIDE DEF c1, c2, c3, c4, r
  <2> QED BY <2>1, PlainResults DEF Codes
<1>2. Outcome(c) \in Results
  <2> HIDE DEF c
  <2> QED BY <1>1, OutcomeResult, Zenon
<1> QED BY <1>2, Zenon DEF Editable

LEMMA EditCheckResult == \A text, edit : EditCheck(text, edit) \in Results
<1> TAKE text, edit
<1> DEFINE at == Matches(text, edit.old)
           c1 == edit.old = <<>> \/ edit.times = 0
           c2 == \E i, j \in at : i < j /\ j < i + Len(edit.old)
           c3 == Cardinality(at) # edit.times
           c4 == Len(Applied(text, edit)) > MaxBytes
           c == << <<c1, Rejected("invalid_arguments")>>, <<c2, Failed("overlapping_matches")>>,
                   <<c3, Failed("occurrence_conflict")>>, <<c4, Rejected("input_limit")>> >>
<1>1. DOMAIN c = 1..4 /\ \A i \in 1..4 : c[i][2] \in Results
  <2> HIDE DEF c1, c2, c3, c4
  <2> QED BY PlainResults DEF Codes
<1>2. Outcome(c) \in Results
  <2> HIDE DEF c
  <2> QED BY <1>1, OutcomeResult, Zenon
<1> QED BY <1>2, Zenon DEF EditCheck

LEMMA PreflightResult == \A inv, cancel : Preflight(inv, "Confirm", "Restricted", cancel) \in Results
<1> TAKE inv, cancel
<1> DEFINE known == inv.tool \in DOMAIN Schemas
           shell == inv.tool \in ShellTools
           r == IF "path" \in DOMAIN inv.args THEN PathCheck(inv.args["path"]) ELSE Passed
           c7 == ~shell /\ "path" \in DOMAIN inv.args /\ PathCheck(inv.args["path"]) # Passed
           c6 == shell /\ ~("Confirm" = "FullAccess" /\ "Restricted" = "Disabled")
           c4 == known /\ Schemas[inv.tool].effect # inv.effect
           c5 == known /\ ~Fits(inv)
           c8 == ~shell /\ inv.secret
           c == << <<cancel, CancelledResult>>, <<inv.values = "too_large", Rejected("input_limit")>>,
                   <<~known, Rejected("unknown_tool")>>, <<c4, Rejected("effect_mismatch")>>,
                   <<c5, Rejected("invalid_arguments")>>, <<c6, Rejected("shell_requires_full_access")>>,
                   <<c7, r>>, <<c8, Rejected("secret_content")>> >>
<1>1. DOMAIN c = 1..8 /\ \A i \in 1..8 : c[i][2] \in Results
  <2>1. r \in Results
    BY PathCheckResult, PlainResults
  <2> HIDE DEF known, shell, r, c7, c6, c4, c5, c8
  <2> QED BY <2>1, PlainResults DEF Codes
<1>2. Outcome(c) \in Results
  <2> HIDE DEF c
  <2> QED BY <1>1, OutcomeResult, Zenon
<1> QED BY <1>2, Zenon DEF Preflight

-----------------------------------------------------------------------------
(* The inductive invariant of the file tools. *)

FileFields == {"at", "inv", "left", "place", "text", "saw", "wrote", "result", "output"}
FileTools == {"read_file", "list_directory", "apply_patch", "write_file"}
WriteTools == {"apply_patch", "write_file"}
Late == {Passed, Failed("io_failed"), Rejected("secret_content")}

(* What a call of a writing tool asks for, and where it may put it.           *)
CalledFor(inv) ==
    IF inv.tool = "write_file" THEN inv.args["content"]
    ELSE Described(inv.args["expected_sha256"], inv.args["edits"])
Landing == file.place \in {file.inv.args["path"].to, "file"}

FileShape ==
    /\ DOMAIN file = FileFields /\ file.wrote \in BOOLEAN /\ file.result \in Results
    /\ file.at \in FileTools \cup {"idle", "edit", "prepare", "validate", "rename", "sync", "done"}
    /\ entries \in [Names -> Letter \cup Odd]
    /\ {hidden, cancelled} \subseteq BOOLEAN /\ edits \in 0..MaxEdits

(* The call under way is one that passed the preflight. *)
CallSound ==
    file.at \notin {"idle", "done"} =>
      /\ FileCall(file.inv) /\ Fits(file.inv) /\ file.inv.tool \in FileTools
      /\ file.at \in FileTools => file.at = file.inv.tool

(* The text and the edits that are left describe what the call describes.     *)
EditSound ==
    file.at = "edit" =>
      /\ file.inv.tool = "apply_patch" /\ file.text \in Letter /\ file.left \in Seq(Edits) /\ Landing
      /\ CalledFor(file.inv) = Described(file.text, file.left)

(* From then on the text is what the call describes. *)
ReadySound ==
    file.at \in {"prepare", "validate", "rename", "sync"} =>
      /\ file.inv.tool \in WriteTools /\ file.text \in Letter /\ Landing
      /\ file.text = CalledFor(file.inv) /\ Safe(file.text) = Passed

(* And the temporary file has it, for a place in the workspace. *)
TempSound ==
    /\ temp # NoText => file.at \in {"validate", "rename"}
    /\ file.at \in {"validate", "rename"} => temp = file.text
    /\ file.at \in {"validate", "rename", "sync"} => file.place \in Names
    /\ file.at = "rename" /\ HasHash => file.saw = Arg("expected_sha256")
    /\ file.wrote => file.at \in {"sync", "done"}
    /\ file.at = "sync" => file.wrote

FileInv == FileShape /\ CallSound /\ EditSound /\ ReadySound /\ TempSound /\ FileResultTruthful

LEMMA TextsAreLetters == ASSUME FileShape, NEW n \in Names PROVE IsText(entries[n]) => entries[n] \in Letter
BY DEF FileShape, IsText

LEMMA FileInvImplies == FileInv => FileTypeOK /\ FileResultTruthful
<1> SUFFICES ASSUME FileInv PROVE FileTypeOK
  BY DEF FileInv
<1>1. \A n \in Names : IsText(entries[n]) => entries[n] \in Seq(Alphabet)
  BY TextsAreLetters DEF FileInv, Letter
<1> QED BY <1>1 DEF FileInv, FileShape, TempSound, FileTypeOK, FileTools

(* A call that ends without having written, or is to end that way.            *)
LEMMA FileReturns ==
    ASSUME FileInv, file.at # "done", NEW result \in Results, result # Passed,
           file.wrote => result \in Late,
           file' = [file EXCEPT !.at = "done", !.result = result], temp' = NoText,
           entries' = entries, UNCHANGED <<edits, cancelled, hidden>>
    PROVE  FileInv'
<1> USE DEF FileInv, FileShape
<1>1. /\ file'.at = "done" /\ file'.result = result /\ file'.inv = file.inv /\ file'.wrote = file.wrote
      /\ DOMAIN file' = FileFields
  BY DEF FileFields
<1>2. FileShape'
  BY <1>1
<1>3. FileResultTruthful'
  BY <1>1 DEF FileResultTruthful, Late
<1> QED BY <1>1, <1>2, <1>3 DEF CallSound, EditSound, ReadySound, TempSound, FileTools

LEMMA FileGives ==
    ASSUME FileInv, file.at # "done", NEW output,
           file.inv.tool \in WriteTools => file.wrote,
           file.inv.tool = "read_file" => Safe(output) = Passed,
           file' = [file EXCEPT !.at = "done", !.result = Passed, !.output = output], temp' = NoText,
           entries' = entries, UNCHANGED <<edits, cancelled, hidden>>
    PROVE  FileInv'
<1> USE DEF FileInv, FileShape
<1>1. /\ file'.at = "done" /\ file'.result = Passed /\ file'.inv = file.inv /\ file'.wrote = file.wrote
      /\ DOMAIN file' = FileFields /\ file'.output = output
  BY DEF FileFields
<1>2. FileShape'
  BY <1>1, PlainResults
<1>3. FileResultTruthful'
  <2>1. (Safe(file.output))' = Safe(output)
    BY <1>1 DEF Safe, Has
  <2> QED BY <1>1, <2>1 DEF FileResultTruthful, WriteTools
<1> QED BY <1>1, <1>2, <1>3 DEF CallSound, EditSound, ReadySound, TempSound, FileTools

LEMMA FileInvInit == ASSUME FileInit PROVE FileInv
<1> USE DEF FileInit, NoCall
<1>1. entries \in [Names -> Letter \cup Odd]
  <2>1. Texts \subseteq Letter
    BY FileAssumption DEF FileAssumption, Letter
  <2> QED BY <2>1 DEF Names, Odd
<1>2. FileShape
  <2>1. edits \in 0..MaxEdits /\ {hidden, cancelled} \subseteq BOOLEAN
    <3>1. MaxEdits \in Nat
      BY FileAssumption DEF FileAssumption
    <3>2. edits = 0 /\ hidden \in BOOLEAN /\ cancelled = FALSE
      OBVIOUS
    <3>3. edits \in 0..MaxEdits
      BY <3>1, <3>2
    <3>4. {hidden, cancelled} \subseteq BOOLEAN
      BY <3>2, Zenon
    <3> QED BY <3>3, <3>4
  <2> QED BY <1>1, <2>1, PlainResults DEF FileShape, FileFields
<1> QED BY <1>2 DEF FileInv, CallSound, EditSound, ReadySound, TempSound, FileResultTruthful, FileTools

LEMMA FileCallInv ==
    ASSUME FileInv, NEW inv \in FileCalls, Call(inv)
    PROVE  FileInv'
<1> USE DEF FileInv, FileShape
<1> DEFINE checked == Preflight(inv, "Confirm", "Restricted", cancelled)
<1>1. /\ file.at = "idle" /\ UNCHANGED <<entries, temp, edits, cancelled, hidden>>
      /\ file' = [file EXCEPT !.inv = inv, !.result = checked,
                              !.at = IF checked = Passed THEN inv.tool ELSE "done"]
  BY DEF Call
<1>2. checked \in Results
  BY PreflightResult
<1>3. FileCall(inv)
  BY CallsAssumption DEF CallsAssumption
<1>4. temp = NoText /\ file.wrote = FALSE
  BY <1>1 DEF TempSound
<1>5. checked = Passed => inv.tool \in FileTools /\ Fits(inv)
  <2> SUFFICES ASSUME checked = Passed PROVE inv.tool \in FileTools /\ Fits(inv)
    OBVIOUS
  <2>1. inv.tool \in DOMAIN Schemas /\ inv.tool \notin ShellTools /\ Fits(inv)
    BY PreflightPassed
  <2>2. DOMAIN Schemas = {"read_file", "list_directory", "apply_patch", "write_file", "run_diagnostic",
                          "git_status", "git_diff", "npm_diagnostic", "shell_command", "shell_session"}
    BY DEF Schemas
  <2> QED BY <1>3, <2>1, <2>2 DEF FileCall, ShellTools, FileTools
<1> HIDE DEF checked
<1>6. /\ file'.at = IF checked = Passed THEN inv.tool ELSE "done"
      /\ file'.inv = inv /\ file'.result = checked /\ file'.wrote = FALSE /\ DOMAIN file' = FileFields
  BY <1>1, <1>4 DEF FileFields
<1>7. FileShape' /\ temp' = NoText
  BY <1>1, <1>2, <1>4, <1>5, <1>6
<1>8. file'.at \in FileTools \cup {"done"}
  BY <1>5, <1>6
<1>9. FileResultTruthful'
  BY <1>5, <1>6, <1>7 DEF FileResultTruthful, FileTools
<1> QED BY <1>3, <1>5, <1>6, <1>7, <1>8, <1>9 DEF CallSound, EditSound, ReadySound, TempSound, FileTools

LEMMA FileReadInv == ASSUME FileInv, Read PROVE FileInv'
<1> USE DEF FileInv, FileShape
<1>1. file.at = "read_file" /\ UNCHANGED <<entries, temp, edits, cancelled, hidden>>
  BY DEF Read, At
<1>2. temp = NoText /\ file.wrote = FALSE /\ file.inv.tool = "read_file"
  BY <1>1 DEF TempSound, CallSound, FileTools
<1> DEFINE reach == Reach
           x == Found
           c == << <<reach # Passed, reach>>, <<cancelled, CancelledResult>> >>
           checked == Outcome(c)
<1>3. checked \in Results
  <2>1. reach \in Results
    BY ResolveResult DEF Reach
  <2> HIDE DEF reach
  <2>2. DOMAIN c = 1..2 /\ \A i \in 1..2 : c[i][2] \in Results
    BY <2>1, PlainResults
  <2> HIDE DEF c
  <2> QED BY <2>2, OutcomeResult, Zenon
<1>4. \/ checked # Passed /\ Return(checked)
      \/ Editable(x) # Passed /\ Return(Editable(x))
      \/ Editable(x) = Passed /\ Give(x)
      \/ Return(Failed("output_limit"))
  BY Zenon DEF Read
<1> HIDE DEF checked, x
<1>5. CASE checked # Passed /\ Return(checked)
  BY <1>1, <1>2, <1>3, <1>5, FileReturns DEF Return
<1>6. CASE Editable(x) # Passed /\ Return(Editable(x))
  BY <1>1, <1>2, <1>6, EditableResult, FileReturns DEF Return
<1>7. CASE Editable(x) = Passed /\ Give(x)
  BY <1>1, <1>2, <1>7, EditablePassed, FileGives DEF Give, WriteTools
<1>8. CASE Return(Failed("output_limit"))
  <2>1. Failed("output_limit") \in Results /\ Failed("output_limit") # Passed
    BY PlainResults, Distinct DEF Codes
  <2> QED BY <1>1, <1>2, <1>8, <2>1, FileReturns DEF Return
<1> QED BY <1>4, <1>5, <1>6, <1>7, <1>8

LEMMA FileListInv == ASSUME FileInv, List PROVE FileInv'
<1> USE DEF FileInv, FileShape
<1>1. file.at = "list_directory" /\ UNCHANGED <<entries, temp, edits, cancelled, hidden>>
  BY DEF List, At
<1>2. temp = NoText /\ file.wrote = FALSE /\ file.inv.tool = "list_directory"
  BY <1>1 DEF TempSound, CallSound, FileTools
<1> DEFINE root == Path.to = "root"
           there == {n \in Names : root /\ entries[n] # Absent}
           protected == root /\ hidden
           reach == Reach
           c2 == Found # Directory
           c3 == cancelled /\ (there # {} \/ protected)
           c5 == Cardinality(there) > MaxEntries
           c == << <<reach # Passed, reach>>, <<c2, Rejected("wrong_file_type")>>, <<c3, CancelledResult>>,
                   <<protected, Rejected("protected_path")>>, <<c5, Rejected("entry_limit")>> >>
           checked == Outcome(c)
           shown == SelectSeq(<<"file", "link">>, LAMBDA n : n \in there)
<1>3. checked \in Results
  <2>1. reach \in Results
    BY ResolveResult DEF Reach
  <2> HIDE DEF root, there, protected, reach, c2, c3, c5
  <2>2. DOMAIN c = 1..5 /\ \A i \in 1..5 : c[i][2] \in Results
    BY <2>1, PlainResults DEF Codes
  <2> HIDE DEF c
  <2> QED BY <2>2, OutcomeResult, Zenon
<1>4. \/ checked # Passed /\ Return(checked)
      \/ Give(shown)
      \/ Return(Rejected("entry_limit"))
  BY Zenon DEF List
<1> HIDE DEF checked, shown
<1>5. CASE checked # Passed /\ Return(checked)
  BY <1>1, <1>2, <1>3, <1>5, FileReturns DEF Return
<1>6. CASE Give(shown)
  BY <1>1, <1>2, <1>6, FileGives DEF Give, WriteTools
<1>7. CASE Return(Rejected("entry_limit"))
  <2>1. Rejected("entry_limit") \in Results /\ Rejected("entry_limit") # Passed
    BY PlainResults, Distinct DEF Codes
  <2> QED BY <1>1, <1>2, <1>7, <2>1, FileReturns DEF Return
<1> QED BY <1>4, <1>5, <1>6, <1>7

LEMMA FilePatchOpenInv == ASSUME FileInv, PatchOpen PROVE FileInv'
<1> USE DEF FileInv, FileShape
<1>1. file.at = "apply_patch" /\ UNCHANGED <<entries, temp, edits, cancelled, hidden>>
  BY DEF PatchOpen, At
<1>2. /\ temp = NoText /\ file.wrote = FALSE /\ file.inv.tool = "apply_patch"
      /\ FileCall(file.inv) /\ Fits(file.inv)
  BY <1>1 DEF TempSound, CallSound, FileTools
<1> DEFINE reach == Reach
           x == Found
           c1 == Arg("edits") = <<>>
           c2 == reach # Passed
           c == << <<c1, Rejected("invalid_arguments")>>, <<c2, reach>> >>
           checked == Outcome(c)
           opened == [file EXCEPT !.at = "edit", !.text = x, !.left = Arg("edits"), !.place = Target(Path.to)]
<1>3. checked \in Results /\ (checked = Passed => reach = Passed)
  <2>1. reach \in Results
    BY ResolveResult DEF Reach
  <2>5. c2 <=> reach # Passed
    OBVIOUS
  <2> HIDE DEF reach, c1, c2
  <2>2. DOMAIN c = 1..2 /\ (\A i \in 1..2 : c[i][2] \in Results) /\ \A i \in 1..2 : c[i][1] => c[i][2] # Passed
    <3>1. DOMAIN c = 1..2 /\ \A i \in 1..2 : c[i][2] \in Results
      BY <2>1, PlainResults DEF Codes
    <3>2. \A i \in 1..2 : c[i][1] => c[i][2] # Passed
      BY <2>5, Distinct
    <3> QED BY <3>1, <3>2
  <2>3. checked \in Results
    <3> HIDE DEF c
    <3> QED BY <2>2, OutcomeResult, Zenon
  <2>4. checked = Passed => ~c[2][1]
    <3> HIDE DEF c
    <3>1. 2 \in 1..2
      OBVIOUS
    <3> QED BY <2>2, <3>1, OutcomePassed, Zenon
  <2> QED BY <2>3, <2>4, <2>5
<1>4. \/ checked # Passed /\ Return(checked)
      \/ Editable(x) # Passed /\ Return(Editable(x))
      \/ Return(Failed("hash_conflict"))
      \/ /\ checked = Passed /\ Editable(x) = Passed /\ x = Arg("expected_sha256") /\ file' = opened
  BY Zenon DEF PatchOpen
<1>5. CASE checked # Passed /\ Return(checked)
  <2> HIDE DEF checked
  <2> QED BY <1>1, <1>2, <1>3, <1>5, FileReturns DEF Return
<1>6. CASE Editable(x) # Passed /\ Return(Editable(x))
  <2> HIDE DEF x
  <2> QED BY <1>1, <1>2, <1>6, EditableResult, FileReturns DEF Return
<1>7. CASE Return(Failed("hash_conflict"))
  <2>1. Failed("hash_conflict") \in Results /\ Failed("hash_conflict") # Passed
    BY PlainResults, Distinct DEF Codes
  <2> QED BY <1>1, <1>2, <1>7, <2>1, FileReturns DEF Return
<1>8. CASE checked = Passed /\ Editable(x) = Passed /\ x = Arg("expected_sha256") /\ file' = opened
  <2>1. Arg("edits") \in Seq(Edits) /\ Arg("expected_sha256") \in Letter
    <3>1. Schemas["apply_patch"].required = {"path", "expected_sha256", "edits"}
      BY DEF Schemas, Schema
    <3>2. {"path", "expected_sha256", "edits"} \subseteq DOMAIN file.inv.args
      BY <1>2, <3>1 DEF Fits
    <3> QED BY <1>2, <3>2 DEF FileCall, Arg, Letter
  <2>2. x \in Letter /\ x = Arg("expected_sha256")
    <3> HIDE DEF x
    <3> QED BY <1>8, <2>1
  <2>3. Target(Path.to) \in {Path.to, "file"}
    BY DEF Target
  <2>4. Path = file.inv.args["path"] /\ Arg("edits") = file.inv.args["edits"]
        /\ Arg("expected_sha256") = file.inv.args["expected_sha256"]
    BY DEF Path, Arg
  <2> DEFINE place == Target(Path.to)
             left == Arg("edits")
             want == Arg("expected_sha256")
  <2> HIDE DEF x, place, left, want
  <2>5. /\ file'.at = "edit" /\ file'.inv = file.inv /\ file'.text = x /\ file'.left = left
        /\ file'.place = place /\ DOMAIN file' = FileFields
        /\ file'.wrote = file.wrote /\ file'.result = file.result
    BY <1>8 DEF FileFields, place, left
  <2>6. FileShape' /\ temp' = NoText
    BY <1>1, <1>2, <2>5
  <2>7. EditSound'
    <3>1. Landing'
      BY <2>3, <2>4, <2>5 DEF Landing, place
    <3>2. CalledFor(file.inv) = Described(x, left)
      BY <1>2, <2>2, <2>4 DEF CalledFor, left
    <3> QED BY <1>2, <2>1, <2>2, <2>5, <3>1, <3>2 DEF EditSound, left
  <2> QED BY <1>1, <1>2, <2>5, <2>6, <2>7 DEF CallSound, ReadySound, TempSound, FileResultTruthful, FileTools
<1> QED BY <1>4, <1>5, <1>6, <1>7, <1>8

LEMMA FilePatchEditInv == ASSUME FileInv, PatchEdit PROVE FileInv'
<1> USE DEF FileInv, FileShape
<1>1. file.at = "edit" /\ file.left # <<>> /\ UNCHANGED <<entries, temp, edits, cancelled, hidden>>
  BY DEF PatchEdit, At
<1>2. /\ temp = NoText /\ file.wrote = FALSE /\ file.inv.tool = "apply_patch"
      /\ FileCall(file.inv) /\ Fits(file.inv)
      /\ file.text \in Letter /\ file.left \in Seq(Edits) /\ Landing
      /\ CalledFor(file.inv) = Described(file.text, file.left)
  BY <1>1 DEF TempSound, CallSound, EditSound, FileTools
<1> DEFINE edit == Head(file.left)
           checked == IF cancelled THEN CancelledResult ELSE EditCheck(file.text, edit)
<1>3. edit \in Edits /\ Tail(file.left) \in Seq(Edits)
  BY <1>1, <1>2, HeadTailProperties
<1>4. checked \in Results
  BY EditCheckResult, PlainResults
<1>5. \/ checked # Passed /\ Return(checked)
      \/ /\ EditCheck(file.text, edit) = Passed
         /\ file' = [file EXCEPT !.text = Applied(@, edit), !.left = Tail(@)]
  BY Distinct DEF PatchEdit
<1> HIDE DEF checked, edit
<1>6. CASE checked # Passed /\ Return(checked)
  BY <1>1, <1>2, <1>4, <1>6, FileReturns DEF Return
<1>7. CASE /\ EditCheck(file.text, edit) = Passed
           /\ file' = [file EXCEPT !.text = Applied(@, edit), !.left = Tail(@)]
  <2>1. Applied(file.text, edit) = LeftToRight(file.text, edit) /\ Applied(file.text, edit) \in Letter
    BY <1>2, <1>3, <1>7, EditPassed
  <2>2. /\ file'.at = "edit" /\ file'.inv = file.inv /\ file'.text = Applied(file.text, edit)
        /\ file'.left = Tail(file.left) /\ file'.place = file.place /\ DOMAIN file' = FileFields
        /\ file'.wrote = file.wrote /\ file'.result = file.result
    BY <1>1, <1>7 DEF FileFields
  <2>3. FileShape' /\ temp' = NoText
    BY <1>1, <1>2, <2>2
  <2>4. CalledFor(file.inv) = Described(file'.text, file'.left)
    <3>1. Described(file.text, file.left) = Described(LeftToRight(file.text, edit), Tail(file.left))
      BY <1>1, <1>2, DescribedStep DEF edit
    <3> QED BY <1>2, <2>1, <2>2, <3>1
  <2>5. EditSound'
    BY <1>2, <1>3, <2>1, <2>2, <2>4 DEF EditSound, Landing
  <2> QED BY <1>1, <1>2, <2>2, <2>3, <2>5 DEF CallSound, ReadySound, TempSound, FileResultTruthful, FileTools
<1> QED BY <1>5, <1>6, <1>7

LEMMA FilePatchReadyInv == ASSUME FileInv, PatchReady PROVE FileInv'
<1> USE DEF FileInv, FileShape
<1>1. file.at = "edit" /\ file.left = <<>> /\ UNCHANGED <<entries, temp, edits, cancelled, hidden>>
  BY DEF PatchReady, At
<1>2. /\ temp = NoText /\ file.wrote = FALSE /\ file.inv.tool = "apply_patch"
      /\ FileCall(file.inv) /\ Fits(file.inv)
      /\ file.text \in Letter /\ file.left \in Seq(Edits) /\ Landing
      /\ CalledFor(file.inv) = Described(file.text, file.left)
  BY <1>1 DEF TempSound, CallSound, EditSound, FileTools
<1>3. \/ Safe(file.text) # Passed /\ Return(Safe(file.text))
      \/ Safe(file.text) = Passed /\ file' = [file EXCEPT !.at = "prepare"]
  BY DEF PatchReady
<1>4. CASE Safe(file.text) # Passed /\ Return(Safe(file.text))
  <2>1. Safe(file.text) \in Results
    BY SafeResult
  <2> QED BY <1>1, <1>2, <1>4, <2>1, FileReturns DEF Return
<1>5. CASE Safe(file.text) = Passed /\ file' = [file EXCEPT !.at = "prepare"]
  <2>1. /\ file'.at = "prepare" /\ file'.inv = file.inv /\ file'.text = file.text
        /\ file'.place = file.place /\ DOMAIN file' = FileFields
        /\ file'.wrote = file.wrote /\ file'.result = file.result
    BY <1>5 DEF FileFields
  <2>2. FileShape' /\ temp' = NoText
    BY <1>1, <1>2, <2>1
  <2>3. file.text = CalledFor(file.inv)
    BY <1>1, <1>2, DescribedStep
  <2>4. ReadySound'
    <3>1. Safe(file.text)' = Safe(file.text)
      BY <2>1 DEF Safe, Has
    <3> QED BY <1>2, <1>5, <2>1, <2>3, <3>1 DEF ReadySound, Landing, WriteTools
  <2> QED BY <1>1, <1>2, <2>1, <2>2, <2>4 DEF CallSound, EditSound, TempSound, FileResultTruthful, FileTools
<1> QED BY <1>3, <1>4, <1>5

(* What write_file asks before it prepares anything. *)
LEMMA FileWriteOpenInv == ASSUME FileInv, WriteOpen PROVE FileInv'
<1> USE DEF FileInv, FileShape
<1>1. file.at = "write_file" /\ UNCHANGED <<entries, temp, edits, cancelled, hidden>>
  BY DEF WriteOpen, At
<1>2. /\ temp = NoText /\ file.wrote = FALSE /\ file.inv.tool = "write_file"
      /\ FileCall(file.inv) /\ Fits(file.inv)
  BY <1>1 DEF TempSound, CallSound, FileTools
<1> DEFINE exists == Path.to = "root" \/ (Named /\ Seen(Path.to) # Absent)
           resolved == ResolveWrite(Path, Path.to = "outside")
           safe == Safe(Content)
           b1 == Len(Content) > MaxBytes
           b2 == Has(Content, "0")
           b3 == safe # Passed
           b4 == resolved # Passed
           b == << <<b1, Rejected("input_limit")>>, <<b2, Rejected("binary_file")>>, <<b3, safe>>, <<b4, resolved>> >>
           c == << <<HasHash, Rejected("invalid_arguments")>>, <<exists, Failed("already_exists")>> >>
           x == Found
           fit == Editable(x)
           d1 == fit # Passed
           d2 == x # Arg("expected_sha256")
           d == << <<d1, fit>>, <<d2, Failed("hash_conflict")>> >>
           body == Outcome(b)
           mode == IF Create THEN Outcome(c)
                   ELSE IF ~HasHash THEN Rejected("invalid_arguments")
                   ELSE IF Reach # Passed THEN Reach
                   ELSE Outcome(d)
           ready == [file EXCEPT !.at = "prepare", !.text = Content, !.place = Path.to]
<1>3. body \in Results /\ (body = Passed => safe = Passed)
  <2>1. safe \in Results /\ resolved \in Results
    BY SafeResult, ResolveResult
  <2>2. (b3 => safe # Passed) /\ (b4 => resolved # Passed) /\ (~b3 => safe = Passed)
    OBVIOUS
  <2> HIDE DEF safe, resolved, b1, b2, b3, b4
  <2>3. DOMAIN b = 1..4 /\ \A i \in 1..4 : b[i][2] \in Results
    BY <2>1, PlainResults DEF Codes
  <2>4. \A i \in 1..4 : b[i][1] => b[i][2] # Passed
    BY <2>2, Distinct
  <2>5. body \in Results
    <3> HIDE DEF b
    <3> QED BY <2>3, OutcomeResult, Zenon
  <2>6. body = Passed => ~b[3][1]
    <3> HIDE DEF b
    <3>1. 3 \in 1..4
      OBVIOUS
    <3> QED BY <2>3, <2>4, <3>1, OutcomePassed, Zenon
  <2> QED BY <2>2, <2>5, <2>6
<1>4. mode \in Results
  <2>1. fit \in Results /\ Reach \in Results /\ Rejected("invalid_arguments") \in Results
    BY EditableResult, ResolveResult, PlainResults DEF Reach, Codes
  <2> HIDE DEF fit, d1, d2, exists, x
  <2>2. Outcome(c) \in Results
    <3>1. DOMAIN c = 1..2 /\ \A i \in 1..2 : c[i][2] \in Results
      BY PlainResults DEF Codes
    <3> HIDE DEF c
    <3> QED BY <3>1, OutcomeResult, Zenon
  <2>3. Outcome(d) \in Results
    <3>1. DOMAIN d = 1..2 /\ \A i \in 1..2 : d[i][2] \in Results
      BY <2>1, PlainResults DEF Codes
    <3> HIDE DEF d
    <3> QED BY <3>1, OutcomeResult, Zenon
  <2> HIDE DEF c, d
  <2> QED BY <2>1, <2>2, <2>3, Zenon
<1>5. \/ body # Passed /\ Return(body)
      \/ mode # Passed /\ Return(mode)
      \/ body = Passed /\ file' = ready
  BY Zenon DEF WriteOpen
<1> HIDE DEF body, mode
<1>6. CASE body # Passed /\ Return(body)
  BY <1>1, <1>2, <1>3, <1>6, FileReturns DEF Return
<1>7. CASE mode # Passed /\ Return(mode)
  BY <1>1, <1>2, <1>4, <1>7, FileReturns DEF Return
<1>8. CASE body = Passed /\ file' = ready
  <2> DEFINE place == Path.to
             text == Content
  <2>1. text \in Letter
    <3>1. Schemas["write_file"].required = {"path", "mode", "content"}
      BY DEF Schemas, Schema
    <3>2. "content" \in DOMAIN file.inv.args
      BY <1>2, <3>1 DEF Fits
    <3> QED BY <1>2, <3>2 DEF FileCall, Content, Arg, Letter
  <2>2. text = file.inv.args["content"] /\ place = file.inv.args["path"].to /\ Safe(text) = Passed
    BY <1>3, <1>8 DEF Content, Path, Arg
  <2> HIDE DEF place, text
  <2>3. /\ file'.at = "prepare" /\ file'.inv = file.inv /\ file'.text = text
        /\ file'.place = place /\ DOMAIN file' = FileFields
        /\ file'.wrote = file.wrote /\ file'.result = file.result
    BY <1>8 DEF FileFields, place, text
  <2>4. FileShape' /\ temp' = NoText
    BY <1>1, <1>2, <2>3
  <2>5. ReadySound'
    <3>1. Safe(file.text)' = Safe(text)
      BY <2>3 DEF Safe, Has
    <3>2. CalledFor(file.inv) = text
      BY <1>2, <2>2 DEF CalledFor
    <3> QED BY <1>2, <2>1, <2>2, <2>3, <3>1, <3>2 DEF ReadySound, Landing, WriteTools
  <2> QED BY <1>1, <1>2, <2>3, <2>4, <2>5 DEF CallSound, EditSound, TempSound, FileResultTruthful, FileTools
<1> QED BY <1>5, <1>6, <1>7, <1>8

(* A step of atomic_persist that goes on, with the temporary file in place.   *)
LEMMA FilePersists ==
    ASSUME FileInv, file.at \in {"prepare", "validate"}, UNCHANGED <<entries, edits, cancelled, hidden>>,
           temp' = file.text, file.place \in Names,
           NEW saw, HasHash => saw = Arg("expected_sha256") \/ file.at = "prepare",
           file' = [file EXCEPT !.at = IF file.at = "prepare" THEN "validate" ELSE "rename", !.saw = saw]
    PROVE  FileInv'
<1> USE DEF FileInv, FileShape
<1>1. /\ file'.at = (IF file.at = "prepare" THEN "validate" ELSE "rename") /\ file'.saw = saw
      /\ file'.inv = file.inv /\ file'.text = file.text /\ file'.place = file.place
      /\ DOMAIN file' = FileFields /\ file'.wrote = file.wrote /\ file'.result = file.result
  BY DEF FileFields
<1>2. file.wrote = FALSE /\ file'.at \in {"validate", "rename"}
  BY <1>1 DEF TempSound
<1>3. FileShape'
  BY <1>1, <1>2
<1>4. ReadySound' /\ CallSound'
  <2>1. Safe(file.text)' = Safe(file.text)
    BY <1>1 DEF Safe, Has
  <2> QED BY <1>1, <1>2, <2>1 DEF ReadySound, CallSound, Landing, FileTools
<1>5. TempSound'
  <2>1. (HasHash' <=> HasHash) /\ (Arg("expected_sha256"))' = Arg("expected_sha256")
    BY <1>1 DEF HasHash, Arg
  <2> QED BY <1>1, <1>2, <2>1 DEF TempSound
<1> QED BY <1>1, <1>2, <1>3, <1>4, <1>5 DEF EditSound, FileResultTruthful

LEMMA FilePrepareInv == ASSUME FileInv, Prepare PROVE FileInv'
<1> USE DEF FileInv, FileShape
<1>1. file.at = "prepare" /\ UNCHANGED <<entries, edits, cancelled, hidden>>
  BY DEF Prepare, At
<1>2. temp = NoText /\ file.wrote = FALSE /\ file.text \in Letter /\ Landing /\ Path = file.inv.args["path"]
  BY <1>1 DEF TempSound, ReadySound, Path, Arg
<1>3. \/ Return(CancelledResult) /\ temp' = NoText
      \/ Return(Rejected("path_not_found")) /\ temp' = NoText
      \/ Return(Failed("io_failed")) /\ temp' = NoText
      \/ Named /\ temp' = file.text /\ file' = [file EXCEPT !.at = "validate"]
  BY <1>2 DEF Prepare
<1>4. ASSUME NEW r \in {CancelledResult, Rejected("path_not_found"), Failed("io_failed")}, Return(r), temp' = NoText
      PROVE  FileInv'
  <2>1. r \in Results /\ r # Passed
    BY PlainResults, Distinct DEF Codes
  <2> QED BY <1>1, <1>2, <1>4, <2>1, FileReturns DEF Return
<1>5. CASE Named /\ temp' = file.text /\ file' = [file EXCEPT !.at = "validate"]
  <2>1. file.place \in Names
    BY <1>2, <1>5 DEF Named, Landing, Names
  <2>2. file' = [file EXCEPT !.at = "validate", !.saw = file.saw]
    BY <1>5 DEF FileFields
  <2> QED BY <1>1, <1>5, <2>1, <2>2, FilePersists
<1> QED BY <1>3, <1>4, <1>5

LEMMA FileValidateInv == ASSUME FileInv, Validate PROVE FileInv'
<1> USE DEF FileInv, FileShape
<1>1. file.at = "validate" /\ UNCHANGED <<entries, edits, cancelled, hidden>>
  BY DEF Validate, At
<1>2. temp = file.text /\ file.wrote = FALSE /\ file.place \in Names
  BY <1>1 DEF TempSound
<1> DEFINE u == ~Unchanged
           c == << <<cancelled, CancelledResult>>, <<u, Failed("hash_conflict")>> >>
           checked == Outcome(c)
           saw == Seen(file.place)
<1>3. checked \in Results /\ (checked = Passed => Unchanged)
  <2>1. u <=> ~Unchanged
    OBVIOUS
  <2> HIDE DEF u
  <2>2. DOMAIN c = 1..2 /\ \A i \in 1..2 : c[i][2] \in Results
    BY PlainResults DEF Codes
  <2>3. \A i \in 1..2 : c[i][1] => c[i][2] # Passed
    BY Distinct
  <2>4. checked \in Results
    <3> HIDE DEF c
    <3> QED BY <2>2, OutcomeResult, Zenon
  <2>5. checked = Passed => ~c[2][1]
    <3> HIDE DEF c
    <3>1. 2 \in 1..2
      OBVIOUS
    <3> QED BY <2>2, <2>3, <3>1, OutcomePassed, Zenon
  <2> QED BY <2>1, <2>4, <2>5
<1>4. \/ checked # Passed /\ Return(checked) /\ temp' = NoText
      \/ checked = Passed /\ file' = [file EXCEPT !.at = "rename", !.saw = saw] /\ UNCHANGED temp
  BY Zenon DEF Validate
<1> HIDE DEF checked
<1>5. CASE checked # Passed /\ Return(checked) /\ temp' = NoText
  BY <1>1, <1>2, <1>3, <1>5, FileReturns DEF Return
<1>6. CASE checked = Passed /\ file' = [file EXCEPT !.at = "rename", !.saw = saw] /\ UNCHANGED temp
  <2>1. HasHash => saw = Arg("expected_sha256")
    BY <1>3, <1>6 DEF Unchanged
  <2> HIDE DEF saw
  <2> QED BY <1>1, <1>2, <1>6, <2>1, FilePersists
<1> QED BY <1>4, <1>5, <1>6

LEMMA FileRenameInv == ASSUME FileInv, Rename PROVE FileInv'
<1> USE DEF FileInv, FileShape
<1>1. file.at = "rename" /\ UNCHANGED <<edits, cancelled, hidden>> /\ temp' = NoText
  BY DEF Rename, At
<1>2. temp = file.text /\ file.text \in Letter /\ file.wrote = FALSE /\ file.place \in Names
  BY <1>1 DEF TempSound, ReadySound
<1>3. \/ \E c \in {"already_exists", "io_failed"} : Return(Failed(c)) /\ UNCHANGED entries
      \/ /\ entries' = [entries EXCEPT ![file.place] = temp]
         /\ file' = [file EXCEPT !.at = "sync", !.wrote = TRUE]
  BY DEF Rename
<1>4. ASSUME NEW c \in {"already_exists", "io_failed"}, Return(Failed(c)), UNCHANGED entries
      PROVE  FileInv'
  <2>1. Failed(c) \in Results /\ Failed(c) # Passed
    BY PlainResults, Distinct DEF Codes
  <2> QED BY <1>1, <1>2, <1>4, <2>1, FileReturns DEF Return
<1>5. CASE /\ entries' = [entries EXCEPT ![file.place] = temp]
           /\ file' = [file EXCEPT !.at = "sync", !.wrote = TRUE]
  <2>1. /\ file'.at = "sync" /\ file'.inv = file.inv /\ file'.text = file.text /\ file'.place = file.place
        /\ DOMAIN file' = FileFields /\ file'.wrote = TRUE /\ file'.result = file.result
    BY <1>5 DEF FileFields
  <2>2. FileShape'
    BY <1>1, <1>2, <1>5, <2>1
  <2>3. ReadySound' /\ CallSound'
    <3>1. Safe(file.text)' = Safe(file.text)
      BY <2>1 DEF Safe, Has
    <3> QED BY <1>1, <2>1, <3>1 DEF ReadySound, CallSound, Landing, FileTools
  <2> QED BY <1>1, <1>2, <2>1, <2>2, <2>3 DEF EditSound, TempSound, FileResultTruthful
<1> QED BY <1>3, <1>4, <1>5

LEMMA FileFinishInv == ASSUME FileInv, Finish PROVE FileInv'
<1> USE DEF FileInv, FileShape
<1>1. file.at = "sync" /\ UNCHANGED <<entries, temp, edits, cancelled, hidden>>
  BY DEF Finish, At
<1>2. temp = NoText /\ file.wrote = TRUE /\ file.inv.tool \in WriteTools
  BY <1>1 DEF TempSound, ReadySound
<1>3. Give(file.text) \/ \E r \in {Failed("io_failed"), Rejected("secret_content")} : Return(r)
  BY DEF Finish
<1>4. CASE Give(file.text)
  BY <1>1, <1>2, <1>4, FileGives DEF Give, WriteTools
<1>5. ASSUME NEW r \in {Failed("io_failed"), Rejected("secret_content")}, Return(r)
      PROVE  FileInv'
  <2>1. r \in Results /\ r # Passed /\ r \in Late
    BY PlainResults, Distinct DEF Codes, Late
  <2> QED BY <1>1, <1>2, <1>5, <2>1, FileReturns DEF Return
<1> QED BY <1>3, <1>4, <1>5

(* Others, and the user, change nothing the call keeps. *)
LEMMA FileOthersInv ==
    ASSUME FileInv, file.at # "done", UNCHANGED <<temp, file, hidden>>,
           cancelled' \in BOOLEAN, edits' \in 0..MaxEdits, entries' \in [Names -> Letter \cup Odd]
    PROVE  FileInv'
<1> USE DEF FileInv, FileShape
<1>1. FileShape'
  BY DEF FileFields
<1>2. Safe(file.text)' = Safe(file.text) /\ (HasHash' <=> HasHash) /\ (Arg("expected_sha256"))' = Arg("expected_sha256")
  BY DEF Safe, Has, HasHash, Arg
<1> QED BY <1>1, <1>2 DEF CallSound, EditSound, ReadySound, TempSound, FileResultTruthful, Landing

LEMMA FileInvStep == ASSUME FileInv, FileNext(FileCalls) \/ UNCHANGED fileVars PROVE FileInv'
<1>1. ASSUME NEW inv \in FileCalls, Call(inv) PROVE FileInv'
  BY <1>1, FileCallInv
<1>2. CASE Cancel
  <2>1. edits \in 0..MaxEdits /\ entries \in [Names -> Letter \cup Odd]
    BY DEF FileInv, FileShape
  <2> QED BY <1>2, <2>1, FileOthersInv, Zenon DEF Cancel
<1>3. ASSUME NEW n \in Names, NEW x \in Texts \cup {Absent}, OtherWrites(n, x) PROVE FileInv'
  <2>1. x \in Letter \cup Odd
    BY FileAssumption DEF FileAssumption, Letter, Odd
  <2>2. entries' \in [Names -> Letter \cup Odd]
    BY <1>3, <2>1 DEF FileInv, FileShape, OtherWrites
  <2>3. edits' \in 0..MaxEdits
    <3>1. MaxEdits \in Nat
      BY FileAssumption DEF FileAssumption
    <3> QED BY <1>3, <3>1 DEF FileInv, FileShape, OtherWrites
  <2>4. cancelled' \in BOOLEAN /\ file.at # "done" /\ UNCHANGED <<temp, file, hidden>>
    BY <1>3, Zenon DEF FileInv, FileShape, OtherWrites
  <2> QED BY <2>2, <2>3, <2>4, FileOthersInv
<1>4. CASE UNCHANGED fileVars
  <2>1. Safe(file.text)' = Safe(file.text) /\ (HasHash' <=> HasHash)
    BY <1>4 DEF fileVars, Safe, Has, HasHash
  <2>2. FileInv'
    BY <1>4, <2>1 DEF fileVars, FileInv, FileShape, CallSound, EditSound, ReadySound, TempSound,
                      FileResultTruthful, Landing, Arg, Safe, Has, HasHash
  <2> QED BY <2>2
<1> QED BY <1>1, <1>2, <1>3, <1>4, FileReadInv, FileListInv, FilePatchOpenInv, FilePatchEditInv,
            FilePatchReadyInv, FileWriteOpenInv, FilePrepareInv, FileValidateInv, FileRenameInv,
            FileFinishInv, Zenon DEF FileNext

(* The only step of the tools that changes an entry is the rename.            *)
LEMMA FileStepAsked == ASSUME FileInv, FileNext(FileCalls) PROVE WriteIsAsked
<1> USE DEF FileInv, FileShape
<1> SUFFICES ASSUME edits' = edits, entries' # entries PROVE WriteIsAsked
  BY Zenon DEF WriteIsAsked
<1>1. Rename
  <2>1. ~(\E n \in Names, x \in Texts \cup {Absent} : OtherWrites(n, x))
    BY DEF OtherWrites
  <2>2. ~Cancel /\ ~Read /\ ~List /\ ~PatchOpen /\ ~PatchEdit /\ ~PatchReady /\ ~WriteOpen /\ ~Prepare /\ ~Validate
    BY Zenon DEF Cancel, Read, List, PatchOpen, PatchEdit, PatchReady, WriteOpen, Prepare, Validate
  <2>3. ~Finish /\ ~(\E inv \in FileCalls : Call(inv))
    BY Zenon DEF Finish, Call
  <2> QED BY <2>1, <2>2, <2>3, Zenon DEF FileNext
<1>2. file.at = "rename" /\ entries' = [entries EXCEPT ![file.place] = temp]
      /\ (HasHash \/ entries[file.place] = Absent)
  BY <1>1 DEF Rename, At
<1>3. temp = CalledFor(file.inv) /\ Safe(temp) = Passed /\ file.inv.tool \in WriteTools /\ Landing
      /\ (HasHash => file.saw = Arg("expected_sha256"))
  BY <1>2 DEF TempSound, ReadySound
<1>4. /\ CalledFor(file.inv) = IF file.inv.tool = "write_file" THEN Content
                           ELSE Described(Arg("expected_sha256"), Arg("edits"))
      /\ Path.to = file.inv.args["path"].to
  BY DEF CalledFor, Content, Arg, Path
<1>5. file.place \in {Path.to, "file"} /\ file.inv.tool \in {"apply_patch", "write_file"}
  BY <1>3, <1>4 DEF Landing, WriteTools
<1>6. IF HasHash THEN file.saw = Arg("expected_sha256") ELSE entries[file.place] = Absent
  BY <1>2, <1>3
<1> DEFINE asked == CalledFor(file.inv)
<1> HIDE DEF asked
<1>7. entries' = [entries EXCEPT ![file.place] = asked] /\ Safe(asked) = Passed
  BY <1>2, <1>3 DEF asked
<1> QED BY <1>4, <1>5, <1>6, <1>7, Zenon DEF WriteIsAsked, asked

LEMMA FileInvariance == EdgesSpec => []FileInv
<1>1. EdgesInit => FileInv
  BY FileInvInit DEF EdgesInit
<1>2. FileInv /\ [EdgesNext]_allVars => FileInv'
  <2> SUFFICES ASSUME FileInv, [EdgesNext]_allVars PROVE FileInv'
    OBVIOUS
  <2>1. FileNext(FileCalls) \/ UNCHANGED fileVars
    BY Zenon DEF EdgesNext, allVars, AllFileCalls, AllProcessCalls, AllRequests, AllQueries
  <2> QED BY <2>1, FileInvStep
<1> QED BY <1>1, <1>2, PTL DEF EdgesSpec

(* A tool changes only the entry its call names, or has led to, from the      *)
(* content whose hash the call gives or from nothing, and what it writes is   *)
(* the whole of what the call describes; and what a result says of the file   *)
(* is so.  For every set of texts, of calls and of limits.                    *)
THEOREM FileToolsHonest == EdgesSpec => FileHonest
<1>1. FileInv /\ [EdgesNext]_allVars => [WriteIsAsked]_fileVars
  <2> SUFFICES ASSUME FileInv, [EdgesNext]_allVars PROVE [WriteIsAsked]_fileVars
    OBVIOUS
  <2>1. FileNext(FileCalls) \/ UNCHANGED fileVars
    BY Zenon DEF EdgesNext, allVars, AllFileCalls, AllProcessCalls, AllRequests, AllQueries
  <2> QED BY <2>1, FileStepAsked
<1>2. FileInv => FileResultTruthful
  BY FileInvImplies
<1> QED BY <1>1, <1>2, FileInvariance, PTL DEF EdgesSpec, FileHonest, WritesWhatIsAsked

-----------------------------------------------------------------------------
(* The command lines of the process tools. *)

(* Nothing a line was given is taken for an option. *)
LineKept(line, named) ==
    \A i \in DOMAIN line : line[i].given =>
      /\ line[i].token \notin {"option", "outside", "odd_name"}
      /\ (\E k \in 1..i : line[k] = Ends) \/ named

(* A call that passed the preflight. *)
RequestSound == ProcessCall(process.inv) /\ Fits(process.inv)

LEMMA TokenPassed ==
    ASSUME NEW p
    PROVE  /\ Token(p) \in Results
           /\ Token(p) = Passed => p.to # "option"
BY PlainResults, Distinct DEF Token, Codes

LEMMA WritePassed == \A p, y : ResolveWrite(p, y) = Passed => ~y
<1> TAKE p, y
<1> DEFINE c1 == ~ValidPath(p)
           c == << <<c1, Rejected("invalid_path")>>, <<y, Rejected("outside_workspace")>> >>
<1>1. DOMAIN c = 1..2 /\ \A i \in 1..2 : c[i][1] => c[i][2] # Passed
  <2> HIDE DEF c1
  <2> QED BY Distinct
<1>2. Outcome(c) = Passed => ~c[2][1]
  <2> HIDE DEF c
  <2>1. 2 \in 1..2
    OBVIOUS
  <2> QED BY <1>1, <2>1, OutcomePassed, Zenon
<1>3. ResolveWrite(p, y) = Outcome(c)
  BY Zenon DEF ResolveWrite
<1> QED BY <1>2, <1>3

LEMMA ExistingPassed == \A p, x, y : ResolveExisting(p, x, y) = Passed => ~y
<1> TAKE p, x, y
<1> DEFINE c1 == ~ValidPath(p)
           c == << <<c1, Rejected("invalid_path")>>, <<x, Rejected("path_not_found")>>,
                   <<y, Rejected("outside_workspace")>> >>
<1>1. DOMAIN c = 1..3 /\ \A i \in 1..3 : c[i][1] => c[i][2] # Passed
  <2> HIDE DEF c1
  <2> QED BY Distinct
<1>2. Outcome(c) = Passed => ~c[3][1]
  <2> HIDE DEF c
  <2>1. 3 \in 1..3
    OBVIOUS
  <2> QED BY <1>1, <2>1, OutcomePassed, Zenon
<1>3. ResolveExisting(p, x, y) = Outcome(c)
  BY Zenon DEF ResolveExisting
<1> QED BY <1>2, <1>3

LEMMA GitCheckPassed ==
    /\ GitCheck \in Results
    /\ GitCheck = Passed /\ HasArg("path") => ProcessArg("path").to \notin {"option", "outside"}
<1> DEFINE p == ProcessArg("path")
           t == Token(p)
           r == ResolveWrite(p, p.to = "outside")
           c1 == t # Passed
           c2 == r # Passed
           c == << <<c1, t>>, <<c2, r>> >>
<1>1. t \in Results /\ r \in Results /\ (t = Passed => p.to # "option") /\ (r = Passed => p.to # "outside")
  BY TokenPassed, ResolveResult, WritePassed
<1>2. (c1 <=> t # Passed) /\ (c2 <=> r # Passed)
  OBVIOUS
<1>3. DOMAIN c = 1..2 /\ \A i \in 1..2 : c[i][2] \in Results
  <2> HIDE DEF p, t, r, c1, c2
  <2> QED BY <1>1
<1>4. \A i \in 1..2 : c[i][1] => c[i][2] # Passed
  <2> HIDE DEF p, t, r, c1, c2
  <2> QED BY <1>2
<1>5. Outcome(c) \in Results
  <2> HIDE DEF c
  <2> QED BY <1>3, OutcomeResult, Zenon
<1>6. Outcome(c) = Passed => ~c1 /\ ~c2
  <2>1. Outcome(c) = Passed => ~c[1][1] /\ ~c[2][1]
    <3> HIDE DEF c
    <3>1. 2 \in 1..2 /\ 1 \in 1..2
      OBVIOUS
    <3> QED BY <1>3, <1>4, <3>1, OutcomePassed, Zenon
  <2> HIDE DEF c1, c2, t, r
  <2> QED BY <2>1
<1>7. GitCheck = IF HasArg("path") THEN Outcome(c) ELSE Passed
  BY Zenon DEF GitCheck
<1> HIDE DEF c1, c2, t, r, c
<1> QED BY <1>1, <1>2, <1>5, <1>6, <1>7, PlainResults DEF p

LEMMA NpmCheckPassed ==
    /\ NpmCheck \in Results
    /\ NpmCheck = Passed => ProcessArg("script") # "odd_name"
<1> DEFINE script == ProcessArg("script")
           c1 == script = "odd_name"
           c2 == script = "no_package"
           c3 == script = "large_package"
           c4 == script = "binary_package"
           c5 == script = "unknown"
           c6 == script \in {"unsafe_body", "wrapped"}
           c == << <<c1, Rejected("invalid_arguments")>>, <<c2, Rejected("path_not_found")>>,
                   <<c3, Rejected("input_limit")>>, <<c4, Rejected("binary_file")>>,
                   <<c5, Rejected("invalid_arguments")>>, <<c6, Rejected("unsafe_script")>> >>
<1>1. DOMAIN c = 1..6 /\ \A i \in 1..6 : c[i][2] \in Results
  <2> HIDE DEF c1, c2, c3, c4, c5, c6
  <2> QED BY PlainResults DEF Codes
<1>2. \A i \in 1..6 : c[i][1] => c[i][2] # Passed
  <2> HIDE DEF c1, c2, c3, c4, c5, c6
  <2> QED BY Distinct
<1>3. Outcome(c) \in Results
  <2> HIDE DEF c
  <2> QED BY <1>1, OutcomeResult, Zenon
<1>4. Outcome(c) = Passed => ~c[1][1]
  <2> HIDE DEF c
  <2>1. 1 \in 1..6
    OBVIOUS
  <2> QED BY <1>1, <1>2, <2>1, OutcomePassed, Zenon
<1>5. NpmCheck = Outcome(c)
  BY Zenon DEF NpmCheck
<1> QED BY <1>3, <1>4, <1>5

(* What prepare_diagnostic asks of the path it is given. *)
PathGiven ==
    LET p == ProcessArg("path")
        existing == ResolveExisting(p, p.to = "missing", p.to = "outside")
    IN IF ~HasArg("path") THEN Rejected("invalid_arguments")
       ELSE Outcome(<< <<Token(p) # Passed, Token(p)>>, <<existing # Passed, existing>> >>)

LEMMA PathGivenPassed ==
    /\ PathGiven \in Results
    /\ PathGiven = Passed => HasArg("path") /\ ProcessArg("path").to \notin {"option", "outside"}
<1> DEFINE p == ProcessArg("path")
           t == Token(p)
           r == ResolveExisting(p, p.to = "missing", p.to = "outside")
           c1 == t # Passed
           c2 == r # Passed
           c == << <<c1, t>>, <<c2, r>> >>
<1>1. t \in Results /\ r \in Results /\ (t = Passed => p.to # "option") /\ (r = Passed => p.to # "outside")
  BY TokenPassed, ResolveResult, ExistingPassed
<1>2. (c1 <=> t # Passed) /\ (c2 <=> r # Passed)
  OBVIOUS
<1>3. DOMAIN c = 1..2 /\ \A i \in 1..2 : c[i][2] \in Results
  <2> HIDE DEF p, t, r, c1, c2
  <2> QED BY <1>1
<1>4. \A i \in 1..2 : c[i][1] => c[i][2] # Passed
  <2> HIDE DEF p, t, r, c1, c2
  <2> QED BY <1>2
<1>5. Outcome(c) \in Results
  <2> HIDE DEF c
  <2> QED BY <1>3, OutcomeResult, Zenon
<1>6. Outcome(c) = Passed => ~c1 /\ ~c2
  <2>1. Outcome(c) = Passed => ~c[1][1] /\ ~c[2][1]
    <3> HIDE DEF c
    <3>1. 2 \in 1..2 /\ 1 \in 1..2
      OBVIOUS
    <3> QED BY <1>3, <1>4, <3>1, OutcomePassed, Zenon
  <2> HIDE DEF c1, c2, t, r
  <2> QED BY <2>1
<1>7. PathGiven = IF ~HasArg("path") THEN Rejected("invalid_arguments") ELSE Outcome(c)
  BY Zenon DEF PathGiven
<1> HIDE DEF c1, c2, t, r, c
<1> QED BY <1>1, <1>2, <1>5, <1>6, <1>7, PlainResults, Distinct DEF p, Codes

LEMMA NodeCheckPassed ==
    ASSUME ProcessArg("action") = "node_check"
    PROVE  /\ DiagnosticCheck \in Results
           /\ DiagnosticCheck = Passed => PathGiven = Passed
<1> DEFINE path == PathGiven
           c1 == HasArg("pattern") \/ HasArg("max_results")
           c2 == path # Passed
           c3 == HasArg("path") /\ ProcessArg("path").to # "script"
           c == << <<c1, Rejected("invalid_arguments")>>, <<c2, path>>, <<c3, Rejected("wrong_file_type")>> >>
<1>1. path \in Results /\ (c2 <=> path # Passed)
  BY PathGivenPassed
<1>2. DOMAIN c = 1..3 /\ \A i \in 1..3 : c[i][2] \in Results
  <2> HIDE DEF path, c1, c2, c3
  <2> QED BY <1>1, PlainResults DEF Codes
<1>3. \A i \in 1..3 : c[i][1] => c[i][2] # Passed
  <2> HIDE DEF path, c1, c2, c3
  <2> QED BY <1>1, Distinct
<1>4. Outcome(c) \in Results
  <2> HIDE DEF c
  <2> QED BY <1>2, OutcomeResult, Zenon
<1>5. Outcome(c) = Passed => ~c[2][1]
  <2> HIDE DEF c
  <2>1. 2 \in 1..3
    OBVIOUS
  <2> QED BY <1>2, <1>3, <2>1, OutcomePassed, Zenon
<1>6. DiagnosticCheck = Outcome(c)
  BY Zenon DEF DiagnosticCheck, PathGiven
<1> QED BY <1>1, <1>4, <1>5, <1>6

LEMMA SearchCheckPassed ==
    ASSUME ProcessArg("action") = "rg_search"
    PROVE  /\ DiagnosticCheck \in Results
           /\ DiagnosticCheck = Passed =>
                PathGiven = Passed /\ HasArg("pattern") /\ ProcessArg("pattern") \notin {"option", "shell"}
<1> DEFINE path == PathGiven
           c1 == ~HasArg("path") \/ ~HasArg("pattern")
           c2 == HasArg("pattern") /\ ProcessArg("pattern") \in {"option", "shell"}
           c3 == path # Passed
           c4 == HasArg("max_results") /\ ProcessArg("max_results") # "some"
           c == << <<c1, Rejected("invalid_arguments")>>, <<c2, Rejected("invalid_arguments")>>, <<c3, path>>,
                   <<c4, Rejected("invalid_arguments")>> >>
<1>1. path \in Results /\ (c3 <=> path # Passed)
  BY PathGivenPassed
<1>2. DOMAIN c = 1..4 /\ \A i \in 1..4 : c[i][2] \in Results
  <2> HIDE DEF path, c1, c2, c3, c4
  <2> QED BY <1>1, PlainResults DEF Codes
<1>3. \A i \in 1..4 : c[i][1] => c[i][2] # Passed
  <2> HIDE DEF path, c1, c2, c3, c4
  <2> QED BY <1>1, Distinct
<1>4. Outcome(c) \in Results
  <2> HIDE DEF c
  <2> QED BY <1>2, OutcomeResult, Zenon
<1>5. Outcome(c) = Passed => ~c1 /\ ~c2 /\ ~c3
  <2>1. Outcome(c) = Passed => ~c[1][1] /\ ~c[2][1] /\ ~c[3][1]
    <3> HIDE DEF c
    <3>1. 1 \in 1..4 /\ 2 \in 1..4 /\ 3 \in 1..4
      OBVIOUS
    <3> QED BY <1>2, <1>3, <3>1, OutcomePassed, Zenon
  <2> HIDE DEF path, c1, c2, c3, c4
  <2> QED BY <2>1
<1>6. DiagnosticCheck = Outcome(c)
  BY Zenon DEF DiagnosticCheck, PathGiven
<1> HIDE DEF c
<1> QED BY <1>4, <1>5, <1>6

LEMMA OtherCheckPassed ==
    ASSUME ProcessArg("action") \notin {"node_check", "rg_search"}
    PROVE  DiagnosticCheck \in Results
BY PlainResults DEF DiagnosticCheck, Codes

(* The lines of the tools, token by token. *)
LEMMA LineKeptBehind ==
    ASSUME NEW n \in Nat, NEW line, DOMAIN line = 1..n, NEW k \in 1..n, line[k] = Ends,
           \A i \in 1..k : ~line[i].given,
           \A i \in (k + 1)..n : line[i].token \notin {"option", "outside", "odd_name"}, NEW named
    PROVE  LineKept(line, named)
<1>1. ASSUME NEW i \in 1..n, line[i].given
      PROVE  line[i].token \notin {"option", "outside", "odd_name"} /\ \E j \in 1..i : line[j] = Ends
  <2>1. i \in (k + 1)..n /\ k \in 1..i
    BY <1>1
  <2> QED BY <2>1
<1> QED BY <1>1, Zenon DEF LineKept

LEMMA Glued ==
    ASSUME NEW S, NEW s \in Seq(S), NEW x \in S, NEW u \in Seq(S), Len(u) = Len(s) + 1,
           \A i \in 1..Len(s) : u[i] = s[i], u[Len(s) + 1] = x
    PROVE  Cat(s, <<x>>) = u
<1>1. Len(s) \in Nat /\ <<x>> \in Seq(S) /\ Len(<<x>>) = 1 /\ <<x>>[1] = x
  BY LenProperties
<1> DEFINE t == <<x>>
           v == Cat(s, t)
<1>2. v \in Seq(S) /\ Len(v) = Len(s) + Len(t)
      /\ \A i \in 1..(Len(s) + Len(t)) : v[i] = IF i <= Len(s) THEN s[i] ELSE t[i - Len(s)]
  BY <1>1, ConcatProperties DEF Cat
<1> HIDE DEF t, v
<1>3. Len(v) = Len(u) /\ \A i \in 1..Len(v) : v[i] = u[i]
  <2>1. Len(t) = 1 /\ t[1] = x
    BY <1>1 DEF t
  <2>2. ASSUME NEW i \in 1..Len(v) PROVE v[i] = u[i]
    <3>1. i \in 1..Len(s) \/ i = Len(s) + 1
      BY <1>1, <1>2, <2>1
    <3> QED BY <1>1, <1>2, <2>1, <3>1
  <2> QED BY <1>1, <1>2, <2>1, <2>2
<1>4. v = u
  BY <1>2, <1>3, SeqEqual
<1> QED BY <1>4 DEF v, t

LEMMA GluedFour == \A a, b, c, d : <<a, b, c>> \o <<d>> = <<a, b, c, d>>
<1> TAKE a, b, c, d
<1> DEFINE S == {a, b, c, d}
           s == <<a, b, c>>
           u == <<a, b, c, d>>
<1>1. s \in Seq(S) /\ u \in Seq(S) /\ Len(s) = 3 /\ Len(u) = 4 /\ d \in S
  OBVIOUS
<1>2. s[1] = u[1] /\ s[2] = u[2] /\ s[3] = u[3] /\ u[4] = d
  OBVIOUS
<1> HIDE DEF s, u, S
<1>3. \A i \in 1..Len(s) : u[i] = s[i]
  BY <1>1, <1>2
<1>4. Len(u) = Len(s) + 1 /\ u[Len(s) + 1] = d
  BY <1>1, <1>2
<1>5. Cat(s, <<d>>) = u
  BY <1>1, <1>3, <1>4, Glued
<1> QED BY <1>5 DEF s, u, Cat

LEMMA GluedFive == \A a, b, c, d, e : <<a, b, c, d>> \o <<e>> = <<a, b, c, d, e>>
<1> TAKE a, b, c, d, e
<1> DEFINE S == {a, b, c, d, e}
           s == <<a, b, c, d>>
           u == <<a, b, c, d, e>>
<1>1. s \in Seq(S) /\ u \in Seq(S) /\ Len(s) = 4 /\ Len(u) = 5 /\ e \in S
  OBVIOUS
<1>2. s[1] = u[1] /\ s[2] = u[2] /\ s[3] = u[3] /\ s[4] = u[4] /\ u[5] = e
  OBVIOUS
<1> HIDE DEF s, u, S
<1>3. \A i \in 1..Len(s) : u[i] = s[i]
  BY <1>1, <1>2
<1>4. Len(u) = Len(s) + 1 /\ u[Len(s) + 1] = e
  BY <1>1, <1>2
<1>5. Cat(s, <<e>>) = u
  BY <1>1, <1>3, <1>4, Glued
<1> QED BY <1>5 DEF s, u, Cat

LEMMA FourKept ==
    ASSUME NEW a, NEW b, NEW t, t \notin {"option", "outside", "odd_name"}, NEW named
    PROVE  LineKept(<<Own(a), Own(b), Ends, Given(t)>>, named)
<1> DEFINE line == <<Own(a), Own(b), Ends, Given(t)>>
<1>1. DOMAIN line = 1..4 /\ line[3] = Ends /\ line[4].token = t
  BY DEF Given
<1>2. ~line[1].given /\ ~line[2].given /\ ~line[3].given
  BY DEF Own, Ends
<1> HIDE DEF line
<1>3. (\A i \in 1..3 : ~line[i].given) /\ \A i \in (3 + 1)..4 : i = 4
  BY <1>2
<1>5. \A i \in (3 + 1)..4 : line[i].token \notin {"option", "outside", "odd_name"}
  BY <1>1, <1>3
<1>4. LineKept(line, named)
  <2>1. 4 \in Nat /\ 3 \in 1..4
    OBVIOUS
  <2> QED BY <1>1, <1>3, <1>5, <2>1, LineKeptBehind, Zenon
<1> QED BY <1>4 DEF line

LEMMA FiveKept ==
    ASSUME NEW a, NEW b, NEW t, t \notin {"option", "outside", "odd_name"},
           NEW u, u \notin {"option", "outside", "odd_name"}, NEW named
    PROVE  LineKept(<<Own(a), Own(b), Ends, Given(t), Given(u)>>, named)
<1> DEFINE line == <<Own(a), Own(b), Ends, Given(t), Given(u)>>
<1>1. DOMAIN line = 1..5 /\ line[3] = Ends /\ line[4].token = t /\ line[5].token = u
  BY DEF Given
<1>2. ~line[1].given /\ ~line[2].given /\ ~line[3].given
  BY DEF Own, Ends
<1> HIDE DEF line
<1>3. (\A i \in 1..3 : ~line[i].given) /\ \A i \in (3 + 1)..5 : i = 4 \/ i = 5
  BY <1>2
<1>5. \A i \in (3 + 1)..5 : line[i].token \notin {"option", "outside", "odd_name"}
  BY <1>1, <1>3
<1>4. LineKept(line, named)
  <2>1. 5 \in Nat /\ 3 \in 1..5
    OBVIOUS
  <2> QED BY <1>1, <1>3, <1>5, <2>1, LineKeptBehind, Zenon
<1> QED BY <1>4 DEF line

LEMMA GitLineKept ==
    ASSUME HasArg("path") => ProcessArg("path").to \in PathKinds \ {"option", "outside"}
    PROVE  \A named : LineKept(GitLine, named)
<1> DEFINE to == ProcessArg("path").to
<1>1. CASE HasArg("path")
  <2>1. GitLine = <<Own("git"), Own(process.inv.tool), Ends, Given(to)>>
    BY <1>1, GluedFour DEF GitLine, GivenPath
  <2>2. to \notin {"option", "outside", "odd_name"}
    BY <1>1 DEF PathKinds
  <2> HIDE DEF to
  <2> QED BY <2>1, <2>2, FourKept
<1>2. CASE ~HasArg("path")
  <2>1. GitLine = <<Own("git"), Own(process.inv.tool), Ends>>
    BY <1>2 DEF GitLine, GivenPath
  <2> QED BY <2>1 DEF LineKept, Own, Ends
<1> QED BY <1>1, <1>2

LEMMA NpmLineKept ==
    ASSUME ProcessArg("script") \in ScriptKinds \ {"odd_name"}
    PROVE  LineKept(NpmLine, TRUE)
<1> DEFINE script == ProcessArg("script")
<1>1. NpmLine = <<Own("npm"), Own("run"), Given(script), Ends, Own("--no-color")>>
  BY DEF NpmLine
<1>2. script \notin {"option", "outside", "odd_name"}
  BY DEF ScriptKinds
<1> HIDE DEF script
<1> QED BY <1>1, <1>2 DEF LineKept, Own, Given, Ends

LEMMA DiagnosticLineKept ==
    ASSUME HasArg("path") => ProcessArg("path").to \in PathKinds \ {"option", "outside"},
           ProcessArg("action") = "rg_search" => ProcessArg("pattern") \in PatternKinds \ {"option"},
           NEW named
    PROVE  LineKept(DiagnosticLine, named)
<1> DEFINE to == ProcessArg("path").to
           pattern == ProcessArg("pattern")
           action == ProcessArg("action")
<1>1. (HasArg("path") => to \notin {"option", "outside", "odd_name"})
      /\ (action = "rg_search" => pattern \notin {"option", "outside", "odd_name"})
  BY DEF PathKinds, PatternKinds
<1>2. GivenPath = IF HasArg("path") THEN <<Given(to)>> ELSE <<>>
  BY DEF GivenPath
<1>3. CASE action = "node_check"
  <2>1. DiagnosticLine = <<Own("node"), Own("--check"), Ends>> \o GivenPath
    BY <1>3, Zenon DEF DiagnosticLine
  <2> HIDE DEF to, pattern, action
  <2>2. CASE HasArg("path")
    <3>1. DiagnosticLine = <<Own("node"), Own("--check"), Ends, Given(to)>>
      BY <1>2, <2>1, <2>2, GluedFour
    <3> QED BY <1>1, <2>2, <3>1, FourKept
  <2>3. CASE ~HasArg("path")
    <3>1. DiagnosticLine = <<Own("node"), Own("--check"), Ends>>
      BY <1>2, <2>1, <2>3
    <3> QED BY <3>1 DEF LineKept, Own, Ends
  <2> QED BY <2>2, <2>3
<1>4. CASE action = "rg_search"
  <2>1. DiagnosticLine = <<Own("rg"), Own("--fixed-strings"), Ends, Given(pattern)>> \o GivenPath
    BY <1>4 DEF DiagnosticLine
  <2> HIDE DEF to, pattern, action
  <2>2. CASE HasArg("path")
    <3>1. DiagnosticLine = <<Own("rg"), Own("--fixed-strings"), Ends, Given(pattern), Given(to)>>
      BY <1>2, <2>1, <2>2, GluedFive
    <3> QED BY <1>1, <1>4, <2>2, <3>1, FiveKept
  <2>3. CASE ~HasArg("path")
    <3>1. DiagnosticLine = <<Own("rg"), Own("--fixed-strings"), Ends, Given(pattern)>>
      BY <1>2, <2>1, <2>3
    <3> QED BY <1>1, <1>4, <3>1, FourKept
  <2> QED BY <2>2, <2>3
<1>5. CASE action \notin {"node_check", "rg_search"}
  <2>1. DiagnosticLine = <<Own("cargo"), Own(action)>>
    BY <1>5 DEF DiagnosticLine
  <2> HIDE DEF action
  <2> QED BY <2>1 DEF LineKept, Own
<1> QED BY <1>3, <1>4, <1>5

(* The filter of system calls, instruction by instruction.                    *)
Orders == [op : {"load", "equal", "atleast", "return"},
           value : {"arch", "nr", "kill", "refuse", "allow"} \cup Nat, yes : Nat, no : Nat]

LEMMA OrdersMade ==
    /\ \A what \in {"arch", "nr"} : Load(what) \in Orders
    /\ \A op \in {"equal", "atleast"}, v \in Nat, y \in Nat, n \in Nat : Jump(op, v, y, n) \in Orders
    /\ \A a \in {"kill", "refuse", "allow"} : Answers(a) \in Orders
BY DEF Orders, Load, Jump, Answers

LEMMA JoinedAny ==
    ASSUME NEW S, NEW s \in Seq(S), NEW t \in Seq(S)
    PROVE  /\ Cat(s, t) \in Seq(S) /\ Len(Cat(s, t)) = Len(s) + Len(t)
           /\ \A i \in 1..(Len(s) + Len(t)) : Cat(s, t)[i] = IF i <= Len(s) THEN s[i] ELSE t[i - Len(s)]
BY ConcatProperties DEF Cat

LEMMA FilterIs ==
    /\ Len(Filter) = 17
    /\ Filter[1] = Load("arch") /\ Filter[2] = Jump("equal", 62, 1, 0) /\ Filter[3] = Answers("kill")
    /\ Filter[4] = Load("nr") /\ Filter[5] = Jump("atleast", X32, 0, 1) /\ Filter[6] = Answers("refuse")
    /\ Filter[7] = Jump("equal", 41, 0, 1) /\ Filter[8] = Answers("refuse")
    /\ Filter[9] = Jump("equal", 248, 0, 1) /\ Filter[10] = Answers("refuse")
    /\ Filter[11] = Jump("equal", 249, 0, 1) /\ Filter[12] = Answers("refuse")
    /\ Filter[13] = Jump("equal", 250, 0, 1) /\ Filter[14] = Answers("refuse")
    /\ Filter[15] = Jump("equal", 425, 0, 1) /\ Filter[16] = Answers("refuse")
    /\ Filter[17] = Answers("allow")
<1> DEFINE a1 == Load("arch")
           a2 == Jump("equal", 62, 1, 0)
           a3 == Answers("kill")
           a4 == Load("nr")
           a5 == Jump("atleast", X32, 0, 1)
           a6 == Answers("refuse")
           a7 == Answers("allow")
           a == <<a1, a2, a3, a4, a5, a6>>
           b == [k \in 1..(2 * Len(Sockets)) |->
                   IF k % 2 = 1 THEN Jump("equal", Sockets[(k + 1) \div 2], 0, 1) ELSE Answers("refuse")]
           c == <<a7>>
<1>0. Filter = Cat(Cat(a, b), c)
  BY DEF Filter, Cat
<1>1. a1 \in Orders /\ a2 \in Orders /\ a3 \in Orders /\ a4 \in Orders /\ a5 \in Orders /\ a6 \in Orders /\ a7 \in Orders
  BY OrdersMade DEF X32
<1>2. /\ Len(Sockets) = 5 /\ Sockets[1] = 41 /\ Sockets[2] = 248 /\ Sockets[3] = 249
      /\ Sockets[4] = 250 /\ Sockets[5] = 425
  BY DEF Sockets
<1>3. /\ b[1] = Jump("equal", 41, 0, 1) /\ b[3] = Jump("equal", 248, 0, 1) /\ b[5] = Jump("equal", 249, 0, 1)
      /\ b[7] = Jump("equal", 250, 0, 1) /\ b[9] = Jump("equal", 425, 0, 1)
      /\ b[2] = a6 /\ b[4] = a6 /\ b[6] = a6 /\ b[8] = a6 /\ b[10] = a6
  BY <1>2
<1>4. b \in Seq(Orders) /\ Len(b) = 10
  <2>1. b = [k \in 1..10 |-> b[k]]
    BY <1>2
  <2>2. \A k \in 1..10 : b[k] \in Orders
    <3>1. /\ Jump("equal", 41, 0, 1) \in Orders /\ Jump("equal", 248, 0, 1) \in Orders
          /\ Jump("equal", 249, 0, 1) \in Orders /\ Jump("equal", 250, 0, 1) \in Orders
          /\ Jump("equal", 425, 0, 1) \in Orders
      BY OrdersMade
    <3> HIDE DEF a6, b
    <3> QED BY <1>1, <1>3, <3>1
  <2> HIDE DEF b
  <2> QED BY <2>1, <2>2
<1> HIDE DEF a1, a2, a3, a4, a5, a6, a7
<1>5. /\ a \in Seq(Orders) /\ Len(a) = 6 /\ c \in Seq(Orders) /\ Len(c) = 1
      /\ a[1] = a1 /\ a[2] = a2 /\ a[3] = a3 /\ a[4] = a4 /\ a[5] = a5 /\ a[6] = a6 /\ c[1] = a7
  BY <1>1
<1> HIDE DEF a, b, c
<1> DEFINE d == Cat(a, b)
           e == Cat(d, c)
<1>6. d \in Seq(Orders) /\ Len(d) = 16 /\ \A i \in 1..16 : d[i] = IF i <= 6 THEN a[i] ELSE b[i - 6]
  <2>1. /\ d \in Seq(Orders) /\ Len(d) = Len(a) + Len(b)
        /\ \A i \in 1..(Len(a) + Len(b)) : d[i] = IF i <= Len(a) THEN a[i] ELSE b[i - Len(a)]
    BY <1>4, <1>5, JoinedAny, Zenon
  <2> HIDE DEF d
  <2> QED BY <1>4, <1>5, <2>1
<1> HIDE DEF d
<1>7. Len(e) = 17 /\ \A i \in 1..17 : e[i] = IF i <= 16 THEN d[i] ELSE c[i - 16]
  <2>1. /\ e \in Seq(Orders) /\ Len(e) = Len(d) + Len(c)
        /\ \A i \in 1..(Len(d) + Len(c)) : e[i] = IF i <= Len(d) THEN d[i] ELSE c[i - Len(d)]
    BY <1>5, <1>6, JoinedAny, Zenon
  <2> HIDE DEF e
  <2> QED BY <1>5, <1>6, <2>1
<1>8. Filter = e
  BY <1>0 DEF d
<1> HIDE DEF e
<1>9. /\ e[1] = a1 /\ e[2] = a2 /\ e[3] = a3 /\ e[4] = a4 /\ e[5] = a5 /\ e[6] = a6
      /\ e[7] = b[1] /\ e[8] = b[2] /\ e[9] = b[3] /\ e[10] = b[4] /\ e[11] = b[5] /\ e[12] = b[6]
      /\ e[13] = b[7] /\ e[14] = b[8] /\ e[15] = b[9] /\ e[16] = b[10] /\ e[17] = a7
  BY <1>5, <1>6, <1>7
<1> QED BY <1>3, <1>7, <1>8, <1>9 DEF a1, a2, a3, a4, a5, a6, a7

At17(pc, acc) == [pc |-> pc, acc |-> acc]

(* Every order, executed. *)
LEMMA ExecutedOrders ==
    ASSUME NEW call, NEW acc
    PROVE  /\ Executed(At17(1, acc), call) = At17(2, call.arch)
           /\ Executed(At17(2, acc), call) = At17(IF acc = 62 THEN 4 ELSE 3, acc)
           /\ Executed(At17(4, acc), call) = At17(5, call.nr)
           /\ Executed(At17(5, acc), call) = At17(IF acc >= X32 THEN 6 ELSE 7, acc)
           /\ Executed(At17(7, acc), call) = At17(IF acc = 41 THEN 8 ELSE 9, acc)
           /\ Executed(At17(9, acc), call) = At17(IF acc = 248 THEN 10 ELSE 11, acc)
           /\ Executed(At17(11, acc), call) = At17(IF acc = 249 THEN 12 ELSE 13, acc)
           /\ Executed(At17(13, acc), call) = At17(IF acc = 250 THEN 14 ELSE 15, acc)
           /\ Executed(At17(15, acc), call) = At17(IF acc = 425 THEN 16 ELSE 17, acc)
           /\ \A pc \in {3, 6, 8, 10, 12, 14, 16, 17} : Executed(At17(pc, acc), call) = At17(pc, acc)
BY FilterIs DEF Executed, At17, Load, Jump, Answers

(* The run of the filter over a call. *)
RanOnce(call, g, n) == IF n = 0 THEN [pc |-> 1, acc |-> 0] ELSE Executed(g[n - 1], call)
Ran(call, m, g) == g = [n \in 0..m |-> RanOnce(call, g, n)]
Stops == {3, 6, 8, 10, 12, 14, 16, 17}

LEMMA RanExists == ASSUME NEW call, NEW m \in Nat PROVE \E g : Ran(call, m, g)
<1> DEFINE T == {k \in Nat : \E g : Ran(call, k, g)}
<1>1. 0 \in T
  <2> DEFINE g == [n \in 0..0 |-> [pc |-> 1, acc |-> 0]]
  <2>1. \A n \in 0..0 : n = 0
    OBVIOUS
  <2>2. g = [n \in 0..0 |-> RanOnce(call, g, n)]
    BY <2>1 DEF RanOnce
  <2> QED BY <2>2 DEF Ran
<1>2. ASSUME NEW k \in T PROVE k + 1 \in T
  <2>1. PICK g : g = [n \in 0..k |-> RanOnce(call, g, n)]
    BY DEF Ran
  <2> DEFINE h == [n \in 0..(k + 1) |-> IF n = k + 1 THEN Executed(g[k], call) ELSE g[n]]
  <2>2. ASSUME NEW n \in 0..(k + 1) PROVE h[n] = RanOnce(call, h, n)
    <3>1. CASE n = k + 1
      <4>1. n # 0 /\ n - 1 = k /\ k \in 0..(k + 1) /\ k # k + 1
        BY <3>1
      <4>2. h[k] = g[k] /\ h[n] = Executed(g[k], call)
        BY <3>1, <4>1
      <4> HIDE DEF h
      <4> QED BY <4>1, <4>2 DEF RanOnce
    <3>2. CASE n # k + 1
      <4>1. n \in 0..k /\ (n # 0 => n - 1 \in 0..(k + 1) /\ n - 1 # k + 1)
        BY <3>2
      <4>2. h[n] = RanOnce(call, g, n)
        BY <2>1, <3>2, <4>1
      <4>3. n # 0 => h[n - 1] = g[n - 1]
        BY <4>1
      <4> HIDE DEF h
      <4> QED BY <4>2, <4>3 DEF RanOnce
    <3> QED BY <3>1, <3>2
  <2>3. h = [n \in 0..(k + 1) |-> h[n]]
    OBVIOUS
  <2> HIDE DEF h
  <2>4. h = [n \in 0..(k + 1) |-> RanOnce(call, h, n)]
    BY <2>2, <2>3
  <2> QED BY <2>4 DEF Ran
<1>3. T = Nat
  <2> HIDE DEF T
  <2>1. T \in SUBSET Nat
    BY DEF T
  <2> QED BY <1>1, <1>2, <2>1, NatSetInduction
<1> QED BY <1>3

(* An answer is the end of the run. *)
LEMMA RanStops ==
    ASSUME NEW call, NEW g, Ran(call, 17, g), NEW k \in 0..17, NEW pc \in Stops, NEW acc, g[k] = At17(pc, acc)
    PROVE  g[17] = At17(pc, acc)
<1> DEFINE T == {j \in Nat : k + j <= 17 => g[k + j] = At17(pc, acc)}
<1>1. 0 \in T
  OBVIOUS
<1>2. ASSUME NEW j \in T PROVE j + 1 \in T
  <2>1. CASE k + (j + 1) <= 17
    <3> DEFINE n == k + (j + 1)
    <3>1. n \in 0..17 /\ n # 0 /\ n - 1 = k + j /\ k + j <= 17
      BY <2>1
    <3> HIDE DEF n
    <3>2. g[n] = Executed(g[n - 1], call)
      BY <3>1 DEF Ran, RanOnce
    <3>3. g[n - 1] = At17(pc, acc)
      BY <3>1
    <3>4. Executed(At17(pc, acc), call) = At17(pc, acc)
      BY ExecutedOrders DEF Stops
    <3>5. g[n] = At17(pc, acc)
      BY <3>2, <3>3, <3>4
    <3> QED BY <3>5 DEF n
  <2> QED BY <2>1
<1>3. T = Nat
  <2> HIDE DEF T
  <2>1. T \in SUBSET Nat
    BY DEF T
  <2> QED BY <1>1, <1>2, <2>1, NatSetInduction
<1>4. 17 - k \in T /\ k + (17 - k) = 17
  <2>1. 17 - k \in Nat /\ k + (17 - k) = 17
    OBVIOUS
  <2> HIDE DEF T
  <2> QED BY <1>3, <2>1
<1> QED BY <1>4

(* The filter refuses every way to a socket, another architecture, and        *)
(* nothing else.                                                              *)
LEMMA FilteredIs ==
    ASSUME NEW call, call.nr \in Nat
    PROVE  Filtered(call) = "allow"
             <=> call.arch = 62 /\ ~(call.nr >= X32) /\ call.nr \notin {41, 248, 249, 250, 425}
<1> DEFINE g == CHOOSE g : g = [n \in 0..Len(Filter) |-> RanOnce(call, g, n)]
<1>1. Filtered(call) = Filter[g[Len(Filter)].pc].value
  BY DEF Filtered, RanOnce
<1>2. Len(Filter) = 17
  BY FilterIs
<1>3. Ran(call, 17, g)
  <2>1. \E h : h = [n \in 0..Len(Filter) |-> RanOnce(call, h, n)]
    <3>1. \E h : Ran(call, 17, h)
      BY RanExists
    <3> QED BY <1>2, <3>1 DEF Ran
  <2> QED BY <1>2, <2>1 DEF Ran
<1> HIDE DEF g
<1>4. \A n \in 0..17 : g[n] = IF n = 0 THEN At17(1, 0) ELSE Executed(g[n - 1], call)
  BY <1>3 DEF Ran, RanOnce, At17
<1> DEFINE nr == call.nr
<1>5. g[1] = At17(2, call.arch) /\ g[2] = At17(IF call.arch = 62 THEN 4 ELSE 3, call.arch)
  <2>1. g[0] = At17(1, 0) /\ g[1] = Executed(g[0], call) /\ g[2] = Executed(g[1], call)
    BY <1>4
  <2> QED BY <2>1, ExecutedOrders
<1>6. ASSUME NEW k \in 0..17, NEW pc \in Stops, NEW acc, g[k] = At17(pc, acc)
      PROVE  Filtered(call) = Filter[pc].value
  <2>1. g[17] = At17(pc, acc)
    BY <1>3, <1>6, RanStops
  <2> QED BY <1>1, <1>2, <2>1 DEF At17
<1>7. /\ Filter[3].value = "kill" /\ Filter[6].value = "refuse" /\ Filter[8].value = "refuse"
      /\ Filter[10].value = "refuse" /\ Filter[12].value = "refuse" /\ Filter[14].value = "refuse"
      /\ Filter[16].value = "refuse" /\ Filter[17].value = "allow"
  BY FilterIs DEF Answers
<1>8. CASE call.arch # 62
  <2>1. g[2] = At17(3, call.arch) /\ 3 \in Stops /\ 2 \in 0..17
    BY <1>5, <1>8 DEF Stops
  <2> QED BY <1>6, <1>7, <1>8, <2>1
<1>9. CASE call.arch = 62
  <2>1. g[2] = At17(4, 62) /\ g[3] = Executed(g[2], call) /\ g[4] = Executed(g[3], call)
    BY <1>4, <1>5, <1>9
  <2> HIDE DEF nr
  <2>2. g[3] = At17(5, nr) /\ g[4] = At17(IF nr >= X32 THEN 6 ELSE 7, nr)
    BY <2>1, ExecutedOrders DEF nr
  <2>3. CASE nr >= X32
    <3>1. g[4] = At17(6, nr) /\ 6 \in Stops /\ 4 \in 0..17
      BY <2>2, <2>3 DEF Stops
    <3> QED BY <1>6, <1>7, <2>3, <3>1 DEF nr
  <2>4. CASE ~(nr >= X32)
    <3>1. g[4] = At17(7, nr) /\ g[5] = Executed(g[4], call) /\ g[6] = Executed(g[5], call)
          /\ g[7] = Executed(g[6], call) /\ g[8] = Executed(g[7], call) /\ g[9] = Executed(g[8], call)
      BY <1>4, <2>2, <2>4
    <3>2. g[5] = At17(IF nr = 41 THEN 8 ELSE 9, nr)
      BY <3>1, ExecutedOrders
    <3>3. nr # 41 => g[6] = At17(IF nr = 248 THEN 10 ELSE 11, nr)
      BY <3>1, <3>2, ExecutedOrders
    <3>4. nr \notin {41, 248} => g[7] = At17(IF nr = 249 THEN 12 ELSE 13, nr)
      BY <3>1, <3>3, ExecutedOrders
    <3>5. nr \notin {41, 248, 249} => g[8] = At17(IF nr = 250 THEN 14 ELSE 15, nr)
      BY <3>1, <3>4, ExecutedOrders
    <3>6. nr \notin {41, 248, 249, 250} => g[9] = At17(IF nr = 425 THEN 16 ELSE 17, nr)
      BY <3>1, <3>5, ExecutedOrders
    <3>7. {8, 10, 12, 14, 16, 17} \subseteq Stops /\ {5, 6, 7, 8, 9} \subseteq 0..17
      BY DEF Stops
    <3>8. CASE nr = 41
      BY <1>6, <1>7, <3>2, <3>7, <3>8 DEF nr
    <3>9. CASE nr = 248
      BY <1>6, <1>7, <3>3, <3>7, <3>9 DEF nr
    <3>10. CASE nr = 249
      BY <1>6, <1>7, <3>4, <3>7, <3>10 DEF nr
    <3>11. CASE nr = 250
      BY <1>6, <1>7, <3>5, <3>7, <3>11 DEF nr
    <3>12. CASE nr = 425
      BY <1>6, <1>7, <3>6, <3>7, <3>12 DEF nr
    <3>13. CASE nr \notin {41, 248, 249, 250, 425}
      BY <1>6, <1>7, <1>9, <2>4, <3>6, <3>7, <3>13 DEF nr
    <3> QED BY <3>8, <3>9, <3>10, <3>11, <3>12, <3>13
  <2> QED BY <2>3, <2>4
<1> QED BY <1>8, <1>9

LEMMA CallsAllowed ==
    {c \in SystemCalls : Filtered(c) = "allow"}
      = {c \in SystemCalls : c.arch = 62 /\ c.nr < X32 /\ c.nr \notin ToSet(Sockets)}
<1>1. ToSet(Sockets) = {41, 248, 249, 250, 425}
  BY DEF Sockets, ToSet
<1>2. ASSUME NEW c \in SystemCalls
      PROVE  Filtered(c) = "allow" <=> c.arch = 62 /\ c.nr < X32 /\ c.nr \notin ToSet(Sockets)
  <2>1. c.nr \in Nat /\ X32 \in Nat
    BY DEF SystemCalls, X32
  <2>2. ~(c.nr >= X32) <=> c.nr < X32
    BY <2>1
  <2>3. Filtered(c) = "allow" <=> c.arch = 62 /\ ~(c.nr >= X32) /\ c.nr \notin {41, 248, 249, 250, 425}
    BY <2>1, FilteredIs
  <2> QED BY <1>1, <2>2, <2>3
<1> QED BY <1>2

LEMMA WritableIs ==
    /\ Writable(Mounts(TRUE)) = {"project"}
    /\ Writable(Mounts(FALSE)) = {"project", "protected"}
BY DEF Writable, Mounts

-----------------------------------------------------------------------------
(* The inductive invariant of the process tools. *)

ProcessFields == {"at", "inv", "policy", "line", "why", "cleaned", "result"}
TreeFields == {"alive", "born", "holders", "reaped", "code", "forced", "touched"}
Pipe == [written : Nat, read : Nat, closed : BOOLEAN, unsafe : BOOLEAN]
StopReasons == {CancelledResult, Failed("timed_out"), Failed("output_limit"), Failed("process_io")}
Before == {"idle", "prepare", "spawn"}
During == {"loop", "term", "grace", "wait"}

ProcessShape ==
    /\ DOMAIN process = ProcessFields /\ process.at \in Before \cup During \cup {"done"}
    /\ process.result \in Results /\ process.cleaned \in BOOLEAN
    /\ stop \in [cancelled : BOOLEAN, expired : BOOLEAN]
PipesShape ==
    /\ streams \in [Streams -> Pipe] /\ \A s \in Streams : streams[s].read <= streams[s].written
    /\ Written <= MaxWritten /\ TotalRead <= MaxOutput
TreeShape ==
    /\ DOMAIN tree = TreeFields /\ tree.reaped \in BOOLEAN
    /\ tree.alive \subseteq tree.born /\ tree.holders \subseteq tree.alive /\ tree.born \subseteq Procs
    /\ tree.code \in {"none", "zero", "other", "signal"} /\ tree.forced \in {"no", "sent", "lost"}

(* Until the child is started: the call passed the preflight, and the line    *)
(* keeps what it was given from being taken for an option.                    *)
LineSound ==
    /\ process.at \in {"prepare", "spawn"} => RequestSound /\ process.policy \in {"Restricted", "Disabled"}
    /\ process.at = "spawn" => LineKept(process.line, process.inv.tool = "npm_diagnostic")

(* The child has the pipes while it lives, and a closed pipe is read out; a   *)
(* sandbox ends with its child; and a KILL that was sent left neither child   *)
(* nor helper.                                                                *)
TreeSound ==
    /\ "child" \in tree.alive => "child" \in tree.holders
    /\ tree.reaped => "child" \notin tree.alive
    /\ process.policy = "Restricted" /\ "child" \notin tree.alive => tree.alive = {}
    /\ tree.forced = "sent" => "child" \notin tree.alive /\ "helper" \notin tree.alive
    /\ process.at \in Before =>
         /\ tree.born = {} /\ tree.touched = {} /\ ~tree.reaped /\ tree.forced = "no"
         /\ \A s \in Streams : ~streams[s].closed
    /\ process.at \in During => tree.born # {}
    /\ \A s \in Streams : streams[s].closed => tree.holders = {} /\ streams[s].written = streams[s].read
StopSound ==
    /\ process.at \in {"term", "grace", "wait"} => process.why \in StopReasons
    /\ process.at = "wait" /\ process.cleaned => tree.forced \in {"sent", "lost"}
SandboxSound ==
    process.policy = "Restricted" /\ tree.born # {} =>
      /\ sandbox.writable = IF sandbox.guarded THEN {"project"} ELSE {"project", "protected"}
      /\ sandbox.calls = {c \in SystemCalls : c.arch = 62 /\ c.nr < X32 /\ c.nr \notin ToSet(Sockets)}
      /\ tree.touched \subseteq sandbox.writable

ProcessInv ==
    /\ ProcessShape /\ PipesShape /\ TreeShape /\ LineSound /\ TreeSound /\ StopSound /\ SandboxSound
    /\ EndIsReal

LEMMA ProcessInvImplies == ProcessInv => ProcessTypeOK /\ ProcessHonest
<1> SUFFICES ASSUME ProcessInv PROVE ProcessTypeOK /\ ProcessHonest
  OBVIOUS
<1>1. ProcessTypeOK
  BY DEF ProcessInv, ProcessShape, PipesShape, TreeShape, ProcessTypeOK, Before, During
<1>2. LineIsFixed
  BY DEF ProcessInv, LineSound, LineKept, LineIsFixed
<1>3. SandboxHolds
  BY DEF ProcessInv, SandboxSound, SandboxHolds
<1> QED BY <1>1, <1>2, <1>3 DEF ProcessInv, ProcessHonest

LEMMA ProcessInvInit == ASSUME ProcessInit PROVE ProcessInv
<1> USE DEF ProcessInit, NoRequest
<1>1. ProcessShape
  BY PlainResults DEF ProcessShape, ProcessFields, Before
<1>2. PipesShape
  <2>1. MaxOutput \in Nat /\ MaxWritten \in Nat
    BY ProcessAssumption DEF ProcessAssumption
  <2>2. streams = [s \in Streams |-> [written |-> 0, read |-> 0, closed |-> FALSE, unsafe |-> FALSE]]
    OBVIOUS
  <2> HIDE DEF ProcessInit
  <2> QED BY <2>1, <2>2 DEF PipesShape, Pipe, Written, TotalRead, Streams
<1>3. TreeShape /\ TreeSound
  BY DEF TreeShape, TreeFields, TreeSound, During, Before
<1> QED BY <1>1, <1>2, <1>3 DEF ProcessInv, LineSound, StopSound, SandboxSound, EndIsReal

(* A step of the call alone: the processes, the pipes and the sandbox stay.   *)
LEMMA ProcessMoves ==
    ASSUME ProcessInv, UNCHANGED <<sandbox, tree, streams, stop>>,
           ProcessShape', LineSound', StopSound', EndIsReal',
           process'.policy = process.policy \/ tree.born = {},
           process'.at \in Before => process.at \in Before,
           process'.at \in During => process.at \in During
    PROVE  ProcessInv'
<1> USE DEF ProcessInv
<1>1. PipesShape' /\ TreeShape'
  BY DEF PipesShape, TreeShape, Written, TotalRead
<1>2. TreeSound'
  BY DEF TreeSound, TreeShape
<1>3. SandboxSound'
  BY DEF SandboxSound
<1> QED BY <1>1, <1>2, <1>3

(* What the tool that is called has prepared. *)
LEMMA PreparedSound ==
    ASSUME RequestSound
    PROVE  /\ Prepared[1] \in Results
           /\ Prepared[1] = Passed => LineKept(Prepared[2], process.inv.tool = "npm_diagnostic")
<1> DEFINE named == process.inv.tool = "npm_diagnostic"
<1>1. HasArg("path") => ProcessArg("path").to \in PathKinds
  BY DEF RequestSound, ProcessCall, HasArg, ProcessArg
<1>2. CASE process.inv.tool \in {"git_status", "git_diff"}
  <2>1. Prepared = <<GitCheck, GitLine>>
    BY <1>2 DEF Prepared
  <2>2. GitCheck = Passed => \A x : LineKept(GitLine, x)
    BY <1>1, GitCheckPassed, GitLineKept
  <2> QED BY <2>1, <2>2, GitCheckPassed
<1>3. CASE process.inv.tool = "npm_diagnostic"
  <2>1. Prepared = <<NpmCheck, NpmLine>>
    BY <1>3 DEF Prepared
  <2>2. ProcessArg("script") \in ScriptKinds
    <3>1. "script" \in DOMAIN process.inv.args
      BY <1>3 DEF RequestSound, Fits, Schemas, Schema
    <3> QED BY <3>1 DEF RequestSound, ProcessCall, ProcessArg
  <2>3. NpmCheck = Passed => LineKept(NpmLine, TRUE)
    BY <2>2, NpmCheckPassed, NpmLineKept
  <2> QED BY <1>3, <2>1, <2>3, NpmCheckPassed
<1>4. CASE process.inv.tool = "run_diagnostic"
  <2>1. Prepared = <<DiagnosticCheck, IF DiagnosticCheck = Passed THEN DiagnosticLine ELSE <<>> >>
    BY <1>4 DEF Prepared
  <2>2. DiagnosticCheck \in Results
    BY NodeCheckPassed, SearchCheckPassed, OtherCheckPassed
  <2>3. DiagnosticCheck = Passed => \A x : LineKept(DiagnosticLine, x)
    <3> SUFFICES ASSUME DiagnosticCheck = Passed, NEW x PROVE LineKept(DiagnosticLine, x)
      OBVIOUS
    <3>1. HasArg("path") => ProcessArg("path").to \in PathKinds \ {"option", "outside"}
      <4>1. CASE ProcessArg("action") \in {"node_check", "rg_search"}
        BY <1>1, <4>1, NodeCheckPassed, SearchCheckPassed, PathGivenPassed
      <4>2. CASE ProcessArg("action") \notin {"node_check", "rg_search"}
        BY <4>2, Distinct DEF DiagnosticCheck
      <4> QED BY <4>1, <4>2
    <3>2. ProcessArg("action") = "rg_search" => ProcessArg("pattern") \in PatternKinds \ {"option"}
      BY SearchCheckPassed DEF RequestSound, ProcessCall, HasArg, ProcessArg
    <3> QED BY <3>1, <3>2, DiagnosticLineKept
  <2> QED BY <2>1, <2>2, <2>3
<1>5. process.inv.tool \in ProcessTools
  BY DEF RequestSound, ProcessCall
<1> QED BY <1>2, <1>3, <1>4, <1>5 DEF ProcessTools

(* A call that ends before anything was started. *)
LEMMA ProcessEndsEarly ==
    ASSUME ProcessInv, UNCHANGED <<sandbox, tree, streams, stop>>, tree.born = {},
           DOMAIN process' = ProcessFields, process'.cleaned = process.cleaned,
           process'.at = "done", process'.result \in Results \ {Passed}
    PROVE  ProcessInv'
<1>1. ProcessShape'
  BY DEF ProcessInv, ProcessShape
<1>2. LineSound' /\ StopSound'
  BY DEF LineSound, StopSound
<1>3. EndIsReal'
  BY DEF EndIsReal, Results
<1> QED BY <1>1, <1>2, <1>3, ProcessMoves DEF Before, During

LEMMA ProcessRequestInv ==
    ASSUME ProcessInv, NEW inv \in ProcessCalls, NEW policy \in {"Restricted", "Disabled"}, Request(inv, policy)
    PROVE  ProcessInv'
<1> DEFINE checked == Preflight(inv, "Confirm", "Restricted", stop.cancelled)
<1>1. /\ process.at = "idle" /\ UNCHANGED <<sandbox, tree, streams, stop>>
      /\ process' = [process EXCEPT !.inv = inv, !.policy = policy, !.result = checked,
                                    !.at = IF checked = Passed THEN "prepare" ELSE "done"]
  BY DEF Request
<1>2. checked \in Results
  BY PreflightResult
<1>3. ProcessCall(inv)
  BY CallsAssumption DEF CallsAssumption
<1>4. checked = Passed => Fits(inv)
  BY PreflightPassed
<1> HIDE DEF checked
<1>5. /\ process'.at = IF checked = Passed THEN "prepare" ELSE "done"
      /\ process'.inv = inv /\ process'.policy = policy /\ process'.result = checked
      /\ process'.cleaned = process.cleaned /\ DOMAIN process' = ProcessFields
  BY <1>1 DEF ProcessInv, ProcessShape, ProcessFields
<1>6. tree.born = {}
  BY <1>1 DEF ProcessInv, TreeSound, Before
<1>7. CASE checked = Passed
  <2>1. ProcessShape'
    BY <1>1, <1>2, <1>5, <1>7 DEF ProcessInv, ProcessShape, Before
  <2>2. LineSound'
    BY <1>3, <1>4, <1>5, <1>7 DEF LineSound, RequestSound
  <2> QED BY <1>1, <1>5, <1>6, <1>7, <2>1, <2>2, ProcessMoves DEF StopSound, EndIsReal, Before, During
<1>8. CASE checked # Passed
  BY <1>1, <1>2, <1>5, <1>6, <1>8, ProcessEndsEarly
<1> QED BY <1>7, <1>8

LEMMA ProcessPrepareInv == ASSUME ProcessInv, PrepareLine PROVE ProcessInv'
<1>1. process.at = "prepare" /\ UNCHANGED <<sandbox, tree, streams, stop>>
  BY DEF PrepareLine
<1>2. RequestSound /\ tree.born = {} /\ DOMAIN process = ProcessFields
  BY <1>1 DEF ProcessInv, LineSound, TreeSound, Before, ProcessShape
<1> DEFINE check == Prepared[1]
           line == Prepared[2]
<1>3. check \in Results /\ (check = Passed => LineKept(line, process.inv.tool = "npm_diagnostic"))
  BY <1>2, PreparedSound
<1>4. IF check # Passed THEN process' = [process EXCEPT !.at = "done", !.result = check]
      ELSE process' = [process EXCEPT !.at = "spawn", !.line = line]
  BY Zenon DEF PrepareLine, End
<1> HIDE DEF check, line
<1>5. CASE check # Passed
  <2>1. process'.at = "done" /\ process'.result = check /\ process'.cleaned = process.cleaned
        /\ DOMAIN process' = ProcessFields
    BY <1>2, <1>4, <1>5 DEF ProcessFields
  <2> QED BY <1>1, <1>2, <1>3, <1>5, <2>1, ProcessEndsEarly
<1>6. CASE check = Passed
  <2>1. /\ process'.at = "spawn" /\ process'.line = line /\ process'.result = process.result
        /\ process'.cleaned = process.cleaned /\ process'.inv = process.inv /\ process'.policy = process.policy
        /\ DOMAIN process' = ProcessFields
    BY <1>2, <1>4, <1>6 DEF ProcessFields
  <2>2. ProcessShape'
    BY <1>1, <2>1 DEF ProcessInv, ProcessShape, Before
  <2>3. LineSound'
    BY <1>1, <1>2, <1>3, <1>6, <2>1 DEF ProcessInv, LineSound, RequestSound
  <2> QED BY <1>1, <2>1, <2>2, <2>3, ProcessMoves DEF StopSound, EndIsReal, Before, During
<1> QED BY <1>5, <1>6

(* A call of whose child the loop takes care begins to end it. *)
LEMMA ProcessTerminates ==
    ASSUME ProcessInv, UNCHANGED <<sandbox, tree, streams, stop>>, process.at = "loop",
           NEW why \in StopReasons, Terminate(why)
    PROVE  ProcessInv'
<1>1. /\ process'.at = "term" /\ process'.why = why /\ process'.result = process.result
      /\ process'.cleaned = process.cleaned /\ process'.policy = process.policy /\ DOMAIN process' = ProcessFields
  BY DEF Terminate, ProcessInv, ProcessShape, ProcessFields
<1>2. ProcessShape' /\ LineSound' /\ StopSound' /\ EndIsReal'
  BY <1>1 DEF ProcessInv, ProcessShape, LineSound, StopSound, EndIsReal, During
<1> QED BY <1>1, <1>2, ProcessMoves DEF Before, During

LEMMA ProcessInterruptedInv == ASSUME ProcessInv, Interrupted PROVE ProcessInv'
<1> DEFINE why == IF stop.cancelled THEN CancelledResult ELSE Failed("timed_out")
<1>1. process.at = "loop" /\ UNCHANGED <<sandbox, tree, streams, stop>> /\ Terminate(why)
  BY Zenon DEF Interrupted, Loop
<1>2. why \in StopReasons
  BY DEF StopReasons
<1> HIDE DEF why
<1> QED BY <1>1, <1>2, ProcessTerminates

LEMMA ProcessReadFailsInv == ASSUME ProcessInv, ReadFails PROVE ProcessInv'
<1>1. process.at = "loop" /\ UNCHANGED <<sandbox, tree, streams, stop>> /\ Terminate(Failed("process_io"))
  BY Zenon DEF ReadFails, Loop
<1>2. Failed("process_io") \in StopReasons
  BY DEF StopReasons
<1> QED BY <1>1, <1>2, ProcessTerminates

(* The loop has ended: nothing holds a pipe, so the child is gone and every   *)
(* pipe is read out.                                                          *)
LEMMA ProcessCompleteInv == ASSUME ProcessInv, Complete PROVE ProcessInv'
<1> DEFINE result == process'.result
<1>1. process.at = "loop" /\ AllSeen /\ UNCHANGED <<sandbox, tree, streams, stop>>
  BY DEF Complete
<1>2. PICK r \in {Failed("binary_file"), Failed("secret_content"), Passed, Failed("nonzero_exit")} :
        /\ process' = [process EXCEPT !.at = "done", !.result = r]
        /\ r = Passed => tree.code = "zero" /\ ~streams["stdout"].unsafe
  <2> DEFINE last == IF tree.code = "zero" THEN Passed ELSE Failed("nonzero_exit")
  <2>1. \/ End(Failed("binary_file"))
        \/ streams["stdout"].unsafe /\ End(Failed("secret_content"))
        \/ ~streams["stdout"].unsafe /\ End(last)
    BY Zenon DEF Complete
  <2>2. CASE End(Failed("binary_file"))
    BY <2>2, Distinct DEF End
  <2>3. CASE streams["stdout"].unsafe /\ End(Failed("secret_content"))
    BY <2>3, Distinct DEF End
  <2>4. CASE ~streams["stdout"].unsafe /\ End(last)
    BY <2>4, Distinct DEF End
  <2> QED BY <2>1, <2>2, <2>3, <2>4
<1>3. /\ process'.at = "done" /\ process'.result = r /\ process'.cleaned = process.cleaned
      /\ process'.policy = process.policy /\ DOMAIN process' = ProcessFields
  BY <1>2 DEF ProcessInv, ProcessShape, ProcessFields
<1>4. r \in Results
  BY PlainResults DEF Codes
<1>5. ProcessShape' /\ LineSound' /\ StopSound'
  BY <1>1, <1>3, <1>4 DEF ProcessInv, ProcessShape, LineSound, StopSound
<1>6. /\ r.status = "Succeeded" => r = Passed
      /\ r.code \notin {"cancelled", "timed_out", "output_limit", "process_io"}
      /\ r.status # "Rejected"
  BY DEF Passed, Failed, Denied
<1>7. /\ tree.reaped /\ tree.holders = {} /\ "child" \notin tree.alive
      /\ \A s \in Streams : streams[s].read = streams[s].written
      /\ process.policy = "Restricted" => tree.alive = {}
  <2>1. \A s \in Streams : tree.holders = {} /\ streams[s].written = streams[s].read
    BY <1>1 DEF AllSeen, ProcessInv, TreeSound
  <2>2. tree.holders = {}
    BY <2>1 DEF Streams
  <2> QED BY <1>1, <2>1, <2>2 DEF AllSeen, ProcessInv, TreeSound
<1>8. EndIsReal'
  BY <1>1, <1>2, <1>3, <1>6, <1>7 DEF EndIsReal
<1> QED BY <1>1, <1>3, <1>5, <1>8, ProcessMoves DEF Before, During

(* The pipes are used: what has to hold of them afterwards. *)
LEMMA PipesMove ==
    ASSUME ProcessInv, UNCHANGED <<process, sandbox, tree, stop>>, process.at \in During,
           PipesShape', \A s \in Streams : streams'[s].closed => tree.holders = {} /\ streams'[s].written = streams'[s].read
    PROVE  ProcessInv'
<1> USE DEF ProcessInv
<1>1. ProcessShape' /\ TreeShape' /\ LineSound' /\ StopSound' /\ SandboxSound'
  BY DEF ProcessShape, TreeShape, LineSound, StopSound, SandboxSound, RequestSound
<1>2. TreeSound' /\ EndIsReal'
  BY DEF TreeSound, EndIsReal, Before, During
<1> QED BY <1>1, <1>2

LEMMA ProcessReadChunkInv == ASSUME ProcessInv, NEW s \in Streams, ReadChunk(s) PROVE ProcessInv'
<1>1. /\ process.at = "loop" /\ UNCHANGED <<sandbox, tree, stop>> /\ streams[s].written > streams[s].read
      /\ \/ TotalRead + 1 > MaxOutput /\ Terminate(Failed("output_limit")) /\ UNCHANGED streams
         \/ /\ ~(TotalRead + 1 > MaxOutput) /\ UNCHANGED process
            /\ streams' = [streams EXCEPT ![s].read = @ + 1]
  BY Zenon DEF ReadChunk, Loop
<1>2. CASE Terminate(Failed("output_limit")) /\ UNCHANGED streams
  <2>1. Failed("output_limit") \in StopReasons
    BY DEF StopReasons
  <2> QED BY <1>1, <1>2, <2>1, ProcessTerminates
<1>3. CASE ~(TotalRead + 1 > MaxOutput) /\ UNCHANGED process /\ streams' = [streams EXCEPT ![s].read = @ + 1]
  <2>1. streams \in [Streams -> Pipe] /\ MaxOutput \in Nat
    BY ProcessAssumption DEF ProcessAssumption, ProcessInv, PipesShape
  <2>2. /\ streams' \in [Streams -> Pipe]
        /\ \A t \in Streams : /\ streams'[t].written = streams[t].written /\ streams'[t].closed = streams[t].closed
                              /\ streams'[t].read = IF t = s THEN streams[t].read + 1 ELSE streams[t].read
    BY <1>3, <2>1 DEF Pipe
  <2>3. PipesShape'
    <3>1. Written' = Written /\ TotalRead' = TotalRead + 1
      BY <2>1, <2>2 DEF Written, TotalRead, Pipe, Streams
    <3>2. \A t \in Streams : streams'[t].read <= streams'[t].written
      BY <1>1, <2>1, <2>2 DEF ProcessInv, PipesShape, Pipe
    <3>3. TotalRead \in Nat
      BY <2>1 DEF TotalRead, Pipe, Streams
    <3> QED BY <1>3, <2>1, <2>2, <3>1, <3>2, <3>3 DEF ProcessInv, PipesShape
  <2>4. ~streams[s].closed
    BY <1>1, <2>1 DEF ProcessInv, TreeSound, Pipe
  <2>5. \A t \in Streams : streams'[t].closed => tree.holders = {} /\ streams'[t].written = streams'[t].read
    BY <2>2, <2>4 DEF ProcessInv, TreeSound
  <2> QED BY <1>1, <1>3, <2>3, <2>5, PipesMove DEF During
<1> QED BY <1>1, <1>2, <1>3

LEMMA ProcessReadEndInv == ASSUME ProcessInv, NEW s \in Streams, ReadEnd(s) PROVE ProcessInv'
<1>1. /\ process.at = "loop" /\ UNCHANGED <<process, sandbox, tree, stop>> /\ tree.holders = {}
      /\ streams[s].written = streams[s].read /\ streams' = [streams EXCEPT ![s].closed = TRUE]
  BY DEF ReadEnd, Loop
<1>2. streams \in [Streams -> Pipe]
  BY DEF ProcessInv, PipesShape
<1>3. /\ streams' \in [Streams -> Pipe]
      /\ \A t \in Streams : /\ streams'[t].written = streams[t].written /\ streams'[t].read = streams[t].read
                            /\ streams'[t].closed => t = s \/ streams[t].closed
  BY <1>1, <1>2 DEF Pipe
<1>4. PipesShape'
  BY <1>2, <1>3 DEF ProcessInv, PipesShape, Written, TotalRead, Streams
<1>5. \A t \in Streams : streams'[t].closed => tree.holders = {} /\ streams'[t].written = streams'[t].read
  BY <1>1, <1>3 DEF ProcessInv, TreeSound
<1> QED BY <1>1, <1>4, <1>5, PipesMove DEF During

LEMMA ProcessWriteInv ==
    ASSUME ProcessInv, NEW p \in Procs, NEW s \in Streams, NEW unsafe \in BOOLEAN, Write(p, s, unsafe)
    PROVE  ProcessInv'
<1>1. /\ process.at \notin {"idle", "done"} /\ UNCHANGED <<process, sandbox, tree, stop>> /\ tree.holders # {}
      /\ Written < MaxWritten
      /\ streams' = [streams EXCEPT ![s].written = @ + 1, ![s].unsafe = @ \/ unsafe]
  BY DEF Write, Running
<1>2. streams \in [Streams -> Pipe] /\ MaxWritten \in Nat
  BY ProcessAssumption DEF ProcessAssumption, ProcessInv, PipesShape
<1>3. /\ streams' \in [Streams -> Pipe]
      /\ \A t \in Streams : /\ streams'[t].written = IF t = s THEN streams[t].written + 1 ELSE streams[t].written
                            /\ streams'[t].read = streams[t].read
                            /\ streams'[t].closed = streams[t].closed
  <2>1. (streams[s].unsafe \/ unsafe) \in BOOLEAN /\ streams[s].written + 1 \in Nat
    BY <1>2 DEF Pipe
  <2> DEFINE u == streams[s].unsafe \/ unsafe
             w == streams[s].written + 1
  <2>2. streams' = [streams EXCEPT ![s].written = w, ![s].unsafe = u] /\ u \in BOOLEAN /\ w \in Nat
    BY <1>1, <2>1
  <2> HIDE DEF u
  <2> QED BY <1>2, <2>2 DEF Pipe
<1>4. PipesShape'
  <2>1. Written' = Written + 1 /\ TotalRead' = TotalRead /\ Written \in Nat
    BY <1>2, <1>3 DEF Written, TotalRead, Pipe, Streams
  <2>2. \A t \in Streams : streams'[t].read <= streams'[t].written
    BY <1>2, <1>3 DEF ProcessInv, PipesShape, Pipe
  <2> QED BY <1>1, <1>2, <1>3, <2>1, <2>2 DEF ProcessInv, PipesShape
<1>5. \A t \in Streams : streams'[t].closed => tree.holders = {} /\ streams'[t].written = streams'[t].read
  BY <1>1, <1>3 DEF ProcessInv, TreeSound
<1>6. process.at \in During
  BY <1>1 DEF ProcessInv, ProcessShape, TreeShape, TreeSound, Before
<1> QED BY <1>1, <1>4, <1>5, <1>6, PipesMove

(* The tree changes while the call is under way: some of it ends. *)
LEMMA TreeMoves ==
    ASSUME ProcessInv, UNCHANGED <<sandbox, streams, stop>>,
           process.at \in During, process'.at \in During \cup {"done"}, process'.policy = process.policy,
           ProcessShape', StopSound', EndIsReal', DOMAIN tree' = TreeFields,
           tree'.born = tree.born, tree'.touched = tree.touched, tree'.alive \subseteq tree.alive,
           tree'.holders \subseteq tree.holders, tree'.holders \subseteq tree'.alive,
           "child" \in tree'.alive => "child" \in tree'.holders,
           process.policy = "Restricted" /\ "child" \notin tree'.alive => tree'.alive = {},
           tree'.reaped \in BOOLEAN, tree'.reaped => "child" \notin tree'.alive,
           tree'.code \in {"none", "zero", "other", "signal"}, tree'.forced \in {"no", "sent", "lost"},
           tree'.forced = "sent" => "child" \notin tree'.alive /\ "helper" \notin tree'.alive
    PROVE  ProcessInv'
<1> USE DEF ProcessInv
<1>1. PipesShape' /\ TreeShape'
  BY DEF PipesShape, TreeShape, Written, TotalRead
<1>2. LineSound' /\ SandboxSound'
  BY DEF LineSound, SandboxSound, During
<1>3. TreeSound'
  BY DEF TreeSound, During, Before
<1> QED BY <1>1, <1>2, <1>3

(* What ends takes, in a sandbox, everything with it that lives in its child. *)
LEMMA WithoutIs ==
    ASSUME ProcessInv, NEW dead \in SUBSET Procs
    PROVE  /\ DOMAIN Without(dead) = TreeFields
           /\ Without(dead).born = tree.born /\ Without(dead).touched = tree.touched
           /\ Without(dead).reaped = tree.reaped /\ Without(dead).forced = tree.forced
           /\ Without(dead).alive \subseteq tree.alive \ dead
           /\ Without(dead).holders \subseteq tree.holders /\ Without(dead).holders \subseteq Without(dead).alive
           /\ "child" \in Without(dead).alive => "child" \in Without(dead).holders
           /\ process.policy = "Restricted" /\ "child" \notin Without(dead).alive => Without(dead).alive = {}
           /\ Without(dead).code \in {"none", "zero", "other", "signal"}
<1> DEFINE gone == IF process.policy = "Restricted" /\ "child" \in dead THEN Procs ELSE dead
           code == IF "child" \in dead /\ "child" \in tree.alive THEN "signal" ELSE tree.code
           t == Without(dead)
<1>1. /\ tree.alive \subseteq Procs /\ tree.holders \subseteq tree.alive /\ DOMAIN tree = TreeFields
      /\ ("child" \in tree.alive => "child" \in tree.holders)
      /\ (process.policy = "Restricted" /\ "child" \notin tree.alive => tree.alive = {})
      /\ code \in {"none", "zero", "other", "signal"}
  BY DEF ProcessInv, TreeShape, TreeSound
<1>2. dead \subseteq gone /\ (process.policy = "Restricted" /\ "child" \in gone => gone = Procs)
  BY DEF Procs
<1>3. t = [tree EXCEPT !.alive = tree.alive \ gone, !.holders = tree.holders \ gone, !.code = code]
  BY Zenon DEF Without
<1> HIDE DEF gone, code, t
<1>4. /\ DOMAIN t = TreeFields /\ t.alive = tree.alive \ gone /\ t.holders = tree.holders \ gone /\ t.code = code
      /\ t.born = tree.born /\ t.touched = tree.touched /\ t.reaped = tree.reaped /\ t.forced = tree.forced
  BY <1>1, <1>3 DEF TreeFields
<1>5. process.policy = "Restricted" /\ "child" \notin t.alive => t.alive = {}
  BY <1>1, <1>2, <1>4
<1> QED BY <1>1, <1>2, <1>4, <1>5 DEF t

LEMMA ProcessSeeExitInv == ASSUME ProcessInv, SeeExit PROVE ProcessInv'
<1>1. /\ process.at = "loop" /\ "child" \notin tree.alive /\ UNCHANGED <<process, sandbox, streams, stop>>
      /\ tree' = [tree EXCEPT !.reaped = TRUE]
  BY DEF SeeExit, Loop
<1>2. /\ DOMAIN tree' = TreeFields /\ tree'.reaped = TRUE
      /\ tree'.born = tree.born /\ tree'.touched = tree.touched /\ tree'.alive = tree.alive
      /\ tree'.holders = tree.holders /\ tree'.code = tree.code /\ tree'.forced = tree.forced
  BY <1>1 DEF ProcessInv, TreeShape, TreeFields
<1>3. ProcessShape' /\ StopSound' /\ EndIsReal'
  BY <1>1 DEF ProcessInv, ProcessShape, StopSound, EndIsReal
<1>4. /\ tree.holders \subseteq tree.alive /\ tree.code \in {"none", "zero", "other", "signal"}
      /\ tree.forced \in {"no", "sent", "lost"} /\ ("child" \in tree.alive => "child" \in tree.holders)
      /\ (process.policy = "Restricted" /\ "child" \notin tree.alive => tree.alive = {})
      /\ (tree.forced = "sent" => "child" \notin tree.alive /\ "helper" \notin tree.alive)
  BY DEF ProcessInv, TreeShape, TreeSound
<1> QED BY <1>1, <1>2, <1>3, <1>4, TreeMoves DEF During

LEMMA ProcessExitInv ==
    ASSUME ProcessInv, NEW p \in Procs, NEW code \in {"zero", "other"}, Exit(p, code)
    PROVE  ProcessInv'
<1> DEFINE dead == {p}
           c == IF p = "child" THEN code ELSE Without(dead).code
<1>1. /\ process.at \notin {"idle", "done"} /\ UNCHANGED <<process, sandbox, stop, streams>> /\ p \in tree.alive
      /\ tree' = [Without(dead) EXCEPT !.code = c]
  BY Zenon DEF Exit, Running
<1>2. process.at \in During
  BY <1>1 DEF ProcessInv, ProcessShape, TreeShape, TreeSound, Before
<1> DEFINE t == Without(dead)
<1>3. /\ DOMAIN t = TreeFields /\ t.born = tree.born /\ t.touched = tree.touched
      /\ t.reaped = tree.reaped /\ t.forced = tree.forced /\ t.alive \subseteq tree.alive
      /\ t.holders \subseteq tree.holders /\ t.holders \subseteq t.alive
      /\ ("child" \in t.alive => "child" \in t.holders)
      /\ (process.policy = "Restricted" /\ "child" \notin t.alive => t.alive = {})
      /\ c \in {"none", "zero", "other", "signal"}
  BY WithoutIs
<1> HIDE DEF c, t, dead
<1>4. /\ DOMAIN tree' = TreeFields /\ tree'.born = t.born /\ tree'.touched = t.touched /\ tree'.reaped = t.reaped
      /\ tree'.forced = t.forced /\ tree'.alive = t.alive /\ tree'.holders = t.holders /\ tree'.code = c
  BY <1>1, <1>3 DEF TreeFields, t
<1>5. ProcessShape' /\ StopSound' /\ EndIsReal'
  BY <1>1, <1>2, <1>4, <1>3 DEF ProcessInv, ProcessShape, StopSound, EndIsReal, During
<1>6. /\ tree.forced \in {"no", "sent", "lost"} /\ tree.reaped \in BOOLEAN /\ (tree.reaped => "child" \notin tree.alive)
      /\ (tree.forced = "sent" => "child" \notin tree.alive /\ "helper" \notin tree.alive)
  BY DEF ProcessInv, TreeShape, TreeSound
<1>7. /\ (tree'.reaped => "child" \notin tree'.alive) /\ tree'.reaped \in BOOLEAN
      /\ (tree'.forced = "sent" => "child" \notin tree'.alive /\ "helper" \notin tree'.alive)
  BY <1>3, <1>4, <1>6
<1> QED BY <1>1, <1>2, <1>3, <1>4, <1>5, <1>6, <1>7, TreeMoves

LEMMA ProcessSendTermInv == ASSUME ProcessInv, SendTerm PROVE ProcessInv'
<1>1. PICK dead \in SUBSET Group, at \in {"grace", "wait"} :
        /\ process.at = "term" /\ UNCHANGED <<sandbox, streams, stop>> /\ tree' = Without(dead)
        /\ process' = IF at = "grace" THEN [process EXCEPT !.at = "grace"]
                      ELSE [process EXCEPT !.at = "wait", !.cleaned = FALSE]
  BY Zenon DEF SendTerm, Step
<1>2. /\ process'.at = at /\ process'.policy = process.policy /\ process'.why = process.why
      /\ process'.result = process.result /\ process'.cleaned \in BOOLEAN /\ (at = "wait" => ~process'.cleaned)
      /\ DOMAIN process' = ProcessFields
  BY <1>1 DEF ProcessInv, ProcessShape, ProcessFields
<1>3. dead \in SUBSET Procs
  BY DEF Group, ProcessInv, TreeShape
<1> DEFINE t == Without(dead)
<1>4. /\ DOMAIN t = TreeFields /\ t.born = tree.born /\ t.touched = tree.touched
      /\ t.reaped = tree.reaped /\ t.forced = tree.forced /\ t.alive \subseteq tree.alive
      /\ t.holders \subseteq tree.holders /\ t.holders \subseteq t.alive
      /\ ("child" \in t.alive => "child" \in t.holders)
      /\ (process.policy = "Restricted" /\ "child" \notin t.alive => t.alive = {})
      /\ t.code \in {"none", "zero", "other", "signal"}
  BY <1>3, WithoutIs
<1>5. tree' = t
  BY <1>1
<1> HIDE DEF t
<1>6. ProcessShape' /\ StopSound' /\ EndIsReal'
  BY <1>1, <1>2 DEF ProcessInv, ProcessShape, StopSound, EndIsReal, During
<1>7. /\ tree.forced \in {"no", "sent", "lost"} /\ tree.reaped \in BOOLEAN /\ (tree.reaped => "child" \notin tree.alive)
      /\ (tree.forced = "sent" => "child" \notin tree.alive /\ "helper" \notin tree.alive)
  BY DEF ProcessInv, TreeShape, TreeSound
<1>8. /\ (tree'.reaped => "child" \notin tree'.alive) /\ tree'.reaped \in BOOLEAN
      /\ (tree'.forced = "sent" => "child" \notin tree'.alive /\ "helper" \notin tree'.alive)
  BY <1>4, <1>5, <1>7
<1>9. process.at \in During /\ process'.at \in During \cup {"done"}
  BY <1>1, <1>2 DEF During
<1> QED BY <1>1, <1>2, <1>4, <1>5, <1>6, <1>7, <1>8, <1>9, TreeMoves

LEMMA ProcessSendKillInv == ASSUME ProcessInv, SendKill PROVE ProcessInv'
<1>1. /\ process.at = "grace" /\ UNCHANGED <<sandbox, streams, stop>> /\ process' = [process EXCEPT !.at = "wait"]
      /\ \/ tree' = [Without(Group) EXCEPT !.forced = "sent"]
         \/ tree' = [tree EXCEPT !.forced = "lost"]
  BY DEF SendKill, Step
<1>2. /\ process'.at = "wait" /\ process'.policy = process.policy /\ process'.why = process.why
      /\ process'.result = process.result /\ process'.cleaned = process.cleaned /\ DOMAIN process' = ProcessFields
  BY <1>1 DEF ProcessInv, ProcessShape, ProcessFields
<1>3. /\ DOMAIN tree = TreeFields /\ tree.reaped \in BOOLEAN /\ (tree.reaped => "child" \notin tree.alive)
      /\ tree.holders \subseteq tree.alive /\ tree.code \in {"none", "zero", "other", "signal"}
      /\ ("child" \in tree.alive => "child" \in tree.holders)
      /\ (process.policy = "Restricted" /\ "child" \notin tree.alive => tree.alive = {})
  BY DEF ProcessInv, TreeShape, TreeSound
<1>4. ProcessShape' /\ EndIsReal'
  BY <1>1, <1>2 DEF ProcessInv, ProcessShape, EndIsReal, During
<1>5. process.at \in During /\ process'.at \in During \cup {"done"}
  BY <1>1, <1>2 DEF During
<1>6. CASE tree' = [Without(Group) EXCEPT !.forced = "sent"]
  <2> DEFINE dead == Group
             t == Without(dead)
  <2>1. dead \in SUBSET Procs /\ ("child" \in tree.alive => "child" \in dead)
        /\ (process.policy # "Restricted" /\ "helper" \in tree.alive => "helper" \in dead)
    BY DEF Group, Grouped, ProcessInv, TreeShape
  <2>2. /\ DOMAIN t = TreeFields /\ t.born = tree.born /\ t.touched = tree.touched
        /\ t.reaped = tree.reaped /\ t.alive \subseteq tree.alive \ dead
        /\ t.holders \subseteq tree.holders /\ t.holders \subseteq t.alive
        /\ ("child" \in t.alive => "child" \in t.holders)
        /\ (process.policy = "Restricted" /\ "child" \notin t.alive => t.alive = {})
        /\ t.code \in {"none", "zero", "other", "signal"}
    BY <2>1, WithoutIs
  <2>3. tree' = [t EXCEPT !.forced = "sent"]
    BY <1>6
  <2> HIDE DEF t, dead
  <2>4. /\ DOMAIN tree' = TreeFields /\ tree'.born = t.born /\ tree'.touched = t.touched /\ tree'.reaped = t.reaped
        /\ tree'.forced = "sent" /\ tree'.alive = t.alive /\ tree'.holders = t.holders /\ tree'.code = t.code
    BY <2>2, <2>3 DEF TreeFields
  <2>5. "child" \notin tree'.alive /\ "helper" \notin tree'.alive
    BY <2>1, <2>2, <2>4
  <2>6. StopSound'
    BY <1>1, <1>2, <2>4 DEF ProcessInv, StopSound
  <2>7. /\ tree'.reaped \in BOOLEAN /\ tree'.alive \subseteq tree.alive
        /\ tree'.born = tree.born /\ tree'.touched = tree.touched
    BY <1>3, <2>2, <2>4
  <2> QED BY <1>1, <1>2, <1>4, <1>5, <2>2, <2>4, <2>5, <2>6, <2>7, TreeMoves
<1>7. CASE tree' = [tree EXCEPT !.forced = "lost"]
  <2>1. /\ DOMAIN tree' = TreeFields /\ tree'.born = tree.born /\ tree'.touched = tree.touched
        /\ tree'.reaped = tree.reaped /\ tree'.forced = "lost" /\ tree'.alive = tree.alive
        /\ tree'.holders = tree.holders /\ tree'.code = tree.code
    BY <1>3, <1>7 DEF TreeFields
  <2>2. StopSound'
    BY <1>1, <1>2, <2>1 DEF ProcessInv, StopSound
  <2> QED BY <1>1, <1>2, <1>3, <1>4, <1>5, <2>1, <2>2, TreeMoves
<1> QED BY <1>1, <1>6, <1>7

LEMMA ProcessWaitInv == ASSUME ProcessInv, WaitChild PROVE ProcessInv'
<1> DEFINE dead == IF tree.reaped THEN {} ELSE {"child"}
           r == IF process.cleaned THEN process.why ELSE Denied("Indeterminate", "cleanup_unknown")
           t == Without(dead)
<1>1. /\ process.at = "wait" /\ UNCHANGED <<sandbox, streams, stop>>
      /\ tree' = [t EXCEPT !.reaped = TRUE] /\ process' = [process EXCEPT !.at = "done", !.result = r]
  BY Zenon DEF WaitChild, End
<1>2. dead \in SUBSET Procs /\ (~tree.reaped => "child" \in dead)
  BY DEF Procs
<1>3. /\ DOMAIN t = TreeFields /\ t.born = tree.born /\ t.touched = tree.touched
      /\ t.forced = tree.forced /\ t.alive \subseteq tree.alive \ dead
      /\ t.holders \subseteq tree.holders /\ t.holders \subseteq t.alive
      /\ ("child" \in t.alive => "child" \in t.holders)
      /\ (process.policy = "Restricted" /\ "child" \notin t.alive => t.alive = {})
      /\ t.code \in {"none", "zero", "other", "signal"}
  BY <1>2, WithoutIs
<1>4. /\ process.why \in StopReasons /\ (process.cleaned => tree.forced \in {"sent", "lost"})
      /\ tree.forced \in {"no", "sent", "lost"} /\ (tree.reaped => "child" \notin tree.alive)
      /\ (tree.forced = "sent" => "child" \notin tree.alive /\ "helper" \notin tree.alive)
      /\ process.cleaned \in BOOLEAN
  BY <1>1 DEF ProcessInv, StopSound, TreeSound, TreeShape, ProcessShape
<1>5. /\ r \in Results /\ r.status \notin {"Succeeded", "Rejected"}
      /\ r.code \in {"cancelled", "timed_out", "output_limit", "process_io"} => process.cleaned
  <2>1. StopReasons \subseteq Results /\ Denied("Indeterminate", "cleanup_unknown") \in Results
    BY PlainResults DEF StopReasons, Denied, Results, Codes
  <2>2. \A why \in StopReasons : why.status \notin {"Succeeded", "Rejected"}
    BY DEF StopReasons, CancelledResult, Failed, Denied
  <2> HIDE DEF t, dead
  <2> QED BY <1>4, <2>1, <2>2 DEF Denied
<1> HIDE DEF dead, r, t
<1>6. /\ DOMAIN tree' = TreeFields /\ tree'.born = t.born /\ tree'.touched = t.touched /\ tree'.reaped = TRUE
      /\ tree'.forced = t.forced /\ tree'.alive = t.alive /\ tree'.holders = t.holders /\ tree'.code = t.code
  BY <1>1, <1>3 DEF TreeFields
<1>7. /\ process'.at = "done" /\ process'.policy = process.policy /\ process'.result = r
      /\ process'.cleaned = process.cleaned /\ DOMAIN process' = ProcessFields
  BY <1>1 DEF ProcessInv, ProcessShape, ProcessFields
<1>8. "child" \notin tree'.alive /\ tree'.alive \subseteq tree.alive
  BY <1>2, <1>3, <1>4, <1>6
<1>9. ProcessShape' /\ StopSound'
  BY <1>1, <1>5, <1>7 DEF ProcessInv, ProcessShape, StopSound
<1>10. EndIsReal'
  <2>1. process.cleaned => ("helper" \in tree'.alive => tree'.forced = "lost")
    BY <1>3, <1>4, <1>6, <1>8
  <2>2. process'.policy = "Restricted" => tree'.alive = {}
    BY <1>3, <1>6, <1>7, <1>8
  <2> QED BY <1>5, <1>6, <1>7, <1>8, <2>1, <2>2 DEF EndIsReal
<1>11. process.at \in During /\ process'.at \in During \cup {"done"}
  BY <1>1, <1>7 DEF During
<1>12. /\ tree'.born = tree.born /\ tree'.touched = tree.touched /\ tree'.reaped \in BOOLEAN
       /\ tree'.forced \in {"no", "sent", "lost"}
       /\ (tree'.forced = "sent" => "child" \notin tree'.alive /\ "helper" \notin tree'.alive)
  BY <1>3, <1>4, <1>6, <1>8
<1> QED BY <1>1, <1>3, <1>6, <1>7, <1>8, <1>9, <1>10, <1>11, <1>12, TreeMoves

LEMMA ProcessForkInv ==
    ASSUME ProcessInv, NEW p \in Procs, NEW keeps \in BOOLEAN, Fork(p, keeps)
    PROVE  ProcessInv'
<1> DEFINE holders == IF keeps THEN tree.holders \cup {p} ELSE tree.holders
<1>1. /\ process.at \notin {"idle", "done"} /\ UNCHANGED <<process, sandbox, stop, streams>>
      /\ "child" \in tree.alive /\ p \notin tree.born
      /\ tree' = [tree EXCEPT !.alive = tree.alive \cup {p}, !.born = tree.born \cup {p}, !.holders = holders]
  BY Zenon DEF Fork, Running
<1>2. /\ tree.holders \subseteq holders /\ holders \subseteq tree.holders \cup {p}
  OBVIOUS
<1> HIDE DEF holders
<1>3. /\ DOMAIN tree' = TreeFields /\ tree'.born = tree.born \cup {p} /\ tree'.alive = tree.alive \cup {p}
      /\ tree'.holders = holders /\ tree'.reaped = tree.reaped /\ tree'.code = tree.code
      /\ tree'.forced = tree.forced /\ tree'.touched = tree.touched
  BY <1>1 DEF ProcessInv, TreeShape, TreeFields
<1>4. process.at \in During
  BY <1>1 DEF ProcessInv, ProcessShape, TreeShape, TreeSound, Before
<1>5. ProcessShape' /\ PipesShape' /\ LineSound' /\ StopSound'
  BY <1>1, <1>3 DEF ProcessInv, ProcessShape, PipesShape, Written, TotalRead, LineSound, RequestSound, StopSound
<1>6. TreeShape'
  BY <1>2, <1>3 DEF ProcessInv, TreeShape
<1>7. TreeSound'
  BY <1>1, <1>2, <1>3, <1>4 DEF ProcessInv, TreeSound, TreeShape, Before, During
<1>8. SandboxSound' /\ EndIsReal'
  BY <1>1, <1>3, <1>4 DEF ProcessInv, SandboxSound, TreeShape, EndIsReal, During
<1> QED BY <1>5, <1>6, <1>7, <1>8 DEF ProcessInv

LEMMA ProcessTouchInv == ASSUME ProcessInv, NEW place \in Places, Touch(place) PROVE ProcessInv'
<1>1. /\ process.at \notin {"idle", "done"} /\ UNCHANGED <<process, sandbox, stop, streams>> /\ tree.alive # {}
      /\ process.policy = "Restricted"
      /\ IF place = "network" THEN [arch |-> 62, nr |-> 41] \in sandbox.calls ELSE place \in sandbox.writable
      /\ tree' = [tree EXCEPT !.touched = tree.touched \cup {place}]
  BY DEF Touch, Running
<1>2. /\ DOMAIN tree' = TreeFields /\ tree'.born = tree.born /\ tree'.alive = tree.alive
      /\ tree'.holders = tree.holders /\ tree'.reaped = tree.reaped /\ tree'.code = tree.code
      /\ tree'.forced = tree.forced /\ tree'.touched = tree.touched \cup {place}
  BY <1>1 DEF ProcessInv, TreeShape, TreeFields
<1>3. process.at \in During /\ tree.born # {}
  BY <1>1 DEF ProcessInv, ProcessShape, TreeShape, TreeSound, Before
<1>4. place \in sandbox.writable
  <2>1. sandbox.calls = {c \in SystemCalls : c.arch = 62 /\ c.nr < X32 /\ c.nr \notin ToSet(Sockets)}
    BY <1>1, <1>3 DEF ProcessInv, SandboxSound
  <2>2. 41 \in ToSet(Sockets)
    BY DEF Sockets, ToSet
  <2>3. [arch |-> 62, nr |-> 41] \notin sandbox.calls
    BY <2>1, <2>2
  <2> QED BY <1>1, <2>3
<1>5. ProcessShape' /\ PipesShape' /\ LineSound' /\ StopSound'
  BY <1>1, <1>2 DEF ProcessInv, ProcessShape, PipesShape, Written, TotalRead, LineSound, RequestSound, StopSound
<1>6. TreeShape' /\ TreeSound'
  BY <1>1, <1>2, <1>3 DEF ProcessInv, TreeShape, TreeSound, Before, During
<1>7. SandboxSound' /\ EndIsReal'
  BY <1>1, <1>2, <1>3, <1>4 DEF ProcessInv, SandboxSound, EndIsReal, During
<1> QED BY <1>5, <1>6, <1>7 DEF ProcessInv

(* What the launch answers. *)
LEMMA RestrictedResult == \A machine : Restricted(machine) \in Results
<1> TAKE machine
<1> DEFINE c1 == ~machine.bwrap
           c2 == ~machine.home
           c3 == machine.program # "system"
           c4 == ~machine.userns
           c == << <<c1, Failed("sandbox_unavailable")>>, <<c2, Failed("sandbox_denied")>>,
                   <<c3, Failed("sandbox_denied")>>, <<c4, Failed("sandbox_denied")>> >>
<1>1. DOMAIN c = 1..4 /\ \A i \in 1..4 : c[i][2] \in Results
  <2> HIDE DEF c1, c2, c3, c4
  <2> QED BY PlainResults DEF Codes
<1>2. Outcome(c) \in Results
  <2> HIDE DEF c
  <2> QED BY <1>1, OutcomeResult, Zenon
<1> QED BY <1>2, Zenon DEF Restricted

LEMMA LaunchedResult == \A machine : Launched(machine) \in Results
<1> TAKE machine
<1> DEFINE r == Restricted(machine)
           c1 == stop.cancelled
           c2 == process.policy = "Restricted" /\ r # Passed
           c3 == machine.program = "missing"
           c == << <<c1, CancelledResult>>, <<c2, r>>, <<c3, Failed("spawn_failed")>> >>
<1>1. DOMAIN c = 1..3 /\ \A i \in 1..3 : c[i][2] \in Results
  <2>1. r \in Results
    BY RestrictedResult
  <2> HIDE DEF r, c1, c2, c3
  <2> QED BY <2>1, PlainResults DEF Codes
<1>2. Outcome(c) \in Results
  <2> HIDE DEF c
  <2> QED BY <1>1, OutcomeResult, Zenon
<1> QED BY <1>2, Zenon DEF Launched

LEMMA ProcessSpawnInv == ASSUME ProcessInv, NEW machine \in Machines, Spawn(machine) PROVE ProcessInv'
<1> DEFINE launched == Launched(machine)
           guarded == machine.guarded
           box == [guarded |-> guarded, writable |-> Writable(Mounts(guarded)),
                   calls |-> {c \in SystemCalls : Filtered(c) = "allow"}]
<1>1. /\ process.at = "spawn" /\ UNCHANGED <<streams, stop>>
      /\ \/ launched # Passed /\ End(launched) /\ UNCHANGED <<sandbox, tree>>
         \/ End(Failed("spawn_failed")) /\ UNCHANGED <<sandbox, tree>>
         \/ /\ process' = [NoRequest EXCEPT !.at = "loop", !.policy = process.policy]
            /\ tree' = [tree EXCEPT !.alive = {"child"}, !.born = {"child"}, !.holders = {"child"}]
            /\ sandbox' = IF process.policy = "Disabled" THEN sandbox ELSE box
  BY Zenon DEF Spawn
<1>2. /\ DOMAIN process = ProcessFields /\ process.policy \in {"Restricted", "Disabled"}
      /\ tree.born = {} /\ tree.touched = {} /\ ~tree.reaped /\ tree.forced = "no"
      /\ \A s \in Streams : ~streams[s].closed
  BY <1>1 DEF ProcessInv, ProcessShape, LineSound, TreeSound, Before
<1>3. launched \in Results
  BY LaunchedResult
<1>4. ASSUME NEW r \in Results \ {Passed}, End(r), UNCHANGED <<sandbox, tree>> PROVE ProcessInv'
  <2>1. /\ process'.at = "done" /\ process'.result = r /\ process'.cleaned = process.cleaned
        /\ DOMAIN process' = ProcessFields
    BY <1>2, <1>4 DEF End, ProcessFields
  <2> QED BY <1>1, <1>2, <1>4, <2>1, ProcessEndsEarly
<1>5. CASE End(Failed("spawn_failed")) /\ UNCHANGED <<sandbox, tree>>
  <2>1. Failed("spawn_failed") \in Results \ {Passed}
    BY PlainResults, Distinct DEF Codes
  <2> QED BY <1>4, <1>5, <2>1
<1> HIDE DEF launched
<1>6. CASE /\ process' = [NoRequest EXCEPT !.at = "loop", !.policy = process.policy]
           /\ tree' = [tree EXCEPT !.alive = {"child"}, !.born = {"child"}, !.holders = {"child"}]
           /\ sandbox' = IF process.policy = "Disabled" THEN sandbox ELSE box
  <2>1. /\ process'.at = "loop" /\ process'.policy = process.policy /\ process'.cleaned = TRUE
        /\ process'.result = Passed /\ DOMAIN process' = ProcessFields
    BY <1>6 DEF NoRequest, ProcessFields
  <2>2. /\ DOMAIN tree' = TreeFields /\ tree'.born = {"child"} /\ tree'.alive = {"child"}
        /\ tree'.holders = {"child"} /\ tree'.reaped = tree.reaped /\ tree'.code = tree.code
        /\ tree'.forced = tree.forced /\ tree'.touched = tree.touched
    BY <1>6 DEF ProcessInv, TreeShape, TreeFields
  <2>3. ProcessShape' /\ PipesShape' /\ LineSound' /\ StopSound' /\ EndIsReal'
    BY <1>1, <2>1, PlainResults
    DEF ProcessInv, ProcessShape, PipesShape, Written, TotalRead, LineSound, StopSound, EndIsReal, During
  <2>4. TreeShape' /\ TreeSound'
    BY <1>1, <1>2, <2>1, <2>2 DEF ProcessInv, TreeShape, TreeSound, Procs, Before
  <2>5. SandboxSound'
    <3> SUFFICES ASSUME process.policy = "Restricted" PROVE SandboxSound'
      BY <2>1 DEF SandboxSound
    <3>1. sandbox' = box
      BY <1>6
    <3>2. guarded \in BOOLEAN
      BY DEF Machines
    <3>3. box.writable = IF guarded THEN {"project"} ELSE {"project", "protected"}
      <4> HIDE DEF guarded
      <4> QED BY <3>2, WritableIs
    <3>4. box.calls = {c \in SystemCalls : c.arch = 62 /\ c.nr < X32 /\ c.nr \notin ToSet(Sockets)}
          /\ box.guarded = guarded
      BY CallsAllowed
    <3> HIDE DEF box, guarded
    <3> QED BY <1>2, <2>2, <3>1, <3>3, <3>4 DEF SandboxSound
  <2> QED BY <2>3, <2>4, <2>5 DEF ProcessInv
<1> HIDE DEF box
<1> QED BY <1>1, <1>3, <1>4, <1>5, <1>6

(* The user and the timer ask the call to stop. *)
LEMMA ProcessStopInv ==
    ASSUME ProcessInv, CancelProcess \/ TimeUp
    PROVE  ProcessInv'
<1>1. UNCHANGED <<process, sandbox, tree, streams>> /\ stop' \in [cancelled : BOOLEAN, expired : BOOLEAN]
  BY DEF CancelProcess, TimeUp, ProcessInv, ProcessShape
<1>2. ProcessShape' /\ PipesShape' /\ TreeShape' /\ LineSound'
  BY <1>1 DEF ProcessInv, ProcessShape, PipesShape, Written, TotalRead, TreeShape, LineSound, RequestSound
<1>3. TreeSound' /\ StopSound' /\ SandboxSound' /\ EndIsReal'
  BY <1>1 DEF ProcessInv, TreeSound, StopSound, SandboxSound, EndIsReal
<1> QED BY <1>2, <1>3 DEF ProcessInv

LEMMA ProcessInvStep ==
    ASSUME ProcessInv, ProcessNext(ProcessCalls) \/ UNCHANGED processVars
    PROVE  ProcessInv'
<1>1. ASSUME NEW inv \in ProcessCalls, NEW policy \in {"Restricted", "Disabled"}, Request(inv, policy)
      PROVE  ProcessInv'
  BY <1>1, ProcessRequestInv
<1>2. ASSUME NEW s \in Streams, ReadChunk(s) \/ ReadEnd(s) PROVE ProcessInv'
  BY <1>2, ProcessReadChunkInv, ProcessReadEndInv
<1>3. ASSUME NEW p \in Procs, NEW s \in Streams, NEW unsafe \in BOOLEAN, Write(p, s, unsafe /\ s = "stdout")
      PROVE  ProcessInv'
  <2>1. (unsafe /\ s = "stdout") \in BOOLEAN
    OBVIOUS
  <2> QED BY <1>3, <2>1, ProcessWriteInv
<1>4. ASSUME NEW p \in Procs, NEW keeps \in BOOLEAN, Fork(p, keeps) PROVE ProcessInv'
  BY <1>4, ProcessForkInv
<1>5. ASSUME NEW p \in Procs, NEW code \in {"zero", "other"}, Exit(p, code) PROVE ProcessInv'
  BY <1>5, ProcessExitInv
<1>6. ASSUME NEW machine \in Machines, Spawn(machine) PROVE ProcessInv'
  BY <1>6, ProcessSpawnInv
<1>7. ASSUME NEW place \in Places, Touch(place) PROVE ProcessInv'
  BY <1>7, ProcessTouchInv
<1>8. CASE UNCHANGED processVars
  <2>1. ProcessShape' /\ PipesShape' /\ TreeShape' /\ LineSound'
    BY <1>8 DEF processVars, ProcessInv, ProcessShape, PipesShape, Written, TotalRead, TreeShape, LineSound, RequestSound
  <2>2. TreeSound' /\ StopSound' /\ SandboxSound' /\ EndIsReal'
    BY <1>8 DEF processVars, ProcessInv, TreeSound, StopSound, SandboxSound, EndIsReal
  <2> QED BY <2>1, <2>2 DEF ProcessInv
<1> QED BY <1>1, <1>2, <1>3, <1>4, <1>5, <1>6, <1>7, <1>8, ProcessPrepareInv, ProcessInterruptedInv,
           ProcessSeeExitInv, ProcessReadFailsInv, ProcessCompleteInv, ProcessSendTermInv,
           ProcessSendKillInv, ProcessWaitInv, ProcessStopInv, Zenon DEF ProcessNext

LEMMA ProcessInvariance == EdgesSpec => []ProcessInv
<1>1. EdgesInit => ProcessInv
  BY ProcessInvInit DEF EdgesInit
<1>2. ProcessInv /\ [EdgesNext]_allVars => ProcessInv'
  <2> SUFFICES ASSUME ProcessInv, [EdgesNext]_allVars PROVE ProcessInv'
    OBVIOUS
  <2>1. ProcessNext(ProcessCalls) \/ UNCHANGED processVars
    BY Zenon DEF EdgesNext, allVars, AllFileCalls, AllProcessCalls, AllRequests, AllQueries
  <2> QED BY <2>1, ProcessInvStep
<1> QED BY <1>1, <1>2, PTL DEF EdgesSpec

-----------------------------------------------------------------------------
(* The sum over the sessions, whatever the order it is taken in. *)

Chosen(T) == CHOOSE x \in T : TRUE
SumStep(f, g, T) == IF T = {} THEN 0 ELSE f[Chosen(T)] + g[T \ {Chosen(T)}]
AddsUp(f, D, g) == \A T \in SUBSET D : g[T] \in Nat /\ \A x \in T : g[T] = f[x] + g[T \ {x}]
Summed(f, D, g) == g = [T \in SUBSET D |-> SumStep(f, g, T)]

LEMMA Smaller ==
    ASSUME NEW D, IsFiniteSet(D), NEW T \in SUBSET D
    PROVE  /\ Cardinality(T) \in Nat /\ Cardinality(T) <= Cardinality(D) /\ Cardinality(D) \in Nat
           /\ \A x \in T : T \ {x} \in SUBSET D /\ Cardinality(T \ {x}) = Cardinality(T) - 1
           /\ T # {} => Chosen(T) \in T /\ Cardinality(T) > 0
<1>1. IsFiniteSet(T) /\ Cardinality(T) <= Cardinality(D)
  BY FS_Subset
<1>2. Cardinality(T) \in Nat /\ Cardinality(D) \in Nat
  BY <1>1, FS_CardinalityType
<1>3. \A x \in T : Cardinality(T \ {x}) = Cardinality(T) - 1
  BY <1>1, FS_RemoveElement
<1>4. T # {} => Chosen(T) \in T /\ Cardinality(T) > 0
  BY <1>1, <1>2, FS_EmptySet DEF Chosen
<1> QED BY <1>1, <1>2, <1>3, <1>4

(* The subsets of a finite set, by their size. *)
LEMMA SizeInduction ==
    ASSUME NEW D, IsFiniteSet(D), NEW H,
           \A T \in SUBSET D : (\A x \in T : T \ {x} \in H) => T \in H
    PROVE  \A T \in SUBSET D : T \in H
<1> DEFINE K == {k \in Nat : \A T \in SUBSET D : Cardinality(T) <= k => T \in H}
<1>1. 0 \in K
  <2>1. ASSUME NEW T \in SUBSET D, Cardinality(T) <= 0 PROVE T \in H
    <3>1. T = {}
      BY <2>1, Smaller
    <3> QED BY <3>1
  <2> QED BY <2>1
<1>2. ASSUME NEW k \in K PROVE k + 1 \in K
  <2>1. ASSUME NEW T \in SUBSET D, Cardinality(T) <= k + 1 PROVE T \in H
    <3>1. \A x \in T : T \ {x} \in SUBSET D /\ Cardinality(T \ {x}) <= k
      BY <2>1, Smaller
    <3> QED BY <3>1
  <2> QED BY <2>1
<1>3. K = Nat
  <2> HIDE DEF K
  <2>1. K \in SUBSET Nat
    BY DEF K
  <2> QED BY <1>1, <1>2, <2>1, NatSetInduction
<1> QED BY <1>3, Smaller

LEMMA SumExists ==
    ASSUME NEW D, IsFiniteSet(D), NEW f \in [D -> Nat]
    PROVE  \E g : Summed(f, D, g)
<1> DEFINE A == SUBSET D
           n == Cardinality(D) + 1
           r == [T \in A |-> Cardinality(T)]
           G == [T \in A |-> [g \in [A -> Nat] |-> SumStep(f, g, T)]]
<1>1. n \in Nat /\ r \in [A -> Nat] /\ \A T \in A : r[T] < n
  BY Smaller
<1>2. ASSUME NEW T \in A, NEW g \in [A -> Nat]
      PROVE  /\ SumStep(f, g, T) \in Nat
             /\ \A h \in [A -> Nat] : (\A U \in A : r[U] < r[T] => g[U] = h[U]) => SumStep(f, g, T) = SumStep(f, h, T)
  <2>1. CASE T = {}
    BY <2>1 DEF SumStep
  <2>2. CASE T # {}
    <3> DEFINE U == T \ {Chosen(T)}
    <3>1. Chosen(T) \in D /\ U \in A /\ r[U] < r[T]
      BY <2>2, Smaller
    <3> HIDE DEF r, U
    <3>2. \A h \in [A -> Nat] : (\A V \in A : r[V] < r[T] => g[V] = h[V]) => g[U] = h[U]
      BY <3>1
    <3>3. \A h : SumStep(f, h, T) = f[Chosen(T)] + h[U]
      BY <2>2 DEF SumStep, U
    <3>4. SumStep(f, g, T) \in Nat
      BY <3>1, <3>3
    <3> QED BY <3>2, <3>3, <3>4
  <2> QED BY <2>1, <2>2
<1>3. Ranked(A, r, n)
  BY <1>1 DEF Ranked
<1>4. G \in Steps(A, Nat)
  BY <1>2 DEF Steps
<1>5. Grounded(A, Nat, r, G)
  <2> HIDE DEF r
  <2> QED BY <1>2 DEF Grounded
<1>6. Solved(A, Nat, G)
  <2>1. Nat # {}
    OBVIOUS
  <2> HIDE DEF n, A, r, G
  <2> QED BY <1>3, <1>4, <1>5, <2>1, Recursion
<1> QED BY <1>6 DEF Solved, Summed

LEMMA SumIs ==
    ASSUME NEW D, IsFiniteSet(D), NEW f \in [D -> Nat]
    PROVE  \E g : Summed(f, D, g) /\ SumFunction(f) = g[D]
<1> DEFINE g == CHOOSE g : g = [T \in SUBSET D |-> SumStep(f, g, T)]
<1>1. Summed(f, D, g)
  BY SumExists DEF Summed
<1>2. SumFunction(f) = g[D]
  <2>1. DOMAIN f = D
    OBVIOUS
  <2> QED BY <2>1 DEF SumFunction, SumFunctionOnSet, FoldFunctionOnSet, MapThenFoldSet, SumStep, Chosen
<1> QED BY <1>1, <1>2

LEMMA SumTyped ==
    ASSUME NEW D, IsFiniteSet(D), NEW f \in [D -> Nat], NEW g, Summed(f, D, g)
    PROVE  AddsUp(f, D, g)
<1> DEFINE Good(T) == g[T] \in Nat /\ \A x \in T : g[T] = f[x] + g[T \ {x}] /\ g[T \ {x}] \in Nat
           H == {T \in SUBSET D : Good(T)}
<1>1. ASSUME NEW T \in SUBSET D, \A x \in T : T \ {x} \in H PROVE Good(T)
  <2>1. g[T] = SumStep(f, g, T)
    BY DEF Summed
  <2>2. CASE T = {}
    BY <2>1, <2>2 DEF SumStep
  <2>3. CASE T # {}
    <3> DEFINE c == Chosen(T)
    <3>1. c \in T /\ f[c] \in Nat /\ g[T] = f[c] + g[T \ {c}]
      BY <2>1, <2>3, Smaller DEF SumStep
    <3> HIDE DEF c
    <3>2. ASSUME NEW x \in T PROVE g[T] = f[x] + g[T \ {x}] /\ g[T] \in Nat /\ g[T \ {x}] \in Nat
      <4>1. Good(T \ {x}) /\ Good(T \ {c}) /\ f[x] \in Nat /\ T \ {x} \in SUBSET D /\ T \ {c} \in SUBSET D
        BY <1>1, <3>1
      <4>2. CASE x # c
        <5> DEFINE w == (T \ {x}) \ {c}
        <5>1. (T \ {c}) \ {x} = w /\ x \in T \ {c} /\ c \in T \ {x}
          BY <3>1, <4>2
        <5> HIDE DEF w
        <5>2. g[T \ {x}] = f[c] + g[w] /\ g[T \ {c}] = f[x] + g[w]
          BY <4>1, <5>1 DEF w
        <5>3. g[w] \in Nat
          BY <4>1, <5>1 DEF w
        <5> QED BY <3>1, <4>1, <5>2, <5>3
      <4>3. CASE x = c
        BY <3>1, <4>1, <4>3
      <4> QED BY <4>2, <4>3
    <3> QED BY <3>1, <3>2
  <2> QED BY <2>2, <2>3
<1>2. \A T \in SUBSET D : T \in H
  <2>1. \A T \in SUBSET D : (\A x \in T : T \ {x} \in H) => T \in H
    BY <1>1
  <2> HIDE DEF H
  <2> QED BY <2>1, SizeInduction, Zenon
<1> QED BY <1>2 DEF AddsUp

(* Sums that differ at one point differ by what it holds. *)
LEMMA SumUpdate ==
    ASSUME NEW D, IsFiniteSet(D), NEW f \in [D -> Nat], NEW h \in [D -> Nat], NEW t \in D,
           \A x \in D : x # t => f[x] = h[x]
    PROVE  /\ SumFunction(f) \in Nat /\ SumFunction(h) \in Nat
           /\ SumFunction(f) + h[t] = SumFunction(h) + f[t]
           /\ SumFunction(f) >= f[t]
<1>1. PICK g : Summed(f, D, g) /\ SumFunction(f) = g[D]
  BY SumIs
<1>2. PICK i : Summed(h, D, i) /\ SumFunction(h) = i[D]
  BY SumIs
<1>3. \A T \in SUBSET D : g[T] \in Nat /\ \A x \in T : g[T] = f[x] + g[T \ {x}]
  <2>1. AddsUp(f, D, g)
    BY <1>1, SumTyped, Zenon
  <2> QED BY <2>1 DEF AddsUp
<1>4. \A T \in SUBSET D : i[T] \in Nat /\ \A x \in T : i[T] = h[x] + i[T \ {x}]
  BY <1>2, SumTyped DEF AddsUp
<1> DEFINE H == {T \in SUBSET D : t \notin T => g[T] = i[T]}
<1>5. ASSUME NEW T \in SUBSET D, \A x \in T : T \ {x} \in H, t \notin T PROVE g[T] = i[T]
  <2>1. CASE T = {}
    BY <1>1, <1>2, <2>1 DEF Summed, SumStep
  <2>2. CASE T # {}
    <3>1. PICK x \in T : x \in D /\ x # t
      BY <1>5, <2>2
    <3>2. g[T] = f[x] + g[T \ {x}] /\ i[T] = h[x] + i[T \ {x}] /\ g[T \ {x}] = i[T \ {x}] /\ f[x] = h[x]
      BY <1>3, <1>4, <1>5, <3>1
    <3> QED BY <3>2
  <2> QED BY <2>1, <2>2
<1>6. \A T \in SUBSET D : T \in H
  <2>1. \A T \in SUBSET D : (\A x \in T : T \ {x} \in H) => T \in H
    BY <1>5
  <2> HIDE DEF H
  <2> QED BY <2>1, SizeInduction, Zenon
<1>7. g[D \ {t}] = i[D \ {t}] /\ g[D \ {t}] \in Nat
  BY <1>3, <1>6
<1>8. g[D] = f[t] + g[D \ {t}] /\ i[D] = h[t] + i[D \ {t}] /\ g[D] \in Nat /\ i[D] \in Nat
  BY <1>3, <1>4
<1> QED BY <1>1, <1>2, <1>7, <1>8

LEMMA SumZero ==
    ASSUME NEW D, IsFiniteSet(D), NEW f \in [D -> Nat], \A x \in D : f[x] = 0
    PROVE  SumFunction(f) = 0
<1>1. PICK g : Summed(f, D, g) /\ SumFunction(f) = g[D]
  BY SumIs
<1>2. \A T \in SUBSET D : g[T] \in Nat /\ \A x \in T : g[T] = f[x] + g[T \ {x}]
  BY <1>1, SumTyped DEF AddsUp
<1> DEFINE H == {T \in SUBSET D : g[T] = 0}
<1>3. ASSUME NEW T \in SUBSET D, \A x \in T : T \ {x} \in H PROVE g[T] = 0
  <2>1. CASE T = {}
    BY <1>1, <2>1 DEF Summed, SumStep
  <2>2. CASE T # {}
    <3>1. PICK x \in T : x \in D
      BY <2>2
    <3>2. g[T] = f[x] + g[T \ {x}] /\ g[T \ {x}] = 0 /\ f[x] = 0
      BY <1>2, <1>3, <3>1
    <3> QED BY <3>2
  <2> QED BY <2>1, <2>2
<1>4. \A T \in SUBSET D : T \in H
  <2>1. \A T \in SUBSET D : (\A x \in T : T \ {x} \in H) => T \in H
    BY <1>3
  <2> HIDE DEF H
  <2> QED BY <2>1, SizeInduction, Zenon
<1> QED BY <1>1, <1>4

-----------------------------------------------------------------------------
(* The inductive invariant of the output of shell sessions. *)

Byte == [char : Nat \ {0}, lead : BOOLEAN]
Oldest(x) == x[1].char
Newest(x) == x[Len(x)].char

(* Whole characters without a gap. *)
Gapless(x) ==
    /\ x \in Seq(Byte) /\ (x # <<>> => x[1].lead)
    /\ \A i \in 2..Len(x) : x[i].char = x[i - 1].char + (IF x[i].lead THEN 1 ELSE 0)

LEMMA LeastOfTwo == \A m, n \in Nat : Min({m, n}) = IF m <= n THEN m ELSE n
<1> TAKE m, n \in Nat
<1> DEFINE F == {m, n}
<1>1. Min(F) \in F /\ \A j \in F : Min(F) <= j
  <2>1. F \in SUBSET Nat /\ F # {}
    OBVIOUS
  <2> HIDE DEF F
  <2> QED BY <2>1, LeastNumber
<1>2. Min(F) \in {m, n} /\ Min(F) <= m /\ Min(F) <= n
  BY <1>1
<1> DEFINE k == Min(F)
<1> HIDE DEF k
<1>3. k \in {m, n} /\ k <= m /\ k <= n
  BY <1>2 DEF k
<1>4. k = IF m <= n THEN m ELSE n
  BY <1>3
<1> QED BY <1>4 DEF k

LEMMA GreatestNumber ==
    ASSUME NEW F \in SUBSET Nat, F # {}, NEW n \in Nat, \A j \in F : j <= n
    PROVE  Max(F) \in F /\ \A j \in F : j <= Max(F)
<1> DEFINE G == {n - j : j \in F}
<1>1. G \in SUBSET Nat /\ G # {}
  <2>1. \A j \in F : n - j \in Nat
    OBVIOUS
  <2> QED BY <2>1
<1>2. Min(G) \in G /\ \A j \in G : Min(G) <= j
  <2> HIDE DEF G
  <2> QED BY <1>1, LeastNumber
<1>3. PICK x \in F : Min(G) = n - x
  BY <1>2
<1>4. ASSUME NEW y \in F PROVE x >= y
  <2>1. n - y \in G /\ x \in Nat /\ y \in Nat /\ n - x <= n - y
    BY <1>2, <1>3
  <2> QED BY <2>1
<1> DEFINE m == CHOOSE z \in F : \A y \in F : z >= y
<1>5. m \in F /\ \A y \in F : m >= y
  BY <1>4
<1>6. Max(F) = m
  BY DEF Max
<1> HIDE DEF m
<1>7. \A y \in F : y <= m
  BY <1>5
<1> QED BY <1>5, <1>6, <1>7

(* The bytes of a buffer, and what is left of them. *)
LEMMA GaplessBytes ==
    ASSUME NEW x, Gapless(x)
    PROVE  /\ x \in Seq(Byte) /\ Len(x) \in Nat /\ (x = <<>> <=> Len(x) = 0)
           /\ \A i \in 1..Len(x) : x[i].char \in Nat \ {0} /\ x[i].lead \in BOOLEAN
           /\ x # <<>> => Oldest(x) \in Nat \ {0} /\ Newest(x) \in Nat \ {0}
           /\ 0 \in Boundaries(x) /\ Len(x) \in Boundaries(x)
           /\ Boundaries(x) \in SUBSET (0..Len(x))
<1>1. x \in Seq(Byte) /\ Len(x) \in Nat /\ (x = <<>> <=> Len(x) = 0) /\ \A i \in 1..Len(x) : x[i] \in Byte
  BY EmptySeq, LenProperties DEF Gapless
<1>2. \A i \in 1..Len(x) : x[i].char \in Nat \ {0} /\ x[i].lead \in BOOLEAN
  BY <1>1 DEF Byte
<1>3. x # <<>> => Oldest(x) \in Nat \ {0} /\ Newest(x) \in Nat \ {0}
  BY <1>1, <1>2 DEF Oldest, Newest
<1>4. 0 \in Boundaries(x) /\ Len(x) \in Boundaries(x) /\ Boundaries(x) \in SUBSET (0..Len(x))
  <2>1. 0 < Len(x) => x[0 + 1].lead
    BY <1>1 DEF Gapless
  <2> QED BY <1>1, <2>1 DEF Boundaries
<1> QED BY <1>1, <1>2, <1>3, <1>4

LEMMA GaplessFrom ==
    ASSUME NEW x, Gapless(x), NEW i \in Boundaries(x)
    PROVE  /\ Gapless(From(x, i)) /\ Len(From(x, i)) = Len(x) - i /\ i \in 0..Len(x)
           /\ From(x, i) # <<>> <=> i < Len(x)
           /\ i < Len(x) => Newest(From(x, i)) = Newest(x) /\ Oldest(From(x, i)) = x[i + 1].char
           /\ i = 0 => From(x, i) = x
<1> DEFINE n == Len(x)
           y == From(x, i)
<1>1. x \in Seq(Byte) /\ n \in Nat /\ i \in 0..n /\ (i < n => x[i + 1].lead) /\ \A j \in 1..n : x[j] \in Byte
  BY GaplessBytes, LenProperties DEF Boundaries
<1>2. /\ y \in Seq(Byte) /\ Len(y) = (IF i + 1 <= n THEN n - (i + 1) + 1 ELSE 0)
      /\ \A j \in 1..(n - (i + 1) + 1) : y[j] = x[(i + 1) + j - 1]
  <2>1. \A j \in (i + 1)..n : x[j] \in Byte
    BY <1>1
  <2>2. i + 1 \in Int /\ n \in Int
    BY <1>1
  <2> QED BY <2>1, <2>2, SubSeqProperties DEF From
<1> HIDE DEF y
<1>3. Len(y) = n - i /\ \A j \in 1..(n - i) : y[j] = x[i + j]
  <2>1. /\ n - (i + 1) + 1 = n - i /\ (IF i + 1 <= n THEN n - (i + 1) + 1 ELSE 0) = n - i
        /\ \A j \in 1..(n - i) : (i + 1) + j - 1 = i + j
    <3> HIDE DEF n
    <3> QED BY <1>1
  <2> HIDE DEF n
  <2> QED BY <1>2, <2>1
<1>4. y = <<>> <=> Len(y) = 0
  BY <1>2, EmptySeq
<1>5. y # <<>> => y[1].lead
  BY <1>1, <1>3, <1>4
<1>6. ASSUME NEW j \in 2..Len(y) PROVE y[j].char = y[j - 1].char + (IF y[j].lead THEN 1 ELSE 0)
  <2>1. /\ j \in 1..(n - i) /\ j - 1 \in 1..(n - i) /\ i + j \in 2..n /\ i + (j - 1) = (i + j) - 1
    BY <1>1, <1>3
  <2>2. y[j] = x[i + j] /\ y[j - 1] = x[(i + j) - 1]
    BY <1>3, <2>1
  <2>3. x[i + j].char = x[(i + j) - 1].char + (IF x[i + j].lead THEN 1 ELSE 0)
    BY <2>1 DEF Gapless
  <2> QED BY <2>2, <2>3
<1>7. Gapless(y)
  BY <1>2, <1>5, <1>6 DEF Gapless
<1>8. i < n => Newest(y) = Newest(x) /\ Oldest(y) = x[i + 1].char
  <2> SUFFICES ASSUME i < n PROVE Newest(y) = Newest(x) /\ Oldest(y) = x[i + 1].char
    OBVIOUS
  <2>1. 1 \in 1..(n - i) /\ n - i \in 1..(n - i) /\ i + (n - i) = n
    BY <1>1
  <2> QED BY <1>3, <2>1 DEF Newest, Oldest
<1>9. i = 0 => y = x
  <2> SUFFICES ASSUME i = 0 PROVE y = x
    OBVIOUS
  <2>1. Len(y) = Len(x) /\ \A j \in 1..Len(y) : y[j] = x[j]
    BY <1>1, <1>3
  <2> QED BY <1>1, <1>2, <2>1, SeqEqual
<1>10. y # <<>> <=> i < n
  BY <1>1, <1>3, <1>4
<1> QED BY <1>1, <1>3, <1>7, <1>8, <1>9, <1>10 DEF y

LEMMA GaplessJoined ==
    ASSUME NEW x, Gapless(x), NEW y, Gapless(y), y # <<>>, x # <<>> => Oldest(y) = Newest(x) + 1
    PROVE  /\ Gapless(Cat(x, y)) /\ Len(Cat(x, y)) = Len(x) + Len(y)
           /\ Newest(Cat(x, y)) = Newest(y) /\ Cat(x, y) # <<>>
           /\ Oldest(Cat(x, y)) = IF x # <<>> THEN Oldest(x) ELSE Oldest(y)
<1> DEFINE m == Len(x)
           n == Len(y)
           z == Cat(x, y)
<1>1. /\ x \in Seq(Byte) /\ y \in Seq(Byte) /\ m \in Nat /\ n \in Nat \ {0} /\ (x = <<>> <=> m = 0)
      /\ (m > 0 => x[1].lead) /\ y[1].lead
  BY GaplessBytes DEF Gapless
<1>2. /\ z \in Seq(Byte) /\ Len(z) = m + n
      /\ \A i \in 1..(m + n) : z[i] = IF i <= m THEN x[i] ELSE y[i - m]
  BY <1>1, JoinedAny
<1>3. z = <<>> <=> Len(z) = 0
  BY <1>2, EmptySeq
<1>4. /\ \A i \in 2..m : x[i].char = x[i - 1].char + (IF x[i].lead THEN 1 ELSE 0)
      /\ \A i \in 2..n : y[i].char = y[i - 1].char + (IF y[i].lead THEN 1 ELSE 0)
      /\ m > 0 => y[1].char = x[m].char + 1
  BY <1>1 DEF Gapless, Oldest, Newest
<1> HIDE DEF z, m, n
<1>5. ASSUME NEW i \in 2..(m + n) PROVE z[i].char = z[i - 1].char + (IF z[i].lead THEN 1 ELSE 0)
  <2>0. i \in 1..(m + n) /\ i - 1 \in 1..(m + n)
    BY <1>1
  <2>1. CASE i <= m
    <3>1. i \in 2..m /\ i - 1 <= m
      BY <1>1, <2>1
    <3> QED BY <1>2, <1>4, <2>0, <2>1, <3>1
  <2>2. CASE i = m + 1
    <3>1. z[i] = y[1] /\ z[i - 1] = x[m] /\ m > 0
      <4>1. m \in Nat /\ ~(i <= m) /\ i - m = 1 /\ i - 1 <= m /\ i - 1 = m /\ m > 0
        BY <1>1, <2>2
      <4> QED BY <1>2, <2>0, <4>1
    <3> QED BY <1>1, <1>4, <3>1
  <2>3. CASE i > m + 1
    <3>1. i - m \in 2..n /\ (i - 1) - m = (i - m) - 1 /\ ~(i <= m) /\ ~(i - 1 <= m)
      BY <1>1, <2>3
    <3>2. z[i] = y[i - m] /\ z[i - 1] = y[(i - m) - 1]
      BY <1>2, <2>0, <3>1
    <3>3. y[i - m].char = y[(i - m) - 1].char + (IF y[i - m].lead THEN 1 ELSE 0)
      BY <1>4, <3>1
    <3> QED BY <3>2, <3>3
  <2> QED BY <1>1, <2>1, <2>2, <2>3
<1>6. z[1] = (IF m > 0 THEN x[1] ELSE y[1]) /\ z[m + n] = y[n] /\ z # <<>>
  <2>1. 1 \in 1..(m + n) /\ m + n \in 1..(m + n) /\ ~(m + n <= m) /\ (m + n) - m = n /\ m + n # 0
        /\ (1 <= m <=> m > 0) /\ (~(m > 0) => 1 - m = 1)
    BY <1>1
  <2> QED BY <1>2, <1>3, <2>1
<1>7. Gapless(z)
  BY <1>1, <1>2, <1>5, <1>6 DEF Gapless
<1> QED BY <1>1, <1>2, <1>6, <1>7 DEF Newest, Oldest, m, n, z

(* The characters of the first bytes are all those from the oldest on.        *)
LEMMA PrefixChars ==
    ASSUME NEW x, Gapless(x), NEW m \in 1..Len(x)
    PROVE  /\ {x[i].char : i \in 1..m} = Oldest(x)..x[m].char
           /\ Oldest(x) <= x[m].char
<1> DEFINE n == Len(x)
           old == Oldest(x)
           T == {k \in Nat : k + 1 <= n => /\ {x[i].char : i \in 1..(k + 1)} = old..x[k + 1].char
                                           /\ old <= x[k + 1].char}
<1>1. n \in Nat /\ \A i \in 1..n : x[i].char \in Nat /\ x[i].lead \in BOOLEAN
  BY GaplessBytes
<1>2. \A i \in 2..n : x[i].char = x[i - 1].char + (IF x[i].lead THEN 1 ELSE 0)
  BY DEF Gapless
<1> HIDE DEF n
<1>3. 0 \in T
  <2> SUFFICES ASSUME 1 <= n PROVE {x[i].char : i \in 1..1} = old..x[1].char /\ old <= x[1].char
    OBVIOUS
  <2>1. x[1].char = old /\ old \in Nat
    BY <1>1 DEF Oldest
  <2>2. \A i \in 1..1 : i = 1
    OBVIOUS
  <2>3. {x[i].char : i \in 1..1} = {old}
    BY <2>1, <2>2
  <2> HIDE DEF old
  <2>4. old..old = {old}
    BY <2>1
  <2> QED BY <2>1, <2>3, <2>4
<1>4. ASSUME NEW k \in T PROVE k + 1 \in T
  <2> SUFFICES ASSUME (k + 1) + 1 <= n
               PROVE  /\ {x[i].char : i \in 1..((k + 1) + 1)} = old..x[(k + 1) + 1].char
                      /\ old <= x[(k + 1) + 1].char
    OBVIOUS
  <2> DEFINE j == k + 1
  <2>1. j \in 1..n /\ j + 1 \in 2..n /\ (j + 1) - 1 = j /\ j \in Nat
    BY <1>1
  <2>2. {x[i].char : i \in 1..j} = old..x[j].char /\ old <= x[j].char
    BY <1>1
  <2>3. x[j + 1].char = x[j].char + (IF x[j + 1].lead THEN 1 ELSE 0)
    BY <1>2, <2>1
  <2>4. old \in Nat /\ x[j].char \in Nat
    BY <1>1, <2>1 DEF Oldest
  <2> HIDE DEF j, old
  <2>5. {x[i].char : i \in 1..(j + 1)} = {x[i].char : i \in 1..j} \cup {x[j + 1].char}
    <3>1. 1..(j + 1) = (1..j) \cup {j + 1}
      BY <2>1
    <3> QED BY <3>1
  <2> DEFINE c == x[j].char
             d == x[j + 1].char
  <2>6. d \in {c, c + 1} /\ c \in Nat /\ old <= c
    BY <2>2, <2>3, <2>4
  <2> HIDE DEF c, d
  <2>7. (old..c) \cup {d} = old..d /\ old <= d
    BY <2>4, <2>6
  <2> QED BY <2>2, <2>5, <2>7 DEF c, d, j
<1>5. T = Nat
  <2> HIDE DEF T
  <2>1. T \in SUBSET Nat
    BY DEF T
  <2> QED BY <1>3, <1>4, <2>1, NatSetInduction
<1>6. m - 1 \in T /\ (m - 1) + 1 = m /\ m <= n
  <2>1. m - 1 \in Nat /\ (m - 1) + 1 = m /\ m <= n
    BY <1>1 DEF n
  <2> HIDE DEF T
  <2> QED BY <1>5, <2>1
<1> QED BY <1>6

LEMMA GaplessChars ==
    ASSUME NEW x, Gapless(x), x # <<>>
    PROVE  /\ {x[i].char : i \in DOMAIN x} = Oldest(x)..Newest(x)
           /\ Oldest(x) <= Newest(x)
<1>1. Len(x) \in 1..Len(x) /\ DOMAIN x = 1..Len(x)
  BY GaplessBytes
<1> QED BY <1>1, PrefixChars DEF Newest

LEMMA PrefixCount ==
    ASSUME NEW x, Gapless(x), NEW m \in 1..Len(x)
    PROVE  Cardinality({x[i].char : i \in 1..m}) = x[m].char - Oldest(x) + 1
<1>1. {x[i].char : i \in 1..m} = Oldest(x)..x[m].char /\ Oldest(x) <= x[m].char
  BY PrefixChars
<1>2. Oldest(x) \in Int /\ x[m].char \in Int
  BY GaplessBytes DEF Oldest
<1> DEFINE old == Oldest(x)
           c == x[m].char
<1> HIDE DEF old, c
<1>3. Cardinality(old..c) = IF old > c THEN 0 ELSE c - old + 1
  BY <1>2, FS_Interval DEF old, c
<1>4. ~(old > c)
  BY <1>1, <1>2 DEF old, c
<1> QED BY <1>1, <1>3, <1>4 DEF old, c

(* The boundaries the code looks for.                                         *)
LEMMA CeilingIs ==
    ASSUME NEW x, Gapless(x), NEW n \in Nat
    PROVE  /\ Ceiling(x, n) \in Boundaries(x) /\ Ceiling(x, n) >= Min({n, Len(x)})
           /\ n = 0 => Ceiling(x, n) = 0
<1> DEFINE m == Min({n, Len(x)})
           F == {i \in Boundaries(x) : i >= m}
<1>1. Len(x) \in Nat /\ 0 \in Boundaries(x) /\ Len(x) \in Boundaries(x) /\ Boundaries(x) \in SUBSET (0..Len(x))
  BY GaplessBytes
<1>2. m \in Nat /\ m <= Len(x) /\ (n = 0 => m = 0)
  <2>1. m = IF n <= Len(x) THEN n ELSE Len(x)
    BY <1>1, LeastOfTwo
  <2> HIDE DEF m
  <2> QED BY <1>1, <2>1
<1> HIDE DEF m
<1>3. F \in SUBSET Nat /\ F # {}
  BY <1>1, <1>2
<1>4. Min(F) \in F /\ \A j \in F : Min(F) <= j
  <2> HIDE DEF F
  <2> QED BY <1>3, LeastNumber
<1> DEFINE Fits2(i) == i >= m /\ \A j \in Boundaries(x) : j >= m => i <= j
           c == CHOOSE i \in Boundaries(x) : Fits2(i)
<1>5. c \in Boundaries(x) /\ Fits2(c)
  BY <1>4
<1>6. Ceiling(x, n) = c
  BY Zenon DEF Ceiling, m
<1> HIDE DEF c
<1>7. n = 0 => c = 0
  BY <1>1, <1>2, <1>5
<1> QED BY <1>5, <1>6, <1>7 DEF m

LEMMA FloorIs ==
    ASSUME NEW x, Gapless(x), NEW n \in Nat
    PROVE  Floor(x, n) \in Boundaries(x)
<1> DEFINE m == Min({n, Len(x)})
           F == {i \in Boundaries(x) : i <= m}
<1>1. Len(x) \in Nat /\ 0 \in Boundaries(x) /\ Boundaries(x) \in SUBSET (0..Len(x))
  BY GaplessBytes
<1>2. m \in Nat
  BY <1>1, LeastOfTwo
<1> HIDE DEF m
<1>3. F \in SUBSET Nat /\ F # {} /\ \A j \in F : j <= m
  BY <1>1, <1>2
<1>4. Max(F) \in F
  <2> HIDE DEF F
  <2> QED BY <1>2, <1>3, GreatestNumber
<1> QED BY <1>4 DEF Floor, m

(* The start of the longest suffix of whole characters that fits.             *)
LEMMA SuffixIs ==
    ASSUME NEW x, Gapless(x), NEW n \in Nat
    PROVE  /\ SuffixStart(x, n) \in Boundaries(x) /\ Len(x) - SuffixStart(x, n) <= n
           /\ Len(x) <= n => SuffixStart(x, n) = 0
<1> DEFINE m == Min({n, Len(x)})
           d == Len(x) - m
<1>1. Len(x) \in Nat /\ Boundaries(x) \in SUBSET (0..Len(x))
  BY GaplessBytes
<1>2. m = IF n <= Len(x) THEN n ELSE Len(x)
  BY <1>1, LeastOfTwo
<1>3. SuffixStart(x, n) = Ceiling(x, d)
  BY DEF SuffixStart
<1> HIDE DEF m
<1>4. d \in Nat /\ d <= Len(x) /\ Len(x) - d <= n /\ (Len(x) <= n => d = 0)
  BY <1>1, <1>2
<1> HIDE DEF d
<1>5. Min({d, Len(x)}) = d
  BY <1>1, <1>4, LeastOfTwo
<1> DEFINE c == Ceiling(x, d)
<1>6. c \in Boundaries(x) /\ c >= d /\ (d = 0 => c = 0)
  BY <1>4, <1>5, CeilingIs
<1> HIDE DEF c
<1>7. c \in 0..Len(x)
  BY <1>1, <1>6
<1> QED BY <1>1, <1>3, <1>4, <1>6, <1>7 DEF c

(* What a chunk is made into, character by character. *)
Widths == 1..3
Character(c, w) == [k \in 1..w |-> [char |-> c, lead |-> k = 1]]
SpellStep(widths, n, g, i) == IF i = 0 THEN <<>> ELSE Cat(g[i - 1], Character(n + i, widths[i]))
Spelled(widths, n, m, g) == g = [i \in 0..m |-> SpellStep(widths, n, g, i)]

LEMMA SpelledExists == ASSUME NEW widths, NEW n \in Nat, NEW m \in Nat PROVE \E g : Spelled(widths, n, m, g)
<1> DEFINE T == {k \in Nat : \E g : Spelled(widths, n, k, g)}
<1>1. 0 \in T
  <2> DEFINE g == [i \in 0..0 |-> <<>>]
  <2>1. \A i \in 0..0 : i = 0
    OBVIOUS
  <2>2. g = [i \in 0..0 |-> SpellStep(widths, n, g, i)]
    BY <2>1 DEF SpellStep
  <2> QED BY <2>2 DEF Spelled
<1>2. ASSUME NEW k \in T PROVE k + 1 \in T
  <2>1. PICK g : g = [i \in 0..k |-> SpellStep(widths, n, g, i)]
    BY DEF Spelled
  <2> DEFINE last == Cat(g[k], Character(n + (k + 1), widths[k + 1]))
             h == [i \in 0..(k + 1) |-> IF i = k + 1 THEN last ELSE g[i]]
  <2>2. ASSUME NEW i \in 0..(k + 1) PROVE h[i] = SpellStep(widths, n, h, i)
    <3>1. CASE i = k + 1
      <4>1. i # 0 /\ i - 1 = k /\ k \in 0..(k + 1) /\ k # k + 1
        BY <3>1
      <4>2. h[k] = g[k] /\ h[i] = last
        BY <3>1, <4>1
      <4> HIDE DEF h
      <4> QED BY <3>1, <4>1, <4>2 DEF SpellStep
    <3>2. CASE i # k + 1
      <4>1. i \in 0..k /\ (i # 0 => i - 1 \in 0..(k + 1) /\ i - 1 # k + 1)
        BY <3>2
      <4> HIDE DEF last
      <4>2. h[i] = SpellStep(widths, n, g, i)
        BY <2>1, <3>2, <4>1
      <4>3. i # 0 => h[i - 1] = g[i - 1]
        BY <4>1
      <4> HIDE DEF h
      <4> QED BY <4>2, <4>3 DEF SpellStep
    <3> QED BY <3>1, <3>2
  <2>3. h = [i \in 0..(k + 1) |-> h[i]]
    OBVIOUS
  <2> HIDE DEF h
  <2>4. h = [i \in 0..(k + 1) |-> SpellStep(widths, n, h, i)]
    BY <2>2, <2>3
  <2> QED BY <2>4 DEF Spelled
<1>3. T = Nat
  <2> HIDE DEF T
  <2>1. T \in SUBSET Nat
    BY DEF T
  <2> QED BY <1>1, <1>2, <2>1, NatSetInduction
<1> QED BY <1>3

LEMMA EncodedIs ==
    ASSUME NEW widths, NEW n \in Nat, Len(widths) \in Nat
    PROVE  \E g : Spelled(widths, n, Len(widths), g) /\ Encoded(widths, n) = g[Len(widths)]
<1> DEFINE g == CHOOSE g : g = [i \in 0..Len(widths) |-> SpellStep(widths, n, g, i)]
<1>1. Spelled(widths, n, Len(widths), g)
  <2>1. \E h : h = [i \in 0..Len(widths) |-> SpellStep(widths, n, h, i)]
    BY SpelledExists DEF Spelled
  <2> QED BY <2>1 DEF Spelled
<1>2. Encoded(widths, n) = g[Len(widths)]
  BY Zenon DEF Encoded, SpellStep, Character, Cat
<1> QED BY <1>1, <1>2

(* The spelling of widths that start alike starts alike. *)
SpelledAlike(u, v, n, k, m, g, h) ==
    /\ n \in Nat /\ k \in Nat /\ m \in Nat /\ k <= m /\ \A i \in 1..k : u[i] = v[i]
    /\ Spelled(u, n, k, g) /\ Spelled(v, n, m, h)

LEMMA SpelledAgree ==
    ASSUME NEW u, NEW v, NEW n, NEW k, NEW m, NEW g, NEW h, SpelledAlike(u, v, n, k, m, g, h)
    PROVE  g[k] = h[k]
<1>0. /\ n \in Nat /\ k \in Nat /\ m \in Nat /\ k <= m /\ \A i \in 1..k : u[i] = v[i]
      /\ Spelled(u, n, k, g) /\ Spelled(v, n, m, h)
  BY DEF SpelledAlike
<1> DEFINE T == {i \in Nat : i <= k => g[i] = h[i]}
<1>1. \A i \in 0..k : g[i] = SpellStep(u, n, g, i) /\ h[i] = SpellStep(v, n, h, i)
  <2>1. \A i \in 0..k : i \in 0..m
    BY <1>0
  <2> QED BY <1>0, <2>1 DEF Spelled
<1>2. 0 \in T
  BY <1>0, <1>1 DEF SpellStep
<1>3. ASSUME NEW i \in T PROVE i + 1 \in T
  <2> SUFFICES ASSUME i + 1 <= k PROVE g[i + 1] = h[i + 1]
    OBVIOUS
  <2>1. i + 1 \in 0..k /\ i + 1 \in 1..k /\ i + 1 # 0 /\ (i + 1) - 1 = i /\ g[i] = h[i]
    BY <1>0
  <2>2. u[i + 1] = v[i + 1]
    BY <1>0, <2>1
  <2> QED BY <1>1, <2>1, <2>2 DEF SpellStep
<1>4. T = Nat
  <2> HIDE DEF T
  <2>1. T \in SUBSET Nat
    BY DEF T
  <2> QED BY <1>2, <1>3, <2>1, NatSetInduction
<1> QED BY <1>0, <1>4

LEMMA EncodedGrows ==
    ASSUME NEW n \in Nat
    PROVE  /\ Encoded(<<>>, n) = <<>>
           /\ \A u \in Seq(Widths), x \in Widths :
                Encoded(Cat(u, <<x>>), n) = Cat(Encoded(u, n), Character(n + (Len(u) + 1), x))
<1>1. Encoded(<<>>, n) = <<>>
  <2>1. Len(<<>>) = 0
    OBVIOUS
  <2>2. PICK g : Spelled(<<>>, n, 0, g) /\ Encoded(<<>>, n) = g[0]
    BY <2>1, EncodedIs
  <2> QED BY <2>2 DEF Spelled, SpellStep
<1>2. ASSUME NEW u \in Seq(Widths), NEW x \in Widths
      PROVE  Encoded(Cat(u, <<x>>), n) = Cat(Encoded(u, n), Character(n + (Len(u) + 1), x))
  <2> DEFINE v == Cat(u, <<x>>)
             k == Len(u)
  <2>1. /\ k \in Nat /\ Len(v) = k + 1 /\ v[k + 1] = x /\ \A i \in 1..k : u[i] = v[i]
    <3> DEFINE t == <<x>>
    <3>1. t \in Seq(Widths) /\ Len(t) = 1 /\ t[1] = x /\ k \in Nat
      BY LenProperties
    <3> HIDE DEF t
    <3>2. /\ Len(Cat(u, t)) = Len(u) + Len(t)
          /\ \A i \in 1..(Len(u) + Len(t)) : Cat(u, t)[i] = IF i <= Len(u) THEN u[i] ELSE t[i - Len(u)]
      BY <3>1, JoinedAny, Zenon
    <3>3. v = Cat(u, t)
      BY DEF t
    <3>4. k + 1 \in 1..(k + 1) /\ ~(k + 1 <= k) /\ (k + 1) - k = 1 /\ \A i \in 1..k : i \in 1..(k + 1) /\ i <= k
      BY <3>1
    <3> HIDE DEF v
    <3> QED BY <3>1, <3>2, <3>3, <3>4
  <2> HIDE DEF v
  <2>2. PICK g : Spelled(u, n, k, g) /\ Encoded(u, n) = g[k]
    BY <2>1, EncodedIs
  <2>3. PICK h : Spelled(v, n, k + 1, h) /\ Encoded(v, n) = h[k + 1]
    <3>1. Len(v) \in Nat
      BY <2>1
    <3>2. \E h : Spelled(v, n, Len(v), h) /\ Encoded(v, n) = h[Len(v)]
      BY <3>1, EncodedIs
    <3> QED BY <2>1, <3>2
  <2> HIDE DEF k
  <2>4. g[k] = h[k]
    <3> DEFINE m == k + 1
    <3>1. m \in Nat /\ k <= m
      BY <2>1
    <3>2. Spelled(v, n, m, h)
      BY <2>3
    <3> HIDE DEF m
    <3>3. SpelledAlike(u, v, n, k, m, g, h)
      BY <2>1, <2>2, <3>1, <3>2 DEF SpelledAlike
    <3> QED BY <3>3, SpelledAgree, SMT
  <2>5. h[k + 1] = Cat(h[k], Character(n + (k + 1), v[k + 1]))
    <3>1. k + 1 \in 0..(k + 1) /\ k + 1 # 0 /\ (k + 1) - 1 = k
      BY <2>1
    <3> QED BY <2>3, <3>1 DEF Spelled, SpellStep
  <2> QED BY <2>1, <2>2, <2>3, <2>4, <2>5 DEF v, k
<1> QED BY <1>1, <1>2

LEMMA CharacterIs ==
    ASSUME NEW c \in Nat \ {0}, NEW w \in Widths
    PROVE  /\ Gapless(Character(c, w)) /\ Len(Character(c, w)) = w /\ Character(c, w) # <<>>
           /\ Oldest(Character(c, w)) = c /\ Newest(Character(c, w)) = c
<1> DEFINE x == Character(c, w)
<1>1. w \in Nat /\ 1 \in 1..w /\ w \in 1..w
  BY DEF Widths
<1>2. x \in Seq(Byte) /\ Len(x) = w /\ \A i \in 1..w : x[i].char = c /\ x[i].lead = (i = 1)
  BY <1>1 DEF Character, Byte
<1> HIDE DEF x
<1>3. x # <<>>
  BY <1>1, <1>2
<1>4. ASSUME NEW i \in 2..Len(x) PROVE x[i].char = x[i - 1].char + (IF x[i].lead THEN 1 ELSE 0)
  <2>1. i \in 1..w /\ i - 1 \in 1..w /\ i # 1
    BY <1>1, <1>2
  <2>2. x[i].char = c /\ x[i - 1].char = c /\ ~x[i].lead
    BY <1>2, <2>1
  <2> QED BY <2>2
<1>5. Gapless(x) /\ Oldest(x) = c /\ Newest(x) = c
  BY <1>1, <1>2, <1>4 DEF Gapless, Oldest, Newest
<1> QED BY <1>2, <1>3, <1>5 DEF x

(* The bytes of new characters. *)
Spelt(out, n) ==
    /\ Gapless(Encoded(out, n))
    /\ out = <<>> => Encoded(out, n) = <<>>
    /\ out # <<>> => /\ Encoded(out, n) # <<>>
                     /\ Oldest(Encoded(out, n)) = n + 1 /\ Newest(Encoded(out, n)) = n + Len(out)

LEMMA SpeltGrows ==
    ASSUME NEW n \in Nat, NEW out \in Seq(Widths), Spelt(out, n), NEW x \in Widths
    PROVE  /\ Cat(out, <<x>>) \in Seq(Widths) /\ Spelt(Cat(out, <<x>>), n)
           /\ Len(Encoded(Cat(out, <<x>>), n)) = Len(Encoded(out, n)) + x
<1> DEFINE v == Cat(out, <<x>>)
           c == n + (Len(out) + 1)
           y == Character(c, x)
           e == Encoded(out, n)
<1>1. Len(out) \in Nat /\ c \in Nat \ {0} /\ (out = <<>> <=> Len(out) = 0)
  BY EmptySeq, LenProperties
<1>2. v \in Seq(Widths) /\ Len(v) = Len(out) + 1 /\ v # <<>>
  <2>1. <<x>> \in Seq(Widths) /\ Len(<<x>>) = 1
    OBVIOUS
  <2>2. v \in Seq(Widths) /\ Len(v) = Len(out) + Len(<<x>>)
    BY <2>1, JoinedAny, Zenon
  <2> HIDE DEF v
  <2> QED BY <1>1, <2>1, <2>2, EmptySeq
<1>3. Encoded(v, n) = Cat(e, y)
  BY EncodedGrows
<1> HIDE DEF c
<1>4. Gapless(y) /\ Len(y) = x /\ y # <<>> /\ Oldest(y) = c /\ Newest(y) = c
  BY <1>1, CharacterIs
<1> HIDE DEF v, y, e
<1>5. Gapless(e) /\ (out = <<>> => e = <<>>) /\ (out # <<>> => e # <<>> /\ Oldest(e) = n + 1 /\ Newest(e) = n + Len(out))
  BY DEF Spelt, e
<1>6. e # <<>> => Oldest(y) = Newest(e) + 1
  BY <1>1, <1>4, <1>5 DEF c
<1>7. /\ Gapless(Cat(e, y)) /\ Len(Cat(e, y)) = Len(e) + Len(y)
      /\ Newest(Cat(e, y)) = Newest(y) /\ Cat(e, y) # <<>>
      /\ Oldest(Cat(e, y)) = IF e # <<>> THEN Oldest(e) ELSE Oldest(y)
  BY <1>4, <1>5, <1>6, GaplessJoined
<1>8. Oldest(Cat(e, y)) = n + 1
  BY <1>1, <1>4, <1>5, <1>7 DEF c
<1>9. Newest(Cat(e, y)) = n + Len(v)
  BY <1>1, <1>2, <1>4, <1>7 DEF c
<1> QED BY <1>2, <1>3, <1>4, <1>7, <1>8, <1>9 DEF Spelt, v, e

(* What the normalizer makes of a chunk, byte after byte. *)
States == {"Ground", "Escape", "Csi", "Osc", "OscEscape"}
Unshown(b) == [state |-> b.state, pending |-> b.pending, out |-> <<>>]
ReadStep(b, chunk, g, i) == IF i = 0 THEN Unshown(b) ELSE Normalize(g[i - 1], chunk[i])
BytesRead(b, chunk, m, g) == g = [i \in 0..m |-> ReadStep(b, chunk, g, i)]

LEMMA ReadExists == ASSUME NEW b, NEW chunk, NEW m \in Nat PROVE \E g : BytesRead(b, chunk, m, g)
<1> DEFINE T == {k \in Nat : \E g : BytesRead(b, chunk, k, g)}
<1>1. 0 \in T
  <2> DEFINE g == [i \in 0..0 |-> Unshown(b)]
  <2>1. \A i \in 0..0 : i = 0
    OBVIOUS
  <2>2. g = [i \in 0..0 |-> ReadStep(b, chunk, g, i)]
    BY <2>1 DEF ReadStep
  <2> QED BY <2>2 DEF BytesRead
<1>2. ASSUME NEW k \in T PROVE k + 1 \in T
  <2>1. PICK g : g = [i \in 0..k |-> ReadStep(b, chunk, g, i)]
    BY DEF BytesRead
  <2> DEFINE last == Normalize(g[k], chunk[k + 1])
             h == [i \in 0..(k + 1) |-> IF i = k + 1 THEN last ELSE g[i]]
  <2>2. ASSUME NEW i \in 0..(k + 1) PROVE h[i] = ReadStep(b, chunk, h, i)
    <3>1. CASE i = k + 1
      <4>1. i # 0 /\ i - 1 = k /\ k \in 0..(k + 1) /\ k # k + 1
        BY <3>1
      <4> HIDE DEF last
      <4>2. h[k] = g[k] /\ h[i] = last
        BY <3>1, <4>1
      <4> HIDE DEF h
      <4> QED BY <3>1, <4>1, <4>2 DEF ReadStep, last
    <3>2. CASE i # k + 1
      <4>1. i \in 0..k /\ (i # 0 => i - 1 \in 0..(k + 1) /\ i - 1 # k + 1)
        BY <3>2
      <4> HIDE DEF last
      <4>2. h[i] = ReadStep(b, chunk, g, i)
        BY <2>1, <3>2, <4>1
      <4>3. i # 0 => h[i - 1] = g[i - 1]
        BY <4>1
      <4> HIDE DEF h
      <4> QED BY <4>2, <4>3 DEF ReadStep
    <3> QED BY <3>1, <3>2
  <2>3. h = [i \in 0..(k + 1) |-> h[i]]
    OBVIOUS
  <2> HIDE DEF h
  <2>4. h = [i \in 0..(k + 1) |-> ReadStep(b, chunk, h, i)]
    BY <2>2, <2>3
  <2> QED BY <2>4 DEF BytesRead
<1>3. T = Nat
  <2> HIDE DEF T
  <2>1. T \in SUBSET Nat
    BY DEF T
  <2> QED BY <1>1, <1>2, <2>1, NatSetInduction
<1> QED BY <1>3

LEMMA NormalizedIs ==
    ASSUME NEW b, NEW chunk, Len(chunk) \in Nat
    PROVE  \E g : BytesRead(b, chunk, Len(chunk), g) /\ Normalized(b, chunk) = g[Len(chunk)]
<1> DEFINE g == CHOOSE g : g = [i \in 0..Len(chunk) |-> ReadStep(b, chunk, g, i)]
<1>1. BytesRead(b, chunk, Len(chunk), g)
  <2>1. \E h : h = [i \in 0..Len(chunk) |-> ReadStep(b, chunk, h, i)]
    BY ReadExists DEF BytesRead
  <2> QED BY <2>1 DEF BytesRead
<1>2. Normalized(b, chunk) = g[Len(chunk)]
  BY Zenon DEF Normalized, ReadStep, Unshown
<1> QED BY <1>1, <1>2

(* At most three bytes come out for one, and what is pending owes three. *)
NormalRecords == [state : States, pending : BOOLEAN, out : Seq(Widths)]
NormalSound(n, made, k) ==
    /\ n \in NormalRecords /\ Spelt(n.out, made)
    /\ Len(Encoded(n.out, made)) + (IF n.pending THEN 3 ELSE 0) <= k

LEMMA StatesFollow == \A state, byte : NextState(state, byte) \in States
BY DEF NextState, States

(* What a byte that is looked at shows. *)
Piece(pending, byte) ==
    IF byte = "cont" THEN (IF pending THEN <<2>> ELSE <<3>>)
    ELSE (IF pending THEN <<3>> ELSE <<>>) \o (IF byte \in Shown THEN <<1>> ELSE <<>>)

LEMMA DecodedIs ==
    ASSUME NEW n \in NormalRecords, NEW byte
    PROVE  /\ Decoded(n, byte).out = Cat(n.out, Piece(n.pending, byte))
           /\ Decoded(n, byte).pending = (byte = "lead") /\ Decoded(n, byte).state = n.state
           /\ DOMAIN Decoded(n, byte) = {"state", "pending", "out"}
<1> DEFINE piece == CASE byte = "cont" -> IF n.pending THEN <<2>> ELSE <<3>>
                      [] OTHER -> (IF n.pending THEN <<3>> ELSE <<>>) \o (IF byte \in Shown THEN <<1>> ELSE <<>>)
<1>1. piece = Piece(n.pending, byte)
  BY Zenon DEF Piece
<1>2. Decoded(n, byte) = [n EXCEPT !.pending = byte = "lead", !.out = @ \o piece]
  BY Zenon DEF Decoded
<1> HIDE DEF piece
<1>3. DOMAIN n = {"state", "pending", "out"}
  BY DEF NormalRecords
<1> QED BY <1>1, <1>2, <1>3 DEF Cat

LEMMA Behind ==
    ASSUME NEW n \in Nat, NEW out \in Seq(Widths), Spelt(out, n)
    PROVE  /\ Cat(out, <<>>) = out
           /\ Cat(out, <<3>> \o <<>>) = Cat(out, <<3>>) /\ Cat(out, <<>> \o <<1>>) = Cat(out, <<1>>)
           /\ Cat(out, <<>> \o <<>>) = out
           /\ Cat(out, <<3>> \o <<1>>) = Cat(Cat(out, <<3>>), <<1>>)
<1>1. <<1>> \in Seq(Widths) /\ <<3>> \in Seq(Widths) /\ <<>> \in Seq(Widths)
  BY DEF Widths
<1>2. Cat(out, <<>>) = out
  BY ConcatEmptySeq DEF Cat
<1>3. <<3>> \o <<>> = <<3>> /\ <<>> \o <<1>> = <<1>> /\ <<>> \o <<>> = <<>>
  BY <1>1, ConcatEmptySeq
<1>4. Cat(out, <<3>> \o <<1>>) = Cat(Cat(out, <<3>>), <<1>>)
  BY <1>1, ConcatAssociative DEF Cat
<1> QED BY <1>2, <1>3, <1>4

LEMMA PieceFits ==
    ASSUME NEW made \in Nat, NEW k \in Nat, NEW n, NormalSound(n, made, k), NEW byte
    PROVE  LET out == Cat(n.out, Piece(n.pending, byte)) IN
             /\ out \in Seq(Widths) /\ Spelt(out, made) /\ Len(Encoded(out, made)) \in Nat
             /\ Len(Encoded(out, made)) + (IF byte = "lead" THEN 3 ELSE 0) <= k + 3
<1> DEFINE out == n.out
           l == Len(Encoded(out, made))
<1>1. n.pending \in BOOLEAN /\ out \in Seq(Widths) /\ Spelt(out, made) /\ l + (IF n.pending THEN 3 ELSE 0) <= k
  BY DEF NormalSound, NormalRecords
<1> HIDE DEF out
<1>2. l \in Nat
  BY <1>1, GaplessBytes DEF Spelt
<1>3. 1 \in Widths /\ 2 \in Widths /\ 3 \in Widths
  BY DEF Widths
<1> DEFINE one(w) == Cat(out, <<w>>)
<1>4. \A w \in Widths : one(w) \in Seq(Widths) /\ Spelt(one(w), made) /\ Len(Encoded(one(w), made)) = l + w
  BY <1>1, SpeltGrows
<1> DEFINE both == Cat(one(3), <<1>>)
<1>5. both \in Seq(Widths) /\ Spelt(both, made) /\ Len(Encoded(both, made)) = (l + 3) + 1
  <2> DEFINE a == one(3)
  <2>1. a \in Seq(Widths) /\ Spelt(a, made) /\ Len(Encoded(a, made)) = l + 3
    BY <1>3, <1>4
  <2> HIDE DEF a
  <2>2. /\ Cat(a, <<1>>) \in Seq(Widths) /\ Spelt(Cat(a, <<1>>), made)
        /\ Len(Encoded(Cat(a, <<1>>), made)) = Len(Encoded(a, made)) + 1
    BY <1>3, <2>1, SpeltGrows
  <2> QED BY <2>1, <2>2 DEF a
<1> DEFINE all == Cat(out, Piece(n.pending, byte))
<1>6. \/ byte = "cont" /\ n.pending /\ all = one(2)
      \/ byte = "cont" /\ ~n.pending /\ all = one(3)
      \/ byte # "cont" /\ n.pending /\ byte \in Shown /\ all = both
      \/ byte # "cont" /\ n.pending /\ byte \notin Shown /\ all = one(3)
      \/ byte # "cont" /\ ~n.pending /\ byte \in Shown /\ all = one(1)
      \/ byte # "cont" /\ ~n.pending /\ byte \notin Shown /\ all = out
  <2>1. /\ Cat(out, <<3>> \o <<>>) = one(3) /\ Cat(out, <<>> \o <<1>>) = one(1)
        /\ Cat(out, <<>> \o <<>>) = out /\ Cat(out, <<3>> \o <<1>>) = both
    BY <1>1, Behind
  <2> QED BY <1>1, <2>1, Zenon DEF Piece
<1> HIDE DEF one, both, all
<1>7. "lead" \notin Shown /\ "lead" # "cont"
  BY DEF Shown
<1>8. /\ all \in Seq(Widths) /\ Spelt(all, made) /\ Len(Encoded(all, made)) \in Nat
      /\ Len(Encoded(all, made)) + (IF byte = "lead" THEN 3 ELSE 0) <= k + 3
  <2> DEFINE m == Len(Encoded(all, made))
  <2>1. all \in Seq(Widths) /\ Spelt(all, made)
    BY <1>1, <1>3, <1>4, <1>5, <1>6
  <2>2. \/ n.pending /\ byte # "lead" /\ m \in {l + 2, (l + 3) + 1}
        \/ n.pending /\ m = l + 3
        \/ ~n.pending /\ byte # "lead" /\ m \in {l + 3, l + 1}
        \/ ~n.pending /\ m = l
    BY <1>1, <1>3, <1>4, <1>5, <1>6, <1>7
  <2> HIDE DEF m, l
  <2>3. m \in Nat /\ m + (IF byte = "lead" THEN 3 ELSE 0) <= k + 3
    BY <1>1, <1>2, <2>2
  <2> QED BY <2>1, <2>3 DEF m
<1> QED BY <1>8 DEF all, out

LEMMA NormalGrows ==
    ASSUME NEW made \in Nat, NEW k \in Nat, NEW n, NormalSound(n, made, k), NEW byte
    PROVE  NormalSound(Normalize(n, byte), made, k + 3)
<1> DEFINE state == NextState(n.state, byte)
           base == IF n.state = "Ground" THEN Decoded(n, byte) ELSE n
           r == Normalize(n, byte)
<1>0. n \in NormalRecords /\ state \in States /\ r = [base EXCEPT !.state = state]
  BY StatesFollow, Zenon DEF NormalSound, Normalize
<1> HIDE DEF r, state
<1>1. CASE n.state = "Ground"
  <2>1. /\ base.out = Cat(n.out, Piece(n.pending, byte)) /\ base.pending = (byte = "lead")
        /\ DOMAIN base = {"state", "pending", "out"}
    <3>1. base = Decoded(n, byte)
      BY <1>1
    <3> HIDE DEF base
    <3> QED BY <1>0, <3>1, DecodedIs
  <2> HIDE DEF base
  <2> DEFINE out == Cat(n.out, Piece(n.pending, byte))
  <2>2. /\ out \in Seq(Widths) /\ Spelt(out, made)
        /\ Len(Encoded(out, made)) + (IF byte = "lead" THEN 3 ELSE 0) <= k + 3
    BY PieceFits
  <2>3. r.state = state /\ r.pending = (byte = "lead") /\ r.out = out /\ r \in NormalRecords
    <3> HIDE DEF out
    <3>1. out \in Seq(Widths) /\ base.out = out
      BY <2>1, <2>2 DEF out
    <3> QED BY <1>0, <2>1, <3>1 DEF NormalRecords
  <2> HIDE DEF out
  <2> QED BY <2>2, <2>3 DEF NormalSound, r
<1>2. CASE n.state # "Ground"
  <2>1. base = n
    BY <1>2
  <2> HIDE DEF base
  <2>2. r.pending = n.pending /\ r.out = n.out /\ r \in NormalRecords
    BY <1>0, <2>1 DEF NormalRecords
  <2>3. Spelt(n.out, made) /\ Len(Encoded(n.out, made)) + (IF n.pending THEN 3 ELSE 0) <= k
        /\ Len(Encoded(n.out, made)) \in Nat
    BY GaplessBytes DEF NormalSound, Spelt
  <2> QED BY <2>2, <2>3 DEF NormalSound, r
<1> QED BY <1>1, <1>2

LEMMA NormalizedSound ==
    ASSUME NEW b, b.state \in States, b.pending \in BOOLEAN, NEW made \in Nat,
           NEW chunk, Len(chunk) \in Nat
    PROVE  NormalSound(Normalized(b, chunk), made, 3 * (Len(chunk) + 1))
<1> DEFINE m == Len(chunk)
<1>1. PICK g : BytesRead(b, chunk, m, g) /\ Normalized(b, chunk) = g[m]
  BY NormalizedIs
<1> DEFINE T == {i \in Nat : i <= m => NormalSound(g[i], made, 3 * (i + 1))}
<1>2. 0 \in T
  <2>1. g[0] = Unshown(b)
    BY <1>1 DEF BytesRead, ReadStep
  <2> DEFINE n == Unshown(b)
  <2>2. n \in NormalRecords /\ n.out = <<>>
    BY DEF Unshown, NormalRecords
  <2>3. Encoded(<<>>, made) = <<>>
    BY EncodedGrows
  <2>4. Len(<<>>) = 0 /\ Gapless(<<>>)
    BY DEF Gapless
  <2> HIDE DEF n
  <2>5. NormalSound(n, made, 3)
    BY <2>2, <2>3, <2>4 DEF NormalSound, Spelt
  <2>6. 3 * (0 + 1) = 3
    OBVIOUS
  <2> QED BY <2>1, <2>5, <2>6 DEF n
<1>3. ASSUME NEW i \in T PROVE i + 1 \in T
  <2> SUFFICES ASSUME i + 1 <= m PROVE NormalSound(g[i + 1], made, 3 * ((i + 1) + 1))
    OBVIOUS
  <2>1. i \in Nat /\ i <= m /\ i + 1 \in 0..m /\ (i + 1) - 1 = i /\ i + 1 # 0
    OBVIOUS
  <2>2. g[i + 1] = Normalize(g[i], chunk[i + 1])
    BY <1>1, <2>1 DEF BytesRead, ReadStep
  <2> DEFINE k == 3 * (i + 1)
  <2>3. k \in Nat /\ 3 * ((i + 1) + 1) = k + 3
    OBVIOUS
  <2>4. NormalSound(g[i], made, k)
    BY <2>1
  <2> HIDE DEF k
  <2>5. NormalSound(Normalize(g[i], chunk[i + 1]), made, k + 3)
    BY <2>3, <2>4, NormalGrows
  <2> QED BY <2>2, <2>3, <2>5
<1>4. T = Nat
  <2> HIDE DEF T
  <2>1. T \in SUBSET Nat
    BY DEF T
  <2> QED BY <1>2, <1>3, <2>1, NatSetInduction
<1> QED BY <1>1, <1>4

BufferRecords ==
    [state : {"Ground", "Escape", "Csi", "Osc", "OscEscape"}, pending : BOOLEAN, unread : Seq(Byte),
     truncated : BOOLEAN, fed : Nat, open : BOOLEAN]
AppendRecords ==
    [at : {"idle", "reserving", "extending", "taking"}, bytes : Seq(Byte), reserved : Nat, owed : Nat]
ToldRecords == [made : Nat, known : Nat]

(* What is unread, what is about to be appended, and what the caller knows of *)
(* follow one another without a gap, or the buffer says that something is     *)
(* missing.                                                                   *)
Following(b, a, k) ==
    /\ a.bytes # <<>> => Newest(a.bytes) = k.made /\ (b.unread # <<>> => Oldest(a.bytes) = Newest(b.unread) + 1)
    /\ a.bytes = <<>> /\ b.unread # <<>> => Newest(b.unread) = k.made
    /\ \/ b.truncated \/ ~b.open
       \/ k.known + 1 = IF b.unread # <<>> THEN Oldest(b.unread)
                        ELSE IF a.bytes # <<>> THEN Oldest(a.bytes) ELSE k.made + 1

(* What an append or a receipt under way has, takes and owes. *)
UnderWay(b, a) ==
    /\ a.at = "idle" => a = Unused
    /\ a.at = "taking" => a.bytes = <<>> /\ a.reserved = 0
    /\ a.at \in {"reserving", "extending"} => a.bytes # <<>>
    /\ a.at = "extending" => a.owed = 0 /\ (a.reserved < Len(a.bytes) => b.unread = <<>>)
    /\ a.reserved <= Len(a.bytes)

SessionSound(b, a, k) ==
    /\ b \in BufferRecords /\ a \in AppendRecords /\ k \in ToldRecords
    /\ Gapless(b.unread) /\ Gapless(a.bytes) /\ Len(b.unread) + Len(a.bytes) <= MaxUnread
    /\ b.pending => 3 <= MaxUnread
    /\ k.known <= k.made
    /\ UnderWay(b, a) /\ Following(b, a, k)

BufferInv ==
    /\ DOMAIN buffers = Sessions /\ DOMAIN appends = Sessions /\ DOMAIN told = Sessions
    /\ \A s \in Sessions : SessionSound(buffers[s], appends[s], told[s])
    /\ BudgetExact
-----------------------------------------------------------------------------
(* A step of one session keeps the budget if it moves what it takes. *)
HeldIn(b, a) == Len(b.unread) + a.reserved + a.owed
Elsewhere(f, g, s) == DOMAIN g = Sessions /\ \A t \in Sessions : t # s => g[t] = f[t]

LEMMA HeldTyped ==
    ASSUME NEW b, NEW a, NEW k, SessionSound(b, a, k)
    PROVE  HeldIn(b, a) \in Nat
<1>1. Len(b.unread) \in Nat
  BY GaplessBytes DEF SessionSound
<1>2. a.reserved \in Nat /\ a.owed \in Nat
  BY DEF SessionSound, AppendRecords
<1> QED BY <1>1, <1>2 DEF HeldIn

LEMMA SessionFacts ==
    ASSUME BufferInv, NEW s \in Sessions
    PROVE  /\ SessionSound(buffers[s], appends[s], told[s])
           /\ used \in Nat /\ used <= Budget /\ Budget \in Nat /\ MaxUnread \in Nat /\ MaxFed \in Nat
           /\ HeldIn(buffers[s], appends[s]) <= used
<1>1. SessionSound(buffers[s], appends[s], told[s])
  BY DEF BufferInv
<1> DEFINE f == [t \in Sessions |-> Held(t)]
<1>2. f \in [Sessions -> Nat]
  <2>1. ASSUME NEW t \in Sessions PROVE Held(t) \in Nat
    <3>1. SessionSound(buffers[t], appends[t], told[t])
      BY DEF BufferInv
    <3> QED BY <3>1, HeldTyped DEF HeldIn, Held
  <2> QED BY <2>1
<1>3. used = SumFunction(f) /\ used <= Budget
  BY DEF BufferInv, BudgetExact
<1>4. f[s] = HeldIn(buffers[s], appends[s])
  BY DEF Held, HeldIn
<1> HIDE DEF f
<1>5. SumFunction(f) \in Nat /\ SumFunction(f) >= f[s]
  <2>1. IsFiniteSet(Sessions)
    BY BufferAssumption
  <2> QED BY <1>2, <2>1, SumUpdate
<1>6. f[s] \in Nat
  BY <1>2
<1>7. f[s] <= used /\ used \in Nat
  BY <1>3, <1>5, <1>6
<1>8. Budget \in Nat /\ MaxUnread \in Nat /\ MaxFed \in Nat
  BY BufferAssumption
<1> QED BY <1>1, <1>3, <1>4, <1>7, <1>8

LEMMA SessionMoves ==
    ASSUME BufferInv, NEW s \in Sessions,
           Elsewhere(buffers, buffers', s), Elsewhere(appends, appends', s), Elsewhere(told, told', s),
           SessionSound(buffers'[s], appends'[s], told'[s]),
           used' = used + HeldIn(buffers'[s], appends'[s]) - HeldIn(buffers[s], appends[s]),
           used' <= Budget
    PROVE  BufferInv'
<1>1. \A t \in Sessions : SessionSound(buffers[t], appends[t], told[t])
  BY DEF BufferInv
<1>2. \A t \in Sessions : SessionSound(buffers'[t], appends'[t], told'[t])
  <2>1. ASSUME NEW t \in Sessions, t # s PROVE SessionSound(buffers'[t], appends'[t], told'[t])
    <3>1. buffers'[t] = buffers[t] /\ appends'[t] = appends[t] /\ told'[t] = told[t]
      BY <2>1 DEF Elsewhere
    <3> QED BY <1>1, <3>1
  <2> QED BY <2>1
<1> DEFINE f == [t \in Sessions |-> HeldIn(buffers[t], appends[t])]
           h == [t \in Sessions |-> HeldIn(buffers'[t], appends'[t])]
<1>3. f \in [Sessions -> Nat]
  BY <1>1, HeldTyped
<1>4. h \in [Sessions -> Nat]
  <2>1. \A t \in Sessions : HeldIn(buffers'[t], appends'[t]) \in Nat
    BY <1>2, HeldTyped
  <2> QED BY <2>1
<1>5. \A t \in Sessions : t # s => f[t] = h[t]
  BY DEF Elsewhere
<1>6. used = SumFunction(f)
  BY DEF BufferInv, BudgetExact, Held, HeldIn
<1>7. BudgetExact' <=> used' = SumFunction(h) /\ used' <= Budget
  BY DEF BudgetExact, Held, HeldIn
<1>8. f[s] = HeldIn(buffers[s], appends[s]) /\ h[s] = HeldIn(buffers'[s], appends'[s])
  OBVIOUS
<1> HIDE DEF f, h
<1>9. SumFunction(f) \in Nat /\ SumFunction(h) \in Nat /\ SumFunction(f) + h[s] = SumFunction(h) + f[s]
  <2>1. IsFiniteSet(Sessions)
    BY BufferAssumption
  <2> QED BY <1>3, <1>4, <1>5, <2>1, SumUpdate
<1>10. f[s] \in Nat /\ h[s] \in Nat
  BY <1>3, <1>4
<1>11. used' = SumFunction(h)
  <2>1. used' = used + h[s] - f[s]
    BY <1>8
  <2> QED BY <1>6, <1>9, <1>10, <2>1
<1>12. DOMAIN buffers' = Sessions /\ DOMAIN appends' = Sessions /\ DOMAIN told' = Sessions
  BY DEF Elsewhere
<1> QED BY <1>2, <1>7, <1>11, <1>12 DEF BufferInv
BufferFields == {"state", "pending", "unread", "truncated", "fed", "open"}
AppendFields == {"at", "bytes", "reserved", "owed"}
LEMMA RecordFields ==
    ASSUME NEW b, NEW a, NEW k, SessionSound(b, a, k)
    PROVE  /\ DOMAIN b = BufferFields /\ DOMAIN a = AppendFields /\ DOMAIN k = {"made", "known"}
           /\ b \in BufferRecords /\ a \in AppendRecords /\ k \in ToldRecords
BY DEF SessionSound, BufferRecords, AppendRecords, ToldRecords, BufferFields, AppendFields

(* Output is appended: what can never fit goes first. *)
Fresh(n, made) ==
    /\ n \in NormalRecords /\ Spelt(n.out, made) /\ Len(Encoded(n.out, made)) <= MaxUnread
    /\ n.pending => 3 <= MaxUnread

LEMMA Appended ==
    ASSUME BufferInv, NEW s \in Sessions, Lock(s, "idle"), NEW n, Fresh(n, told[s].made), NEW fed \in Nat,
           Appending(s, n, fed)
    PROVE  BufferInv'
<1> DEFINE b == buffers[s]
           a == appends[s]
           k == told[s]
           made == k.made
           e == Encoded(n.out, made)
           excess == Len(b.unread) + Len(e) - MaxUnread
           gone == IF excess > 0 THEN Ceiling(b.unread, excess) ELSE 0
           start == SuffixStart(e, MaxUnread)
           rest == From(b.unread, gone)
           b2 == [b EXCEPT !.state = n.state, !.pending = n.pending, !.fed = fed, !.unread = rest,
                           !.truncated = @ \/ excess > 0]
           a2 == IF e = <<>> THEN Unused ELSE [at |-> "reserving", bytes |-> e, reserved |-> 0, owed |-> gone]
           k2 == [k EXCEPT !.made = @ + Len(n.out)]
<1>1. SessionSound(b, a, k) /\ used \in Nat /\ used <= Budget /\ MaxUnread \in Nat /\ Budget \in Nat
  BY SessionFacts
<1>2. b.open /\ a.at = "idle" /\ a = Unused /\ a.bytes = <<>> /\ a.reserved = 0 /\ a.owed = 0
  <2>1. b.open /\ a.at = "idle" /\ a = Unused
    BY <1>1 DEF Lock, SessionSound, UnderWay
  <2> QED BY <2>1 DEF Unused
<1>3. Gapless(b.unread) /\ Len(b.unread) \in Nat /\ Len(b.unread) <= MaxUnread
  <2> HIDE DEF b, a, k
  <2>1. Gapless(b.unread) /\ Len(b.unread) + Len(a.bytes) <= MaxUnread /\ Len(a.bytes) = 0
    BY <1>1, <1>2 DEF SessionSound
  <2> QED BY <1>1, <2>1, GaplessBytes
<1>4. k \in ToldRecords /\ made \in Nat /\ k.known \in Nat /\ k.known <= made
  BY <1>1 DEF SessionSound, ToldRecords
<1>5. /\ Gapless(e) /\ Len(e) \in Nat /\ Len(e) <= MaxUnread /\ n \in NormalRecords /\ Len(n.out) \in Nat
      /\ (n.out = <<>> <=> e = <<>>) /\ (n.out = <<>> <=> Len(n.out) = 0)
      /\ e # <<>> => Oldest(e) = made + 1 /\ Newest(e) = made + Len(n.out)
  <2>1. Spelt(n.out, made) /\ Len(e) <= MaxUnread /\ n \in NormalRecords
    BY DEF Fresh
  <2>2. n.out \in Seq(Widths)
    BY <2>1 DEF NormalRecords
  <2> QED BY <2>1, <2>2, GaplessBytes, EmptySeq, LenProperties DEF Spelt
<1>6. start = 0 /\ From(e, start) = e
  <2>1. start = 0
    BY <1>1, <1>5, SuffixIs
  <2>2. From(e, 0) = e
    BY <1>5, GaplessBytes, GaplessFrom
  <2> QED BY <2>1, <2>2
<1>7. buffers' = [buffers EXCEPT ![s] = b2] /\ appends' = [appends EXCEPT ![s] = a2] /\ told' = [told EXCEPT ![s] = k2]
      /\ used' = used
  <2> DEFINE bytes == From(e, start)
  <2>0. bytes = e /\ start = 0
    BY <1>6
  <2> HIDE DEF bytes, start, e
  <2>1. b2 = [b EXCEPT !.state = n.state, !.pending = n.pending, !.fed = fed, !.unread = rest,
                       !.truncated = @ \/ start > 0 \/ excess > 0]
    BY <2>0
  <2>2. /\ buffers' = [buffers EXCEPT ![s] =
             [b EXCEPT !.state = n.state, !.pending = n.pending, !.fed = fed,
                       !.unread = From(@, IF Len(b.unread) + Len(bytes) - MaxUnread > 0
                                          THEN Ceiling(b.unread, Len(b.unread) + Len(bytes) - MaxUnread) ELSE 0),
                       !.truncated = @ \/ start > 0 \/ Len(b.unread) + Len(bytes) - MaxUnread > 0]]
        /\ appends' = [appends EXCEPT ![s] =
             IF e = <<>> THEN Unused
             ELSE [at |-> "reserving", bytes |-> bytes, reserved |-> 0,
                   owed |-> IF Len(b.unread) + Len(bytes) - MaxUnread > 0
                            THEN Ceiling(b.unread, Len(b.unread) + Len(bytes) - MaxUnread) ELSE 0]]
        /\ told' = [told EXCEPT ![s].made = @ + Len(n.out)] /\ used' = used
    BY Zenon DEF Appending, bytes, start, e
  <2> QED BY <2>0, <2>2
<1>8. /\ gone \in Boundaries(b.unread) /\ gone \in 0..Len(b.unread) /\ gone >= excess
      /\ ~(excess > 0) => gone = 0
  <2>1. CASE excess > 0
    <3> DEFINE l == Len(b.unread)
               q == Len(e)
    <3>0. excess = l + q - MaxUnread /\ l \in Nat /\ q \in Nat /\ q <= MaxUnread
      BY <1>3, <1>5, Zenon
    <3> HIDE DEF l, q, excess, b
    <3>1. excess \in Nat /\ excess <= Len(b.unread)
      <4>1. excess \in Nat /\ excess <= l
        BY <1>1, <2>1, <3>0
      <4> QED BY <4>1 DEF l
    <3>2. gone = Ceiling(b.unread, excess)
      BY <2>1
    <3>3. Ceiling(b.unread, excess) \in Boundaries(b.unread) /\ Ceiling(b.unread, excess) >= Min({excess, Len(b.unread)})
      BY <1>3, <3>1, CeilingIs
    <3>4. Min({excess, Len(b.unread)}) = excess
      BY <1>3, <3>1, LeastOfTwo
    <3> QED BY <1>3, <2>1, <3>2, <3>3, <3>4, GaplessBytes
  <2>2. CASE ~(excess > 0)
    <3>1. excess \in Int
      BY <1>1, <1>3, <1>5
    <3>2. 0 \in Boundaries(b.unread)
      BY <1>3, GaplessBytes
    <3> HIDE DEF excess
    <3> QED BY <1>3, <2>2, <3>1, <3>2
  <2> QED BY <2>1, <2>2
<1> HIDE DEF gone
<1>9. /\ Gapless(rest) /\ Len(rest) = Len(b.unread) - gone /\ (rest # <<>> <=> gone < Len(b.unread))
      /\ gone < Len(b.unread) => Newest(rest) = Newest(b.unread)
      /\ gone = 0 => rest = b.unread
  BY <1>3, <1>8, GaplessFrom
<1>10. Len(rest) + Len(e) <= MaxUnread /\ Len(rest) \in Nat
  <2> DEFINE l == Len(b.unread)
             q == Len(e)
             r == Len(rest)
  <2>1. /\ r = l - gone /\ gone \in 0..l /\ gone >= excess /\ excess = l + q - MaxUnread
        /\ l \in Nat /\ q \in Nat /\ q <= MaxUnread
    BY <1>3, <1>5, <1>8, <1>9, Zenon
  <2> HIDE DEF l, q, r, excess
  <2>2. r + q <= MaxUnread /\ r \in Nat
    BY <1>1, <2>1
  <2> QED BY <2>2 DEF r, q
<1> HIDE DEF b, a, k, e, rest
<1>11. DOMAIN b = BufferFields /\ b \in BufferRecords /\ DOMAIN k = {"made", "known"}
  BY <1>1, RecordFields
<1>12. /\ b2.unread = rest /\ b2.open /\ b2.pending = n.pending /\ b2.truncated = (b.truncated \/ excess > 0)
       /\ b2 \in BufferRecords
  <2>1. n.state \in {"Ground", "Escape", "Csi", "Osc", "OscEscape"} /\ n.pending \in BOOLEAN
    BY <1>5 DEF NormalRecords, States
  <2>2. rest \in Seq(Byte)
    BY <1>9 DEF Gapless
  <2> HIDE DEF excess
  <2> QED BY <1>2, <1>11, <2>1, <2>2 DEF BufferFields, BufferRecords
<1>13. k2.made = made + Len(n.out) /\ k2.known = k.known /\ k2 \in ToldRecords /\ k2.known <= k2.made
  BY <1>4, <1>5, <1>11 DEF ToldRecords
<1>14. n.pending => 3 <= MaxUnread
  BY DEF Fresh
<1>15. /\ b.unread # <<>> => Newest(b.unread) = made
       /\ \/ b.truncated
          \/ k.known + 1 = IF b.unread # <<>> THEN Oldest(b.unread) ELSE made + 1
  BY <1>1, <1>2 DEF SessionSound, Following
<1>16. CASE e = <<>>
  <2>1. ~(excess > 0) /\ gone = 0 /\ rest = b.unread /\ Len(n.out) = 0 /\ k2.made = made /\ Len(e) = 0
    <3>1. Len(e) = 0
      BY <1>16
    <3>2. ~(excess > 0)
      <4> DEFINE l == Len(b.unread)
                 q == Len(e)
      <4>1. excess = l + q - MaxUnread /\ l \in Nat /\ l <= MaxUnread /\ q = 0
        BY <1>3, <3>1, Zenon
      <4> HIDE DEF l, q, excess
      <4> QED BY <1>1, <4>1
    <3> QED BY <1>4, <1>5, <1>8, <1>9, <1>13, <1>16, <3>1, <3>2
  <2>2. a2 = a /\ a2.bytes = <<>>
    BY <1>2, <1>16
  <2> HIDE DEF b2, a2, k2, excess, made
  <2>3. b2.truncated = b.truncated
    BY <1>11, <1>12, <2>1 DEF BufferRecords
  <2>4. Following(b2, a2, k2)
    BY <1>12, <1>13, <1>15, <2>1, <2>2, <2>3 DEF Following
  <2>5. UnderWay(b2, a2)
    BY <1>2, <2>2, SMT DEF UnderWay
  <2>6. SessionSound(b2, a2, k2)
    BY <1>1, <1>3, <1>9, <1>10, <1>12, <1>13, <1>14, <2>1, <2>2, <2>4, <2>5 DEF SessionSound
  <2>7. HeldIn(b2, a2) = HeldIn(b, a)
    BY <1>12, <2>1, <2>2 DEF HeldIn
  <2> QED
    <3>1. DOMAIN buffers = Sessions /\ DOMAIN appends = Sessions /\ DOMAIN told = Sessions
      BY DEF BufferInv
    <3>2. Elsewhere(buffers, buffers', s) /\ Elsewhere(appends, appends', s) /\ Elsewhere(told, told', s)
      BY <1>7, <3>1 DEF Elsewhere
    <3>3. buffers'[s] = b2 /\ appends'[s] = a2 /\ told'[s] = k2
      BY <1>7, <3>1
    <3>4. HeldIn(b, a) \in Nat
      BY <1>1, HeldTyped
    <3>5. used' = used + HeldIn(b2, a2) - HeldIn(b, a) /\ used' <= Budget
      BY <1>1, <1>7, <2>7, <3>4
    <3> QED BY <2>6, <3>2, <3>3, <3>5, SessionMoves DEF b, a
<1>17. CASE e # <<>>
  <2>1. /\ a2.at = "reserving" /\ a2.bytes = e /\ a2.reserved = 0 /\ a2.owed = gone /\ a2 \in AppendRecords
        /\ k2.made = Newest(e) /\ Oldest(e) = made + 1
    <3>1. gone \in Nat /\ e \in Seq(Byte)
      BY <1>3, <1>5, <1>8 DEF Gapless
    <3> QED BY <1>5, <1>13, <1>17, <3>1 DEF AppendRecords
  <2>2. rest # <<>> => b.unread # <<>> /\ Newest(rest) = made
    <3>1. b.unread = <<>> <=> Len(b.unread) = 0
      BY <1>3, GaplessBytes
    <3> QED BY <1>3, <1>8, <1>9, <1>15, <3>1
  <2>3. \/ b2.truncated
        \/ k.known + 1 = IF rest # <<>> THEN Oldest(rest) ELSE Oldest(e)
    <3>1. CASE excess > 0
      BY <1>12, <3>1
    <3>2. CASE ~(excess > 0)
      <4>1. rest = b.unread /\ b2.truncated = b.truncated
        BY <1>8, <1>9, <1>11, <1>12, <3>2 DEF BufferRecords
      <4> HIDE DEF b2, made, excess
      <4> QED BY <1>15, <2>1, <4>1
    <3> QED BY <3>1, <3>2
  <2> HIDE DEF b2, a2, k2, excess, made
  <2>4. Following(b2, a2, k2)
    BY <1>12, <1>13, <1>17, <2>1, <2>2, <2>3 DEF Following
  <2>5. UnderWay(b2, a2)
    <3>1. 0 <= Len(e)
      BY <1>5
    <3> QED BY <1>17, <2>1, <3>1 DEF UnderWay
  <2>6. SessionSound(b2, a2, k2)
    BY <1>1, <1>3, <1>5, <1>9, <1>10, <1>12, <1>13, <1>14, <2>1, <2>4, <2>5 DEF SessionSound
  <2>7. HeldIn(b2, a2) = HeldIn(b, a)
    <3>1. Len(rest) + 0 + gone = Len(b.unread) + 0 + 0
      BY <1>3, <1>8, <1>9
    <3> QED BY <1>2, <1>12, <2>1, <3>1 DEF HeldIn
  <2> QED
    <3>1. DOMAIN buffers = Sessions /\ DOMAIN appends = Sessions /\ DOMAIN told = Sessions
      BY DEF BufferInv
    <3>2. Elsewhere(buffers, buffers', s) /\ Elsewhere(appends, appends', s) /\ Elsewhere(told, told', s)
      BY <1>7, <3>1 DEF Elsewhere
    <3>3. buffers'[s] = b2 /\ appends'[s] = a2 /\ told'[s] = k2
      BY <1>7, <3>1
    <3>4. HeldIn(b, a) \in Nat
      BY <1>1, HeldTyped
    <3>5. used' = used + HeldIn(b2, a2) - HeldIn(b, a) /\ used' <= Budget
      BY <1>1, <1>7, <2>7, <3>4
    <3> QED BY <2>6, <3>2, <3>3, <3>5, SessionMoves DEF b, a
<1> QED BY <1>16, <1>17
LEMMA BufferAppendInv == ASSUME BufferInv, NEW s \in Sessions, NEW chunk \in Chunks, AppendOutput(s, chunk) PROVE BufferInv'
<1> DEFINE b == buffers[s]
           made == told[s].made
           n == Normalized(b, chunk)
           m == Len(chunk)
           bound == 3 * (m + 1)
<1>1. SessionSound(b, appends[s], told[s]) /\ MaxUnread \in Nat
  BY SessionFacts
<1>2. b \in BufferRecords /\ made \in Nat
  BY <1>1 DEF SessionSound, ToldRecords
<1>3. b.state \in States /\ b.pending \in BOOLEAN /\ b.fed \in Nat
  BY <1>2 DEF BufferRecords, States
<1>4. m \in Nat /\ bound <= MaxUnread
  <2>1. chunk \in Seq(Classes) /\ \A x \in Chunks : 3 * (Len(x) + 1) <= MaxUnread
    BY BufferAssumption
  <2> QED BY <2>1, LenProperties
<1>5. NormalSound(n, made, bound)
  BY <1>2, <1>3, <1>4, NormalizedSound
<1>6. Fresh(n, made)
  <2> DEFINE l == Len(Encoded(n.out, made))
  <2>1. n \in NormalRecords /\ Spelt(n.out, made) /\ l + (IF n.pending THEN 3 ELSE 0) <= bound /\ l \in Nat
    BY <1>5, GaplessBytes DEF NormalSound, Spelt
  <2> HIDE DEF l, n
  <2>2. l <= MaxUnread /\ 3 <= MaxUnread
    BY <1>1, <1>4, <2>1
  <2> QED BY <2>1, <2>2 DEF Fresh, l
<1>7. Lock(s, "idle") /\ Appending(s, n, b.fed + m)
  BY DEF AppendOutput
<1>8. b.fed + m \in Nat
  BY <1>3, <1>4
<1> HIDE DEF n, b, m
<1> QED BY <1>6, <1>7, <1>8, Appended

LEMMA BufferFinishInv == ASSUME BufferInv, NEW s \in Sessions, FinishOutput(s) PROVE BufferInv'
<1> DEFINE b == buffers[s]
           made == told[s].made
           out == IF b.pending THEN <<3>> ELSE <<>>
           n == [state |-> "Ground", pending |-> FALSE, out |-> out]
<1>1. SessionSound(b, appends[s], told[s]) /\ MaxUnread \in Nat /\ MaxFed \in Nat
  BY SessionFacts
<1>2. made \in Nat /\ b.pending \in BOOLEAN /\ (b.pending => 3 <= MaxUnread)
  BY <1>1 DEF SessionSound, ToldRecords, BufferRecords
<1>3. Spelt(<<>>, made) /\ Len(Encoded(<<>>, made)) = 0 /\ <<>> \in Seq(Widths)
  <2>1. Encoded(<<>>, made) = <<>>
    BY <1>2, EncodedGrows
  <2>2. Len(<<>>) = 0 /\ Gapless(<<>>)
    BY DEF Gapless
  <2> QED BY <2>1, <2>2 DEF Spelt
<1>4. Spelt(<<3>>, made) /\ Len(Encoded(<<3>>, made)) = 3 /\ <<3>> \in Seq(Widths)
  <2> DEFINE none == <<>>
             w == 3
  <2>1. none \in Seq(Widths) /\ Spelt(none, made) /\ Len(Encoded(none, made)) = 0
    BY <1>3
  <2>2. w \in Widths /\ w = 3
    BY DEF Widths
  <2>3. Cat(none, <<w>>) = <<3>>
    BY <1>3, ConcatEmptySeq DEF Cat
  <2> HIDE DEF none, w
  <2>4. /\ Cat(none, <<w>>) \in Seq(Widths) /\ Spelt(Cat(none, <<w>>), made)
        /\ Len(Encoded(Cat(none, <<w>>), made)) = Len(Encoded(none, made)) + w
    BY <1>2, <2>1, <2>2, SpeltGrows
  <2> QED BY <2>1, <2>2, <2>3, <2>4
<1>5. out \in Seq(Widths) /\ Spelt(out, made) /\ Len(Encoded(out, made)) <= MaxUnread
  <2>1. CASE b.pending
    BY <1>2, <1>4, <2>1
  <2>2. CASE ~b.pending
    <3>1. out = <<>>
      BY <2>2
    <3> HIDE DEF out
    <3> QED BY <1>1, <1>3, <3>1
  <2> QED BY <2>1, <2>2
<1> HIDE DEF out
<1>6. Fresh(n, made)
  BY <1>5 DEF Fresh, NormalRecords, States
<1>7. Lock(s, "idle") /\ Appending(s, n, MaxFed + 1)
  BY DEF FinishOutput, out
<1>8. MaxFed + 1 \in Nat
  BY <1>1
<1> HIDE DEF n, b
<1> QED BY <1>6, <1>7, <1>8, Appended
LEMMA Touched ==
    ASSUME BufferInv, NEW s \in Sessions
    PROVE  /\ \A x : Elsewhere(buffers, [buffers EXCEPT ![s] = x], s) /\ [buffers EXCEPT ![s] = x][s] = x
           /\ \A x : Elsewhere(appends, [appends EXCEPT ![s] = x], s) /\ [appends EXCEPT ![s] = x][s] = x
           /\ \A x : Elsewhere(told, [told EXCEPT ![s] = x], s) /\ [told EXCEPT ![s] = x][s] = x
           /\ Elsewhere(buffers, buffers, s) /\ Elsewhere(appends, appends, s) /\ Elsewhere(told, told, s)
BY DEF Elsewhere, BufferInv

LEMMA BufferReserveInv == ASSUME BufferInv, NEW s \in Sessions, Reserve(s) PROVE BufferInv'
<1> DEFINE b == buffers[s]
           a == appends[s]
           k == told[s]
           l == Len(a.bytes)
           got == Min({l - a.reserved, Budget - used})
           short == l - a.reserved - got
           gone == Ceiling(b.unread, short)
           rest == From(b.unread, gone)
           sum == a.reserved + got
           a1 == [a EXCEPT !.at = "extending", !.reserved = sum]
           a2 == [a EXCEPT !.reserved = sum, !.owed = gone]
           b2 == [b EXCEPT !.unread = rest, !.truncated = TRUE]
<1>1. SessionSound(b, a, k) /\ used \in Nat /\ used <= Budget /\ MaxUnread \in Nat /\ Budget \in Nat
  BY SessionFacts
<1>2. a.at = "reserving" /\ a.owed = 0 /\ used' = used + got /\ told' = told
  BY DEF Reserve, Lock
<1>3. \/ (short = 0 \/ b.unread = <<>>) /\ appends' = [appends EXCEPT ![s] = a1] /\ buffers' = buffers
      \/ /\ short # 0 /\ b.unread # <<>>
         /\ appends' = [appends EXCEPT ![s] = a2] /\ buffers' = [buffers EXCEPT ![s] = b2]
  <2> HIDE DEF got
  <2>1. IF short = 0 \/ b.unread = <<>>
        THEN appends' = [appends EXCEPT ![s].at = "extending", ![s].reserved = @ + got] /\ buffers' = buffers
        ELSE /\ appends' = [appends EXCEPT ![s].reserved = @ + got, ![s].owed = gone]
             /\ buffers' = [buffers EXCEPT ![s].unread = From(@, gone), ![s].truncated = TRUE]
    BY Zenon DEF Reserve, got
  <2>2. DOMAIN buffers = Sessions /\ DOMAIN appends = Sessions
    BY DEF BufferInv
  <2> HIDE DEF short, gone
  <2> QED BY <2>1, <2>2
<1> HIDE DEF b, a, k
<1>4. /\ DOMAIN b = BufferFields /\ DOMAIN a = AppendFields /\ b \in BufferRecords /\ a \in AppendRecords
  BY <1>1, RecordFields
<1>5. /\ Gapless(b.unread) /\ Len(b.unread) \in Nat /\ l \in Nat /\ Len(b.unread) + l <= MaxUnread /\ a.bytes # <<>>
      /\ a.reserved \in Nat /\ a.reserved <= l
  BY <1>1, <1>2, <1>4, GaplessBytes DEF SessionSound, UnderWay, AppendRecords
<1>6. got \in Nat /\ short \in Nat /\ used + got <= Budget /\ a.reserved + got <= l /\ (short # 0 <=> a.reserved + got < l)
  <2> DEFINE x == l - a.reserved
             y == Budget - used
  <2>1. x \in Nat /\ y \in Nat
    BY <1>1, <1>5
  <2> HIDE DEF x, y
  <2>2. got = IF x <= y THEN x ELSE y
    BY <2>1, LeastOfTwo DEF x, y
  <2> DEFINE r == a.reserved
  <2>3. r \in Nat /\ r <= l /\ l \in Nat /\ used \in Nat /\ Budget \in Nat /\ x = l - r /\ y = Budget - used
        /\ short = l - r - got
    BY <1>1, <1>5 DEF x, y
  <2> HIDE DEF got, l, r, short
  <2>4. got \in Nat /\ got <= x /\ got <= y
    BY <2>1, <2>2
  <2>5. got \in Nat /\ short \in Nat /\ used + got <= Budget /\ r + got <= l /\ (short # 0 <=> r + got < l)
    BY <2>3, <2>4
  <2> QED BY <2>5 DEF r
<1> HIDE DEF got, short, l
<1>7. CASE (short = 0 \/ b.unread = <<>>) /\ appends' = [appends EXCEPT ![s] = a1] /\ buffers' = buffers
  <2>1. /\ a1.at = "extending" /\ a1.bytes = a.bytes /\ a1.reserved = a.reserved + got /\ a1.owed = 0
        /\ a1 \in AppendRecords
    <3>1. sum \in Nat
      BY <1>5, <1>6
    <3> HIDE DEF sum
    <3>2. /\ a1.at = "extending" /\ a1.bytes = a.bytes /\ a1.reserved = sum /\ a1.owed = 0 /\ a1 \in AppendRecords
      BY <1>2, <1>4, <3>1 DEF AppendRecords, AppendFields
    <3> QED BY <3>2 DEF sum
  <2> HIDE DEF a1
  <2>2. UnderWay(b, a1)
    BY <1>5, <1>6, <1>7, <2>1 DEF UnderWay, l
  <2>3. Following(b, a1, k)
    BY <1>1, <2>1 DEF SessionSound, Following
  <2>4. SessionSound(b, a1, k)
    BY <1>1, <2>1, <2>2, <2>3 DEF SessionSound
  <2>5. HeldIn(b, a1) = HeldIn(b, a) + got
    BY <1>2, <1>5, <1>6, <2>1 DEF HeldIn
  <2>6. HeldIn(b, a) \in Nat
    BY <1>1, HeldTyped
  <2>7. Elsewhere(buffers, buffers', s) /\ Elsewhere(appends, appends', s) /\ Elsewhere(told, told', s)
        /\ buffers'[s] = b /\ appends'[s] = a1 /\ told'[s] = k
    BY <1>2, <1>7, Touched DEF b, k
  <2>8. used' = used + HeldIn(b, a1) - HeldIn(b, a) /\ used' <= Budget
    BY <1>1, <1>2, <1>6, <2>5, <2>6
  <2> QED BY <2>4, <2>7, <2>8, SessionMoves DEF b, a
<1>8. CASE /\ short # 0 /\ b.unread # <<>>
           /\ appends' = [appends EXCEPT ![s] = a2] /\ buffers' = [buffers EXCEPT ![s] = b2]
  <2>1. gone \in Boundaries(b.unread) /\ gone \in 0..Len(b.unread)
    BY <1>5, <1>6, CeilingIs, GaplessBytes
  <2> HIDE DEF gone
  <2>2. /\ Gapless(rest) /\ Len(rest) = Len(b.unread) - gone /\ (rest # <<>> <=> gone < Len(b.unread))
        /\ gone < Len(b.unread) => Newest(rest) = Newest(b.unread)
    BY <1>5, <2>1, GaplessFrom
  <2> HIDE DEF rest
  <2>3. gone \in Nat /\ Len(rest) \in Nat /\ Len(rest) + l <= MaxUnread
    BY <1>1, <1>5, <2>1, <2>2
  <2>4. /\ a2.at = "reserving" /\ a2.bytes = a.bytes /\ a2.reserved = a.reserved + got /\ a2.owed = gone
        /\ a2 \in AppendRecords
    <3>1. sum \in Nat
      BY <1>5, <1>6
    <3> HIDE DEF sum
    <3>2. /\ a2.at = "reserving" /\ a2.bytes = a.bytes /\ a2.reserved = sum /\ a2.owed = gone /\ a2 \in AppendRecords
      BY <1>2, <1>4, <2>3, <3>1 DEF AppendRecords, AppendFields
    <3> QED BY <3>2 DEF sum
  <2>5. b2.unread = rest /\ b2.truncated /\ b2.open = b.open /\ b2.pending = b.pending /\ b2 \in BufferRecords
    <3>1. rest \in Seq(Byte)
      BY <2>2 DEF Gapless
    <3> QED BY <1>4, <3>1 DEF BufferRecords, BufferFields
  <2> HIDE DEF a2, b2
  <2>6. UnderWay(b2, a2)
    BY <1>5, <1>6, <2>4 DEF UnderWay, l
  <2>7. Following(b2, a2, k)
    <3>1. rest # <<>> => Newest(rest) = Newest(b.unread)
      BY <2>2
    <3> QED BY <1>1, <1>5, <1>8, <2>4, <2>5, <3>1 DEF SessionSound, Following
  <2>8. SessionSound(b2, a2, k)
    BY <1>1, <2>2, <2>3, <2>4, <2>5, <2>6, <2>7 DEF SessionSound, l
  <2>9. HeldIn(b2, a2) = HeldIn(b, a) + got
    <3>1. Len(rest) + (a.reserved + got) + gone = Len(b.unread) + a.reserved + 0 + got
      BY <1>5, <1>6, <2>1, <2>2
    <3> QED BY <1>2, <2>4, <2>5, <3>1 DEF HeldIn
  <2>10. HeldIn(b, a) \in Nat
    BY <1>1, HeldTyped
  <2>11. Elsewhere(buffers, buffers', s) /\ Elsewhere(appends, appends', s) /\ Elsewhere(told, told', s)
         /\ buffers'[s] = b2 /\ appends'[s] = a2 /\ told'[s] = k
    BY <1>2, <1>8, Touched DEF k
  <2>12. used' = used + HeldIn(b2, a2) - HeldIn(b, a) /\ used' <= Budget
    BY <1>1, <1>2, <1>6, <2>9, <2>10
  <2> QED BY <2>8, <2>11, <2>12, SessionMoves DEF b, a
<1> QED BY <1>3, <1>7, <1>8

LEMMA BufferReleaseInv == ASSUME BufferInv, NEW s \in Sessions, Release(s) PROVE BufferInv'
<1> DEFINE b == buffers[s]
           a == appends[s]
           k == told[s]
           at == IF a.at = "taking" THEN "idle" ELSE a.at
           a2 == [a EXCEPT !.owed = 0, !.at = at]
<1>1. SessionSound(b, a, k) /\ used \in Nat /\ used <= Budget /\ Budget \in Nat
  BY SessionFacts
<1>2. /\ a.owed > 0 /\ buffers' = buffers /\ told' = told /\ used' = used - a.owed
      /\ appends' = [appends EXCEPT ![s] = a2]
  BY DEF Release, BufferInv
<1> HIDE DEF b, a, k
<1>3. DOMAIN a = AppendFields /\ a \in AppendRecords
  BY <1>1, RecordFields
<1>4. a.at \in {"reserving", "taking"} /\ a.owed \in Nat /\ a.reserved \in Nat /\ Len(b.unread) \in Nat
  <2>1. a.at # "idle"
    BY <1>1, <1>2 DEF SessionSound, UnderWay, Unused
  <2>2. a.at # "extending"
    BY <1>1, <1>2 DEF SessionSound, UnderWay
  <2> QED BY <1>1, <1>3, <2>1, <2>2, GaplessBytes DEF SessionSound, AppendRecords
<1>5. /\ a2.at = at /\ a2.bytes = a.bytes /\ a2.reserved = a.reserved /\ a2.owed = 0 /\ DOMAIN a2 = AppendFields
      /\ a2 \in AppendRecords
  BY <1>3, <1>4 DEF AppendRecords, AppendFields
<1>6. a.at = "taking" => a2 = Unused
  <2> SUFFICES ASSUME a.at = "taking" PROVE a2 = Unused
    OBVIOUS
  <2>1. a.bytes = <<>> /\ a.reserved = 0
    BY <1>1 DEF SessionSound, UnderWay
  <2>2. a2.at = "idle" /\ a2.bytes = <<>> /\ a2.reserved = 0 /\ a2.owed = 0
    BY <1>5, <2>1
  <2> HIDE DEF a2
  <2>3. a2 = [at |-> a2.at, bytes |-> a2.bytes, reserved |-> a2.reserved, owed |-> a2.owed]
    BY <1>5 DEF AppendRecords
  <2> QED BY <2>2, <2>3 DEF Unused
<1> HIDE DEF a2
<1>7. UnderWay(b, a2)
  <2>1. CASE a.at = "taking"
    <3>1. a2 = Unused /\ a2.at = "idle" /\ a2.bytes = a.bytes /\ a2.reserved = a.reserved
      BY <1>5, <1>6, <2>1
    <3>2. a.reserved <= Len(a.bytes)
      BY <1>1 DEF SessionSound, UnderWay
    <3> QED BY <3>1, <3>2 DEF UnderWay
  <2>2. CASE a.at = "reserving"
    <3>1. a2.at = "reserving"
      BY <1>5, <2>2
    <3> QED BY <1>1, <1>5, <2>2, <3>1 DEF SessionSound, UnderWay
  <2> QED BY <1>4, <2>1, <2>2
<1>8. Following(b, a2, k)
  BY <1>1, <1>5 DEF SessionSound, Following
<1>9. SessionSound(b, a2, k)
  BY <1>1, <1>5, <1>7, <1>8 DEF SessionSound
<1>10. HeldIn(b, a2) = HeldIn(b, a) - a.owed
  BY <1>4, <1>5 DEF HeldIn
<1>11. HeldIn(b, a) \in Nat
  BY <1>1, HeldTyped
<1>12. /\ Elsewhere(buffers, buffers', s) /\ Elsewhere(appends, appends', s) /\ Elsewhere(told, told', s)
       /\ buffers'[s] = b /\ appends'[s] = a2 /\ told'[s] = k
  BY <1>2, Touched DEF b, k
<1>13. used' = used + HeldIn(b, a2) - HeldIn(b, a) /\ used' <= Budget
  BY <1>1, <1>2, <1>4, <1>10, <1>11
<1> QED BY <1>9, <1>12, <1>13, SessionMoves DEF b, a
LEMMA BufferExtendInv == ASSUME BufferInv, NEW s \in Sessions, Extend(s) PROVE BufferInv'
<1> DEFINE b == buffers[s]
           a == appends[s]
           k == told[s]
           l == Len(a.bytes)
           start == SuffixStart(a.bytes, a.reserved)
           y == From(a.bytes, start)
           all == Cat(b.unread, y)
           b2 == [b EXCEPT !.unread = all, !.truncated = @ \/ start > 0]
<1>1. SessionSound(b, a, k) /\ used \in Nat /\ used <= Budget /\ MaxUnread \in Nat /\ Budget \in Nat
  BY SessionFacts
<1>2. /\ a.at = "extending" /\ told' = told /\ used' = used - (a.reserved - (l - start))
      /\ buffers' = [buffers EXCEPT ![s] = b2] /\ appends' = [appends EXCEPT ![s] = Unused]
  <2> HIDE DEF start
  <2>1. /\ buffers' = [buffers EXCEPT ![s].unread = @ \o y, ![s].truncated = @ \/ start > 0]
        /\ appends' = [appends EXCEPT ![s] = Unused] /\ used' = used - (a.reserved - (l - start)) /\ told' = told
        /\ a.at = "extending"
    BY Zenon DEF Extend, Lock, start
  <2>2. DOMAIN buffers = Sessions
    BY DEF BufferInv
  <2> HIDE DEF y
  <2> QED BY <2>1, <2>2 DEF Cat
<1> HIDE DEF b, a, k
<1>3. DOMAIN b = BufferFields /\ b \in BufferRecords /\ a \in AppendRecords
  BY <1>1, RecordFields
<1>4. /\ Gapless(b.unread) /\ Gapless(a.bytes) /\ Len(b.unread) \in Nat /\ l \in Nat /\ Len(b.unread) + l <= MaxUnread
      /\ a.bytes # <<>> /\ a.reserved \in Nat /\ a.owed = 0 /\ (a.reserved < l => b.unread = <<>>)
      /\ (b.unread = <<>> <=> Len(b.unread) = 0) /\ l # 0
  BY <1>1, <1>2, <1>3, GaplessBytes DEF SessionSound, UnderWay, AppendRecords
<1>5. start \in Boundaries(a.bytes) /\ start \in 0..l /\ l - start <= a.reserved /\ (l <= a.reserved => start = 0)
  BY <1>4, SuffixIs, GaplessBytes
<1> HIDE DEF start
<1>6. /\ Gapless(y) /\ Len(y) = l - start /\ (y # <<>> <=> start < l)
      /\ start < l => Newest(y) = Newest(a.bytes)
      /\ start = 0 => y = a.bytes
  BY <1>4, <1>5, GaplessFrom
<1> HIDE DEF y
<1>7. /\ Newest(a.bytes) = k.made /\ (b.unread # <<>> => Oldest(a.bytes) = Newest(b.unread) + 1)
      /\ \/ b.truncated \/ ~b.open
         \/ k.known + 1 = IF b.unread # <<>> THEN Oldest(b.unread) ELSE Oldest(a.bytes)
  BY <1>1, <1>4 DEF SessionSound, Following
<1>8. /\ Gapless(all) /\ Len(all) = Len(b.unread) + (l - start)
      /\ all # <<>> => Newest(all) = k.made
      /\ b.truncated \/ start > 0 \/ ~b.open \/ k.known + 1 = (IF all # <<>> THEN Oldest(all) ELSE k.made + 1)
  <2>1. CASE start = 0
    <3>1. y = a.bytes /\ y # <<>> /\ (b.unread # <<>> => Oldest(y) = Newest(b.unread) + 1)
      BY <1>4, <1>6, <1>7, <2>1
    <3>2. /\ Gapless(all) /\ Len(all) = Len(b.unread) + Len(y) /\ Newest(all) = Newest(y) /\ all # <<>>
          /\ Oldest(all) = IF b.unread # <<>> THEN Oldest(b.unread) ELSE Oldest(y)
      BY <1>4, <1>6, <3>1, GaplessJoined
    <3> HIDE DEF all
    <3> QED BY <1>6, <1>7, <3>1, <3>2
  <2>2. CASE start # 0
    <3>1. start > 0 /\ b.unread = <<>>
      BY <1>4, <1>5, <2>2
    <3>2. all = y
      <4>1. y \in Seq(Byte)
        BY <1>6 DEF Gapless
      <4> QED BY <3>1, <4>1, ConcatEmptySeq DEF Cat
    <3> HIDE DEF all
    <3>3. all # <<>> => start < l
      BY <1>6, <3>2
    <3>4. Len(all) = Len(b.unread) + (l - start)
      BY <1>4, <1>5, <1>6, <3>1, <3>2
    <3> QED BY <1>6, <1>7, <3>1, <3>2, <3>3, <3>4
  <2> QED BY <2>1, <2>2
<1> HIDE DEF all
<1>9. /\ b2.unread = all /\ b2.truncated = (b.truncated \/ start > 0) /\ b2.open = b.open /\ b2.pending = b.pending
      /\ b2 \in BufferRecords
  <2>1. all \in Seq(Byte)
    BY <1>8 DEF Gapless
  <2> DEFINE cut == start > 0
  <2>2. cut \in BOOLEAN
    OBVIOUS
  <2> HIDE DEF cut
  <2>3. /\ b2.unread = all /\ b2.truncated = (b.truncated \/ cut) /\ b2.open = b.open /\ b2.pending = b.pending
        /\ b2 \in BufferRecords
    BY <1>3, <2>1, <2>2 DEF BufferRecords, BufferFields, cut
  <2> QED BY <2>3 DEF cut
<1>10. Unused.at = "idle" /\ Unused.bytes = <<>> /\ Unused.reserved = 0 /\ Unused.owed = 0 /\ Unused \in AppendRecords
       /\ Gapless(<<>>) /\ Len(<<>>) = 0
  BY DEF Unused, AppendRecords, Gapless
<1> HIDE DEF b2
<1>11. UnderWay(b2, Unused)
  BY <1>10 DEF UnderWay
<1>12. Following(b2, Unused, k)
  <2>1. b2.truncated \/ ~b2.open \/ k.known + 1 = (IF b2.unread # <<>> THEN Oldest(b2.unread) ELSE k.made + 1)
    BY <1>8, <1>9, Zenon
  <2> QED BY <1>8, <1>9, <1>10, <2>1, Zenon DEF Following
<1>13. Len(b2.unread) + Len(Unused.bytes) <= MaxUnread
  <2> DEFINE p == Len(all)
             q == Len(b.unread)
  <2>0. l \in Nat /\ q \in Nat /\ q + l <= MaxUnread /\ start \in 0..l /\ p = q + (l - start)
    BY <1>4, <1>5, <1>8
  <2> HIDE DEF p, q, l
  <2>1. p + 0 <= MaxUnread
    BY <1>1, <2>0
  <2> QED BY <1>9, <1>10, <2>1 DEF p
<1>14. SessionSound(b2, Unused, k)
  BY <1>1, <1>8, <1>9, <1>10, <1>11, <1>12, <1>13 DEF SessionSound
<1>15. HeldIn(b2, Unused) = HeldIn(b, a) - (a.reserved - (l - start)) /\ (l - start) - a.reserved <= 0
       /\ (a.reserved - (l - start)) \in Nat
  <2> DEFINE p == Len(all)
             q == Len(b.unread)
             r == a.reserved
  <2>0. l \in Nat /\ q \in Nat /\ r \in Nat /\ start \in 0..l /\ l - start <= r /\ p = q + (l - start)
    BY <1>4, <1>5, <1>8
  <2>1. HeldIn(b2, Unused) = p + 0 + 0 /\ HeldIn(b, a) = q + r + 0
    BY <1>4, <1>9, <1>10, Zenon DEF HeldIn
  <2> HIDE DEF p, q, r, l
  <2>2. /\ p + 0 + 0 = (q + r + 0) - (r - (l - start))
        /\ (l - start) - r <= 0 /\ (r - (l - start)) \in Nat
    BY <2>0
  <2> QED BY <2>1, <2>2 DEF r
<1>16. HeldIn(b, a) \in Nat
  BY <1>1, HeldTyped
<1>17. /\ Elsewhere(buffers, buffers', s) /\ Elsewhere(appends, appends', s) /\ Elsewhere(told, told', s)
       /\ buffers'[s] = b2 /\ appends'[s] = Unused /\ told'[s] = k
  BY <1>2, Touched DEF k
<1>18. used' = used + HeldIn(b2, Unused) - HeldIn(b, a) /\ used' <= Budget
  <2> DEFINE d == a.reserved - (l - start)
  <2>1. d \in Nat /\ used' = used - d /\ HeldIn(b2, Unused) = HeldIn(b, a) - d
    BY <1>2, <1>15
  <2> HIDE DEF d
  <2> QED BY <1>1, <1>16, <2>1
<1> QED BY <1>14, <1>17, <1>18, SessionMoves DEF b, a

LEMMA BufferTakeInv == ASSUME BufferInv, NEW s \in Sessions, NEW n \in Limits, TakeOutput(s, n) PROVE BufferInv'
<1> DEFINE b == buffers[s]
           a == appends[s]
           k == told[s]
           u == b.unread
           cut == Floor(u, n)
           rest == From(u, cut)
           taken == Cardinality({u[i].char : i \in 1..cut})
           known == CASE ~b.truncated -> k.known + taken
                      [] b.truncated /\ rest # <<>> -> rest[1].char - 1
                      [] OTHER -> k.made
           b2 == [b EXCEPT !.unread = rest, !.truncated = FALSE]
           a2 == IF cut = 0 THEN Unused ELSE [Unused EXCEPT !.at = "taking", !.owed = cut]
           k2 == [k EXCEPT !.known = known]
<1>1. SessionSound(b, a, k) /\ used \in Nat /\ used <= Budget /\ MaxUnread \in Nat /\ Budget \in Nat /\ n \in Nat
  BY SessionFacts, BufferAssumption
<1>2. /\ b.open /\ a.at = "idle" /\ used' = used
      /\ buffers' = [buffers EXCEPT ![s] = b2] /\ appends' = [appends EXCEPT ![s] = a2]
      /\ told' = [told EXCEPT ![s] = k2]
  <2> HIDE DEF cut
  <2>1. /\ b.open /\ a.at = "idle" /\ used' = used
        /\ buffers' = [buffers EXCEPT ![s].unread = rest, ![s].truncated = FALSE]
        /\ appends' = [appends EXCEPT ![s] = IF cut = 0 THEN Unused ELSE [Unused EXCEPT !.at = "taking", !.owed = cut]]
        /\ told' = [told EXCEPT ![s].known =
              CASE ~b.truncated -> @ + taken
                [] b.truncated /\ rest # <<>> -> rest[1].char - 1
                [] OTHER -> told[s].made]
    BY Zenon DEF TakeOutput, Lock, cut
  <2>2. DOMAIN buffers = Sessions /\ DOMAIN told = Sessions
    BY DEF BufferInv
  <2> HIDE DEF rest, taken
  <2> QED BY <2>1, <2>2
<1> HIDE DEF b, a, k
<1>3. DOMAIN b = BufferFields /\ b \in BufferRecords /\ DOMAIN k = {"made", "known"} /\ k \in ToldRecords
  BY <1>1, RecordFields
<1>4. /\ a = Unused /\ a.bytes = <<>> /\ a.reserved = 0 /\ a.owed = 0
      /\ k.made \in Nat /\ k.known \in Nat /\ k.known <= k.made
  <2>1. a = Unused /\ k.known <= k.made
    BY <1>1, <1>2 DEF SessionSound, UnderWay
  <2> QED BY <1>3, <2>1 DEF Unused, ToldRecords
<1>5. Gapless(u) /\ Len(u) \in Nat /\ Len(u) <= MaxUnread /\ (u = <<>> <=> Len(u) = 0)
  <2>1. Gapless(u) /\ Len(u) + Len(a.bytes) <= MaxUnread /\ Len(a.bytes) = 0
    BY <1>1, <1>4 DEF SessionSound
  <2> QED BY <1>1, <2>1, GaplessBytes
<1>6. /\ u # <<>> => Newest(u) = k.made
      /\ \/ b.truncated
         \/ k.known + 1 = IF u # <<>> THEN Oldest(u) ELSE k.made + 1
  BY <1>1, <1>2, <1>4 DEF SessionSound, Following
<1> HIDE DEF u
<1>7. cut \in Boundaries(u) /\ cut \in 0..Len(u)
  BY <1>1, <1>5, FloorIs, GaplessBytes
<1> HIDE DEF cut
<1>8. /\ Gapless(rest) /\ Len(rest) = Len(u) - cut /\ (rest # <<>> <=> cut < Len(u))
      /\ cut < Len(u) => Newest(rest) = Newest(u) /\ Oldest(rest) = u[cut + 1].char
      /\ cut = 0 => rest = u
  BY <1>5, <1>7, GaplessFrom
<1> HIDE DEF rest
<1>9. rest # <<>> => Newest(rest) = k.made /\ Oldest(rest) \in Nat \ {0} /\ Oldest(rest) <= k.made
  BY <1>5, <1>6, <1>7, <1>8, GaplessBytes, GaplessChars
<1>10. ~b.truncated => k.known + taken + 1 = (IF rest # <<>> THEN Oldest(rest) ELSE k.made + 1) /\ taken \in Nat
  <2> SUFFICES ASSUME ~b.truncated
               PROVE  k.known + taken + 1 = (IF rest # <<>> THEN Oldest(rest) ELSE k.made + 1) /\ taken \in Nat
    OBVIOUS
  <2>1. CASE cut = 0
    <3>1. {u[i].char : i \in 1..cut} = {}
      BY <2>1
    <3>2. taken = 0
      BY <3>1, FS_EmptySet
    <3> HIDE DEF taken
    <3> QED BY <1>4, <1>6, <1>8, <2>1, <3>2
  <2>2. CASE cut # 0
    <3>1. cut \in 1..Len(u) /\ u # <<>>
      BY <1>5, <1>7, <2>2
    <3>2. taken = u[cut].char - Oldest(u) + 1 /\ Oldest(u) <= u[cut].char
      BY <1>5, <3>1, PrefixCount, PrefixChars
    <3>3. u[cut].char \in Nat /\ Oldest(u) \in Nat /\ k.known + 1 = Oldest(u)
      BY <1>5, <1>6, <3>1, GaplessBytes
    <3> DEFINE c == u[cut].char
               o == Oldest(u)
    <3>4. taken \in Nat /\ k.known + taken + 1 = c + 1
      <4> HIDE DEF c, o, taken
      <4> DEFINE seen == k.known
      <4>1. taken = c - o + 1 /\ c \in Nat /\ o \in Nat /\ o <= c /\ seen + 1 = o /\ seen \in Nat
        BY <1>4, <3>2, <3>3 DEF c, o
      <4> HIDE DEF seen
      <4>2. taken \in Nat /\ seen + taken + 1 = c + 1
        BY <4>1
      <4> QED BY <4>2 DEF seen
    <3>5. CASE cut < Len(u)
      <4>1. cut + 1 \in 2..Len(u) /\ (cut + 1) - 1 = cut
        BY <1>5, <3>1, <3>5
      <4>2. u[cut + 1].lead
        BY <1>7, <3>5 DEF Boundaries
      <4>3. u[cut + 1].char = u[cut].char + 1
        BY <1>5, <4>1, <4>2 DEF Gapless
      <4> HIDE DEF taken
      <4> QED BY <1>8, <3>4, <3>5, <4>3
    <3>6. CASE cut = Len(u)
      <4>1. c = k.made
        BY <1>6, <3>1, <3>6 DEF Newest
      <4> HIDE DEF taken
      <4> QED BY <1>5, <1>8, <3>4, <3>6, <4>1
    <3> QED BY <1>5, <3>1, <3>5, <3>6
  <2> QED BY <2>1, <2>2
<1> HIDE DEF taken
<1>11. known \in Nat /\ known + 1 = (IF rest # <<>> THEN Oldest(rest) ELSE k.made + 1) /\ known <= k.made
  <2>1. known \in Nat /\ known + 1 = (IF rest # <<>> THEN Oldest(rest) ELSE k.made + 1)
    <3>1. CASE ~b.truncated
      <4>1. known = k.known + taken
        BY <3>1
      <4> HIDE DEF known
      <4> QED BY <1>4, <1>10, <3>1, <4>1
    <3>2. CASE b.truncated /\ rest # <<>>
      <4>1. known = Oldest(rest) - 1
        BY <3>2 DEF Oldest
      <4> HIDE DEF known
      <4> QED BY <1>9, <3>2, <4>1
    <3>3. CASE b.truncated /\ rest = <<>>
      <4>1. known = k.made
        BY <3>3
      <4> HIDE DEF known
      <4> QED BY <1>4, <3>3, <4>1
    <3> QED BY <3>1, <3>2, <3>3
  <2> HIDE DEF known
  <2> QED BY <1>4, <1>9, <2>1
<1> HIDE DEF known
<1>12. b2.unread = rest /\ b2.truncated = FALSE /\ b2.open = b.open /\ b2.pending = b.pending /\ b2 \in BufferRecords
  <2>1. rest \in Seq(Byte)
    BY <1>8 DEF Gapless
  <2> QED BY <1>3, <2>1 DEF BufferRecords, BufferFields
<1>13. k2.made = k.made /\ k2.known = known /\ k2 \in ToldRecords
  BY <1>3, <1>11 DEF ToldRecords
<1>14. /\ a2.bytes = <<>> /\ a2.reserved = 0 /\ a2.owed = cut /\ a2 \in AppendRecords
       /\ (a2.at = "taking" \/ (a2 = Unused /\ a2.at = "idle")) /\ Gapless(<<>>) /\ Len(<<>>) = 0
  <2>1. cut \in Nat
    BY <1>5, <1>7
  <2>2. Gapless(<<>>) /\ Len(<<>>) = 0
    BY DEF Gapless
  <2>3. CASE cut = 0
    BY <2>1, <2>2, <2>3 DEF Unused, AppendRecords
  <2>4. CASE cut # 0
    <3>1. a2 = [at |-> "taking", bytes |-> <<>>, reserved |-> 0, owed |-> cut]
      BY <2>4 DEF Unused
    <3> HIDE DEF a2
    <3>2. <<>> \in Seq(Byte)
      OBVIOUS
    <3> QED BY <2>1, <2>2, <3>1, <3>2 DEF AppendRecords
  <2> QED BY <2>3, <2>4
<1> HIDE DEF a2, b2, k2
<1>15. UnderWay(b2, a2)
  BY <1>14 DEF UnderWay
<1>16. Following(b2, a2, k2)
  <2>1. k2.known + 1 = (IF b2.unread # <<>> THEN Oldest(b2.unread) ELSE k2.made + 1)
    BY <1>11, <1>12, <1>13
  <2> QED BY <1>9, <1>12, <1>13, <1>14, <2>1, Zenon DEF Following
<1>17. Len(b2.unread) + Len(a2.bytes) <= MaxUnread
  <2>1. Len(rest) + 0 <= MaxUnread
    BY <1>1, <1>5, <1>7, <1>8
  <2> QED BY <1>12, <1>14, <2>1
<1>18. SessionSound(b2, a2, k2)
  <2>1. k2.known <= k2.made /\ Gapless(b2.unread) /\ Gapless(a2.bytes) /\ (b2.pending => 3 <= MaxUnread)
    BY <1>1, <1>8, <1>11, <1>12, <1>13, <1>14 DEF SessionSound
  <2> QED BY <1>12, <1>13, <1>14, <1>15, <1>16, <1>17, <2>1 DEF SessionSound
<1>19. HeldIn(b2, a2) = HeldIn(b, a)
  <2>1. Len(rest) + 0 + cut = Len(u) + 0 + 0
    BY <1>5, <1>7, <1>8
  <2> QED BY <1>4, <1>12, <1>14, <2>1 DEF HeldIn, u
<1>20. HeldIn(b, a) \in Nat
  BY <1>1, HeldTyped
<1>21. /\ Elsewhere(buffers, buffers', s) /\ Elsewhere(appends, appends', s) /\ Elsewhere(told, told', s)
       /\ buffers'[s] = b2 /\ appends'[s] = a2 /\ told'[s] = k2
  BY <1>2, Touched
<1>22. used' = used + HeldIn(b2, a2) - HeldIn(b, a) /\ used' <= Budget
  BY <1>1, <1>2, <1>19, <1>20
<1> QED BY <1>18, <1>21, <1>22, SessionMoves DEF b, a
LEMMA BufferDropInv == ASSUME BufferInv, NEW s \in Sessions, DropBuffer(s) PROVE BufferInv'
<1> DEFINE b == buffers[s]
           a == appends[s]
           k == told[s]
           l == Len(b.unread)
           b2 == [b EXCEPT !.open = FALSE, !.unread = <<>>]
<1>1. SessionSound(b, a, k) /\ used \in Nat /\ used <= Budget /\ MaxUnread \in Nat /\ Budget \in Nat
  BY SessionFacts
<1>2. /\ a.at = "idle" /\ used' = used - l /\ appends' = appends /\ told' = told
      /\ buffers' = [buffers EXCEPT ![s] = b2]
  BY DEF DropBuffer, Lock, BufferInv
<1> HIDE DEF b, a, k
<1>3. DOMAIN b = BufferFields /\ b \in BufferRecords
  BY <1>1, RecordFields
<1>4. /\ a = Unused /\ a.bytes = <<>> /\ a.reserved = 0 /\ a.owed = 0 /\ l \in Nat
      /\ Gapless(<<>>) /\ Len(<<>>) = 0
  <2>1. a = Unused /\ Gapless(b.unread)
    BY <1>1, <1>2 DEF SessionSound, UnderWay
  <2> QED BY <2>1, GaplessBytes DEF Unused, Gapless
<1>5. b2.unread = <<>> /\ b2.open = FALSE /\ b2.pending = b.pending /\ b2 \in BufferRecords
  <2>1. <<>> \in Seq(Byte)
    OBVIOUS
  <2> QED BY <1>3, <2>1 DEF BufferRecords, BufferFields
<1> HIDE DEF b2, l
<1>6. UnderWay(b2, a)
  BY <1>2, <1>4 DEF UnderWay
<1>7. Following(b2, a, k)
  BY <1>4, <1>5 DEF Following
<1>8. SessionSound(b2, a, k)
  BY <1>1, <1>4, <1>5, <1>6, <1>7 DEF SessionSound
<1>9. HeldIn(b2, a) = 0 /\ HeldIn(b, a) = l
  BY <1>4, <1>5 DEF HeldIn, l
<1>10. /\ Elsewhere(buffers, buffers', s) /\ Elsewhere(appends, appends', s) /\ Elsewhere(told, told', s)
       /\ buffers'[s] = b2 /\ appends'[s] = a /\ told'[s] = k
  BY <1>2, Touched DEF a, k
<1>11. used' = used + HeldIn(b2, a) - HeldIn(b, a) /\ used' <= Budget
  BY <1>1, <1>2, <1>4, <1>9
<1> QED BY <1>8, <1>10, <1>11, SessionMoves DEF b, a

LEMMA BufferInvInit == ASSUME BufferInit PROVE BufferInv
<1>1. ASSUME NEW s \in Sessions
      PROVE  SessionSound(buffers[s], appends[s], told[s]) /\ Held(s) = 0
  <2> DEFINE b == buffers[s]
             a == appends[s]
             k == told[s]
  <2>1. /\ b = [state |-> "Ground", pending |-> FALSE, unread |-> <<>>, truncated |-> FALSE, fed |-> 0, open |-> TRUE]
        /\ a = Unused /\ k = [made |-> 0, known |-> 0]
    BY DEF BufferInit
  <2> HIDE DEF b, a, k
  <2>2. <<>> \in Seq(Byte) /\ Gapless(<<>>) /\ Len(<<>>) = 0
    BY DEF Gapless
  <2>3. b \in BufferRecords /\ b.unread = <<>> /\ b.pending = FALSE /\ b.truncated = FALSE /\ b.open = TRUE
    BY <2>1, <2>2 DEF BufferRecords
  <2>4. a \in AppendRecords /\ a.at = "idle" /\ a.bytes = <<>> /\ a.reserved = 0 /\ a.owed = 0
    BY <2>1, <2>2 DEF Unused, AppendRecords
  <2>5. k \in ToldRecords /\ k.made = 0 /\ k.known = 0
    BY <2>1 DEF ToldRecords
  <2>6. UnderWay(b, a)
    BY <2>1, <2>2, <2>4 DEF UnderWay
  <2>7. Following(b, a, k)
    BY <2>3, <2>4, <2>5 DEF Following
  <2>8. SessionSound(b, a, k)
    <3>1. 0 + 0 <= MaxUnread /\ 0 <= 0
      BY BufferAssumption
    <3> QED BY <2>2, <2>3, <2>4, <2>5, <2>6, <2>7, <3>1 DEF SessionSound
  <2>9. Held(s) = 0
    BY <2>2, <2>3, <2>4 DEF Held, b, a
  <2> QED BY <2>8, <2>9 DEF b, a, k
<1>2. BudgetExact
  <2> DEFINE f == [s \in Sessions |-> Held(s)]
  <2>1. f \in [Sessions -> Nat] /\ \A s \in Sessions : f[s] = 0
    BY <1>1
  <2> HIDE DEF f
  <2>2. SumFunction(f) = 0
    BY <2>1, SumZero, BufferAssumption
  <2>3. used = 0 /\ 0 <= Budget
    BY BufferAssumption DEF BufferInit
  <2> QED BY <2>2, <2>3 DEF BudgetExact, f
<1>3. DOMAIN buffers = Sessions /\ DOMAIN appends = Sessions /\ DOMAIN told = Sessions
  BY DEF BufferInit
<1> QED BY <1>1, <1>2, <1>3 DEF BufferInv

LEMMA BufferInvStep == ASSUME BufferInv, BufferNext \/ UNCHANGED bufferVars PROVE BufferInv'
<1>1. ASSUME NEW s \in Sessions, NEW chunk \in Chunks, AppendOutput(s, chunk) PROVE BufferInv'
  BY <1>1, BufferAppendInv
<1>2. ASSUME NEW s \in Sessions, FinishOutput(s) \/ Reserve(s) \/ Release(s) \/ Extend(s) \/ DropBuffer(s)
      PROVE  BufferInv'
  BY <1>2, BufferFinishInv, BufferReserveInv, BufferReleaseInv, BufferExtendInv, BufferDropInv
<1>3. ASSUME NEW s \in Sessions, NEW n \in Limits, TakeOutput(s, n) PROVE BufferInv'
  BY <1>3, BufferTakeInv
<1>4. CASE UNCHANGED bufferVars
  BY <1>4 DEF bufferVars, BufferInv, BudgetExact, Held
<1> QED BY <1>1, <1>2, <1>3, <1>4, Zenon DEF BufferNext

LEMMA BufferWhole ==
    ASSUME BufferInv, NEW s \in Sessions, buffers[s].open
    PROVE  LET unread == buffers[s].unread
               chars == {unread[i].char : i \in DOMAIN unread}
               coming == {appends[s].bytes[i].char : i \in DOMAIN appends[s].bytes}
           IN /\ appends[s].at = "idle" /\ unread # <<>> => Max(chars) = told[s].made
              /\ \/ buffers[s].truncated
                 \/ Min(chars \cup coming \cup {told[s].made + 1}) = told[s].known + 1
<1> DEFINE b == buffers[s]
           a == appends[s]
           k == told[s]
           u == b.unread
           v == a.bytes
           chars == {u[i].char : i \in DOMAIN u}
           coming == {v[i].char : i \in DOMAIN v}
           all == chars \cup coming \cup {k.made + 1}
<1>1. SessionSound(b, a, k)
  BY SessionFacts
<1>2. Gapless(u) /\ Gapless(v) /\ k.made \in Nat /\ k.known \in Nat
  BY <1>1 DEF SessionSound, ToldRecords
<1>3. /\ v # <<>> => Newest(v) = k.made /\ (u # <<>> => Oldest(v) = Newest(u) + 1)
      /\ v = <<>> /\ u # <<>> => Newest(u) = k.made
      /\ \/ b.truncated
         \/ k.known + 1 = IF u # <<>> THEN Oldest(u) ELSE IF v # <<>> THEN Oldest(v) ELSE k.made + 1
  BY <1>1 DEF SessionSound, Following
<1>4. a.at = "idle" => v = <<>>
  BY <1>1 DEF SessionSound, UnderWay, Unused
<1> HIDE DEF b, a, k, u, v
<1>5. /\ u # <<>> => chars = Oldest(u)..Newest(u) /\ Oldest(u) <= Newest(u)
                     /\ Oldest(u) \in Nat /\ Newest(u) \in Nat
      /\ u = <<>> => chars = {}
  BY <1>2, GaplessChars, GaplessBytes
<1>6. /\ v # <<>> => coming = Oldest(v)..Newest(v) /\ Oldest(v) <= Newest(v)
                     /\ Oldest(v) \in Nat /\ Newest(v) \in Nat
      /\ v = <<>> => coming = {}
  BY <1>2, GaplessChars, GaplessBytes
<1> HIDE DEF chars, coming
<1>7. ASSUME a.at = "idle", u # <<>> PROVE Max(chars) = k.made
  <2> DEFINE o == Oldest(u)
             m == k.made
  <2>1. chars = o..m /\ o <= m /\ o \in Nat /\ m \in Nat
    BY <1>2, <1>3, <1>4, <1>5, <1>7
  <2> HIDE DEF o, m
  <2>2. chars \in SUBSET Nat /\ m \in chars /\ \A j \in chars : j <= m
    BY <2>1
  <2>3. Max(chars) \in chars /\ \A j \in chars : j <= Max(chars)
    BY <2>1, <2>2, GreatestNumber
  <2> DEFINE x == Max(chars)
  <2> HIDE DEF x
  <2>4. x \in Nat /\ x <= m /\ m <= x
    BY <2>2, <2>3 DEF x
  <2>5. x = m
    BY <2>1, <2>4
  <2> QED BY <2>5 DEF x, m
<1>8. ASSUME ~b.truncated PROVE Min(all) = k.known + 1
  <2> DEFINE first == IF u # <<>> THEN Oldest(u) ELSE IF v # <<>> THEN Oldest(v) ELSE k.made + 1
  <2>1. k.known + 1 = first
    BY <1>3, <1>8
  <2>2. first \in all /\ first \in Nat /\ all \in SUBSET Nat /\ \A j \in all : first <= j
    <3>1. CASE u # <<>>
      <4> DEFINE o == Oldest(u)
                 n == Newest(u)
                 m == k.made
      <4>1. CASE v # <<>>
        <5> DEFINE p == Oldest(v)
        <5>1. /\ o \in Nat /\ n \in Nat /\ m \in Nat /\ o <= n /\ p = n + 1 /\ p <= m
              /\ chars = o..n /\ coming = p..m
          BY <1>2, <1>3, <1>5, <1>6, <3>1, <4>1
        <5>2. all = chars \cup coming \cup {m + 1} /\ first = o
          BY <3>1
        <5> HIDE DEF o, n, m, p, all, first
        <5> QED BY <5>1, <5>2
      <4>2. CASE v = <<>>
        <5>1. o \in Nat /\ m \in Nat /\ o <= m /\ chars = o..m /\ coming = {}
          BY <1>2, <1>3, <1>5, <1>6, <3>1, <4>2
        <5>2. all = chars \cup coming \cup {m + 1} /\ first = o
          BY <3>1
        <5> HIDE DEF o, m, all, first
        <5> QED BY <5>1, <5>2
      <4> QED BY <4>1, <4>2
    <3>2. CASE u = <<>>
      <4> DEFINE p == Oldest(v)
                 m == k.made
      <4>1. CASE v # <<>>
        <5>1. p \in Nat /\ m \in Nat /\ p <= m /\ chars = {} /\ coming = p..m
          BY <1>2, <1>3, <1>5, <1>6, <3>2, <4>1
        <5>2. all = chars \cup coming \cup {m + 1} /\ first = p
          BY <3>2, <4>1
        <5> HIDE DEF m, p, all, first
        <5> QED BY <5>1, <5>2
      <4>2. CASE v = <<>>
        <5>1. m \in Nat /\ chars = {} /\ coming = {}
          BY <1>2, <1>5, <1>6, <3>2, <4>2
        <5>2. all = chars \cup coming \cup {m + 1} /\ first = m + 1
          BY <3>2, <4>2
        <5> HIDE DEF m, all, first
        <5> QED BY <5>1, <5>2
      <4> QED BY <4>1, <4>2
    <3> QED BY <3>1, <3>2
  <2> HIDE DEF first, all
  <2>3. Min(all) \in all /\ \A j \in all : Min(all) <= j
    BY <2>2, LeastNumber
  <2> DEFINE x == Min(all)
  <2> HIDE DEF x
  <2>4. x \in Nat /\ x <= first /\ first <= x /\ first \in Nat
    BY <2>2, <2>3 DEF x
  <2>5. x = first
    BY <2>4
  <2> QED BY <2>1, <2>5 DEF x
<1>9. /\ a.at = "idle" /\ u # <<>> => Max(chars) = k.made
      /\ b.truncated \/ Min(all) = k.known + 1
  BY <1>7, <1>8
<1> QED BY <1>9, Zenon DEF b, a, k, u, v, chars, coming

LEMMA BufferInvImplies == ASSUME BufferInv PROVE BufferTypeOK /\ BufferExact
<1>1. ASSUME NEW s \in Sessions
      PROVE  /\ buffers[s].unread \in Seq([char : Nat, lead : BOOLEAN])
             /\ {buffers[s].truncated, buffers[s].open, buffers[s].pending} \subseteq BOOLEAN
             /\ buffers[s].state \in {"Ground", "Escape", "Csi", "Osc", "OscEscape"}
             /\ appends[s].at \in {"idle", "reserving", "extending", "taking"}
             /\ told[s].known <= told[s].made
  <2>1. SessionSound(buffers[s], appends[s], told[s])
    BY SessionFacts
  <2>2. buffers[s].unread \in Seq([char : Nat, lead : BOOLEAN])
    <3> DEFINE u == buffers[s].unread
    <3>1. u \in Seq(Byte)
      BY <2>1 DEF SessionSound, Gapless
    <3> HIDE DEF u
    <3>2. Byte \in SUBSET [char : Nat, lead : BOOLEAN]
      BY DEF Byte
    <3> QED BY <3>1, <3>2, SeqMonotonic DEF u
  <2> QED BY <2>1, <2>2 DEF SessionSound, BufferRecords, AppendRecords
<1>2. BufferTypeOK
  <2>1. used \in Nat \/ Sessions = {}
    BY SessionFacts
  <2>2. Sessions = {} => used \in Nat
    <3> SUFFICES ASSUME Sessions = {} PROVE used \in Nat
      OBVIOUS
    <3> DEFINE f == [s \in Sessions |-> Held(s)]
    <3>1. f \in [Sessions -> Nat] /\ \A s \in Sessions : f[s] = 0
      OBVIOUS
    <3> HIDE DEF f
    <3>2. SumFunction(f) = 0
      <4>1. IsFiniteSet(Sessions)
        BY BufferAssumption
      <4> QED BY <3>1, <4>1, SumZero
    <3> QED BY <3>2 DEF BufferInv, BudgetExact, f
  <2> QED BY <1>1, <2>1, <2>2 DEF BufferTypeOK
<1>3. ASSUME NEW s \in Sessions, buffers[s].open
      PROVE  LET unread == buffers[s].unread IN
             /\ Len(unread) <= MaxUnread /\ (unread # <<>> => unread[1].lead)
             /\ \A i \in 2..Len(unread) : unread[i].char = unread[i - 1].char + (IF unread[i].lead THEN 1 ELSE 0)
  <2> DEFINE u == buffers[s].unread
             v == appends[s].bytes
  <2>1. Gapless(u) /\ Gapless(v) /\ Len(u) + Len(v) <= MaxUnread /\ MaxUnread \in Nat
    BY SessionFacts DEF SessionSound
  <2>2. Len(u) \in Nat /\ Len(v) \in Nat
    BY <2>1, GaplessBytes
  <2> HIDE DEF u, v
  <2>3. Len(u) <= MaxUnread
    BY <2>1, <2>2
  <2>4. /\ Len(u) <= MaxUnread /\ (u # <<>> => u[1].lead)
        /\ \A i \in 2..Len(u) : u[i].char = u[i - 1].char + (IF u[i].lead THEN 1 ELSE 0)
    BY <2>1, <2>3, Zenon DEF Gapless
  <2> QED BY <2>4, Zenon DEF u
<1>4. OutputWhole
  BY <1>3, BufferWhole, Zenon DEF OutputWhole
<1>5. BudgetExact
  BY DEF BufferInv
<1> QED BY <1>2, <1>4, <1>5 DEF BufferExact

LEMMA BufferInvariance == EdgesSpec => []BufferInv
<1>1. EdgesInit => BufferInv
  BY BufferInvInit DEF EdgesInit
<1>2. BufferInv /\ [EdgesNext]_allVars => BufferInv'
  <2> SUFFICES ASSUME BufferInv, [EdgesNext]_allVars PROVE BufferInv'
    OBVIOUS
  <2>1. BufferNext \/ UNCHANGED bufferVars
    BY Zenon DEF EdgesNext, allVars, AllFileCalls, AllProcessCalls, AllRequests, AllQueries
  <2> QED BY <2>1, BufferInvStep
<1> QED BY <1>1, <1>2, PTL DEF EdgesSpec

-----------------------------------------------------------------------------
(* The state of the file tools, of a process tool's run and of the output of  *)
(* shell sessions is of its type, for every set of calls, of sessions and of  *)
(* chunks.                                                                    *)
THEOREM ToolsTypeCorrect == EdgesSpec => []ToolsTypeOK
<1>1. FileInv => FileTypeOK
  BY FileInvImplies
<1>2. ProcessInv => ProcessTypeOK
  BY ProcessInvImplies
<1>3. BufferInv => BufferTypeOK
  BY BufferInvImplies
<1> QED BY <1>1, <1>2, <1>3, FileInvariance, ProcessInvariance, BufferInvariance, PTL DEF ToolsTypeOK

(* No program a tool starts is left running when its call ends, its line and  *)
(* its sandbox are what the policy says, and its result is what happened; the *)
(* shared budget of the shell sessions is neither leaked nor overdrawn, and   *)
(* output is whole, in order and complete, or the next receipt says it is     *)
(* not.  For every set of calls, of sessions and of chunks.                   *)
THEOREM ToolsAreHonest == EdgesSpec => []ToolsHonest
<1>1. ProcessInv => ProcessHonest
  BY ProcessInvImplies
<1>2. BufferInv => BufferExact
  BY BufferInvImplies
<1> QED BY <1>1, <1>2, ProcessInvariance, BufferInvariance, PTL DEF ToolsHonest
-----------------------------------------------------------------------------
(* The identity a request goes out with. *)

LEMMA LayersAre ==
    /\ Len(Layers) = 5 /\ Layers[1] = "defaults"
    /\ \A i \in 1..5 : Layers[i] = "defaults" \/ Layers[i] \in ToSet(Sources)
<1> DEFINE first == <<"defaults">>
           rest == Sources
           N == {"defaults", "user", "project", "environment", "cli"}
<1>1. rest \in Seq(N) /\ Len(rest) = 4
  BY DEF Sources
<1>2. Len(Layers) = 5 /\ Layers[1] = "defaults" /\ \A i \in 2..5 : Layers[i] = Sources[i - 1]
  <2>1. first \in Seq(N) /\ Len(first) = 1 /\ first[1] = "defaults"
    OBVIOUS
  <2>2. Layers = first \o rest
    BY DEF Layers
  <2> HIDE DEF first, rest, N
  <2>3. Len(first \o rest) = 5 /\ \A i \in 1..5 : (first \o rest)[i] = IF i <= 1 THEN first[i] ELSE rest[i - 1]
    <3>1. /\ Len(first \o rest) = Len(first) + Len(rest)
          /\ \A i \in 1..(Len(first) + Len(rest)) :
               (first \o rest)[i] = IF i <= Len(first) THEN first[i] ELSE rest[i - Len(first)]
      BY <1>1, <2>1, ConcatProperties
    <3> QED BY <1>1, <2>1, <3>1
  <2> QED BY <2>1, <2>2, <2>3 DEF rest
<1>3. \A i \in 1..4 : Sources[i] \in ToSet(Sources)
  BY <1>1 DEF ToSet
<1> QED BY <1>2, <1>3

(* The layer a field is taken from sets it, unless it is the defaults.        *)
LEMMA LastSettingIs ==
    ASSUME NEW layers, NEW field
    PROVE  LET l == Layers[LastSetting(layers, field)]
           IN l = "defaults" \/ (l \in ToSet(Sources) /\ field \in DOMAIN layers[l])
<1> DEFINE I == {i \in 1..5 : Layers[i] = "defaults" \/ field \in DOMAIN layers[Layers[i]]}
<1>1. LastSetting(layers, field) = IF I # {} THEN Max(I) ELSE 0
  BY LayersAre DEF LastSetting, SelectLastInSubSeq
<1>2. I \in SUBSET Nat /\ 1 \in I /\ \A j \in I : j <= 5
  BY LayersAre
<1>3. Max(I) \in I
  <2> HIDE DEF I
  <2> QED BY <1>2, GreatestNumber
<1> QED BY <1>1, <1>2, <1>3, LayersAre

(* Fields that every layer sets together come from one layer.                 *)
LEMMA SettingsTogether ==
    ASSUME NEW layers, NEW a, NEW b, \A l \in ToSet(Sources) : a \in DOMAIN layers[l] <=> b \in DOMAIN layers[l]
    PROVE  LastSetting(layers, a) = LastSetting(layers, b)
<1> DEFINE I(field) == {i \in 1..Len(Layers) : Layers[i] = "defaults" \/ field \in DOMAIN layers[Layers[i]]}
<1>1. I(a) = I(b)
  BY LayersAre
<1> QED BY <1>1, Zenon DEF LastSetting, SelectLastInSubSeq

(* What a configuration that fits is made of.                                 *)
OneLayer(config, r) ==
    \/ config.provider_id = Defaults.provider_id /\ config.endpoint = Defaults.endpoint
    \/ \E l \in ToSet(Sources) :
          /\ {"provider_id", "endpoint"} \subseteq DOMAIN r.layers[l]
          /\ config.provider_id = r.layers[l].provider_id /\ config.endpoint = r.layers[l].endpoint

LEMMA MergedIsOne ==
    ASSUME NEW r, ConfigFits(r.layers)
    PROVE  /\ OneLayer(Merged(r.layers), r)
           /\ Merged(r.layers).endpoint.scheme = "http" => Merged(r.layers).loopback
<1> DEFINE i == LastSetting(r.layers, "provider_id")
           l == Layers[i]
           c == Merged(r.layers)
<1>1. i = LastSetting(r.layers, "endpoint")
  <2>1. \A m \in ToSet(Sources) : "provider_id" \in DOMAIN r.layers[m] <=> "endpoint" \in DOMAIN r.layers[m]
    BY Zenon DEF ConfigFits, PatchFits
  <2> QED BY <2>1, SettingsTogether
<1>2. {"provider_id", "endpoint"} \subseteq DOMAIN Defaults
  BY DEF Defaults
<1>3. /\ c.provider_id = IF l = "defaults" THEN Defaults.provider_id ELSE r.layers[l].provider_id
      /\ c.endpoint = IF l = "defaults" THEN Defaults.endpoint ELSE r.layers[l].endpoint
  BY <1>1, <1>2 DEF Merged
<1>4. l = "defaults" \/ (l \in ToSet(Sources) /\ "provider_id" \in DOMAIN r.layers[l] /\ "endpoint" \in DOMAIN r.layers[l])
  BY <1>1, LastSettingIs
<1>5. c.endpoint.scheme = "http" => c.loopback
  BY Zenon DEF ConfigFits, EndpointFits
<1> HIDE DEF i
<1> QED BY <1>3, <1>4, <1>5 DEF OneLayer

LEMMA CredentialIsOne ==
    ASSUME NEW config, NEW r, Credential(config, r) # "none"
    PROVE  Credential(config, r) \in {r.environment[config.environment_key], r.keyring[config.provider_id]}
BY DEF Credential, NormalizeSecret

(* The client keeps what it was configured with until it is done.             *)
ClientInv ==
    /\ {"at", "config", "key", "result"} \subseteq DOMAIN client
    /\ OneIdentity

LEMMA ClientInvInit == StreamInit => ClientInv
BY DEF StreamInit, ClientInv, NoClient, OneIdentity

LEMMA ClientConfigured == ASSUME ClientInv, NEW r \in Requests, Configure(r) PROVE ClientInv'
<1> DEFINE config == Merged(r.layers)
           key == Credential(config, r)
<1>1. \/ \E result : Conclude(result)
      \/ /\ ConfigFits(r.layers) /\ key # "none"
         /\ client' = [client EXCEPT !.config = config, !.key = key,
                              !.at = IF ValidEndpoint(config.endpoint) THEN "sending" ELSE "done",
                              !.result = IF ValidEndpoint(config.endpoint) THEN @ ELSE "Configuration"]
  BY DEF Configure
<1>2. request' = r
  BY DEF Configure
<1> HIDE DEF config, key
<1>3. ASSUME NEW result, Conclude(result) PROVE ClientInv'
  BY <1>3 DEF Conclude, ClientInv, OneIdentity
<1>4. ASSUME ConfigFits(r.layers), key # "none", client'.config = config, client'.key = key,
             DOMAIN client' = DOMAIN client
      PROVE  ClientInv'
  <2>1. OneLayer(config, r) /\ (config.endpoint.scheme = "http" => config.loopback)
    BY <1>4, MergedIsOne DEF config
  <2>2. key \in {r.environment[config.environment_key], r.keyring[config.provider_id]}
    BY <1>4, CredentialIsOne DEF key
  <2>3. {"at", "config", "key", "result"} \subseteq DOMAIN client'
    BY <1>4 DEF ClientInv
  <2> QED BY <1>2, <1>4, <2>1, <2>2, <2>3, Zenon DEF ClientInv, OneIdentity, OneLayer
<1> QED BY <1>1, <1>3, <1>4 DEF ClientInv

(* No other step changes what is asked, or the configuration of the client.   *)
LEMMA ClientKeeps ==
    ASSUME ClientInv, StreamNext(Requests), ~(\E r \in Requests : Configure(r))
    PROVE  /\ request' = request
           /\ \/ client' = client
              \/ \E result : Conclude(result)
              \/ /\ client.at \in {"sending", "streaming", "closing"}
                 /\ \E at : client' = [client EXCEPT !.at = at]
<1>1. ASSUME Respond \/ GiveUp \/ BodyFails \/ ProcessFrame \/ Close \/ Signal
      PROVE  /\ request' = request
             /\ \/ client' = client
                \/ \E result : Conclude(result)
                \/ client.at = "sending" /\ \E at : client' = [client EXCEPT !.at = at]
  BY <1>1, Zenon DEF Respond, GiveUp, BodyFails, ProcessFrame, Close, Signal
<1>2. ASSUME NEW tokens, NEW final, Streaming, Decode(tokens, final)
      PROVE  /\ request' = request /\ client.at = "streaming"
             /\ \/ \E result : Conclude(result)
                \/ \E at : client' = [client EXCEPT !.at = at]
  <2>1. request' = request /\ client.at = "streaming"
    BY <1>2, Zenon DEF Decode, Streaming
  <2>2. \/ Conclude("Malformed")
        \/ client' = [client EXCEPT !.at = IF final THEN "closing" ELSE @]
    BY <1>2, Zenon DEF Decode
  <2>3. [client EXCEPT !.at = IF final THEN "closing" ELSE @]
          = [client EXCEPT !.at = IF final THEN "closing" ELSE client.at]
    OBVIOUS
  <2> QED BY <2>1, <2>2, <2>3, Zenon
<1> QED BY <1>1, <1>2, Zenon DEF StreamNext, Chunk, EndOfBody

LEMMA ClientInvStep == ASSUME ClientInv, StreamNext(Requests) \/ UNCHANGED streamVars PROVE ClientInv'
<1>1. ASSUME UNCHANGED <<client, request>> PROVE ClientInv'
  BY <1>1, Zenon DEF ClientInv, OneIdentity
<1>2. ASSUME NEW result, Conclude(result) PROVE ClientInv'
  BY <1>2 DEF Conclude, ClientInv, OneIdentity
<1>3. ASSUME client.at \in {"sending", "streaming", "closing"}, request' = request,
             NEW at, client' = [client EXCEPT !.at = at]
      PROVE  ClientInv'
  <2>1. client'.config = client.config /\ client'.key = client.key /\ DOMAIN client' = DOMAIN client
    BY <1>3
  <2> QED BY <1>3, <2>1, Zenon DEF ClientInv, OneIdentity
<1>4. CASE UNCHANGED streamVars
  BY <1>1, <1>4, Zenon DEF streamVars
<1>5. CASE StreamNext(Requests)
  BY <1>1, <1>2, <1>3, <1>5, ClientConfigured, ClientKeeps, Zenon
<1> QED BY <1>4, <1>5

(* A request goes out with the provider and the endpoint that one layer of    *)
(* the configuration sets together, or the defaults, with a key that belongs  *)
(* to it, and never in the clear unless the configuration asks for loopback.  *)
THEOREM IdentityIsOne == EdgesSpec => []OneIdentity
<1>1. EdgesInit => ClientInv
  BY ClientInvInit, Zenon DEF EdgesInit
<1>2. ClientInv /\ [EdgesNext]_allVars => ClientInv'
  <2> SUFFICES ASSUME ClientInv, [EdgesNext]_allVars PROVE ClientInv'
    OBVIOUS
  <2>1. StreamNext(Requests) \/ UNCHANGED streamVars
    BY Zenon DEF EdgesNext, allVars, AllFileCalls, AllProcessCalls, AllRequests, AllQueries
  <2> QED BY <2>1, ClientInvStep
<1>3. ClientInv => OneIdentity
  BY DEF ClientInv
<1> QED BY <1>1, <1>2, <1>3, PTL DEF EdgesSpec
-----------------------------------------------------------------------------
(* What a search says of its helper. *)

(* A resource that is used was made for these catalogs; one that is not, has  *)
(* a reason.                                                                  *)
LEMMA ResourceChecked ==
    ASSUME NEW resource, NEW fingerprint
    PROVE  LET r == ResourceCheck(resource, fingerprint) IN
           \/ r = Passed /\ resource.cpu /\ resource.made_for = fingerprint
           \/ r # Passed /\ r.code \in Reasons
<1> DEFINE away == resource.state \in {"none", "missing"}
           manifest == resource.state = "bad_manifest"
           other == resource.made_for # fingerprint
           path == resource.state = "bad_path"
           changed == resource.state = "changed_file"
           unlisted == resource.state = "helper_unlisted"
           slow == ~resource.cpu
           c == << <<away, Failed("EmbeddingMissing")>>, <<manifest, Failed("InvalidManifest")>>,
                   <<slow, Failed("IncompatibleCpu")>>, <<other, Failed("FingerprintMismatch")>>,
                   <<path, Failed("InvalidManifest")>>, <<changed, Failed("HashMismatch")>>,
                   <<unlisted, Failed("InvalidManifest")>> >>
<1>1. ResourceCheck(resource, fingerprint) = Outcome(c)
  BY Zenon DEF ResourceCheck
<1>2. DOMAIN c = 1..7 /\ c[3][1] = slow /\ c[4][1] = other
  <2> HIDE DEF away, manifest, other, path, changed, unlisted, slow
  <2> QED OBVIOUS
<1>3. \A i \in 1..7 : c[i][2] # Passed /\ c[i][2].code \in Reasons
  <2>1. \A x \in {"EmbeddingMissing", "InvalidManifest", "IncompatibleCpu", "FingerprintMismatch", "HashMismatch"} :
          Failed(x) # Passed /\ Failed(x).code \in Reasons
    BY DEF Failed, Passed, Denied, Reasons
  <2> HIDE DEF away, manifest, other, path, changed, unlisted, slow
  <2> QED BY <2>1
<1> HIDE DEF c
<1>4. \/ (\A i \in 1..7 : ~c[i][1]) /\ Outcome(c) = Passed
      \/ \E i \in 1..7 : c[i][1] /\ Outcome(c) = c[i][2]
  BY <1>2, OutcomeIs
<1>5. CASE Outcome(c) = Passed
  <2>1. ~c[3][1] /\ ~c[4][1]
    BY <1>3, <1>4, <1>5
  <2> QED BY <1>1, <1>2, <1>5, <2>1, Zenon
<1>6. CASE Outcome(c) # Passed
  BY <1>1, <1>3, <1>4, <1>6, Zenon
<1> QED BY <1>5, <1>6

(* An answer that is used is one for each candidate; one that is not, has a   *)
(* fault to report.                                                           *)
Flaws == {"not_json", "too_long", "fingerprint", "dimension", "not_finite", "null_vector"}
Reported(a) == a.faults = {} \/ \E flaw \in Flaws : a.faults = {flaw}

LEMMA AnswerChecked ==
    ASSUME NEW a, NEW ids, Reported(a)
    PROVE  LET r == AnswerCheck(a, ids) IN
           \/ r = Passed /\ a.faults = {} /\ ToSet(a.ids) = ToSet(ids) /\ IsInjective(a.ids)
           \/ r # Passed /\ r.code \in Reasons
<1> DEFINE broken == "not_json" \in a.faults \/ "too_long" \in a.faults
           other == "fingerprint" \in a.faults
           dimension == "dimension" \in a.faults
           infinite == "not_finite" \in a.faults
           unasked == ToSet(a.ids) # ToSet(ids) \/ ~IsInjective(a.ids)
           zero == "null_vector" \in a.faults
           c == << <<broken, Failed("MalformedVector")>>, <<other, Failed("FingerprintMismatch")>>,
                   <<dimension, Failed("WrongDimension")>>, <<infinite, Failed("NonFiniteVector")>>,
                   <<unasked, Failed("MalformedVector")>>, <<zero, Failed("MalformedVector")>> >>
<1>1. AnswerCheck(a, ids) = Outcome(c)
  BY Zenon DEF AnswerCheck
<1>2. /\ DOMAIN c = 1..6 /\ c[1][1] = broken /\ c[2][1] = other /\ c[3][1] = dimension
      /\ c[4][1] = infinite /\ c[5][1] = unasked /\ c[6][1] = zero
  <2> HIDE DEF broken, other, dimension, infinite, unasked, zero
  <2> QED OBVIOUS
<1>3. \A i \in 1..6 : c[i][2] # Passed /\ c[i][2].code \in Reasons
  <2>1. \A x \in {"MalformedVector", "FingerprintMismatch", "WrongDimension", "NonFiniteVector"} :
          Failed(x) # Passed /\ Failed(x).code \in Reasons
    BY DEF Failed, Passed, Denied, Reasons
  <2> HIDE DEF broken, other, dimension, infinite, unasked, zero
  <2> QED BY <2>1
<1> HIDE DEF c
<1>4. \/ (\A i \in 1..6 : ~c[i][1]) /\ Outcome(c) = Passed
      \/ \E i \in 1..6 : c[i][1] /\ Outcome(c) = c[i][2]
  <2>1. DOMAIN c = 1..6
    BY <1>2
  <2> QED BY <2>1, OutcomeIs
<1>5. CASE Outcome(c) = Passed
  <2>1. \A i \in 1..6 : ~c[i][1]
    BY <1>3, <1>4, <1>5
  <2>2. ~broken /\ ~other /\ ~dimension /\ ~infinite /\ ~unasked /\ ~zero
    <3>1. ~c[1][1] /\ ~c[2][1] /\ ~c[3][1] /\ ~c[4][1] /\ ~c[5][1] /\ ~c[6][1]
      BY <2>1
    <3> QED BY <1>2, <3>1, Zenon
  <2>3. a.faults = {}
    <3>1. ASSUME NEW flaw \in Flaws, a.faults = {flaw} PROVE FALSE
      BY <2>2, <3>1 DEF Flaws
    <3> QED BY <3>1 DEF Reported
  <2> QED BY <1>1, <1>5, <2>2, <2>3, Zenon
<1>6. CASE Outcome(c) # Passed
  BY <1>1, <1>3, <1>4, <1>6, Zenon
<1> QED BY <1>5, <1>6

(* Until a search is over it waits for the helper it started, or will start,  *)
(* for candidates it has vectors for.                                         *)
SearchInv ==
    /\ HelperSound
    /\ {"state", "fed", "open"} \subseteq DOMAIN helper
    /\ Reported(answer)
    /\ stage # "done" => found = NoResponse
    /\ stage \in {"idle", "asking"} => helper = NoHelper
    /\ stage \notin {"idle", "done"} =>
         query.resource.cpu /\ query.resource.made_for = Fingerprint(query.catalogs)

LEMMA SearchInvInit == SearchInit => SearchInv
BY DEF SearchInit, SearchInv, HelperSound, NoHelper, NoAnswer, Reported

LEMMA DegradedIs ==
    ASSUME NEW reason \in Reasons, Degrade(reason)
    PROVE  stage' = "done" /\ found'.mode = "Bm25" /\ found'.reason \in Reasons
BY DEF Degrade, Answered, Response

(* A degraded answer is sound if the helper is not running any more.          *)
LEMMA DegradedInv ==
    ASSUME SearchInv, UNCHANGED <<query, answer>>, NEW reason \in Reasons, Degrade(reason),
           helper'.state # "running", DOMAIN helper' = DOMAIN helper
    PROVE  SearchInv'
<1>1. stage' = "done" /\ found'.mode = "Bm25" /\ found'.reason \in Reasons
  BY DegradedIs
<1>2. HelperSound'
  BY <1>1 DEF HelperSound
<1> QED BY <1>1, <1>2, Zenon DEF SearchInv, Reported

LEMMA StartInv == ASSUME SearchInv, StartSearch(Queries) PROVE SearchInv'
<1>1. stage = "idle" /\ UNCHANGED <<helper, answer>> /\ helper = NoHelper /\ found = NoResponse
  BY Zenon DEF StartSearch, SearchInv
<1> DEFINE baseline(q) == AskedBaseline(q)
           resource(q) == ResourceCheck(q.resource, Fingerprint(q.catalogs))
<1>2. PICK q \in Queries :
        /\ query' = q
        /\ \/ stage' = "done" /\ UNCHANGED found
           \/ stage' = "done" /\ found' = Response("error", LoadCheck(q).code, <<>>)
           \/ Status(q) /\ Answered(q, "Bm25", resource(q).code, <<>>)
           \/ ~Semantic(q) /\ Answered(q, Mode(baseline(q)), "ok", BaselineIds(baseline(q)))
           \/ Mode(baseline(q)) = "Exact" /\ Answered(q, Mode(baseline(q)), "ok", BaselineIds(baseline(q)))
           \/ (baseline(q) = <<>> \/ resource(q) # Passed)
              /\ Answered(q, "Bm25", resource(q).code, BaselineIds(baseline(q)))
           \/ resource(q) = Passed /\ stage' = "asking" /\ UNCHANGED found
  BY Zenon DEF StartSearch
<1>3. /\ {"state", "fed", "open"} \subseteq DOMAIN helper' /\ Reported(answer)' /\ helper' = NoHelper
      /\ helper'.state # "running"
  BY <1>1 DEF SearchInv, Reported, NoHelper
<1>4. ASSUME stage' = "done", Semantic(q) => \/ found'.mode = "Exact"
                                             \/ found'.mode \in {"none", "error"}
                                             \/ found'.mode = "Bm25" /\ (BaselineIds(AskedBaseline(q)) = <<>>
                                                                          \/ found'.reason \in Reasons)
      PROVE  SearchInv'
  <2>1. HelperSound'
    BY <1>2, <1>3, <1>4 DEF HelperSound, Semantic
  <2> QED BY <1>3, <1>4, <2>1 DEF SearchInv
<1>5. CASE stage' = "done" /\ UNCHANGED found
  BY <1>1, <1>4, <1>5 DEF NoResponse, Response
<1>6. CASE stage' = "done" /\ found' = Response("error", LoadCheck(q).code, <<>>)
  BY <1>4, <1>6 DEF Response
<1>7. CASE Status(q) /\ Answered(q, "Bm25", resource(q).code, <<>>)
  <2>1. ~Semantic(q)
    BY <1>7 DEF Status, Semantic
  <2> QED BY <1>4, <1>7, <2>1, Zenon DEF Answered
<1>8. CASE ~Semantic(q) /\ Answered(q, Mode(baseline(q)), "ok", BaselineIds(baseline(q)))
  BY <1>4, <1>8, Zenon DEF Answered
<1>9. CASE Mode(baseline(q)) = "Exact" /\ Answered(q, Mode(baseline(q)), "ok", BaselineIds(baseline(q)))
  <2>1. stage' = "done" /\ found'.mode = "Exact"
    BY <1>9 DEF Answered, Response
  <2> QED BY <1>4, <2>1
<1>10. CASE (baseline(q) = <<>> \/ resource(q) # Passed)
            /\ Answered(q, "Bm25", resource(q).code, BaselineIds(baseline(q)))
  <2>1. stage' = "done" /\ found'.mode = "Bm25" /\ found'.reason = resource(q).code
    BY <1>10 DEF Answered, Response
  <2>2. baseline(q) = <<>> => BaselineIds(AskedBaseline(q)) = <<>>
    BY DEF BaselineIds
  <2>3. resource(q) # Passed => resource(q).code \in Reasons
    BY ResourceChecked, Zenon
  <2> QED BY <1>4, <1>10, <2>1, <2>2, <2>3
<1>11. CASE resource(q) = Passed /\ stage' = "asking" /\ UNCHANGED found
  <2>1. q.resource.cpu /\ q.resource.made_for = Fingerprint(q.catalogs)
    BY <1>11, ResourceChecked, Zenon
  <2>2. HelperSound'
    BY <1>11 DEF HelperSound
  <2>3. query'.resource.cpu /\ query'.resource.made_for = Fingerprint(query'.catalogs)
    BY <1>2, <2>1, Zenon
  <2>4. found' = NoResponse
    BY <1>1, <1>11
  <2> QED BY <1>3, <1>11, <2>2, <2>3, <2>4, Zenon DEF SearchInv
<1> QED BY <1>2, <1>5, <1>6, <1>7, <1>8, <1>9, <1>10, <1>11, Zenon

LEMMA HelperStepInv == ASSUME SearchInv, HelperReads \/ HelperEnds PROVE SearchInv'
<1> USE DEF SearchInv
<1>1. helper.state = "running" /\ UNCHANGED <<query, stage, found>>
  BY Zenon DEF HelperReads, HelperEnds
<1>2. stage \notin {"idle", "asking", "done"}
  BY <1>1 DEF HelperSound, NoHelper
<1>3. DOMAIN helper' = DOMAIN helper
  BY Zenon DEF HelperReads, HelperEnds
<1>4. Reported(answer)'
  <2>1. CASE HelperReads
    BY <2>1, Zenon DEF HelperReads, Reported
  <2>2. CASE HelperEnds
    <3>1. answer' \in HelperAnswers(BaselineIds(AskedBaseline(query)))
      BY <2>2, Zenon DEF HelperEnds
    <3>2. ASSUME NEW ids, NEW a \in HelperAnswers(ids) PROVE Reported(a)
      BY <3>2 DEF HelperAnswers, Reported, Flaws
    <3> QED BY <3>1, <3>2, Zenon DEF Reported
  <2> QED BY <2>1, <2>2
<1>5. HelperSound'
  BY <1>1, <1>2 DEF HelperSound
<1> QED BY <1>1, <1>2, <1>3, <1>4, <1>5

LEMMA AskInv == ASSUME SearchInv, SpawnHelper \/ WriteRequest \/ HelperDeadline PROVE SearchInv'
<1>0. {"HelperUnavailable", "HelperCrashed", "HelperTimeout", "MalformedVector"} \subseteq Reasons
  BY DEF Reasons
<1>1. CASE SpawnHelper
  <2>1. stage = "asking" /\ UNCHANGED <<query, answer>> /\ helper = NoHelper
    BY <1>1, Zenon DEF SpawnHelper, SearchInv
  <2>2. CASE UNCHANGED helper /\ (Degrade("MalformedVector") \/ Degrade("HelperUnavailable"))
    BY <1>0, <2>1, <2>2, DegradedInv DEF NoHelper
  <2>3. CASE stage' = "writing" /\ helper' = [state |-> "running", fed |-> FALSE, open |-> TRUE] /\ UNCHANGED found
    BY <2>1, <2>3 DEF SearchInv, HelperSound, Reported
  <2> QED BY <1>1, <2>2, <2>3, Zenon DEF SpawnHelper
<1>2. CASE WriteRequest
  <2>1. stage = "writing" /\ UNCHANGED <<query, answer, helper>>
    BY <1>2, Zenon DEF WriteRequest
  <2>2. CASE helper.state # "running" /\ Degrade("HelperCrashed")
    BY <1>0, <2>1, <2>2, DegradedInv
  <2>3. CASE stage' = "waiting" /\ UNCHANGED found
    BY <2>1, <2>3 DEF SearchInv, HelperSound, Reported
  <2> QED BY <1>2, <2>2, <2>3, Zenon DEF WriteRequest
<1>3. CASE HelperDeadline
  <2>1. UNCHANGED <<query, answer>> /\ Degrade("HelperTimeout")
        /\ helper' = IF helper.state = "running" THEN [helper EXCEPT !.state = "killed"] ELSE helper
    BY <1>3, Zenon DEF HelperDeadline
  <2>2. helper'.state # "running" /\ DOMAIN helper' = DOMAIN helper
    BY <2>1 DEF SearchInv
  <2> QED BY <1>0, <2>1, <2>2, DegradedInv
<1> QED BY <1>1, <1>2, <1>3

LEMMA CollectInv == ASSUME SearchInv, CollectAnswer PROVE SearchInv'
<1> DEFINE ids == BaselineIds(AskedBaseline(query))
<1>1. /\ stage = "waiting" /\ helper.state \in {"succeeded", "failed"} /\ ~helper.open
      /\ UNCHANGED <<query, helper, answer>>
  BY Zenon DEF CollectAnswer
<1>2. \/ helper.state = "failed" /\ Degrade("HelperCrashed")
      \/ AnswerCheck(answer, ids) # Passed /\ Degrade(AnswerCheck(answer, ids).code)
      \/ /\ helper.state # "failed" /\ AnswerCheck(answer, ids) = Passed
         /\ Answered(query, "HybridVerified", "ok", Fuse(ids, SemanticOrder(answer)))
  BY Zenon DEF CollectAnswer
<1>3. Reported(answer)
  BY DEF SearchInv
<1>4. CASE helper.state = "failed" /\ Degrade("HelperCrashed")
  <2>1. "HelperCrashed" \in Reasons
    BY DEF Reasons
  <2> QED BY <1>1, <1>4, <2>1, DegradedInv
<1>5. CASE AnswerCheck(answer, ids) # Passed /\ Degrade(AnswerCheck(answer, ids).code)
  <2>1. AnswerCheck(answer, ids).code \in Reasons
    BY <1>3, <1>5, AnswerChecked, Zenon
  <2>2. helper'.state # "running" /\ DOMAIN helper' = DOMAIN helper
    BY <1>1
  <2> QED BY <1>1, <1>5, <2>1, <2>2, DegradedInv
<1>6. CASE /\ helper.state # "failed" /\ AnswerCheck(answer, ids) = Passed
           /\ Answered(query, "HybridVerified", "ok", Fuse(ids, SemanticOrder(answer)))
  <2>1. answer.faults = {} /\ ToSet(answer.ids) = ToSet(ids) /\ IsInjective(answer.ids)
    BY <1>3, <1>6, AnswerChecked, Zenon
  <2>2. stage' = "done" /\ found'.mode = "HybridVerified"
    BY <1>6 DEF Answered, Response
  <2>3. query.resource.cpu /\ query.resource.made_for = Fingerprint(query.catalogs)
    BY <1>1 DEF SearchInv
  <2>4. helper.state = "succeeded"
    BY <1>1, <1>6
  <2>5. /\ helper'.state = "succeeded" /\ ~helper'.open /\ answer'.faults = {}
        /\ ToSet(answer'.ids) = ToSet(BaselineIds(AskedBaseline(query'))) /\ IsInjective(answer'.ids)
        /\ query'.resource.cpu /\ query'.resource.made_for = Fingerprint(query'.catalogs)
    BY <1>1, <2>1, <2>3, <2>4, Zenon
  <2>6. HelperSound'
    BY <2>2, <2>5 DEF HelperSound
  <2> QED BY <1>1, <1>3, <2>2, <2>6, Zenon DEF SearchInv, Reported
<1> QED BY <1>2, <1>4, <1>5, <1>6, Zenon

LEMMA SearchInvStep == ASSUME SearchInv, SearchNext(Queries) \/ UNCHANGED searchVars PROVE SearchInv'
<1>1. CASE UNCHANGED searchVars
  BY <1>1, Zenon DEF searchVars, SearchInv, HelperSound, Reported, AskedBaseline
<1>2. CASE SearchNext(Queries)
  BY <1>2, StartInv, HelperStepInv, AskInv, CollectInv, Zenon DEF SearchNext
<1> QED BY <1>1, <1>2

(* A search that may ask an embedding helper ends without one left running,   *)
(* calls hybrid only what a helper that ended well answered for exactly the   *)
(* candidates, and says why when it does without.                             *)
THEOREM HelpersAreSound == EdgesSpec => []HelperSound
<1>1. EdgesInit => SearchInv
  BY SearchInvInit, Zenon DEF EdgesInit
<1>2. SearchInv /\ [EdgesNext]_allVars => SearchInv'
  <2> SUFFICES ASSUME SearchInv, [EdgesNext]_allVars PROVE SearchInv'
    OBVIOUS
  <2>1. SearchNext(Queries) \/ UNCHANGED searchVars
    BY Zenon DEF EdgesNext, allVars, AllFileCalls, AllProcessCalls, AllRequests, AllQueries
  <2> QED BY <2>1, SearchInvStep
<1>3. SearchInv => HelperSound
  BY DEF SearchInv
<1> QED BY <1>1, <1>2, <1>3, PTL DEF EdgesSpec
=============================================================================
