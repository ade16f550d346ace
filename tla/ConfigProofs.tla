---------------------------- MODULE ConfigProofs ----------------------------
(***************************************************************************)
(* Proofs about what the configuration makes of its texts, for texts of    *)
(* any length: the bearer token, the routes and the links.                 *)
(***************************************************************************)
EXTENDS StartupProofs, SequenceTheorems

LOCAL INSTANCE SequencesExt
LOCAL INSTANCE Positions

-----------------------------------------------------------------------------
(* The first and the last of some positions in a text.                     *)

LEMMA MinOf ==
    ASSUME NEW k \in Nat, NEW S, S \subseteq 1..k, S # {}
    PROVE  Min(S) \in S /\ \A n \in S : Min(S) <= n
<1>1. \E m \in S : \A n \in S : m <= n
  BY LeastPosition
<1> QED BY <1>1 DEF Min

LEMMA MaxOf ==
    ASSUME NEW k \in Nat, NEW S, S \subseteq 1..k, S # {}
    PROVE  Max(S) \in S /\ \A n \in S : n <= Max(S)
<1>1. \E m \in S : \A n \in S : m >= n
  BY GreatestPosition
<1>2. Max(S) \in S /\ \A n \in S : Max(S) >= n
  BY <1>1 DEF Max
<1> QED BY <1>2

-----------------------------------------------------------------------------
(* The package strings.                                                    *)

Others(s, c) == {i \in 1..Len(s) : s[i] # c}

LEMMA TrimRightIs ==
    ASSUME NEW s, NEW c
    PROVE  TrimRight(s, c) = SubSeq(s, 1, IF Others(s, c) # {} THEN Max(Others(s, c)) ELSE 0)
BY DEF TrimRight, SelectLastInSeq, Others

LEMMA TrimSpaceIs ==
    ASSUME NEW s
    PROVE  TrimSpace(s) = IF Others(s, Space) = {} \/ Min(Others(s, Space)) = 0 THEN <<>>
                          ELSE TrimRight(SubSeq(s, Min(Others(s, Space)), Len(s)), Space)
BY DEF TrimSpace, SelectInSeq, Others

LEMMA TrimRightText ==
    ASSUME NEW C, NEW s \in Seq(C), NEW c
    PROVE  TrimRight(s, c) \in Seq(C)
<1> DEFINE last == IF Others(s, c) # {} THEN Max(Others(s, c)) ELSE 0
<1>1. Others(s, c) \subseteq 1..Len(s) /\ Len(s) \in Nat
  BY DEF Others
<1>2. last \in 0..Len(s)
  BY <1>1, MaxOf
<1>3. SubSeq(s, 1, last) \in Seq(C)
  <2> HIDE DEF last
  <2>1. \A i \in 1..last : s[i] \in C
    BY <1>1, <1>2, ElementOfSeq
  <2> QED BY <1>2, <2>1, SubSeqProperties
<1> QED BY <1>3, TrimRightIs

LEMMA TrimSpaceText ==
    ASSUME NEW C, NEW s \in Seq(C)
    PROVE  TrimSpace(s) \in Seq(C)
<1> DEFINE first == Min(Others(s, Space))
<1>1. Others(s, Space) \subseteq 1..Len(s) /\ Len(s) \in Nat
  BY DEF Others
<1>2. Others(s, Space) # {} => first \in 1..Len(s)
  BY <1>1, MinOf
<1>3. Others(s, Space) # {} => SubSeq(s, first, Len(s)) \in Seq(C)
  <2> HIDE DEF first
  <2>1. Others(s, Space) # {} => \A i \in first..Len(s) : s[i] \in C
    BY <1>1, <1>2, ElementOfSeq
  <2> QED BY <1>1, <1>2, <2>1, SubSeqProperties
<1>4. <<>> \in Seq(C)
  BY EmptySeq
<1> QED BY <1>3, <1>4, TrimSpaceIs, TrimRightText

\* A text with no space at either end is trimmed already.
LEMMA TrimSpaceOfTrimmed ==
    ASSUME NEW C, NEW s \in Seq(C), s # <<>>, s[1] # Space, s[Len(s)] # Space
    PROVE  TrimSpace(s) = s
<1>1. Len(s) \in Nat \ {0}
  BY EmptySeq
<1>2. /\ Others(s, Space) \subseteq 1..Len(s)
      /\ 1 \in Others(s, Space) /\ Len(s) \in Others(s, Space)
  BY <1>1 DEF Others
<1>3. Min(Others(s, Space)) = 1 /\ Max(Others(s, Space)) = Len(s)
  <2>1. Min(Others(s, Space)) \in 1..Len(s) /\ Min(Others(s, Space)) <= 1
    BY <1>1, <1>2, MinOf
  <2>2. Max(Others(s, Space)) \in 1..Len(s) /\ Len(s) <= Max(Others(s, Space))
    BY <1>1, <1>2, MaxOf
  <2> QED BY <1>1, <2>1, <2>2
<1>4. SubSeq(s, 1, Len(s)) = s
  BY SubSeqFull
<1>5. TrimRight(s, Space) = s
  BY <1>2, <1>3, <1>4, TrimRightIs
<1>6. Others(s, Space) # {} /\ Min(Others(s, Space)) # 0
  BY <1>2, <1>3
<1>7. TrimSpace(s) = TrimRight(SubSeq(s, Min(Others(s, Space)), Len(s)), Space)
  BY <1>6, TrimSpaceIs
<1> QED BY <1>3, <1>4, <1>5, <1>7

Equals(s, c) == {i \in 1..Len(s) : s[i] = c}

LEMMA CutIs ==
    ASSUME NEW s, NEW c
    PROVE  /\ Equals(s, c) = {} =>
                  Cut(s, c) = [found |-> FALSE, before |-> s, after |-> <<>>]
           /\ Equals(s, c) # {} /\ Min(Equals(s, c)) # 0 =>
                  Cut(s, c) = [found  |-> TRUE,
                               before |-> SubSeq(s, 1, Min(Equals(s, c)) - 1),
                               after  |-> SubSeq(s, Min(Equals(s, c)) + 1, Len(s))]
BY DEF Cut, SelectInSeq, Equals

\* A part of a text.
LEMMA PartOfText ==
    ASSUME NEW C, NEW s \in Seq(C), NEW m \in Nat \ {0}, NEW n \in Nat, n <= Len(s)
    PROVE  /\ SubSeq(s, m, n) \in Seq(C)
           /\ Len(SubSeq(s, m, n)) = IF m <= n THEN n - m + 1 ELSE 0
           /\ \A i \in 1..(n - m + 1) : SubSeq(s, m, n)[i] = s[m + i - 1]
<1>1. \A i \in m..n : s[i] \in C
  BY ElementOfSeq
<1> QED BY <1>1, SubSeqProperties

\* A text without trailing separators loses none.
LEMMA TrimRightOfTrimmed ==
    ASSUME NEW C, NEW s \in Seq(C), Len(s) >= 1, NEW c, s[Len(s)] # c
    PROVE  TrimRight(s, c) = s
<1>1. Len(s) \in Nat \ {0}
  OBVIOUS
<1>2. Others(s, c) \subseteq 1..Len(s) /\ Len(s) \in Others(s, c)
  BY <1>1 DEF Others
<1>3. Max(Others(s, c)) = Len(s)
  <2>1. Max(Others(s, c)) \in 1..Len(s) /\ Len(s) <= Max(Others(s, c))
    BY <1>1, <1>2, MaxOf
  <2> QED BY <1>1, <2>1
<1> QED BY <1>2, <1>3, TrimRightIs, SubSeqFull

\* What is left by TrimRight.
LEMMA TrimRightEnd ==
    ASSUME NEW C, NEW s \in Seq(C), NEW c
    PROVE  LET t == TrimRight(s, c)
           IN  \/ t = <<>> /\ \A i \in 1..Len(s) : s[i] = c
               \/ Len(t) >= 1 /\ t[1] = s[1] /\ t[Len(t)] # c
<1>1. Len(s) \in Nat /\ Others(s, c) \subseteq 1..Len(s)
  BY DEF Others
<1>2. CASE Others(s, c) = {}
  <2>1. TrimRight(s, c) = SubSeq(s, 1, 0)
    BY <1>2, TrimRightIs
  <2>2. SubSeq(s, 1, 0) = <<>>
    BY SubSeqEmpty
  <2> QED BY <1>2, <2>1, <2>2 DEF Others
<1>3. CASE Others(s, c) # {}
  <2> DEFINE last == Max(Others(s, c))
  <2>1. last \in 1..Len(s) /\ s[last] # c
    <3>1. last \in Others(s, c)
      BY <1>1, <1>3, MaxOf
    <3> HIDE DEF last
    <3> QED BY <3>1 DEF Others
  <2>2. TrimRight(s, c) = SubSeq(s, 1, last)
    BY <1>3, TrimRightIs
  <2> HIDE DEF last
  <2>3. /\ Len(SubSeq(s, 1, last)) = last
        /\ SubSeq(s, 1, last)[1] = s[1] /\ SubSeq(s, 1, last)[last] = s[last]
    BY <1>1, <2>1, PartOfText
  <2> QED BY <2>1, <2>2, <2>3
<1> QED BY <1>2, <1>3

\* Both parts of a text that was put together are found again.
LEMMA PartsOfText ==
    ASSUME NEW C, NEW s \in Seq(C), NEW t \in Seq(C)
    PROVE  StartsWith(s \o t, s) /\ SubSeq(s \o t, Len(s) + 1, Len(s \o t)) = t
<1> DEFINE all == s \o t
<1>1. /\ all \in Seq(C) /\ Len(all) = Len(s) + Len(t)
      /\ \A i \in 1..(Len(s) + Len(t)) :
             all[i] = IF i <= Len(s) THEN s[i] ELSE t[i - Len(s)]
  BY ConcatProperties
<1>2. Len(s) \in Nat /\ Len(t) \in Nat
  OBVIOUS
<1> HIDE DEF all
<1>3. SubSeq(all, 1, Len(s)) = SubSeq(s, 1, Len(s))
  <2>1. /\ SubSeq(all, 1, Len(s)) \in Seq(C)
        /\ Len(SubSeq(all, 1, Len(s))) = Len(s)
        /\ \A i \in 1..Len(s) : SubSeq(all, 1, Len(s))[i] = all[i]
    BY <1>1, <1>2, PartOfText
  <2>2. \A i \in 1..Len(s) : SubSeq(all, 1, Len(s))[i] = s[i]
    BY <1>1, <1>2, <2>1
  <2>3. SubSeq(all, 1, Len(s)) = s
    BY <2>1, <2>2, SeqEqual
  <2> QED BY <2>3, SubSeqFull
<1>4. StartsWith(all, s)
  BY <1>1, <1>2, <1>3 DEF StartsWith, IsPrefix
<1>5. SubSeq(all, Len(s) + 1, Len(all)) = t
  <2> DEFINE rest == SubSeq(all, Len(s) + 1, Len(all))
  <2>1. /\ rest \in Seq(C) /\ Len(rest) = Len(t)
        /\ \A i \in 1..(Len(all) - (Len(s) + 1) + 1) : rest[i] = all[Len(s) + 1 + i - 1]
    <3>1. Len(s) + 1 \in Nat \ {0} /\ Len(all) \in Nat
      BY <1>1, <1>2
    <3> QED BY <1>1, <1>2, <3>1, PartOfText
  <2> HIDE DEF rest
  <2>2. \A i \in 1..Len(t) : rest[i] = t[i]
    <3> TAKE i \in 1..Len(t)
    <3>1. /\ i \in 1..(Len(all) - (Len(s) + 1) + 1)
          /\ Len(s) + 1 + i - 1 = Len(s) + i
          /\ Len(s) + i \in 1..(Len(s) + Len(t))
          /\ ~(Len(s) + i <= Len(s)) /\ (Len(s) + i) - Len(s) = i
      BY <1>1, <1>2
    <3> QED BY <1>1, <2>1, <3>1
  <2>3. rest = t
    BY <2>1, <2>2, SeqEqual
  <2> QED BY <2>3 DEF rest
<1> QED BY <1>4, <1>5 DEF all

LEMMA SuffixIs ==
    ASSUME NEW C, NEW s \in Seq(C), NEW t \in Seq(C)
    PROVE  EndsWith(s, t) <=>
               /\ Len(t) <= Len(s)
               /\ \A i \in 1..Len(t) : t[i] = s[Len(s) - Len(t) + i]
<1> DEFINE r == Reverse(t)
           q == Reverse(s)
<1>1. Len(s) \in Nat /\ Len(t) \in Nat
  OBVIOUS
<1>2. /\ r = [i \in 1..Len(t) |-> t[(Len(t) - i) + 1]]
      /\ q = [i \in 1..Len(s) |-> s[(Len(s) - i) + 1]]
  BY DEF Reverse
<1>3. Len(r) = Len(t) /\ Len(q) = Len(s) /\ r \in Seq(C) /\ q \in Seq(C)
  <2>1. \A i \in 1..Len(t) : t[(Len(t) - i) + 1] \in C
    <3> TAKE i \in 1..Len(t)
    <3>1. (Len(t) - i) + 1 \in 1..Len(t)
      BY <1>1
    <3> QED BY <3>1, ElementOfSeq
  <2>2. \A i \in 1..Len(s) : s[(Len(s) - i) + 1] \in C
    <3> TAKE i \in 1..Len(s)
    <3>1. (Len(s) - i) + 1 \in 1..Len(s)
      BY <1>1
    <3> QED BY <3>1, ElementOfSeq
  <2> QED BY <1>1, <1>2, <2>1, <2>2
<1>4. \A i \in 1..Len(t) : r[i] = t[(Len(t) - i) + 1]
  BY <1>2
<1>5. \A i \in 1..Len(s) : q[i] = s[(Len(s) - i) + 1]
  BY <1>2
<1> HIDE DEF r, q
<1>6. EndsWith(s, t) <=> Len(t) <= Len(s) /\ SubSeq(r, 1, Len(t)) = SubSeq(q, 1, Len(t))
  BY <1>3 DEF EndsWith, IsSuffix, IsPrefix, r, q
<1>7. SubSeq(r, 1, Len(t)) = r
  BY <1>3, SubSeqFull
<1>8. ASSUME Len(t) <= Len(s)
      PROVE  /\ SubSeq(q, 1, Len(t)) \in Seq(C) /\ Len(SubSeq(q, 1, Len(t))) = Len(t)
             /\ \A i \in 1..Len(t) : SubSeq(q, 1, Len(t))[i] = s[(Len(s) - i) + 1]
  <2>1. /\ SubSeq(q, 1, Len(t)) \in Seq(C) /\ Len(SubSeq(q, 1, Len(t))) = Len(t)
        /\ \A i \in 1..Len(t) : SubSeq(q, 1, Len(t))[i] = q[i]
    BY <1>1, <1>3, <1>8, PartOfText
  <2> QED BY <1>1, <1>5, <1>8, <2>1
<1>9. ASSUME Len(t) <= Len(s)
      PROVE  r = SubSeq(q, 1, Len(t)) <=>
                 \A i \in 1..Len(t) : t[(Len(t) - i) + 1] = s[(Len(s) - i) + 1]
  <2>1. r = SubSeq(q, 1, Len(t)) <=> \A i \in 1..Len(t) : r[i] = SubSeq(q, 1, Len(t))[i]
    BY <1>3, <1>8, <1>9, SeqEqual
  <2> QED BY <1>4, <1>8, <1>9, <2>1
<1>10. ASSUME Len(t) <= Len(s)
       PROVE  (\A i \in 1..Len(t) : t[(Len(t) - i) + 1] = s[(Len(s) - i) + 1]) <=>
                  \A i \in 1..Len(t) : t[i] = s[Len(s) - Len(t) + i]
  <2>1. ASSUME \A i \in 1..Len(t) : t[(Len(t) - i) + 1] = s[(Len(s) - i) + 1],
               NEW i \in 1..Len(t)
        PROVE  t[i] = s[Len(s) - Len(t) + i]
    <3>0. (Len(t) - i) + 1 \in 1..Len(t)
      BY <1>1
    <3>1. PICK k \in 1..Len(t) : k = (Len(t) - i) + 1
      BY <3>0
    <3>2. (Len(t) - k) + 1 = i /\ (Len(s) - k) + 1 = Len(s) - Len(t) + i
      BY <1>1, <3>1
    <3> QED BY <2>1, <3>2
  <2>2. ASSUME \A i \in 1..Len(t) : t[i] = s[Len(s) - Len(t) + i],
               NEW i \in 1..Len(t)
        PROVE  t[(Len(t) - i) + 1] = s[(Len(s) - i) + 1]
    <3>0. (Len(t) - i) + 1 \in 1..Len(t)
      BY <1>1
    <3>1. PICK k \in 1..Len(t) : k = (Len(t) - i) + 1
      BY <3>0
    <3>2. Len(s) - Len(t) + k = (Len(s) - i) + 1
      BY <1>1, <3>1
    <3> QED BY <2>2, <3>1, <3>2
  <2> QED BY <2>1, <2>2
<1> QED BY <1>6, <1>7, <1>9, <1>10

\* A text ends with a character exactly when that is its last one.
LEMMA LastIs ==
    ASSUME NEW C, NEW s \in Seq(C), Len(s) >= 1, NEW c
    PROVE  EndsWith(s, <<c>>) <=> s[Len(s)] = c
<1> DEFINE D == C \cup {c}
<1>1. C \subseteq D /\ c \in D
  OBVIOUS
<1> HIDE DEF D
<1>2. s \in Seq(D) /\ Len(s) \in Nat
  BY <1>1, SeqMonotonic
<1>3. PICK t \in Seq(D) : t = <<c>> /\ Len(t) = 1 /\ t[1] = c
  <2>1. <<c>> \in Seq(D) /\ Len(<<c>>) = 1 /\ <<c>>[1] = c
    BY <1>1
  <2> QED BY <2>1, Zenon
<1>4. EndsWith(s, t) <=>
          Len(t) <= Len(s) /\ \A i \in 1..Len(t) : t[i] = s[Len(s) - Len(t) + i]
  BY <1>2, SuffixIs
<1>5. EndsWith(s, t) <=> \A i \in 1..1 : t[i] = s[Len(s) - 1 + i]
  BY <1>3, <1>4
<1>6. (\A i \in 1..1 : t[i] = s[Len(s) - 1 + i]) <=> t[1] = s[Len(s)]
  <2>1. 1 \in 1..1 /\ Len(s) - 1 + 1 = Len(s) /\ \A i \in 1..1 : i = 1
    BY <1>2
  <2> QED BY <2>1
<1> QED BY <1>3, <1>5, <1>6

LEMMA RootedIs ==
    ASSUME NEW C, Separator \in C, NEW s \in Seq(C), Len(s) >= 1
    PROVE  StartsWith(s, <<Separator>>) <=> s[1] = Separator
<1>1. SubSeq(<<Separator>>, 1, 1) = <<Separator>> /\ Len(<<Separator>>) = 1
  <2> DEFINE mark == <<Separator>>
  <2>1. mark \in Seq(C) /\ Len(mark) = 1
    OBVIOUS
  <2> HIDE DEF mark
  <2>2. SubSeq(mark, 1, Len(mark)) = mark
    BY <2>1, SubSeqFull
  <2>3. SubSeq(mark, 1, 1) = mark
    BY <2>1, <2>2
  <2> QED BY <2>1, <2>3 DEF mark
<1>2. SubSeq(s, 1, 1) \in Seq(C) /\ Len(SubSeq(s, 1, 1)) = 1 /\ SubSeq(s, 1, 1)[1] = s[1]
  <2>1. Len(s) \in Nat
    OBVIOUS
  <2> QED BY <2>1, PartOfText
<1>3. <<Separator>> = SubSeq(s, 1, 1) <=> s[1] = Separator
  <2>1. <<Separator>> \in Seq(C) /\ <<Separator>>[1] = Separator
    OBVIOUS
  <2>2. s[1] = Separator => \A i \in 1..1 : <<Separator>>[i] = SubSeq(s, 1, 1)[i]
    BY <1>2, <2>1
  <2>3. s[1] = Separator => <<Separator>> = SubSeq(s, 1, 1)
    BY <1>1, <1>2, <2>1, <2>2, SeqEqual
  <2> QED BY <1>2, <2>1, <2>3
<1> QED BY <1>1, <1>3 DEF StartsWith, IsPrefix

LEMMA RootedText ==
    ASSUME NEW C, Separator \in C, NEW s \in Seq(C), s # <<>>
    PROVE  LET t == Rooted(s)
           IN  t \in Seq(C) /\ Len(t) >= 1 /\ t[1] = Separator /\ t[Len(t)] = s[Len(s)]
<1>1. Len(s) \in Nat /\ Len(s) >= 1
  BY EmptySeq
<1>2. CASE s[1] = Separator
  <2>1. Rooted(s) = s
    BY <1>1, <1>2, RootedIs DEF Rooted
  <2> QED BY <1>1, <1>2, <2>1
<1>3. CASE s[1] # Separator
  <2> DEFINE mark == <<Separator>>
             t == mark \o s
  <2>1. mark \in Seq(C) /\ Len(mark) = 1 /\ mark[1] = Separator
    OBVIOUS
  <2>2. Rooted(s) = t
    BY <1>1, <1>3, RootedIs DEF Rooted
  <2> HIDE DEF mark
  <2>3. /\ t \in Seq(C) /\ Len(t) = Len(mark) + Len(s)
        /\ \A i \in 1..(Len(mark) + Len(s)) :
               t[i] = IF i <= Len(mark) THEN mark[i] ELSE s[i - Len(mark)]
    BY <2>1, ConcatProperties
  <2> HIDE DEF t
  <2>4. t[1] = Separator /\ t[Len(t)] = s[Len(s)]
    <3>1. /\ 1 \in 1..(Len(mark) + Len(s)) /\ 1 <= Len(mark)
          /\ Len(t) \in 1..(Len(mark) + Len(s)) /\ ~(Len(t) <= Len(mark))
          /\ Len(t) - Len(mark) = Len(s)
      BY <1>1, <2>1, <2>3
    <3> QED BY <2>1, <2>3, <3>1
  <2> QED BY <1>1, <2>1, <2>2, <2>3, <2>4
<1> QED BY <1>2, <1>3

-----------------------------------------------------------------------------
(* The bearer token.                                                       *)

\* A sequence after two more elements.
LEMMA AfterTwo ==
    ASSUME NEW S, NEW a \in S, NEW b \in S, NEW t \in Seq(S)
    PROVE  /\ <<a, b>> \o t \in Seq(S)
           /\ Len(<<a, b>> \o t) = Len(t) + 2
           /\ Len(t) \in Nat
           /\ (<<a, b>> \o t)[1] = a
           /\ (<<a, b>> \o t)[2] = b
           /\ \A i \in 1..Len(t) : (<<a, b>> \o t)[i + 2] = t[i]
           /\ <<a>> \in Seq(S)
OBVIOUS

\* A token without spaces is what is left of a header that presents it.
LEMMA PresentedToken ==
    ASSUME NEW scheme \in BearerSchemes,
           NEW C, scheme \in C, Space \in C, NEW t \in Seq(C),
           \A i \in DOMAIN t : t[i] # Space
    PROVE  BearerToken(<<scheme, Space>> \o t) = t
<1> DEFINE h == <<scheme, Space>> \o t
<1>1. /\ h \in Seq(C) /\ Len(h) = Len(t) + 2 /\ Len(t) \in Nat
      /\ h[1] = scheme /\ h[2] = Space
      /\ \A i \in 1..Len(t) : h[i + 2] = t[i] /\ t[i] # Space
      /\ scheme # Space /\ <<scheme>> \in Seq(C)
  <2>1. scheme # Space
    BY DEF BearerSchemes, Space
  <2>2. /\ h \in Seq(C) /\ Len(h) = Len(t) + 2 /\ Len(t) \in Nat
        /\ h[1] = scheme /\ h[2] = Space
        /\ \A i \in 1..Len(t) : h[i + 2] = t[i]
        /\ <<scheme>> \in Seq(C)
    BY AfterTwo
  <2>3. DOMAIN t = 1..Len(t)
    BY LenProperties
  <2> HIDE DEF h
  <2> QED BY <2>1, <2>2, <2>3
<1> HIDE DEF h
<1>2. CASE t = <<>>
  <2>1. Len(t) = 0
    BY <1>2
  <2>2. Others(h, Space) = {1}
    BY <1>1, <2>1 DEF Others
  <2>3. Min(Others(h, Space)) = 1
    BY <2>2 DEF Min
  <2>4. SubSeq(h, 1, Len(h)) = h
    BY <1>1, SubSeqFull
  <2>5. TrimRight(h, Space) = SubSeq(h, 1, 1)
    <3>1. Max(Others(h, Space)) = 1
      BY <2>2 DEF Max
    <3> QED BY <2>2, <3>1, TrimRightIs
  <2>6. TrimSpace(h) = SubSeq(h, 1, 1)
    <3>1. Others(h, Space) # {} /\ Min(Others(h, Space)) # 0
      BY <2>2, <2>3
    <3>2. TrimSpace(h) = TrimRight(SubSeq(h, Min(Others(h, Space)), Len(h)), Space)
      BY <3>1, TrimSpaceIs
    <3> QED BY <2>3, <2>4, <2>5, <3>2
  <2>7. Equals(SubSeq(h, 1, 1), Space) = {}
    <3>1. Len(SubSeq(h, 1, 1)) = 1 /\ SubSeq(h, 1, 1)[1] = h[1]
      <4>1. h \in Seq(C) /\ 1 <= Len(h)
        BY <1>1, <2>1
      <4> QED BY <4>1, PartOfText
    <3>2. \A i \in 1..Len(SubSeq(h, 1, 1)) : SubSeq(h, 1, 1)[i] # Space
      <4> TAKE i \in 1..Len(SubSeq(h, 1, 1))
      <4>1. i = 1 /\ h[1] # Space
        BY <1>1, <3>1
      <4> QED BY <3>1, <4>1
    <3> QED BY <3>2 DEF Equals
  <2>8. Cut(TrimSpace(h), Space).found = FALSE
    BY <2>6, <2>7, CutIs
  <2> QED BY <1>2, <2>8 DEF BearerToken, h
<1>3. CASE t # <<>>
  <2>1. Len(t) > 0
    BY <1>1, <1>3, EmptySeq
  <2>2. TrimSpace(h) = h
    <3>1. h # <<>> /\ h[1] # Space /\ h[Len(h)] # Space
      BY <1>1, <2>1, EmptySeq
    <3> QED BY <1>1, <3>1, TrimSpaceOfTrimmed
  <2>3. Equals(h, Space) = {2}
    <3>1. \A i \in 1..Len(h) : h[i] = Space => i = 2
      <4> SUFFICES ASSUME NEW i \in 1..Len(h), i # 2 PROVE h[i] # Space
        OBVIOUS
      <4>1. CASE i = 1
        BY <1>1, <4>1
      <4>2. CASE i - 2 \in 1..Len(t)
        <5>1. PICK j \in 1..Len(t) : i = j + 2
          BY <1>1, <4>2
        <5> QED BY <1>1, <5>1
      <4> QED BY <1>1, <4>1, <4>2
    <3>2. 2 \in 1..Len(h) /\ h[2] = Space
      BY <1>1
    <3> QED BY <3>1, <3>2 DEF Equals
  <2>4. Min(Equals(h, Space)) = 2
    BY <2>3 DEF Min
  <2>5. Cut(h, Space) = [found |-> TRUE, before |-> SubSeq(h, 1, 1),
                         after |-> SubSeq(h, 3, Len(h))]
    <3>1. Equals(h, Space) # {} /\ Min(Equals(h, Space)) # 0
      BY <2>3, <2>4
    <3>2. Min(Equals(h, Space)) - 1 = 1 /\ Min(Equals(h, Space)) + 1 = 3
      BY <2>4
    <3> QED BY <3>1, <3>2, CutIs
  <2>6. SubSeq(h, 1, 1) = <<scheme>>
    <3>1. /\ SubSeq(h, 1, 1) \in Seq(C) /\ Len(SubSeq(h, 1, 1)) = 1
          /\ SubSeq(h, 1, 1)[1] = h[1]
      BY <1>1, PartOfText
    <3>2. Len(<<scheme>>) = 1 /\ <<scheme>>[1] = scheme
      OBVIOUS
    <3>3. \A i \in 1..1 : SubSeq(h, 1, 1)[i] = <<scheme>>[i]
      BY <1>1, <3>1, <3>2
    <3> QED BY <1>1, <3>1, <3>2, <3>3, SeqEqual
  <2>7. SubSeq(h, 3, Len(h)) = t
    <3>1. /\ SubSeq(h, 3, Len(h)) \in Seq(C)
          /\ Len(SubSeq(h, 3, Len(h))) = Len(t)
          /\ \A i \in 1..(Len(h) - 3 + 1) : SubSeq(h, 3, Len(h))[i] = h[3 + i - 1]
      BY <1>1, <2>1, PartOfText
    <3>2. \A i \in 1..Len(t) : SubSeq(h, 3, Len(h))[i] = t[i]
      <4> TAKE i \in 1..Len(t)
      <4>1. i \in 1..(Len(h) - 3 + 1) /\ 3 + i - 1 = i + 2
        BY <1>1
      <4> QED BY <1>1, <3>1, <4>1
    <3> QED BY <3>1, <3>2, SeqEqual
  <2>8. TrimSpace(t) = t
    <3>1. t[1] # Space /\ t[Len(t)] # Space
      BY <1>1, <2>1
    <3> QED BY <1>3, <3>1, TrimSpaceOfTrimmed
  <2>9. BearerToken(h) = TrimSpace(t)
    <3>1. Cut(TrimSpace(h), Space) = [found |-> TRUE, before |-> <<scheme>>, after |-> t]
      BY <2>2, <2>5, <2>6, <2>7
    <3>2. <<scheme>> \in {<<x>> : x \in BearerSchemes}
      OBVIOUS
    <3> QED BY <3>1, <3>2 DEF BearerToken
  <2> QED BY <2>8, <2>9 DEF h
<1> QED BY <1>2, <1>3

\* For any lengths, a token that validation accepts is authorised when it is
\* presented with either spelling of the scheme, and no other accepted token is
\* (utils.go:88-109, auth.go:11-29).
THEOREM AcceptedTokensWork == StartupSpec => []TokenCanBePresented
<1>1. ASSUME StartupInv, step = "serve", config.authToken # <<>>,
             NEW line \in CommandLines, ValidToken(line.authToken),
             NEW scheme \in BearerSchemes
      PROVE  Authorized(config.authToken, <<scheme, Space>> \o line.authToken)
                 <=> line.authToken = config.authToken
  <2>1. line.authToken \in Seq(STRING)
    BY CommandLinesAssumption
  <2>2. \A i \in DOMAIN line.authToken : line.authToken[i] # Space
    BY <1>1, <2>1 DEF ValidToken, Unprintable
  <2> DEFINE Characters == STRING \cup {scheme, Space}
  <2>3. scheme \in Characters /\ Space \in Characters /\ line.authToken \in Seq(Characters)
    <3>1. STRING \subseteq Characters
      OBVIOUS
    <3>2. line.authToken \in Seq(Characters)
      <4> HIDE DEF Characters
      <4> QED BY <2>1, <3>1, SeqMonotonic
    <3> QED BY <3>2
  <2> HIDE DEF Characters
  <2>4. BearerToken(<<scheme, Space>> \o line.authToken) = line.authToken
    BY <2>2, <2>3, PresentedToken
  <2> QED BY <1>1, <2>4 DEF Authorized
<1>2. StartupInv => TokenCanBePresented
  BY <1>1 DEF TokenCanBePresented
<1> QED BY <1>2, StartupInvariance, PTL

-----------------------------------------------------------------------------
(* The routes.                                                             *)

CheckInRoutes(path, allowGET) ==
    {[method |-> m, path |-> path, handler |-> "CheckIn"] :
        m \in IF allowGET THEN {"GET", "POST"} ELSE {"POST"}}

FixedRouteSet == {FixedRoutes[i] : i \in 1..7}

LEMMA FixedAre ==
    /\ FixedRoutes \in Seq(FixedRouteSet) /\ Len(FixedRoutes) = 7
    /\ FixedRouteSet =
          {Route("GET", "status", "Status"), Route("GET", "version", "Version"),
           Route("GET", "metrics", "Metrics"), Route("GET", "healthz", "Healthz"),
           Route("POST", "healthz", "Healthz"), Route("GET", "readyz", "Readyz"),
           Route("POST", "readyz", "Readyz")}
<1>1. Len(FixedRoutes) = 7 /\ DOMAIN FixedRoutes = 1..7
  BY DEF FixedRoutes
<1>2. FixedRoutes \in Seq(FixedRouteSet)
  BY DEF FixedRoutes, FixedRouteSet
<1>3. 1..7 = {1, 2, 3, 4, 5, 6, 7}
  OBVIOUS
<1>4. FixedRouteSet = {FixedRoutes[i] : i \in {1, 2, 3, 4, 5, 6, 7}}
  BY <1>3 DEF FixedRouteSet
<1>5. FixedRouteSet = {FixedRoutes[1], FixedRoutes[2], FixedRoutes[3], FixedRoutes[4],
                       FixedRoutes[5], FixedRoutes[6], FixedRoutes[7]}
  BY <1>4
<1> QED BY <1>1, <1>2, <1>5 DEF FixedRoutes

\* The check-in routes come first.
LEMMA RegisteredAre ==
    ASSUME NEW path, NEW allowGET \in BOOLEAN
    PROVE  LET routes == RegisteredRoutes(path, allowGET)
               n == IF allowGET THEN 2 ELSE 1
           IN  /\ DOMAIN routes = 1..(n + 7)
               /\ {routes[i] : i \in 1..n} = CheckInRoutes(path, allowGET)
               /\ \A i \in 1..7 : routes[n + i] = FixedRoutes[i]
<1> DEFINE g == [method |-> "GET", path |-> path, handler |-> "CheckIn"]
           p == [method |-> "POST", path |-> path, handler |-> "CheckIn"]
           mine == IF allowGET THEN <<g, p>> ELSE <<p>>
           n == IF allowGET THEN 2 ELSE 1
<1>1. RegisteredRoutes(path, allowGET) = mine \o FixedRoutes
  BY DEF RegisteredRoutes, CheckInBy
<1>2. {mine[i] : i \in 1..n} = CheckInRoutes(path, allowGET)
  <2>1. CASE allowGET
    <3>1. 1..2 = {1, 2}
      OBVIOUS
    <3> QED BY <2>1, <3>1 DEF CheckInRoutes
  <2>2. CASE ~allowGET
    <3>1. 1..1 = {1}
      OBVIOUS
    <3> QED BY <2>2, <3>1 DEF CheckInRoutes
  <2> QED BY <2>1, <2>2
<1> DEFINE S == {g, p} \cup FixedRouteSet
<1>3. mine \in Seq(S) /\ Len(mine) = n
  <2>1. g \in S /\ p \in S
    OBVIOUS
  <2> HIDE DEF g, p, S
  <2>2. <<g, p>> \in Seq(S) /\ Len(<<g, p>>) = 2 /\ <<p>> \in Seq(S) /\ Len(<<p>>) = 1
    BY <2>1
  <2> QED BY <2>2
<1>4. FixedRoutes \in Seq(S)
  BY FixedAre, SeqMonotonic
<1> HIDE DEF mine, S
<1>5. /\ mine \o FixedRoutes \in Seq(S)
      /\ Len(mine \o FixedRoutes) = n + 7
      /\ \A i \in 1..(n + 7) : (mine \o FixedRoutes)[i] =
              IF i <= n THEN mine[i] ELSE FixedRoutes[i - n]
  <2>1. /\ mine \o FixedRoutes \in Seq(S)
        /\ Len(mine \o FixedRoutes) = Len(mine) + Len(FixedRoutes)
        /\ \A i \in 1..(Len(mine) + Len(FixedRoutes)) : (mine \o FixedRoutes)[i] =
                IF i <= Len(mine) THEN mine[i] ELSE FixedRoutes[i - Len(mine)]
    <3>1. mine \in Seq(S) /\ FixedRoutes \in Seq(S)
      BY <1>3, <1>4
    <3> QED BY <3>1, ConcatProperties
  <2>2. Len(mine) = n /\ Len(FixedRoutes) = 7
    BY <1>3, FixedAre
  <2> QED BY <2>1, <2>2
<1>6. DOMAIN (mine \o FixedRoutes) = 1..(n + 7)
  <2> DEFINE all == mine \o FixedRoutes
  <2>1. all \in Seq(S) /\ Len(all) = n + 7
    BY <1>5
  <2> HIDE DEF all
  <2>2. DOMAIN all = 1..(n + 7)
    BY <2>1, LenProperties
  <2> QED BY <2>2 DEF all
<1>7. \A i \in 1..n : (mine \o FixedRoutes)[i] = mine[i]
  BY <1>5
<1>8. \A i \in 1..7 : (mine \o FixedRoutes)[n + i] = FixedRoutes[i]
  <2> TAKE i \in 1..7
  <2>1. n + i \in 1..(n + 7) /\ ~(n + i <= n) /\ (n + i) - n = i
    OBVIOUS
  <2> QED BY <1>5, <2>1
<1>9. {(mine \o FixedRoutes)[i] : i \in 1..n} = {mine[i] : i \in 1..n}
  BY <1>7
<1> QED BY <1>1, <1>2, <1>6, <1>8, <1>9

\* A router that was built has no fixed route that is also a check-in route.
LEMMA NoConflict ==
    ASSUME NEW path, NEW allowGET \in BOOLEAN,
           ~RegistrationPanics(RegisteredRoutes(path, allowGET)),
           NEW c \in CheckInRoutes(path, allowGET), NEW f \in FixedRouteSet,
           c.method = f.method
    PROVE  c.path # f.path
<1> DEFINE routes == RegisteredRoutes(path, allowGET)
           n == IF allowGET THEN 2 ELSE 1
<1>1. /\ DOMAIN routes = 1..(n + 7)
      /\ {routes[i] : i \in 1..n} = CheckInRoutes(path, allowGET)
      /\ \A i \in 1..7 : routes[n + i] = FixedRoutes[i]
  BY RegisteredAre
<1>2. n \in Nat
  OBVIOUS
<1> HIDE DEF routes, n
<1>3. PICK i \in 1..n : c = routes[i]
  BY <1>1
<1>4. PICK k \in 1..7 : f = FixedRoutes[k]
  BY DEF FixedRouteSet
<1>5. /\ i \in DOMAIN routes /\ n + k \in DOMAIN routes /\ i < n + k
      /\ routes[n + k] = f
  <2>1. /\ i \in 1..(n + 7) /\ n + k \in 1..(n + 7) /\ i < n + k
    BY <1>2
  <2> QED BY <1>1, <1>4, <2>1
<1>6. \A a, b \in DOMAIN routes :
          a < b => ~(routes[a].method = routes[b].method /\ routes[a].path = routes[b].path)
  BY DEF RegistrationPanics, routes
<1> QED BY <1>3, <1>5, <1>6

\* Whatever is left of a path after its trailing separators.
LEMMA TrimmedPath ==
    ASSUME NEW C, NEW s \in Seq(C), Len(s) >= 1, TrimSeparators(s) # <<Separator>>
    PROVE  LET t == TrimSeparators(s)
           IN  t \in Seq(C) /\ Len(t) >= 1 /\ t[1] = s[1] /\ t[Len(t)] # Separator
<1> DEFINE O == Others(s, Separator)
           last == IF O # {} THEN Max(O) ELSE 0
<1>1. TrimSeparators(s) = SubSeq(s, 1, IF last = 0 THEN 1 ELSE last)
  BY DEF TrimSeparators, SelectLastInSeq, Others
<1>2. Len(s) \in Nat /\ O \subseteq 1..Len(s)
  BY DEF Others
<1>3. CASE O = {}
  <2>1. s[1] = Separator
    BY <1>2, <1>3 DEF Others
  <2>2. TrimSeparators(s) = SubSeq(s, 1, 1)
    BY <1>1, <1>3
  <2>3. SubSeq(s, 1, 1) \in Seq(C) /\ Len(SubSeq(s, 1, 1)) = 1 /\ SubSeq(s, 1, 1)[1] = s[1]
    BY <1>2, PartOfText
  <2>4. SubSeq(s, 1, 1) = <<SubSeq(s, 1, 1)[1]>>
    <3> DEFINE x == SubSeq(s, 1, 1)
    <3>1. x \in [1..1 -> C]
      <4> HIDE DEF x
      <4> QED BY <2>3, LenProperties DEF x
    <3> HIDE DEF x
    <3>2. x = [i \in 1..1 |-> x[i]]
      BY <3>1
    <3>3. [i \in 1..1 |-> x[i]] = <<x[1]>>
      OBVIOUS
    <3> QED BY <3>2, <3>3 DEF x
  <2> QED BY <2>1, <2>2, <2>3, <2>4
<1>4. CASE O # {}
  <2>1. last \in 1..Len(s) /\ s[last] # Separator
    <3>1. Max(O) \in O
      BY <1>2, <1>4, MaxOf
    <3> QED BY <1>2, <1>4, <3>1 DEF Others
  <2>2. TrimSeparators(s) = SubSeq(s, 1, last)
    <3>1. last # 0
      BY <2>1
    <3> QED BY <1>1, <3>1
  <2> HIDE DEF last
  <2>3. /\ SubSeq(s, 1, last) \in Seq(C) /\ Len(SubSeq(s, 1, last)) = last
        /\ SubSeq(s, 1, last)[1] = s[1] /\ SubSeq(s, 1, last)[last] = s[last]
    BY <1>2, <2>1, PartOfText
  <2> QED BY <2>1, <2>2, <2>3
<1> QED BY <1>3, <1>4

\* The check-in path begins with a separator and does not end with one.
LEMMA AcceptedPath ==
    ASSUME NEW C, Separator \in C, "checkin" \in C, NEW raw \in Seq(C),
           ValidPath(NormalizePath(raw))
    PROVE  LET p == NormalizePath(raw)
           IN  p \in Seq(C) /\ Len(p) >= 1 /\ p[1] = Separator /\ p[Len(p)] # Separator
<1>1. CASE TrimSpace(raw) = <<>>
  <2>1. NormalizePath(raw) = <<Separator, "checkin">>
    BY <1>1 DEF NormalizePath
  <2>2. "checkin" # Separator
    BY DEF Separator
  <2> QED BY <2>1, <2>2
<1>2. CASE TrimSpace(raw) # <<>>
  <2> DEFINE t == Rooted(TrimSpace(raw))
  <2>1. TrimSpace(raw) \in Seq(C)
    BY TrimSpaceText
  <2>2. t \in Seq(C) /\ Len(t) >= 1 /\ t[1] = Separator
    BY <1>2, <2>1, RootedText
  <2>3. NormalizePath(raw) = TrimSeparators(t)
    BY <1>2 DEF NormalizePath
  <2>4. TrimSeparators(t) # <<Separator>>
    BY <2>3 DEF ValidPath
  <2> HIDE DEF t
  <2> QED BY <2>2, <2>3, <2>4, TrimmedPath
<1> QED BY <1>1, <1>2

\* The route prefix is empty, or begins with a separator and does not end with
\* one.
LEMMA PrefixText ==
    ASSUME NEW C, Separator \in C, NEW raw \in Seq(C)
    PROVE  LET prefix == NormalizeRoutePrefix(raw)
           IN  /\ prefix \in Seq(C)
               /\ \/ prefix = <<>>
                  \/ /\ Len(prefix) >= 1
                     /\ prefix[1] = Separator /\ prefix[Len(prefix)] # Separator
<1> DEFINE given == TrimSpace(raw)
           rest == IF StartsWith(given, <<Origin>>) THEN Tail(given) ELSE given
           path == TrimRight(rest, Separator)
<1>1. given \in Seq(C)
  BY TrimSpaceText
<1> HIDE DEF given
<1>2. StartsWith(given, <<Origin>>) => Tail(given) \in Seq(C)
  <2>1. StartsWith(given, <<Origin>>) => Len(given) >= 1
    BY DEF StartsWith, IsPrefix
  <2>2. Len(given) >= 1 => given # <<>>
    BY <1>1, EmptySeq
  <2> QED BY <1>1, <2>1, <2>2, HeadTailProperties
<1>3. rest \in Seq(C)
  BY <1>1, <1>2
<1> HIDE DEF rest
<1>4. path \in Seq(C)
  BY <1>3, TrimRightText
<1>5. path = <<>> \/ (Len(path) >= 1 /\ path[Len(path)] # Separator)
  BY <1>3, TrimRightEnd
<1>6. NormalizeRoutePrefix(raw) = IF path = <<>> THEN <<>> ELSE Rooted(path)
  BY DEF NormalizeRoutePrefix, rest, given
<1> HIDE DEF path
<1>7. CASE path = <<>>
  BY <1>6, <1>7, EmptySeq
<1>8. CASE path # <<>>
  <2> DEFINE prefix == Rooted(path)
  <2>1. /\ prefix \in Seq(C) /\ Len(prefix) >= 1 /\ prefix[1] = Separator
        /\ prefix[Len(prefix)] = path[Len(path)]
    BY <1>4, <1>8, RootedText
  <2> HIDE DEF prefix
  <2>2. NormalizeRoutePrefix(raw) = prefix
    BY <1>6, <1>8 DEF prefix
  <2> QED BY <1>5, <1>8, <2>1, <2>2
<1> QED BY <1>7, <1>8

\* The prefix of a request is stripped again.
LEMMA UnderPrefix ==
    ASSUME NEW C, NEW prefix \in Seq(C), NEW p \in Seq(C), NEW routes, NEW method
    PROVE  HandlersUnder(prefix, routes, method, prefix \o p) = HandlersOf(routes, method, p)
BY PartsOfText DEF HandlersUnder

LEMMA PairText ==
    ASSUME NEW C, NEW a \in C, NEW b \in C
    PROVE  <<a, b>> \in Seq(C) /\ Len(<<a, b>>) = 2 /\ <<a, b>>[2] = b
OBVIOUS

LEMMA PairEnd ==
    ASSUME NEW C, Separator \in C, NEW name \in C, name # Separator
    PROVE  ~EndsWith(<<Separator, name>>, <<Separator>>)
<1>1. PICK t \in Seq(C) : t = <<Separator, name>> /\ Len(t) = 2 /\ t[2] = name
  BY PairText
<1>2. Len(t) >= 1 /\ t[Len(t)] # Separator
  BY <1>1
<1>3. ~EndsWith(t, <<Separator>>)
  BY <1>2, LastIs
<1> QED BY <1>1, <1>3

\* What the fixed routes have in common; the name decides on the handler.
FixedNames == {"status", "version", "metrics", "healthz", "readyz"}

HandlerNamed(name) ==
    CASE name = "status" -> "Status" [] name = "version" -> "Version"
      [] name = "metrics" -> "Metrics" [] name = "healthz" -> "Healthz"
      [] name = "readyz" -> "Readyz"

LEMMA FixedRouteIs ==
    ASSUME NEW f \in FixedRouteSet
    PROVE  /\ f.method \in {"GET", "POST"} /\ f.handler # "CheckIn"
           /\ f.path[2] \in FixedNames /\ f.path = <<Separator, f.path[2]>>
           /\ f.handler = HandlerNamed(f.path[2])
<1>1. \E method \in {"GET", "POST"}, name \in FixedNames :
          f = Route(method, name, HandlerNamed(name))
  BY FixedAre DEF FixedNames, HandlerNamed
<1>2. PICK method \in {"GET", "POST"}, name \in FixedNames :
          f = Route(method, name, HandlerNamed(name))
  BY <1>1
<1>3. HandlerNamed(name) # "CheckIn"
  BY <1>2 DEF FixedNames, HandlerNamed
<1>4. /\ f.method = method /\ f.path = <<Separator, name>>
      /\ f.handler = HandlerNamed(name)
  <2> HIDE DEF HandlerNamed
  <2> QED BY <1>2 DEF Route
<1>5. f.path[2] = name
  BY <1>4
<1> HIDE DEF HandlerNamed
<1> QED BY <1>2, <1>3, <1>4, <1>5

\* The routes that are registered for a method and path.
Matching(path, allowGET, method, q) ==
    {r \in CheckInRoutes(path, allowGET) \cup FixedRouteSet : r.path = q /\ r.method = method}

\* No route ends with a separator, so each serves its own path only.
LEMMA HandlersAre ==
    ASSUME NEW C, NEW path \in Seq(C), Len(path) >= 1, path[Len(path)] # Separator,
           NEW allowGET \in BOOLEAN, NEW method \in {"GET", "POST"}, NEW q
    PROVE  HandlersOf(RegisteredRoutes(path, allowGET), method, q)
               = {r.handler : r \in Matching(path, allowGET, method, q)}
<1> DEFINE routes == RegisteredRoutes(path, allowGET)
           n == IF allowGET THEN 2 ELSE 1
           all == CheckInRoutes(path, allowGET) \cup FixedRouteSet
<1>1. /\ DOMAIN routes = 1..(n + 7)
      /\ {routes[i] : i \in 1..n} = CheckInRoutes(path, allowGET)
      /\ \A i \in 1..7 : routes[n + i] = FixedRoutes[i]
  BY RegisteredAre
<1>2. n \in Nat
  OBVIOUS
<1>3. {routes[i] : i \in DOMAIN routes} = all
  <2> HIDE DEF routes, n
  <2>1. \A i \in DOMAIN routes : i \in 1..n \/ \E k \in 1..7 : i = n + k
    <3>1. ASSUME NEW i \in 1..(n + 7), i > n
          PROVE  i - n \in 1..7 /\ i = n + (i - n)
      BY <1>2, <3>1
    <3>2. ASSUME NEW i \in 1..(n + 7), ~(i > n)
          PROVE  i \in 1..n
      BY <1>2, <3>2
    <3>3. \A i \in 1..(n + 7) : i \in 1..n \/ \E k \in 1..7 : i = n + k
      BY <3>1, <3>2
    <3> QED BY <1>1, <3>3
  <2>2. \A k \in 1..7 : n + k \in DOMAIN routes /\ routes[n + k] \in FixedRouteSet
    BY <1>1, <1>2 DEF FixedRouteSet
  <2>3. \A i \in 1..n : i \in DOMAIN routes
    BY <1>1, <1>2
  <2>4. \A f \in FixedRouteSet : \E i \in DOMAIN routes : routes[i] = f
    BY <1>1, <2>2 DEF FixedRouteSet
  <2>5. \A c \in CheckInRoutes(path, allowGET) : \E i \in DOMAIN routes : routes[i] = c
    BY <1>1, <2>3
  <2>6. \A i \in DOMAIN routes : routes[i] \in all
    BY <1>1, <2>1, <2>2
  <2> HIDE DEF all
  <2>7. \A r \in all : \E i \in DOMAIN routes : routes[i] = r
    BY <2>4, <2>5 DEF all
  <2> QED BY <2>6, <2>7
<1>4. \A r \in all : ~EndsWith(r.path, <<Separator>>)
  <2>1. \A r \in CheckInRoutes(path, allowGET) : r.path = path
    BY DEF CheckInRoutes
  <2>2. ~EndsWith(path, <<Separator>>)
    BY LastIs
  <2>3. ASSUME NEW name, name # Separator
        PROVE  ~EndsWith(<<Separator, name>>, <<Separator>>)
    <3>1. \E D : Separator \in D /\ name \in D
      <4> WITNESS {Separator, name}
      <4> QED OBVIOUS
    <3> QED BY <2>3, <3>1, PairEnd
  <2>4. \A r \in FixedRouteSet : \E name : name # Separator /\ r.path = <<Separator, name>>
    BY FixedRouteIs DEF FixedNames, Separator
  <2> QED BY <2>1, <2>2, <2>3, <2>4
<1> HIDE DEF routes, all
<1>5. \A i \in DOMAIN routes : routes[i] \in all /\ ~EndsWith(routes[i].path, <<Separator>>)
  BY <1>3, <1>4
<1>6. HandlersOf(routes, method, q) =
          {routes[i].handler : i \in {j \in DOMAIN routes :
              routes[j].path = q /\ routes[j].method = method}}
  BY <1>5 DEF HandlersOf
<1>7. HandlersOf(routes, method, q) =
          {r.handler : r \in {x \in all : x.path = q /\ x.method = method}}
  BY <1>3, <1>6
<1> QED BY <1>7 DEF routes, all, Matching

\* Whatever path, prefix and methods were accepted, check-ins go to the check-in
\* handler and the fixed routes keep theirs (routes.go:17-31, utils.go:65-77).
THEOREM RoutesStayApart == StartupSpec => []RoutesAreKept
<1> DEFINE path == config.path
           prefix == config.routePrefix
           Served(method, p) == HandlersUnder(prefix, Routing, method, prefix \o p)
           Handlers(method, p) == {r.handler : r \in Matching(path, flags.allowGET, method, p)}
           Below == path \o <<Separator, "below">>
           Names == {Separator, "checkin", "below", "status", "version", "metrics",
                     "healthz", "readyz"}
           C == STRING \cup Names
<1>1. ASSUME StartupInv, step = "serve"
      PROVE  /\ path \in Seq(C) /\ Len(path) >= 1 /\ path[Len(path)] # Separator
             /\ prefix \in Seq(C)
             /\ flags.allowGET \in BOOLEAN
             /\ ~RegistrationPanics(Routing)
             /\ Routing = RegisteredRoutes(path, flags.allowGET)
  <2>1. /\ AcceptedLine(flags) /\ config = Parsed(flags) /\ flags \in CommandLines
        /\ ~RegistrationPanics(Routing)
    BY <1>1 DEF StartupInv, ConfiguredInv
  <2>2. /\ path = NormalizePath(flags.path) /\ prefix = NormalizeRoutePrefix(flags.routePrefix)
        /\ ValidPath(NormalizePath(flags.path))
    BY <2>1 DEF Parsed, AcceptedLine
  <2>3. STRING \subseteq C /\ Separator \in C /\ "checkin" \in C
    OBVIOUS
  <2>4. /\ flags.path \in Seq(STRING) /\ flags.routePrefix \in Seq(STRING)
        /\ flags.allowGET \in BOOLEAN
    BY <2>1, CommandLinesAssumption
  <2> HIDE DEF C, path, prefix
  <2>5. flags.path \in Seq(C) /\ flags.routePrefix \in Seq(C)
    BY <2>3, <2>4, SeqMonotonic
  <2>6. path \in Seq(C) /\ Len(path) >= 1 /\ path[Len(path)] # Separator
    BY <2>2, <2>3, <2>5, AcceptedPath
  <2>7. prefix \in Seq(C)
    BY <2>2, <2>3, <2>5, PrefixText
  <2> QED BY <2>1, <2>4, <2>6, <2>7 DEF Routing, path
<1>2. ASSUME StartupInv, step = "serve", NEW method \in {"GET", "POST"},
             NEW p \in Seq(C), Len(p) >= 1
      PROVE  Served(method, p) = Handlers(method, p)
  <2> HIDE DEF C, path, prefix
  <2>1. Served(method, p) = HandlersOf(Routing, method, p)
    BY <1>1, <1>2, UnderPrefix
  <2>2. HandlersOf(RegisteredRoutes(path, flags.allowGET), method, p) = Handlers(method, p)
    BY <1>1, <1>2, HandlersAre
  <2> QED BY <1>1, <1>2, <2>1, <2>2
<1>3. \A c \in CheckInRoutes(path, flags.allowGET) :
          /\ c.path = path /\ c.handler = "CheckIn"
          /\ c.method = "POST" \/ (c.method = "GET" /\ flags.allowGET)
  BY DEF CheckInRoutes
<1>4. /\ \A f \in FixedRouteSet :
             /\ f.method \in {"GET", "POST"} /\ f.handler # "CheckIn"
             /\ f.path \in Seq(C) /\ Len(f.path) = 2 /\ f.path[2] # "below"
      /\ \A f, g \in FixedRouteSet : f.path = g.path => f.handler = g.handler
  <2>1. FixedNames \subseteq C /\ Separator \in C /\ "below" \notin FixedNames
    BY DEF FixedNames
  <2> HIDE DEF C
  <2>2. ASSUME NEW f \in FixedRouteSet
        PROVE  f.path \in Seq(C) /\ Len(f.path) = 2
    <3>1. f.path = <<Separator, f.path[2]>> /\ f.path[2] \in C
      BY <2>1, FixedRouteIs
    <3>2. PICK name \in C : f.path = <<Separator, name>>
      BY <3>1
    <3> QED BY <2>1, <3>2, PairText
  <2> QED BY <2>1, <2>2, FixedRouteIs
<1>5. ASSUME StartupInv, step = "serve", NEW c \in CheckInRoutes(path, flags.allowGET),
             NEW f \in FixedRouteSet, c.method = f.method
      PROVE  f.path # path
  BY <1>1, <1>3, <1>5, NoConflict
<1>6. ASSUME StartupInv, step = "serve"
      PROVE  Served("POST", path) = {"CheckIn"}
  <2>1. Served("POST", path) = Handlers("POST", path)
    BY <1>1, <1>2, <1>6
  <2>2. [method |-> "POST", path |-> path, handler |-> "CheckIn"]
            \in CheckInRoutes(path, flags.allowGET)
    BY DEF CheckInRoutes
  <2>3. \A f \in FixedRouteSet : f.method = "POST" => f.path # path
    BY <1>5, <1>6, <2>2
  <2>4. Matching(path, flags.allowGET, "POST", path)
            = {[method |-> "POST", path |-> path, handler |-> "CheckIn"]}
    BY <2>3 DEF Matching, CheckInRoutes
  <2>5. {r.handler : r \in Matching(path, flags.allowGET, "POST", path)} = {"CheckIn"}
    <3> DEFINE mine == [method |-> "POST", path |-> path, handler |-> "CheckIn"]
    <3>1. mine.handler = "CheckIn" /\ Matching(path, flags.allowGET, "POST", path) = {mine}
      BY <2>4
    <3> HIDE DEF mine
    <3> QED BY <3>1
  <2> HIDE DEF Served
  <2> QED BY <2>1, <2>5
<1>7. ASSUME StartupInv, step = "serve"
      PROVE  Served("POST", Below) = {}
  <2>1. /\ Below \in Seq(C) /\ Len(Below) = Len(path) + 2 /\ Len(path) \in Nat
    <3>1. <<Separator, "below">> \in Seq(C) /\ Len(<<Separator, "below">>) = 2
      OBVIOUS
    <3> HIDE DEF C, path
    <3> QED BY <1>1, <1>7, <3>1, ConcatProperties
  <2> HIDE DEF Below, C, path, prefix
  <2>2. Served("POST", Below) = Handlers("POST", Below)
    <3>1. Len(Below) >= 1
      BY <2>1
    <3> HIDE DEF Served, Handlers
    <3> QED BY <1>2, <1>7, <2>1, <3>1
  <2>3. Below # path /\ \A f \in FixedRouteSet : f.path # Below
    <3>1. Len(Below) # Len(path)
      BY <2>1
    <3>2. Len(Below) # 2
      BY <1>1, <1>7, <2>1
    <3> QED BY <1>4, <3>1, <3>2
  <2>4. Matching(path, flags.allowGET, "POST", Below) = {}
    BY <1>3, <2>3 DEF Matching
  <2> QED BY <2>2, <2>4
<1>8. ASSUME StartupInv, step = "serve"
      PROVE  "CheckIn" \in Served("GET", path) <=> flags.allowGET
  <2>1. Served("GET", path) = Handlers("GET", path)
    BY <1>1, <1>2, <1>8
  <2>2. CASE flags.allowGET
    <3>1. [method |-> "GET", path |-> path, handler |-> "CheckIn"]
              \in Matching(path, flags.allowGET, "GET", path)
      BY <2>2 DEF Matching, CheckInRoutes
    <3>2. "CheckIn" \in {r.handler : r \in Matching(path, flags.allowGET, "GET", path)}
      <4> DEFINE M    == Matching(path, flags.allowGET, "GET", path)
                 mine == [method |-> "GET", path |-> path, handler |-> "CheckIn"]
      <4>1. mine.handler = "CheckIn" /\ mine \in M
        BY <3>1
      <4> HIDE DEF mine, M
      <4>2. "CheckIn" \in {r.handler : r \in M}
        BY <4>1
      <4> QED BY <4>2 DEF M
    <3> HIDE DEF Served
    <3> QED BY <2>1, <2>2, <3>2
  <2>3. CASE ~flags.allowGET
    <3>1. \A r \in Matching(path, flags.allowGET, "GET", path) : r.handler # "CheckIn"
      BY <1>3, <1>4, <2>3 DEF Matching
    <3> QED BY <2>1, <2>3, <3>1
  <2> QED BY <2>2, <2>3
<1>9. ASSUME StartupInv, step = "serve", NEW f \in FixedRouteSet
      PROVE  Served(f.method, f.path) = {f.handler}
  <2>1. Served(f.method, f.path) = Handlers(f.method, f.path)
    BY <1>2, <1>4, <1>9
  <2>2. f \in Matching(path, flags.allowGET, f.method, f.path)
    BY DEF Matching
  <2>3. \A r \in Matching(path, flags.allowGET, f.method, f.path) : r.handler = f.handler
    BY <1>3, <1>4, <1>5, <1>9 DEF Matching
  <2>4. {r.handler : r \in Matching(path, flags.allowGET, f.method, f.path)} = {f.handler}
    <3> DEFINE M == Matching(path, flags.allowGET, f.method, f.path)
    <3>1. f \in M /\ \A r \in M : r.handler = f.handler
      BY <2>2, <2>3
    <3> HIDE DEF M
    <3>2. {r.handler : r \in M} = {f.handler}
      BY <3>1
    <3> QED BY <3>2 DEF M
  <2> HIDE DEF Served
  <2> QED BY <2>1, <2>4
<1>10. DOMAIN FixedRoutes = 1..7 /\ \A i \in 1..7 : FixedRoutes[i] \in FixedRouteSet
  BY DEF FixedRoutes, FixedRouteSet
<1>11. StartupInv => RoutesAreKept
  BY <1>6, <1>7, <1>8, <1>9, <1>10 DEF RoutesAreKept
<1> QED BY <1>11, StartupInvariance, PTL

-----------------------------------------------------------------------------
(* The links of notification templates.                                    *)

\* A text that the functions which build links leave as it is, and one that is
\* also a path.
IsClean(s) == Len(s) >= 1 /\ s[1] # Space /\ s[Len(s)] \notin {Separator, Space}
IsCleanPath(s) == IsClean(s) /\ s[1] = Separator
IsCleanPrefix(s) == s = <<>> \/ IsCleanPath(s)

\* The public URL as the links begin with it.
IsRootOf(siteRoot, root) ==
    /\ root = TrimRight(TrimSpace(siteRoot), Separator)
    /\ IsClean(root)
    /\ root[1] # Separator

LEMMA CleanIsTrimmed ==
    ASSUME NEW C, NEW s \in Seq(C), IsClean(s)
    PROVE  TrimSpace(s) = s /\ TrimRight(s, Separator) = s
<1>1. Len(s) >= 1 /\ s # <<>> /\ s[1] # Space /\ s[Len(s)] # Space /\ s[Len(s)] # Separator
  BY EmptySeq DEF IsClean
<1> QED BY <1>1, TrimSpaceOfTrimmed, TrimRightOfTrimmed

LEMMA CleanConcat ==
    ASSUME NEW C, NEW s \in Seq(C), NEW t \in Seq(C), IsClean(s), IsClean(t)
    PROVE  s \o t \in Seq(C) /\ IsClean(s \o t)
<1>1. Len(s) \in Nat \ {0} /\ Len(t) \in Nat \ {0}
  BY DEF IsClean
<1> DEFINE all == s \o t
<1>2. /\ all \in Seq(C) /\ Len(all) = Len(s) + Len(t)
      /\ \A i \in 1..(Len(s) + Len(t)) :
             all[i] = IF i <= Len(s) THEN s[i] ELSE t[i - Len(s)]
  BY ConcatProperties
<1> HIDE DEF all
<1>3. all[1] = s[1] /\ all[Len(all)] = t[Len(t)]
  <2>1. /\ 1 \in 1..(Len(s) + Len(t)) /\ 1 <= Len(s)
        /\ Len(all) \in 1..(Len(s) + Len(t)) /\ ~(Len(all) <= Len(s))
        /\ Len(all) - Len(s) = Len(t)
    BY <1>1, <1>2
  <2> QED BY <1>2, <2>1
<1>4. Len(all) >= 1
  BY <1>1, <1>2
<1> QED BY <1>2, <1>3, <1>4 DEF IsClean, all

\* A path is joined to a URL by putting it behind.
LEMMA JoinIsConcat ==
    ASSUME NEW C, Separator \in C, NEW b \in Seq(C), IsClean(b),
           NEW p \in Seq(C), IsCleanPath(p)
    PROVE  JoinURLPath(b, p) = b \o p
<1>1. Len(p) >= 1 /\ p[1] = Separator /\ p[Len(p)] # Separator /\ IsClean(p)
  BY DEF IsCleanPath, IsClean
<1>2. p \notin {<<>>, <<Separator>>}
  BY <1>1
<1>3. Rooted(p) = p
  BY <1>1, RootedIs DEF Rooted
<1>4. TrimRight(TrimSpace(b), Separator) = b /\ TrimSpace(p) = p
  BY <1>1, CleanIsTrimmed
<1> QED BY <1>2, <1>3, <1>4 DEF JoinURLPath

\* Only the path of a URL can end with a path: the origin does not.
LEMMA SuffixOfPath ==
    ASSUME NEW C, NEW root \in Seq(C), IsClean(root), root[1] # Separator,
           NEW p \in Seq(C), IsCleanPath(p)
    PROVE  HasURLPathSuffix(root, p) <=> EndsWith(root, p)
<1> DEFINE tail == TrimRight(Tail(root), Separator)
<1>1. /\ Len(root) \in Nat \ {0} /\ root # <<>> /\ root[Len(root)] # Separator
      /\ Len(p) \in Nat \ {0} /\ p[1] = Separator /\ p[Len(p)] # Separator
  BY EmptySeq DEF IsClean, IsCleanPath
<1>2. TrimRight(p, Separator) = p
  BY CleanIsTrimmed DEF IsCleanPath
<1>3. HasURLPathSuffix(root, p) <=> EndsWith(tail, p)
  BY <1>2 DEF HasURLPathSuffix
<1>4. /\ Tail(root) \in Seq(C) /\ Len(Tail(root)) = Len(root) - 1
      /\ \A i \in 1..(Len(root) - 1) : Tail(root)[i] = root[i + 1]
  <2>1. Tail(root) \in Seq(C) /\ Len(Tail(root)) = Len(root) - 1
    BY <1>1, HeadTailProperties
  <2>2. \A i \in 1..(Len(root) - 1) : Tail(root)[i] = root[i + 1]
    BY <1>1
  <2> QED BY <2>1, <2>2
<1> HIDE DEF tail
<1>5. tail = Tail(root)
  <2>1. CASE Len(root) = 1
    <3>1. Tail(root) \in Seq(C) /\ Len(Tail(root)) = 0
      BY <1>4, <2>1
    <3>2. Tail(root) = <<>>
      BY <3>1, EmptySeq
    <3>3. Others(<<>>, Separator) = {}
      BY DEF Others
    <3>4. TrimRight(<<>>, Separator) = SubSeq(<<>>, 1, 0)
      BY <3>3, TrimRightIs
    <3>5. SubSeq(<<>>, 1, 0) = <<>>
      BY SubSeqEmpty
    <3> QED BY <3>2, <3>4, <3>5 DEF tail
  <2>2. CASE Len(root) > 1
    <3>1. /\ Len(root) - 1 \in 1..(Len(root) - 1) /\ (Len(root) - 1) + 1 = Len(root)
          /\ Len(Tail(root)) >= 1
      BY <1>1, <1>4, <2>2
    <3>2. Tail(root)[Len(Tail(root))] # Separator
      BY <1>1, <1>4, <3>1
    <3> QED BY <1>4, <3>1, <3>2, TrimRightOfTrimmed DEF tail
  <2>3. Len(root) = 1 \/ Len(root) > 1
    <3>1. Len(root) \in Nat /\ Len(root) >= 1
      BY DEF IsClean
    <3> QED BY <3>1
  <2> QED BY <2>1, <2>2, <2>3
<1>6. EndsWith(tail, p) <=>
          /\ Len(p) <= Len(root) - 1
          /\ \A i \in 1..Len(p) : p[i] = Tail(root)[(Len(root) - 1) - Len(p) + i]
  <2>1. tail \in Seq(C) /\ Len(tail) = Len(root) - 1
    BY <1>4, <1>5
  <2>2. EndsWith(tail, p) <=>
            /\ Len(p) <= Len(tail)
            /\ \A i \in 1..Len(p) : p[i] = tail[Len(tail) - Len(p) + i]
    BY <2>1, SuffixIs
  <2> QED BY <1>5, <2>1, <2>2
<1>7. EndsWith(root, p) <=>
          /\ Len(p) <= Len(root)
          /\ \A i \in 1..Len(p) : p[i] = root[Len(root) - Len(p) + i]
  BY SuffixIs
<1>8. EndsWith(root, p) => Len(p) <= Len(root) - 1
  <2> SUFFICES ASSUME EndsWith(root, p), Len(p) = Len(root) PROVE FALSE
    BY <1>1, <1>7
  <2>1. 1 \in 1..Len(p) /\ Len(root) - Len(p) + 1 = 1
    BY <1>1
  <2>2. p[1] = root[1]
    BY <1>7, <2>1
  <2> QED BY <1>1, <2>2
<1>9. ASSUME Len(p) <= Len(root) - 1, NEW i \in 1..Len(p)
      PROVE  Tail(root)[(Len(root) - 1) - Len(p) + i] = root[Len(root) - Len(p) + i]
  <2>0. (Len(root) - 1) - Len(p) + i \in 1..(Len(root) - 1)
    BY <1>1, <1>9
  <2>1. PICK k \in 1..(Len(root) - 1) : k = (Len(root) - 1) - Len(p) + i
    BY <2>0
  <2>2. k + 1 = Len(root) - Len(p) + i
    BY <1>1, <2>1
  <2> QED BY <1>4, <2>1, <2>2
<1>10. Len(p) <= Len(root) - 1 => Len(p) <= Len(root)
  BY <1>1
<1> QED BY <1>3, <1>6, <1>7, <1>8, <1>9, <1>10

\* The part of the public URL before the prefix: the origin and what a proxy
\* strips.
BeforePrefix(root, prefix) ==
    IF EndsWith(root, prefix) THEN SubSeq(root, 1, Len(root) - Len(prefix)) ELSE root

\* However the public URL is written, the prefix is in the links once.
LEMMA PublicRootIs ==
    ASSUME NEW C, Separator \in C, NEW siteRoot, NEW root \in Seq(C),
           IsRootOf(siteRoot, root), NEW prefix \in Seq(C), IsCleanPrefix(prefix)
    PROVE  /\ PublicAppRoot(siteRoot, prefix) = BeforePrefix(root, prefix) \o prefix
           /\ BeforePrefix(root, prefix) \in Seq(C)
           /\ PublicAppRoot(siteRoot, prefix) \in Seq(C)
           /\ IsClean(PublicAppRoot(siteRoot, prefix))
<1>1. /\ Len(root) \in Nat /\ Len(prefix) \in Nat
      /\ root = TrimRight(TrimSpace(siteRoot), Separator)
      /\ IsClean(root) /\ root[1] # Separator
  BY DEF IsRootOf
<1>2. CASE prefix = <<>>
  <2>1. TrimSpace(<<>>) = <<>>
    <3>1. Others(<<>>, Space) = {}
      BY DEF Others
    <3> QED BY <3>1, TrimSpaceIs
  <2>2. PublicAppRoot(siteRoot, prefix) = root
    BY <1>1, <1>2, <2>1 DEF PublicAppRoot
  <2>3. BeforePrefix(root, prefix) = root
    <3>1. Len(<<>>) = 0 /\ Len(root) - 0 = Len(root)
      BY <1>1
    <3>2. SubSeq(root, 1, Len(root)) = root
      BY SubSeqFull
    <3> QED BY <1>2, <3>1, <3>2 DEF BeforePrefix
  <2>4. root \o prefix = root
    BY <1>2, ConcatEmptySeq
  <2> QED BY <1>1, <2>2, <2>3, <2>4
<1>3. CASE IsCleanPath(prefix)
  <2>1. TrimSpace(prefix) = prefix /\ prefix \notin {<<>>, <<Separator>>}
    <3>1. Len(prefix) >= 1 /\ prefix[1] = Separator /\ prefix[Len(prefix)] # Separator
      BY <1>3 DEF IsCleanPath, IsClean
    <3>2. prefix \notin {<<>>, <<Separator>>}
      BY <3>1
    <3> QED BY <1>3, <3>2, CleanIsTrimmed DEF IsCleanPath
  <2>2. PublicAppRoot(siteRoot, prefix) =
            IF HasURLPathSuffix(root, prefix) THEN root ELSE JoinURLPath(root, prefix)
    BY <1>1, <2>1 DEF PublicAppRoot
  <2>3. HasURLPathSuffix(root, prefix) <=> EndsWith(root, prefix)
    BY <1>1, <1>3, SuffixOfPath
  <2>4. JoinURLPath(root, prefix) = root \o prefix
    BY <1>1, <1>3, JoinIsConcat
  <2>5. CASE EndsWith(root, prefix)
    <3> DEFINE n == Len(root) - Len(prefix)
               base == SubSeq(root, 1, n)
    <3>1. /\ Len(prefix) <= Len(root)
          /\ \A i \in 1..Len(prefix) : prefix[i] = root[Len(root) - Len(prefix) + i]
      BY <2>5, SuffixIs
    <3>2. n \in Nat /\ n <= Len(root) /\ n + Len(prefix) = Len(root)
      BY <1>1, <3>1
    <3>3. base \in Seq(C) /\ Len(base) = n /\ \A i \in 1..n : base[i] = root[i]
      <4> HIDE DEF n
      <4>1. /\ base \in Seq(C) /\ Len(base) = IF 1 <= n THEN n - 1 + 1 ELSE 0
            /\ \A i \in 1..(n - 1 + 1) : base[i] = root[1 + i - 1]
        BY <3>2, PartOfText
      <4>2. Len(base) = n /\ \A i \in 1..n : i \in 1..(n - 1 + 1) /\ 1 + i - 1 = i
        BY <3>2, <4>1
      <4> QED BY <4>1, <4>2
    <3> HIDE DEF base
    <3>4. /\ base \o prefix \in Seq(C) /\ Len(base \o prefix) = Len(root)
          /\ \A i \in 1..Len(root) :
                 (base \o prefix)[i] = IF i <= n THEN base[i] ELSE prefix[i - n]
      <4> HIDE DEF n
      <4>1. /\ base \o prefix \in Seq(C) /\ Len(base \o prefix) = Len(base) + Len(prefix)
            /\ \A i \in 1..(Len(base) + Len(prefix)) :
                   (base \o prefix)[i] =
                       IF i <= Len(base) THEN base[i] ELSE prefix[i - Len(base)]
        BY <3>3, ConcatProperties
      <4> QED BY <3>2, <3>3, <4>1
    <3>5. \A i \in 1..Len(root) : (base \o prefix)[i] = root[i]
      <4> TAKE i \in 1..Len(root)
      <4>1. CASE i <= n
        <5>1. i \in 1..n
          BY <1>1, <3>2, <4>1
        <5> QED BY <3>3, <3>4, <4>1, <5>1
      <4>2. CASE ~(i <= n)
        <5>1. i - n \in 1..Len(prefix) /\ Len(root) - Len(prefix) + (i - n) = i
          BY <1>1, <3>2, <4>2
        <5> HIDE DEF n
        <5> QED BY <3>1, <3>4, <4>2, <5>1
      <4> QED BY <4>1, <4>2
    <3>6. base \o prefix = root
      BY <3>4, <3>5, SeqEqual
    <3>7. BeforePrefix(root, prefix) = base
      BY <2>5 DEF BeforePrefix, base
    <3> QED BY <1>1, <2>2, <2>3, <2>5, <3>3, <3>6, <3>7
  <2>6. CASE ~EndsWith(root, prefix)
    <3>1. root \o prefix \in Seq(C) /\ IsClean(root \o prefix)
      BY <1>1, <1>3, CleanConcat DEF IsCleanPath
    <3> QED BY <2>2, <2>3, <2>4, <2>6, <3>1 DEF BeforePrefix
  <2> QED BY <2>5, <2>6
<1> QED BY <1>2, <1>3 DEF IsCleanPrefix

\* A link is what stands before the prefix, the prefix and a path of the router.
LEMMA LinkIs ==
    ASSUME NEW C, Separator \in C, NEW siteRoot, NEW root \in Seq(C),
           IsRootOf(siteRoot, root), NEW prefix \in Seq(C), IsCleanPrefix(prefix),
           NEW path \in Seq(C), IsCleanPath(path)
    PROVE  LET link == JoinURLPath(PublicAppRoot(siteRoot, prefix), path)
               base == BeforePrefix(root, prefix)
           IN  /\ StartsWith(link, base)
               /\ SubSeq(link, Len(base) + 1, Len(link)) = prefix \o path
<1> DEFINE base == BeforePrefix(root, prefix)
           app == PublicAppRoot(siteRoot, prefix)
<1>1. app = base \o prefix /\ base \in Seq(C) /\ app \in Seq(C) /\ IsClean(app)
  BY PublicRootIs
<1>2. prefix \o path \in Seq(C)
  BY ConcatProperties
<1> HIDE DEF base, app
<1>3. JoinURLPath(app, path) = app \o path
  BY <1>1, JoinIsConcat
<1>4. (base \o prefix) \o path = base \o (prefix \o path)
  BY <1>1, ConcatAssociative
<1>5. JoinURLPath(app, path) = base \o (prefix \o path)
  BY <1>1, <1>3, <1>4
<1>6. /\ StartsWith(base \o (prefix \o path), base)
      /\ SubSeq(base \o (prefix \o path), Len(base) + 1, Len(base \o (prefix \o path)))
             = prefix \o path
  <2> DEFINE rest == prefix \o path
  <2>1. rest \in Seq(C)
    BY <1>2
  <2> HIDE DEF rest
  <2>2. StartsWith(base \o rest, base)
        /\ SubSeq(base \o rest, Len(base) + 1, Len(base \o rest)) = rest
    BY <1>1, <2>1, PartsOfText
  <2> QED BY <2>2 DEF rest
<1> QED BY <1>5, <1>6 DEF base, app

\* A valid public URL begins with an origin.
LEMMA PublicURLRoot ==
    ASSUME NEW C, NEW siteRoot \in Seq(C), ValidPublicURL(siteRoot),
           TrimSpace(siteRoot) # <<>>
    PROVE  LET root == TrimRight(TrimSpace(siteRoot), Separator)
           IN  root \in Seq(C) /\ Len(root) >= 1 /\ root[1] = Origin /\ root[Len(root)] # Separator
<1> DEFINE u == TrimSpace(siteRoot)
<1>1. u \in Seq(C)
  BY TrimSpaceText
<1>2. u = <<Origin>> \/ StartsWith(u, <<Origin, Separator>>)
  BY DEF ValidPublicURL
<1>3. u # <<>>
  OBVIOUS
<1> HIDE DEF u
<1>4. Len(u) >= 1
  BY <1>1, <1>3, EmptySeq
<1>5. u[1] = Origin
  <2>1. CASE u = <<Origin>>
    BY <2>1
  <2>2. CASE StartsWith(u, <<Origin, Separator>>)
    <3>1. SubSeq(<<Origin, Separator>>, 1, 2) = SubSeq(u, 1, 2)
      BY <2>2 DEF StartsWith, IsPrefix
    <3>2. \A x : SubSeq(x, 1, 2)[1] = x[1]
      OBVIOUS
    <3> QED BY <3>1, <3>2
  <2> QED BY <1>2, <2>1, <2>2
<1>6. u[1] # Separator
  BY <1>5 DEF Origin, Separator
<1>7. TrimRight(u, Separator) # <<>>
  <2> SUFFICES ASSUME TrimRight(u, Separator) = <<>> PROVE FALSE
    OBVIOUS
  <2>1. \A i \in 1..Len(u) : u[i] = Separator
    <3>1. ~(Len(TrimRight(u, Separator)) >= 1)
      BY EmptySeq
    <3> QED BY <1>1, <3>1, TrimRightEnd
  <2> QED BY <1>1, <1>4, <1>6, <2>1
<1>8. TrimRight(u, Separator) \in Seq(C)
  BY <1>1, TrimRightText
<1>9. /\ Len(TrimRight(u, Separator)) >= 1 /\ TrimRight(u, Separator)[1] = u[1]
      /\ TrimRight(u, Separator)[Len(TrimRight(u, Separator))] # Separator
  BY <1>1, <1>7, TrimRightEnd
<1> QED BY <1>5, <1>8, <1>9 DEF u

\* For texts of any length, the links in notifications lead to the check-in
\* handler and the status page of this server, under the prefix it has behind
\* the public URL (builder.go:9-51, routes.go:31).
THEOREM LinksLeadHome == StartupSpec => []LinksReachRoutes
<1> DEFINE path == config.path
           prefix == config.routePrefix
           root == TrimRight(TrimSpace(config.siteRoot), Separator)
           base == BeforePrefix(root, prefix)
           Names == {Separator, Space, "checkin", "status"}
           C == STRING \cup Names
           Texts == \A text \in {root, prefix, path} : ~EndsWithSpace(text)
           statusPath == <<Separator, "status">>
<1>1. ASSUME StartupInv, step = "serve", config.app # NoLinks, Texts
      PROVE  /\ root \in Seq(C) /\ IsRootOf(config.siteRoot, root)
             /\ prefix \in Seq(C) /\ IsCleanPrefix(prefix)
             /\ path \in Seq(C) /\ IsCleanPath(path)
             /\ LET app == PublicAppRoot(config.siteRoot, prefix)
                IN  /\ config.app.checkInURL = JoinURLPath(app, path)
                    /\ config.app.statusURL = JoinURLPath(app, statusPath)
  <2>1. AcceptedLine(flags) /\ config = Parsed(flags) /\ flags \in CommandLines
    BY <1>1 DEF StartupInv, ConfiguredInv
  <2>2. /\ path = NormalizePath(flags.path) /\ ValidPath(NormalizePath(flags.path))
        /\ prefix = NormalizeRoutePrefix(flags.routePrefix)
        /\ config.siteRoot = NormalizePublicURL(flags.publicURL)
        /\ ValidPublicURL(config.siteRoot)
        /\ config.app = NewAppData(config.siteRoot, prefix, path)
    BY <2>1 DEF Parsed, AcceptedLine
  <2>3. STRING \subseteq C /\ Separator \in C /\ Space \in C /\ "checkin" \in C
    OBVIOUS
  <2>4. {flags.path, flags.publicURL, flags.routePrefix} \subseteq Seq(STRING)
    BY <2>1, CommandLinesAssumption
  <2>5. Separator # Space /\ Origin # Space /\ Origin # Separator
    BY DEF Separator, Space, Origin
  <2> HIDE DEF C, path, prefix
  <2>6. flags.path \in Seq(C) /\ flags.publicURL \in Seq(C) /\ flags.routePrefix \in Seq(C)
    BY <2>3, <2>4, SeqMonotonic
  <2>7. TrimSpace(config.siteRoot) # <<>>
    BY <1>1, <2>2 DEF NewAppData
  <2>8. config.siteRoot \in Seq(C)
    BY <2>2, <2>6, TrimSpaceText, TrimRightText DEF NormalizePublicURL
  <2>9. /\ root \in Seq(C) /\ Len(root) >= 1 /\ root[1] = Origin
        /\ root[Len(root)] # Separator
    BY <2>2, <2>7, <2>8, PublicURLRoot
  <2>10. path \in Seq(C) /\ Len(path) >= 1 /\ path[1] = Separator /\ path[Len(path)] # Separator
    BY <2>2, <2>3, <2>6, AcceptedPath
  <2>11. /\ prefix \in Seq(C)
         /\ \/ prefix = <<>>
            \/ /\ Len(prefix) >= 1
               /\ prefix[1] = Separator /\ prefix[Len(prefix)] # Separator
    BY <2>2, <2>3, <2>6, PrefixText
  <2>12. IsRootOf(config.siteRoot, root)
    <3>1. root[Len(root)] # Space
      BY <1>1, <2>9, LastIs DEF EndsWithSpace
    <3> QED BY <2>5, <2>9, <3>1 DEF IsRootOf, IsClean
  <2>13. IsCleanPath(path)
    <3>1. path[Len(path)] # Space
      BY <1>1, <2>10, LastIs DEF EndsWithSpace
    <3> QED BY <2>5, <2>10, <3>1 DEF IsCleanPath, IsClean
  <2>14. IsCleanPrefix(prefix)
    <3>1. prefix # <<>> => prefix[Len(prefix)] # Space
      BY <1>1, <2>11, LastIs DEF EndsWithSpace
    <3> QED BY <2>5, <2>11, <3>1 DEF IsCleanPrefix, IsCleanPath, IsClean
  <2>15. LET app == PublicAppRoot(config.siteRoot, prefix)
         IN  /\ config.app.checkInURL = JoinURLPath(app, path)
             /\ config.app.statusURL = JoinURLPath(app, statusPath)
    BY <2>2, <2>7 DEF NewAppData
  <2> QED BY <2>9, <2>10, <2>11, <2>12, <2>13, <2>14, <2>15
<1>2. statusPath \in Seq(C) /\ IsCleanPath(statusPath)
  <2>1. Separator \in C /\ "status" \in C
    OBVIOUS
  <2>2. Separator # Space /\ "status" # Separator /\ "status" # Space
    BY DEF Separator, Space
  <2> HIDE DEF C
  <2>3. /\ statusPath \in Seq(C) /\ Len(statusPath) = 2
        /\ statusPath[1] = Separator /\ statusPath[2] = "status"
    BY <2>1
  <2> QED BY <2>2, <2>3 DEF IsCleanPath, IsClean
<1>3. ASSUME StartupInv, step = "serve", config.app # NoLinks, Texts,
             NEW p \in Seq(C), IsCleanPath(p)
      PROVE  LET link == JoinURLPath(PublicAppRoot(config.siteRoot, prefix), p)
             IN  /\ StartsWith(link, base)
                 /\ SubSeq(link, Len(base) + 1, Len(link)) = prefix \o p
  <2>1. Separator \in C
    OBVIOUS
  <2> HIDE DEF C, prefix, root
  <2>2. /\ root \in Seq(C) /\ IsRootOf(config.siteRoot, root)
        /\ prefix \in Seq(C) /\ IsCleanPrefix(prefix)
    BY <1>1, <1>3
  <2> QED BY <1>3, <2>1, <2>2, LinkIs
<1>4. ASSUME RoutesAreKept, step = "serve"
      PROVE  /\ "CheckIn" \in HandlersUnder(prefix, Routing, "POST", prefix \o path)
             /\ "Status" \in HandlersUnder(prefix, Routing, "GET", prefix \o statusPath)
  <2>1. /\ 1 \in DOMAIN FixedRoutes /\ FixedRoutes[1].method = "GET"
        /\ FixedRoutes[1].path = statusPath /\ FixedRoutes[1].handler = "Status"
    BY DEF FixedRoutes, Route
  <2>2. /\ HandlersUnder(prefix, Routing, "POST", prefix \o path) = {"CheckIn"}
        /\ \A i \in DOMAIN FixedRoutes :
               HandlersUnder(prefix, Routing, FixedRoutes[i].method,
                             prefix \o FixedRoutes[i].path) = {FixedRoutes[i].handler}
    BY <1>4 DEF RoutesAreKept
  <2>3. HandlersUnder(prefix, Routing, "GET", prefix \o statusPath) = {"Status"}
    BY <2>1, <2>2
  <2> QED BY <2>2, <2>3
<1>5. ASSUME StartupInv, RoutesAreKept PROVE LinksReachRoutes
  <2> DEFINE Reaches(link, method, handler) ==
                 /\ StartsWith(link, base)
                 /\ handler \in HandlersUnder(prefix, Routing, method,
                                              SubSeq(link, Len(base) + 1, Len(link)))
  <2> HIDE DEF C, path, prefix, root, base, statusPath
  <2>1. SUFFICES ASSUME step = "serve", config.app # NoLinks, Texts
        PROVE  /\ Reaches(config.app.checkInURL, "POST", "CheckIn")
               /\ Reaches(config.app.statusURL, "GET", "Status")
    BY DEF LinksReachRoutes, BeforePrefix, path, prefix, root, base
  <2>2. /\ StartsWith(config.app.checkInURL, base)
        /\ SubSeq(config.app.checkInURL, Len(base) + 1, Len(config.app.checkInURL))
               = prefix \o path
    BY <1>1, <1>3, <1>5, <2>1
  <2>3. /\ StartsWith(config.app.statusURL, base)
        /\ SubSeq(config.app.statusURL, Len(base) + 1, Len(config.app.statusURL))
               = prefix \o statusPath
    BY <1>1, <1>2, <1>3, <1>5, <2>1
  <2> QED BY <1>4, <1>5, <2>1, <2>2, <2>3
<1>6. StartupInv /\ RoutesAreKept => LinksReachRoutes
  BY <1>5
<1> QED BY <1>6, StartupInvariance, RoutesStayApart, PTL

=============================================================================
