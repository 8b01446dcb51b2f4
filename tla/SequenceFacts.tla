---------------------------- MODULE SequenceFacts ----------------------------
(***************************************************************************)
(* The elements of the sequences that queue operations build, and facts of *)
(* natural numbers that the proofs share.                                  *)
(***************************************************************************)
EXTENDS Integers, SequencesExt, SequenceTheorems, WellFoundedInduction, TLAPS

LEMMA AppendElements ==
  ASSUME NEW S, NEW s \in Seq(S), NEW x \in S
  PROVE  /\ Append(s, x) \in Seq(S)
         /\ ToSet(Append(s, x)) = ToSet(s) \cup {x}
<1>1. /\ Append(s, x) \in Seq(S)
      /\ DOMAIN Append(s, x) = 1 .. Len(s) + 1
      /\ \A i \in 1 .. Len(s) : Append(s, x)[i] = s[i]
      /\ Append(s, x)[Len(s) + 1] = x
  OBVIOUS
<1>2. DOMAIN s = 1 .. Len(s) /\ Len(s) \in Nat
  OBVIOUS
<1>3. ToSet(Append(s, x)) \subseteq ToSet(s) \cup {x}
  BY <1>1, <1>2 DEF ToSet
<1>4. ToSet(s) \subseteq ToSet(Append(s, x))
  BY <1>1, <1>2 DEF ToSet
<1>5. x \in ToSet(Append(s, x))
  <2>1. Len(s) + 1 \in DOMAIN Append(s, x)
    BY <1>1, <1>2
  <2> QED BY <1>1, <2>1 DEF ToSet
<1> QED BY <1>1, <1>3, <1>4, <1>5

LEMMA AppendNonempty ==
  ASSUME NEW S, NEW s \in Seq(S), NEW x \in S
  PROVE  Append(s, x) # << >>
  BY AppendProperties

LEMMA TailElements ==
  ASSUME NEW S, NEW s \in Seq(S), s # << >>
  PROVE  /\ Head(s) \in S /\ Tail(s) \in Seq(S)
         /\ Head(s) \in ToSet(s) /\ ToSet(Tail(s)) \subseteq ToSet(s)
         /\ ToSet(s) \subseteq {Head(s)} \cup ToSet(Tail(s))
<1>1. /\ Head(s) = s[1] /\ Head(s) \in S /\ Tail(s) \in Seq(S)
      /\ Len(s) \in Nat \ {0} /\ DOMAIN s = 1 .. Len(s)
      /\ Len(Tail(s)) = Len(s) - 1
      /\ \A i \in 1 .. Len(s) - 1 : Tail(s)[i] = s[i + 1]
  OBVIOUS
<1>2. DOMAIN Tail(s) = 1 .. Len(s) - 1
  BY <1>1
<1>3. Head(s) \in ToSet(s) /\ ToSet(Tail(s)) \subseteq ToSet(s)
  BY <1>1, <1>2 DEF ToSet
<1>4. ASSUME NEW i \in DOMAIN s
      PROVE  s[i] \in {Head(s)} \cup ToSet(Tail(s))
  <2>1. CASE i = 1
    BY <1>1, <2>1
  <2>2. CASE i # 1
    <3>1. i - 1 \in DOMAIN Tail(s) /\ Tail(s)[i - 1] = s[i]
      BY <1>1, <1>2, <2>2
    <3> QED BY <3>1 DEF ToSet
  <2> QED BY <2>1, <2>2
<1> QED BY <1>1, <1>3, <1>4 DEF ToSet

LEMMA SubSeqElements ==
  ASSUME NEW S, NEW s \in Seq(S), NEW k \in Nat
  PROVE  /\ SubSeq(s, k + 1, Len(s)) \in Seq(S)
         /\ ToSet(SubSeq(s, k + 1, Len(s))) \subseteq ToSet(s)
  BY DEF ToSet

\* What is left of a sequence after its first k items.
LEMMA RestItems ==
  ASSUME NEW S, NEW s \in Seq(S), NEW k \in 0 .. Len(s)
  PROVE  /\ SubSeq(s, k + 1, Len(s)) \in Seq(S) /\ Len(SubSeq(s, k + 1, Len(s))) = Len(s) - k
         /\ \A i \in 1 .. Len(s) - k : SubSeq(s, k + 1, Len(s))[i] = s[k + i]
<1>1. PICK t, l : t = SubSeq(s, k + 1, Len(s)) /\ l = Len(s)
  OBVIOUS
<1>2. l \in Nat /\ k \in Nat /\ k <= l /\ DOMAIN s = 1 .. l
  BY <1>1
<1>3. t \in Seq(S)
  BY <1>1
<1>4. Len(t) = l - k
  BY <1>1, <1>2
<1>5. \A i \in 1 .. l - k : t[i] = s[k + i]
  BY <1>1, <1>2
<1> QED
  BY <1>1, <1>3, <1>4, <1>5, Zenon

\* What is left when one item is taken out: the items after it move up by one.
LEMMA RemoveAtItems ==
  ASSUME NEW S, NEW s \in Seq(S), NEW k \in DOMAIN s
  PROVE  /\ RemoveAt(s, k) \in Seq(S) /\ DOMAIN RemoveAt(s, k) = 1 .. Len(s) - 1
         /\ \A i \in 1 .. Len(s) - 1 : RemoveAt(s, k)[i] = s[IF i < k THEN i ELSE i + 1]
<1> DEFINE a == SubSeq(s, 1, k - 1)
           b == SubSeq(s, k + 1, Len(s))
<1>1. k \in 1 .. Len(s) /\ Len(s) \in Nat /\ DOMAIN s = 1 .. Len(s)
  OBVIOUS
<1>2. /\ a \in Seq(S) /\ Len(a) = k - 1
      /\ \A i \in 1 .. k - 1 : a[i] = s[i]
  BY <1>1
<1>3. /\ b \in Seq(S) /\ Len(b) = Len(s) - k
      /\ \A i \in 1 .. Len(s) - k : b[i] = s[k + i]
  <2>1. k \in 0 .. Len(s)
    BY <1>1
  <2> QED
    BY <2>1, RestItems, Zenon
<1> HIDE DEF a, b
<1> DEFINE c == a \o b
<1>4. RemoveAt(s, k) = c
  BY DEF RemoveAt, a, b
<1>5. /\ c \in Seq(S) /\ Len(c) = Len(a) + Len(b) /\ DOMAIN c = 1 .. Len(c)
      /\ \A i \in 1 .. Len(a) + Len(b) : c[i] = IF i <= Len(a) THEN a[i] ELSE b[i - Len(a)]
  <2>1. a \in Seq(S) /\ b \in Seq(S)
    BY <1>2, <1>3
  <2> QED BY <2>1, ConcatProperties, LenProperties, Zenon
<1> HIDE DEF c
<1>6. ASSUME NEW i \in 1 .. Len(s) - 1
      PROVE  c[i] = s[IF i < k THEN i ELSE i + 1]
  <2>1. CASE i <= k - 1
    BY <1>1, <1>2, <1>3, <1>5, <2>1
  <2>2. CASE ~(i <= k - 1)
    <3>1. i - (k - 1) \in 1 .. Len(s) - k /\ c[i] = b[i - (k - 1)]
      <4>1. i - (k - 1) \in 1 .. Len(s) - k
        BY <1>1, <2>2
      <4>2. i \in 1 .. Len(a) + Len(b) /\ ~(i <= Len(a)) /\ Len(a) = k - 1
        <5>1. Len(a) = k - 1 /\ Len(b) = Len(s) - k
          BY <1>2, <1>3
        <5> QED
          BY <1>1, <2>2, <5>1
      <4>3. c[i] = b[i - Len(a)]
        BY <1>5, <4>2, Zenon
      <4> QED
        BY <4>1, <4>2, <4>3
    <3>2. b[i - (k - 1)] = s[k + (i - (k - 1))] /\ k + (i - (k - 1)) = i + 1
      BY <1>1, <1>3, <3>1
    <3> QED BY <1>1, <2>2, <3>1, <3>2
  <2> QED BY <2>1, <2>2
<1> QED BY <1>1, <1>2, <1>3, <1>4, <1>5, <1>6

LEMMA RemoveAtElements ==
  ASSUME NEW S, NEW s \in Seq(S), NEW k \in DOMAIN s
  PROVE  /\ RemoveAt(s, k) \in Seq(S)
         /\ ToSet(RemoveAt(s, k)) \subseteq ToSet(s)
<1> DEFINE c == RemoveAt(s, k)
<1>1. /\ c \in Seq(S) /\ DOMAIN c = 1 .. Len(s) - 1
      /\ \A i \in 1 .. Len(s) - 1 : c[i] = s[IF i < k THEN i ELSE i + 1]
  BY RemoveAtItems
<1> HIDE DEF c
<1>2. \A i \in 1 .. Len(s) - 1 : c[i] \in ToSet(s)
  <2> TAKE i \in 1 .. Len(s) - 1
  <2>1. (IF i < k THEN i ELSE i + 1) \in DOMAIN s
    OBVIOUS
  <2> QED BY <1>1, <2>1 DEF ToSet
<1> QED BY <1>1, <1>2 DEF ToSet, c

\* Appending one item, or two, is the concatenation with a short sequence.
LEMMA ConcatShort ==
  ASSUME NEW S, NEW s \in Seq(S), NEW x \in S, NEW y \in S
  PROVE  /\ s \o << >> = s
         /\ Append(s, x) = s \o <<x>>
         /\ Append(Append(s, x), y) = s \o <<x, y>>
<1>1. s \o << >> = s
  BY ConcatEmptySeq
<1>2. \A t \in Seq(S) : \A z \in S : Append(t, z) = t \o <<z>>
  BY AppendIsConcat
<1>3. <<x>> \in Seq(S) /\ <<y>> \in Seq(S) /\ <<x>> \o <<y>> = <<x, y>>
  <2>1. <<x>> \in Seq(S) /\ <<y>> \in Seq(S) /\ <<x, y>> \in Seq(S)
    OBVIOUS
  <2>2. /\ Append(<<x>>, y) \in Seq(S) /\ Len(Append(<<x>>, y)) = 2
        /\ Append(<<x>>, y)[1] = x /\ Append(<<x>>, y)[2] = y
    OBVIOUS
  <2>3. Len(<<x, y>>) = 2 /\ <<x, y>>[1] = x /\ <<x, y>>[2] = y
    OBVIOUS
  <2>4. Append(<<x>>, y) = <<x, y>>
    <3> DEFINE u == Append(<<x>>, y)
               v == <<x, y>>
    <3>1. u \in Seq(S) /\ v \in Seq(S) /\ Len(u) = Len(v)
      BY <2>1, <2>2, <2>3
    <3>2. \A i \in 1 .. Len(u) : u[i] = v[i]
      BY <2>2, <2>3
    <3> HIDE DEF u, v
    <3>3. u = v
      BY <3>1, <3>2, SeqEqual
    <3> QED BY <3>3 DEF u, v
  <2> QED BY <1>2, <2>1, <2>4
<1>4. (s \o <<x>>) \o <<y>> = s \o (<<x>> \o <<y>>)
  BY <1>3, ConcatAssociative
<1>5. Append(s \o <<x>>, y) = (s \o <<x>>) \o <<y>>
  <2>1. s \o <<x>> \in Seq(S)
    BY <1>2
  <2> QED BY <1>2, <2>1
<1> QED BY <1>1, <1>2, <1>3, <1>4, <1>5

\* Sequences of one item and of two.
LEMMA ShortSequences ==
  /\ \A x : /\ ToSet(<<x>>) = {x} /\ IsInjective(<<x>>) /\ <<x>> # << >>
            /\ Head(<<x>>) = x /\ Tail(<<x>>) = << >>
  /\ \A x, y : /\ ToSet(<<x, y>>) = {x, y} /\ (x # y => IsInjective(<<x, y>>))
               /\ <<x, y>> # << >> /\ Head(<<x, y>>) = x /\ Tail(<<x, y>>) = <<y>>
  BY DEF ToSet, IsInjective

-----------------------------------------------------------------------------
(* Sequences that hold each of their elements once. *)

LEMMA InjectiveAppend ==
  ASSUME NEW S, NEW s \in Seq(S), NEW x \in S, IsInjective(s), x \notin ToSet(s)
  PROVE  IsInjective(Append(s, x))
<1>1. /\ DOMAIN Append(s, x) = 1 .. Len(s) + 1 /\ DOMAIN s = 1 .. Len(s)
      /\ \A i \in 1 .. Len(s) : Append(s, x)[i] = s[i]
      /\ Append(s, x)[Len(s) + 1] = x
  OBVIOUS
<1>2. \A i \in 1 .. Len(s) : s[i] # x
  BY <1>1 DEF ToSet
<1> QED BY <1>1, <1>2 DEF IsInjective

LEMMA InjectiveTail ==
  ASSUME NEW S, NEW s \in Seq(S), s # << >>, IsInjective(s)
  PROVE  IsInjective(Tail(s)) /\ Head(s) \notin ToSet(Tail(s))
<1>1. /\ DOMAIN s = 1 .. Len(s) /\ Len(s) \in Nat \ {0} /\ Head(s) = s[1]
      /\ DOMAIN Tail(s) = 1 .. Len(s) - 1
      /\ \A i \in 1 .. Len(s) - 1 : Tail(s)[i] = s[i + 1]
  OBVIOUS
<1>2. IsInjective(Tail(s))
  BY <1>1 DEF IsInjective
<1>3. ASSUME NEW i \in 1 .. Len(s) - 1 PROVE Tail(s)[i] # Head(s)
  BY <1>1 DEF IsInjective
<1> QED BY <1>1, <1>2, <1>3 DEF ToSet

LEMMA InjectiveRemoveAt ==
  ASSUME NEW S, NEW s \in Seq(S), NEW k \in DOMAIN s, IsInjective(s)
  PROVE  IsInjective(RemoveAt(s, k)) /\ ToSet(RemoveAt(s, k)) = ToSet(s) \ {s[k]}
<1> DEFINE c == RemoveAt(s, k)
           at(i) == IF i < k THEN i ELSE i + 1
<1>1. /\ DOMAIN c = 1 .. Len(s) - 1 /\ \A i \in 1 .. Len(s) - 1 : c[i] = s[at(i)]
      /\ DOMAIN s = 1 .. Len(s) /\ k \in 1 .. Len(s) /\ Len(s) \in Nat
  BY RemoveAtItems
<1>2. /\ \A i \in 1 .. Len(s) - 1 : at(i) \in DOMAIN s /\ at(i) # k
      /\ \A i, j \in 1 .. Len(s) - 1 : at(i) = at(j) => i = j
  BY <1>1
<1>3. \A j \in 1 .. Len(s) : j # k => \E i \in 1 .. Len(s) - 1 : at(i) = j
  <2> TAKE j \in 1 .. Len(s)
  <2>1. CASE j < k
    <3>1. j \in 1 .. Len(s) - 1 /\ at(j) = j
      BY <1>1, <2>1
    <3> QED BY <3>1
  <2>2. CASE j > k
    <3>1. j - 1 \in 1 .. Len(s) - 1 /\ at(j - 1) = j
      BY <1>1, <2>2
    <3> QED BY <3>1
  <2> QED BY <1>1, <2>1, <2>2
<1> HIDE DEF c, at
<1>4. IsInjective(c)
  BY <1>1, <1>2 DEF IsInjective
<1>5. ToSet(c) \subseteq ToSet(s) \ {s[k]}
  <2>1. ASSUME NEW i \in 1 .. Len(s) - 1 PROVE c[i] \in ToSet(s) /\ c[i] # s[k]
    BY <1>1, <1>2 DEF ToSet, IsInjective
  <2> QED BY <1>1, <2>1 DEF ToSet
<1>6. ASSUME NEW x \in ToSet(s), x # s[k] PROVE x \in ToSet(c)
  <2>1. PICK j \in 1 .. Len(s) : s[j] = x
    BY <1>1 DEF ToSet
  <2>2. PICK i \in 1 .. Len(s) - 1 : at(i) = j
    BY <1>3, <1>6, <2>1
  <2> QED BY <1>1, <2>1, <2>2 DEF ToSet
<1> QED BY <1>4, <1>5, <1>6 DEF c

LEMMA InjectiveSuffix ==
  ASSUME NEW S, NEW s \in Seq(S), NEW k \in 0 .. Len(s), IsInjective(s)
  PROVE  /\ IsInjective(SubSeq(s, k + 1, Len(s)))
         /\ ToSet(SubSeq(s, k + 1, Len(s))) = ToSet(s) \ ToSet(SubSeq(s, 1, k))
<1> DEFINE rest == SubSeq(s, k + 1, Len(s))
           first == SubSeq(s, 1, k)
<1>1. /\ DOMAIN s = 1 .. Len(s) /\ Len(s) \in Nat /\ k \in Nat
      /\ DOMAIN rest = 1 .. Len(s) - k /\ \A i \in 1 .. Len(s) - k : rest[i] = s[k + i]
      /\ DOMAIN first = 1 .. k /\ \A i \in 1 .. k : first[i] = s[i]
  OBVIOUS
<1> HIDE DEF rest, first
<1>2. IsInjective(rest)
  <2>1. ASSUME NEW i \in 1 .. Len(s) - k, NEW j \in 1 .. Len(s) - k, rest[i] = rest[j]
        PROVE  i = j
    <3>1. k + i \in DOMAIN s /\ k + j \in DOMAIN s /\ s[k + i] = s[k + j]
      BY <1>1, <2>1
    <3>2. k + i = k + j
      BY <3>1 DEF IsInjective
    <3> QED BY <1>1, <3>2
  <2> QED BY <1>1, <2>1 DEF IsInjective
<1>3. ASSUME NEW i \in 1 .. Len(s) - k PROVE rest[i] \in ToSet(s) /\ rest[i] \notin ToSet(first)
  <2>1. k + i \in DOMAIN s /\ \A j \in 1 .. k : s[j] # s[k + i]
    BY <1>1 DEF IsInjective
  <2> QED BY <1>1, <2>1 DEF ToSet
<1>4. ASSUME NEW x \in ToSet(s), x \notin ToSet(first) PROVE x \in ToSet(rest)
  <2>1. PICK j \in 1 .. Len(s) : s[j] = x
    BY <1>1 DEF ToSet
  <2>2. ~(j <= k)
    BY <1>1, <1>4, <2>1 DEF ToSet
  <2>3. j - k \in 1 .. Len(s) - k /\ k + (j - k) = j
    BY <1>1, <2>2
  <2>4. rest[j - k] = x
    BY <1>1, <2>1, <2>3
  <2> QED BY <1>1, <2>3, <2>4 DEF ToSet
<1>5. ToSet(rest) \subseteq ToSet(s) \ ToSet(first)
  BY <1>1, <1>3 DEF ToSet
<1>6. ToSet(s) \ ToSet(first) \subseteq ToSet(rest)
  BY <1>4
<1>7. IsInjective(rest) /\ ToSet(rest) = ToSet(s) \ ToSet(first)
  BY <1>2, <1>5, <1>6
<1> QED BY <1>7 DEF rest, first

\* A longer beginning has one more item.
LEMMA PrefixNext ==
  ASSUME NEW S, NEW a \in Seq(S), NEW s \in Seq(S), NEW n \in 0 .. Len(s) - 1
  PROVE  a \o SubSeq(s, 1, n + 1) = Append(a \o SubSeq(s, 1, n), s[n + 1])
<1>1. PICK b, c, x : b = SubSeq(s, 1, n + 1) /\ c = SubSeq(s, 1, n) /\ x = s[n + 1]
  OBVIOUS
<1>2. /\ b \in Seq(S) /\ Len(b) = n + 1 /\ \A i \in 1 .. n + 1 : b[i] = s[i]
      /\ c \in Seq(S) /\ Len(c) = n /\ \A i \in 1 .. n : c[i] = s[i]
      /\ x \in S /\ n \in Nat
  BY <1>1
<1>3. Append(c, x) \in Seq(S) /\ Len(Append(c, x)) = n + 1
      /\ \A i \in 1 .. n : Append(c, x)[i] = c[i]
      /\ Append(c, x)[n + 1] = x
  BY <1>2
<1>4. b = Append(c, x)
  <2>1. \A i \in 1 .. n + 1 : b[i] = Append(c, x)[i]
    BY <1>1, <1>2, <1>3
  <2> QED
    BY <1>2, <1>3, <2>1, SeqEqual
<1>5. \A t \in Seq(S) : \A z \in S : Append(t, z) = t \o <<z>>
  BY AppendIsConcat
<1>6. (a \o c) \o <<x>> = a \o (c \o <<x>>)
  <2>1. PICK d : d = <<x>>
    OBVIOUS
  <2>2. c \in Seq(S) /\ d \in Seq(S)
    BY <1>2, <2>1
  <2>3. (a \o c) \o d = a \o (c \o d)
    BY <2>2, SMTT(30)
  <2> QED
    BY <2>1, <2>3
<1>7. a \o c \in Seq(S)
  BY <1>2
<1> QED
  BY <1>1, <1>2, <1>4, <1>5, <1>6, <1>7

\* What two sequences have at each place when one is behind the other, and a beginning of them.
LEMMA ConcatItems ==
  ASSUME NEW S, NEW a \in Seq(S), NEW b \in Seq(S)
  PROVE  /\ a \o b \in Seq(S) /\ Len(a \o b) = Len(a) + Len(b)
         /\ DOMAIN (a \o b) = 1 .. Len(a) + Len(b)
         /\ \A i \in 1 .. Len(a) : (a \o b)[i] = a[i]
         /\ \A i \in 1 .. Len(b) : (a \o b)[Len(a) + i] = b[i]
         /\ \A i \in 1 .. Len(a) + Len(b) :
              ~(i <= Len(a)) => i - Len(a) \in 1 .. Len(b) /\ (a \o b)[i] = b[i - Len(a)]
  OBVIOUS

\* The first n items of a sequence.
LEMMA FirstItems ==
  ASSUME NEW S, NEW s \in Seq(S), NEW n \in 0 .. Len(s)
  PROVE  /\ SubSeq(s, 1, n) \in Seq(S) /\ Len(SubSeq(s, 1, n)) = n
         /\ \A i \in 1 .. n : SubSeq(s, 1, n)[i] = s[i] /\ i \in 1 .. Len(s)
<1>1. Len(s) \in Nat /\ n \in Nat /\ n <= Len(s)
  OBVIOUS
<1>2. SubSeq(s, 1, n) \in Seq(S) /\ Len(SubSeq(s, 1, n)) = n
  BY <1>1
<1>3. \A i \in 1 .. n : SubSeq(s, 1, n)[i] = s[i]
  BY <1>1
<1>4. \A i \in 1 .. n : i \in 1 .. Len(s)
  BY <1>1
<1> QED
  BY <1>2, <1>3, <1>4

\* The place in a sequence of length l of the k-th item of a part of length x that follows the
\* first i items.
LEMMA PartIndex ==
  ASSUME NEW i \in Nat, NEW x \in Nat, NEW l \in Nat, i + x <= l, NEW k \in 1 .. x
  PROVE  i + k \in 1 .. l /\ k \in 0 .. x /\ i + k \in Nat /\ i <= i + k
OBVIOUS

\* The end of a sequence, from its k-th item.
LEMMA EndItems ==
  ASSUME NEW S, NEW s \in Seq(S), NEW k \in 1 .. Len(s)
  PROVE  /\ SubSeq(s, k, Len(s)) \in Seq(S) /\ Len(SubSeq(s, k, Len(s))) = Len(s) - k + 1
         /\ \A i \in 1 .. Len(s) - k + 1 : SubSeq(s, k, Len(s))[i] = s[k + i - 1]
  OBVIOUS

LEMMA ConcatPrefix ==
  ASSUME NEW S, NEW a \in Seq(S), NEW b \in Seq(S), NEW n \in 0 .. Len(a) + Len(b)
  PROVE  SubSeq(a \o b, 1, n) = SubSeq(a, 1, IF n <= Len(a) THEN n ELSE Len(a))
                                  \o SubSeq(b, 1, IF n <= Len(a) THEN 0 ELSE n - Len(a))
<1>1. PICK c : c = a \o b
  OBVIOUS
<1>2. /\ c \in Seq(S) /\ Len(c) = Len(a) + Len(b) /\ Len(a) \in Nat /\ Len(b) \in Nat /\ n \in Nat
      /\ \A i \in 1 .. Len(a) : c[i] = a[i]
      /\ \A i \in 1 .. Len(b) : c[Len(a) + i] = b[i]
  BY <1>1, ConcatItems
<1>3. PICK d : d = SubSeq(c, 1, n)
  OBVIOUS
<1>4. d \in Seq(S) /\ Len(d) = n /\ \A i \in 1 .. n : d[i] = c[i]
  BY <1>2, <1>3
<1>5. CASE n <= Len(a)
  <2>1. PICK u : u = SubSeq(a, 1, n)
    OBVIOUS
  <2>2. u \in Seq(S) /\ Len(u) = n /\ \A i \in 1 .. n : u[i] = a[i]
    BY <1>2, <1>5, <2>1
  <2>3. d = u
    <3>1. \A i \in 1 .. n : i \in 1 .. Len(a)
      BY <1>2, <1>5
    <3>2. \A i \in 1 .. n : d[i] = u[i]
      BY <1>2, <1>4, <2>2, <3>1
    <3> QED
      BY <1>4, <2>2, <3>2, SeqEqual
  <2>4. SubSeq(b, 1, 0) = << >> /\ u \o << >> = u
    BY <2>2, ConcatEmptySeq
  <2>5. SubSeq(a \o b, 1, n) = SubSeq(a, 1, n) \o SubSeq(b, 1, 0)
    BY <1>1, <1>3, <2>1, <2>3, <2>4
  <2> QED
    BY <1>5, <2>5
<1>6. CASE ~(n <= Len(a))
  <2>1. PICK j \in 0 .. Len(b) : j = n - Len(a) /\ Len(a) + j = n
    <3>1. n - Len(a) \in 0 .. Len(b) /\ Len(a) + (n - Len(a)) = n
      BY <1>2, <1>6
    <3> QED
      BY <3>1
  <2>2. PICK v : v = SubSeq(b, 1, j)
    OBVIOUS
  <2>3. v \in Seq(S) /\ Len(v) = j /\ \A i \in 1 .. j : v[i] = b[i]
    BY <1>2, <2>2
  <2>4. PICK w : w = a \o v
    OBVIOUS
  <2>5. /\ w \in Seq(S) /\ Len(w) = n /\ \A i \in 1 .. Len(a) : w[i] = a[i]
        /\ \A i \in 1 .. n : ~(i <= Len(a)) => i - Len(a) \in 1 .. j /\ w[i] = v[i - Len(a)]
    BY <2>1, <2>3, <2>4, ConcatItems
  <2>6. \A i \in 1 .. n : d[i] = w[i]
    <3> TAKE i \in 1 .. n
    <3>1. CASE i <= Len(a)
      <4>1. i \in 1 .. Len(a)
        BY <1>2, <3>1
      <4> QED
        BY <1>2, <1>4, <2>5, <4>1
    <3>2. CASE ~(i <= Len(a))
      <4>1. i - Len(a) \in 1 .. j /\ w[i] = v[i - Len(a)]
        BY <2>5, <3>2
      <4>2. i - Len(a) \in 1 .. Len(b) /\ Len(a) + (i - Len(a)) = i
        BY <1>2, <2>1, <4>1
      <4>3. c[i] = b[i - Len(a)]
        BY <1>2, <4>2
      <4> QED
        BY <1>4, <2>3, <4>1, <4>3
    <3> QED
      BY <3>1, <3>2
  <2>7. d = w
    BY <1>4, <2>5, <2>6, SeqEqual
  <2>8. SubSeq(a, 1, Len(a)) = a
    OBVIOUS
  <2>9. SubSeq(a \o b, 1, n) = SubSeq(a, 1, Len(a)) \o SubSeq(b, 1, j)
    BY <1>1, <1>3, <2>2, <2>4, <2>7, <2>8
  <2> QED
    BY <1>6, <2>1, <2>9
<1> QED
  BY <1>5, <1>6

\* A beginning and what follows it.
LEMMA SubSeqJoined ==
  ASSUME NEW S, NEW h \in Seq(S), NEW p \in 0 .. Len(h), NEW q \in p .. Len(h)
  PROVE  /\ SubSeq(h, 1, p) \in Seq(S) /\ SubSeq(h, p + 1, q) \in Seq(S)
         /\ SubSeq(h, 1, q) = SubSeq(h, 1, p) \o SubSeq(h, p + 1, q)
<1>1. PICK a, b, c, d : /\ a = SubSeq(h, 1, p) /\ b = SubSeq(h, p + 1, q)
                        /\ c = a \o b /\ d = SubSeq(h, 1, q)
  OBVIOUS
<1>2. Len(h) \in Nat /\ p \in Nat /\ q \in Nat /\ p <= q /\ q <= Len(h)
  OBVIOUS
<1>3. a \in Seq(S) /\ Len(a) = p /\ \A i \in 1 .. p : a[i] = h[i]
  BY <1>1, <1>2
<1>4. b \in Seq(S) /\ Len(b) = q - p /\ \A i \in 1 .. q - p : b[i] = h[p + i]
  <2>1. b \in Seq(S)
    BY <1>1, <1>2
  <2>2. Len(b) = q - p
    BY <1>1, <1>2
  <2>3. \A i \in 1 .. q - p : b[i] = h[p + i]
    BY <1>1, <1>2
  <2> QED
    BY <2>1, <2>2, <2>3
<1>5. d \in Seq(S) /\ Len(d) = q /\ \A i \in 1 .. q : d[i] = h[i]
  BY <1>1, <1>2
<1>6. a \in Seq(S) /\ b \in Seq(S)
  BY <1>3, <1>4
<1>7. /\ c \in Seq(S) /\ Len(c) = Len(a) + Len(b) /\ \A i \in 1 .. Len(a) : c[i] = a[i]
      /\ \A i \in 1 .. Len(a) + Len(b) :
           ~(i <= Len(a)) => i - Len(a) \in 1 .. Len(b) /\ c[i] = b[i - Len(a)]
  <2>1. /\ a \o b \in Seq(S) /\ Len(a \o b) = Len(a) + Len(b)
        /\ \A i \in 1 .. Len(a) : (a \o b)[i] = a[i]
        /\ \A i \in 1 .. Len(a) + Len(b) :
             ~(i <= Len(a)) => i - Len(a) \in 1 .. Len(b) /\ (a \o b)[i] = b[i - Len(a)]
    BY <1>6, ConcatItems
  <2> QED
    BY <1>1, <2>1, Zenon
<1>8. Len(c) = q
  BY <1>2, <1>3, <1>4, <1>7
<1>9. \A i \in 1 .. Len(d) : d[i] = c[i]
  <2> TAKE i \in 1 .. Len(d)
  <2>1. i \in 1 .. q /\ i \in 1 .. Len(a) + Len(b)
    BY <1>2, <1>3, <1>4, <1>5
  <2>2. CASE i <= p
    <3>1. i \in 1 .. p
      BY <1>2, <2>1, <2>2
    <3> QED
      BY <1>3, <1>5, <1>7, <2>1, <3>1
  <2>3. CASE ~(i <= p)
    <3>1. i - p \in 1 .. q - p /\ c[i] = b[i - p] /\ p + (i - p) = i
      BY <1>2, <1>3, <1>4, <1>7, <2>1, <2>3
    <3> QED
      BY <1>4, <1>5, <2>1, <3>1
  <2> QED
    BY <2>2, <2>3
<1>10. d = c
  BY <1>5, <1>7, <1>8, <1>9, SeqEqual
<1> QED
  BY <1>1, <1>6, <1>10

\* The indices of a sequence of length l with one item more.
LEMMA UpToNext ==
  ASSUME NEW l \in Nat, NEW i \in 1 .. l + 1
  PROVE  i \in 1 .. l \/ i = l + 1
OBVIOUS

\* The number after c + i.
LEMMA PlusNext ==
  ASSUME NEW c \in Nat, NEW i \in Nat
  PROVE  c + (i + 1) = (c + 1) + i
OBVIOUS

\* The length of what a sequence of length l holds from w on.
LEMMA RestLength ==
  ASSUME NEW l \in Nat, NEW w \in 1 .. l
  PROVE  l - w + 1 \in Nat /\ l - w + 1 > 0 /\ w + (l - w + 1) = l + 1
OBVIOUS

\* The first of what is left.
LEMMA RestHead ==
  ASSUME NEW S, NEW s \in Seq(S), NEW k \in 0 .. Len(s), k # Len(s)
  PROVE  /\ SubSeq(s, k + 1, Len(s)) # << >>
         /\ Head(SubSeq(s, k + 1, Len(s))) = s[k + 1]
         /\ Tail(SubSeq(s, k + 1, Len(s))) = SubSeq(s, (k + 1) + 1, Len(s))
<1>1. PICK t, b, l, m : /\ t = SubSeq(s, k + 1, Len(s)) /\ l = Len(s) /\ m = k + 1
                        /\ b = SubSeq(s, m + 1, Len(s))
  OBVIOUS
<1>2. /\ l \in Nat /\ k \in Nat /\ k < l /\ m \in 0 .. Len(s) /\ m = k + 1
      /\ l - m = l - k - 1 /\ 1 \in 1 .. l - k
  BY <1>1
<1>3. t \in Seq(S) /\ Len(t) = l - k /\ \A i \in 1 .. l - k : t[i] = s[k + i]
  BY <1>1, RestItems, Zenon
<1>4. b \in Seq(S) /\ Len(b) = l - m /\ \A i \in 1 .. l - m : b[i] = s[m + i]
  BY <1>1, <1>2, RestItems, Zenon
<1>5. t # << >> /\ Head(t) = s[k + 1]
  BY <1>2, <1>3
<1>6. /\ Tail(t) \in Seq(S) /\ Len(Tail(t)) = l - m
      /\ \A i \in 1 .. l - m : Tail(t)[i] = t[i + 1]
  BY <1>2, <1>3, <1>5
<1>7. ASSUME NEW i \in 1 .. l - m
      PROVE  Tail(t)[i] = b[i]
  <2>1. i + 1 \in 1 .. l - k /\ k + (i + 1) = m + i
    BY <1>2
  <2>2. t[i + 1] = s[k + (i + 1)]
    BY <1>3, <2>1
  <2> QED
    BY <1>4, <1>6, <2>1, <2>2, Zenon
<1>8. Tail(t) = b
  BY <1>4, <1>6, <1>7, SeqEqual
<1> QED
  BY <1>1, <1>5, <1>8, Zenon

-----------------------------------------------------------------------------
(* Sets of natural numbers. *)

\* The least one; induction, without an operator as its parameter; the ends of a bounded set.
LEMMA LeastNatural ==
  ASSUME NEW T, T \subseteq Nat, T # {}
  PROVE  \E x \in T : \A y \in T : x <= y
<1>1. PICK R : R = OpToRel(<, Nat)
  OBVIOUS
<1>2. IsWellFoundedOn(R, Nat)
  BY <1>1, NatLessThanWellFounded
<1>3. PICK x \in T : \A y \in T : <<y, x>> \notin R
  BY <1>2, WFMin
<1>4. \A y, z \in Nat : <<y, z>> \in R <=> y < z
  BY <1>1 DEF OpToRel
<1>5. \A y \in T : ~(y < x)
  BY <1>3, <1>4
<1>6. \A y, z \in Nat : ~(y < z) => z <= y
  OBVIOUS
<1> QED
  BY <1>3, <1>5, <1>6

LEMMA SetInduction ==
  ASSUME NEW S, 0 \in S, \A n \in Nat : n \in S => n + 1 \in S
  PROVE  Nat \subseteq S
<1> SUFFICES ASSUME Nat \ S # {}
             PROVE  FALSE
  OBVIOUS
<1>1. PICK x \in Nat \ S : \A y \in Nat \ S : x <= y
  BY LeastNatural
<1>2. x # 0 /\ x - 1 \in Nat /\ ~(x <= x - 1)
  BY <1>1
<1>3. x - 1 \in S
  BY <1>1, <1>2
<1>4. (x - 1) + 1 = x
  BY <1>1
<1> QED
  BY <1>1, <1>2, <1>3, <1>4

LEMMA BoundedEnds ==
  ASSUME NEW n \in Nat, NEW S, S \subseteq 0 .. n, S # {}
  PROVE  /\ Max(S) \in S /\ \A y \in S : y <= Max(S)
         /\ Min(S) \in S /\ \A y \in S : Min(S) <= y
<1>1. \E x \in S : \A y \in S : x <= y
  <2>1. S \subseteq Nat
    OBVIOUS
  <2> QED
    BY <2>1, LeastNatural
<1>2. \E x \in S : \A y \in S : x >= y
  <2>1. PICK T : T = {n - x : x \in S}
    OBVIOUS
  <2>2. T \subseteq Nat /\ T # {}
    <3>1. \A x \in S : n - x \in Nat
      OBVIOUS
    <3> QED
      BY <2>1, <3>1
  <2>3. PICK t \in T : \A u \in T : t <= u
    BY <2>2, LeastNatural
  <2>4. PICK x \in S : t = n - x
    BY <2>1, <2>3
  <2>5. \A y \in S : n - x <= n - y
    BY <2>1, <2>3, <2>4
  <2> QED
    BY <2>4, <2>5
<1>3. Max(S) \in S /\ \A y \in S : Max(S) >= y
  BY <1>2 DEF Max
<1>4. Min(S) \in S /\ \A y \in S : Min(S) <= y
  BY <1>1 DEF Min
<1> QED
  BY <1>3, <1>4
=============================================================================
