------------------------------ MODULE RowLemmas ------------------------------
(***************************************************************************)
(* Lemmas about what the hook computes with rows (CaptureRows, RowHook):   *)
(* slices, boundaries, one chunk fed to one layer, a layer seeded from     *)
(* saved tails, a segment taken out of a layer, the layer file, and two    *)
(* layer files joined.                                                     *)
(***************************************************************************)
EXTENDS RowHook, NatLemmas, SequenceTheorems, TLAPS

(* Sequences *)

\* a sequence, whatever it holds; its length and the concatenation have names here under which the provers do
\* not look into them
IsSeq(s) == Len(s) \in Nat /\ s = [i \in 1 .. Len(s) |-> s[i]]
Size(s) == Len(s)
Join(s, t) == s \o t

\* A member of Seq(S) is one, and every one is a member of some Seq(S).
LEMMA SeqIs ==
  ASSUME NEW S, NEW s \in Seq(S)
  PROVE  IsSeq(s)
BY LenProperties DEF IsSeq

LEMMA SeqIn ==
  ASSUME NEW s, IsSeq(s), NEW S, \A i \in 1 .. Len(s) : s[i] \in S
  PROVE  s \in Seq(S)
BY DEF IsSeq

\* Its length is a natural and its positions are 1 to its length.
LEMMA SizeIs ==
  \A s : IsSeq(s) => Size(s) \in Nat /\ DOMAIN s = 1 .. Size(s)
BY DEF IsSeq, Size

\* Two sequences of one length with the same elements are equal.
LEMMA SameRows ==
  ASSUME NEW s, NEW t, IsSeq(s), IsSeq(t), Size(s) = Size(t), \A i \in Nat : 1 <= i /\ i <= Size(s) => s[i] = t[i]
  PROVE  s = t
<1>1. Len(s) = Len(t) /\ Len(s) \in Nat
  BY DEF Size, IsSeq
<1>2. \A i \in 1 .. Len(s) : s[i] = t[i]
  BY <1>1 DEF Size
<1>3. [i \in 1 .. Len(s) |-> s[i]] = [i \in 1 .. Len(t) |-> t[i]]
  BY <1>1, <1>2
<1> QED BY <1>3 DEF IsSeq

\* A function on 1 .. n is a sequence.
LEMMA TableIs ==
  ASSUME NEW n \in Nat, NEW F, F = [i \in 1 .. n |-> F[i]]
  PROVE  IsSeq(F) /\ Size(F) = n
<1>1. Len(F) = n
  OBVIOUS
<1> QED BY <1>1 DEF IsSeq, Size

-----------------------------------------------------------------------------
(* Slices *)

\* What a slice within a sequence is, and what it holds.
LEMMA SliceAll ==
  ASSUME NEW s, IsSeq(s), NEW a \in Nat, NEW b \in Nat, a <= b, b <= Size(s)
  PROVE  IsSeq(Slice(s, a, b)) /\ Size(Slice(s, a, b)) = b - a /\ \A i \in 1 .. b - a : Slice(s, a, b)[i] = s[a + i]
<1> DEFINE S == {s[i] : i \in 1 .. Len(s)}
<1>1. Len(s) \in Nat /\ b <= Len(s) /\ \A i \in 1 .. Len(s) : s[i] \in S
  BY DEF IsSeq, Size
<1> HIDE DEF S
<1>2. Index(b, Len(s)) = b /\ Index(a, Len(s)) = a
  BY <1>1 DEF Index
<1>3. Slice(s, a, b) = SubSeq(s, a + 1, b)
  BY <1>2 DEF Slice
<1>4. \A i \in a + 1 .. b : s[i] \in S
  BY <1>1
<1>5. /\ SubSeq(s, a + 1, b) \in Seq(S)
      /\ Len(SubSeq(s, a + 1, b)) = IF a + 1 <= b THEN b - (a + 1) + 1 ELSE 0
      /\ \A i \in 1 .. b - (a + 1) + 1 : SubSeq(s, a + 1, b)[i] = s[a + 1 + i - 1]
  <2>1. a + 1 \in Int /\ b \in Int
    OBVIOUS
  <2> QED BY ONLY <1>4, <2>1, SubSeqProperties
<1>6. Len(SubSeq(s, a + 1, b)) = b - a
  BY <1>5
<1>7. \A i \in 1 .. b - a : SubSeq(s, a + 1, b)[i] = s[a + i]
  <2> TAKE i \in 1 .. b - a
  <2>1. i \in 1 .. b - (a + 1) + 1 /\ a + 1 + i - 1 = a + i
    OBVIOUS
  <2> QED BY ONLY <1>5, <2>1
<1>8. IsSeq(SubSeq(s, a + 1, b))
  BY ONLY <1>5, SeqIs
<1> QED BY <1>3, <1>6, <1>7, <1>8 DEF Size

LEMMA SliceIs ==
  \A s : \A a, b \in Nat : IsSeq(s) /\ a <= b /\ b <= Size(s) => IsSeq(Slice(s, a, b)) /\ Size(Slice(s, a, b)) = b - a
BY SliceAll

LEMMA SliceAt ==
  \A s : \A a, b, i \in Nat : IsSeq(s) /\ a <= b /\ b <= Size(s) /\ 1 <= i /\ i <= b - a => Slice(s, a, b)[i] = s[a + i]
<1> TAKE s
<1> TAKE a, b, i \in Nat
<1>1. HAVE IsSeq(s) /\ a <= b /\ b <= Size(s) /\ 1 <= i /\ i <= b - a
<1>2. \A j \in 1 .. b - a : Slice(s, a, b)[j] = s[a + j]
  BY <1>1, SliceAll
<1> QED BY <1>1, <1>2

\* What a concatenation is, and what it holds.
LEMMA JoinAll ==
  ASSUME NEW s, NEW t, IsSeq(s), IsSeq(t)
  PROVE  /\ IsSeq(Join(s, t)) /\ Size(Join(s, t)) = Size(s) + Size(t)
         /\ \A i \in 1 .. Size(s) + Size(t) : Join(s, t)[i] = IF i <= Size(s) THEN s[i] ELSE t[i - Size(s)]
<1> DEFINE S == {s[i] : i \in 1 .. Len(s)} \cup {t[i] : i \in 1 .. Len(t)}
<1>1. (\A i \in 1 .. Len(s) : s[i] \in S) /\ (\A i \in 1 .. Len(t) : t[i] \in S)
  OBVIOUS
<1> HIDE DEF S
<1>2. s \in Seq(S) /\ t \in Seq(S)
  BY <1>1, SeqIn
<1>3. /\ s \o t \in Seq(S)
      /\ Len(s \o t) = Len(s) + Len(t)
      /\ \A i \in 1 .. Len(s) + Len(t) : (s \o t)[i] = IF i <= Len(s) THEN s[i] ELSE t[i - Len(s)]
  BY ONLY <1>2, ConcatProperties
<1>4. IsSeq(s \o t)
  BY ONLY <1>3, SeqIs
<1> QED BY ONLY <1>3, <1>4 DEF Join, Size

LEMMA JoinIs ==
  \A s, t : IsSeq(s) /\ IsSeq(t) => IsSeq(Join(s, t)) /\ Size(Join(s, t)) = Size(s) + Size(t)
BY JoinAll

LEMMA JoinAt ==
  \A s, t : \A i \in Nat : IsSeq(s) /\ IsSeq(t) /\ 1 <= i /\ i <= Size(s) + Size(t)
     => Join(s, t)[i] = IF i <= Size(s) THEN s[i] ELSE t[i - Size(s)]
<1> TAKE s, t
<1> TAKE i \in Nat
<1>1. HAVE IsSeq(s) /\ IsSeq(t) /\ 1 <= i /\ i <= Size(s) + Size(t)
<1>2. \A j \in 1 .. Size(s) + Size(t) : Join(s, t)[j] = IF j <= Size(s) THEN s[j] ELSE t[j - Size(s)]
  BY <1>1, JoinAll
<1>3. Size(s) \in Nat /\ Size(t) \in Nat
  BY <1>1, SizeIs
<1>4. i \in 1 .. Size(s) + Size(t)
  BY <1>1, <1>3
<1> QED BY ONLY <1>2, <1>4

\* A slice of a slice.
LEMMA SliceOfSlice ==
  \A s : \A a, b, c, d \in Nat : IsSeq(s) /\ a <= b /\ b <= Size(s) /\ c <= d /\ d <= b - a
     => Slice(Slice(s, a, b), c, d) = Slice(s, a + c, a + d)
<1> TAKE s
<1> TAKE a, b, c, d \in Nat
<1>1. HAVE IsSeq(s) /\ a <= b /\ b <= Size(s) /\ c <= d /\ d <= b - a
<1>2. Size(s) \in Nat /\ a + c \in Nat /\ a + d \in Nat /\ a + c <= a + d /\ a + d <= Size(s)
  BY <1>1, SizeIs
<1>3. IsSeq(Slice(s, a, b)) /\ Size(Slice(s, a, b)) = b - a
  BY <1>1, SliceIs
<1>4. IsSeq(Slice(s, a + c, a + d)) /\ Size(Slice(s, a + c, a + d)) = d - c
  BY <1>1, <1>2, SliceIs
<1>5. IsSeq(Slice(Slice(s, a, b), c, d)) /\ Size(Slice(Slice(s, a, b), c, d)) = d - c
  BY <1>1, <1>3, SliceIs
<1>6. ASSUME NEW i \in Nat, 1 <= i, i <= d - c
      PROVE  Slice(Slice(s, a, b), c, d)[i] = Slice(s, a + c, a + d)[i]
  <2>1. Slice(Slice(s, a, b), c, d)[i] = Slice(s, a, b)[c + i]
    BY <1>1, <1>3, <1>6, SliceAt
  <2>2. c + i \in Nat /\ 1 <= c + i /\ c + i <= b - a
    BY <1>1, <1>6
  <2>3. Slice(s, a, b)[c + i] = s[a + (c + i)]
    BY <1>1, <2>2, SliceAt
  <2>4. i <= (a + d) - (a + c)
    BY <1>6
  <2>5. Slice(s, a + c, a + d)[i] = s[(a + c) + i]
    BY <1>1, <1>2, <1>6, <2>4, SliceAt
  <2>6. a + (c + i) = (a + c) + i
    OBVIOUS
  <2> QED BY <2>1, <2>3, <2>5, <2>6
<1> QED BY <1>4, <1>5, <1>6, SameRows

\* Two adjacent slices.
LEMMA SliceJoin ==
  \A s : \A a, b, c \in Nat : IsSeq(s) /\ a <= b /\ b <= c /\ c <= Size(s)
     => Join(Slice(s, a, b), Slice(s, b, c)) = Slice(s, a, c)
<1> TAKE s
<1> TAKE a, b, c \in Nat
<1>1. HAVE IsSeq(s) /\ a <= b /\ b <= c /\ c <= Size(s)
<1>2. Size(s) \in Nat /\ b <= Size(s) /\ a <= c
  BY <1>1, SizeIs
<1>3. IsSeq(Slice(s, a, b)) /\ Size(Slice(s, a, b)) = b - a
  BY <1>1, <1>2, SliceIs
<1>4. IsSeq(Slice(s, b, c)) /\ Size(Slice(s, b, c)) = c - b
  BY <1>1, <1>2, SliceIs
<1>5. IsSeq(Slice(s, a, c)) /\ Size(Slice(s, a, c)) = c - a
  BY <1>1, <1>2, SliceIs
<1>6. IsSeq(Join(Slice(s, a, b), Slice(s, b, c))) /\ Size(Join(Slice(s, a, b), Slice(s, b, c))) = c - a
  <2>1. (b - a) + (c - b) = c - a
    OBVIOUS
  <2> QED BY <1>3, <1>4, <2>1, JoinIs
<1>7. ASSUME NEW i \in Nat, 1 <= i, i <= c - a
      PROVE  Join(Slice(s, a, b), Slice(s, b, c))[i] = Slice(s, a, c)[i]
  <2>1. Slice(s, a, c)[i] = s[a + i]
    BY <1>1, <1>2, <1>7, SliceAt
  <2>2. i <= Size(Slice(s, a, b)) + Size(Slice(s, b, c))
    BY <1>1, <1>3, <1>4, <1>7
  <2>3. Join(Slice(s, a, b), Slice(s, b, c))[i] =
          IF i <= Size(Slice(s, a, b)) THEN Slice(s, a, b)[i] ELSE Slice(s, b, c)[i - Size(Slice(s, a, b))]
    BY <1>3, <1>4, <1>7, <2>2, JoinAt
  <2>4. CASE i <= b - a
    <3>1. Slice(s, a, b)[i] = s[a + i]
      BY <1>1, <1>2, <1>7, <2>4, SliceAt
    <3> QED BY <1>3, <2>1, <2>3, <2>4, <3>1
  <2>5. CASE ~(i <= b - a)
    <3>1. PICK j \in Nat : j = i - (b - a)
      BY <2>5
    <3>2. 1 <= j /\ j <= c - b /\ b + j = a + i
      BY <1>1, <1>7, <2>5, <3>1
    <3>3. Slice(s, b, c)[j] = s[b + j]
      BY <1>1, <1>2, <3>2, SliceAt
    <3> QED BY <1>3, <2>1, <2>3, <2>5, <3>1, <3>2, <3>3
  <2> QED BY <2>4, <2>5
<1> QED BY <1>5, <1>6, <1>7, SameRows

\* The whole of a sequence, nothing of it, and a slice that ends beyond it.
LEMMA SliceEnds ==
  \A s : IsSeq(s) => /\ Slice(s, 0, Size(s)) = s
                     /\ \A a \in Nat : a <= Size(s) => Slice(s, a, a) = <<>>
                     /\ \A a, b \in Nat : a <= Size(s) /\ b >= Size(s) => Slice(s, a, b) = Slice(s, a, Size(s))
<1> SUFFICES ASSUME NEW s, IsSeq(s)
             PROVE  /\ Slice(s, 0, Size(s)) = s
                    /\ \A a \in Nat : a <= Size(s) => Slice(s, a, a) = <<>>
                    /\ \A a, b \in Nat : a <= Size(s) /\ b >= Size(s) => Slice(s, a, b) = Slice(s, a, Size(s))
  OBVIOUS
<1>1. Size(s) \in Nat
  BY SizeIs
<1>2. Slice(s, 0, Size(s)) = s
  <2>1. IsSeq(Slice(s, 0, Size(s))) /\ Size(Slice(s, 0, Size(s))) = Size(s)
    BY <1>1, SliceIs
  <2>2. ASSUME NEW i \in Nat, 1 <= i, i <= Size(s) PROVE Slice(s, 0, Size(s))[i] = s[i]
    <3>1. Slice(s, 0, Size(s))[i] = s[0 + i] /\ 0 + i = i
      BY <1>1, <2>2, SliceAt
    <3> QED BY <3>1
  <2> QED BY <2>1, <2>2, SameRows
<1>3. ASSUME NEW a \in Nat, a <= Size(s) PROVE Slice(s, a, a) = <<>>
  <2>1. IsSeq(Slice(s, a, a)) /\ Size(Slice(s, a, a)) = 0
    BY <1>1, <1>3, SliceIs
  <2>2. IsSeq(<<>>) /\ Size(<<>>) = 0
    BY DEF IsSeq, Size
  <2>3. \A i \in Nat : 1 <= i /\ i <= 0 => Slice(s, a, a)[i] = <<>>[i]
    OBVIOUS
  <2> QED BY <2>1, <2>2, <2>3, SameRows
<1>4. ASSUME NEW a \in Nat, NEW b \in Nat, a <= Size(s), b >= Size(s) PROVE Slice(s, a, b) = Slice(s, a, Size(s))
  <2>1. Index(b, Len(s)) = Len(s) /\ Index(Len(s), Len(s)) = Len(s)
    BY <1>1, <1>4 DEF Index, Size
  <2> QED BY <2>1 DEF Slice, Size
<1> QED BY <1>2, <1>3, <1>4

\* Sequences that agree on a range have the same slice there.
LEMMA SliceAgree ==
  ASSUME NEW p, NEW q, IsSeq(p), IsSeq(q), NEW a \in Nat, NEW b \in Nat, a <= b, b <= Size(p), b <= Size(q),
         \A i \in Nat : a + 1 <= i /\ i <= b => p[i] = q[i]
  PROVE  Slice(p, a, b) = Slice(q, a, b)
<1>1. IsSeq(Slice(p, a, b)) /\ Size(Slice(p, a, b)) = b - a
  BY SliceIs
<1>2. IsSeq(Slice(q, a, b)) /\ Size(Slice(q, a, b)) = b - a
  BY SliceIs
<1>3. ASSUME NEW i \in Nat, 1 <= i, i <= b - a PROVE Slice(p, a, b)[i] = Slice(q, a, b)[i]
  <2>1. a + i \in Nat /\ a + 1 <= a + i /\ a + i <= b
    BY <1>3
  <2>2. Slice(p, a, b)[i] = p[a + i]
    BY <1>3, SliceAt
  <2>3. Slice(q, a, b)[i] = q[a + i]
    BY <1>3, SliceAt
  <2> QED BY <2>1, <2>2, <2>3
<1> QED BY <1>1, <1>2, <1>3, SameRows

\* The last rows of a slice: all of it, if it is short.
LEMMA LastAll ==
  \A s : \A n \in Nat : IsSeq(s) /\ Size(s) <= n => LastRows(s, n) = s
BY DEF LastRows, Size

LEMMA LastOfSlice ==
  \A s : \A a, b, n \in Nat : IsSeq(s) /\ a <= b /\ b <= Size(s) /\ ~(b - a <= n)
     => LastRows(Slice(s, a, b), n) = Slice(s, b - n, b)
<1> TAKE s
<1> TAKE a, b, n \in Nat
<1>1. HAVE IsSeq(s) /\ a <= b /\ b <= Size(s) /\ ~(b - a <= n)
<1>2. IsSeq(Slice(s, a, b)) /\ Size(Slice(s, a, b)) = b - a
  BY <1>1, SliceIs
<1>3. (b - a) - n \in Nat /\ (b - a) - n <= b - a /\ b - a \in Nat
  BY <1>1
<1>4. LastRows(Slice(s, a, b), n) = SubSeq(Slice(s, a, b), (b - a) - n + 1, b - a)
  <2>1. Len(Slice(s, a, b)) = b - a
    BY <1>2 DEF Size
  <2> QED BY <1>1, <2>1 DEF LastRows
<1>5. Slice(Slice(s, a, b), (b - a) - n, b - a) = SubSeq(Slice(s, a, b), (b - a) - n + 1, b - a)
  <2>1. Len(Slice(s, a, b)) = b - a
    BY <1>2 DEF Size
  <2>2. Index((b - a) - n, b - a) = (b - a) - n /\ Index(b - a, b - a) = b - a
    BY <1>3 DEF Index
  <2>3. \A t, k, m : Slice(t, k, m) = SubSeq(t, Index(k, Len(t)) + 1, Index(m, Len(t)))
    BY DEF Slice
  <2> QED BY <2>1, <2>2, <2>3
<1>6. Slice(Slice(s, a, b), (b - a) - n, b - a) = Slice(s, a + ((b - a) - n), a + (b - a))
  BY <1>1, <1>3, SliceOfSlice
<1>7. a + ((b - a) - n) = b - n /\ a + (b - a) = b
  OBVIOUS
<1> QED BY <1>4, <1>5, <1>6, <1>7

-----------------------------------------------------------------------------
(* Numbers *)

\* The constants are naturals, and the sizes are in proportion.
LEMMA Sizes ==
  /\ Win \in Nat /\ Win >= 1 /\ Win <= Block /\ Keep \in Nat /\ Win + Keep \in Nat
  /\ TailRaw \in Nat /\ TailRaw + Keep \in Nat /\ Block \in Nat /\ Block >= 1
  /\ R4 \in Nat /\ R4 >= 1 /\ R128 \in Nat /\ R128 >= 1
  /\ TailRaw >= R128 + R4 - 1 /\ TailRaw >= 2 * R4 - 1
BY RowsAssumption

LEMMA RatioIs ==
  ASSUME NEW kind
  PROVE  Ratio(kind) \in Nat /\ Ratio(kind) >= 1 /\ Block % Ratio(kind) = 0 /\ TailRaw >= Ratio(kind) - 1
BY RowsAssumption DEF Ratio

\* Quotient and remainder.
LEMMA DivMod ==
  \A n, r \in Nat : r >= 1 => n \div r \in Nat /\ n % r \in Nat /\ n % r < r /\ n = (n \div r) * r + (n % r)
<1> TAKE n, r \in Nat
<1>1. HAVE r >= 1
<1> QED BY <1>1, Z3

LEMMA DivOnly ==
  ASSUME NEW n \in Nat, NEW r \in Nat, r >= 1, NEW q \in Nat, NEW m \in Nat, m < r, n = q * r + m
  PROVE  n \div r = q /\ n % r = m
<1>1. PICK k \in Nat : k = n \div r
  BY DivMod
<1>2. PICK l \in Nat : l = n % r
  BY DivMod
<1>3. l < r /\ n = k * r + l
  BY <1>1, <1>2, DivMod
<1>4. ~(k < q)
  <2> SUFFICES ASSUME k < q PROVE FALSE
    OBVIOUS
  <2>1. PICK d \in Nat : q = k + d + 1
    <3>1. q - k - 1 \in Nat /\ q = k + (q - k - 1) + 1
      OBVIOUS
    <3> QED BY <3>1
  <2>2. q * r = k * r + d * r + r
    BY <2>1, Z3
  <2>3. d * r >= 0
    BY Z3
  <2> QED BY <1>3, <2>2, <2>3, Z3
<1>5. ~(q < k)
  <2> SUFFICES ASSUME q < k PROVE FALSE
    OBVIOUS
  <2>1. PICK d \in Nat : k = q + d + 1
    <3>1. k - q - 1 \in Nat /\ k = q + (k - q - 1) + 1
      OBVIOUS
    <3> QED BY <3>1
  <2>2. k * r = q * r + d * r + r
    BY <2>1, Z3
  <2>3. d * r >= 0
    BY Z3
  <2> QED BY <1>3, <2>2, <2>3, Z3
<1>6. k = q
  BY <1>4, <1>5
<1>7. l = m
  BY <1>3, <1>6, Z3
<1> QED BY <1>1, <1>2, <1>6, <1>7

\* Products respect the order.
LEMMA TimesLe ==
  \A a, b, r \in Nat : a <= b => a * r <= b * r
<1> TAKE a, b, r \in Nat
<1>1. HAVE a <= b
<1>2. PICK d \in Nat : b = a + d
  <2>1. b - a \in Nat /\ b = a + (b - a)
    BY <1>1
  <2> QED BY <2>1
<1>3. b * r = a * r + d * r /\ d * r >= 0
  BY <1>2, Z3
<1> QED BY <1>3, Z3

LEMMA DivLe ==
  \A n, m, r \in Nat : r >= 1 /\ n <= m => n \div r <= m \div r
<1> TAKE n, m, r \in Nat
<1>1. HAVE r >= 1 /\ n <= m
<1>2. PICK a \in Nat, b \in Nat : a = n \div r /\ b = m \div r
  BY <1>1, DivMod
<1>3. n = a * r + (n % r) /\ m = b * r + (m % r) /\ n % r \in Nat /\ m % r \in Nat /\ m % r < r
  BY <1>1, <1>2, DivMod
<1>4. ~(b < a)
  <2> SUFFICES ASSUME b < a PROVE FALSE
    OBVIOUS
  <2>1. b + 1 <= a /\ b + 1 \in Nat
    OBVIOUS
  <2>2. (b + 1) * r <= a * r
    BY <2>1, TimesLe
  <2>3. (b + 1) * r = b * r + r
    BY Z3
  <2> QED BY <1>1, <1>3, <2>2, <2>3, Z3
<1> QED BY <1>2, <1>4

\* A multiple of Block is a multiple of either ratio.
LEMMA BlockRatio ==
  ASSUME NEW kind, NEW b \in Nat, b % Block = 0
  PROVE  b % Ratio(kind) = 0 /\ b = (b \div Ratio(kind)) * Ratio(kind)
<1>1. PICK r \in Nat : r = Ratio(kind)
  BY RatioIs
<1>2. r >= 1 /\ Block % r = 0 /\ Block \in Nat /\ Block >= 1
  BY <1>1, RatioIs, Sizes
<1>3. PICK k \in Nat : Block = k * r
  <2>1. Block \div r \in Nat /\ Block = (Block \div r) * r + (Block % r)
    BY <1>2, DivMod
  <2>2. Block = (Block \div r) * r
    BY <1>2, <2>1, Z3
  <2> QED BY <2>1, <2>2
<1>4. PICK l \in Nat : b = l * Block
  <2>1. PICK m \in Nat : m = Block
    BY <1>2
  <2>2. b \div m \in Nat /\ b = (b \div m) * m + (b % m) /\ b % m = 0
    BY <1>2, <2>1, DivMod
  <2>3. PICK d \in Nat : d = b \div m
    BY <2>2
  <2>4. b = d * m
    BY ONLY b \in Nat, <2>2, <2>3, Z3
  <2> QED BY <2>1, <2>4
<1>5. b = (l * k) * r + 0 /\ l * k \in Nat
  BY <1>3, <1>4, Z3
<1>6. b \div r = l * k /\ b % r = 0
  BY <1>2, <1>5, DivOnly
<1> QED BY <1>1, <1>5, <1>6

-----------------------------------------------------------------------------
(* Boundaries *)

LEMMA BoundaryIs ==
  \A lo, hi \in Nat : \A b : b \in Boundaries(lo, hi) <=> b \in Nat /\ lo < b /\ b <= hi /\ b % Block = 0
BY DEF Boundaries

-----------------------------------------------------------------------------
(* Functions *)

IsFun(f) == f = [x \in DOMAIN f |-> f[x]]

LEMMA SameFun ==
  ASSUME NEW f, NEW g, IsFun(f), IsFun(g), DOMAIN f = DOMAIN g, \A x \in DOMAIN f : f[x] = g[x]
  PROVE  f = g
<1>1. [x \in DOMAIN f |-> f[x]] = [x \in DOMAIN g |-> g[x]]
  OBVIOUS
<1> QED BY <1>1 DEF IsFun

LEMMA UpdatedIs ==
  ASSUME NEW f, NEW g, NEW h, IsFun(h), DOMAIN h = DOMAIN f \cup DOMAIN g,
         \A x \in DOMAIN g : h[x] = g[x], \A x \in DOMAIN f : x \notin DOMAIN g => h[x] = f[x]
  PROVE  Updated(f, g) = h
<1>1. \A x \in DOMAIN h : h[x] = IF x \in DOMAIN g THEN g[x] ELSE f[x]
  OBVIOUS
<1>2. [x \in DOMAIN h |-> h[x]] = [x \in DOMAIN f \cup DOMAIN g |-> IF x \in DOMAIN g THEN g[x] ELSE f[x]]
  BY <1>1
<1> QED BY <1>2 DEF IsFun, Updated

-----------------------------------------------------------------------------
(* What a layer holds when nothing is missing *)

\* The tail of w rows of a layer that stands at N and was seeded, if it was, from the tail of a capture that ended at T:
\* it begins at Lo.
Lo(N, T, w) == LET top == IF T > N THEN T ELSE N IN IF top > w THEN top - w ELSE 0

\* the rows p[..N], with the boundaries after `from` still held
TrueKv(p, from, T, N) ==
  [tail |-> Slice(p, Lo(N, T, Win + Keep), N), snaps |-> [b \in Boundaries(from, N) |-> TrueWindow(p, b)],
   next |-> N, gaps |-> FALSE]

LEMMA LoIs ==
  \A N, T, w \in Nat : T <= N + w => Lo(N, T, w) \in Nat /\ Lo(N, T, w) <= N
BY DEF Lo

\* The tail, after a chunk.
LEMMA FeedTail ==
  ASSUME NEW p, IsSeq(p), NEW T \in Nat, NEW N \in Nat, NEW M \in Nat, NEW w \in Nat, T <= N + w, N <= M, M <= Size(p)
  PROVE  LastRows(Join(Slice(p, Lo(N, T, w), N), Slice(p, N, M)), w) = Slice(p, Lo(M, T, w), M)
<1>1. PICK lo \in Nat : lo = Lo(N, T, w) /\ lo <= N
  BY LoIs
<1>2. Join(Slice(p, lo, N), Slice(p, N, M)) = Slice(p, lo, M)
  BY <1>1, SliceJoin
<1>3. lo <= M
  BY <1>1
<1>4. CASE M - lo <= w
  <2>1. IsSeq(Slice(p, lo, M)) /\ Size(Slice(p, lo, M)) = M - lo
    BY <1>3, SliceIs
  <2>2. LastRows(Slice(p, lo, M), w) = Slice(p, lo, M)
    BY <1>4, <2>1, LastAll
  <2>3. Lo(M, T, w) = lo
    BY <1>1, <1>3, <1>4 DEF Lo
  <2> QED BY <1>1, <1>2, <2>2, <2>3
<1>5. CASE ~(M - lo <= w)
  <2>1. LastRows(Slice(p, lo, M), w) = Slice(p, M - w, M)
    BY <1>3, <1>5, LastOfSlice
  <2>2. Lo(M, T, w) = M - w
    BY <1>1, <1>3, <1>5 DEF Lo
  <2> QED BY <1>1, <1>2, <2>1, <2>2
<1> QED BY <1>4, <1>5

\* A slice of the tail with the chunk behind it is a slice of the prompt.
LEMMA CutTail ==
  ASSUME NEW p, IsSeq(p), NEW T \in Nat, NEW N \in Nat, NEW M \in Nat, NEW w \in Nat, T <= N + w, N <= M, M <= Size(p),
         NEW a \in Nat, NEW b \in Nat, Lo(N, T, w) <= a, a <= b, b <= M
  PROVE  Slice(Join(Slice(p, Lo(N, T, w), N), Slice(p, N, M)), a - Lo(N, T, w), b - Lo(N, T, w)) = Slice(p, a, b)
<1>1. PICK lo \in Nat : lo = Lo(N, T, w) /\ lo <= N
  BY LoIs
<1>2. Join(Slice(p, lo, N), Slice(p, N, M)) = Slice(p, lo, M)
  BY <1>1, SliceJoin
<1>3. PICK c \in Nat, d \in Nat : c = a - lo /\ d = b - lo
  <2>1. a - lo \in Nat /\ b - lo \in Nat
    BY <1>1
  <2> QED BY <2>1
<1>4. lo <= M /\ c <= d /\ d <= M - lo /\ lo + c = a /\ lo + d = b
  BY <1>1, <1>3
<1>5. Slice(Slice(p, lo, M), c, d) = Slice(p, lo + c, lo + d)
  BY <1>4, SliceOfSlice
<1> QED BY <1>1, <1>2, <1>3, <1>4, <1>5

\* feed with the lengths and the concatenation named
LEMMA KvFeedIs ==
  ASSUME NEW st, NEW rows, NEW start
  PROVE  LET full == Join(st.tail, rows)
             base == start - Size(st.tail)
             stop == start + Size(rows)
             From(b) == IF b - Win >= base THEN b - Win ELSE base
         IN  KvFeed(st, rows, start) =
               [tail |-> LastRows(full, Win + Keep),
                snaps |-> Updated(st.snaps, [b \in Boundaries(start, stop) |-> Slice(full, From(b) - base, b - base)]),
                next |-> stop, gaps |-> st.gaps \/ start # st.next]
BY DEF KvFeed, Join, Size

\* A chunk fed to the sliding window: what was true stays true.  The rows before a boundary are still in the tail,
\* because a resumed layer begins at most Keep rows before the end of its parent.
LEMMA FeedKv ==
  ASSUME NEW p, IsSeq(p), NEW from \in Nat, NEW T \in Nat, NEW N \in Nat, NEW M \in Nat,
         T <= from + Keep, from <= N, N <= M, M <= Size(p)
  PROVE  KvFeed(TrueKv(p, from, T, N), Slice(p, N, M), N) = TrueKv(p, from, T, M)
<1> DEFINE st == TrueKv(p, from, T, N)
           w == Win + Keep
           lo == Lo(N, T, w)
           rows == Slice(p, N, M)
           full == Join(Slice(p, lo, N), rows)
           From(b) == IF b - Win >= lo THEN b - Win ELSE lo
           new == [b \in Boundaries(N, M) |-> Slice(full, From(b) - lo, b - lo)]
           all == [b \in Boundaries(from, M) |-> TrueWindow(p, b)]
<1>1. st.tail = Slice(p, lo, N) /\ st.snaps = [b \in Boundaries(from, N) |-> TrueWindow(p, b)] /\ st.next = N /\ st.gaps = FALSE
  BY DEF TrueKv
<1>2. w \in Nat /\ T <= N + w /\ Win \in Nat /\ Keep \in Nat /\ w = Win + Keep
  BY Sizes
<1>3. lo \in Nat /\ lo <= N
  BY <1>2, LoIs
<1>4. Size(Slice(p, lo, N)) = N - lo /\ Size(rows) = M - N /\ N <= Size(p)
  <2>1. N <= Size(p)
    BY SizeIs
  <2> QED BY <1>3, <2>1, SliceIs
<1>5. LastRows(full, w) = Slice(p, Lo(M, T, w), M)
  BY <1>2, FeedTail
<1> HIDE DEF st, w
<1>6. ASSUME NEW b \in Boundaries(N, M) PROVE Slice(full, From(b) - lo, b - lo) = TrueWindow(p, b)
  <2>1. b \in Nat /\ N < b /\ b <= M
    BY BoundaryIs
  <2>2. PICK a \in Nat : a = From(b) /\ lo <= a /\ a <= b
    BY <1>2, <1>3, <2>1
  <2>3. Slice(full, a - lo, b - lo) = Slice(p, a, b)
    BY <1>2, <2>1, <2>2, CutTail
  <2>4. a = IF b >= Win THEN b - Win ELSE 0
    BY <1>2, <2>1, <2>2 DEF Lo
  <2> QED BY <2>2, <2>3, <2>4 DEF TrueWindow
<1>7. Updated(st.snaps, new) = all
  <2>1. DOMAIN all = DOMAIN st.snaps \cup DOMAIN new
    BY <1>1, BoundaryIs
  <2>2. \A b \in DOMAIN new : all[b] = new[b]
    <3> TAKE b \in DOMAIN new
    <3>1. new[b] = TrueWindow(p, b)
      BY <1>6
    <3>2. b \in Boundaries(from, M)
      BY BoundaryIs
    <3> QED BY <3>1, <3>2
  <2>3. \A b \in DOMAIN st.snaps : b \notin DOMAIN new => all[b] = st.snaps[b]
    BY <1>1, BoundaryIs
  <2>4. IsFun(all)
    BY DEF IsFun
  <2> HIDE DEF all, new
  <2> QED BY <2>1, <2>2, <2>3, <2>4, UpdatedIs
<1>8. KvFeed(st, rows, N) = [tail |-> LastRows(full, w), snaps |-> Updated(st.snaps, new), next |-> M, gaps |-> FALSE]
  <2>1. N - Size(st.tail) = lo /\ N + Size(rows) = M
    BY <1>1, <1>3, <1>4
  <2> HIDE DEF rows, lo
  <2> QED BY <1>1, <2>1, KvFeedIs DEF w
<1> HIDE DEF new, full, lo
<1> QED BY <1>5, <1>7, <1>8 DEF TrueKv, st, w

-----------------------------------------------------------------------------
(* What a pool holds when nothing is missing *)

\* the row that a compressor makes of the i-th window
TrueRow(kind, p, i) ==
  LET r == Ratio(kind)
  IN  PooledRow(i - 1, IF kind = "c4" /\ i > 1 THEN Slice(p, ((i - 1) - 1) * r, (i - 1) * r) ELSE <<>>, Slice(p, (i - 1) * r, i * r))

TrueCarry(kind, p, N) ==
  LET r == Ratio(kind)
      rem == N % r
  IN  [buf |-> Slice(p, N - rem, N), prev |-> IF kind = "c4" /\ N >= r THEN Slice(p, N - rem - r, N - rem) ELSE <<>>,
       processed |-> N]

\* the pooled rows of the windows that end in (from, N], and those that begin before and end there
PooledFrom(kind, p, from, N) == Slice(TruePooled(kind, p, N \div Ratio(kind)), from \div Ratio(kind), N \div Ratio(kind))

\* the rows p[..N], of which the first `sh` have been shipped, with the boundaries and pooled rows after `from`
TruePool(kind, p, from, sh, T, N) ==
  [tail |-> Slice(p, Lo(N, T, TailRaw + Keep), N),
   prev |-> [b \in IF kind = "c4" THEN Boundaries(from, N) ELSE {} |-> TruePrev(kind, p, b)],
   pooled |-> PooledFrom(kind, p, from, N), shipped |-> sh \div Ratio(kind), carry |-> TrueCarry(kind, p, N), next |-> N]

LEMMA PooledIs ==
  ASSUME NEW kind, NEW p, NEW n \in Nat
  PROVE  /\ IsSeq(TruePooled(kind, p, n)) /\ Size(TruePooled(kind, p, n)) = n
         /\ \A i \in Nat : 1 <= i /\ i <= n => TruePooled(kind, p, n)[i] = TrueRow(kind, p, i)
<1>1. TruePooled(kind, p, n) = [i \in 1 .. n |-> TrueRow(kind, p, i)]
  BY DEF TruePooled, TrueRow
<1>2. \A i \in Nat : 1 <= i /\ i <= n => TruePooled(kind, p, n)[i] = TrueRow(kind, p, i)
  BY <1>1
<1>3. TruePooled(kind, p, n) = [i \in 1 .. n |-> TruePooled(kind, p, n)[i]]
  BY <1>1
<1> QED BY <1>2, <1>3, TableIs

\* The pooled rows of a shorter prompt are the first ones of a longer prompt.
LEMMA PooledSlice ==
  ASSUME NEW kind, NEW p, NEW n \in Nat, NEW m \in Nat, NEW a \in Nat, NEW b \in Nat, a <= b, b <= n, b <= m
  PROVE  Slice(TruePooled(kind, p, n), a, b) = Slice(TruePooled(kind, p, m), a, b)
<1>1. IsSeq(TruePooled(kind, p, n)) /\ Size(TruePooled(kind, p, n)) = n
  BY PooledIs
<1>2. IsSeq(TruePooled(kind, p, m)) /\ Size(TruePooled(kind, p, m)) = m
  BY PooledIs
<1>3. ASSUME NEW i \in Nat, a + 1 <= i, i <= b PROVE TruePooled(kind, p, n)[i] = TruePooled(kind, p, m)[i]
  <2>1. 1 <= i /\ i <= n /\ i <= m
    BY <1>3
  <2> QED BY <2>1, PooledIs
<1> QED BY <1>1, <1>2, <1>3, SliceAgree

\* pool_layer with the lengths and the concatenation named
LEMMA PoolLayerIs ==
  ASSUME NEW kind, NEW carry, NEW x, NEW start
  PROVE  LET r == Ratio(kind)
             all == Join(carry.buf, x)
             w == Size(all) \div r
             window(i) == Slice(all, (i - 1) * r, i * r)
             before(i) == IF kind = "c128" THEN <<>> ELSE IF i = 1 THEN carry.prev ELSE window(i - 1)
             base == (start - Size(carry.buf)) \div r
         IN  PoolLayer(kind, carry, x, start) =
               [rows |-> [i \in 1 .. w |-> PooledRow(base + i - 1, before(i), window(i))],
                carry |-> [buf |-> Slice(all, w * r, Size(all)),
                           prev |-> IF kind = "c4" /\ w > 0 THEN window(w) ELSE carry.prev,
                           processed |-> start + Size(x)]]
BY DEF PoolLayer, Join, Size

\* A chunk pooled behind a true carry makes the true rows, once each, and leaves a true carry.
LEMMA LayerRows ==
  ASSUME NEW kind \in {"c4", "c128"}, NEW p, IsSeq(p), NEW N \in Nat, NEW M \in Nat, N <= M, M <= Size(p)
  PROVE  LET out == PoolLayer(kind, TrueCarry(kind, p, N), Slice(p, N, M), N)
         IN  out = [rows |-> PooledFrom(kind, p, N, M), carry |-> TrueCarry(kind, p, M)]
<1>1. PICK r \in Nat : r = Ratio(kind) /\ r >= 1
  BY RatioIs
<1>2. PICK q \in Nat, m \in Nat : q = N \div r /\ m = N % r /\ m < r /\ N = q * r + m
  <2>1. N \div r \in Nat /\ N % r \in Nat /\ N % r < r /\ N = (N \div r) * r + (N % r)
    BY <1>1, DivMod
  <2> QED BY <2>1
<1>3. PICK Q \in Nat, R \in Nat : Q = M \div r /\ R = M % r /\ R < r /\ M = Q * r + R
  <2>1. M \div r \in Nat /\ M % r \in Nat /\ M % r < r /\ M = (M \div r) * r + (M % r)
    BY <1>1, DivMod
  <2> QED BY <2>1
<1>4. PICK w \in Nat : Q = q + w
  <2>1. q <= Q
    BY <1>1, <1>2, <1>3, DivLe
  <2>2. Q - q \in Nat /\ Q = q + (Q - q)
    BY <2>1
  <2> QED BY <2>2
<1>5. PICK o \in Nat : o = q * r /\ o <= N /\ N - o = m /\ N - m = o
  <2>1. q * r \in Nat
    BY Z3
  <2>2. PICK o \in Nat : o = q * r
    BY <2>1
  <2> QED BY <1>2, <2>2
<1>6. PICK O \in Nat : O = Q * r /\ O <= M /\ M - O = R /\ M - R = O
  <2>1. Q * r \in Nat
    BY Z3
  <2>2. PICK O \in Nat : O = Q * r
    BY <2>1
  <2> QED BY <1>3, <2>2
<1>7. \A i \in Nat : (q + i) * r = o + i * r /\ i * r \in Nat
  <2> TAKE i \in Nat
  <2>1. (q + i) * r = q * r + i * r /\ i * r \in Nat
    BY Z3
  <2> QED BY <1>5, <2>1
<1>8. O = o + w * r /\ w * r \in Nat
  BY <1>4, <1>6, <1>7
<1> DEFINE carry == TrueCarry(kind, p, N)
           x == Slice(p, N, M)
           all == Slice(p, o, M)
           window(i) == Slice(all, (i - 1) * r, i * r)
           before(i) == IF kind = "c128" THEN <<>> ELSE IF i = 1 THEN carry.prev ELSE window(i - 1)
<1>9. carry.buf = Slice(p, o, N) /\ carry.prev = IF kind = "c4" /\ N >= r THEN Slice(p, o - r, o) ELSE <<>>
  BY <1>1, <1>2, <1>5 DEF TrueCarry
<1>10. Size(p) \in Nat /\ N <= Size(p) /\ o <= M
  BY <1>5, SizeIs
<1>11. Size(Slice(p, o, N)) = m /\ Size(x) = M - N /\ IsSeq(all) /\ Size(all) = M - o
  BY <1>5, <1>10, SliceIs
<1>12. Join(Slice(p, o, N), x) = all
  BY <1>5, SliceJoin
<1>13. (M - o) \div r = w
  <2>1. M - o = w * r + R /\ M - o \in Nat
    BY <1>6, <1>8
  <2> QED BY <1>1, <1>3, <2>1, DivOnly
<1>14. o \div r = q
  <2>1. o = q * r + 0
    BY <1>5
  <2> QED BY <1>1, <2>1, DivOnly
<1> HIDE DEF carry, x, all
<1>15. PoolLayer(kind, carry, x, N) =
         [rows |-> [i \in 1 .. w |-> PooledRow(q + i - 1, before(i), window(i))],
          carry |-> [buf |-> Slice(all, w * r, M - o), prev |-> IF kind = "c4" /\ w > 0 THEN window(w) ELSE carry.prev,
                     processed |-> M]]
  <2>1. Size(carry.buf) = m /\ N - m = o /\ Join(carry.buf, x) = all /\ N + Size(x) = M
    BY <1>5, <1>9, <1>11, <1>12
  <2> QED BY <1>1, <1>11, <1>13, <1>14, <2>1, PoolLayerIs
<1>16. ASSUME NEW i \in Nat, 1 <= i, i <= w
       PROVE  window(i) = Slice(p, ((q + i) - 1) * r, (q + i) * r) /\ ((q + i) - 1) * r \in Nat
  <2>1. PICK j \in Nat : j = i - 1 /\ j <= i
    BY <1>16
  <2>2. j * r \in Nat /\ i * r \in Nat /\ j * r <= i * r /\ i * r <= w * r
    BY <1>7, <1>16, <2>1, TimesLe
  <2>3. i * r <= M - o
    BY <1>6, <1>8, <2>2
  <2>4. Slice(all, j * r, i * r) = Slice(p, o + j * r, o + i * r)
    <3>1. PICK c \in Nat, d \in Nat : c = j * r /\ d = i * r
      BY <2>2
    <3>2. c <= d /\ d <= M - o
      BY <2>2, <2>3, <3>1
    <3>3. Slice(Slice(p, o, M), c, d) = Slice(p, o + c, o + d)
      BY <1>10, <3>2, SliceOfSlice
    <3> QED BY <3>1, <3>3 DEF all
  <2>5. o + j * r = (q + j) * r /\ o + i * r = (q + i) * r /\ q + j = (q + i) - 1
    BY <1>7, <2>1
  <2>6. (q + j) * r \in Nat
    BY <2>2, <2>5
  <2> QED BY <2>1, <2>4, <2>5, <2>6
<1>18. N >= r <=> q >= 1
  <2>1. q >= 1 => r <= o
    <3>1. q >= 1 => 1 * r <= q * r
      BY TimesLe
    <3> QED BY <1>5, <3>1
  <2>2. q = 0 => o = 0
    BY <1>5
  <2>3. N = o + m /\ m < r
    BY <1>2, <1>5
  <2> QED BY ONLY r \in Nat, q \in Nat, o \in Nat, m \in Nat, N \in Nat, <2>1, <2>2, <2>3
<1>19. ASSUME NEW i \in Nat, 1 <= i, i <= w
       PROVE  PooledRow(q + i - 1, before(i), window(i)) = TrueRow(kind, p, q + i)
  <2>1. window(i) = Slice(p, ((q + i) - 1) * r, (q + i) * r)
    BY <1>16, <1>19
  <2>2. before(i) = IF kind = "c4" /\ q + i > 1 THEN Slice(p, (((q + i) - 1) - 1) * r, ((q + i) - 1) * r) ELSE <<>>
    <3>1. CASE kind = "c128"
      BY <3>1
    <3>2. CASE kind = "c4" /\ i = 1
      <4>1. before(i) = IF q >= 1 THEN Slice(p, o - r, o) ELSE <<>>
        BY <1>9, <1>18, <3>2
      <4>2. (q + i) - 1 = q /\ o = q * r
        BY <1>5, <3>2
      <4>3. q >= 1 => o - r = (((q + i) - 1) - 1) * r
        <5>1. SUFFICES ASSUME q >= 1 PROVE o - r = (q - 1) * r
          BY <4>2
        <5>2. (q - 1) * r = q * r - r
          BY Z3
        <5> QED BY <1>5, <5>2
      <4> QED BY <3>2, <4>1, <4>2, <4>3
    <3>3. CASE kind = "c4" /\ i # 1
      <4>1. PICK j \in Nat : j = i - 1 /\ 1 <= j /\ j <= w
        BY <1>19, <3>3
      <4>2. window(j) = Slice(p, ((q + j) - 1) * r, (q + j) * r)
        BY <1>16, <4>1
      <4>3. q + j = (q + i) - 1 /\ q + i > 1
        BY <4>1
      <4>4. before(i) = window(j)
        BY <3>3, <4>1
      <4> HIDE DEF before, window
      <4> QED BY <3>3, <4>2, <4>3, <4>4
    <3> QED BY <3>1, <3>2, <3>3
  <2>3. q + i - 1 = (q + i) - 1
    OBVIOUS
  <2> HIDE DEF before, window
  <2> QED BY <1>1, <2>1, <2>2, <2>3 DEF TrueRow
<1>20. [i \in 1 .. w |-> PooledRow(q + i - 1, before(i), window(i))] = PooledFrom(kind, p, N, M)
  <2> DEFINE t == [i \in 1 .. w |-> PooledRow(q + i - 1, before(i), window(i))]
  <2>1. \A i \in Nat : 1 <= i /\ i <= w => t[i] = TrueRow(kind, p, q + i)
    BY <1>19
  <2>2. t = [i \in 1 .. w |-> t[i]]
    OBVIOUS
  <2> HIDE DEF t, before, window
  <2>3. IsSeq(t) /\ Size(t) = w
    BY <2>2, TableIs
  <2>4. IsSeq(TruePooled(kind, p, Q)) /\ Size(TruePooled(kind, p, Q)) = Q
    BY PooledIs
  <2>5. PooledFrom(kind, p, N, M) = Slice(TruePooled(kind, p, Q), q, Q)
    BY <1>1, <1>2, <1>3 DEF PooledFrom
  <2>6. IsSeq(Slice(TruePooled(kind, p, Q), q, Q)) /\ Size(Slice(TruePooled(kind, p, Q), q, Q)) = w
    <3>1. q <= Q /\ Q - q = w
      BY <1>4
    <3> QED BY <2>4, <3>1, SliceIs
  <2>7. ASSUME NEW i \in Nat, 1 <= i, i <= w PROVE t[i] = Slice(TruePooled(kind, p, Q), q, Q)[i]
    <3>1. q <= Q /\ i <= Q - q /\ 1 <= q + i /\ q + i <= Q /\ q + i \in Nat
      BY <1>4, <2>7
    <3>2. Slice(TruePooled(kind, p, Q), q, Q)[i] = TruePooled(kind, p, Q)[q + i]
      BY <2>4, <2>7, <3>1, SliceAt
    <3>3. TruePooled(kind, p, Q)[q + i] = TrueRow(kind, p, q + i)
      BY <3>1, PooledIs
    <3> QED BY <2>1, <2>7, <3>2, <3>3
  <2>8. t = Slice(TruePooled(kind, p, Q), q, Q)
    BY <2>3, <2>6, <2>7, SameRows
  <2> QED BY <2>5, <2>8 DEF t
<1>21. Slice(all, w * r, M - o) = Slice(p, M - R, M)
  <2>1. w * r <= M - o /\ M - o \in Nat /\ M - o <= M - o /\ o + w * r = M - R /\ o + (M - o) = M
    BY <1>6, <1>8, <1>10
  <2>2. Slice(all, w * r, M - o) = Slice(p, o + w * r, o + (M - o))
    BY <1>8, <1>10, <2>1, SliceOfSlice DEF all
  <2> QED BY <2>1, <2>2
<1>22. (IF kind = "c4" /\ w > 0 THEN window(w) ELSE carry.prev)
         = IF kind = "c4" /\ M >= r THEN Slice(p, M - R - r, M - R) ELSE <<>>
  <2>1. CASE kind = "c4" /\ w > 0
    <3>1. window(w) = Slice(p, (Q - 1) * r, Q * r)
      BY <1>4, <1>16, <2>1
    <3>2. (Q - 1) * r = Q * r - r /\ 1 * r <= Q * r
      <4>1. (Q - 1) * r = Q * r - r
        BY Z3
      <4>2. 1 <= Q
        BY <1>4, <2>1
      <4> QED BY <4>1, <4>2, TimesLe
    <3>3. M - R - r = (Q - 1) * r /\ M - R = Q * r /\ M >= r
      BY <1>6, <3>2
    <3> HIDE DEF window
    <3> QED BY <2>1, <3>1, <3>3
  <2>2. CASE kind = "c4" /\ ~(w > 0)
    <3>1. w = 0 /\ O = o /\ M - R = o /\ Q = q
      <4>1. w = 0
        BY <2>2
      <4>2. O = o
        BY <1>4, <1>5, <1>6, <4>1
      <4> QED BY <1>4, <1>6, <4>1, <4>2
    <3>2. M >= r <=> q >= 1
      <4>1. q >= 1 => r <= o
        <5>1. q >= 1 => 1 * r <= q * r
          BY TimesLe
        <5> QED BY <1>5, <5>1
      <4>2. q = 0 => o = 0
        BY <1>5
      <4>3. M = o + R /\ R < r
        BY <1>3, <1>6, <3>1
      <4> QED BY ONLY r \in Nat, q \in Nat, o \in Nat, R \in Nat, M \in Nat, <4>1, <4>2, <4>3
    <3> HIDE DEF window
    <3> QED BY <1>9, <1>18, <2>2, <3>1, <3>2
  <2>3. CASE kind = "c128"
    BY <1>9, <2>3
  <2> QED BY <2>1, <2>2, <2>3
<1>23. TrueCarry(kind, p, M) = [buf |-> Slice(p, M - R, M),
          prev |-> IF kind = "c4" /\ M >= r THEN Slice(p, M - R - r, M - R) ELSE <<>>, processed |-> M]
  BY <1>1, <1>3 DEF TrueCarry
<1> HIDE DEF window, before
<1> QED BY <1>15, <1>20, <1>21, <1>22, <1>23 DEF carry, x

-----------------------------------------------------------------------------
(* What the hook's operators do to a request and to its directory, whatever the rows are *)

\* the fields that a request and a directory have
ReqFields == {"id", "of", "stream", "partial", "layers", "calls", "resume", "parent", "seeds", "emitted", "error"}
IsReq(r) == r = [x \in ReqFields |-> r[x]]
DirFields == {"state", "of", "asked", "segs", "files", "man", "kvstate"}
IsDir(d) == d = [x \in DirFields |-> d[x]]

KvFields == {"tail", "snaps", "next", "gaps"}
IsKv(kv) == kv = [x \in KvFields |-> kv[x]]

\* what a request that is being filled satisfies, whatever its rows are
Held(r) ==
  /\ IsReq(r) /\ IsFun(r.layers) /\ DOMAIN r.layers \subseteq Layers
  /\ r.partial \in Nat /\ r.resume \in {0, r.partial} /\ r.calls \in Nat /\ r.emitted \in Nat
  /\ r.stream \in BOOLEAN /\ r.error \in BOOLEAN
  /\ \A li \in DOMAIN r.layers : IsKv(r.layers[li].kv)
  /\ \E n \in Nat : \A li \in DOMAIN r.layers : r.layers[li].kv.next \in 0 .. n

SeedOf(r, li) == IF li \in DOMAIN r.seeds THEN r.seeds[li] ELSE Empty

\* the accumulators with which a layer takes a chunk, the pools that take it, and the layer afterwards
OldPools(r, li, start) == [k \in PoolsOf(li) |-> PoolOf(r, li, k, SeedOf(r, li), start)]
Takes(r, li, start) == {k \in PoolsOf(li) : PoolAccepts(OldPools(r, li, start)[k], start)}
FedLayer(r, li, x, start) ==
  LET takes == Takes(r, li, start)
      old == OldPools(r, li, start)
      had == IF li \in DOMAIN r.layers THEN DOMAIN r.layers[li].pools ELSE {}
      made == IF "main" \in PoolsOf(li) \ takes THEN had \cup {"main"} ELSE PoolsOf(li)
      pool(k) == CASE k \in takes -> PoolFeed(Kind[li], old[k], x, start)
                   [] k \notin takes /\ (k = "main" \/ "main" \in takes) -> PoolRefuses(Kind[li], old[k], x, start)
                   [] OTHER -> old[k]
  IN  [kv |-> KvFeed(KvOf(r, li, SeedOf(r, li)), x, start), pools |-> [k \in made |-> pool(k)]]

One(x, y) == [i \in {x} |-> y]

\* One layer of a chunk changes that layer, its seed and the count of calls; the count only if every pool took it.
LEMMA FedFields ==
  ASSUME NEW r, IsReq(r), NEW li, NEW x, NEW start
  PROVE  LET f == Fed(r, li, x, start)
         IN  /\ IsReq(f)
             /\ f.id = r.id /\ f.of = r.of /\ f.stream = r.stream /\ f.partial = r.partial /\ f.resume = r.resume
             /\ f.parent = r.parent /\ f.emitted = r.emitted /\ f.error = r.error
             /\ f.layers = Updated(r.layers, One(li, FedLayer(r, li, x, start)))
             /\ f.seeds = Without(r.seeds, li)
             /\ f.calls = IF Takes(r, li, start) = PoolsOf(li) THEN r.calls + 1 ELSE r.calls
<1> DEFINE ly == Updated(r.layers, One(li, FedLayer(r, li, x, start)))
           sd == Without(r.seeds, li)
           ca == IF Takes(r, li, start) = PoolsOf(li) THEN r.calls + 1 ELSE r.calls
           f == Fed(r, li, x, start)
<1>1. f = [r EXCEPT !.layers = ly, !.seeds = sd, !.calls = ca]
  BY DEF Fed, FedLayer, Takes, OldPools, SeedOf, One
<1> HIDE DEF ly, sd, ca, f
<1>2. f = [x1 \in DOMAIN f |-> f[x1]] /\ DOMAIN r = ReqFields /\ DOMAIN f = ReqFields
  BY <1>1 DEF IsReq
<1>3. f.layers = ly /\ f.seeds = sd /\ f.calls = ca
  BY <1>1, <1>2 DEF ReqFields
<1>4. /\ f.id = r.id /\ f.of = r.of /\ f.stream = r.stream /\ f.partial = r.partial /\ f.resume = r.resume
      /\ f.parent = r.parent /\ f.emitted = r.emitted /\ f.error = r.error
  BY <1>1, <1>2 DEF ReqFields
<1>5. IsReq(f)
  BY <1>2 DEF IsReq
<1> QED BY <1>3, <1>4, <1>5 DEF ly, sd, ca, f

LEMMA FedLayers ==
  ASSUME NEW r, IsReq(r), NEW li, NEW x, NEW start
  PROVE  LET f == Fed(r, li, x, start)
         IN  /\ IsFun(f.layers) /\ DOMAIN f.layers = DOMAIN r.layers \cup {li} /\ DOMAIN f.layers # {}
             /\ f.layers[li] = FedLayer(r, li, x, start)
             /\ \A l \in DOMAIN r.layers : l # li => f.layers[l] = r.layers[l]
<1> DEFINE y == FedLayer(r, li, x, start)
<1>1. Fed(r, li, x, start).layers = Updated(r.layers, One(li, y))
  BY FedFields
<1> HIDE DEF y
<1>2. IsFun(Updated(r.layers, One(li, y))) /\ DOMAIN Updated(r.layers, One(li, y)) = DOMAIN r.layers \cup {li}
  BY DEF IsFun, Updated, One
<1>3. Updated(r.layers, One(li, y))[li] = y
  BY DEF Updated, One
<1>4. \A l \in DOMAIN r.layers : l # li => Updated(r.layers, One(li, y))[l] = r.layers[l]
  BY DEF Updated, One
<1> QED BY <1>1, <1>2, <1>3, <1>4 DEF y

\* A layer stands where the chunk ends.
LEMMA FedNext ==
  ASSUME NEW r, NEW li, NEW x, NEW start
  PROVE  IsKv(FedLayer(r, li, x, start).kv) /\ FedLayer(r, li, x, start).kv.next = start + Size(x)
BY DEF FedLayer, KvFeed, Size, IsKv, KvFields

LEMMA FedHeld ==
  ASSUME NEW r, Held(r), NEW li \in Layers, NEW x, IsSeq(x), NEW start \in Nat
  PROVE  Held(Fed(r, li, x, start)) /\ DOMAIN Fed(r, li, x, start).layers # {}
<1> DEFINE f == Fed(r, li, x, start)
           y == FedLayer(r, li, x, start)
<1>1. /\ IsReq(f) /\ f.partial = r.partial /\ f.resume = r.resume /\ f.emitted = r.emitted /\ f.error = r.error
      /\ f.stream = r.stream /\ f.calls = IF Takes(r, li, start) = PoolsOf(li) THEN r.calls + 1 ELSE r.calls
  <2>1. IsReq(r)
    BY DEF Held
  <2> QED BY <2>1, FedFields
<1>2. /\ IsFun(f.layers) /\ DOMAIN f.layers = DOMAIN r.layers \cup {li} /\ f.layers[li] = y
      /\ DOMAIN f.layers # {} /\ \A l \in DOMAIN r.layers : l # li => f.layers[l] = r.layers[l]
  BY FedLayers DEF Held
<1>3. IsKv(y.kv) /\ y.kv.next = start + Size(x) /\ Size(x) \in Nat
  BY FedNext, SizeIs
<1> HIDE DEF f, y
<1>4. PICK n \in Nat : \A l \in DOMAIN r.layers : r.layers[l].kv.next \in 0 .. n
  BY DEF Held
<1>5. PICK m \in Nat : m = start + Size(x)
  BY <1>3
<1>6. \A l \in DOMAIN f.layers : f.layers[l].kv.next \in 0 .. n + m
  <2> TAKE l \in DOMAIN f.layers
  <2>1. CASE l = li
    BY <1>2, <1>3, <1>5, <2>1
  <2>2. CASE l # li
    <3>1. f.layers[l].kv.next \in 0 .. n
      BY <1>2, <1>4, <2>2
    <3> QED BY <3>1
  <2> QED BY <2>1, <2>2
<1>7. f.calls \in Nat
  BY <1>1 DEF Held
<1>8. n + m \in Nat
  OBVIOUS
<1>9. \A l \in DOMAIN f.layers : IsKv(f.layers[l].kv)
  BY <1>2, <1>3 DEF Held
<1> QED BY <1>1, <1>2, <1>6, <1>7, <1>8, <1>9 DEF Held, f

SegmentsOf(r, out) == [b \in out |-> Segment(r, b)]
Trimmed(kv, b) == [kv EXCEPT !.snaps = Below(@, b)]

\* Segments: which may go out, and what becomes of the request.
LEMMA EmittedFields ==
  ASSUME NEW r, Held(r), NEW E \in Nat, NEW w
  PROVE  LET e == Emitted(r, E, w)
             out == DOMAIN e.segs
         IN  /\ out \subseteq Boundaries(r.emitted, E) /\ e.segs = SegmentsOf(r, out)
             /\ IsReq(e.req)
             /\ e.req.id = r.id /\ e.req.of = r.of /\ e.req.stream = r.stream /\ e.req.partial = r.partial
             /\ e.req.resume = r.resume /\ e.req.parent = r.parent /\ e.req.seeds = r.seeds /\ e.req.calls = r.calls
             /\ e.req.error = (r.error \/ out # Boundaries(r.emitted, E))
             /\ e.req.emitted \in Nat /\ e.req.emitted >= r.emitted /\ (e.req.emitted = r.emitted \/ e.req.emitted \in out)
             /\ \A b \in out : b <= e.req.emitted
             /\ IsFun(e.req.layers) /\ DOMAIN e.req.layers = DOMAIN r.layers
             /\ \A li \in DOMAIN r.layers : e.req.layers[li].kv = Trimmed(r.layers[li].kv, e.req.emitted)
<1> DEFINE due == Boundaries(r.emitted, E)
           good == {b \in due : \A c \in due : c <= b => Emittable(r, c)}
           out == {b \in good : b <= w}
           written == IF out = {} THEN r.emitted ELSE Max(out)
           taken == IF out = good THEN written ELSE Min(good \ out)
           ly == [li \in DOMAIN r.layers |-> ReleasedLayer(li, r.layers[li], written, taken)]
           q == Emitted(r, E, w).req
<1>1. /\ q = [Released(r, written, taken) EXCEPT !.error = @ \/ out # due]
      /\ Emitted(r, E, w).segs = SegmentsOf(r, out)
  BY DEF Emitted, EmittedUpTo, EmittedOf, Shipped, SegmentsOf
<1>2. q = [[r EXCEPT !.emitted = written, !.layers = ly] EXCEPT !.error = @ \/ out # due]
  BY <1>1 DEF Released
<1>3. out \subseteq due /\ due \subseteq Nat /\ \A b \in out : b <= E /\ r.emitted < b
  BY BoundaryIs DEF Held
<1>4. written \in Nat /\ written >= r.emitted /\ (written = r.emitted \/ written \in out) /\ \A b \in out : b <= written
  <2>1. CASE out = {}
    BY <2>1 DEF Held
  <2>2. CASE out # {}
    <3> HIDE DEF out
    <3>1. out \in SUBSET Nat /\ \A b \in out : b <= E
      BY <1>3
    <3>2. Max(out) \in out /\ \A b \in out : Max(out) >= b
      BY <2>2, <3>1, MaxOf
    <3> QED BY <1>3, <2>2, <3>1, <3>2 DEF Held
  <2> QED BY <2>1, <2>2
<1>5. IsFun(ly) /\ DOMAIN ly = DOMAIN r.layers
      /\ \A li \in DOMAIN r.layers : ly[li].kv = Trimmed(r.layers[li].kv, written)
  BY DEF IsFun, Trimmed, ReleasedLayer
<1> HIDE DEF written, taken, ly, out, q
<1>6. q = [x \in DOMAIN q |-> q[x]] /\ DOMAIN r = ReqFields /\ DOMAIN q = ReqFields
  BY <1>2 DEF Held, IsReq
<1>7. q.emitted = written /\ q.layers = ly
  BY <1>2, <1>6 DEF ReqFields
<1>8. q.error = (r.error \/ out # due)
  BY <1>2, <1>6 DEF ReqFields
<1>9. /\ q.id = r.id /\ q.of = r.of /\ q.stream = r.stream /\ q.partial = r.partial
      /\ q.resume = r.resume /\ q.parent = r.parent /\ q.seeds = r.seeds /\ q.calls = r.calls
  BY <1>2, <1>6 DEF ReqFields
<1>10. IsReq(q)
  BY <1>6 DEF IsReq
<1>11. DOMAIN Emitted(r, E, w).segs = out /\ Emitted(r, E, w).segs = SegmentsOf(r, out)
  BY <1>1 DEF SegmentsOf
<1> QED BY <1>3, <1>4, <1>5, <1>7, <1>8, <1>9, <1>10, <1>11 DEF q

LEMMA TrimmedIs ==
  ASSUME NEW kv, IsKv(kv), NEW b
  PROVE  LET t == Trimmed(kv, b)
         IN  IsKv(t) /\ t.next = kv.next /\ t.gaps = kv.gaps /\ t.tail = kv.tail /\ t.snaps = Below(kv.snaps, b)
<1>1. DOMAIN kv = KvFields
  BY DEF IsKv
<1> QED BY <1>1 DEF Trimmed, IsKv, KvFields

LEMMA EmittedHeld ==
  ASSUME NEW r, Held(r), NEW E \in Nat, NEW w
  PROVE  Held(Emitted(r, E, w).req)
<1> DEFINE q == Emitted(r, E, w).req
<1>1. /\ IsReq(q) /\ q.partial = r.partial /\ q.resume = r.resume /\ q.calls = r.calls /\ q.stream = r.stream
      /\ q.error = (r.error \/ DOMAIN Emitted(r, E, w).segs # Boundaries(r.emitted, E))
      /\ q.emitted \in Nat /\ IsFun(q.layers) /\ DOMAIN q.layers = DOMAIN r.layers
  BY EmittedFields
<1>2. \A li \in DOMAIN r.layers : q.layers[li].kv = Trimmed(r.layers[li].kv, q.emitted)
  BY EmittedFields
<1> HIDE DEF q
<1>3. \A li \in DOMAIN r.layers : q.layers[li].kv.next = r.layers[li].kv.next /\ IsKv(q.layers[li].kv)
  <2> TAKE li \in DOMAIN r.layers
  <2>1. IsKv(r.layers[li].kv)
    BY DEF Held
  <2> QED BY <1>2, <2>1, TrimmedIs
<1> QED BY <1>1, <1>3 DEF Held, q

\* The layers stand between two positions that some of them reach.
LEMMA ReachIs ==
  ASSUME NEW r, Held(r), DOMAIN r.layers # {}
  PROVE  /\ Max(Reach(r)) \in Reach(r) /\ Min(Reach(r)) \in Reach(r)
         /\ Max(Reach(r)) \in Nat /\ Min(Reach(r)) \in Nat
         /\ \A li \in DOMAIN r.layers : r.layers[li].kv.next \in Min(Reach(r)) .. Max(Reach(r))
<1>1. PICK n \in Nat : \A li \in DOMAIN r.layers : r.layers[li].kv.next \in 0 .. n
  BY DEF Held
<1> DEFINE S == {r.layers[li].kv.next : li \in DOMAIN r.layers}
<1>2. S \in SUBSET Nat /\ S # {} /\ \A x \in S : x <= n
  <2>1. \A x \in S : x \in 0 .. n
    BY <1>1
  <2>2. S # {}
    OBVIOUS
  <2> HIDE DEF S
  <2>3. \A x \in S : x \in Nat /\ x <= n
    BY <2>1
  <2> QED BY <2>2, <2>3
<1>3. Reach(r) = S /\ \A li \in DOMAIN r.layers : r.layers[li].kv.next \in S
  BY DEF Reach
<1> HIDE DEF S
<1>4. Max(S) \in S /\ (\A x \in S : Max(S) >= x) /\ Min(S) \in S /\ (\A x \in S : Min(S) <= x)
  BY <1>2, MaxOf, MinOf
<1>5. \A x \in S : x \in Min(S) .. Max(S) /\ x \in Nat
  BY <1>2, <1>4
<1> QED BY <1>3, <1>4, <1>5

\* The last segments of a request, and its directory when it is closed.
Streams(r) == r.stream /\ r.partial = 0
LastOut(r) ==
  IF Streams(r) /\ ~r.error THEN Emitted(r, Min(Reach(r)), Max(Reach(r))) ELSE [req |-> r, segs |-> Empty]

LEMMA FinishedIs ==
  ASSUME NEW r, Held(r), DOMAIN r.layers # {}, NEW d
  PROVE  LET T == Max(Reach(r))
             last == LastOut(r)
         IN  Finished(r, d) = IF T < MinT THEN [d EXCEPT ![r.id].state = "gone", ![r.id].segs = Empty]
                              ELSE [d EXCEPT ![r.id] = Published(@, last.req, last.segs, T, Streams(r))]
<1>1. Max(Reach(r)) \in Nat /\ MinT \in Nat
  BY ReachIs, RowHookAssumption
<1>2. CASE Max(Reach(r)) < MinT
  BY <1>1, <1>2 DEF Finished
<1>3. CASE ~(Max(Reach(r)) < MinT) /\ Streams(r) /\ ~r.error
  BY <1>1, <1>3 DEF Finished, Streams, LastOut
<1>4. CASE ~(Max(Reach(r)) < MinT) /\ ~(Streams(r) /\ ~r.error)
  BY <1>1, <1>4 DEF Finished, Streams, LastOut
<1> QED BY <1>2, <1>3, <1>4

LEMMA LastHeld ==
  ASSUME NEW r, Held(r), DOMAIN r.layers # {}
  PROVE  /\ Held(LastOut(r).req) /\ LastOut(r).req.id = r.id
         /\ \A b \in DOMAIN LastOut(r).segs : b \in Nat /\ b > 0 /\ b % Block = 0
<1>1. CASE Streams(r) /\ ~r.error
  <2>1. LastOut(r) = Emitted(r, Min(Reach(r)), Max(Reach(r))) /\ Min(Reach(r)) \in Nat
    BY <1>1, ReachIs DEF LastOut
  <2>2. DOMAIN LastOut(r).segs \subseteq Boundaries(r.emitted, Min(Reach(r))) /\ LastOut(r).req.id = r.id
    BY <2>1, EmittedFields
  <2>3. Held(LastOut(r).req)
    BY <2>1, EmittedHeld
  <2> QED BY <2>1, <2>2, <2>3, BoundaryIs DEF Held
<1>2. CASE ~(Streams(r) /\ ~r.error)
  BY <1>2 DEF LastOut, Empty
<1> QED BY <1>1, <1>2

-----------------------------------------------------------------------------
(* Directories that are written, removed and made *)

FilesOf(e, T, streamed) == [li \in DOMAIN e.layers |-> LayerFile(e.layers[li], li, T, streamed)]

LEMMA PublishedIs ==
  ASSUME NEW dir, IsDir(dir), NEW e, NEW segs, NEW T, NEW streamed
  PROVE  LET p == Published(dir, e, segs, T, streamed)
         IN  /\ IsDir(p) /\ p.state = "done" /\ p.of = dir.of /\ p.asked = dir.asked /\ p.segs = Updated(dir.segs, segs)
             /\ p.files = FilesOf(e, T, streamed) /\ p.man = Manifest(e, T, streamed) /\ p.kvstate = EndState(e, T)
<1> DEFINE p == Published(dir, e, segs, T, streamed)
           fi == FilesOf(e, T, streamed)
           ma == Manifest(e, T, streamed)
           kv == EndState(e, T)
<1>1. p = [dir EXCEPT !.state = "done", !.segs = Updated(@, segs), !.files = fi, !.man = ma, !.kvstate = kv]
  BY DEF Published, FilesOf
<1> HIDE DEF p, fi, ma, kv
<1>2. p = [x \in DOMAIN p |-> p[x]] /\ DOMAIN dir = DirFields /\ DOMAIN p = DirFields
  BY <1>1 DEF IsDir
<1>3. p.state = "done" /\ p.of = dir.of /\ p.asked = dir.asked /\ p.segs = Updated(dir.segs, segs)
  BY <1>1, <1>2 DEF DirFields
<1>4. p.files = fi /\ p.man = ma /\ p.kvstate = kv
  BY <1>1, <1>2 DEF DirFields
<1>5. IsDir(p)
  BY <1>2 DEF IsDir
<1> QED BY <1>3, <1>4, <1>5 DEF p, fi, ma, kv

\* A request that is closed leaves its directory removed or written; the others stay.
LEMMA FinishedDirs ==
  ASSUME NEW r, Held(r), DOMAIN r.layers # {}, NEW d, IsSeq(d), r.id \in DOMAIN d, IsDir(d[r.id])
  PROVE  LET f == Finished(r, d)
         IN  /\ IsSeq(f) /\ Size(f) = Size(d) /\ DOMAIN f = DOMAIN d
             /\ \A i \in DOMAIN d : i # r.id => f[i] = d[i]
             /\ IsDir(f[r.id]) /\ f[r.id].of = d[r.id].of /\ f[r.id].state \in {"gone", "done"}
             /\ f[r.id].state = "gone" => f[r.id].segs = Empty
             /\ f[r.id].state = "done" =>
                  f[r.id] = Published(d[r.id], LastOut(r).req, LastOut(r).segs, Max(Reach(r)), Streams(r))
<1> DEFINE f == Finished(r, d)
           p == Published(d[r.id], LastOut(r).req, LastOut(r).segs, Max(Reach(r)), Streams(r))
           g == [d[r.id] EXCEPT !.state = "gone", !.segs = Empty]
<1>1. Size(d) \in Nat /\ DOMAIN d = 1 .. Size(d)
  BY SizeIs
<1>2. IsDir(p) /\ p.state = "done" /\ p.of = d[r.id].of
  BY PublishedIs
<1>3. IsDir(g) /\ g.state = "gone" /\ g.of = d[r.id].of /\ g.segs = Empty
  <2>1. DOMAIN d[r.id] = DirFields
    BY DEF IsDir
  <2> QED BY <2>1 DEF IsDir, DirFields
<1>4. f = [d EXCEPT ![r.id] = p] \/ f = [d EXCEPT ![r.id] = g]
  <2>1. CASE Max(Reach(r)) < MinT
    <3>1. f = [d EXCEPT ![r.id].state = "gone", ![r.id].segs = Empty]
      BY <2>1, FinishedIs
    <3>2. [d EXCEPT ![r.id].state = "gone", ![r.id].segs = Empty] = [d EXCEPT ![r.id] = g]
      OBVIOUS
    <3> QED BY <3>1, <3>2
  <2>2. CASE ~(Max(Reach(r)) < MinT)
    BY <2>2, FinishedIs
  <2> QED BY <2>1, <2>2
<1> HIDE DEF f, p, g
<1>5. f = [i \in 1 .. Size(d) |-> f[i]] /\ DOMAIN f = DOMAIN d
  BY <1>1, <1>4
<1>6. IsSeq(f) /\ Size(f) = Size(d)
  BY <1>1, <1>5, TableIs
<1>7. \A i \in DOMAIN d : i # r.id => f[i] = d[i]
  BY <1>4
<1>8. f[r.id] = p \/ f[r.id] = g
  BY <1>4
<1> QED BY <1>2, <1>3, <1>5, <1>6, <1>7, <1>8 DEF f, p

\* a directory that has been removed
IsGone(x, was) ==
  IsDir(x) /\ x.state = "gone" /\ x.of = was.of /\ x.asked = was.asked /\ x.segs = Empty /\ x.files = Empty
    /\ x.man = None /\ x.kvstate = None

\* Pruning removes directories and changes nothing else; the newest one stays.
LEMMA PrunedDirs ==
  ASSUME NEW d, IsSeq(d), \A i \in DOMAIN d : IsDir(d[i])
  PROVE  /\ IsSeq(Pruned(d)) /\ Size(Pruned(d)) = Size(d) /\ DOMAIN Pruned(d) = DOMAIN d
         /\ \A i \in DOMAIN d : Pruned(d)[i] = d[i] \/ IsGone(Pruned(d)[i], d[i])
         /\ \A i \in DOMAIN d : i = Size(d) => Pruned(d)[i] = d[i]
<1> DEFINE there == {i \in DOMAIN d : d[i].state # "gone"}
           doomed == {i \in there : Cardinality({j \in there : j > i}) >= KeepCaptures}
           gone(i) == [d[i] EXCEPT !.state = "gone", !.segs = Empty, !.files = Empty, !.man = None, !.kvstate = None]
           f == Pruned(d)
<1>1. f = [i \in DOMAIN d |-> IF i \in doomed THEN gone(i) ELSE d[i]]
  BY DEF Pruned, KeepNewest
<1>2. Size(d) \in Nat /\ DOMAIN d = 1 .. Size(d)
  BY SizeIs
<1>3. \A i \in DOMAIN d : IsGone(gone(i), d[i])
  <2> TAKE i \in DOMAIN d
  <2>1. DOMAIN d[i] = DirFields
    BY DEF IsDir
  <2>2. PICK g : g = gone(i)
    OBVIOUS
  <2>3. g = [x \in DirFields |-> g[x]]
    BY <2>1, <2>2
  <2>4. g.state = "gone" /\ g.segs = Empty /\ g.files = Empty /\ g.man = None /\ g.kvstate = None
    BY <2>1, <2>2 DEF DirFields
  <2>5. g.of = d[i].of /\ g.asked = d[i].asked
    BY <2>1, <2>2 DEF DirFields
  <2> QED BY <2>2, <2>3, <2>4, <2>5 DEF IsGone, IsDir
<1>4. \A i \in DOMAIN d : i = Size(d) => i \notin doomed
  <2> SUFFICES ASSUME NEW i \in DOMAIN d, i = Size(d) PROVE ~(Cardinality({j \in there : j > i}) >= KeepCaptures)
    OBVIOUS
  <2>1. {j \in there : j > i} = {}
    BY <1>2
  <2>2. Cardinality({}) = 0
    BY FS_EmptySet
  <2> QED BY <2>1, <2>2, RowHookAssumption
<1> HIDE DEF f, gone, doomed
<1>5. f = [i \in 1 .. Size(d) |-> f[i]]
  BY <1>1, <1>2
<1>6. IsSeq(f) /\ Size(f) = Size(d) /\ DOMAIN f = DOMAIN d
  BY <1>1, <1>2, <1>5, TableIs
<1>7. \A i \in DOMAIN d : f[i] = d[i] \/ IsGone(f[i], d[i])
  BY <1>1, <1>3
<1>8. \A i \in DOMAIN d : i = Size(d) => f[i] = d[i]
  BY <1>1, <1>4
<1> QED BY <1>6, <1>7, <1>8 DEF f

Push(d, x) == Append(d, x)

LEMMA PushIs ==
  ASSUME NEW d, IsSeq(d), NEW x
  PROVE  /\ IsSeq(Push(d, x)) /\ Size(Push(d, x)) = Size(d) + 1
         /\ \A i \in DOMAIN d : Push(d, x)[i] = d[i]
         /\ Push(d, x)[Size(d) + 1] = x
<1> DEFINE S == {d[i] : i \in 1 .. Len(d)} \cup {x}
<1>1. (\A i \in 1 .. Len(d) : d[i] \in S) /\ x \in S
  OBVIOUS
<1> HIDE DEF S
<1>2. d \in Seq(S)
  BY <1>1, SeqIn
<1>3. Append(d, x) \in Seq(S)
  BY <1>1, <1>2
<1>4. Len(Append(d, x)) = Len(d) + 1 /\ Append(d, x)[Len(d) + 1] = x
      /\ \A i \in 1 .. Len(d) : Append(d, x)[i] = d[i]
  BY <1>1, <1>2, AppendProperties
<1>5. DOMAIN d = 1 .. Len(d)
  BY <1>2
<1>6. IsSeq(Append(d, x))
  BY ONLY <1>3, SeqIs
<1> QED BY <1>4, <1>5, <1>6 DEF Size, Push

\* A request that opens: its directory is the newest, and older ones may go.
LEMMA EntersDirs ==
  ASSUME NEW d, IsSeq(d), \A i \in DOMAIN d : IsDir(d[i]), NEW r, r.id = Size(d) + 1
  PROVE  LET e == Enters(r, d)
         IN  /\ e.req = r /\ IsSeq(e.disk) /\ Size(e.disk) = Size(d) + 1 /\ DOMAIN e.disk = DOMAIN d \cup {r.id}
             /\ r.id \notin DOMAIN d
             /\ \A i \in DOMAIN d : e.disk[i] = d[i] \/ IsGone(e.disk[i], d[i])
             /\ e.disk[r.id] = NewDir(r)
<1> DEFINE a == Push(d, NewDir(r))
<1>1. IsDir(NewDir(r))
  BY DEF NewDir, IsDir, DirFields
<1>2. IsSeq(a) /\ Size(a) = Size(d) + 1 /\ (\A i \in DOMAIN d : a[i] = d[i]) /\ a[Size(d) + 1] = NewDir(r)
  BY PushIs
<1>3. Size(d) \in Nat /\ DOMAIN d = 1 .. Size(d)
  BY SizeIs
<1> HIDE DEF a
<1>4. DOMAIN a = 1 .. Size(d) + 1
  BY <1>2, SizeIs
<1>5. DOMAIN a = DOMAIN d \cup {r.id} /\ r.id \notin DOMAIN d /\ r.id = Size(d) + 1
  BY <1>3, <1>4
<1>6. \A i \in DOMAIN a : IsDir(a[i])
  BY <1>1, <1>2, <1>5
<1>7. /\ IsSeq(Pruned(a)) /\ Size(Pruned(a)) = Size(a) /\ DOMAIN Pruned(a) = DOMAIN a
      /\ \A i \in DOMAIN a : Pruned(a)[i] = a[i] \/ IsGone(Pruned(a)[i], a[i])
      /\ \A i \in DOMAIN a : i = Size(a) => Pruned(a)[i] = a[i]
  BY <1>2, <1>6, PrunedDirs
<1>8. Enters(r, d) = [req |-> r, disk |-> Pruned(a)]
  BY DEF Enters, Push, a
<1>9. Pruned(a)[r.id] = NewDir(r)
  BY <1>2, <1>5, <1>7
<1>10. \A i \in DOMAIN d : Pruned(a)[i] = d[i] \/ IsGone(Pruned(a)[i], d[i])
  BY <1>2, <1>5, <1>7
<1> QED BY <1>2, <1>5, <1>7, <1>8, <1>9, <1>10

\* A new request: fresh, or continued from a saved state that covers its start.
LEMMA NewReqIs ==
  \A id, of, d, cp : \A start \in Nat :
         LET r == NewReq(id, of, start, d, cp)
             s == Newest(Covering(d, cp, start))
         IN  /\ Held(r) /\ r.id = id /\ r.of = of /\ r.partial = start /\ r.layers = Empty /\ r.calls = 0
             /\ r.emitted = 0 /\ r.error = FALSE
             /\ \/ r.resume = 0 /\ r.parent = None /\ r.seeds = Empty
                \/ /\ start # 0 /\ Covering(d, cp, start) # {} /\ r.resume = start /\ r.parent = s.stamp
                   /\ DOMAIN r.seeds = DOMAIN s.rows
                   /\ \A li \in DOMAIN s.rows : r.seeds[li] = Cut(s.rows[li], s.T - start)
<1> TAKE id, of, d, cp
<1> TAKE start \in Nat
<1> DEFINE b == [id |-> id, of |-> of, stream |-> StreamsNext, partial |-> start, layers |-> Empty, calls |-> 0,
                 resume |-> 0, parent |-> None, seeds |-> Empty, emitted |-> 0, error |-> FALSE]
           s == Newest(Covering(d, cp, start))
           sd == [li \in DOMAIN s.rows |-> Cut(s.rows[li], s.T - start)]
           r == NewReq(id, of, start, d, cp)
<1>1. StreamsNext \in BOOLEAN
  BY DEF StreamsNext
<1>2. IsReq(b) /\ DOMAIN b = ReqFields
  BY DEF IsReq, ReqFields
<1>3. IsFun(Empty) /\ DOMAIN Empty = {}
  BY DEF IsFun, Empty
<1>7. \A q : IsReq(q) /\ q.layers = Empty /\ q.partial \in Nat /\ q.resume \in {0, q.partial} /\ q.calls = 0 /\ q.emitted = 0
              /\ q.stream \in BOOLEAN /\ q.error = FALSE => Held(q)
  <2> SUFFICES ASSUME NEW q, IsReq(q), q.layers = Empty, q.partial \in Nat, q.resume \in {0, q.partial}, q.calls = 0,
                      q.emitted = 0, q.stream \in BOOLEAN, q.error = FALSE
               PROVE  Held(q)
    OBVIOUS
  <2>1. \A li \in DOMAIN q.layers : IsKv(q.layers[li].kv) /\ q.layers[li].kv.next \in 0 .. 0
    BY <1>3
  <2>2. 0 \in Nat /\ DOMAIN q.layers \subseteq Layers /\ IsFun(q.layers)
    BY <1>3
  <2>3. \E n \in Nat : \A li \in DOMAIN q.layers : q.layers[li].kv.next \in 0 .. n
    BY <2>1, <2>2
  <2> QED BY <2>1, <2>2, <2>3 DEF Held
<1>4. r = b \/ (start # 0 /\ Covering(d, cp, start) # {} /\ r = [b EXCEPT !.resume = start, !.parent = s.stamp, !.seeds = sd])
  BY DEF NewReq, Resumed
<1>5. CASE r = b
  <2>1. /\ IsReq(r) /\ r.id = id /\ r.of = of /\ r.partial = start /\ r.layers = Empty /\ r.calls = 0
        /\ r.emitted = 0 /\ r.error = FALSE /\ r.stream = StreamsNext /\ r.resume = 0 /\ r.parent = None /\ r.seeds = Empty
    BY <1>2, <1>5
  <2> HIDE DEF r
  <2>2. r.stream \in BOOLEAN /\ r.partial \in Nat /\ r.resume \in {0, r.partial}
    BY <1>1, <2>1
  <2>3. Held(r)
    BY <1>7, <2>1, <2>2
  <2> QED BY <2>1, <2>3 DEF r
<1>6. CASE start # 0 /\ Covering(d, cp, start) # {} /\ r = [b EXCEPT !.resume = start, !.parent = s.stamp, !.seeds = sd]
  <2>0. /\ b.id = id /\ b.of = of /\ b.partial = start /\ b.layers = Empty /\ b.calls = 0
        /\ b.emitted = 0 /\ b.error = FALSE /\ b.stream = StreamsNext
    OBVIOUS
  <2> HIDE DEF r, b, s, sd
  <2>1. r = [x \in DOMAIN r |-> r[x]] /\ DOMAIN r = ReqFields
    BY <1>2, <1>6
  <2>2. /\ r.id = id /\ r.of = of /\ r.partial = start /\ r.layers = Empty /\ r.calls = 0
        /\ r.emitted = 0 /\ r.error = FALSE /\ r.stream = StreamsNext
    BY <1>2, <1>6, <2>0 DEF ReqFields
  <2>3. r.resume = start /\ r.parent = s.stamp /\ r.seeds = sd
    BY <1>2, <1>6 DEF ReqFields
  <2>4. Held(r)
    BY <1>1, <1>7, <2>1, <2>2, <2>3 DEF IsReq
  <2> QED BY <1>6, <2>2, <2>3, <2>4 DEF r, sd, s
<1> HIDE DEF r, b, s
<1> QED BY <1>4, <1>5, <1>6 DEF r, s

-----------------------------------------------------------------------------
(* A chunk fed to a pool *)

LEMMA PoolFeedIs ==
  ASSUME NEW kind, NEW st, NEW x, NEW start
  PROVE  LET full == Join(st.tail, x)
             base == start - Size(st.tail)
             stop == start + Size(x)
             new == PoolLayer(kind, st.carry, x, start)
             bounds == IF kind = "c4" THEN {b \in Boundaries(start, stop) : b - R4 >= base} ELSE {}
         IN  PoolFeed(kind, st, x, start) =
               [tail |-> LastRows(full, TailRaw + Keep),
                prev |-> Updated(st.prev, [b \in bounds |-> Slice(full, b - R4 - base, b - base)]),
                pooled |-> Join(st.pooled, new.rows), shipped |-> st.shipped, carry |-> new.carry, next |-> stop]
BY DEF PoolFeed, Join, Size

\* The pooled rows of two adjacent ranges.
LEMMA PooledJoin ==
  ASSUME NEW kind, NEW p, NEW from \in Nat, NEW N \in Nat, NEW M \in Nat, from <= N, N <= M
  PROVE  Join(PooledFrom(kind, p, from, N), PooledFrom(kind, p, N, M)) = PooledFrom(kind, p, from, M)
<1>1. PICK r \in Nat : r = Ratio(kind) /\ r >= 1
  BY RatioIs
<1>2. PICK a \in Nat, b \in Nat, c \in Nat : a = from \div r /\ b = N \div r /\ c = M \div r
  BY <1>1, DivMod
<1>3. a <= b /\ b <= c
  BY <1>1, <1>2, DivLe
<1>4. PooledFrom(kind, p, from, N) = Slice(TruePooled(kind, p, b), a, b) /\ PooledFrom(kind, p, N, M) = Slice(TruePooled(kind, p, c), b, c)
      /\ PooledFrom(kind, p, from, M) = Slice(TruePooled(kind, p, c), a, c)
  BY <1>1, <1>2 DEF PooledFrom
<1>5. Slice(TruePooled(kind, p, b), a, b) = Slice(TruePooled(kind, p, c), a, b)
  BY <1>3, PooledSlice
<1>6. IsSeq(TruePooled(kind, p, c)) /\ Size(TruePooled(kind, p, c)) = c
  BY PooledIs
<1>7. Join(Slice(TruePooled(kind, p, c), a, b), Slice(TruePooled(kind, p, c), b, c)) = Slice(TruePooled(kind, p, c), a, c)
  BY <1>3, <1>6, SliceJoin
<1> QED BY <1>4, <1>5, <1>7

\* A boundary is at least a window of the overlapping compressor from the start of the prompt.
LEMMA BlockRoom ==
  \A b \in Nat : 0 < b /\ b % Block = 0 => R4 <= b
<1> TAKE b \in Nat
<1>1. HAVE 0 < b /\ b % Block = 0
<1>2. PICK r \in Nat : r = R4 /\ r >= 1
  BY Sizes
<1>3. b = (b \div r) * r
  <2>1. Ratio("c4") = r
    BY <1>2 DEF Ratio
  <2> QED BY <1>1, <2>1, BlockRatio
<1>4. PICK q \in Nat : q = b \div r
  BY <1>1, <1>2, DivMod
<1>5. q >= 1
  <2>1. q = 0 => b = 0 * r
    BY <1>3, <1>4
  <2>2. 0 * r = 0
    BY Z3
  <2> QED BY <1>1, <2>1, <2>2
<1>6. 1 * r <= q * r
  BY <1>5, TimesLe
<1> QED BY <1>2, <1>3, <1>4, <1>6

\* The boundaries in a chunk all have the window before them in the tail: a boundary is at least R4 rows from the start
\* of the prompt, and the tail holds 2 * R4 - 1 rows.
LEMMA BoundaryRoom ==
  ASSUME NEW T \in Nat, NEW from \in Nat, NEW N \in Nat, NEW M \in Nat, T <= from + Keep, from <= N, NEW b \in Boundaries(N, M)
  PROVE  Lo(N, T, TailRaw + Keep) + R4 <= b
<1>1. b \in Nat /\ N < b /\ b % Block = 0
  BY BoundaryIs
<1>2. b >= R4
  BY <1>1, BlockRoom
<1>3. PICK w \in Nat : w = TailRaw + Keep /\ w >= R4 - 1 + Keep /\ w >= 2 * R4 - 1 + Keep
  BY Sizes
<1>4. T <= N + Keep /\ Keep \in Nat /\ R4 \in Nat /\ R4 >= 1
  BY Sizes
<1>5. Lo(N, T, w) = 0 \/ Lo(N, T, w) + w = N \/ Lo(N, T, w) + w = T
  BY <1>3, <1>4 DEF Lo
<1>6. Lo(N, T, w) \in Nat
  <2>1. T <= N + w
    BY <1>3, <1>4
  <2> QED BY <2>1, LoIs
<1> QED BY <1>1, <1>2, <1>3, <1>4, <1>5, <1>6

LEMMA FeedPool ==
  ASSUME NEW kind \in {"c4", "c128"}, NEW p, IsSeq(p), NEW from \in Nat, NEW sh, NEW T \in Nat, NEW N \in Nat, NEW M \in Nat,
         T <= from + Keep, from <= N, N <= M, M <= Size(p)
  PROVE  PoolFeed(kind, TruePool(kind, p, from, sh, T, N), Slice(p, N, M), N) = TruePool(kind, p, from, sh, T, M)
<1> DEFINE st == TruePool(kind, p, from, sh, T, N)
           w == TailRaw + Keep
           lo == Lo(N, T, w)
           x == Slice(p, N, M)
           full == Join(Slice(p, lo, N), x)
           had == IF kind = "c4" THEN Boundaries(from, N) ELSE {}
           bounds == IF kind = "c4" THEN {b \in Boundaries(N, M) : b - R4 >= lo} ELSE {}
           all == IF kind = "c4" THEN Boundaries(from, M) ELSE {}
           new == [b \in bounds |-> Slice(full, b - R4 - lo, b - lo)]
           prev == [b \in all |-> TruePrev(kind, p, b)]
<1>1. /\ st.tail = Slice(p, lo, N) /\ st.prev = [b \in had |-> TruePrev(kind, p, b)]
      /\ st.pooled = PooledFrom(kind, p, from, N) /\ st.carry = TrueCarry(kind, p, N) /\ st.shipped = sh \div Ratio(kind)
  BY DEF TruePool
<1>2. w \in Nat /\ T <= N + w /\ R4 \in Nat /\ R4 >= 1
  BY Sizes
<1>3. lo \in Nat /\ lo <= N
  BY <1>2, LoIs
<1>4. Size(Slice(p, lo, N)) = N - lo /\ Size(x) = M - N /\ N <= Size(p)
  <2>1. N <= Size(p)
    BY SizeIs
  <2> QED BY <1>3, <2>1, SliceIs
<1>5. LastRows(full, w) = Slice(p, Lo(M, T, w), M)
  BY <1>2, FeedTail
<1> HIDE DEF st, w
<1>6. ASSUME NEW b \in Boundaries(N, M) PROVE b - R4 >= lo /\ Slice(full, b - R4 - lo, b - lo) = Slice(p, b - R4, b)
  <2>1. b \in Nat /\ N < b /\ b <= M
    BY BoundaryIs
  <2>2. lo + R4 <= b
    BY BoundaryRoom DEF w
  <2>3. PICK a \in Nat : a = b - R4 /\ lo <= a /\ a <= b
    BY <1>2, <1>3, <2>1, <2>2
  <2>4. Slice(full, a - lo, b - lo) = Slice(p, a, b)
    BY <1>2, <2>1, <2>3, CutTail
  <2> QED BY <2>3, <2>4
<1>7. Updated(st.prev, new) = prev
  <2>1. DOMAIN prev = DOMAIN st.prev \cup DOMAIN new
    BY <1>1, <1>6, BoundaryIs
  <2>2. \A b \in DOMAIN new : prev[b] = new[b]
    <3> TAKE b \in DOMAIN new
    <3>1. kind = "c4" /\ b \in Boundaries(N, M)
      OBVIOUS
    <3>2. new[b] = TruePrev(kind, p, b)
      BY <1>6, <3>1 DEF TruePrev
    <3>3. b \in Boundaries(from, M)
      BY <3>1, BoundaryIs
    <3> QED BY <3>1, <3>2, <3>3
  <2>3. \A b \in DOMAIN st.prev : b \notin DOMAIN new => prev[b] = st.prev[b]
    BY <1>1, BoundaryIs
  <2>4. IsFun(prev)
    BY DEF IsFun
  <2>5. \A b \in DOMAIN new : prev[b] = new[b]
    BY <2>2
  <2> HIDE DEF prev, new, all, bounds, had
  <2>6. PICK f, g, h : f = st.prev /\ g = new /\ h = prev
    OBVIOUS
  <2>7. /\ IsFun(h) /\ DOMAIN h = DOMAIN f \cup DOMAIN g
        /\ \A b \in DOMAIN g : h[b] = g[b]
        /\ \A b \in DOMAIN f : b \notin DOMAIN g => h[b] = f[b]
    BY ONLY <2>1, <2>3, <2>4, <2>5, <2>6
  <2>8. Updated(f, g) = h
    BY ONLY <2>7, UpdatedIs
  <2> QED BY <2>6, <2>8
<1>8. PoolLayer(kind, TrueCarry(kind, p, N), x, N) = [rows |-> PooledFrom(kind, p, N, M), carry |-> TrueCarry(kind, p, M)]
  BY LayerRows
<1>9. Join(PooledFrom(kind, p, from, N), PooledFrom(kind, p, N, M)) = PooledFrom(kind, p, from, M)
  BY PooledJoin
<1>10. PoolFeed(kind, st, x, N) =
         [tail |-> LastRows(full, w), prev |-> Updated(st.prev, new), pooled |-> PooledFrom(kind, p, from, M),
          shipped |-> sh \div Ratio(kind), carry |-> TrueCarry(kind, p, M), next |-> M]
  <2>1. N - Size(st.tail) = lo /\ N + Size(x) = M
    BY <1>1, <1>3, <1>4
  <2> HIDE DEF x, lo
  <2>2. PoolFeed(kind, st, x, N) =
          [tail |-> LastRows(full, w), prev |-> Updated(st.prev, new),
           pooled |-> Join(st.pooled, PoolLayer(kind, st.carry, x, N).rows), shipped |-> st.shipped,
           carry |-> PoolLayer(kind, st.carry, x, N).carry, next |-> M]
    BY <1>1, <2>1, PoolFeedIs DEF w
  <2> HIDE DEF new, full
  <2> QED BY <1>1, <1>8, <1>9, <2>2
<1> HIDE DEF new, full, lo
<1> QED BY <1>5, <1>7, <1>10 DEF TruePool, st, w, x

\* A pool that stands at N takes a chunk that starts there.
LEMMA TrueAccepts ==
  ASSUME NEW kind, NEW p, NEW from, NEW sh, NEW T, NEW N
  PROVE  PoolAccepts(TruePool(kind, p, from, sh, T, N), N)
BY DEF TruePool, TrueCarry, PoolAccepts

\* A layer that has seen nothing.
LEMMA NewIsTrue ==
  ASSUME NEW p, IsSeq(p), NEW kind \in {"c4", "c128"}
  PROVE  NewKv = TrueKv(p, 0, 0, 0) /\ NewPool = TruePool(kind, p, 0, 0, 0, 0)
<1>1. Slice(p, 0, 0) = <<>> /\ Size(p) \in Nat
  BY SliceEnds, SizeIs
<1>2. Boundaries(0, 0) = {}
  BY BoundaryIs
<1>3. Lo(0, 0, Win + Keep) = 0 /\ Lo(0, 0, TailRaw + Keep) = 0
  BY Sizes DEF Lo
<1>4. [b \in {} |-> TrueWindow(p, b)] = Empty /\ [b \in {} |-> TruePrev(kind, p, b)] = Empty
  BY DEF Empty
<1>5. PICK r \in Nat : r = Ratio(kind) /\ r >= 1
  BY RatioIs
<1>6. 0 \div r = 0 /\ 0 % r = 0
  <2>1. 0 = 0 * r + 0
    BY Z3
  <2> QED BY <1>5, <2>1, DivOnly
<1>7. PooledFrom(kind, p, 0, 0) = <<>>
  <2>1. PooledFrom(kind, p, 0, 0) = Slice(TruePooled(kind, p, 0), 0, 0)
    BY <1>5, <1>6 DEF PooledFrom
  <2>2. IsSeq(TruePooled(kind, p, 0)) /\ Size(TruePooled(kind, p, 0)) = 0
    BY PooledIs
  <2> QED BY <2>1, <2>2, SliceEnds
<1>8. TrueCarry(kind, p, 0) = NewCarry
  <2>1. TrueCarry(kind, p, 0) = [buf |-> Slice(p, 0 - 0, 0), prev |-> IF kind = "c4" /\ 0 >= r THEN Slice(p, 0 - 0 - r, 0 - 0) ELSE <<>>,
           processed |-> 0]
    BY <1>5, <1>6 DEF TrueCarry
  <2> QED BY <1>1, <1>5, <2>1 DEF NewCarry
<1>9. NewKv = TrueKv(p, 0, 0, 0)
  BY <1>1, <1>2, <1>3, <1>4 DEF NewKv, TrueKv
<1>10. NewPool = TruePool(kind, p, 0, 0, 0, 0)
  <2>1. 0 \div Ratio(kind) = 0
    BY <1>5, <1>6
  <2>2. [b \in (IF kind = "c4" THEN Boundaries(0, 0) ELSE {}) |-> TruePrev(kind, p, b)] = Empty
    BY <1>2, <1>4
  <2> QED BY <1>1, <1>3, <1>7, <1>8, <2>1, <2>2 DEF NewPool, TruePool
<1> QED BY <1>9, <1>10

-----------------------------------------------------------------------------
(* A layer that lacks nothing *)

TrueLayer(li, p, from, sh, T, N) ==
  [kv |-> TrueKv(p, from, T, N), pools |-> [k \in PoolsOf(li) |-> TruePool(Kind[li], p, from, sh, T, N)]]

LEMMA PoolKinds ==
  ASSUME NEW li \in Layers
  PROVE  /\ PoolsOf(li) \subseteq {"main", "idx"} /\ (PoolsOf(li) # {} => "main" \in PoolsOf(li))
         /\ PoolsOf(li) # {} => Kind[li] \in {"c4", "c128"}
         /\ Kind[li] = "c4" => PoolsOf(li) = {"main", "idx"}
<1>1. Kind[li] \in {"swa", "c128", "c4"}
  BY RowsAssumption
<1>2. CASE Kind[li] = "swa"
  BY <1>2 DEF PoolsOf
<1>3. CASE Kind[li] = "c128"
  BY <1>3 DEF PoolsOf
<1>4. CASE Kind[li] = "c4"
  BY <1>4 DEF PoolsOf
<1> QED BY <1>1, <1>2, <1>3, <1>4

\* A chunk fed to a layer that lacks nothing: every pool takes it, and the layer lacks nothing.
LEMMA FedTrue ==
  ASSUME NEW r, NEW li \in Layers, NEW p, IsSeq(p), NEW from \in Nat, NEW sh, NEW T \in Nat, NEW N \in Nat, NEW M \in Nat,
         T <= from + Keep, from <= N, N <= M, M <= Size(p),
         KvOf(r, li, SeedOf(r, li)) = TrueKv(p, from, T, N),
         \A k \in PoolsOf(li) : PoolOf(r, li, k, SeedOf(r, li), N) = TruePool(Kind[li], p, from, sh, T, N)
  PROVE  Takes(r, li, N) = PoolsOf(li) /\ FedLayer(r, li, Slice(p, N, M), N) = TrueLayer(li, p, from, sh, T, M)
<1> DEFINE st == TruePool(Kind[li], p, from, sh, T, N)
           x == Slice(p, N, M)
           old == OldPools(r, li, N)
<1>1. \A k \in PoolsOf(li) : old[k] = st
  BY DEF OldPools
<1>2. PoolAccepts(st, N)
  BY TrueAccepts
<1> HIDE DEF st, old
<1>3. Takes(r, li, N) = PoolsOf(li)
  BY <1>1, <1>2 DEF Takes, old
<1>4. \A k \in PoolsOf(li) : PoolFeed(Kind[li], old[k], x, N) = TruePool(Kind[li], p, from, sh, T, M)
  <2> TAKE k \in PoolsOf(li)
  <2>1. Kind[li] \in {"c4", "c128"}
    BY PoolKinds
  <2>2. PoolFeed(Kind[li], st, x, N) = TruePool(Kind[li], p, from, sh, T, M)
    BY <2>1, FeedPool DEF st
  <2> QED BY <1>1, <2>2
<1>5. KvFeed(TrueKv(p, from, T, N), x, N) = TrueKv(p, from, T, M)
  BY FeedKv
<1> HIDE DEF x
<1> DEFINE had == IF li \in DOMAIN r.layers THEN DOMAIN r.layers[li].pools ELSE {}
           made == IF "main" \in PoolsOf(li) \ Takes(r, li, N) THEN had \cup {"main"} ELSE PoolsOf(li)
<1>6. FedLayer(r, li, x, N) = [kv |-> KvFeed(KvOf(r, li, SeedOf(r, li)), x, N),
         pools |-> [k \in made |-> CASE k \in Takes(r, li, N) -> PoolFeed(Kind[li], old[k], x, N)
                                     [] k \notin Takes(r, li, N) /\ (k = "main" \/ "main" \in Takes(r, li, N)) ->
                                          PoolRefuses(Kind[li], old[k], x, N)
                                     [] OTHER -> old[k]]]
  BY DEF FedLayer, old
<1>7. made = PoolsOf(li)
  BY <1>3
<1> HIDE DEF made
<1>8. [k \in made |-> CASE k \in Takes(r, li, N) -> PoolFeed(Kind[li], old[k], x, N)
                         [] k \notin Takes(r, li, N) /\ (k = "main" \/ "main" \in Takes(r, li, N)) ->
                              PoolRefuses(Kind[li], old[k], x, N)
                         [] OTHER -> old[k]]
        = [k \in PoolsOf(li) |-> TruePool(Kind[li], p, from, sh, T, M)]
  BY <1>3, <1>4, <1>7
<1> QED BY <1>3, <1>5, <1>6, <1>8 DEF TrueLayer, x

\* The accumulators that ingest finds, and those it makes at the start of a prompt.
LEMMA FoundTrue ==
  ASSUME NEW r, NEW li \in Layers, NEW p, NEW from, NEW sh, NEW T, NEW N, NEW start,
         li \in DOMAIN r.layers, r.layers[li] = TrueLayer(li, p, from, sh, T, N)
  PROVE  /\ KvOf(r, li, SeedOf(r, li)) = TrueKv(p, from, T, N)
         /\ \A k \in PoolsOf(li) : PoolOf(r, li, k, SeedOf(r, li), start) = TruePool(Kind[li], p, from, sh, T, N)
<1>1. r.layers[li].kv = TrueKv(p, from, T, N) /\ DOMAIN r.layers[li].pools = PoolsOf(li)
      /\ \A k \in PoolsOf(li) : r.layers[li].pools[k] = TruePool(Kind[li], p, from, sh, T, N)
  BY DEF TrueLayer
<1>2. KvOf(r, li, SeedOf(r, li)) = r.layers[li].kv
  BY DEF KvOf
<1>3. \A k \in PoolsOf(li) : PoolOf(r, li, k, SeedOf(r, li), start) = r.layers[li].pools[k]
  BY <1>1 DEF PoolOf
<1> QED BY <1>1, <1>2, <1>3

LEMMA NewTrue ==
  ASSUME NEW r, NEW li \in Layers, NEW p, IsSeq(p), li \notin DOMAIN r.layers, DOMAIN r.seeds = {}
  PROVE  /\ KvOf(r, li, SeedOf(r, li)) = TrueKv(p, 0, 0, 0)
         /\ \A k \in PoolsOf(li) : PoolOf(r, li, k, SeedOf(r, li), 0) = TruePool(Kind[li], p, 0, 0, 0, 0)
<1>1. SeedOf(r, li) = Empty /\ DOMAIN Empty = {}
  BY DEF SeedOf, Empty
<1>2. KvOf(r, li, SeedOf(r, li)) = NewKv
  BY <1>1 DEF KvOf
<1>3. \A k \in PoolsOf(li) : PoolOf(r, li, k, SeedOf(r, li), 0) = NewPool
  BY <1>1 DEF PoolOf
<1>4. NewKv = TrueKv(p, 0, 0, 0)
  BY NewIsTrue
<1>5. \A k \in PoolsOf(li) : NewPool = TruePool(Kind[li], p, 0, 0, 0, 0)
  <2> TAKE k \in PoolsOf(li)
  <2>1. Kind[li] \in {"c4", "c128"}
    BY PoolKinds
  <2> QED BY <2>1, NewIsTrue
<1> QED BY <1>2, <1>3, <1>4, <1>5

-----------------------------------------------------------------------------
(* Segments *)

\* the segment of block b, as it should be
TrueSegment(p, b) ==
  [li \in Layers |->
    [win |-> TrueWindow(p, b),
     pools |-> [k \in PoolsOf(li) |->
       [rows |-> Slice(TruePooled(Kind[li], p, b \div Ratio(Kind[li])), (b - Block) \div Ratio(Kind[li]), b \div Ratio(Kind[li])),
        prev |-> TruePrev(Kind[li], p, b)]]]]

\* a request from the first row of its prompt on that lacks nothing but the segments it has shipped
Fresh(r) ==
  /\ IsSeq(r.of) /\ DOMAIN r.seeds = {} /\ r.emitted \in Nat /\ r.emitted % Block = 0
  /\ \A li \in DOMAIN r.layers :
       LET n == r.layers[li].kv.next
       IN  n \in Nat /\ r.emitted <= n /\ n <= Size(r.of) /\ r.layers[li] = TrueLayer(li, r.of, r.emitted, r.emitted, 0, n)

\* Two boundaries are a block apart.
LEMMA NextBlock ==
  \A a, b \in Nat : a % Block = 0 /\ b % Block = 0 /\ a < b => a <= b - Block
<1> TAKE a, b \in Nat
<1>1. HAVE a % Block = 0 /\ b % Block = 0 /\ a < b
<1>2. PICK m \in Nat : m = Block /\ m >= 1
  BY Sizes
<1>3. PICK k \in Nat, l \in Nat : k = a \div m /\ l = b \div m
  BY <1>2, DivMod
<1>4. a = k * m /\ b = l * m
  <2>1. a = k * m + (a % m) /\ b = l * m + (b % m) /\ a % m = 0 /\ b % m = 0
    BY <1>1, <1>2, <1>3, DivMod
  <2>2. k * m \in Nat /\ l * m \in Nat
    BY Z3
  <2> QED BY <2>1, <2>2
<1>5. k < l
  <2> SUFFICES ASSUME l <= k PROVE FALSE
    OBVIOUS
  <2>1. l * m <= k * m
    BY TimesLe
  <2> QED BY <1>1, <1>4, <2>1
<1>6. (k + 1) * m <= l * m
  BY <1>5, TimesLe
<1>7. (k + 1) * m = k * m + m
  BY Z3
<1> QED BY <1>2, <1>4, <1>6, <1>7

\* The pooled rows of a range within those that a pool holds.
LEMMA PooledPart ==
  ASSUME NEW kind, NEW p, NEW from \in Nat, NEW lo \in Nat, NEW hi \in Nat, NEW N \in Nat, from <= lo, lo <= hi, hi <= N
  PROVE  LET r == Ratio(kind)
         IN  Slice(PooledFrom(kind, p, from, N), (lo \div r) - (from \div r), (hi \div r) - (from \div r)) = PooledFrom(kind, p, lo, hi)
<1>1. PICK r \in Nat : r = Ratio(kind) /\ r >= 1
  BY RatioIs
<1>2. PICK f \in Nat, l \in Nat, h \in Nat, n \in Nat : f = from \div r /\ l = lo \div r /\ h = hi \div r /\ n = N \div r
  BY <1>1, DivMod
<1>3. f <= l /\ l <= h /\ h <= n
  BY <1>1, <1>2, DivLe
<1>4. IsSeq(TruePooled(kind, p, n)) /\ Size(TruePooled(kind, p, n)) = n
  BY PooledIs
<1>5. PICK c \in Nat, d \in Nat : c = l - f /\ d = h - f
  <2>1. l - f \in Nat /\ h - f \in Nat
    BY <1>3
  <2> QED BY <2>1
<1>6. f <= n /\ c <= d /\ d <= n - f /\ f + c = l /\ f + d = h
  BY <1>3, <1>5
<1>7. Slice(Slice(TruePooled(kind, p, n), f, n), c, d) = Slice(TruePooled(kind, p, n), f + c, f + d)
  BY <1>4, <1>6, SliceOfSlice
<1>8. Slice(TruePooled(kind, p, n), l, h) = Slice(TruePooled(kind, p, h), l, h)
  BY <1>3, PooledSlice
<1> QED BY <1>1, <1>2, <1>5, <1>6, <1>7, <1>8 DEF PooledFrom

LEMMA PooledSize ==
  ASSUME NEW kind, NEW p, NEW from \in Nat, NEW N \in Nat, from <= N
  PROVE  /\ IsSeq(PooledFrom(kind, p, from, N)) /\ Size(PooledFrom(kind, p, from, N)) = (N \div Ratio(kind)) - (from \div Ratio(kind))
         /\ N \div Ratio(kind) \in Nat /\ from \div Ratio(kind) \in Nat /\ from \div Ratio(kind) <= N \div Ratio(kind)
<1>1. PICK r \in Nat : r = Ratio(kind) /\ r >= 1
  BY RatioIs
<1>2. PICK f \in Nat, n \in Nat : f = from \div r /\ n = N \div r
  BY <1>1, DivMod
<1>3. f <= n
  BY <1>1, <1>2, DivLe
<1>4. IsSeq(TruePooled(kind, p, n)) /\ Size(TruePooled(kind, p, n)) = n
  BY PooledIs
<1>5. IsSeq(Slice(TruePooled(kind, p, n), f, n)) /\ Size(Slice(TruePooled(kind, p, n), f, n)) = n - f
  BY <1>3, <1>4, SliceIs
<1> QED BY <1>1, <1>2, <1>3, <1>5 DEF PooledFrom

\* Every boundary that the layers have passed can be made into a segment, and the segment is the true one.
LEMMA SegmentTrue ==
  ASSUME NEW r, Fresh(r), DOMAIN r.layers = Layers, NEW b \in Nat, r.emitted < b, b % Block = 0,
         \A li \in Layers : b <= r.layers[li].kv.next
  PROVE  Emittable(r, b) /\ Segment(r, b) = TrueSegment(r.of, b)
<1>1. r.emitted \in Nat /\ r.emitted % Block = 0 /\ Block \in Nat
  BY Sizes DEF Fresh
<1>2. r.emitted <= b - Block /\ b - Block \in Nat /\ b - Block <= b
  <2>1. r.emitted <= b - Block
    BY <1>1, NextBlock
  <2> QED BY <1>1, <2>1
<1>3. ASSUME NEW li \in Layers
      PROVE  LET ly == r.layers[li]
                 rt == Ratio(Kind[li])
             IN  /\ b \in DOMAIN ly.kv.snaps /\ ly.kv.snaps[b] = TrueWindow(r.of, b)
                 /\ DOMAIN ly.pools = PoolsOf(li)
                 /\ \A k \in PoolsOf(li) : /\ PooledRows(ly.pools[k]) >= b \div rt
                                           /\ Kind[li] = "c4" => b \in DOMAIN ly.pools[k].prev
                                           /\ SegmentPool(ly.pools[k], Kind[li], b) =
                                                [rows |-> Slice(TruePooled(Kind[li], r.of, b \div rt), (b - Block) \div rt, b \div rt),
                                                 prev |-> TruePrev(Kind[li], r.of, b)]
  <2>1. PICK n \in Nat : n = r.layers[li].kv.next /\ r.emitted <= n /\ r.layers[li] = TrueLayer(li, r.of, r.emitted, r.emitted, 0, n)
    BY DEF Fresh
  <2>2. b \in Boundaries(r.emitted, n) /\ b <= n
    BY <1>1, <2>1, BoundaryIs
  <2>3. r.layers[li].kv = TrueKv(r.of, r.emitted, 0, n) /\ DOMAIN r.layers[li].pools = PoolsOf(li)
        /\ \A k \in PoolsOf(li) : r.layers[li].pools[k] = TruePool(Kind[li], r.of, r.emitted, r.emitted, 0, n)
    BY <2>1 DEF TrueLayer
  <2>4. b \in DOMAIN r.layers[li].kv.snaps /\ r.layers[li].kv.snaps[b] = TrueWindow(r.of, b)
    BY <2>2, <2>3 DEF TrueKv
  <2>5. PICK w \in Nat : w = r.emitted
    BY <1>1
  <2>6. PICK a \in Nat : a = b - Block
    BY <1>2
  <2> DEFINE st == TruePool(Kind[li], r.of, w, w, 0, n)
             rt == Ratio(Kind[li])
  <2>7. /\ st.pooled = PooledFrom(Kind[li], r.of, w, n) /\ st.shipped = w \div rt
        /\ st.prev = [c \in IF Kind[li] = "c4" THEN Boundaries(w, n) ELSE {} |-> TruePrev(Kind[li], r.of, c)]
    BY DEF TruePool
  <2>8. /\ Size(PooledFrom(Kind[li], r.of, w, n)) = (n \div rt) - (w \div rt) /\ n \div rt \in Nat /\ w \div rt \in Nat
    <3>1. w <= n
      BY <2>1, <2>5
    <3> QED BY ONLY <3>1, w \in Nat, n \in Nat, PooledSize
  <2>9. PooledRows(st) >= b \div rt
    <3>1. b \div rt <= n \div rt /\ b \div rt \in Nat
      BY <2>2, RatioIs, DivLe, DivMod
    <3>2. PooledRows(st) = (w \div rt) + ((n \div rt) - (w \div rt))
      BY <2>7, <2>8 DEF PooledRows, Size
    <3> QED BY <2>8, <3>1, <3>2
  <2>10. Kind[li] = "c4" => b \in DOMAIN st.prev /\ st.prev[b] = TruePrev(Kind[li], r.of, b)
    BY <2>2, <2>5, <2>7
  <2>11. Slice(st.pooled, (a \div rt) - st.shipped, (b \div rt) - st.shipped) = PooledFrom(Kind[li], r.of, a, b)
    <3>1. w <= a /\ a <= b /\ b <= n
      BY <1>2, <2>2, <2>5, <2>6
    <3> QED BY <2>7, <3>1, PooledPart
  <2>12. Kind[li] # "c4" => TruePrev(Kind[li], r.of, b) = <<>>
    BY DEF TruePrev
  <2> HIDE DEF st
  <2>13. SegmentPool(st, Kind[li], b) = [rows |-> PooledFrom(Kind[li], r.of, a, b), prev |-> TruePrev(Kind[li], r.of, b)]
    BY <2>6, <2>10, <2>11, <2>12 DEF SegmentPool
  <2>14. \A k \in PoolsOf(li) : r.layers[li].pools[k] = st
    BY <2>3, <2>5 DEF st
  <2> QED BY <2>3, <2>4, <2>6, <2>9, <2>10, <2>13, <2>14 DEF PooledFrom
<1>4. Emittable(r, b)
  BY <1>3 DEF Emittable
<1>5. \A li \in Layers : [k \in DOMAIN r.layers[li].pools |-> SegmentPool(r.layers[li].pools[k], Kind[li], b)]
        = [k \in PoolsOf(li) |->
            [rows |-> Slice(TruePooled(Kind[li], r.of, b \div Ratio(Kind[li])), (b - Block) \div Ratio(Kind[li]), b \div Ratio(Kind[li])),
             prev |-> TruePrev(Kind[li], r.of, b)]]
  BY <1>3
<1>6. \A li \in Layers : r.layers[li].kv.snaps[b] = TrueWindow(r.of, b)
  BY <1>3
<1>7. Segment(r, b) = TrueSegment(r.of, b)
  BY <1>5, <1>6 DEF Segment, TrueSegment
<1> QED BY <1>4, <1>7

\* The accumulators as records.
LEMMA SameKv ==
  ASSUME NEW a, NEW b, IsKv(a), IsKv(b), a.tail = b.tail, a.snaps = b.snaps, a.next = b.next, a.gaps = b.gaps
  PROVE  a = b
<1>1. \A x \in KvFields : a[x] = b[x]
  BY DEF KvFields
<1>2. [x \in KvFields |-> a[x]] = [x \in KvFields |-> b[x]]
  BY <1>1
<1> QED BY <1>2 DEF IsKv

PoolFields == {"tail", "prev", "pooled", "shipped", "carry", "next"}
IsPool(st) == st = [x \in PoolFields |-> st[x]]

RestOf(a, pooled, shipped, V) == [[a EXCEPT !.pooled = pooled, !.shipped = shipped] EXCEPT !.prev = Below(@, V)]

LEMMA PoolUpdated ==
  ASSUME NEW a, NEW b, IsPool(a), IsPool(b), NEW pooled, NEW shipped, NEW V,
         b.tail = a.tail, b.carry = a.carry, b.next = a.next, b.pooled = pooled, b.shipped = shipped, Below(a.prev, V) = b.prev
  PROVE  RestOf(a, pooled, shipped, V) = b
<1> DEFINE c == RestOf(a, pooled, shipped, V)
<1>1. DOMAIN a = PoolFields
  BY DEF IsPool
<1>2. c.pooled = pooled /\ c.shipped = shipped /\ c.tail = a.tail /\ c.carry = a.carry /\ c.next = a.next
  BY <1>1 DEF PoolFields, RestOf
<1>3. c.prev = Below(a.prev, V)
  BY <1>1 DEF PoolFields, RestOf
<1>4. c = [x \in PoolFields |-> c[x]]
  BY <1>1 DEF RestOf
<1> HIDE DEF c
<1>5. \A x \in PoolFields : c[x] = b[x]
  BY <1>2, <1>3 DEF PoolFields
<1>6. [x \in PoolFields |-> c[x]] = [x \in PoolFields |-> b[x]]
  BY <1>5
<1> QED BY <1>4, <1>6 DEF IsPool, c

LEMMA TrueKvIs ==
  ASSUME NEW p, NEW from, NEW T, NEW N
  PROVE  IsKv(TrueKv(p, from, T, N))
BY DEF IsKv, KvFields, TrueKv

LEMMA TruePoolIs ==
  ASSUME NEW kind, NEW p, NEW from, NEW sh, NEW T, NEW N
  PROVE  IsPool(TruePool(kind, p, from, sh, T, N))
BY DEF IsPool, PoolFields, TruePool

\* What stays of a layer when the rows up to a boundary have gone.
LEMMA ReleasedTrue ==
  ASSUME NEW li \in Layers, NEW p, NEW W \in Nat, NEW V \in Nat, NEW N \in Nat, W <= V, V <= N
  PROVE  ReleasedLayer(li, TrueLayer(li, p, W, W, 0, N), V, V) = TrueLayer(li, p, V, V, 0, N)
<1> DEFINE ly == TrueLayer(li, p, W, W, 0, N)
           rt == Ratio(Kind[li])
           st == TruePool(Kind[li], p, W, W, 0, N)
           to == TruePool(Kind[li], p, V, V, 0, N)
           kv == TrueKv(p, W, 0, N)
<1>1. Below([b \in Boundaries(W, N) |-> TrueWindow(p, b)], V) = [b \in Boundaries(V, N) |-> TrueWindow(p, b)]
  <2>1. {b \in Boundaries(W, N) : b > V} = Boundaries(V, N)
    BY BoundaryIs
  <2> QED BY <2>1 DEF Below
<1>2. [kv EXCEPT !.snaps = Below(@, V)] = TrueKv(p, V, 0, N)
  <2> DEFINE kw == TrueKv(p, V, 0, N)
             t == Trimmed(kv, V)
  <2>1. IsKv(kv) /\ IsKv(kw) /\ kw.tail = kv.tail /\ kw.next = kv.next /\ kw.gaps = kv.gaps /\ kw.snaps = Below(kv.snaps, V)
    BY <1>1, TrueKvIs DEF TrueKv
  <2>2. [kv EXCEPT !.snaps = Below(@, V)] = t
    BY DEF Trimmed
  <2> HIDE DEF kv, kw, t
  <2>3. IsKv(t) /\ t.next = kv.next /\ t.gaps = kv.gaps /\ t.tail = kv.tail /\ t.snaps = Below(kv.snaps, V)
    BY <2>1, TrimmedIs DEF t
  <2>4. t = kw
    BY <2>1, <2>3, SameKv
  <2> QED BY <2>2, <2>4 DEF kw
<1>3. ASSUME Kind[li] \in {"c4", "c128"}
      PROVE  [TakePooled(st, V \div rt).rest EXCEPT !.prev = Below(@, V)] = to
  <2>1. Below(st.prev, V) = to.prev
    <3> DEFINE S == IF Kind[li] = "c4" THEN Boundaries(W, N) ELSE {}
               R == IF Kind[li] = "c4" THEN Boundaries(V, N) ELSE {}
    <3>1. {b \in S : b > V} = R
      BY BoundaryIs
    <3>2. st.prev = [b \in S |-> TruePrev(Kind[li], p, b)] /\ to.prev = [b \in R |-> TruePrev(Kind[li], p, b)]
      BY DEF TruePool
    <3> HIDE DEF S, R, st, to
    <3> QED BY <3>1, <3>2 DEF Below
  <2>2. st.pooled = PooledFrom(Kind[li], p, W, N) /\ st.shipped = W \div rt
    BY DEF TruePool
  <2>3. Size(PooledFrom(Kind[li], p, W, N)) = (N \div rt) - (W \div rt)
    BY PooledSize
  <2>4. Slice(st.pooled, (V \div rt) - st.shipped, Len(st.pooled)) = PooledFrom(Kind[li], p, V, N)
    <3>1. Len(st.pooled) = (N \div rt) - (W \div rt)
      BY <2>2, <2>3 DEF Size
    <3> QED BY <2>2, <3>1, PooledPart
  <2>5. [TakePooled(st, V \div rt).rest EXCEPT !.prev = Below(@, V)]
          = RestOf(st, Slice(st.pooled, (V \div rt) - st.shipped, Len(st.pooled)), V \div rt, V)
    BY DEF TakePooled, RestOf
  <2>6. IsPool(st) /\ IsPool(to) /\ to.tail = st.tail /\ to.carry = st.carry /\ to.next = st.next
        /\ to.pooled = PooledFrom(Kind[li], p, V, N) /\ to.shipped = V \div rt
    BY TruePoolIs DEF TruePool
  <2> HIDE DEF st, to
  <2>7. RestOf(st, PooledFrom(Kind[li], p, V, N), V \div rt, V) = to
    BY <2>1, <2>6, PoolUpdated
  <2> QED BY <2>4, <2>5, <2>7
<1>4. DOMAIN ly.pools = PoolsOf(li) /\ ly.kv = kv /\ \A k \in PoolsOf(li) : ly.pools[k] = st
  BY DEF TrueLayer
<1>5. ReleasedLayer(li, ly, V, V) = [kv |-> [ly.kv EXCEPT !.snaps = Below(@, V)],
        pools |-> [k \in DOMAIN ly.pools |-> [TakePooled(ly.pools[k], V \div rt).rest EXCEPT !.prev = Below(@, V)]]]
  BY DEF ReleasedLayer
<1> HIDE DEF ly, st, to, kv
<1>6. [k \in DOMAIN ly.pools |-> [TakePooled(ly.pools[k], V \div rt).rest EXCEPT !.prev = Below(@, V)]]
        = [k \in PoolsOf(li) |-> to]
  <2>1. \A k \in PoolsOf(li) : [TakePooled(ly.pools[k], V \div rt).rest EXCEPT !.prev = Below(@, V)] = to
    BY <1>3, <1>4, PoolKinds
  <2> QED BY <1>4, <2>1
<1> QED BY <1>2, <1>4, <1>5, <1>6 DEF TrueLayer, ly, to

LEMMA EmittedWhole ==
  ASSUME NEW r, Held(r), NEW E \in Nat, NEW w, \A b \in Boundaries(r.emitted, E) : Emittable(r, b),
         DOMAIN Emitted(r, E, w).segs = Boundaries(r.emitted, E)
  PROVE  LET q == Emitted(r, E, w).req
         IN  q.layers = [li \in DOMAIN r.layers |-> ReleasedLayer(li, r.layers[li], q.emitted, q.emitted)]
<1> DEFINE due == Boundaries(r.emitted, E)
           good == {b \in due : \A c \in due : c <= b => Emittable(r, c)}
           out == {b \in good : b <= w}
           written == IF out = {} THEN r.emitted ELSE Max(out)
           taken == IF out = good THEN written ELSE Min(good \ out)
           ly == [li \in DOMAIN r.layers |-> ReleasedLayer(li, r.layers[li], written, taken)]
           q == Emitted(r, E, w).req
<1>1. q = [Released(r, written, taken) EXCEPT !.error = @ \/ out # due] /\ DOMAIN Emitted(r, E, w).segs = out
  BY DEF Emitted, EmittedUpTo, EmittedOf, Shipped
<1>2. q = [[r EXCEPT !.emitted = written, !.layers = ly] EXCEPT !.error = @ \/ out # due]
  BY <1>1 DEF Released
<1>3. out = good
  <2>1. good \subseteq due /\ out \subseteq good
    OBVIOUS
  <2> HIDE DEF good, out, q
  <2> QED BY <1>1, <2>1
<1>4. taken = written
  BY <1>3
<1> HIDE DEF out, good, written, taken, q
<1>5. ly = [li \in DOMAIN r.layers |-> ReleasedLayer(li, r.layers[li], written, written)]
  BY <1>4
<1> HIDE DEF ly
<1>6. DOMAIN r = ReqFields
  BY DEF Held, IsReq
<1>7. q.emitted = written /\ q.layers = ly
  BY <1>2, <1>6 DEF ReqFields
<1> QED BY <1>5, <1>7 DEF q

\* The segments of a fresh request that has passed E with every layer are the true ones; if none failed, it lacks nothing.
LEMMA EmittedTrue ==
  ASSUME NEW r, Held(r), Fresh(r), DOMAIN r.layers = Layers, r.error = FALSE, NEW E \in Nat,
         \A li \in Layers : E <= r.layers[li].kv.next, NEW w
  PROVE  LET e == Emitted(r, E, w)
         IN  /\ \A b \in DOMAIN e.segs : e.segs[b] = TrueSegment(r.of, b) /\ b \in Nat /\ b <= E
             /\ e.req.error = FALSE => Fresh(e.req)
<1> DEFINE e == Emitted(r, E, w)
           q == e.req
<1>1. /\ DOMAIN e.segs \subseteq Boundaries(r.emitted, E) /\ e.segs = SegmentsOf(r, DOMAIN e.segs)
      /\ q.of = r.of /\ q.seeds = r.seeds /\ q.error = (r.error \/ DOMAIN e.segs # Boundaries(r.emitted, E))
      /\ q.emitted \in Nat /\ q.emitted >= r.emitted /\ (q.emitted = r.emitted \/ q.emitted \in DOMAIN e.segs)
      /\ DOMAIN q.layers = DOMAIN r.layers
      /\ \A li \in DOMAIN r.layers : q.layers[li].kv = Trimmed(r.layers[li].kv, q.emitted)
  BY EmittedFields
<1>2. r.emitted \in Nat /\ r.emitted % Block = 0 /\ IsSeq(r.of) /\ DOMAIN r.seeds = {}
  BY DEF Fresh
<1>3. \A b \in Boundaries(r.emitted, E) : Emittable(r, b) /\ Segment(r, b) = TrueSegment(r.of, b) /\ b \in Nat /\ b <= E
  <2> TAKE b \in Boundaries(r.emitted, E)
  <2>1. b \in Nat /\ r.emitted < b /\ b <= E /\ b % Block = 0
    BY <1>2, BoundaryIs
  <2>2. \A li \in Layers : b <= r.layers[li].kv.next
    <3> TAKE li \in Layers
    <3>1. r.layers[li].kv.next \in Nat /\ E <= r.layers[li].kv.next
      BY DEF Fresh
    <3> QED BY <2>1, <3>1
  <2> QED BY <2>1, <2>2, SegmentTrue
<1>4. \A b \in DOMAIN e.segs : e.segs[b] = TrueSegment(r.of, b) /\ b \in Nat /\ b <= E
  <2> HIDE DEF e
  <2> QED BY <1>1, <1>3 DEF SegmentsOf
<1>5. ASSUME q.error = FALSE PROVE Fresh(q)
  <2>1. DOMAIN e.segs = Boundaries(r.emitted, E)
    BY <1>1, <1>5
  <2>2. q.layers = [li \in DOMAIN r.layers |-> ReleasedLayer(li, r.layers[li], q.emitted, q.emitted)]
    BY <1>3, <2>1, EmittedWhole
  <2>3. PICK V \in Nat, W \in Nat : V = q.emitted /\ W = r.emitted /\ W <= V
    BY <1>1, <1>2
  <2>4. V % Block = 0 /\ (V = W \/ V <= E)
    BY <1>1, <1>2, <2>3, BoundaryIs
  <2> HIDE DEF e, q
  <2>5. ASSUME NEW li \in Layers
        PROVE  LET n == q.layers[li].kv.next
               IN  n \in Nat /\ V <= n /\ n <= Size(r.of) /\ q.layers[li] = TrueLayer(li, r.of, V, V, 0, n)
    <3>1. PICK n \in Nat : n = r.layers[li].kv.next /\ W <= n /\ n <= Size(r.of) /\ r.layers[li] = TrueLayer(li, r.of, W, W, 0, n)
      BY <2>3 DEF Fresh
    <3>2. E <= n
      BY <3>1
    <3>3. V <= n
      BY <2>3, <2>4, <3>1, <3>2
    <3>4. ReleasedLayer(li, TrueLayer(li, r.of, W, W, 0, n), V, V) = TrueLayer(li, r.of, V, V, 0, n)
      BY <2>3, <3>1, <3>3, ReleasedTrue
    <3>5. q.layers[li] = TrueLayer(li, r.of, V, V, 0, n)
      BY <2>2, <2>3, <3>1, <3>4
    <3>6. TrueLayer(li, r.of, V, V, 0, n).kv.next = n
      BY DEF TrueLayer, TrueKv
    <3> QED BY <3>1, <3>3, <3>5, <3>6
  <2> QED BY <1>1, <1>2, <2>3, <2>4, <2>5 DEF Fresh
<1> QED BY <1>4, <1>5

-----------------------------------------------------------------------------
(* Prompts that agree up to a position *)

Agree(p, q, n) == \A i \in Nat : 1 <= i /\ i <= n => p[i] = q[i]

LEMMA AgreeSlice ==
  \A p, q : \A n, a, b \in Nat : IsSeq(p) /\ IsSeq(q) /\ n <= Size(p) /\ n <= Size(q) /\ Agree(p, q, n) /\ a <= b /\ b <= n
     => Slice(p, a, b) = Slice(q, a, b)
<1> TAKE p, q
<1> TAKE n, a, b \in Nat
<1>1. HAVE IsSeq(p) /\ IsSeq(q) /\ n <= Size(p) /\ n <= Size(q) /\ Agree(p, q, n) /\ a <= b /\ b <= n
<1>2. Size(p) \in Nat /\ Size(q) \in Nat
  BY <1>1, SizeIs
<1>3. b <= Size(p) /\ b <= Size(q)
  BY <1>1, <1>2
<1>4. \A i \in Nat : a + 1 <= i /\ i <= b => p[i] = q[i]
  BY <1>1 DEF Agree
<1> QED BY <1>1, <1>3, <1>4, SliceAgree

\* What a layer holds at n, a window, a pooled row and a segment depend on the first n rows only.
LEMMA AgreeWindow ==
  ASSUME NEW p, NEW q, IsSeq(p), IsSeq(q), NEW n \in Nat, n <= Size(p), n <= Size(q), Agree(p, q, n), NEW b \in Nat, b <= n
  PROVE  TrueWindow(p, b) = TrueWindow(q, b) /\ (R4 <= b => \A kind : TruePrev(kind, p, b) = TruePrev(kind, q, b))
<1>1. Win \in Nat /\ R4 \in Nat
  BY Sizes
<1>2. PICK a \in Nat : a = (IF b >= Win THEN b - Win ELSE 0) /\ a <= b
  <2>1. b >= Win => b - Win \in Nat /\ b - Win <= b
    BY <1>1
  <2>2. PICK c : c = IF b >= Win THEN b - Win ELSE 0
    OBVIOUS
  <2>3. c \in Nat /\ c <= b
    BY <2>1, <2>2
  <2> QED BY <2>2, <2>3
<1>3. Slice(p, a, b) = Slice(q, a, b)
  BY <1>2, AgreeSlice
<1>4. R4 <= b => Slice(p, b - R4, b) = Slice(q, b - R4, b)
  <2> HAVE R4 <= b
  <2>1. PICK c \in Nat : c = b - R4 /\ c <= b
    BY <1>1
  <2> QED BY <2>1, AgreeSlice
<1> QED BY <1>2, <1>3, <1>4 DEF TrueWindow, TruePrev

LEMMA AgreePooled ==
  ASSUME NEW p, NEW q, IsSeq(p), IsSeq(q), NEW n \in Nat, n <= Size(p), n <= Size(q), Agree(p, q, n),
         NEW kind, NEW b \in Nat, b <= n
  PROVE  TruePooled(kind, p, b \div Ratio(kind)) = TruePooled(kind, q, b \div Ratio(kind))
<1>1. PICK r \in Nat : r = Ratio(kind) /\ r >= 1
  BY RatioIs
<1>2. PICK m \in Nat : m = b \div r /\ m * r \in Nat /\ m * r <= b
  <2>1. b \div r \in Nat /\ b % r \in Nat /\ b = (b \div r) * r + (b % r)
    BY <1>1, DivMod
  <2>2. PICK m \in Nat : m = b \div r
    BY <2>1
  <2>3. m * r \in Nat
    BY Z3
  <2> QED BY <2>1, <2>2, <2>3
<1>3. ASSUME NEW i \in Nat, 1 <= i, i <= m PROVE TrueRow(kind, p, i) = TrueRow(kind, q, i)
  <2>1. PICK j \in Nat : j = i - 1 /\ j <= i
    BY <1>3
  <2>2. j * r \in Nat /\ i * r \in Nat /\ j * r <= i * r /\ i * r <= n
    <3>1. j * r \in Nat /\ i * r \in Nat
      BY Z3
    <3>2. j * r <= i * r /\ i * r <= m * r
      BY <1>3, <2>1, TimesLe
    <3> QED BY <1>2, <3>1, <3>2
  <2>3. Slice(p, j * r, i * r) = Slice(q, j * r, i * r)
    BY <2>2, AgreeSlice
  <2>4. i > 1 => Slice(p, (j - 1) * r, j * r) = Slice(q, (j - 1) * r, j * r)
    <3> HAVE i > 1
    <3>1. PICK k \in Nat : k = j - 1 /\ k <= j
      BY <2>1
    <3>2. k * r \in Nat /\ k * r <= j * r
      <4>1. k * r \in Nat
        BY Z3
      <4> QED BY <3>1, <4>1, TimesLe
    <3>3. j * r <= n
      BY <2>2
    <3> QED BY <2>2, <3>1, <3>2, <3>3, AgreeSlice
  <2> QED BY <1>1, <2>1, <2>3, <2>4 DEF TrueRow
<1>4. TruePooled(kind, p, m) = [i \in 1 .. m |-> TrueRow(kind, p, i)] /\ TruePooled(kind, q, m) = [i \in 1 .. m |-> TrueRow(kind, q, i)]
  BY DEF TruePooled, TrueRow
<1>5. [i \in 1 .. m |-> TrueRow(kind, p, i)] = [i \in 1 .. m |-> TrueRow(kind, q, i)]
  BY <1>3
<1> QED BY <1>1, <1>2, <1>4, <1>5

LEMMA AgreeCarry ==
  ASSUME NEW p, NEW q, IsSeq(p), IsSeq(q), NEW n \in Nat, n <= Size(p), n <= Size(q), Agree(p, q, n), NEW kind
  PROVE  TrueCarry(kind, p, n) = TrueCarry(kind, q, n)
<1>1. PICK r \in Nat : r = Ratio(kind) /\ r >= 1
  BY RatioIs
<1>2. PICK m \in Nat, d \in Nat : m = n % r /\ m < r /\ d = n - m /\ d <= n /\ (n >= r => d >= r)
  <2>1. n \div r \in Nat /\ n % r \in Nat /\ n % r < r /\ n = (n \div r) * r + (n % r)
    BY <1>1, DivMod
  <2>2. PICK k \in Nat, m \in Nat : k = n \div r /\ m = n % r
    BY <2>1
  <2>3. PICK d \in Nat : d = k * r
    <3>1. k * r \in Nat
      BY Z3
    <3> QED BY <3>1
  <2>4. n = d + m /\ m < r
    BY <2>1, <2>2, <2>3
  <2>5. n >= r => d >= r
    <3> HAVE n >= r
    <3>1. k = 0 => d = 0
      BY <2>3
    <3>2. k >= 1 => r <= d
      <4>1. k >= 1 => 1 * r <= k * r
        BY TimesLe
      <4> QED BY <2>3, <4>1
    <3> QED BY ONLY k \in Nat, d \in Nat, m \in Nat, r \in Nat, n >= r, <2>4, <3>1, <3>2
  <2>6. d = n - m /\ d <= n
    BY <2>4
  <2> QED BY <2>2, <2>4, <2>5, <2>6
<1>3. Slice(p, d, n) = Slice(q, d, n)
  BY <1>2, AgreeSlice
<1>4. n >= r => Slice(p, d - r, d) = Slice(q, d - r, d)
  <2> HAVE n >= r
  <2>1. PICK c \in Nat : c = d - r /\ c <= d
    <3>1. d - r \in Nat /\ d - r <= d
      BY <1>1, <1>2
    <3> QED BY <3>1
  <2> QED BY <1>2, <2>1, AgreeSlice
<1> QED BY <1>1, <1>2, <1>3, <1>4 DEF TrueCarry

LEMMA AgreeLayer ==
  ASSUME NEW p, NEW q, IsSeq(p), IsSeq(q), NEW n \in Nat, n <= Size(p), n <= Size(q), Agree(p, q, n),
         NEW li \in Layers, NEW from \in Nat, NEW sh, NEW T \in Nat, T <= n + Keep, from <= n
  PROVE  TrueLayer(li, p, from, sh, T, n) = TrueLayer(li, q, from, sh, T, n)
<1>1. \A b \in Boundaries(from, n) : TrueWindow(p, b) = TrueWindow(q, b) /\ TruePrev(Kind[li], p, b) = TruePrev(Kind[li], q, b)
  <2> TAKE b \in Boundaries(from, n)
  <2>1. b \in Nat /\ b <= n /\ from < b /\ b % Block = 0
    BY BoundaryIs
  <2>2. R4 <= b
    BY <2>1, BlockRoom
  <2> QED BY <2>1, <2>2, AgreeWindow
<1>2. \A w \in Nat : T <= n + w => Slice(p, Lo(n, T, w), n) = Slice(q, Lo(n, T, w), n)
  <2> TAKE w \in Nat
  <2> HAVE T <= n + w
  <2>1. Lo(n, T, w) \in Nat /\ Lo(n, T, w) <= n
    BY LoIs
  <2> QED BY <2>1, AgreeSlice
<1>3. PICK w \in Nat, v \in Nat : w = Win + Keep /\ v = TailRaw + Keep /\ T <= n + w /\ T <= n + v
  BY Sizes
<1>4. TrueKv(p, from, T, n) = TrueKv(q, from, T, n)
  <2>1. [b \in Boundaries(from, n) |-> TrueWindow(p, b)] = [b \in Boundaries(from, n) |-> TrueWindow(q, b)]
    BY <1>1
  <2>2. Slice(p, Lo(n, T, Win + Keep), n) = Slice(q, Lo(n, T, Win + Keep), n)
    BY <1>2, <1>3
  <2> QED BY <2>1, <2>2 DEF TrueKv
<1>5. TruePool(Kind[li], p, from, sh, T, n) = TruePool(Kind[li], q, from, sh, T, n)
  <2>1. PICK S : S = (IF Kind[li] = "c4" THEN Boundaries(from, n) ELSE {}) /\ S \subseteq Boundaries(from, n)
    <3>1. PICK S : S = IF Kind[li] = "c4" THEN Boundaries(from, n) ELSE {}
      OBVIOUS
    <3>2. S \subseteq Boundaries(from, n)
      BY <3>1
    <3> QED BY <3>1, <3>2
  <2>2. [b \in S |-> TruePrev(Kind[li], p, b)] = [b \in S |-> TruePrev(Kind[li], q, b)]
    BY <1>1, <2>1
  <2>3. Slice(p, Lo(n, T, TailRaw + Keep), n) = Slice(q, Lo(n, T, TailRaw + Keep), n)
    BY <1>2, <1>3
  <2>4. TruePooled(Kind[li], p, n \div Ratio(Kind[li])) = TruePooled(Kind[li], q, n \div Ratio(Kind[li]))
    BY AgreePooled
  <2>5. PooledFrom(Kind[li], p, from, n) = PooledFrom(Kind[li], q, from, n)
    BY <2>4 DEF PooledFrom
  <2>6. TrueCarry(Kind[li], p, n) = TrueCarry(Kind[li], q, n)
    BY AgreeCarry
  <2> QED BY <2>1, <2>2, <2>3, <2>5, <2>6 DEF TruePool
<1> QED BY <1>4, <1>5 DEF TrueLayer

LEMMA AgreeSegment ==
  ASSUME NEW p, NEW q, IsSeq(p), IsSeq(q), NEW n \in Nat, n <= Size(p), n <= Size(q), Agree(p, q, n),
         NEW b \in Nat, 0 < b, b <= n, b % Block = 0
  PROVE  TrueSegment(p, b) = TrueSegment(q, b)
<1>1. R4 <= b
  BY BlockRoom
<1>2. TrueWindow(p, b) = TrueWindow(q, b) /\ \A kind : TruePrev(kind, p, b) = TruePrev(kind, q, b)
  BY <1>1, AgreeWindow
<1>3. \A kind : TruePooled(kind, p, b \div Ratio(kind)) = TruePooled(kind, q, b \div Ratio(kind))
  BY AgreePooled
<1> QED BY <1>2, <1>3 DEF TrueSegment

\* The rows of a request that goes on at `start` under the prompt of: those of before, then those of that prompt.
LEMMA OntoIs ==
  ASSUME NEW rows, NEW of, IsSeq(rows), IsSeq(of), NEW start \in Nat, start <= Size(of)
  PROVE  /\ IsSeq(Onto(rows, of, start))
         /\ start <= Size(rows) => /\ Size(Onto(rows, of, start)) = Size(of) /\ Agree(Onto(rows, of, start), rows, start)
                                   /\ \A i \in Nat : start < i /\ i <= Size(of) => Onto(rows, of, start)[i] = of[i]
<1>1. Size(rows) \in Nat /\ Size(of) \in Nat
  BY SizeIs
<1>2. Onto(rows, of, start) = Join(Slice(rows, 0, start), Slice(of, start, Size(of)))
  BY DEF Onto, Join, Size
<1>3. IsSeq(Slice(of, start, Size(of))) /\ Size(Slice(of, start, Size(of))) = Size(of) - start
  BY <1>1, SliceIs
<1>4. IsSeq(Slice(rows, 0, start)) /\ (start <= Size(rows) => Size(Slice(rows, 0, start)) = start)
  <2>1. CASE start <= Size(rows)
    <3>1. IsSeq(Slice(rows, 0, start)) /\ Size(Slice(rows, 0, start)) = start - 0
      BY <1>1, <2>1, SliceIs
    <3> QED BY <3>1
  <2>2. CASE ~(start <= Size(rows))
    <3>1. Slice(rows, 0, start) = Slice(rows, 0, Size(rows))
      BY <1>1, <2>2, SliceEnds
    <3> QED BY <2>2, <3>1, SliceEnds
  <2> QED BY <2>1, <2>2
<1>5. IsSeq(Onto(rows, of, start)) /\ Size(Onto(rows, of, start)) = Size(Slice(rows, 0, start)) + (Size(of) - start)
  BY <1>2, <1>3, <1>4, JoinIs
<1>6. ASSUME start <= Size(rows)
      PROVE  /\ Size(Onto(rows, of, start)) = Size(of) /\ Agree(Onto(rows, of, start), rows, start)
             /\ \A i \in Nat : start < i /\ i <= Size(of) => Onto(rows, of, start)[i] = of[i]
  <2>1. Size(Slice(rows, 0, start)) = start
    BY <1>4, <1>6
  <2>2. Size(Onto(rows, of, start)) = Size(of)
    BY <1>1, <1>5, <2>1
  <2>3. \A i \in Nat : 1 <= i /\ i <= Size(of) => Onto(rows, of, start)[i] =
           IF i <= start THEN Slice(rows, 0, start)[i] ELSE Slice(of, start, Size(of))[i - start]
    <3> TAKE i \in Nat
    <3> HAVE 1 <= i /\ i <= Size(of)
    <3>1. i <= Size(Slice(rows, 0, start)) + Size(Slice(of, start, Size(of)))
      BY <1>1, <1>3, <2>1
    <3> QED BY <1>2, <1>3, <1>4, <2>1, <3>1, JoinAt
  <2>4. ASSUME NEW i \in Nat, 1 <= i, i <= start PROVE Onto(rows, of, start)[i] = rows[i]
    <3>1. Slice(rows, 0, start)[i] = rows[0 + i] /\ 0 + i = i
      BY <1>1, <1>6, <2>4, SliceAt
    <3>2. i <= Size(of)
      BY <1>1, <2>4
    <3> QED BY <2>3, <2>4, <3>1, <3>2
  <2>5. ASSUME NEW i \in Nat, start < i, i <= Size(of) PROVE Onto(rows, of, start)[i] = of[i]
    <3>1. PICK j \in Nat : j = i - start /\ 1 <= j /\ j <= Size(of) - start /\ start + j = i
      <4>1. i - start \in Nat /\ 1 <= i - start /\ i - start <= Size(of) - start
        BY <1>1, <2>5
      <4> QED BY <4>1
    <3>2. Slice(of, start, Size(of))[j] = of[start + j]
      <4>1. PICK m \in Nat : m = Size(of)
        BY <1>1
      <4>2. start <= m /\ m <= Size(of) /\ j <= m - start
        BY <3>1, <4>1
      <4>3. Slice(of, start, m)[j] = of[start + j]
        BY <3>1, <4>2, SliceAt
      <4> QED BY <4>1, <4>3
    <3>3. ~(i <= start) /\ 1 <= i
      BY <2>5
    <3> QED BY <2>3, <2>5, <3>1, <3>2, <3>3
  <2> QED BY <2>2, <2>4, <2>5 DEF Agree
<1> QED BY <1>5, <1>6

-----------------------------------------------------------------------------
(* A request that goes on from saved tails *)

KindsOf(li) == {"kv"} \cup PoolsOf(li)
TailOf(k) == IF k = "kv" THEN Win + Keep ELSE TailRaw + Keep

\* the raw tails at S of a layer whose capture has them up to T
TrueRows(p, li, T, S) == [k \in KindsOf(li) |-> Slice(p, Lo(S, T, TailOf(k)), S)]

LEMMA TailIs ==
  \A k : TailOf(k) \in Nat /\ TailOf(k) > Keep
BY Sizes DEF TailOf

\* Where a tail begins does not change when its last rows are cut, and there is a row left.
LEMMA CutOfTail ==
  ASSUME NEW p, IsSeq(p), NEW T \in Nat, NEW S \in Nat, 0 < S, S <= T, T <= S + Keep, T <= Size(p), NEW w \in Nat, w > Keep
  PROVE  /\ Size(Slice(p, Lo(T, T, w), T)) > T - S
         /\ Slice(Slice(p, Lo(T, T, w), T), 0, Size(Slice(p, Lo(T, T, w), T)) - (T - S)) = Slice(p, Lo(S, T, w), S)
<1>1. PICK lo \in Nat : lo = Lo(T, T, w) /\ lo <= T /\ lo < S /\ Lo(S, T, w) = lo
  <2>1. Lo(T, T, w) = IF T > w THEN T - w ELSE 0
    BY DEF Lo
  <2>2. Lo(S, T, w) = IF T > w THEN T - w ELSE 0
    BY DEF Lo
  <2>3. Lo(T, T, w) \in Nat /\ Lo(T, T, w) <= T /\ Lo(T, T, w) < S
    BY <2>1, Sizes
  <2> QED BY <2>1, <2>2, <2>3
<1>2. Size(p) \in Nat
  BY SizeIs
<1>3. IsSeq(Slice(p, lo, T)) /\ Size(Slice(p, lo, T)) = T - lo
  BY <1>1, <1>2, SliceIs
<1>4. PICK m \in Nat : m = (T - lo) - (T - S) /\ lo + m = S /\ m <= T - lo
  <2>1. (T - lo) - (T - S) \in Nat /\ lo + ((T - lo) - (T - S)) = S /\ (T - lo) - (T - S) <= T - lo
    BY <1>1
  <2> QED BY <2>1
<1>5. Slice(Slice(p, lo, T), 0, m) = Slice(p, lo + 0, lo + m)
  BY <1>1, <1>4, SliceOfSlice
<1>6. lo + 0 = lo /\ T - lo > T - S
  BY <1>1
<1> QED BY <1>1, <1>3, <1>4, <1>5, <1>6

LEMMA CutIs ==
  ASSUME NEW rows, NEW cut
  PROVE  Cut(rows, cut) = [k \in {k \in DOMAIN rows : Size(rows[k]) > cut} |-> Slice(rows[k], 0, Size(rows[k]) - cut)]
BY DEF Cut, Size

\* The seeds of a request that goes on at S are the tails of the saved state without their last rows.
LEMMA CutTrue ==
  ASSUME NEW p, IsSeq(p), NEW li, NEW T \in Nat, NEW S \in Nat, 0 < S, S <= T, T <= S + Keep, T <= Size(p)
  PROVE  Cut(TrueRows(p, li, T, T), T - S) = TrueRows(p, li, T, S)
<1> DEFINE rows == TrueRows(p, li, T, T)
           cut == [k \in {k \in DOMAIN rows : Size(rows[k]) > T - S} |-> Slice(rows[k], 0, Size(rows[k]) - (T - S))]
<1>1. DOMAIN rows = KindsOf(li) /\ \A k \in KindsOf(li) : rows[k] = Slice(p, Lo(T, T, TailOf(k)), T)
  BY DEF TrueRows
<1>2. ASSUME NEW k \in KindsOf(li)
      PROVE  Size(rows[k]) > T - S /\ Slice(rows[k], 0, Size(rows[k]) - (T - S)) = Slice(p, Lo(S, T, TailOf(k)), S)
  <2>1. PICK w \in Nat : w = TailOf(k) /\ w > Keep
    BY TailIs
  <2>2. rows[k] = Slice(p, Lo(T, T, w), T)
    BY <1>1, <2>1
  <2> HIDE DEF rows
  <2> QED BY <2>1, <2>2, CutOfTail
<1> HIDE DEF rows
<1>3. cut = [k \in KindsOf(li) |-> Slice(p, Lo(S, T, TailOf(k)), S)]
  BY <1>1, <1>2
<1>4. Cut(rows, T - S) = cut
  BY CutIs
<1> QED BY <1>3, <1>4 DEF TrueRows, rows

\* What the accumulators are seeded with.
LEMMA SeedKvIs ==
  ASSUME NEW rows, NEW S
  PROVE  LET a == SeedKv(rows, S)
         IN  IsKv(a) /\ a.tail = LastRows(rows, Win + Keep) /\ a.snaps = Empty /\ a.next = S /\ a.gaps = FALSE
<1> DEFINE a == SeedKv(rows, S)
<1>1. DOMAIN NewKv = KvFields /\ NewKv.snaps = Empty /\ NewKv.gaps = FALSE
  BY DEF NewKv, KvFields
<1>2. a = [NewKv EXCEPT !.tail = LastRows(rows, Win + Keep), !.next = S]
  BY DEF SeedKv
<1>3. DOMAIN a = KvFields /\ a = [x \in KvFields |-> a[x]]
  BY <1>1, <1>2
<1>4. a.tail = LastRows(rows, Win + Keep) /\ a.next = S /\ a.snaps = NewKv.snaps /\ a.gaps = NewKv.gaps
  BY <1>1, <1>2 DEF KvFields
<1> QED BY <1>1, <1>3, <1>4 DEF IsKv

\* An accumulator seeded from a true tail lacks nothing.
LEMMA SeedKvTrue ==
  ASSUME NEW p, IsSeq(p), NEW T \in Nat, NEW S \in Nat, S <= T, T <= S + Keep, S <= Size(p)
  PROVE  SeedKv(Slice(p, Lo(S, T, Win + Keep), S), S) = TrueKv(p, S, T, S)
<1>1. PICK w \in Nat : w = Win + Keep /\ T <= S + w
  BY Sizes
<1>2. PICK lo \in Nat : lo = Lo(S, T, w) /\ lo <= S /\ S - lo <= w
  <2>1. Lo(S, T, w) \in Nat /\ Lo(S, T, w) <= S
    BY <1>1, LoIs
  <2>2. S - Lo(S, T, w) <= w
    BY <1>1 DEF Lo
  <2> QED BY <2>1, <2>2
<1>3. Size(p) \in Nat
  BY SizeIs
<1>4. IsSeq(Slice(p, lo, S)) /\ Size(Slice(p, lo, S)) = S - lo
  BY <1>2, <1>3, SliceIs
<1>5. LastRows(Slice(p, lo, S), w) = Slice(p, lo, S)
  BY <1>2, <1>4, LastAll
<1>6. Boundaries(S, S) = {}
  BY BoundaryIs
<1>7. [b \in Boundaries(S, S) |-> TrueWindow(p, b)] = Empty
  BY <1>6 DEF Empty
<1>8. PICK rows : rows = Slice(p, lo, S)
  OBVIOUS
<1> DEFINE a == SeedKv(rows, S)
           b == TrueKv(p, S, T, S)
<1>9. IsKv(a) /\ a.tail = rows /\ a.snaps = Empty /\ a.next = S /\ a.gaps = FALSE
  BY <1>1, <1>5, <1>8, SeedKvIs
<1>10. IsKv(b) /\ b.tail = rows /\ b.snaps = Empty /\ b.next = S /\ b.gaps = FALSE
  BY <1>1, <1>2, <1>7, <1>8, TrueKvIs DEF TrueKv
<1> HIDE DEF a, b
<1>11. a = b
  BY <1>9, <1>10, SameKv
<1> QED BY <1>1, <1>2, <1>8, <1>11 DEF a, b

\* The tail of a pool at S reaches back over the open window and, for the overlapping compressor, over the one before.
LEMMA TailRoom ==
  ASSUME NEW kind \in {"c4", "c128"}, NEW T \in Nat, NEW S \in Nat, S <= T, T <= S + Keep
  PROVE  LET r == Ratio(kind)
             lo == Lo(S, T, TailRaw + Keep)
         IN  /\ S % r \in Nat /\ lo <= S - (S % r)
             /\ kind = "c4" /\ S - (S % r) >= R4 => lo <= S - (S % r) - R4
             /\ kind = "c4" => (S - (S % r) >= R4 <=> S >= r)
<1>1. PICK r \in Nat : r = Ratio(kind) /\ r >= 1 /\ (kind = "c4" => r = R4) /\ (kind = "c128" => r = R128)
  BY RatioIs DEF Ratio
<1>2. PICK m \in Nat : m = S % r /\ m < r
  BY <1>1, DivMod
<1>3. PICK q \in Nat : S = q * r + m
  <2>1. S \div r \in Nat /\ S = (S \div r) * r + (S % r)
    BY <1>1, DivMod
  <2> QED BY <1>2, <2>1
<1>4. PICK o \in Nat : o = q * r /\ S = o + m
  <2>1. q * r \in Nat
    BY Z3
  <2> QED BY <1>3, <2>1
<1>5. o >= r <=> S >= r
  <2>1. CASE q = 0
    <3>1. o = 0
      BY <1>4, <2>1, Z3
    <3> QED BY <1>1, <1>2, <1>4, <3>1
  <2>2. CASE q >= 1
    <3>1. 1 * r <= q * r
      BY <2>2, TimesLe
    <3>2. r <= o
      BY <1>1, <1>4, <3>1
    <3> QED BY <1>4, <3>2
  <2> QED BY <2>1, <2>2
<1>6. PICK w \in Nat : w = TailRaw + Keep /\ w >= Keep + (R128 + R4 - 1) /\ w >= Keep + (2 * R4 - 1)
  BY Sizes
<1>7. Lo(S, T, w) = IF T > w THEN T - w ELSE 0
  BY DEF Lo
<1>8. kind = "c4" => r = R4
  BY <1>1
<1>9. kind = "c128" => r = R128
  BY <1>1
<1>10. R4 \in Nat /\ R4 >= 1 /\ R128 \in Nat /\ R128 >= 1 /\ Keep \in Nat
  BY Sizes
<1>11. Keep + m <= w /\ S - m \in Nat
  <2>1. CASE kind = "c4"
    BY <1>2, <1>4, <1>6, <1>8, <1>10, <2>1
  <2>2. CASE kind = "c128"
    BY <1>2, <1>4, <1>6, <1>9, <1>10, <2>2
  <2> QED BY <2>1, <2>2
<1>14. Lo(S, T, w) <= S - m
  BY <1>4, <1>6, <1>7, <1>10, <1>11
<1>12. kind = "c4" /\ S - m >= R4 => Lo(S, T, w) <= S - m - R4
  <2> HAVE kind = "c4" /\ S - m >= R4
  <2>1. Keep + m + R4 <= w
    BY <1>2, <1>6, <1>8, <1>10
  <2> QED BY <1>4, <1>6, <1>7, <1>10, <2>1
<1>13. kind = "c4" => (S - m >= R4 <=> S >= r)
  BY <1>1, <1>4, <1>5
<1> QED BY <1>1, <1>2, <1>6, <1>12, <1>13, <1>14

LEMMA SamePool ==
  ASSUME NEW a, NEW b, IsPool(a), IsPool(b), a.tail = b.tail, a.prev = b.prev, a.pooled = b.pooled, a.shipped = b.shipped,
         a.carry = b.carry, a.next = b.next
  PROVE  a = b
<1>1. \A x \in PoolFields : a[x] = b[x]
  BY DEF PoolFields
<1>2. [x \in PoolFields |-> a[x]] = [x \in PoolFields |-> b[x]]
  BY <1>1
<1> QED BY <1>2 DEF IsPool

CarryOf(kind, rows, S) ==
  LET rem == S % Ratio(kind)
      n == Size(rows)
  IN  [buf |-> Slice(rows, n - rem, n),
       prev |-> IF kind = "c4" /\ S - rem >= R4 THEN Slice(rows, n - rem - R4, n - rem) ELSE <<>>, processed |-> S]

LEMMA SeedPoolIs ==
  ASSUME NEW kind, NEW rows, NEW S
  PROVE  LET a == SeedPool(kind, rows, S)
         IN  /\ IsPool(a) /\ a.tail = LastRows(rows, TailRaw + Keep) /\ a.prev = Empty /\ a.pooled = <<>> /\ a.shipped = 0
             /\ a.carry = CarryOf(kind, rows, S) /\ a.next = S
<1> DEFINE a == SeedPool(kind, rows, S)
           c == CarryOf(kind, rows, S)
<1>1. DOMAIN NewPool = PoolFields /\ NewPool.prev = Empty /\ NewPool.pooled = <<>> /\ NewPool.shipped = 0
  BY DEF NewPool, PoolFields
<1>2. a = [NewPool EXCEPT !.tail = LastRows(rows, TailRaw + Keep), !.next = S, !.carry = c]
  BY DEF SeedPool, CarryOf, Size
<1> HIDE DEF c
<1>3. DOMAIN a = PoolFields /\ a = [x \in PoolFields |-> a[x]]
  BY <1>1, <1>2
<1>4. a.tail = LastRows(rows, TailRaw + Keep) /\ a.next = S /\ a.carry = c
  BY <1>1, <1>2 DEF PoolFields
<1>5. a.prev = NewPool.prev /\ a.pooled = NewPool.pooled /\ a.shipped = NewPool.shipped
  BY <1>1, <1>2 DEF PoolFields
<1> QED BY <1>1, <1>3, <1>4, <1>5 DEF IsPool, c

LEMMA SeedPoolTrue ==
  ASSUME NEW kind \in {"c4", "c128"}, NEW p, IsSeq(p), NEW T \in Nat, NEW S \in Nat, S <= T, T <= S + Keep, S <= Size(p)
  PROVE  SeedPool(kind, Slice(p, Lo(S, T, TailRaw + Keep), S), S) = TruePool(kind, p, S, 0, T, S)
<1>1. PICK w \in Nat : w = TailRaw + Keep /\ T <= S + w
  BY Sizes
<1>2. PICK lo \in Nat : lo = Lo(S, T, w) /\ lo <= S /\ S - lo <= w
  <2>1. Lo(S, T, w) \in Nat /\ Lo(S, T, w) <= S
    BY <1>1, LoIs
  <2>2. S - Lo(S, T, w) <= w
    BY <1>1 DEF Lo
  <2> QED BY <2>1, <2>2
<1>3. Size(p) \in Nat
  BY SizeIs
<1>4. PICK rows : rows = Slice(p, lo, S) /\ IsSeq(rows) /\ Size(rows) = S - lo
  BY <1>2, <1>3, SliceIs
<1>5. LastRows(rows, w) = rows
  BY <1>2, <1>4, LastAll
<1>6. PICK r \in Nat : r = Ratio(kind) /\ r >= 1 /\ (kind = "c4" => r = R4)
  BY RatioIs DEF Ratio
<1>7. PICK m \in Nat : /\ m = S % r /\ lo <= S - m /\ m <= S
                       /\ kind = "c4" /\ S - m >= R4 => lo <= S - m - R4
                       /\ kind = "c4" => (S - m >= R4 <=> S >= r)
  <2>1. /\ S % r \in Nat /\ lo <= S - (S % r)
        /\ kind = "c4" /\ S - (S % r) >= R4 => lo <= S - (S % r) - R4
        /\ kind = "c4" => (S - (S % r) >= R4 <=> S >= r)
    BY <1>1, <1>2, <1>6, TailRoom
  <2>2. PICK m \in Nat : m = S % r
    BY <2>1
  <2>3. m <= S
    BY <1>2, <2>1, <2>2
  <2> QED BY <2>1, <2>2, <2>3
<1>8. \A a, b \in Nat : lo <= a /\ a <= b /\ b <= S => Slice(rows, (S - lo) - (S - a), (S - lo) - (S - b)) = Slice(p, a, b)
  <2> TAKE a, b \in Nat
  <2> HAVE lo <= a /\ a <= b /\ b <= S
  <2>1. PICK c, d \in Nat : c = (S - lo) - (S - a) /\ d = (S - lo) - (S - b) /\ lo + c = a /\ lo + d = b /\ c <= d /\ d <= S - lo
    <3>1. (S - lo) - (S - a) = a - lo /\ (S - lo) - (S - b) = b - lo /\ a - lo \in Nat /\ b - lo \in Nat
      OBVIOUS
    <3> QED BY <3>1
  <2>2. Slice(Slice(p, lo, S), c, d) = Slice(p, lo + c, lo + d)
    <3>1. lo <= S /\ S <= Size(p) /\ c <= d /\ d <= S - lo
      BY <1>2, <2>1
    <3> QED BY ONLY <3>1, IsSeq(p), lo \in Nat, S \in Nat, c \in Nat, d \in Nat, SliceOfSlice
  <2> QED BY <1>4, <2>1, <2>2
<1>9. Slice(rows, Size(rows) - m, Size(rows)) = Slice(p, S - m, S)
  <2>1. PICK a \in Nat : a = S - m /\ lo <= a /\ a <= S
    BY <1>7
  <2>2. Slice(rows, (S - lo) - (S - a), (S - lo) - (S - S)) = Slice(p, a, S)
    BY <1>8, <2>1
  <2>3. (S - lo) - (S - a) = (S - lo) - m /\ (S - lo) - (S - S) = S - lo
    BY <1>2, <2>1
  <2> QED BY <1>4, <2>1, <2>2, <2>3
<1>10. kind = "c4" /\ S - m >= R4 => Slice(rows, Size(rows) - m - R4, Size(rows) - m) = Slice(p, S - m - R4, S - m)
  <2> HAVE kind = "c4" /\ S - m >= R4
  <2>1. R4 \in Nat
    BY Sizes
  <2>2. PICK a, b \in Nat : a = S - m - R4 /\ b = S - m /\ lo <= a /\ a <= b /\ b <= S
    <3>1. S - m - R4 \in Nat /\ S - m \in Nat /\ S - m - R4 <= S - m /\ S - m <= S
      BY <1>7, <2>1
    <3> QED BY <1>7, <3>1
  <2>3. Slice(rows, (S - lo) - (S - a), (S - lo) - (S - b)) = Slice(p, a, b)
    BY <1>8, <2>2
  <2>4. (S - lo) - (S - a) = (S - lo) - m - R4 /\ (S - lo) - (S - b) = (S - lo) - m
    BY <1>2, <1>7, <2>1, <2>2
  <2> QED BY <1>4, <2>2, <2>3, <2>4
<1>11. Boundaries(S, S) = {}
  BY BoundaryIs
<1>12. [b \in (IF kind = "c4" THEN Boundaries(S, S) ELSE {}) |-> TruePrev(kind, p, b)] = Empty
  <2>1. (IF kind = "c4" THEN Boundaries(S, S) ELSE {}) = {}
    BY <1>11
  <2> QED BY <2>1 DEF Empty
<1>13. PooledFrom(kind, p, S, S) = <<>> /\ 0 \div r = 0
  <2>1. PICK q \in Nat : q = S \div r
    BY <1>6, DivMod
  <2>2. IsSeq(TruePooled(kind, p, q)) /\ Size(TruePooled(kind, p, q)) = q
    BY PooledIs
  <2>3. 0 \div r = 0
    <3>1. 0 = 0 * r + 0
      BY Z3
    <3> QED BY <1>6, <3>1, DivOnly
  <2> QED BY <1>6, <2>1, <2>2, <2>3, SliceEnds DEF PooledFrom
<1>14. TrueCarry(kind, p, S) = [buf |-> Slice(p, S - m, S), prev |-> IF kind = "c4" /\ S >= r THEN Slice(p, S - m - r, S - m) ELSE <<>>,
          processed |-> S]
  BY <1>6, <1>7 DEF TrueCarry
<1>15. CarryOf(kind, rows, S) = TrueCarry(kind, p, S)
  <2>1. CASE kind = "c4" /\ S - m >= R4
    <3>1. S >= r /\ Slice(rows, Size(rows) - m - R4, Size(rows) - m) = Slice(p, S - m - r, S - m)
      BY <1>6, <1>7, <1>10, <2>1
    <3> QED BY <1>6, <1>7, <1>9, <1>14, <2>1, <3>1 DEF CarryOf
  <2>2. CASE ~(kind = "c4" /\ S - m >= R4)
    <3>1. ~(kind = "c4" /\ S >= r)
      BY <1>7, <2>2
    <3> QED BY <1>6, <1>7, <1>9, <1>14, <2>2, <3>1 DEF CarryOf
  <2> QED BY <2>1, <2>2
<1> DEFINE a == SeedPool(kind, rows, S)
           b == TruePool(kind, p, S, 0, T, S)
<1>16. /\ IsPool(a) /\ a.tail = rows /\ a.prev = Empty /\ a.pooled = <<>> /\ a.shipped = 0
       /\ a.carry = TrueCarry(kind, p, S) /\ a.next = S
  BY <1>1, <1>5, <1>15, SeedPoolIs
<1>17. /\ IsPool(b) /\ b.tail = rows /\ b.prev = Empty /\ b.pooled = <<>> /\ b.shipped = 0
       /\ b.carry = TrueCarry(kind, p, S) /\ b.next = S
  BY <1>1, <1>2, <1>4, <1>6, <1>12, <1>13, TruePoolIs DEF TruePool
<1> HIDE DEF a, b
<1>18. a = b
  BY <1>16, <1>17, SamePool
<1> QED BY <1>1, <1>2, <1>4, <1>18 DEF a, b

\* The accumulators that ingest makes from the seeds of a layer.
LEMMA SeedTrue ==
  ASSUME NEW r, NEW li \in Layers, NEW p, IsSeq(p), NEW T \in Nat, NEW S \in Nat, S <= T, T <= S + Keep, S <= Size(p),
         li \notin DOMAIN r.layers, li \in DOMAIN r.seeds, r.seeds[li] = TrueRows(p, li, T, S), r.resume = S, NEW start
  PROVE  /\ KvOf(r, li, SeedOf(r, li)) = TrueKv(p, S, T, S)
         /\ \A k \in PoolsOf(li) : PoolOf(r, li, k, SeedOf(r, li), start) = TruePool(Kind[li], p, S, 0, T, S)
<1>1. PICK seed : seed = SeedOf(r, li) /\ seed = TrueRows(p, li, T, S)
  BY DEF SeedOf
<1>2. DOMAIN seed = KindsOf(li) /\ \A k \in KindsOf(li) : seed[k] = Slice(p, Lo(S, T, TailOf(k)), S)
  BY <1>1 DEF TrueRows
<1>3. "kv" \in KindsOf(li) /\ TailOf("kv") = Win + Keep
  BY DEF KindsOf, TailOf
<1>4. KvOf(r, li, seed) = SeedKv(seed["kv"], S)
  BY <1>2, <1>3 DEF KvOf
<1>5. KvOf(r, li, seed) = TrueKv(p, S, T, S)
  <2>1. seed["kv"] = Slice(p, Lo(S, T, Win + Keep), S)
    BY <1>2, <1>3
  <2> QED BY <1>4, <2>1, SeedKvTrue
<1>6. ASSUME NEW k \in PoolsOf(li) PROVE PoolOf(r, li, k, seed, start) = TruePool(Kind[li], p, S, 0, T, S)
  <2>1. k \in KindsOf(li) /\ k # "kv" /\ Kind[li] \in {"c4", "c128"}
    BY PoolKinds DEF KindsOf
  <2>2. PoolOf(r, li, k, seed, start) = SeedPool(Kind[li], seed[k], S)
    BY <1>2, <2>1 DEF PoolOf
  <2>3. seed[k] = Slice(p, Lo(S, T, TailRaw + Keep), S)
    BY <1>2, <2>1 DEF TailOf
  <2> QED BY <2>1, <2>2, <2>3, SeedPoolTrue
<1> QED BY <1>1, <1>5, <1>6
=============================================================================
