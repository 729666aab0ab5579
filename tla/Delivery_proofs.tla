--------------------------- MODULE Delivery_proofs ---------------------------
(***************************************************************************)
(* What the client gets of a message, for messages of any number of lines  *)
(* of any length, cut in pieces anywhere and sent in parts of any length.  *)
(* Byte-stuffing is followed byte by byte (StuffAppend), then piece by     *)
(* piece: where dothack can tell the dots, what it makes of the pieces is  *)
(* what it would make of the whole (StuffPieces).  SendInv is what the     *)
(* socket layer has been told and what it has sent, AnswerInv what it has  *)
(* been told and what the website has delivered, TopInv what tophack has   *)
(* counted of it.                                                          *)
(***************************************************************************)
EXTENDS Delivery, FiniteSetTheorems, SequenceTheorems, WellFoundedInduction, TLAPS

(* Induction over the naturals, of what a set of them has: the minimal one  *)
(* that it does not have is not 0, nor the successor of one that it has     *)
LEMMA SetInduction ==
  ASSUME NEW T, 0 \in T, \A n \in Nat : n \in T => n + 1 \in T
  PROVE  Nat \subseteq T
<1> DEFINE R == OpToRel(<, Nat)
           U == Nat \ T
<1>1. IsWellFoundedOn(R, Nat)
  BY NatLessThanWellFounded
<1>2. \A x, y \in Nat : x < y => <<x, y>> \in R
  BY DEF OpToRel
<1> HIDE DEF R
<1> SUFFICES ASSUME U # {} PROVE FALSE
  OBVIOUS
<1>3. PICK x \in U : \A y \in U : ~(<<y, x>> \in R)
  <2>1. U \subseteq Nat /\ U # {}
    OBVIOUS
  <2> HIDE DEF U
  <2> QED BY <1>1, <2>1, WFMin
<1>4. x # 0 /\ x \in Nat
  OBVIOUS
<1>5. x - 1 \in Nat /\ x - 1 < x /\ (x - 1) + 1 = x
  BY <1>4
<1>6. x - 1 \in T
  BY <1>2, <1>3, <1>4, <1>5
<1> QED
  BY <1>5, <1>6

(* What FlattenSeq goes by: what the elements up to each one come to        *)
Added(s, f, i)  == IF i = 1 THEN s[i] ELSE f[i - 1] \o s[i]
Flattens(s, f) == f = [i \in 1 .. Len(s) |-> Added(s, f, i)]

(* There is such a function: up to each length, by induction *)
LEMMA FlattensExists ==
  ASSUME NEW S, NEW s \in Seq(Seq(S))
  PROVE  \E f : Flattens(s, f) /\ f \in [1 .. Len(s) -> Seq(S)]
<1> DEFINE n == Len(s)
           Upto(m) == \E f \in [1 .. m -> Seq(S)] : \A i \in 1 .. m : f[i] = Added(s, f, i)
           T == {m \in Nat : m <= n => Upto(m)}
<1>1. n \in Nat
  OBVIOUS
<1>2. 0 \in T
  <2> DEFINE f == [i \in 1 .. 0 |-> <<>>]
  <2>1. 1 .. 0 = {}
    OBVIOUS
  <2>2. f \in [1 .. 0 -> Seq(S)] /\ \A i \in 1 .. 0 : f[i] = Added(s, f, i)
    BY <2>1
  <2> QED BY <2>2
<1>3. ASSUME NEW m \in Nat, m \in T
      PROVE  m + 1 \in T
  <2> SUFFICES ASSUME m + 1 <= n PROVE Upto(m + 1)
    BY SMTT(30)
  <2>1. m < n /\ m <= n /\ m + 1 \in 1 .. n /\ (m + 1) - 1 = m
    BY <1>1
  <2>2. PICK f \in [1 .. m -> Seq(S)] : \A i \in 1 .. m : f[i] = Added(s, f, i)
    BY <1>3, <2>1
  <2> DEFINE x == Added(s, f, m + 1)
             g == [i \in 1 .. m + 1 |-> IF i = m + 1 THEN x ELSE f[i]]
  <2>3. x \in Seq(S)
    <3>1. s[m + 1] \in Seq(S)
      BY <2>1
    <3>2. CASE m = 0
      BY <3>1, <3>2 DEF Added
    <3>3. CASE m # 0
      <4>1. m \in 1 .. m /\ m + 1 # 1
        BY <3>3
      <4>2. f[m] \in Seq(S)
        BY <4>1
      <4>3. x = f[m] \o s[m + 1]
        BY <2>1, <4>1 DEF Added
      <4> QED BY <3>1, <4>2, <4>3, ConcatProperties
    <3> QED BY <3>2, <3>3
  <2> HIDE DEF x
  <2>4. \A i \in 1 .. m + 1 : i = m + 1 \/ i \in 1 .. m
    OBVIOUS
  <2>5. g \in [1 .. m + 1 -> Seq(S)]
    BY <2>3, <2>4
  <2>6. \A i \in 1 .. m : g[i] = f[i]
    OBVIOUS
  <2>7. g[m + 1] = x
    OBVIOUS
  <2> HIDE DEF g
  <2>8. \A i \in 1 .. m + 1 : Added(s, g, i) = Added(s, f, i)
    <3> SUFFICES ASSUME NEW i \in 1 .. m + 1, i # 1 PROVE g[i - 1] = f[i - 1]
      BY DEF Added
    <3>1. i - 1 \in 1 .. m
      OBVIOUS
    <3> QED BY <2>6, <3>1
  <2>9. \A i \in 1 .. m + 1 : g[i] = Added(s, g, i)
    BY <2>2, <2>4, <2>6, <2>7, <2>8 DEF x
  <2> QED BY <2>5, <2>9
<1>4. Upto(n)
  <2> HIDE DEF Upto
  <2>1. 0 \in T /\ \A m \in Nat : m \in T => m + 1 \in T
    BY <1>2, <1>3
  <2> HIDE DEF T
  <2>2. Nat \subseteq T
    BY <2>1, SetInduction
  <2>3. n \in T
    BY <1>1, <2>2
  <2> QED BY <1>1, <2>3 DEF T
<1>5. PICK f \in [1 .. n -> Seq(S)] : \A i \in 1 .. n : f[i] = Added(s, f, i)
  BY <1>4
<1> QED
  BY <1>5 DEF Flattens

(* There is only one, and it depends on what comes before only *)
LEMMA FlattensUnique ==
  ASSUME NEW s, NEW t, NEW f, NEW g, Flattens(s, f), Flattens(t, g),
         Len(s) \in Nat, Len(t) \in Nat, Len(s) <= Len(t),
         \A i \in 1 .. Len(s) : s[i] = t[i]
  PROVE  \A i \in 1 .. Len(s) : f[i] = g[i]
<1> DEFINE T == {m \in Nat : m \in 1 .. Len(s) => f[m] = g[m]}
<1>1. 0 \in T
  OBVIOUS
<1>2. ASSUME NEW m \in Nat, m \in T
      PROVE  m + 1 \in T
  <2> SUFFICES ASSUME m + 1 \in 1 .. Len(s) PROVE f[m + 1] = g[m + 1]
    OBVIOUS
  <2>1. m + 1 \in 1 .. Len(t) /\ s[m + 1] = t[m + 1] /\ (m + 1) - 1 = m
    OBVIOUS
  <2>2. f[m + 1] = Added(s, f, m + 1) /\ g[m + 1] = Added(t, g, m + 1)
    BY <2>1 DEF Flattens
  <2>3. m + 1 = 1 \/ f[m] = g[m]
    BY <1>2
  <2> QED BY <2>1, <2>2, <2>3 DEF Added
<1> HIDE DEF T
<1>3. Nat \subseteq T
  BY <1>1, <1>2, SetInduction
<1> QED
  BY <1>3 DEF T

(* So FlattenSeq, which chooses one, is its last value *)
LEMMA FlattenSeqIs ==
  ASSUME NEW S, NEW s \in Seq(Seq(S)), Len(s) > 0
  PROVE  \E f : Flattens(s, f) /\ f \in [1 .. Len(s) -> Seq(S)] /\ FlattenSeq(s) = f[Len(s)]
<1> DEFINE flatten == CHOOSE f : f = [i \in 1 .. Len(s) |-> IF i = 1 THEN s[i] ELSE f[i - 1] \o s[i]]
<1>1. PICK f : Flattens(s, f) /\ f \in [1 .. Len(s) -> Seq(S)]
  BY FlattensExists
<1>2. f = [i \in 1 .. Len(s) |-> IF i = 1 THEN s[i] ELSE f[i - 1] \o s[i]]
  BY <1>1 DEF Flattens, Added
<1>3. flatten = [i \in 1 .. Len(s) |-> IF i = 1 THEN s[i] ELSE flatten[i - 1] \o s[i]]
  BY <1>2, Zenon
<1>4. FlattenSeq(s) = flatten[Len(s)]
  <2>1. ~(Len(s) = 0)
    OBVIOUS
  <2> QED BY <2>1, Zenon DEF FlattenSeq
<1> HIDE DEF flatten
<1>5. Flattens(s, flatten)
  BY <1>3 DEF Flattens, Added
<1>6. \A i \in 1 .. Len(s) : f[i] = flatten[i]
  <2>1. Len(s) \in Nat /\ Len(s) <= Len(s)
    OBVIOUS
  <2> QED BY <1>1, <1>5, <2>1, FlattensUnique
<1>7. flatten \in [1 .. Len(s) -> Seq(S)]
  BY <1>1, <1>3, <1>6
<1> QED
  BY <1>4, <1>5, <1>7

(* FlattenSeq of no sequence *)
LEMMA FlattenNone == FlattenSeq(<<>>) = <<>>
<1>1. Len(<<>>) = 0
  OBVIOUS
<1> QED
  BY <1>1, Zenon DEF FlattenSeq

(* FlattenSeq of sequences over S is a sequence over S *)
LEMMA FlattenType ==
  ASSUME NEW S, NEW s \in Seq(Seq(S))
  PROVE  FlattenSeq(s) \in Seq(S)
<1>1. CASE s = <<>>
  <2>1. FlattenSeq(s) = <<>> /\ <<>> \in Seq(S)
    BY <1>1, FlattenNone
  <2> QED BY <2>1
<1>2. CASE s # <<>>
  <2>1. Len(s) > 0 /\ Len(s) \in 1 .. Len(s)
    BY <1>2, EmptySeq
  <2> QED BY <2>1, FlattenSeqIs
<1> QED
  BY <1>1, <1>2

(* FlattenSeq of a sequence with one more element                           *)
LEMMA FlattenAppend ==
  ASSUME NEW S, NEW s \in Seq(Seq(S)), NEW x \in Seq(S)
  PROVE  FlattenSeq(Append(s, x)) = FlattenSeq(s) \o x
<1> DEFINE Q == Seq(S)
           t == Append(s, x)
<1>1. t \in Seq(Q) /\ Len(t) = Len(s) + 1 /\ Len(s) \in Nat /\ t[Len(t)] = x
      /\ \A i \in 1 .. Len(s) : t[i] = s[i]
  <2> HIDE DEF Q
  <2> QED BY DEF Q
<1> HIDE DEF t
<1>2. PICK g : Flattens(t, g) /\ FlattenSeq(t) = g[Len(t)]
  BY <1>1, FlattenSeqIs
<1>3. g[Len(t)] = Added(t, g, Len(t))
  <2>1. Len(t) \in 1 .. Len(t)
    BY <1>1
  <2> QED BY <1>2, <2>1, Zenon DEF Flattens
<1>4. CASE s = <<>>
  <2>1. Len(t) = 1
    BY <1>1, <1>4
  <2> QED BY <1>1, <1>2, <1>3, <1>4, <2>1, FlattenNone, ConcatEmptySeq DEF Added, t
<1>5. CASE s # <<>>
  <2>1. Len(s) > 0 /\ Len(s) \in 1 .. Len(s)
    BY <1>1, <1>5, EmptySeq
  <2>2. PICK f : Flattens(s, f) /\ FlattenSeq(s) = f[Len(s)]
    BY <2>1, FlattenSeqIs
  <2>3. f[Len(s)] = g[Len(s)]
    <3>1. Len(s) \in Nat /\ Len(t) \in Nat /\ Len(s) <= Len(t)
      BY <1>1
    <3>2. \A i \in 1 .. Len(s) : f[i] = g[i]
      <4>1. \A i \in 1 .. Len(s) : s[i] = t[i]
        BY <1>1
      <4>2. Flattens(s, f) /\ Flattens(t, g)
        BY <1>2, <2>2
      <4> QED BY <3>1, <4>1, <4>2, FlattensUnique
    <3> QED BY <2>1, <3>2
  <2>4. Len(t) # 1 /\ Len(t) - 1 = Len(s)
    BY <1>1, <2>1
  <2> QED BY <1>1, <1>2, <1>3, <2>2, <2>3, <2>4 DEF Added, t
<1> QED
  BY <1>4, <1>5


-----------------------------------------------------------------------------
(* Where a pattern is *)

(* A stretch of a sequence that is inside it                                *)
LEMMA StretchIs ==
  ASSUME NEW S, NEW s \in Seq(S), NEW i \in Int, NEW j \in Int, 1 <= i, i <= j + 1, j <= Len(s)
  PROVE  /\ SubSeq(s, i, j) \in Seq(S) /\ Len(SubSeq(s, i, j)) = j - i + 1
         /\ \A k \in 1 .. j - i + 1 : SubSeq(s, i, j)[k] = s[i + k - 1]
<1>1. \A k \in i .. j : s[k] \in S
  <2> SUFFICES ASSUME NEW k \in i .. j PROVE k \in 1 .. Len(s)
    OBVIOUS
  <2> QED OBVIOUS
<1>2. /\ SubSeq(s, i, j) \in Seq(S)
      /\ Len(SubSeq(s, i, j)) = IF i <= j THEN j - i + 1 ELSE 0
      /\ \A k \in 1 .. j - i + 1 : SubSeq(s, i, j)[k] = s[i + k - 1]
  BY <1>1, SubSeqProperties
<1> QED
  BY <1>2

(* Sequences of the same length with the same elements                      *)
LEMMA Same ==
  ASSUME NEW S, NEW s \in Seq(S), NEW T, NEW t \in Seq(T), Len(s) = Len(t),
         \A k \in 1 .. Len(s) : s[k] = t[k]
  PROVE  s = t
OBVIOUS

(* p begins at i in s                                                       *)
LEMMA MatchesIs ==
  ASSUME NEW S, NEW s \in Seq(S), NEW P, NEW p \in Seq(P), NEW i
  PROVE  i \in Matches(p, s) <=>
           /\ i \in 1 .. Len(s) - Len(p) + 1
           /\ \A k \in 1 .. Len(p) : s[i + k - 1] = p[k]
<1> SUFFICES ASSUME i \in 1 .. Len(s) - Len(p) + 1
             PROVE  SubSeq(s, i, i + Len(p) - 1) = p <=> \A k \in 1 .. Len(p) : s[i + k - 1] = p[k]
  BY DEF Matches
<1> DEFINE j == i + Len(p) - 1
           t == SubSeq(s, i, j)
<1>1. i \in Int /\ j \in Int /\ 1 <= i /\ i <= j + 1 /\ j <= Len(s) /\ j - i + 1 = Len(p)
  OBVIOUS
<1> HIDE DEF j
<1>2. t \in Seq(S) /\ Len(t) = Len(p) /\ \A k \in 1 .. Len(p) : t[k] = s[i + k - 1]
  BY <1>1, StretchIs
<1> HIDE DEF t
<1>3. t = p <=> \A k \in 1 .. Len(p) : t[k] = p[k]
  BY <1>2, Same
<1>4. t = p <=> \A k \in 1 .. Len(p) : s[i + k - 1] = p[k]
  BY <1>2, <1>3
<1> QED
  BY <1>4 DEF t, j

-----------------------------------------------------------------------------
(* Byte-stuffing, byte by byte *)

LEMMA Bytes ==
  /\ {Cr, Lf, Dot} \subseteq Byte /\ Cr # Lf /\ Cr # Dot /\ Lf # Dot
  /\ Crlf \in Seq(Byte) /\ Len(Crlf) = 2 /\ LoneDot \in Seq(Byte) /\ Len(LoneDot) = 4
  /\ BlankLine \in Seq(Byte) /\ Len(BlankLine) = 4
  /\ BlankLine[1] = Cr /\ BlankLine[2] = Lf /\ BlankLine[3] = Cr /\ BlankLine[4] = Lf
  /\ <<Dot>> \in Seq(Byte) /\ <<Dot, Dot>> \in Seq(Byte) /\ Ok \notin Byte
<1>1. {Cr, Lf, Dot} \subseteq Byte /\ Cr # Lf /\ Cr # Dot /\ Lf # Dot /\ Ok \notin Byte
  BY Characters, OkIsNoByte DEF Byte
<1>2. Crlf \in Seq(Byte) /\ Len(Crlf) = 2 /\ LoneDot \in Seq(Byte) /\ Len(LoneDot) = 4
  BY <1>1 DEF Crlf, LoneDot
<1>3. Crlf[1] = Cr /\ Crlf[2] = Lf
  BY DEF Crlf
<1>4. /\ BlankLine \in Seq(Byte) /\ Len(BlankLine) = 4
      /\ BlankLine[1] = Cr /\ BlankLine[2] = Lf /\ BlankLine[3] = Cr /\ BlankLine[4] = Lf
  <2> DEFINE c == Crlf
             b == c \o c
  <2>1. c \in Seq(Byte) /\ Len(c) = 2 /\ c[1] = Cr /\ c[2] = Lf
    BY <1>2, <1>3
  <2> HIDE DEF c
  <2>2. /\ b \in Seq(Byte) /\ Len(b) = 2 + 2
        /\ \A i \in 1 .. 2 + 2 : b[i] = IF i <= 2 THEN c[i] ELSE c[i - 2]
    BY <2>1, ConcatProperties
  <2>3. b[1] = c[1] /\ b[2] = c[2] /\ b[3] = c[1] /\ b[4] = c[2]
    BY <2>2
  <2> QED BY <2>1, <2>2, <2>3 DEF BlankLine, c
<1>5. <<Dot>> \in Seq(Byte) /\ <<Dot, Dot>> \in Seq(Byte)
  BY <1>1
<1> QED
  BY <1>1, <1>2, <1>3, <1>4, <1>5

LEMMA Longer ==
  ASSUME NEW S, NEW u \in Seq(S), NEW x \in S
  PROVE  /\ Append(u, x) \in Seq(S) /\ Len(Append(u, x)) = Len(u) + 1 /\ Len(u) \in Nat
         /\ \A i \in 1 .. Len(u) : Append(u, x)[i] = u[i]
         /\ Append(u, x)[Len(u) + 1] = x
OBVIOUS

(* Does s have Cr Lf Dot Cr at i? Does it end with Cr Lf Dot, with Cr Lf?     *)
DotAt(s, i) == i \in 1 .. Len(s) - 3 /\ s[i] = Cr /\ s[i + 1] = Lf /\ s[i + 2] = Dot /\ s[i + 3] = Cr
EndsDot(s)  == Len(s) >= 3 /\ s[Len(s) - 2] = Cr /\ s[Len(s) - 1] = Lf /\ s[Len(s)] = Dot
EndsLine(s) == Len(s) >= 2 /\ s[Len(s) - 1] = Cr /\ s[Len(s)] = Lf

LEMMA LoneDotIs ==
  ASSUME NEW S, NEW s \in Seq(S), NEW i
  PROVE  i \in Matches(LoneDot, s) <=> DotAt(s, i)
<1>1. Len(LoneDot) = 4 /\ LoneDot \in Seq(Byte)
  BY Bytes
<1>2. LoneDot[1] = Cr /\ LoneDot[2] = Lf /\ LoneDot[3] = Dot /\ LoneDot[4] = Cr
  BY DEF LoneDot
<1>3. i \in Matches(LoneDot, s) <=>
        i \in 1 .. Len(s) - 3 /\ \A k \in 1 .. 4 : s[i + k - 1] = LoneDot[k]
  <2> DEFINE p == LoneDot
  <2>1. Len(s) - Len(p) + 1 = Len(s) - 3 /\ 1 .. Len(p) = 1 .. 4
    BY <1>1
  <2>2. p \in Seq(Byte)
    BY <1>1
  <2>3. i \in Matches(p, s) <=>
          i \in 1 .. Len(s) - Len(p) + 1 /\ \A k \in 1 .. Len(p) : s[i + k - 1] = p[k]
    <3> HIDE DEF p
    <3> QED BY <2>2, MatchesIs
  <2> HIDE DEF p
  <2>4. i \in Matches(p, s) <=> i \in 1 .. Len(s) - 3 /\ \A k \in 1 .. 4 : s[i + k - 1] = p[k]
    BY <2>1, <2>3
  <2> QED BY <2>4 DEF p
<1>4. ASSUME i \in 1 .. Len(s) - 3
      PROVE  (\A k \in 1 .. 4 : s[i + k - 1] = LoneDot[k]) <=> DotAt(s, i)
  <2>1. /\ 1 .. 4 = {1, 2, 3, 4} /\ i + 1 - 1 = i /\ i + 2 - 1 = i + 1
        /\ i + 3 - 1 = i + 2 /\ i + 4 - 1 = i + 3
    BY <1>4
  <2>2. (\A k \in 1 .. 4 : s[i + k - 1] = LoneDot[k]) <=>
          /\ s[i + 1 - 1] = Cr /\ s[i + 2 - 1] = Lf
          /\ s[i + 3 - 1] = Dot /\ s[i + 4 - 1] = Cr
    BY <1>2, <2>1
  <2> QED BY <1>4, <2>1, <2>2 DEF DotAt
<1> QED
  BY <1>3, <1>4 DEF DotAt

(* What becomes of each byte, and of all                                    *)
Bit(s, i)  == IF DotAt(s, i - 2) THEN <<Dot, Dot>> ELSE <<s[i]>>
Bits(s)    == [i \in 1 .. Len(s) |-> Bit(s, i)]

LEMMA BitsType ==
  ASSUME NEW s \in Seq(Byte)
  PROVE  Bits(s) \in Seq(Seq(Byte)) /\ Len(Bits(s)) = Len(s)
<1> DEFINE n == Len(s)
           Q == Seq(Byte)
<1>1. n \in Nat
  OBVIOUS
<1>2. ASSUME NEW i \in 1 .. n PROVE Bit(s, i) \in Q
  <2>1. s[i] \in Byte
    OBVIOUS
  <2>2. <<s[i]>> \in Q
    BY <2>1
  <2> QED BY <2>2, Bytes DEF Bit
<1> HIDE DEF n, Q
<1>3. [i \in 1 .. n |-> Bit(s, i)] \in [1 .. n -> Q]
  BY <1>2
<1>4. Bits(s) \in [1 .. n -> Q]
  BY <1>3 DEF Bits, n
<1> QED
  BY <1>1, <1>4 DEF n, Q

LEMMA StuffIs ==
  ASSUME NEW s \in Seq(Byte)
  PROVE  Stuff(s) = FlattenSeq(Bits(s)) /\ Stuff(s) \in Seq(Byte)
<1>1. \A i : i \in Matches(LoneDot, s) <=> DotAt(s, i)
  BY LoneDotIs
<1>2. Bits(s) = [i \in 1 .. Len(s) |->
                  IF i - 2 \in Matches(LoneDot, s) THEN <<Dot, Dot>> ELSE <<s[i]>>]
  BY <1>1, Zenon DEF Bits, Bit
<1>3. Stuff(s) = FlattenSeq(Bits(s))
  BY <1>2, Zenon DEF Stuff
<1> QED
  BY <1>3, BitsType, FlattenType

LEMMA StuffNone == Stuff(<<>>) = <<>>
<1>1. Bits(<<>>) = <<>> /\ <<>> \in Seq(Byte)
  BY DEF Bits
<1> QED
  BY <1>1, StuffIs, FlattenNone

(* A byte more: it is appended, and if it makes a line of the dot before it *)
(* that dot is doubled                                                     *)
Adds(u, x) == IF EndsDot(u) /\ x = Cr THEN <<Dot, x>> ELSE <<x>>

LEMMA StuffAppend ==
  ASSUME NEW u \in Seq(Byte), NEW x \in Byte
  PROVE  Stuff(Append(u, x)) = Stuff(u) \o Adds(u, x)
<1> DEFINE v == Append(u, x)
           n == Len(u)
           Q == Seq(Byte)
<1>1. /\ v \in Q /\ Len(v) = n + 1 /\ n \in Nat /\ v[n + 1] = x /\ \A i \in 1 .. n : v[i] = u[i]
  BY Longer
<1>2. /\ Bits(u) \in Seq(Q) /\ Len(Bits(u)) = n /\ \A i \in 1 .. n : Bits(u)[i] = Bit(u, i)
      /\ Bits(v) \in Seq(Q) /\ Len(Bits(v)) = n + 1 /\ \A i \in 1 .. n + 1 : Bits(v)[i] = Bit(v, i)
  <2>1. /\ Bits(u) \in Seq(Q) /\ Len(Bits(u)) = n
        /\ Bits(v) \in Seq(Q) /\ Len(Bits(v)) = n + 1
    BY <1>1, BitsType
  <2>2. \A i \in 1 .. n : Bits(u)[i] = Bit(u, i)
    BY DEF Bits
  <2>3. \A i \in 1 .. n + 1 : Bits(v)[i] = Bit(v, i)
    <3> HIDE DEF v
    <3> QED BY <1>1 DEF Bits
  <2> QED BY <2>1, <2>2, <2>3
<1> HIDE DEF v, Q
<1>3. Stuff(u) = FlattenSeq(Bits(u)) /\ Stuff(v) = FlattenSeq(Bits(v))
  BY <1>1, StuffIs DEF Q
<1>4. ASSUME NEW i \in 1 .. n, i # n \/ ~(EndsDot(u) /\ x = Cr)
      PROVE  Bit(v, i) = Bit(u, i)
  <2>1. DotAt(v, i - 2) <=> DotAt(u, i - 2)
    BY <1>1, <1>4 DEF DotAt, EndsDot
  <2> QED BY <1>1, <2>1 DEF Bit
<1>5. Bit(v, n + 1) = <<x>>
  <2>1. ~DotAt(v, (n + 1) - 2)
    BY <1>1 DEF DotAt
  <2>2. Bit(v, n + 1) = <<v[n + 1]>>
    BY <2>1, Zenon DEF Bit
  <2> QED BY <1>1, <2>2, Zenon
<1>6. <<x>> \in Q
  BY DEF Q
<1>7. CASE ~(EndsDot(u) /\ x = Cr)
  <2>1. Bits(v) = Append(Bits(u), <<x>>)
    <3> DEFINE a == Append(Bits(u), <<x>>)
    <3>1. /\ a \in Seq(Q) /\ Len(a) = n + 1 /\ a[n + 1] = <<x>> /\ \A i \in 1 .. n : a[i] = Bits(u)[i]
      BY <1>2, <1>6, Longer
    <3> HIDE DEF a
    <3>2. \A i \in 1 .. n + 1 : Bits(v)[i] = a[i]
      <4> SUFFICES ASSUME NEW i \in 1 .. n + 1 PROVE Bits(v)[i] = a[i]
        OBVIOUS
      <4>1. i \in 1 .. n \/ i = n + 1
        BY <1>1
      <4>2. CASE i \in 1 .. n
        <5>1. Bit(v, i) = Bit(u, i)
          BY <1>4, <1>7, <4>2
        <5> QED BY <1>2, <3>1, <4>2, <5>1
      <4>3. CASE i = n + 1
        <5>1. Bits(v)[n + 1] = Bit(v, n + 1)
          BY <1>2, <4>3
        <5> QED BY <1>5, <3>1, <4>3, <5>1, Zenon
      <4> QED BY <4>1, <4>2, <4>3
    <3> QED BY <1>2, <3>1, <3>2, SeqEqual DEF a
  <2> QED BY <1>2, <1>3, <1>6, <1>7, <2>1, FlattenAppend DEF Adds, Q, v
<1>8. CASE EndsDot(u) /\ x = Cr
  <2> DEFINE m == n - 1
             f == SubSeq(Bits(u), 1, m)
  <2>1. m \in Nat /\ n >= 3 /\ m + 1 = n
    BY <1>1, <1>8 DEF EndsDot
  <2>2. f \in Seq(Q) /\ Len(f) = m /\ \A i \in 1 .. m : f[i] = Bits(u)[i]
    <3>1. 1 <= m + 1 /\ m <= Len(Bits(u)) /\ m - 1 + 1 = m /\ \A i \in 1 .. m : 1 + i - 1 = i
      BY <1>2, <2>1
    <3> HIDE DEF m
    <3>2. f \in Seq(Q) /\ Len(f) = m - 1 + 1 /\ \A i \in 1 .. m - 1 + 1 : f[i] = Bits(u)[1 + i - 1]
      BY <1>2, <2>1, <3>1, StretchIs
    <3> QED BY <3>1, <3>2
  <2> HIDE DEF f, m
  <2>3. ~DotAt(u, n - 2)
    BY <1>1 DEF DotAt
  <2>4. Bit(u, n) = <<Dot>>
    BY <1>8, <2>3 DEF Bit, EndsDot
  <2>5. DotAt(v, n - 2)
    BY <1>1, <1>8, <2>1 DEF DotAt, EndsDot
  <2>6. Bit(v, n) = <<Dot, Dot>>
    BY <2>5 DEF Bit
  <2>7. <<Dot>> \in Q /\ <<Dot, Dot>> \in Q
    BY Bytes DEF Q
  <2>8. Bits(u) = Append(f, <<Dot>>)
    <3> DEFINE a == Append(f, <<Dot>>)
    <3>1. /\ a \in Seq(Q) /\ Len(a) = m + 1 /\ a[m + 1] = <<Dot>> /\ \A i \in 1 .. m : a[i] = f[i]
      BY <2>2, <2>7, Longer
    <3> HIDE DEF a
    <3>2. \A i \in 1 .. n : Bits(u)[i] = a[i]
      <4> SUFFICES ASSUME NEW i \in 1 .. n PROVE Bits(u)[i] = a[i]
        OBVIOUS
      <4>1. i \in 1 .. m \/ i = n
        BY <2>1
      <4>2. CASE i \in 1 .. m
        BY <2>2, <3>1, <4>2
      <4>3. CASE i = n
        <5>1. Bits(u)[n] = Bit(u, n)
          BY <1>2, <4>3
        <5> QED BY <2>1, <2>4, <3>1, <4>3, <5>1
      <4> QED BY <4>1, <4>2, <4>3
    <3> QED BY <1>2, <2>1, <3>1, <3>2, SeqEqual DEF a
  <2>9. Bits(v) = Append(Append(f, <<Dot, Dot>>), <<x>>)
    <3> DEFINE b == Append(f, <<Dot, Dot>>)
               a == Append(b, <<x>>)
    <3>1. /\ b \in Seq(Q) /\ Len(b) = n /\ b[n] = <<Dot, Dot>> /\ \A i \in 1 .. m : b[i] = f[i]
      BY <2>1, <2>2, <2>7, Longer
    <3> HIDE DEF b
    <3>2. /\ a \in Seq(Q) /\ Len(a) = n + 1 /\ a[n + 1] = <<x>> /\ \A i \in 1 .. n : a[i] = b[i]
      BY <1>6, <3>1, Longer
    <3> HIDE DEF a
    <3>3. \A i \in 1 .. n + 1 : Bits(v)[i] = a[i]
      <4> SUFFICES ASSUME NEW i \in 1 .. n + 1 PROVE Bits(v)[i] = a[i]
        OBVIOUS
      <4>1. i \in 1 .. m \/ i = n \/ i = n + 1
        BY <2>1
      <4>2. CASE i \in 1 .. m
        <5>1. i \in 1 .. n /\ i # n
          BY <2>1, <4>2
        <5> QED BY <1>2, <1>4, <2>2, <3>1, <3>2, <4>2, <5>1
      <4>3. CASE i = n
        <5>1. n \in 1 .. n /\ n \in 1 .. n + 1
          BY <2>1
        <5>2. Bits(v)[n] = Bit(v, n) /\ a[n] = b[n]
          BY <1>2, <3>2, <5>1
        <5> QED BY <2>6, <3>1, <4>3, <5>2, Zenon
      <4>4. CASE i = n + 1
        <5>1. Bits(v)[n + 1] = Bit(v, n + 1)
          BY <1>2, <4>4
        <5> QED BY <1>5, <3>2, <4>4, <5>1, Zenon
      <4> QED BY <4>1, <4>2, <4>3, <4>4
    <3> QED BY <1>2, <3>2, <3>3, SeqEqual DEF a, b
  <2>10. Stuff(u) = FlattenSeq(f) \o <<Dot>>
    BY <1>3, <2>2, <2>7, <2>8, FlattenAppend DEF Q
  <2>11. Stuff(v) = (FlattenSeq(f) \o <<Dot, Dot>>) \o <<x>>
    <3>1. Append(f, <<Dot, Dot>>) \in Seq(Q)
      BY <2>2, <2>7, Longer
    <3>2. FlattenSeq(Append(f, <<Dot, Dot>>)) = FlattenSeq(f) \o <<Dot, Dot>>
      BY <2>2, <2>7, FlattenAppend DEF Q
    <3>3. FlattenSeq(Append(Append(f, <<Dot, Dot>>), <<x>>))
            = FlattenSeq(Append(f, <<Dot, Dot>>)) \o <<x>>
      BY <1>6, <3>1, FlattenAppend DEF Q
    <3> QED BY <1>3, <2>9, <3>2, <3>3
  <2> DEFINE g == FlattenSeq(f)
  <2>12. g \in Seq(Byte)
    BY <2>2, FlattenType DEF Q
  <2> HIDE DEF g
  <2>13. (g \o <<Dot, Dot>>) \o <<x>> = (g \o <<Dot>>) \o <<Dot, x>>
    <3>1. <<Dot, Dot>> \o <<x>> = <<Dot>> \o <<Dot, x>>
      OBVIOUS
    <3>2. <<Dot, x>> \in Seq(Byte) /\ <<x>> \in Seq(Byte)
      BY Bytes
    <3>3. (g \o <<Dot, Dot>>) \o <<x>> = g \o (<<Dot, Dot>> \o <<x>>)
      BY <2>12, <3>2, Bytes, ConcatAssociative
    <3>4. (g \o <<Dot>>) \o <<Dot, x>> = g \o (<<Dot>> \o <<Dot, x>>)
      BY <2>12, <3>2, Bytes, ConcatAssociative
    <3> QED BY <3>1, <3>3, <3>4
  <2> QED BY <1>8, <2>10, <2>11, <2>13 DEF g, v, Adds
<1> QED
  BY <1>7, <1>8

(* A sequence is empty or one with a last element                           *)
LEMMA Unappend ==
  ASSUME NEW S, NEW u \in Seq(S), u # <<>>
  PROVE  \E v \in Seq(S), x \in S : u = Append(v, x)
<1> DEFINE n == Len(u)
           m == n - 1
           v == SubSeq(u, 1, m)
           x == u[n]
           w == Append(v, x)
<1>1. n \in Nat /\ n # 0 /\ x \in S
  BY EmptySeq
<1>2. m \in Nat /\ m + 1 = n /\ 1 <= m + 1 /\ m <= n /\ m - 1 + 1 = m
  BY <1>1
<1> HIDE DEF m, x
<1>3. v \in Seq(S) /\ Len(v) = m - 1 + 1 /\ \A i \in 1 .. m - 1 + 1 : v[i] = u[1 + i - 1]
  BY <1>2, StretchIs
<1> HIDE DEF v
<1>4. /\ w \in Seq(S) /\ Len(w) = m + 1 /\ w[m + 1] = x /\ \A i \in 1 .. m : w[i] = v[i]
  BY <1>1, <1>2, <1>3, Longer
<1> HIDE DEF w
<1>5. \A i \in 1 .. n : u[i] = w[i]
  <2> SUFFICES ASSUME NEW i \in 1 .. n PROVE u[i] = w[i]
    OBVIOUS
  <2>1. i \in 1 .. m \/ i = n
    BY <1>1, <1>2
  <2>2. CASE i \in 1 .. m
    <3>1. 1 + i - 1 = i
      BY <2>2
    <3> QED BY <1>2, <1>3, <1>4, <2>2, <3>1
  <2>3. CASE i = n
    BY <1>2, <1>4, <2>3 DEF x
  <2> QED BY <2>1, <2>2, <2>3
<1>6. u = w
  BY <1>2, <1>4, <1>5, SeqEqual
<1> QED
  BY <1>1, <1>3, <1>6 DEF w

(* Induction over sequences, from the empty one *)
LEMMA SeqInduction ==
  ASSUME NEW S, NEW T, <<>> \in T,
         \A v \in Seq(S), x \in S : v \in T => Append(v, x) \in T
  PROVE  Seq(S) \subseteq T
<1> DEFINE N == {n \in Nat : \A u \in Seq(S) : Len(u) = n => u \in T}
<1>1. 0 \in N
  <2> SUFFICES ASSUME NEW u \in Seq(S), Len(u) = 0 PROVE u \in T
    OBVIOUS
  <2>1. u = <<>>
    BY EmptySeq
  <2> QED BY <2>1
<1>2. ASSUME NEW n \in Nat, n \in N PROVE n + 1 \in N
  <2> SUFFICES ASSUME NEW u \in Seq(S), Len(u) = n + 1 PROVE u \in T
    OBVIOUS
  <2>1. u # <<>>
    BY EmptySeq
  <2>2. PICK v \in Seq(S), x \in S : u = Append(v, x)
    BY <2>1, Unappend
  <2>3. Len(u) = Len(v) + 1 /\ Len(v) \in Nat
    BY <2>2, Longer
  <2>4. Len(v) = n
    BY <2>3
  <2>5. v \in T
    BY <1>2, <2>4
  <2> QED BY <2>2, <2>5
<1> HIDE DEF N
<1>3. Nat \subseteq N
  BY <1>1, <1>2, SetInduction
<1> SUFFICES ASSUME NEW u \in Seq(S) PROVE u \in T
  OBVIOUS
<1>4. Len(u) \in Nat
  OBVIOUS
<1> QED
  BY <1>3, <1>4 DEF N

(* The end of what byte-stuffing makes of u is the end of u, but for a dot   *)
(* it has doubled                                                          *)
EndsAs(t, u) ==
  LET n == Len(u)
      m == Len(t)
  IN /\ m >= n
     /\ n >= 1 => t[m] = u[n]
     /\ n >= 2 => t[m - 1] = u[n - 1]
     /\ n >= 3 => t[m - 2] = IF DotAt(u, n - 3) THEN Dot ELSE u[n - 2]
     /\ n <= 3 => t = u

LEMMA AddsType ==
  ASSUME NEW u, NEW x \in Byte
  PROVE  Adds(u, x) \in Seq(Byte)
<1>1. <<x>> \in Seq(Byte) /\ <<Dot, x>> \in Seq(Byte)
  BY Bytes
<1> QED
  BY <1>1 DEF Adds

LEMMA EndsAppend ==
  ASSUME NEW t \in Seq(Byte), NEW u \in Seq(Byte), NEW x \in Byte, EndsAs(t, u)
  PROVE  EndsAs(t \o Adds(u, x), Append(u, x))
<1> DEFINE v == Append(u, x)
           n == Len(u)
           m == Len(t)
           w == t \o Adds(u, x)
<1>1. /\ v \in Seq(Byte) /\ Len(v) = n + 1 /\ n \in Nat /\ v[n + 1] = x /\ \A i \in 1 .. n : v[i] = u[i]
  BY Longer
<1>2. m \in Nat /\ m >= n
  BY DEF EndsAs
<1>3. /\ n >= 1 => t[m] = u[n]
      /\ n >= 2 => t[m - 1] = u[n - 1]
      /\ n <= 3 => t = u
  BY DEF EndsAs
<1> HIDE DEF v
<1>4. n >= 1 => n \in 1 .. n /\ v[n] = u[n]
  BY <1>1
<1>5. n >= 2 => n - 1 \in 1 .. n /\ v[n - 1] = u[n - 1]
  BY <1>1
<1>6. CASE EndsDot(u) /\ x = Cr
  <2>1. w = t \o <<Dot, Cr>> /\ <<Dot, Cr>> \in Seq(Byte) /\ Len(<<Dot, Cr>>) = 2
    BY <1>6, Bytes DEF Adds
  <2>2. /\ Len(w) = m + 2 /\ w[m + 1] = Dot /\ w[m + 2] = Cr /\ w[m] = t[m]
    <3>1. n >= 3 /\ m >= 1
      BY <1>1, <1>2, <1>6 DEF EndsDot
    <3> HIDE DEF w
    <3> QED BY <1>2, <2>1, <3>1
  <2>3. n >= 3 /\ u[n] = Dot /\ u[n - 1] = Lf /\ u[n - 2] = Cr
    BY <1>6 DEF EndsDot
  <2>4. v[n - 2] = u[n - 2]
    <3>1. n - 2 \in 1 .. n
      BY <1>1, <2>3
    <3> QED BY <1>1, <3>1
  <2>5. DotAt(v, n - 2)
    <3>1. /\ n - 2 \in 1 .. Len(v) - 3 /\ (n - 2) + 1 = n - 1 /\ (n - 2) + 2 = n /\ (n - 2) + 3 = n + 1
      BY <1>1, <2>3
    <3> QED BY <1>1, <1>4, <1>5, <1>6, <2>3, <2>4, <3>1 DEF DotAt
  <2>6. t[m] = Dot
    BY <1>3, <2>3
  <2> HIDE DEF w
  <2>7. /\ Len(w) - 1 = m + 1 /\ Len(w) - 2 = m /\ Len(v) - 1 = n /\ Len(v) - 2 = n - 1
        /\ Len(v) - 3 = n - 2 /\ Len(v) = n + 1 /\ Len(w) = m + 2 /\ ~(n + 1 <= 3) /\ m + 2 >= n + 1
    BY <1>1, <1>2, <2>2, <2>3
  <2>8. /\ w[m + 2] = v[n + 1] /\ w[m + 1] = v[n] /\ w[m] = Dot
    BY <1>1, <1>4, <1>6, <2>2, <2>3, <2>6
  <2>9. EndsAs(w, v)
    BY <2>5, <2>7, <2>8 DEF EndsAs
  <2> QED BY <2>9 DEF v, w
<1>7. CASE ~(EndsDot(u) /\ x = Cr)
  <2>1. w = t \o <<x>> /\ <<x>> \in Seq(Byte) /\ Len(<<x>>) = 1
    BY <1>7 DEF Adds
  <2>2. w = Append(t, x)
    BY <2>1
  <2>3. /\ Len(w) = m + 1 /\ w[m + 1] = x /\ \A i \in 1 .. m : w[i] = t[i]
    BY <2>2, Longer
  <2> HIDE DEF w
  <2>4. n >= 3 => ~DotAt(v, n - 2)
    <3> SUFFICES ASSUME n >= 3, DotAt(v, n - 2) PROVE FALSE
      OBVIOUS
    <3>1. /\ (n - 2) + 1 = n - 1 /\ (n - 2) + 2 = n /\ (n - 2) + 3 = n + 1 /\ n - 2 \in 1 .. n
      BY <1>1
    <3>2. v[n - 2] = u[n - 2]
      BY <1>1, <3>1
    <3>3. v[n - 2] = Cr /\ v[n - 1] = Lf /\ v[n] = Dot /\ v[n + 1] = Cr
      BY <3>1 DEF DotAt
    <3> QED BY <1>1, <1>4, <1>5, <1>7, <3>2, <3>3 DEF EndsDot
  <2>5. n >= 1 => w[m] = v[n]
    BY <1>2, <1>3, <1>4, <2>3
  <2>6. n >= 2 => w[m - 1] = v[n - 1]
    BY <1>2, <1>3, <1>5, <2>3
  <2>7. n + 1 <= 3 => w = v
    BY <1>1, <1>3, <2>2 DEF v
  <2>8. ~DotAt(v, n - 2)
    <3>1. CASE n >= 3
      BY <2>4, <3>1
    <3>2. CASE ~(n >= 3)
      BY <1>1, <3>2 DEF DotAt
    <3> QED BY <3>1, <3>2
  <2>9. /\ Len(w) - 1 = m /\ Len(w) - 2 = m - 1 /\ Len(v) - 1 = n /\ Len(v) - 2 = n - 1
        /\ Len(v) - 3 = n - 2 /\ Len(v) = n + 1 /\ Len(w) = m + 1 /\ m + 1 >= n + 1
        /\ (n + 1 >= 2 => n >= 1) /\ (n + 1 >= 3 => n >= 2)
    BY <1>1, <1>2, <2>3
  <2>10. EndsAs(w, v)
    BY <1>1, <2>3, <2>5, <2>6, <2>7, <2>8, <2>9 DEF EndsAs
  <2> QED BY <2>10 DEF v, w
<1> QED
  BY <1>6, <1>7

LEMMA StuffEnds ==
  ASSUME NEW u \in Seq(Byte)
  PROVE  EndsAs(Stuff(u), u)
<1> DEFINE T == {v \in Seq(Byte) : EndsAs(Stuff(v), v)}
<1>1. <<>> \in T
  BY StuffNone DEF EndsAs
<1>2. ASSUME NEW v \in Seq(Byte), NEW x \in Byte, v \in T
      PROVE  Append(v, x) \in T
  <2>1. Append(v, x) \in Seq(Byte) /\ Stuff(v) \in Seq(Byte) /\ EndsAs(Stuff(v), v)
    BY <1>2, Longer, StuffIs
  <2>2. EndsAs(Stuff(v) \o Adds(v, x), Append(v, x))
    BY <2>1, EndsAppend
  <2>3. Stuff(Append(v, x)) = Stuff(v) \o Adds(v, x)
    BY StuffAppend
  <2> QED BY <2>1, <2>2, <2>3
<1> HIDE DEF T
<1>3. Seq(Byte) \subseteq T
  BY <1>1, <1>2, SeqInduction
<1> QED
  BY <1>3 DEF T

-----------------------------------------------------------------------------
(* A message in two pieces *)

LEMMA FirstIs ==
  ASSUME NEW S, NEW x, S \subseteq Int, x \in S, \A y \in S : x <= y
  PROVE  First(S) = x
<1> DEFINE f == CHOOSE i \in S : \A j \in S : i <= j
<1>1. f \in S /\ \A j \in S : f <= j
  OBVIOUS
<1>2. First(S) = f
  BY DEF First
<1> HIDE DEF f
<1>3. f \in Int /\ x \in Int /\ f <= x /\ x <= f
  BY <1>1
<1> QED
  BY <1>2, <1>3

LEMMA Join ==
  ASSUME NEW S, NEW a \in Seq(S), NEW b \in Seq(S)
  PROVE  /\ a \o b \in Seq(S) /\ Len(a \o b) = Len(a) + Len(b)
         /\ Len(a) \in Nat /\ Len(b) \in Nat
         /\ \A i \in 1 .. Len(a) : (a \o b)[i] = a[i]
         /\ \A i \in 1 .. Len(b) : (a \o b)[Len(a) + i] = b[i]
OBVIOUS

LEMMA Associates ==
  ASSUME NEW S, NEW a \in Seq(S), NEW b \in Seq(S), NEW c \in Seq(S)
  PROVE  (a \o b) \o c = a \o (b \o c)
BY ConcatAssociative, SMTT(30)

LEMMA FourIs ==
  ASSUME NEW S, NEW t \in Seq(S), Len(t) = 4
  PROVE  t = <<t[1], t[2], t[3], t[4]>>
OBVIOUS

(* Short sequences put together *)
LEMMA JoinIs ==
  ASSUME NEW S, NEW p \in Seq(S), NEW q \in Seq(S), NEW t \in Seq(S), Len(t) = Len(p) + Len(q),
         \A i \in 1 .. Len(p) : t[i] = p[i],
         \A i \in 1 .. Len(q) : t[Len(p) + i] = q[i]
  PROVE  p \o q = t
BY SMTT(30)

LEMMA OneOne ==
  ASSUME NEW S, NEW a \in S, NEW b \in S
  PROVE  <<a>> \o <<b>> = <<a, b>>
<1> DEFINE p == <<a>>
           q == <<b>>
           t == <<a, b>>
<1>1. /\ p \in Seq(S) /\ Len(p) = 1 /\ p[1] = a
      /\ q \in Seq(S) /\ Len(q) = 1 /\ q[1] = b
      /\ t \in Seq(S) /\ Len(t) = 2 /\ t[1] = a /\ t[2] = b
  OBVIOUS
<1> HIDE DEF p, q, t
<1>2. 1 + 1 = 2
  OBVIOUS
<1>3. \A i \in 1 .. Len(p) : t[i] = p[i]
  BY <1>1
<1>4. \A i \in 1 .. Len(q) : t[Len(p) + i] = q[i]
  BY <1>1, <1>2
<1>5. Len(t) = Len(p) + Len(q)
  BY <1>1
<1>6. p \o q = t
  BY <1>1, <1>3, <1>4, <1>5, JoinIs
<1> QED
  BY <1>6 DEF p, q, t

LEMMA TwoOne ==
  ASSUME NEW S, NEW a \in S, NEW b \in S, NEW c \in S
  PROVE  <<a, b>> \o <<c>> = <<a, b, c>>
<1> DEFINE p == <<a, b>>
           q == <<c>>
           t == <<a, b, c>>
<1>1. /\ p \in Seq(S) /\ Len(p) = 2 /\ p[1] = a /\ p[2] = b
      /\ q \in Seq(S) /\ Len(q) = 1 /\ q[1] = c
      /\ t \in Seq(S) /\ Len(t) = 3 /\ t[1] = a /\ t[2] = b /\ t[3] = c
  OBVIOUS
<1> HIDE DEF p, q, t
<1>2. 2 + 1 = 3
  OBVIOUS
<1>3. \A i \in 1 .. Len(p) : t[i] = p[i]
  BY <1>1
<1>4. \A i \in 1 .. Len(q) : t[Len(p) + i] = q[i]
  BY <1>1, <1>2
<1>5. Len(t) = Len(p) + Len(q)
  BY <1>1
<1>6. p \o q = t
  BY <1>1, <1>3, <1>4, <1>5, JoinIs
<1> QED
  BY <1>6 DEF p, q, t

LEMMA OneTwo ==
  ASSUME NEW S, NEW a \in S, NEW b \in S, NEW c \in S
  PROVE  <<a>> \o <<b, c>> = <<a, b, c>>
<1> DEFINE p == <<a>>
           q == <<b, c>>
           t == <<a, b, c>>
<1>1. /\ p \in Seq(S) /\ Len(p) = 1 /\ p[1] = a
      /\ q \in Seq(S) /\ Len(q) = 2 /\ q[1] = b /\ q[2] = c
      /\ t \in Seq(S) /\ Len(t) = 3 /\ t[1] = a /\ t[2] = b /\ t[3] = c
  OBVIOUS
<1> HIDE DEF p, q, t
<1>2. 1 + 1 = 2 /\ 1 + 2 = 3
  OBVIOUS
<1>3. \A i \in 1 .. Len(p) : t[i] = p[i]
  BY <1>1
<1>4. \A i \in 1 .. Len(q) : t[Len(p) + i] = q[i]
  BY <1>1, <1>2
<1>5. Len(t) = Len(p) + Len(q)
  BY <1>1
<1>6. p \o q = t
  BY <1>1, <1>3, <1>4, <1>5, JoinIs
<1> QED
  BY <1>6 DEF p, q, t

LEMMA ThreeOne ==
  ASSUME NEW S, NEW a \in S, NEW b \in S, NEW c \in S, NEW d \in S
  PROVE  <<a, b, c>> \o <<d>> = <<a, b, c, d>>
<1> DEFINE p == <<a, b, c>>
           q == <<d>>
           t == <<a, b, c, d>>
<1>1. /\ p \in Seq(S) /\ Len(p) = 3 /\ p[1] = a /\ p[2] = b /\ p[3] = c
      /\ q \in Seq(S) /\ Len(q) = 1 /\ q[1] = d
      /\ t \in Seq(S) /\ Len(t) = 4 /\ t[1] = a /\ t[2] = b /\ t[3] = c /\ t[4] = d
  OBVIOUS
<1> HIDE DEF p, q, t
<1>2. 3 + 1 = 4
  OBVIOUS
<1>3. \A i \in 1 .. Len(p) : t[i] = p[i]
  BY <1>1
<1>4. \A i \in 1 .. Len(q) : t[Len(p) + i] = q[i]
  BY <1>1, <1>2
<1>5. Len(t) = Len(p) + Len(q)
  BY <1>1
<1>6. p \o q = t
  BY <1>1, <1>3, <1>4, <1>5, JoinIs
<1> QED
  BY <1>6 DEF p, q, t

LEMMA TwoTwo ==
  ASSUME NEW S, NEW a \in S, NEW b \in S, NEW c \in S, NEW d \in S
  PROVE  <<a, b>> \o <<c, d>> = <<a, b, c, d>>
<1> DEFINE p == <<a, b>>
           q == <<c, d>>
           t == <<a, b, c, d>>
<1>1. /\ p \in Seq(S) /\ Len(p) = 2 /\ p[1] = a /\ p[2] = b
      /\ q \in Seq(S) /\ Len(q) = 2 /\ q[1] = c /\ q[2] = d
      /\ t \in Seq(S) /\ Len(t) = 4 /\ t[1] = a /\ t[2] = b /\ t[3] = c /\ t[4] = d
  OBVIOUS
<1> HIDE DEF p, q, t
<1>2. 2 + 1 = 3 /\ 2 + 2 = 4
  OBVIOUS
<1>3. \A i \in 1 .. Len(p) : t[i] = p[i]
  BY <1>1
<1>4. \A i \in 1 .. Len(q) : t[Len(p) + i] = q[i]
  BY <1>1, <1>2
<1>5. Len(t) = Len(p) + Len(q)
  BY <1>1
<1>6. p \o q = t
  BY <1>1, <1>3, <1>4, <1>5, JoinIs
<1> QED
  BY <1>6 DEF p, q, t

LEMMA OneThree ==
  ASSUME NEW S, NEW x \in S, NEW h \in Seq(S), Len(h) = 3
  PROVE  <<x>> \o h = <<x, h[1], h[2], h[3]>>
<1> DEFINE e == <<x>>
           f == h
           t == e \o f
<1>1. e \in Seq(S) /\ Len(e) = 1 /\ e[1] = x /\ f \in Seq(S) /\ Len(f) = 3
  OBVIOUS
<1> HIDE DEF e, f
<1>2. /\ t \in Seq(S) /\ Len(t) = Len(e) + Len(f)
      /\ \A i \in 1 .. Len(e) : t[i] = e[i]
      /\ \A i \in 1 .. Len(f) : t[Len(e) + i] = f[i]
  <2>1. t = e \o f
    OBVIOUS
  <2> HIDE DEF t
  <2> QED BY <1>1, <2>1, Join, SMTT(30)
<1> HIDE DEF t
<1>3. Len(t) = 4 /\ t[1] = x /\ t[2] = f[1] /\ t[3] = f[2] /\ t[4] = f[3]
  <2>1. 1 \in 1 .. Len(e) /\ {1, 2, 3} \subseteq 1 .. Len(f) /\ Len(e) + Len(f) = 4
        /\ Len(e) + 1 = 2 /\ Len(e) + 2 = 3 /\ Len(e) + 3 = 4
    BY <1>1
  <2> QED BY <1>1, <1>2, <2>1
<1>4. t = <<x, f[1], f[2], f[3]>>
  BY <1>2, <1>3, FourIs
<1> QED
  BY <1>4 DEF t, e, f

LEMMA DotsAre ==
  ASSUME NEW S, NEW s \in Seq(S), NEW i
  PROVE  i \in Matches(<<Dot>>, s) <=> i \in 1 .. Len(s) /\ s[i] = Dot
<1> DEFINE p == <<Dot>>
<1>1. p \in Seq({Dot}) /\ Len(p) = 1 /\ p[1] = Dot
  OBVIOUS
<1> HIDE DEF p
<1>2. i \in Matches(p, s) <=>
        /\ i \in 1 .. Len(s) - Len(p) + 1
        /\ \A k \in 1 .. Len(p) : s[i + k - 1] = p[k]
  <2> DEFINE P == {Dot}
  <2>1. p \in Seq(P)
    BY <1>1
  <2> HIDE DEF P
  <2> QED BY <2>1, MatchesIs
<1>3. 1 .. Len(p) = {1} /\ Len(s) - Len(p) + 1 = Len(s)
  BY <1>1
<1>4. i \in 1 .. Len(s) => i + 1 - 1 = i
  OBVIOUS
<1>5. i \in Matches(p, s) <=> i \in 1 .. Len(s) /\ s[i + 1 - 1] = Dot
  BY <1>1, <1>2, <1>3
<1>6. i \in Matches(p, s) <=> i \in 1 .. Len(s) /\ s[i] = Dot
  BY <1>4, <1>5
<1> QED
  BY <1>6 DEF p

(* The piece s begins with h, and g is what Rejoin makes of that             *)
Begun(last, h, g) ==
  LET a == h[1] b == h[2] c == h[3] IN
  IF last = <<>> THEN g = h
  ELSE IF \/ last[1] = Cr /\ last[2] = Lf /\ last[3] = Dot /\ a = Cr
          \/ last[2] = Cr /\ last[3] = Lf /\ a = Dot /\ b = Cr
    THEN g = <<Dot, a, b, c>>
  ELSE IF last[3] = Cr /\ a = Lf /\ b = Dot /\ c = Cr
    THEN g = <<a, Dot, b, c>>
  ELSE g = h

(* The first dot there is is the one of the pattern                         *)
Clear(last, h) ==
  last # <<>> =>
    /\ last[2] = Cr /\ last[3] = Lf /\ h[1] = Dot /\ h[2] = Cr => last[1] # Dot
    /\ last[3] = Cr /\ h[1] = Lf /\ h[2] = Dot /\ h[3] = Cr => last[1] # Dot /\ last[2] # Dot

Triple == {t \in Seq(Byte) : Len(t) = 3}

LEMMA TripleIs ==
  ASSUME NEW h \in Triple, NEW r \in Seq(Byte)
  PROVE  /\ h \in Seq(Byte) /\ Len(h) = 3 /\ {h[1], h[2], h[3]} \subseteq Byte
         /\ h \o r \in Seq(Byte) /\ Len(h \o r) = Len(r) + 3 /\ Len(r) \in Nat
         /\ FirstThree(h \o r) = h
         /\ (h \o r)[1] = h[1] /\ (h \o r)[2] = h[2] /\ (h \o r)[3] = h[3]
         /\ \A i \in 1 .. Len(r) : (h \o r)[i + 3] = r[i]
<1> DEFINE s == h \o r
<1>1. h \in Seq(Byte) /\ Len(h) = 3 /\ {h[1], h[2], h[3]} \subseteq Byte /\ Len(r) \in Nat
  BY DEF Triple
<1>2. /\ s \in Seq(Byte) /\ Len(s) = Len(h) + Len(r)
      /\ \A i \in 1 .. Len(h) + Len(r) : s[i] = IF i <= Len(h) THEN h[i] ELSE r[i - Len(h)]
  BY <1>1, ConcatProperties
<1> HIDE DEF s
<1>3. s[1] = h[1] /\ s[2] = h[2] /\ s[3] = h[3] /\ Len(s) = Len(r) + 3
  BY <1>1, <1>2
<1>4. \A i \in 1 .. Len(r) : s[i + 3] = r[i]
  <2> SUFFICES ASSUME NEW i \in 1 .. Len(r) PROVE s[i + 3] = r[i]
    OBVIOUS
  <2>1. i + 3 \in 1 .. Len(h) + Len(r) /\ ~(i + 3 <= Len(h)) /\ i + 3 - Len(h) = i
    BY <1>1
  <2> QED BY <1>2, <2>1
<1>5. FirstThree(s) = h
  <2> DEFINE f == SubSeq(s, 1, 3)
  <2>1. FirstThree(s) = f
    BY <1>1, <1>3 DEF FirstThree
  <2>2. f \in Seq(Byte) /\ Len(f) = 3 - 1 + 1 /\ \A k \in 1 .. 3 - 1 + 1 : f[k] = s[1 + k - 1]
    BY <1>1, <1>2, <1>3, StretchIs
  <2> HIDE DEF f
  <2>3. Len(f) = 3 /\ f[1] = s[1] /\ f[2] = s[2] /\ f[3] = s[3]
    BY <2>2
  <2>4. \A k \in 1 .. 3 : f[k] = h[k]
    BY <1>3, <2>3
  <2>5. f = h
    BY <1>1, <2>2, <2>3, <2>4, SeqEqual
  <2> QED BY <2>1, <2>5
<1> QED
  BY <1>1, <1>2, <1>3, <1>4, <1>5 DEF s

LEMMA RejoinFirst ==
  ASSUME NEW h \in Triple, NEW r \in Seq(Byte)
  PROVE  Rejoin(<<>>, h \o r) = h \o r
<1> DEFINE s == h \o r
<1>1. FirstThree(s) = h /\ h \in Seq(Byte) /\ Len(h) = 3
  BY TripleIs
<1> HIDE DEF s
<1>2. <<>> \o h = h
  BY <1>1, ConcatEmptySeq
<1>3. \A i : i \notin Matches(LoneDot, h)
  BY <1>1, LoneDotIs, SMTT(30) DEF DotAt
<1>4. Matches(LoneDot, <<>> \o FirstThree(s)) = {}
  BY <1>1, <1>2, <1>3
<1>5. Rejoin(<<>>, s) = s
  BY <1>4, Zenon DEF Rejoin
<1> QED
  BY <1>5 DEF s

(* The two places where Rejoin may put a dot *)
LEMMA DotFirst ==
  ASSUME NEW h \in Triple, NEW r \in Seq(Byte), NEW s, s = h \o r
  PROVE  SubSeq(s, 1, 0) \o <<Dot>> \o SubSeq(s, 0 + 1, Len(s)) = <<Dot, h[1], h[2], h[3]>> \o r
<1>1. s \in Seq(Byte) /\ h \in Seq(Byte) /\ Len(h) = 3
  BY TripleIs
<1>2. SubSeq(s, 1, 0) = <<>>
  BY SubSeqEmpty
<1>3. SubSeq(s, 0 + 1, Len(s)) = s
  BY <1>1, SubSeqFull
<1>4. <<>> \o <<Dot>> = <<Dot>>
  BY Bytes, ConcatEmptySeq
<1>5. <<Dot>> \o (h \o r) = (<<Dot>> \o h) \o r
  <2> DEFINE e == <<Dot>>
  <2>1. e \in Seq(Byte)
    BY Bytes
  <2> HIDE DEF e
  <2>2. e \o (h \o r) = (e \o h) \o r
    BY <1>1, <2>1, ConcatAssociative
  <2> QED BY <2>2 DEF e
<1>6. <<Dot>> \o h = <<Dot, h[1], h[2], h[3]>>
  <2>1. Dot \in Byte
    BY Bytes
  <2> QED BY <1>1, <2>1, OneThree
<1> QED
  BY <1>2, <1>3, <1>4, <1>5, <1>6

LEMMA DotSecond ==
  ASSUME NEW h \in Triple, NEW r \in Seq(Byte), NEW s, s = h \o r
  PROVE  SubSeq(s, 1, 1) \o <<Dot>> \o SubSeq(s, 1 + 1, Len(s)) = <<h[1], Dot, h[2], h[3]>> \o r
<1> DEFINE f == SubSeq(s, 1, 1)
           g == SubSeq(s, 1 + 1, Len(s))
           a == h[1]
           b == h[2]
           c == h[3]
           n == Len(r)
<1>1. /\ s \in Seq(Byte) /\ Len(s) = n + 3 /\ n \in Nat /\ {a, b, c} \subseteq Byte
      /\ s[1] = a /\ s[2] = b /\ s[3] = c /\ \A i \in 1 .. n : s[i + 3] = r[i]
  BY TripleIs
<1>2. f = <<a>>
  <2>1. f \in Seq(Byte) /\ Len(f) = 1 - 1 + 1 /\ \A k \in 1 .. 1 - 1 + 1 : f[k] = s[1 + k - 1]
    BY <1>1, StretchIs
  <2> HIDE DEF f
  <2>2. 1 - 1 + 1 = 1 /\ 1 + 1 - 1 = 1 /\ 1 \in 1 .. 1
    OBVIOUS
  <2>3. Len(f) = 1 /\ f[1] = s[1]
    BY <2>1, <2>2
  <2> QED BY <1>1, <2>1, <2>3
<1>3. g = <<b, c>> \o r
  <2> DEFINE e == <<b, c>>
             t == e \o r
  <2>1. /\ g \in Seq(Byte) /\ Len(g) = Len(s) - (1 + 1) + 1
        /\ \A k \in 1 .. Len(s) - (1 + 1) + 1 : g[k] = s[(1 + 1) + k - 1]
    BY <1>1, StretchIs
  <2>2. e \in Seq(Byte) /\ Len(e) = 2 /\ e[1] = b /\ e[2] = c
    BY <1>1
  <2> HIDE DEF e, g
  <2>3. t \in Seq(Byte) /\ Len(t) = 2 + n /\ \A k \in 1 .. 2 + n : t[k] = IF k <= 2 THEN e[k] ELSE r[k - 2]
    <3>1. /\ t \in Seq(Byte) /\ Len(t) = Len(e) + Len(r)
          /\ \A i \in 1 .. Len(e) + Len(r) : t[i] = IF i <= Len(e) THEN e[i] ELSE r[i - Len(e)]
      BY <2>2, ConcatProperties
    <3> QED BY <1>1, <2>2, <3>1
  <2> HIDE DEF t
  <2>4. Len(s) - (1 + 1) + 1 = 2 + n
    BY <1>1
  <2>5. ASSUME NEW k \in 1 .. 2 + n PROVE g[k] = t[k]
    <3>1. k \in Int /\ (1 + 1) + k - 1 = k + 1
      OBVIOUS
    <3>2. g[k] = s[k + 1]
      BY <2>1, <2>4, <3>1
    <3>3. CASE k = 1
      BY <1>1, <2>2, <2>3, <3>2, <3>3
    <3>4. CASE k = 2
      BY <1>1, <2>2, <2>3, <3>2, <3>4
    <3>5. CASE k > 2
      <4>1. k - 2 \in 1 .. n /\ (k - 2) + 3 = k + 1 /\ ~(k <= 2)
        BY <1>1, <3>1, <3>5
      <4> QED BY <1>1, <2>3, <3>2, <4>1
    <3> QED BY <3>1, <3>3, <3>4, <3>5
  <2>6. g = t
    BY <2>1, <2>3, <2>4, <2>5, SeqEqual
  <2> QED BY <2>6 DEF t, e
<1> HIDE DEF f, g
<1>4. f \o <<Dot>> = <<a, Dot>>
  <2>1. a \in Byte /\ Dot \in Byte
    BY <1>1, Bytes
  <2> QED BY <1>2, <2>1, OneOne
<1>5. <<a, Dot>> \in Seq(Byte) /\ <<b, c>> \in Seq(Byte)
  BY <1>1, Bytes
<1>6. <<a, Dot>> \o (<<b, c>> \o r) = (<<a, Dot>> \o <<b, c>>) \o r
  BY <1>5, ConcatAssociative
<1>7. <<a, Dot>> \o <<b, c>> = <<a, Dot, b, c>>
  <2>1. a \in Byte /\ Dot \in Byte /\ b \in Byte /\ c \in Byte
    BY <1>1, Bytes
  <2> QED BY <2>1, TwoTwo
<1>8. (f \o <<Dot>>) \o g = <<a, Dot, b, c>> \o r
  BY <1>3, <1>4, <1>6, <1>7
<1> QED
  BY <1>8 DEF f, g

LEMMA RejoinIs ==
  ASSUME NEW last \in Triple, NEW h \in Triple, NEW r \in Seq(Byte), Clear(last, h)
  PROVE  \E g \in Seq(Byte) : Begun(last, h, g) /\ Rejoin(last, h \o r) = g \o r
<1> DEFINE s == h \o r
           d == last \o h
           D == Matches(<<Dot>>, d)
           P == Matches(LoneDot, d)
           put(at) == SubSeq(s, 1, at) \o <<Dot>> \o SubSeq(s, at + 1, Len(s))
<1>1. /\ FirstThree(s) = h /\ h \in Seq(Byte) /\ Len(h) = 3 /\ {h[1], h[2], h[3]} \subseteq Byte
      /\ last \in Seq(Byte) /\ Len(last) = 3 /\ last # <<>>
  BY TripleIs DEF Triple
<1>2. d \in Seq(Byte) /\ Len(d) = 6
      /\ d[1] = last[1] /\ d[2] = last[2] /\ d[3] = last[3]
      /\ d[4] = h[1] /\ d[5] = h[2] /\ d[6] = h[3]
  <2>1. /\ d \in Seq(Byte) /\ Len(d) = 3 + 3
        /\ \A i \in 1 .. 3 + 3 : d[i] = IF i <= 3 THEN last[i] ELSE h[i - 3]
    <3>1. /\ d \in Seq(Byte) /\ Len(d) = Len(last) + Len(h)
          /\ \A i \in 1 .. Len(last) + Len(h) : d[i] = IF i <= Len(last) THEN last[i] ELSE h[i - Len(last)]
      BY <1>1, ConcatProperties
    <3> QED BY <1>1, <3>1
  <2> HIDE DEF d
  <2> QED BY <2>1
<1>3. Rejoin(last, s) = IF P # {} /\ First(D) \in 3 .. 5
                          THEN put(IF First(D) = 3 THEN 0 ELSE First(D) - 4) ELSE s
  BY <1>1, Zenon DEF Rejoin
<1> HIDE DEF d
<1>4. \A i : i \in P <=> DotAt(d, i)
  BY <1>2, LoneDotIs
<1>5. \A i : i \in D <=> i \in 1 .. 6 /\ d[i] = Dot
  BY <1>2, DotsAre
<1>6. put(0) = <<Dot, h[1], h[2], h[3]>> \o r /\ put(1) = <<h[1], Dot, h[2], h[3]>> \o r
  <2>1. put(0) = SubSeq(s, 1, 0) \o <<Dot>> \o SubSeq(s, 0 + 1, Len(s))
        /\ put(1) = SubSeq(s, 1, 1) \o <<Dot>> \o SubSeq(s, 1 + 1, Len(s))
    BY Zenon
  <2>2. SubSeq(s, 1, 0) \o <<Dot>> \o SubSeq(s, 0 + 1, Len(s)) = <<Dot, h[1], h[2], h[3]>> \o r
    BY DotFirst, Zenon
  <2>3. SubSeq(s, 1, 1) \o <<Dot>> \o SubSeq(s, 1 + 1, Len(s)) = <<h[1], Dot, h[2], h[3]>> \o r
    BY DotSecond, Zenon
  <2> QED BY <2>1, <2>2, <2>3, Zenon
<1> HIDE DEF s, D, P, put
<1>7. D \subseteq Int
  BY <1>5
<1>8. CASE DotAt(d, 1)
  <2>1. d[1] = Cr /\ d[2] = Lf /\ d[3] = Dot /\ d[4] = Cr
    BY <1>8 DEF DotAt
  <2>2. First(D) = 3
    <3>1. 3 \in D
      BY <1>5, <2>1
    <3>2. 1 \notin D /\ 2 \notin D
      BY <1>5, <2>1, Bytes
    <3>3. \A y \in D : 3 <= y
      BY <1>5, <3>2
    <3> QED BY <1>7, <3>1, <3>3, FirstIs
  <2>3. Rejoin(last, s) = put(0)
    BY <1>3, <1>4, <1>8, <2>2
  <2>4. Begun(last, h, <<Dot, h[1], h[2], h[3]>>)
    BY <1>1, <1>2, <2>1 DEF Begun
  <2>5. <<Dot, h[1], h[2], h[3]>> \in Seq(Byte)
    BY <1>1, Bytes
  <2> QED BY <1>6, <2>3, <2>4, <2>5 DEF s
<1>9. CASE DotAt(d, 2)
  <2>1. d[2] = Cr /\ d[3] = Lf /\ d[4] = Dot /\ d[5] = Cr
    BY <1>9 DEF DotAt
  <2>2. d[1] # Dot
    BY <1>1, <1>2, <2>1 DEF Clear
  <2>3. First(D) = 4
    <3>1. 4 \in D
      BY <1>5, <2>1
    <3>2. 1 \notin D /\ 2 \notin D /\ 3 \notin D
      BY <1>5, <2>1, <2>2, Bytes
    <3>3. \A y \in D : 4 <= y
      BY <1>5, <3>2
    <3> QED BY <1>7, <3>1, <3>3, FirstIs
  <2>4. Rejoin(last, s) = put(0)
    BY <1>3, <1>4, <1>9, <2>3
  <2>5. Begun(last, h, <<Dot, h[1], h[2], h[3]>>)
    BY <1>1, <1>2, <2>1 DEF Begun
  <2>6. <<Dot, h[1], h[2], h[3]>> \in Seq(Byte)
    BY <1>1, Bytes
  <2> QED BY <1>6, <2>4, <2>5, <2>6 DEF s
<1>10. CASE DotAt(d, 3)
  <2>1. d[3] = Cr /\ d[4] = Lf /\ d[5] = Dot /\ d[6] = Cr
    BY <1>10 DEF DotAt
  <2>2. d[1] # Dot /\ d[2] # Dot
    BY <1>1, <1>2, <2>1 DEF Clear
  <2>3. First(D) = 5
    <3>1. 5 \in D
      BY <1>5, <2>1
    <3>2. 1 \notin D /\ 2 \notin D /\ 3 \notin D /\ 4 \notin D
      BY <1>5, <2>1, <2>2, Bytes
    <3>3. \A y \in D : 5 <= y
      BY <1>5, <3>2
    <3> QED BY <1>7, <3>1, <3>3, FirstIs
  <2>4. Rejoin(last, s) = put(1)
    BY <1>3, <1>4, <1>10, <2>3
  <2>5. Begun(last, h, <<h[1], Dot, h[2], h[3]>>)
    BY <1>1, <1>2, <2>1, Bytes DEF Begun
  <2>6. <<h[1], Dot, h[2], h[3]>> \in Seq(Byte)
    BY <1>1, Bytes
  <2> QED BY <1>6, <2>4, <2>5, <2>6 DEF s
<1>11. CASE \A i \in 1 .. 3 : ~DotAt(d, i)
  <2>1. P = {}
    BY <1>2, <1>4, <1>11 DEF DotAt
  <2>2. Rejoin(last, s) = s
    BY <1>3, <2>1
  <2>3. ~DotAt(d, 1) /\ ~DotAt(d, 2) /\ ~DotAt(d, 3)
    BY <1>11
  <2>4. Begun(last, h, h)
    BY <1>1, <1>2, <2>3 DEF Begun, DotAt
  <2> QED BY <1>1, <2>2, <2>4 DEF s
<1>12. 1 .. 3 = {1, 2, 3}
  OBVIOUS
<1> QED
  BY <1>8, <1>9, <1>10, <1>11, <1>12

(* Byte-stuffing goes on alike behind g and behind v                        *)
Alike(g, v) ==
  /\ Len(g) >= 2 /\ Len(v) >= 2
  /\ g[Len(g)] = v[Len(v)] /\ g[Len(g) - 1] = v[Len(v) - 1]
  /\ EndsDot(g) <=> EndsDot(v)

LEMMA AlikeAppend ==
  ASSUME NEW g \in Seq(Byte), NEW v \in Seq(Byte), NEW x \in Byte, Alike(g, v)
  PROVE  Alike(Append(g, x), Append(v, x)) /\ Adds(g, x) = Adds(v, x)
<1> DEFINE p == Append(g, x)
           q == Append(v, x)
           m == Len(g)
           n == Len(v)
<1>1. /\ Len(p) = m + 1 /\ m \in Nat /\ p[m + 1] = x /\ \A i \in 1 .. m : p[i] = g[i]
  BY Longer
<1>2. /\ Len(q) = n + 1 /\ n \in Nat /\ q[n + 1] = x /\ \A i \in 1 .. n : q[i] = v[i]
  BY Longer
<1>3. m >= 2 /\ n >= 2 /\ g[m] = v[n] /\ g[m - 1] = v[n - 1] /\ (EndsDot(g) <=> EndsDot(v))
  BY DEF Alike
<1> HIDE DEF p, q
<1>4. p[m] = g[m] /\ p[m - 1] = g[m - 1]
  <2>1. m \in 1 .. m /\ m - 1 \in 1 .. m
    BY <1>1, <1>3
  <2> QED BY <1>1, <2>1
<1>5. q[n] = v[n] /\ q[n - 1] = v[n - 1]
  <2>1. n \in 1 .. n /\ n - 1 \in 1 .. n
    BY <1>2, <1>3
  <2> QED BY <1>2, <2>1
<1>6. (m + 1) - 1 = m /\ (m + 1) - 2 = m - 1 /\ (n + 1) - 1 = n /\ (n + 1) - 2 = n - 1
      /\ m + 1 >= 3 /\ n + 1 >= 3
  BY <1>1, <1>2, <1>3
<1>7. EndsDot(p) <=> EndsDot(q)
  BY <1>1, <1>2, <1>3, <1>4, <1>5, <1>6 DEF EndsDot
<1>8. Alike(p, q)
  BY <1>1, <1>2, <1>3, <1>4, <1>5, <1>6, <1>7 DEF Alike
<1>9. Adds(g, x) = Adds(v, x)
  BY <1>3 DEF Adds
<1> QED
  BY <1>8, <1>9 DEF p, q

LEMMA ConcatAppend ==
  ASSUME NEW S, NEW s \in Seq(S), NEW r \in Seq(S), NEW x \in S
  PROVE  s \o Append(r, x) = Append(s \o r, x)
<1> DEFINE e == <<x>>
<1>1. e \in Seq(S) /\ Append(r, x) = r \o e /\ Append(s \o r, x) = (s \o r) \o e
  OBVIOUS
<1> HIDE DEF e
<1>2. (s \o r) \o e = s \o (r \o e)
  BY <1>1, ConcatAssociative
<1> QED
  BY <1>1, <1>2

(* With t before it, p is stuffed to what q is                              *)
Alikes(t, p, q) == Alike(p, q) /\ t \o Stuff(p) = Stuff(q)

LEMMA StuffGrows ==
  ASSUME NEW t \in Seq(Byte), NEW p \in Seq(Byte), NEW q \in Seq(Byte), NEW x \in Byte,
         Alikes(t, p, q)
  PROVE  Alikes(t, Append(p, x), Append(q, x))
<1> DEFINE a == Stuff(p)
           b == Adds(p, x)
<1>1. Alike(Append(p, x), Append(q, x)) /\ b = Adds(q, x)
  BY AlikeAppend DEF Alikes
<1>2. Stuff(Append(p, x)) = a \o b /\ Stuff(Append(q, x)) = Stuff(q) \o Adds(q, x)
  BY StuffAppend
<1>3. a \in Seq(Byte) /\ b \in Seq(Byte)
  BY StuffIs, AddsType
<1>4. t \o a = Stuff(q)
  BY DEF Alikes
<1> HIDE DEF a, b
<1>5. (t \o a) \o b = t \o (a \o b)
  BY <1>3, ConcatAssociative, SMTT(30)
<1>6. t \o Stuff(Append(p, x)) = Stuff(Append(q, x))
  BY <1>1, <1>2, <1>4, <1>5
<1> QED
  BY <1>1, <1>6 DEF Alikes

LEMMA StuffOn ==
  ASSUME NEW t \in Seq(Byte), NEW g \in Seq(Byte), NEW v \in Seq(Byte), NEW r \in Seq(Byte),
         Alikes(t, g, v)
  PROVE  Alikes(t, g \o r, v \o r)
<1> DEFINE T == {z \in Seq(Byte) : Alikes(t, g \o z, v \o z)}
<1>1. <<>> \in T
  <2>1. g \o <<>> = g /\ v \o <<>> = v
    BY ConcatEmptySeq
  <2>2. <<>> \in Seq(Byte)
    OBVIOUS
  <2> QED BY <2>1, <2>2 DEF Alikes
<1>2. ASSUME NEW z \in Seq(Byte), NEW x \in Byte, z \in T
      PROVE  Append(z, x) \in T
  <2>1. g \o z \in Seq(Byte) /\ v \o z \in Seq(Byte)
    BY Join
  <2>2. Alikes(t, g \o z, v \o z)
    BY <1>2
  <2>3. Alikes(t, Append(g \o z, x), Append(v \o z, x))
    BY <2>1, <2>2, StuffGrows, Zenon
  <2>4. g \o Append(z, x) = Append(g \o z, x) /\ v \o Append(z, x) = Append(v \o z, x)
    BY ConcatAppend, SMTT(30)
  <2>5. Append(z, x) \in Seq(Byte)
    BY Longer
  <2> QED BY <2>3, <2>4, <2>5
<1> HIDE DEF T
<1>3. Seq(Byte) \subseteq T
  BY <1>1, <1>2, SeqInduction
<1> QED
  BY <1>3 DEF T

(* The three bytes before the end, as dothack keeps them                    *)
LEMMA LastThreeIs ==
  ASSUME NEW S, NEW t \in Seq(S), Len(t) >= 3
  PROVE  /\ LastThree(t) \in Seq(S) /\ Len(LastThree(t)) = 3
         /\ LastThree(t)[1] = t[Len(t) - 2] /\ LastThree(t)[2] = t[Len(t) - 1]
         /\ LastThree(t)[3] = t[Len(t)]
<1> DEFINE n == Len(t)
           i == n - 2
           f == SubSeq(t, i, n)
<1>1. n \in Int /\ i \in Int /\ 1 <= i /\ i <= n + 1 /\ n <= Len(t) /\ n - i + 1 = 3
  OBVIOUS
<1>2. i + 1 - 1 = n - 2 /\ i + 2 - 1 = n - 1 /\ i + 3 - 1 = n
  OBVIOUS
<1> HIDE DEF i, n
<1>3. f \in Seq(S) /\ Len(f) = n - i + 1 /\ \A k \in 1 .. n - i + 1 : f[k] = t[i + k - 1]
  BY <1>1, StretchIs
<1> HIDE DEF f
<1>4. f[1] = t[n - 2] /\ f[2] = t[n - 1] /\ f[3] = t[n]
  BY <1>1, <1>2, <1>3
<1>5. LastThree(t) = f
  BY DEF LastThree, f, i, n
<1> QED
  BY <1>1, <1>3, <1>4, <1>5 DEF n

(* A cut behind u, before the three bytes of h, at which dothack can tell   *)
(* the dot of a line it has to double from the one before                  *)
FineCut(u, h) ==
  LET n == Len(u) IN
  n = 0 \/
  /\ n >= 3
  /\ u[n - 1] = Cr /\ u[n] = Lf /\ h[1] = Dot /\ h[2] = Cr => u[n - 2] # Dot
  /\ u[n] = Cr /\ h[1] = Lf /\ h[2] = Dot /\ h[3] = Cr => u[n - 2] # Dot /\ u[n - 1] # Dot

(* What dothack has kept of what it made of u                               *)
KeptOf(t) == IF t = <<>> THEN <<>> ELSE LastThree(t)


(* A dot line across the cut, by where the cut is                           *)
Across(u, h) ==
  LET n == Len(u) IN
  <<EndsDot(u) /\ h[1] = Cr,
    u[n - 1] = Cr /\ u[n] = Lf /\ h[1] = Dot /\ h[2] = Cr,
    u[n] = Cr /\ h[1] = Lf /\ h[2] = Dot /\ h[3] = Cr>>

(* The three bytes h behind u, once what they complete is stuffed           *)
Grown(u, h, g) ==
  IF Across(u, h)[1] \/ Across(u, h)[2] THEN g = <<Dot, h[1], h[2], h[3]>>
  ELSE IF Across(u, h)[3] THEN g = <<h[1], Dot, h[2], h[3]>>
  ELSE g = h

(* The three bytes behind the cut, byte by byte                             *)
LEMMA ThreeMore ==
  ASSUME NEW u \in Seq(Byte), Len(u) >= 3, NEW h \in Triple
  PROVE  \E e \in Seq(Byte) :
           /\ Stuff(u \o h) = Stuff(u) \o e
           /\ Grown(u, h, e)
<1> DEFINE n == Len(u)
           a == h[1]
           b == h[2]
           c == h[3]
           v == Append(u, a)
           w == Append(v, b)
           z == Append(w, c)
           A == Adds(u, a)
           B == Adds(v, b)
           C == Adds(w, c)
           e == (A \o B) \o C
<1>1. h \in Seq(Byte) /\ Len(h) = 3 /\ a \in Byte /\ b \in Byte /\ c \in Byte
  <2>1. h \in Seq(Byte) /\ Len(h) = 3
    BY DEF Triple
  <2>2. 1 \in 1 .. Len(h) /\ 2 \in 1 .. Len(h) /\ 3 \in 1 .. Len(h)
    BY <2>1
  <2> QED BY <2>1, <2>2, ElementOfSeq
<1>2. n \in Nat /\ n >= 3 /\ n \in 1 .. n /\ n - 1 \in 1 .. n /\ n - 2 \in 1 .. n
  OBVIOUS
<1> HIDE DEF a, b, c
<1>3. /\ v \in Seq(Byte) /\ Len(v) = n + 1 /\ v[n + 1] = a /\ \A i \in 1 .. n : v[i] = u[i]
  BY <1>1, Longer
<1> HIDE DEF v
<1>4. /\ w \in Seq(Byte) /\ Len(w) = n + 2 /\ w[n + 2] = b /\ \A i \in 1 .. n + 1 : w[i] = v[i]
  <2>1. /\ w \in Seq(Byte) /\ Len(w) = Len(v) + 1 /\ w[Len(v) + 1] = b /\ \A i \in 1 .. Len(v) : w[i] = v[i]
    BY <1>1, <1>3, Longer
  <2>2. Len(v) + 1 = n + 2
    BY <1>2, <1>3
  <2> QED BY <1>3, <2>1, <2>2
<1> HIDE DEF w
<1>5. z = u \o h
  <2>1. /\ z \in Seq(Byte) /\ Len(z) = Len(w) + 1 /\ z[Len(w) + 1] = c /\ \A i \in 1 .. Len(w) : z[i] = w[i]
    BY <1>1, <1>4, Longer
  <2> HIDE DEF z
  <2>2. Len(w) + 1 = n + 3 /\ n + 1 \in 1 .. n + 1 /\ n + 1 \in 1 .. Len(w) /\ n + 2 \in 1 .. Len(w)
    BY <1>2, <1>4
  <2>3. z[n + 3] = c /\ z[n + 2] = b /\ z[n + 1] = a
    BY <1>3, <1>4, <2>1, <2>2
  <2>4. \A i \in 1 .. Len(u) : z[i] = u[i]
    <3> SUFFICES ASSUME NEW i \in 1 .. n PROVE z[i] = u[i]
      OBVIOUS
    <3>1. i \in 1 .. n + 1 /\ i \in 1 .. Len(w)
      BY <1>2, <1>4
    <3> QED BY <1>3, <1>4, <2>1, <3>1
  <2>5. \A i \in 1 .. Len(h) : z[Len(u) + i] = h[i]
    <3>1. 1 .. Len(h) = {1, 2, 3}
      BY <1>1
    <3> QED BY <2>3, <3>1 DEF a, b, c
  <2>6. Len(z) = Len(u) + Len(h)
    BY <1>1, <2>1, <2>2
  <2> QED BY <1>1, <2>1, <2>4, <2>5, <2>6, JoinIs
<1>6. A \in Seq(Byte) /\ B \in Seq(Byte) /\ C \in Seq(Byte)
  BY <1>1, AddsType
<1>7. Stuff(z) = ((Stuff(u) \o A) \o B) \o C
  BY <1>1, <1>3, <1>4, StuffAppend DEF v, w
<1>8. ((Stuff(u) \o A) \o B) \o C = Stuff(u) \o e
  <2> DEFINE t == Stuff(u)
  <2>1. t \in Seq(Byte)
    BY StuffIs
  <2> HIDE DEF t, A, B, C
  <2>2. (t \o A) \o B = t \o (A \o B)
    BY <1>6, <2>1, Associates, SMTT(30)
  <2>3. A \o B \in Seq(Byte)
    BY <1>6, Join
  <2> DEFINE D == A \o B
  <2>5. D \in Seq(Byte)
    BY <2>3
  <2> HIDE DEF D
  <2>4. (t \o D) \o C = t \o (D \o C)
    BY <1>6, <2>1, <2>5, Associates, SMTT(30)
  <2> QED BY <2>2, <2>4 DEF t, D
<1>9. e \in Seq(Byte)
  <2> HIDE DEF A, B, C
  <2>1. A \o B \in Seq(Byte)
    BY <1>6, Join
  <2> QED BY <1>6, <2>1, Join
<1>10. v[n - 1] = u[n - 1] /\ v[n] = u[n] /\ w[n] = u[n] /\ w[n + 1] = a /\ w[n + 2] = b
  <2>1. n \in 1 .. n + 1 /\ n + 1 \in 1 .. n + 1
    BY <1>2
  <2> QED BY <1>2, <1>3, <1>4, <2>1
<1>11. EndsDot(v) <=> u[n - 1] = Cr /\ u[n] = Lf /\ a = Dot
  <2>1. (n + 1) - 2 = n - 1 /\ (n + 1) - 1 = n /\ n + 1 >= 3
    BY <1>2
  <2> QED BY <1>3, <1>10, <2>1 DEF EndsDot
<1>12. EndsDot(w) <=> u[n] = Cr /\ a = Lf /\ b = Dot
  <2>1. (n + 2) - 2 = n /\ (n + 2) - 1 = n + 1 /\ n + 2 >= 3
    BY <1>2
  <2> QED BY <1>4, <1>10, <2>1 DEF EndsDot
<1> HIDE DEF A, B, C
<1>13. EndsDot(u) => u[n - 2] = Cr /\ u[n - 1] = Lf /\ u[n] = Dot
  BY DEF EndsDot
<1>14. /\ Across(u, h)[1] <=> EndsDot(u) /\ a = Cr
       /\ Across(u, h)[2] <=> EndsDot(v) /\ b = Cr
       /\ Across(u, h)[3] <=> EndsDot(w) /\ c = Cr
  BY <1>11, <1>12 DEF Across, a, b, c
<1>15. Dot \in Byte /\ Cr # Lf /\ Cr # Dot /\ Lf # Dot
  BY Bytes
<1>16. CASE EndsDot(u) /\ a = Cr
  <2>1. A = <<Dot, a>> /\ B = <<b>> /\ C = <<c>>
    BY <1>11, <1>12, <1>13, <1>15, <1>16 DEF Adds, A, B, C
  <2>2. e = <<Dot, a, b, c>>
    <3>1. A \o B = <<Dot, a, b>>
      BY <1>1, <1>15, <2>1, TwoOne, Zenon
    <3>2. (A \o B) \o C = <<Dot, a, b, c>>
      BY <1>1, <1>15, <2>1, <3>1, ThreeOne, ZenonT(30)
    <3> QED BY <3>2
  <2>4. Grown(u, h, e)
    BY <1>14, <1>16, <2>2 DEF Grown, a, b, c
  <2> QED BY <1>5, <1>7, <1>8, <1>9, <2>4
<1>17. CASE EndsDot(v) /\ b = Cr
  <2>1. A = <<a>> /\ B = <<Dot, b>> /\ C = <<c>>
    BY <1>11, <1>12, <1>13, <1>15, <1>17 DEF Adds, A, B, C
  <2>2. e = <<a, Dot, b, c>>
    <3>1. A \o B = <<a, Dot, b>>
      BY <1>1, <1>15, <2>1, OneTwo, Zenon
    <3>2. (A \o B) \o C = <<a, Dot, b, c>>
      BY <1>1, <1>15, <2>1, <3>1, ThreeOne, ZenonT(30)
    <3> QED BY <3>2
  <2>3. e = <<Dot, a, b, c>>
    BY <1>11, <1>17, <2>2
  <2>4. Grown(u, h, e)
    BY <1>14, <1>17, <2>3 DEF Grown, a, b, c
  <2> QED BY <1>5, <1>7, <1>8, <1>9, <2>4
<1>18. CASE EndsDot(w) /\ c = Cr
  <2>1. A = <<a>> /\ B = <<b>> /\ C = <<Dot, c>>
    BY <1>11, <1>12, <1>13, <1>15, <1>18 DEF Adds, A, B, C
  <2>2. e = <<a, b, Dot, c>>
    <3>1. A \o B = <<a, b>>
      BY <1>1, <1>15, <2>1, OneOne, Zenon
    <3>2. (A \o B) \o C = <<a, b, Dot, c>>
      BY <1>1, <1>15, <2>1, <3>1, TwoTwo, ZenonT(30)
    <3> QED BY <3>2
  <2>3. e = <<a, Dot, b, c>>
    BY <1>12, <1>18, <2>2
  <2>4. ~(EndsDot(u) /\ a = Cr) /\ ~(EndsDot(v) /\ b = Cr)
    BY <1>11, <1>12, <1>13, <1>15, <1>18
  <2>5. Grown(u, h, e)
    BY <1>14, <1>18, <2>3, <2>4 DEF Grown, a, b, c
  <2> QED BY <1>5, <1>7, <1>8, <1>9, <2>5
<1>19. CASE ~(EndsDot(u) /\ a = Cr) /\ ~(EndsDot(v) /\ b = Cr) /\ ~(EndsDot(w) /\ c = Cr)
  <2>1. A = <<a>> /\ B = <<b>> /\ C = <<c>>
    BY <1>19 DEF Adds, A, B, C
  <2>2. e = <<a, b, c>>
    <3>1. A \o B = <<a, b>>
      BY <1>1, <2>1, OneOne, Zenon
    <3>2. (A \o B) \o C = <<a, b, c>>
      BY <1>1, <2>1, <3>1, TwoOne, Zenon
    <3> QED BY <3>2
  <2>3. h = <<a, b, c>>
    <3> DEFINE t == <<a, b, c>>
    <3>1. t \in Seq(Byte) /\ Len(t) = 3 /\ t[1] = a /\ t[2] = b /\ t[3] = c
      BY <1>1
    <3> HIDE DEF t
    <3>2. \A i \in 1 .. 3 : h[i] = t[i]
      BY <3>1 DEF a, b, c
    <3>3. h = t
      BY <1>1, <3>1, <3>2, SeqEqual
    <3> QED BY <3>3 DEF t
  <2>4. Grown(u, h, e)
    BY <1>14, <1>19, <2>2, <2>3 DEF Grown, a, b, c
  <2> QED BY <1>5, <1>7, <1>8, <1>9, <2>4
<1> QED
  BY <1>16, <1>17, <1>18, <1>19

(* What has no dot line is stuffed to itself                                *)
LEMMA StuffSame ==
  ASSUME NEW s \in Seq(Byte), \A i : ~DotAt(s, i)
  PROVE  Stuff(s) = s
<1> DEFINE Same1(v) == (\A i : ~DotAt(v, i)) => Stuff(v) = v
           T == {v \in Seq(Byte) : Same1(v)}
<1>1. <<>> \in T
  BY StuffNone
<1>2. ASSUME NEW v \in Seq(Byte), NEW x \in Byte, v \in T
      PROVE  Append(v, x) \in T
  <2> DEFINE w == Append(v, x)
             n == Len(v)
  <2>1. /\ w \in Seq(Byte) /\ Len(w) = n + 1 /\ n \in Nat /\ w[n + 1] = x /\ \A i \in 1 .. n : w[i] = v[i]
    BY Longer
  <2>2. Stuff(w) = Stuff(v) \o Adds(v, x)
    BY StuffAppend
  <2>3. v \o <<x>> = w
    OBVIOUS
  <2>4. ASSUME \A i : ~DotAt(w, i) PROVE Stuff(w) = w
    <3> HIDE DEF w
    <3>1. ASSUME NEW i, DotAt(v, i) PROVE FALSE
      <4>1. i \in 1 .. n - 3
        BY <3>1 DEF DotAt
      <4>2. i \in 1 .. n /\ i + 1 \in 1 .. n /\ i + 2 \in 1 .. n /\ i + 3 \in 1 .. n /\ i \in 1 .. Len(w) - 3
        BY <2>1, <4>1
      <4>3. DotAt(w, i)
        BY <2>1, <3>1, <4>2 DEF DotAt
      <4> QED BY <2>4, <4>3
    <3>2. Stuff(v) = v
      BY <1>2, <3>1
    <3>3. ASSUME EndsDot(v), x = Cr PROVE FALSE
      <4>1. n >= 3 /\ v[n - 2] = Cr /\ v[n - 1] = Lf /\ v[n] = Dot
        BY <3>3 DEF EndsDot
      <4>2. /\ n - 2 \in 1 .. n /\ n - 1 \in 1 .. n /\ n \in 1 .. n /\ n - 2 \in 1 .. Len(w) - 3
            /\ n - 2 + 1 = n - 1 /\ n - 2 + 2 = n /\ n - 2 + 3 = n + 1
        BY <2>1, <4>1
      <4>3. DotAt(w, n - 2)
        BY <2>1, <3>3, <4>1, <4>2 DEF DotAt
      <4> QED BY <2>4, <4>3
    <3>4. Adds(v, x) = <<x>>
      BY <3>3 DEF Adds
    <3> QED BY <2>2, <2>3, <3>2, <3>4
  <2> QED BY <2>1, <2>4
<1> HIDE DEF T
<1>3. Seq(Byte) \subseteq T
  BY <1>1, <1>2, SeqInduction
<1> QED
  BY <1>3 DEF T

LEMMA CutClear ==
  ASSUME NEW u \in Seq(Byte), Len(u) >= 3, NEW h \in Triple, FineCut(u, h)
  PROVE  LET last == KeptOf(Stuff(u)) IN
         /\ last \in Triple /\ Clear(last, h)
         /\ \A g : Begun(last, h, g) => Grown(u, h, g)
<1> DEFINE t == Stuff(u)
           m == Len(t)
           n == Len(u)
           last == KeptOf(t)
<1>1. n \in Nat /\ n >= 3
  OBVIOUS
<1>2. t \in Seq(Byte) /\ EndsAs(t, u)
  BY StuffIs, StuffEnds
<1> HIDE DEF t
<1>3. m \in Nat
  BY <1>2
<1>4. /\ m >= n /\ t[m] = u[n] /\ t[m - 1] = u[n - 1]
      /\ t[m - 2] = IF DotAt(u, n - 3) THEN Dot ELSE u[n - 2]
  BY <1>1, <1>2 DEF EndsAs
<1>5. m >= 3 /\ t # <<>>
  BY <1>1, <1>3, <1>4
<1>6. /\ last \in Seq(Byte) /\ Len(last) = 3 /\ last[1] = t[m - 2] /\ last[2] = t[m - 1] /\ last[3] = t[m]
  BY <1>2, <1>5, LastThreeIs DEF KeptOf
<1> HIDE DEF last
<1>7. DotAt(u, n - 3) => u[n] = Cr /\ u[n - 1] = Dot /\ u[n - 2] = Lf
  <2>1. n - 3 + 1 = n - 2 /\ n - 3 + 2 = n - 1 /\ n - 3 + 3 = n
    BY <1>1
  <2> QED BY <2>1 DEF DotAt
<1>8. last \in Triple /\ last # <<>>
  <2>1. Len(<<>>) # 3
    OBVIOUS
  <2>2. last # <<>>
    BY <1>6, <2>1, Zenon
  <2> QED BY <1>6, <2>2 DEF Triple
<1>9. Clear(last, h)
  BY <1>1, <1>4, <1>6, <1>7, Bytes DEF Clear, FineCut
<1>10. /\ last[2] = u[n - 1] /\ last[3] = u[n]
       /\ last[1] = IF DotAt(u, n - 3) THEN Dot ELSE u[n - 2]
  BY <1>4, <1>6
<1>11. EndsDot(u) <=> last[1] = Cr /\ last[2] = Lf /\ last[3] = Dot
  BY <1>1, <1>7, <1>10, Bytes DEF EndsDot
<1>12. /\ Across(u, h)[1] <=> last[1] = Cr /\ last[2] = Lf /\ last[3] = Dot /\ h[1] = Cr
       /\ Across(u, h)[2] <=> last[2] = Cr /\ last[3] = Lf /\ h[1] = Dot /\ h[2] = Cr
       /\ Across(u, h)[3] <=> last[3] = Cr /\ h[1] = Lf /\ h[2] = Dot /\ h[3] = Cr
  BY <1>10, <1>11 DEF Across
<1>13. ASSUME NEW g, Begun(last, h, g) PROVE Grown(u, h, g)
  BY <1>8, <1>12, <1>13 DEF Begun, Grown
<1> QED
  BY <1>8, <1>9, <1>13 DEF last, t

LEMMA GrownIs ==
  ASSUME NEW u \in Seq(Byte), Len(u) >= 3, NEW h \in Triple, NEW g \in Seq(Byte), Grown(u, h, g)
  PROVE  Stuff(g) = g /\ Alike(g, u \o h)
<1> DEFINE n == Len(u)
           v == u \o h
<1>1. h \in Seq(Byte) /\ Len(h) = 3 /\ h[1] \in Byte /\ h[2] \in Byte /\ h[3] \in Byte
  <2>1. h \in Seq(Byte) /\ Len(h) = 3
    BY DEF Triple
  <2>2. 1 \in 1 .. Len(h) /\ 2 \in 1 .. Len(h) /\ 3 \in 1 .. Len(h)
    BY <2>1
  <2> QED BY <2>1, <2>2, ElementOfSeq
<1>2. /\ v \in Seq(Byte) /\ Len(v) = n + 3 /\ v[n + 1] = h[1] /\ v[n + 2] = h[2] /\ v[n + 3] = h[3]
  <2>1. /\ v \in Seq(Byte) /\ Len(v) = Len(u) + Len(h)
        /\ \A i \in 1 .. Len(u) + Len(h) : v[i] = IF i <= Len(u) THEN u[i] ELSE h[i - Len(u)]
    BY <1>1, ConcatProperties
  <2> HIDE DEF v
  <2>2. /\ n + 1 \in 1 .. Len(u) + Len(h) /\ n + 2 \in 1 .. Len(u) + Len(h) /\ n + 3 \in 1 .. Len(u) + Len(h)
        /\ ~(n + 1 <= n) /\ ~(n + 2 <= n) /\ ~(n + 3 <= n)
        /\ n + 1 - n = 1 /\ n + 2 - n = 2 /\ n + 3 - n = 3
    BY <1>1
  <2> QED BY <1>1, <2>1, <2>2
<1> HIDE DEF v
<1>3. n \in Nat /\ (n + 3) - 1 = n + 2 /\ (n + 3) - 2 = n + 1 /\ n + 3 >= 3 /\ n + 3 >= 2
  OBVIOUS
<1>4. EndsDot(v) <=> h[1] = Cr /\ h[2] = Lf /\ h[3] = Dot
  BY <1>2, <1>3 DEF EndsDot
<1>5. CASE g = <<Dot, h[1], h[2], h[3]>>
  <2>1. Len(g) = 4 /\ g[1] = Dot /\ g[2] = h[1] /\ g[3] = h[2] /\ g[4] = h[3]
    BY <1>5
  <2>2. ASSUME NEW i, DotAt(g, i) PROVE FALSE
    <3>1. i = 1
      BY <2>1, <2>2 DEF DotAt
    <3> QED BY <2>1, <2>2, <3>1, Bytes DEF DotAt
  <2>3. Stuff(g) = g
    BY <2>2, StuffSame
  <2>4. EndsDot(g) <=> h[1] = Cr /\ h[2] = Lf /\ h[3] = Dot
    BY <2>1 DEF EndsDot
  <2>5. Alike(g, v)
    BY <1>2, <1>3, <1>4, <2>1, <2>4 DEF Alike
  <2> QED BY <2>3, <2>5 DEF v
<1>6. CASE g = <<h[1], Dot, h[2], h[3]>> /\ h[1] = Lf
  <2>1. Len(g) = 4 /\ g[1] = Lf /\ g[2] = Dot /\ g[3] = h[2] /\ g[4] = h[3]
    BY <1>6
  <2>2. ASSUME NEW i, DotAt(g, i) PROVE FALSE
    <3>1. i = 1
      BY <2>1, <2>2 DEF DotAt
    <3> QED BY <2>1, <2>2, <3>1, Bytes DEF DotAt
  <2>3. Stuff(g) = g
    BY <2>2, StuffSame
  <2>4. ~EndsDot(g) /\ ~EndsDot(v)
    BY <1>4, <1>6, <2>1, Bytes DEF EndsDot
  <2>5. Alike(g, v)
    BY <1>2, <1>3, <2>1, <2>4 DEF Alike
  <2> QED BY <2>3, <2>5 DEF v
<1>7. CASE g = h
  <2>1. Len(g) = 3
    BY <1>1, <1>7
  <2>2. ASSUME NEW i, DotAt(g, i) PROVE FALSE
    BY <2>1, <2>2 DEF DotAt
  <2>3. Stuff(g) = g
    BY <2>2, StuffSame
  <2>4. EndsDot(g) <=> h[1] = Cr /\ h[2] = Lf /\ h[3] = Dot
    BY <1>7, <2>1 DEF EndsDot
  <2>5. Alike(g, v)
    BY <1>2, <1>3, <1>4, <1>7, <2>1, <2>4 DEF Alike
  <2> QED BY <2>3, <2>5 DEF v
<1> QED
  BY <1>5, <1>6, <1>7 DEF Grown, Across

(* Piece by piece a message is stuffed to what it is as a whole, wherever   *)
(* a fine cut is                                                           *)
LEMMA StuffPieces ==
  ASSUME NEW u \in Seq(Byte), NEW h \in Triple, NEW r \in Seq(Byte), FineCut(u, h)
  PROVE  Stuff(u) \o dothack(KeptOf(Stuff(u)), h \o r) = Stuff(u \o (h \o r))
<1> DEFINE s == h \o r
<1>1. h \in Seq(Byte) /\ Len(h) = 3 /\ s \in Seq(Byte)
  BY TripleIs
<1>2. CASE u = <<>>
  <2>1. KeptOf(Stuff(u)) = <<>> /\ Stuff(u) = <<>>
    BY <1>2, StuffNone DEF KeptOf
  <2>2. Rejoin(<<>>, s) = s
    BY RejoinFirst
  <2> HIDE DEF s
  <2>3. u \o s = s /\ <<>> \o Stuff(s) = Stuff(s)
    <3>1. Stuff(s) \in Seq(Byte)
      BY <1>1, StuffIs
    <3> QED BY <1>1, <1>2, <3>1, ConcatEmptySeq
  <2>4. Stuff(u) \o dothack(KeptOf(Stuff(u)), s) = Stuff(u \o s)
    BY <2>1, <2>2, <2>3 DEF dothack
  <2> QED BY <2>4 DEF s
<1>3. CASE u # <<>>
  <2>1. Len(u) >= 3
    BY <1>3 DEF FineCut
  <2> DEFINE last == KeptOf(Stuff(u))
  <2>2. last \in Triple /\ Clear(last, h) /\ \A g : Begun(last, h, g) => Grown(u, h, g)
    BY <2>1, CutClear
  <2> HIDE DEF last
  <2>3. PICK g \in Seq(Byte) : Begun(last, h, g) /\ Rejoin(last, s) = g \o r
    BY <2>2, RejoinIs
  <2>4. Grown(u, h, g)
    BY <2>2, <2>3
  <2>5. Stuff(g) = g /\ Alike(g, u \o h)
    BY <2>1, <2>4, GrownIs
  <2>6. Stuff(u \o h) = Stuff(u) \o g
    <3>1. PICK e \in Seq(Byte) : Stuff(u \o h) = Stuff(u) \o e /\ Grown(u, h, e)
      BY <2>1, ThreeMore
    <3>2. e = g
      <4> DEFINE p == Across(u, h)[1] \/ Across(u, h)[2]
                 q == Across(u, h)[3]
                 c == <<Dot, h[1], h[2], h[3]>>
                 d == <<h[1], Dot, h[2], h[3]>>
      <4>1. /\ IF p THEN e = c ELSE IF q THEN e = d ELSE e = h
            /\ IF p THEN g = c ELSE IF q THEN g = d ELSE g = h
        BY <2>4, <3>1, Zenon DEF Grown
      <4> HIDE DEF p, q, c, d
      <4> QED BY <4>1
    <3> QED BY <3>1, <3>2
  <2>7. Stuff(u) \in Seq(Byte) /\ u \o h \in Seq(Byte)
    BY <1>1, StuffIs, Join
  <2>8. Stuff(u) \o Stuff(g) = Stuff(u \o h)
    BY <2>5, <2>6
  <2>9. Stuff(u) \o Stuff(g \o r) = Stuff((u \o h) \o r)
    <3>1. Alikes(Stuff(u), g, u \o h)
      BY <2>5, <2>8 DEF Alikes
    <3>2. Alikes(Stuff(u), g \o r, (u \o h) \o r)
      BY <2>3, <2>7, <3>1, StuffOn, Zenon
    <3> QED BY <3>2 DEF Alikes
  <2>10. (u \o h) \o r = u \o s
    <3> HIDE DEF last
    <3> QED BY <1>1, ConcatAssociative, SMTT(30)
  <2> QED BY <2>3, <2>9, <2>10 DEF dothack, last
<1> QED
  BY <1>2, <1>3

-----------------------------------------------------------------------------
(* What is sent *)

Symbol == Byte \cup {Ok}

(* dothack and tophack make sequences of bytes of sequences of bytes         *)
LEMMA RejoinType ==
  ASSUME NEW last, NEW s \in Seq(Byte), Len(s) >= 1
  PROVE  Rejoin(last, s) \in Seq(Byte) /\ Len(Rejoin(last, s)) >= Len(s)
<1> DEFINE d == First(Matches(<<Dot>>, last \o FirstThree(s)))
           P == Matches(LoneDot, last \o FirstThree(s))
           at == IF d = 3 THEN 0 ELSE d - 4
           r == SubSeq(s, 1, at) \o <<Dot>> \o SubSeq(s, at + 1, Len(s))
<1>1. Rejoin(last, s) = IF P # {} /\ d \in 3 .. 5 THEN r ELSE s
  BY Zenon DEF Rejoin
<1> HIDE DEF P, d
<1>2. ASSUME d \in 3 .. 5 PROVE r \in Seq(Byte) /\ Len(r) >= Len(s)
  <2>1. at \in {0, 1} /\ at \in Int
    BY <1>2
  <2> HIDE DEF at
  <2> DEFINE f == SubSeq(s, 1, at)
             g == SubSeq(s, at + 1, Len(s))
  <2>2. f \in Seq(Byte) /\ Len(f) = at - 1 + 1
    BY <2>1, StretchIs
  <2>3. g \in Seq(Byte) /\ Len(g) = Len(s) - (at + 1) + 1
    <3>1. at + 1 \in Int /\ Len(s) \in Int /\ 1 <= at + 1 /\ at + 1 <= Len(s) + 1 /\ Len(s) <= Len(s)
      BY <2>1
    <3> QED BY <3>1, StretchIs
  <2> HIDE DEF f, g
  <2>4. <<Dot>> \in Seq(Byte) /\ Len(<<Dot>>) = 1
    BY Bytes
  <2>5. f \o <<Dot>> \in Seq(Byte) /\ Len(f \o <<Dot>>) = Len(f) + 1
    BY <2>2, <2>4, Join
  <2> DEFINE e == f \o <<Dot>>
  <2>6. e \o g \in Seq(Byte) /\ Len(e \o g) = (Len(f) + 1) + Len(g)
    <3>1. e \in Seq(Byte) /\ Len(e) = Len(f) + 1
      BY <2>5
    <3> HIDE DEF e
    <3>2. e \o g \in Seq(Byte) /\ Len(e \o g) = Len(e) + Len(g)
      BY <2>3, <3>1, Join
    <3> QED BY <3>1, <3>2
  <2>7. (Len(f) + 1) + Len(g) >= Len(s)
    BY <2>1, <2>2, <2>3
  <2> QED BY <2>6, <2>7 DEF f, g
<1> HIDE DEF r
<1> QED
  BY <1>1, <1>2

LEMMA dothackType ==
  ASSUME NEW last, NEW s \in Seq(Byte), Len(s) >= 1
  PROVE  dothack(last, s) \in Seq(Byte) /\ Len(dothack(last, s)) >= Len(s)
<1> DEFINE r == Rejoin(last, s)
           t == Stuff(r)
<1>1. r \in Seq(Byte) /\ Len(r) >= Len(s)
  BY RejoinType
<1>2. dothack(last, s) = t
  BY DEF dothack
<1> HIDE DEF r
<1>3. t \in Seq(Byte) /\ EndsAs(t, r)
  BY <1>1, StuffIs, StuffEnds
<1>4. Len(t) >= Len(r)
  BY <1>3 DEF EndsAs
<1>5. Len(t) \in Nat /\ Len(r) \in Nat /\ Len(s) \in Nat
  BY <1>1, <1>3
<1> QED
  BY <1>1, <1>2, <1>3, <1>4, <1>5

(* The least of a set of places *)
LEMMA FirstLeast ==
  ASSUME NEW S, S \subseteq Nat, S # {}
  PROVE  First(S) \in S /\ \A y \in S : First(S) <= y
<1> DEFINE R == OpToRel(<, Nat)
<1>1. IsWellFoundedOn(R, Nat)
  BY NatLessThanWellFounded
<1>2. \A x, y \in Nat : x < y => <<x, y>> \in R
  BY DEF OpToRel
<1> HIDE DEF R
<1>3. PICK x \in S : \A y \in S : ~(<<y, x>> \in R)
  BY <1>1, WFMin
<1>4. \A y \in S : x <= y
  <2> SUFFICES ASSUME NEW y \in S, y < x PROVE FALSE
    OBVIOUS
  <2> QED BY <1>2, <1>3
<1>5. First(S) = x
  <2>1. S \subseteq Int
    OBVIOUS
  <2> QED BY <1>4, <2>1, FirstIs
<1> QED
  BY <1>4, <1>5

LEMMA CrlfIs ==
  ASSUME NEW S, NEW s \in Seq(S), NEW i
  PROVE  i \in Matches(Crlf, s) <=> i \in 1 .. Len(s) - 1 /\ s[i] = Cr /\ s[i + 1] = Lf
<1> DEFINE c == Crlf
<1>1. c \in Seq(Byte) /\ Len(c) = 2 /\ c[1] = Cr /\ c[2] = Lf
  BY Bytes DEF Crlf
<1> HIDE DEF c
<1>2. i \in Matches(c, s) <=>
        /\ i \in 1 .. Len(s) - Len(c) + 1
        /\ \A k \in 1 .. Len(c) : s[i + k - 1] = c[k]
  <2>1. c \in Seq(Byte)
    BY <1>1
  <2> QED BY <2>1, MatchesIs
<1>3. Len(s) - Len(c) + 1 = Len(s) - 1
  BY <1>1
<1>4. (\A k \in 1 .. Len(c) : s[i + k - 1] = c[k]) <=> s[i + 1 - 1] = c[1] /\ s[i + 2 - 1] = c[2]
  <2>1. 1 .. Len(c) = {1, 2}
    BY <1>1
  <2> QED BY <2>1
<1>5. i \in 1 .. Len(s) - 1 => i + 1 - 1 = i /\ i + 2 - 1 = i + 1
  OBVIOUS
<1> QED
  BY <1>1, <1>2, <1>3, <1>4, <1>5 DEF c

(* tophack leaves of a piece what it begins with *)
LEMMA TopCutIs ==
  ASSUME NEW s \in Seq(Byte), Len(s) >= 1, NEW count, NEW l
  PROVE  \E j \in 1 .. Len(s) : TopCut(s, count, l) = SubSeq(s, 1, j)
<1> DEFINE k == count - l + 1 + IF l = 0 THEN 1 ELSE 0
           E == Matches(Crlf, s)
           C == {p \in E : p >= 3 /\ Cardinality({q \in E : q >= p}) = k}
           at == First(C)
<1>1. TopCut(s, count, l) = IF C = {} THEN s
        ELSE IF Len(s) - 1 - at >= 3 THEN SubSeq(s, 1, at + 1) ELSE SubSeq(s, 1, at - 1)
  BY Zenon DEF TopCut
<1>2. \A p \in C : p \in 1 .. Len(s) - 1 /\ p >= 3
  BY CrlfIs
<1> HIDE DEF C
<1>3. CASE C = {}
  <2>1. SubSeq(s, 1, Len(s)) = s
    BY SubSeqFull
  <2>2. Len(s) \in 1 .. Len(s)
    OBVIOUS
  <2> QED BY <1>1, <1>3, <2>1, <2>2
<1>4. CASE C # {}
  <2>1. at \in C
    <3>1. C \subseteq Nat
      BY <1>2
    <3> QED BY <1>4, <3>1, FirstLeast
  <2>2. at \in 1 .. Len(s) - 1 /\ at >= 3
    BY <1>2, <2>1
  <2> HIDE DEF at
  <2>3. at + 1 \in 1 .. Len(s) /\ at - 1 \in 1 .. Len(s)
    BY <2>2
  <2> QED BY <1>1, <1>4, <2>3
<1> QED
  BY <1>3, <1>4

LEMMA TopCutType ==
  ASSUME NEW s \in Seq(Byte), Len(s) >= 1, NEW count, NEW l
  PROVE  TopCut(s, count, l) \in Seq(Byte) /\ Len(TopCut(s, count, l)) >= 1
<1>1. PICK j \in 1 .. Len(s) : TopCut(s, count, l) = SubSeq(s, 1, j)
  BY TopCutIs
<1>2. j \in Int /\ j <= Len(s) /\ 1 <= j + 1 /\ j - 1 + 1 = j /\ j >= 1
  OBVIOUS
<1>3. SubSeq(s, 1, j) \in Seq(Byte) /\ Len(SubSeq(s, 1, j)) = j - 1 + 1
  BY <1>2, StretchIs
<1> QED
  BY <1>1, <1>2, <1>3

(* The strings being sent: none, one or two *)
Strings(q) ==
  \/ q = <<>>
  \/ \E a \in Seq(Symbol) : q = <<a>>
  \/ \E a \in Seq(Symbol), b \in Seq(Symbol) : q = <<a, b>>

(* What has been given to be sent, t, is what has been sent, w, and what is  *)
(* still being sent                                                        *)
Sent(t, w, q) ==
  \/ q = <<>> /\ t = w
  \/ \E a \in Seq(Symbol) : q = <<a>> /\ t = w \o a
  \/ \E a \in Seq(Symbol), b \in Seq(Symbol) : q = <<a, b>> /\ t = w \o (a \o b)

LEMMA JoinedIs ==
  ASSUME NEW a, NEW b
  PROVE  Joined(<<a>>) = a /\ Joined(<<a, b>>) = a \o b
<1>1. Len(<<a>>) = 1 /\ <<a>>[1] = a /\ Len(<<a, b>>) # 1 /\ <<a, b>>[1] = a /\ <<a, b>>[2] = b
  OBVIOUS
<1> QED
  BY <1>1, Zenon DEF Joined

SendInv ==
  /\ msg \in Message /\ told \in Seq(Symbol) /\ wire \in Seq(Symbol) /\ rc \in Nat
  /\ rest \in Seq(Byte) /\ Len(rest) <= Len(msg)
  /\ Strings(queue)
  /\ queue = <<>> => rc = 0
  /\ err \in BOOLEAN
  /\ err => queue = <<>>
  /\ ~err /\ rc = 0 => Sent(told, wire, queue)
  /\ result = "ok" => pc = "over" /\ ~err
  /\ pc = "over" => queue = <<>>
  /\ pc = "start" => told = <<>> /\ queue = <<>> /\ ~err

(* Another string, or two, once the ones before have been sent               *)
Said(strings) ==
  /\ Strings(strings)
  /\ IF err THEN UNCHANGED <<queue, told>> ELSE queue' = strings /\ told' = told \o Joined(strings)
  /\ strings # <<>>

LEMMA SaidKeeps ==
  ASSUME SendInv, queue = <<>>, NEW strings, Said(strings), UNCHANGED <<msg, err, rc, wire>>,
         rest' \in Seq(Byte), Len(rest') <= Len(msg), pc' \notin {"start", "over"}, result' # "ok"
  PROVE  SendInv'
<1>1. CASE err
  <2>1. queue' = queue /\ told' = told
    BY <1>1 DEF Said
  <2> QED BY <1>1, <2>1 DEF SendInv, Strings, Sent
<1>2. CASE ~err
  <2>1. queue' = strings /\ told' = told \o Joined(strings) /\ Strings(strings) /\ strings # <<>>
    BY <1>2 DEF Said
  <2>2. told = wire /\ rc = 0
    <3>1. Len(<<>>) = 0
      OBVIOUS
    <3>2. \A a, b : <<>> # <<a>> /\ <<>> # <<a, b>>
      OBVIOUS
    <3> QED BY <1>2, <3>2 DEF SendInv, Sent
  <2>3. told \in Seq(Symbol) /\ wire \in Seq(Symbol)
    BY DEF SendInv
  <2>4. told' \in Seq(Symbol) /\ Sent(told', wire', queue') /\ Strings(queue')
    <3>1. CASE \E a \in Seq(Symbol) : strings = <<a>>
      <4>1. PICK a \in Seq(Symbol) : strings = <<a>>
        BY <3>1
      <4>2. Joined(strings) = a
        BY <4>1, JoinedIs
      <4>3. wire' = wire
        OBVIOUS
      <4>4. told' = wire' \o a /\ queue' = <<a>>
        BY <2>1, <2>2, <4>1, <4>2, <4>3
      <4>5. wire \o a \in Seq(Symbol)
        BY <2>3, Join
      <4> QED BY <2>1, <4>3, <4>4, <4>5 DEF Sent
    <3>2. CASE \E a \in Seq(Symbol), b \in Seq(Symbol) : strings = <<a, b>>
      <4>1. PICK a \in Seq(Symbol), b \in Seq(Symbol) : strings = <<a, b>>
        BY <3>2
      <4>2. Joined(strings) = a \o b
        BY <4>1, JoinedIs
      <4>3. wire' = wire
        OBVIOUS
      <4>4. told' = wire' \o (a \o b) /\ queue' = <<a, b>>
        BY <2>1, <2>2, <4>1, <4>2, <4>3
      <4>5. a \o b \in Seq(Symbol)
        BY Join
      <4>6. wire \o (a \o b) \in Seq(Symbol)
        BY <2>3, <4>5, Join
      <4> QED BY <2>1, <4>3, <4>4, <4>6 DEF Sent
    <3> QED BY <2>1, <3>1, <3>2 DEF Strings
  <2> QED BY <1>2, <2>1, <2>2, <2>4 DEF SendInv
<1> QED
  BY <1>1, <1>2 DEF SendInv

LEMMA SendKeeps ==
  ASSUME SendInv, Send
  PROVE  SendInv'
<1> DEFINE h == Head(queue)
<1>1. /\ queue # <<>> /\ UNCHANGED <<request, pc, result, plugin, err, told>>
      /\ ~err /\ told \in Seq(Symbol) /\ wire \in Seq(Symbol) /\ rc \in Nat /\ Strings(queue)
  BY DEF Send, SendInv
<1>2. PICK n \in 1 .. Len(h) - rc :
        /\ wire' = wire \o SubSeq(h, rc + 1, rc + n)
        /\ IF n = Len(h) THEN queue' = Tail(queue) /\ rc' = 0 /\ UNCHANGED partial
           ELSE partial < MaxPartial /\ partial' = partial + 1 /\ rc' = n /\ UNCHANGED queue
  BY DEF Send
<1>3. /\ h \in Seq(Symbol)
      /\ \/ queue = <<h>> /\ Tail(queue) = <<>>
         \/ \E b \in Seq(Symbol) : queue = <<h, b>> /\ Tail(queue) = <<b>>
  <2>1. ASSUME NEW a \in Seq(Symbol), queue = <<a>> PROVE h = a /\ Tail(queue) = <<>>
    BY <2>1
  <2>2. ASSUME NEW a \in Seq(Symbol), NEW b \in Seq(Symbol), queue = <<a, b>>
        PROVE  h = a /\ Tail(queue) = <<b>>
    <3>1. h = a
      BY <2>2
    <3>2. Tail(queue) = <<b>>
      BY <2>2
    <3> QED BY <3>1, <3>2
  <2> HIDE DEF h
  <2>3. CASE \E a \in Seq(Symbol) : queue = <<a>>
    BY <2>1, <2>3
  <2>4. CASE \E a \in Seq(Symbol), b \in Seq(Symbol) : queue = <<a, b>>
    BY <2>2, <2>4
  <2> QED BY <1>1, <2>3, <2>4 DEF Strings
<1>4. rc = 0 => Sent(told, wire, queue)
  BY <1>1 DEF SendInv
<1> HIDE DEF h
<1>5. SubSeq(h, rc + 1, rc + n) \in Seq(Symbol)
  <2>1. rc + 1 \in Int /\ rc + n \in Int /\ 1 <= rc + 1 /\ rc + 1 <= (rc + n) + 1 /\ rc + n <= Len(h)
    BY <1>1, <1>3
  <2> QED BY <1>3, <2>1, StretchIs
<1>6. wire' \in Seq(Symbol)
  BY <1>1, <1>2, <1>5, Join
<1>7. CASE n = Len(h)
  <2>1. rc = 0 /\ rc + 1 = 1 /\ rc + n = Len(h)
    BY <1>1, <1>3, <1>7
  <2>2. SubSeq(h, rc + 1, rc + n) = h
    BY <1>3, <2>1, SubSeqFull
  <2>3. wire' = wire \o h /\ queue' = Tail(queue) /\ rc' = 0
    BY <1>2, <1>7, <2>2
  <2>4. told' = told
    BY <1>1
  <2>5. CASE queue = <<h>> /\ Tail(queue) = <<>>
    <3>1. told = wire \o h
      <4>1. <<h>> # <<>> /\ \A a : <<h>> = <<a>> => h = a
        OBVIOUS
      <4>2. \A a, b : <<h>> # <<a, b>>
        <5>1. Len(<<h>>) = 1 /\ \A a, b : Len(<<a, b>>) = 2
          OBVIOUS
        <5> QED BY <5>1
      <4> QED BY <1>4, <2>1, <2>5, <4>1, <4>2, Zenon DEF Sent
    <3>2. Sent(told', wire', queue') /\ Strings(queue') /\ queue' = <<>>
      BY <2>3, <2>4, <2>5, <3>1 DEF Sent, Strings
    <3> QED BY <1>1, <1>6, <2>3, <3>2 DEF SendInv, request, plugin
  <2>6. CASE \E b \in Seq(Symbol) : queue = <<h, b>> /\ Tail(queue) = <<b>>
    <3>1. PICK b \in Seq(Symbol) : queue = <<h, b>> /\ Tail(queue) = <<b>>
      BY <2>6
    <3>2. told = wire \o (h \o b)
      <4>1. <<h, b>> # <<>> /\ \A a, c : <<h, b>> = <<a, c>> => h = a /\ b = c
        OBVIOUS
      <4>2. \A a : <<h, b>> # <<a>>
        <5>1. Len(<<h, b>>) = 2 /\ \A a : Len(<<a>>) = 1
          OBVIOUS
        <5> QED BY <5>1
      <4> QED BY <1>4, <2>1, <3>1, <4>1, <4>2, Zenon DEF Sent
    <3>3. told = (wire \o h) \o b
      BY <1>1, <1>3, <3>2, ConcatAssociative
    <3>4. Sent(told', wire', queue')
      BY <2>3, <2>4, <3>1, <3>3 DEF Sent
    <3>5. Strings(queue') /\ queue' # <<>>
      <4>1. <<b>> # <<>>
        OBVIOUS
      <4> QED BY <2>3, <3>1, <4>1 DEF Strings
    <3> QED BY <1>1, <1>6, <2>3, <3>4, <3>5 DEF SendInv, request, plugin
  <2> QED BY <1>3, <2>5, <2>6
<1>8. CASE n # Len(h)
  <2>1. rc' = n /\ UNCHANGED queue /\ n \in Nat /\ n # 0
    BY <1>2, <1>8
  <2> QED BY <1>1, <1>6, <2>1 DEF SendInv, request, plugin
<1> QED
  BY <1>7, <1>8

(* What the website delivers *)
LEMMA PieceIs ==
  ASSUME SendInv, NEW n \in 1 .. Len(rest)
  PROVE  /\ SubSeq(rest, 1, n) \in Seq(Byte) /\ Len(SubSeq(rest, 1, n)) = n
         /\ \A i \in 1 .. n : SubSeq(rest, 1, n)[i] = rest[i]
         /\ SubSeq(rest, n + 1, Len(rest)) \in Seq(Byte)
         /\ Len(SubSeq(rest, n + 1, Len(rest))) = Len(rest) - n
         /\ \A i \in 1 .. Len(rest) - n : SubSeq(rest, n + 1, Len(rest))[i] = rest[n + i]
<1>1. rest \in Seq(Byte)
  BY DEF SendInv
<1> DEFINE m == Len(rest)
<1>2. m \in Nat /\ n \in 1 .. m
  BY <1>1
<1>3. /\ n \in Int /\ 1 <= n + 1 /\ n <= m /\ n - 1 + 1 = n
      /\ n + 1 \in Int /\ m \in Int /\ 1 <= n + 1 /\ n + 1 <= m + 1 /\ m - (n + 1) + 1 = m - n
  BY <1>2
<1>4. /\ SubSeq(rest, 1, n) \in Seq(Byte) /\ Len(SubSeq(rest, 1, n)) = n
      /\ \A i \in 1 .. n : SubSeq(rest, 1, n)[i] = rest[1 + i - 1]
  BY <1>1, <1>3, StretchIs
<1>5. /\ SubSeq(rest, n + 1, m) \in Seq(Byte) /\ Len(SubSeq(rest, n + 1, m)) = m - n
      /\ \A i \in 1 .. m - n : SubSeq(rest, n + 1, m)[i] = rest[(n + 1) + i - 1]
  <2> DEFINE k == n + 1
  <2>1. k \in Int /\ m \in Int /\ 1 <= k /\ k <= m + 1 /\ m <= Len(rest) /\ m - k + 1 = m - n
    BY <1>2
  <2> HIDE DEF k, m
  <2>2. /\ SubSeq(rest, k, m) \in Seq(Byte) /\ Len(SubSeq(rest, k, m)) = m - k + 1
        /\ \A i \in 1 .. m - k + 1 : SubSeq(rest, k, m)[i] = rest[k + i - 1]
    BY <1>1, <2>1, StretchIs
  <2> QED BY <2>1, <2>2 DEF k
<1>6. \A i \in Int : 1 + i - 1 = i /\ (n + 1) + i - 1 = n + i
  BY <1>2
<1>7. \A i \in 1 .. n : SubSeq(rest, 1, n)[i] = rest[i]
  BY <1>4, <1>6
<1>8. \A i \in 1 .. m - n : SubSeq(rest, n + 1, m)[i] = rest[n + i]
  BY <1>5, <1>6
<1> QED
  BY <1>4, <1>5, <1>7, <1>8

(* What is told of a piece *)
LEMMA PieceSaid ==
  ASSUME NEW s \in Seq(Byte), Len(s) >= 1, RetrPiece(s) \/ TopPiece(s)
  PROVE  \E strings : Said(strings)
<1>1. \A out : out \in Seq(Byte) => out \in Seq(Symbol)
  BY DEF Symbol
<1>2. \A a : <<a>> # <<>> /\ \A b : <<a, b>> # <<>>
  OBVIOUS
<1>3. CASE RetrPiece(s)
  <2> DEFINE out == dothack(strhack.last4, s)
  <2>1. Say(<<out>>)
    BY <1>3 DEF RetrPiece
  <2>2. out \in Seq(Symbol)
    BY <1>1, dothackType
  <2> HIDE DEF out
  <2>3. Said(<<out>>)
    BY <1>2, <2>1, <2>2, Zenon DEF Said, Say, Strings
  <2> QED BY <2>3
<1>4. CASE TopPiece(s)
  <2> DEFINE a == TopCount(s)
             stop == check_stop(a.header_done, a.current_lines, lines)
             kept == IF stop THEN TopCut(s, a.current_lines, lines) ELSE s
             out == dothack(a.last4, kept)
  <2>1. Say(IF stop THEN <<out, Crlf>> ELSE <<out>>)
    BY <1>4, Zenon DEF TopPiece
  <2> HIDE DEF a, stop
  <2>2. kept \in Seq(Byte) /\ Len(kept) >= 1
    BY TopCutType
  <2> HIDE DEF kept
  <2>3. out \in Seq(Symbol) /\ Crlf \in Seq(Symbol)
    BY <1>1, <2>2, dothackType, Bytes
  <2> HIDE DEF out
  <2>4. Strings(<<out>>) /\ Strings(<<out, Crlf>>)
    BY <2>3, Zenon DEF Strings
  <2>5. CASE stop
    <3>1. Said(<<out, Crlf>>)
      BY <1>2, <2>1, <2>4, <2>5, Zenon DEF Said, Say
    <3> QED BY <3>1
  <2>6. CASE ~stop
    <3>1. Said(<<out>>)
      BY <1>2, <2>1, <2>4, <2>6, Zenon DEF Said, Say
    <3> QED BY <3>1
  <2> QED BY <2>5, <2>6
<1> QED
  BY <1>3, <1>4

LEMMA SendInvInit == Init => SendInv
<1> SUFFICES ASSUME Init PROVE SendInv
  OBVIOUS
<1>1. msg \in Message /\ msg \in Seq(Byte)
  BY MessageSet DEF Init
<1>2. Strings(<<>>) /\ Sent(<<>>, <<>>, <<>>) /\ <<>> \in Seq(Symbol)
  BY DEF Strings, Sent
<1>3. rest = msg /\ Len(rest) <= Len(msg)
  BY <1>1 DEF Init
<1> QED
  BY <1>1, <1>2, <1>3 DEF Init, SendInv

LEMMA SendInvNext ==
  ASSUME SendInv, [Next]_vars
  PROVE  SendInv'
<1>1. CASE Send
  BY <1>1, SendKeeps
<1>2. CASE SendFails
  <2>1. Strings(<<>>)
    BY DEF Strings
  <2> QED BY <1>2, <2>1 DEF SendFails, SendInv, request, plugin
<1> DEFINE Dots == <<<<Dot>>, Crlf>>
           Oks == <<<<Ok>>, Crlf>>
<1>3. Strings(Dots) /\ Dots # <<>> /\ Strings(Oks) /\ Oks # <<>>
  <2>1. <<Dot>> \in Seq(Symbol) /\ <<Ok>> \in Seq(Symbol) /\ Crlf \in Seq(Symbol)
    BY Bytes DEF Symbol, Crlf
  <2>2. \A a, b : <<a, b>> # <<>>
    OBVIOUS
  <2> QED BY <2>1, <2>2, Zenon DEF Strings
<1>4. (Say(Dots) => Said(Dots)) /\ (Say(Oks) => Said(Oks))
  BY <1>3, Zenon DEF Say, Said
<1> HIDE DEF Dots, Oks
<1>5. rest \in Seq(Byte) /\ Len(rest) <= Len(msg)
  BY DEF SendInv
<1>6. CASE Answer
  <2>1. Said(Oks) /\ queue = <<>> /\ pc' = "answered" /\ pc = "start"
    BY <1>4, <1>6 DEF Answer, Goto, Oks
  <2>2. UNCHANGED <<msg, err, rc, wire, rest, result>>
    BY <1>6 DEF Answer, request, plugin
  <2>3. result' # "ok"
    BY <2>1, <2>2 DEF SendInv
  <2>4. rest' \in Seq(Byte) /\ Len(rest') <= Len(msg)
    BY <1>5, <2>2
  <2> QED BY <2>1, <2>2, <2>3, <2>4, SaidKeeps
<1>7. CASE AnswerFails
  BY <1>7 DEF AnswerFails, Goto, SendInv, request, plugin, socket
<1>8. CASE Marshaller
  BY <1>8 DEF Marshaller, Goto, SendInv, request, plugin, socket
<1>9. CASE Piece
  <2>1. PICK n \in 1 .. Len(rest) :
          /\ RetrPiece(SubSeq(rest, 1, n)) \/ TopPiece(SubSeq(rest, 1, n))
          /\ rest' = SubSeq(rest, n + 1, Len(rest))
    BY <1>9 DEF Piece
  <2> DEFINE s == SubSeq(rest, 1, n)
  <2>2. s \in Seq(Byte) /\ Len(s) = n /\ rest' \in Seq(Byte) /\ Len(rest') = Len(rest) - n
    BY <2>1, PieceIs
  <2>3. RetrPiece(s) \/ TopPiece(s)
    BY <2>1
  <2> HIDE DEF s
  <2>4. Len(s) >= 1
    BY <2>2
  <2>5. PICK strings : Said(strings)
    BY <2>2, <2>3, <2>4, PieceSaid
  <2>6. /\ queue = <<>> /\ pc = "callback" /\ pc' = "callback"
        /\ UNCHANGED <<msg, err, rc, wire, result>>
    BY <1>9 DEF Piece, Goto, request
  <2>7. result' # "ok"
    BY <2>6 DEF SendInv
  <2>8. Len(rest') <= Len(msg)
    <3>1. Len(rest) \in Nat /\ Len(msg) \in Nat
      BY <1>5, MessageSet DEF SendInv
    <3> QED BY <1>5, <2>2, <3>1
  <2> QED BY <2>2, <2>5, <2>6, <2>7, <2>8, SaidKeeps
<1>10. CASE PluginEnds \/ LaterRangeFails \/ PluginFails
  <2>1. Said(Dots) /\ queue = <<>> /\ pc' = "dot" /\ pc = "callback"
    BY <1>4, <1>10 DEF PluginEnds, LaterRangeFails, PluginFails, Goto, Dots
  <2>2. UNCHANGED <<msg, err, rc, wire, rest>> /\ (result' = result \/ result' = "failed")
    BY <1>10 DEF PluginEnds, LaterRangeFails, PluginFails, request, plugin
  <2>3. result' # "ok"
    BY <2>1, <2>2 DEF SendInv
  <2>4. rest' \in Seq(Byte) /\ Len(rest') <= Len(msg)
    BY <1>5, <2>2
  <2> QED BY <2>1, <2>2, <2>3, <2>4, SaidKeeps
<1>11. CASE Over
  BY <1>11 DEF Over, Goto, SendInv, request, plugin, socket
<1>12. CASE RangeEnds
  BY <1>12 DEF RangeEnds, Goto, SendInv, request, socket
<1>13. CASE UNCHANGED vars
  BY <1>13 DEF vars, SendInv, request, plugin, socket
<1> QED
  BY <1>1, <1>2, <1>6, <1>7, <1>8, <1>9, <1>10, <1>11, <1>12, <1>13 DEF Next

-----------------------------------------------------------------------------
(* What is told *)

(* The first bytes of the message                                           *)
Upto(c) == SubSeq(msg, 1, c)
Taken   == Len(msg) - Len(rest)

LEMMA UptoIs ==
  ASSUME msg \in Message, NEW c \in 0 .. Len(msg)
  PROVE  Upto(c) \in Seq(Byte) /\ Len(Upto(c)) = c /\ \A i \in 1 .. c : Upto(c)[i] = msg[i]
<1>1. msg \in Seq(Byte)
  BY MessageSet
<1>2. c \in Int /\ 1 <= c + 1 /\ c <= Len(msg) /\ c - 1 + 1 = c /\ \A i \in Int : 1 + i - 1 = i
  BY <1>1
<1>3. /\ SubSeq(msg, 1, c) \in Seq(Byte) /\ Len(SubSeq(msg, 1, c)) = c
      /\ \A i \in 1 .. c : SubSeq(msg, 1, c)[i] = msg[1 + i - 1]
  BY <1>1, <1>2, StretchIs
<1>4. \A i \in 1 .. c : SubSeq(msg, 1, c)[i] = msg[i]
  BY <1>2, <1>3
<1> QED
  BY <1>3, <1>4 DEF Upto

LEMMA UptoMore ==
  ASSUME msg \in Message, NEW c \in Nat, NEW s \in Seq(Byte), c + Len(s) <= Len(msg),
         \A i \in 1 .. Len(s) : s[i] = msg[c + i]
  PROVE  Upto(c) \o s = Upto(c + Len(s))
<1> DEFINE p == Upto(c)
           t == Upto(c + Len(s))
<1>1. msg \in Seq(Byte) /\ Len(msg) \in Nat /\ Len(s) \in Nat
  BY MessageSet
<1>2. c \in 0 .. Len(msg) /\ c + Len(s) \in 0 .. Len(msg)
  BY <1>1
<1>3. p \in Seq(Byte) /\ Len(p) = c /\ \A i \in 1 .. c : p[i] = msg[i]
  BY <1>2, UptoIs
<1>4. t \in Seq(Byte) /\ Len(t) = c + Len(s) /\ \A i \in 1 .. c + Len(s) : t[i] = msg[i]
  BY <1>2, UptoIs
<1> HIDE DEF p, t
<1>5. \A i \in 1 .. Len(p) : t[i] = p[i]
  BY <1>1, <1>3, <1>4
<1>6. \A i \in 1 .. Len(s) : t[Len(p) + i] = s[i]
  <2> SUFFICES ASSUME NEW i \in 1 .. Len(s) PROVE t[Len(p) + i] = s[i]
    OBVIOUS
  <2>1. c + i \in 1 .. c + Len(s)
    BY <1>1
  <2>2. t[c + i] = msg[c + i] /\ s[i] = msg[c + i]
    BY <1>4, <2>1
  <2> QED BY <1>3, <2>2
<1>7. Len(t) = Len(p) + Len(s)
  BY <1>3, <1>4
<1>8. p \o s = t
  BY <1>3, <1>4, <1>5, <1>6, <1>7, JoinIs
<1> QED
  BY <1>8 DEF p, t

(* A cut at which dothack can tell what it has to double; the message has   *)
(* no line that begins with a dot                                          *)
GoodCut(c) ==
  \/ c = 0
  \/ /\ c >= 3
     /\ ~\E i \in Matches(LoneDot, msg) : c \in i .. i + 2 /\ Dot \in {msg[j] : j \in c - 2 .. i - 1}
NoDotLine == Matches(Crlf \o <<Dot>>, msg) = {}

Record(a) ==
  \E hd, cl, l3, l4 : a = [header_done |-> hd, current_lines |-> cl, last3 |-> l3, last4 |-> l4]

(* A piece is told whole, or cut by tophack and for the last time           *)
Tells(s) ==
  \/ /\ ~purge'
     /\ Say(<<dothack(strhack.last4, s)>>)
     /\ strhack'.last4 \in KeepLast(dothack(strhack.last4, s))
  \/ /\ purge' /\ lines # Retr
     /\ \E j \in 1 .. Len(s) :
          /\ TopCut(s, TopCount(s).current_lines, lines) = SubSeq(s, 1, j)
          /\ check_stop(TopCount(s).header_done, TopCount(s).current_lines, lines)
          /\ Say(<<dothack(strhack.last4, SubSeq(s, 1, j)), Crlf>>)

LEMMA PieceTells ==
  ASSUME Record(strhack), ~purge, NEW s \in Seq(Byte), Len(s) >= 1, RetrPiece(s) \/ TopPiece(s)
  PROVE  Record(strhack') /\ Tells(s)
<1>1. PICK hd, cl, l3, l4 :
        strhack = [header_done |-> hd, current_lines |-> cl, last3 |-> l3, last4 |-> l4]
  BY DEF Record
<1>2. CASE RetrPiece(s)
  <2> DEFINE out == dothack(strhack.last4, s)
  <2>1. PICK k4 \in KeepLast(out) : strhack' = [strhack EXCEPT !.last4 = k4]
    BY <1>2 DEF RetrPiece
  <2>2. Say(<<out>>) /\ purge' = purge
    BY <1>2 DEF RetrPiece
  <2> HIDE DEF out
  <2>3. strhack' = [header_done |-> hd, current_lines |-> cl, last3 |-> l3, last4 |-> k4]
    BY <1>1, <2>1
  <2>4. strhack'.last4 = k4
    BY <2>3
  <2>5. Record(strhack')
    BY <2>3 DEF Record
  <2> QED BY <2>1, <2>2, <2>4, <2>5 DEF Tells, out
<1>3. CASE TopPiece(s)
  <2> DEFINE a == TopCount(s)
             stop == check_stop(a.header_done, a.current_lines, lines)
             kept == IF stop THEN TopCut(s, a.current_lines, lines) ELSE s
             out == dothack(a.last4, kept)
  <2>1. \E b, c : a = [header_done |-> b, current_lines |-> c, last3 |-> l3, last4 |-> l4]
    <3>2. \A y : [strhack EXCEPT !.current_lines = y]
                   = [header_done |-> hd, current_lines |-> y, last3 |-> l3, last4 |-> l4]
      BY <1>1
    <3>3. a = strhack \/ (\E y : a = [strhack EXCEPT !.current_lines = y])
          \/ \E x, y : a = [strhack EXCEPT !.header_done = x, !.current_lines = y]
      BY DEF TopCount
    <3>4. \A x, y : [strhack EXCEPT !.header_done = x, !.current_lines = y]
                      = [header_done |-> x, current_lines |-> y, last3 |-> l3, last4 |-> l4]
      <4> HIDE DEF a
      <4> SUFFICES ASSUME NEW x, NEW y
                   PROVE  [strhack EXCEPT !.header_done = x, !.current_lines = y]
                      = [header_done |-> x, current_lines |-> y, last3 |-> l3, last4 |-> l4]
        OBVIOUS
      <4>1. [strhack EXCEPT !.header_done = x, !.current_lines = y]
              = [[strhack EXCEPT !.header_done = x] EXCEPT !.current_lines = y]
        OBVIOUS
      <4>2. [strhack EXCEPT !.header_done = x]
              = [header_done |-> x, current_lines |-> cl, last3 |-> l3, last4 |-> l4]
        BY <1>1
      <4>3. [[header_done |-> x, current_lines |-> cl, last3 |-> l3, last4 |-> l4]
               EXCEPT !.current_lines = y]
              = [header_done |-> x, current_lines |-> y, last3 |-> l3, last4 |-> l4]
        OBVIOUS
      <4> QED BY <4>1, <4>2, <4>3, Zenon
    <3> HIDE DEF a
    <3> QED BY <1>1, <3>2, <3>3, <3>4
  <2>2. PICK k3 \in KeepLast(s), k4 \in KeepLast(out) :
          strhack' = [a EXCEPT !.last3 = IF strhack.header_done THEN @ ELSE k3, !.last4 = k4]
    BY <1>3, Zenon DEF TopPiece
  <2>3. Say(IF stop THEN <<out, Crlf>> ELSE <<out>>) /\ purge' = stop /\ lines # Retr
    BY <1>3, Zenon DEF TopPiece
  <2>4. a.last4 = strhack.last4
    <3> HIDE DEF a
    <3> QED BY <1>1, <2>1
  <2>5. Record(strhack') /\ strhack'.last4 = k4
    <3> HIDE DEF a, out, kept, stop
    <3>1. PICK b, c : a = [header_done |-> b, current_lines |-> c, last3 |-> l3, last4 |-> l4]
      BY <2>1
    <3>2. PICK m3 : strhack' = [a EXCEPT !.last3 = m3, !.last4 = k4]
      BY <2>2
    <3>3. strhack' = [header_done |-> b, current_lines |-> c, last3 |-> m3, last4 |-> k4]
      BY <3>1, <3>2
    <3>4. strhack'.last4 = k4
      BY <3>3
    <3> QED BY <3>3, <3>4 DEF Record
  <2>6. CASE stop
    <3>1. PICK j \in 1 .. Len(s) : TopCut(s, a.current_lines, lines) = SubSeq(s, 1, j)
      BY TopCutIs
    <3> HIDE DEF a
    <3>2. kept = SubSeq(s, 1, j)
      BY <2>6, <3>1
    <3>3. out = dothack(strhack.last4, SubSeq(s, 1, j))
      BY <2>4, <3>2
    <3>4. Say(<<out, Crlf>>) /\ purge'
      BY <2>3, <2>6, Zenon
    <3>5. Say(<<dothack(strhack.last4, SubSeq(s, 1, j)), Crlf>>)
      BY <3>3, <3>4
    <3> HIDE DEF out, kept
    <3>6. Tells(s)
      <4>1. /\ TopCut(s, TopCount(s).current_lines, lines) = SubSeq(s, 1, j)
            /\ check_stop(TopCount(s).header_done, TopCount(s).current_lines, lines)
        BY <2>6, <3>1 DEF a
      <4> QED BY <2>3, <3>4, <3>5, <4>1 DEF Tells
    <3> QED BY <2>5, <3>6
  <2>7. CASE ~stop
    <3> HIDE DEF a
    <3>1. kept = s
      BY <2>7
    <3>2. out = dothack(strhack.last4, s)
      BY <2>4, <3>1
    <3> HIDE DEF kept, out
    <3>3. Say(<<out>>) /\ ~purge'
      BY <2>3, <2>7, Zenon
    <3>4. k4 \in KeepLast(dothack(strhack.last4, s)) /\ Say(<<dothack(strhack.last4, s)>>)
      BY <2>2, <3>2, <3>3
    <3>5. Tells(s)
      BY <2>5, <3>3, <3>4 DEF Tells
    <3> QED BY <2>5, <3>5
  <2> QED BY <2>6, <2>7
<1> QED
  BY <1>2, <1>3

(* A line that begins with a dot *)
LEMMA DotLineIs ==
  ASSUME NEW S, NEW s \in Seq(S), NEW i
  PROVE  i \in Matches(Crlf \o <<Dot>>, s) <=>
           i \in 1 .. Len(s) - 2 /\ s[i] = Cr /\ s[i + 1] = Lf /\ s[i + 2] = Dot
<1> DEFINE c == Crlf \o <<Dot>>
<1>1. c \in Seq(Byte) /\ Len(c) = 3 /\ c[1] = Cr /\ c[2] = Lf /\ c[3] = Dot
  <2>1. Cr \in Byte /\ Lf \in Byte /\ Dot \in Byte
    BY Bytes
  <2>2. <<Cr, Lf>> \o <<Dot>> = <<Cr, Lf, Dot>>
    BY <2>1, TwoOne
  <2>3. c = <<Cr, Lf, Dot>>
    BY <2>2 DEF Crlf
  <2> HIDE DEF c
  <2> QED BY <2>1, <2>3
<1> HIDE DEF c
<1>2. i \in Matches(c, s) <=>
        /\ i \in 1 .. Len(s) - Len(c) + 1
        /\ \A k \in 1 .. Len(c) : s[i + k - 1] = c[k]
  <2>1. c \in Seq(Byte)
    BY <1>1
  <2> QED BY <2>1, MatchesIs
<1>3. Len(s) - Len(c) + 1 = Len(s) - 2
  BY <1>1
<1>4. (\A k \in 1 .. Len(c) : s[i + k - 1] = c[k]) <=>
        s[i + 1 - 1] = c[1] /\ s[i + 2 - 1] = c[2] /\ s[i + 3 - 1] = c[3]
  <2>1. 1 .. Len(c) = {1, 2, 3}
    BY <1>1
  <2> QED BY <2>1
<1>5. i \in 1 .. Len(s) - 2 => i + 1 - 1 = i /\ i + 2 - 1 = i + 1 /\ i + 3 - 1 = i + 2
  OBVIOUS
<1> QED
  BY <1>1, <1>2, <1>3, <1>4, <1>5 DEF c

LEMMA LastOf ==
  ASSUME NEW t \in Seq(Byte), NEW out \in Seq(Byte), Len(out) >= 3
  PROVE  /\ KeepLast(out) = {LastThree(out)}
         /\ KeptOf(t \o out) = LastThree(out)
<1> DEFINE w == t \o out
           a == LastThree(w)
           b == LastThree(out)
           m == Len(t)
           n == Len(out)
<1>1. /\ w \in Seq(Byte) /\ Len(w) = m + n /\ m \in Nat /\ n \in Nat
      /\ \A i \in 1 .. n : w[m + i] = out[i]
  BY Join
<1> HIDE DEF w
<1>2. Len(w) >= 3
  BY <1>1
<1>3. a \in Seq(Byte) /\ Len(a) = 3 /\ a[1] = w[Len(w) - 2] /\ a[2] = w[Len(w) - 1] /\ a[3] = w[Len(w)]
  BY <1>1, <1>2, LastThreeIs
<1>4. b \in Seq(Byte) /\ Len(b) = 3 /\ b[1] = out[n - 2] /\ b[2] = out[n - 1] /\ b[3] = out[n]
  BY LastThreeIs
<1> HIDE DEF a, b
<1>5. /\ n - 2 \in 1 .. n /\ n - 1 \in 1 .. n /\ n \in 1 .. n
      /\ m + (n - 2) = Len(w) - 2 /\ m + (n - 1) = Len(w) - 1 /\ m + n = Len(w)
  BY <1>1
<1>6. w[m + (n - 2)] = out[n - 2] /\ w[m + (n - 1)] = out[n - 1] /\ w[m + n] = out[n]
  BY <1>1, <1>5
<1>7. \A i \in 1 .. 3 : a[i] = b[i]
  <2>1. a[1] = b[1]
    BY <1>3, <1>4, <1>5, <1>6
  <2>2. a[2] = b[2]
    BY <1>3, <1>4, <1>5, <1>6
  <2>3. a[3] = b[3]
    BY <1>3, <1>4, <1>5, <1>6
  <2>4. 1 .. 3 = {1, 2, 3}
    OBVIOUS
  <2> QED BY <2>1, <2>2, <2>3, <2>4
<1>8. a = b
  BY <1>3, <1>4, <1>7, SeqEqual
<1>9. w # <<>>
  <2>1. Len(<<>>) = 0
    OBVIOUS
  <2> QED BY <1>2, <2>1
<1>10. KeepLast(out) = {b}
  BY DEF KeepLast, b
<1>11. KeptOf(w) = a
  BY <1>9 DEF KeptOf, a
<1> QED
  BY <1>8, <1>10, <1>11 DEF w, b

Joins(S, a, b, t) ==
  /\ t \in Seq(S) /\ Len(t) = Len(a) + Len(b)
  /\ \A i \in 1 .. Len(a) : t[i] = a[i]
  /\ \A i \in 1 .. Len(b) : t[Len(a) + i] = b[i]

LEMMA JoinsIs ==
  ASSUME NEW S, NEW a \in Seq(S), NEW b \in Seq(S)
  PROVE  Joins(S, a, b, a \o b)
BY Join DEF Joins

(* Without a dot line nothing is stuffed, in one piece or in two            *)
LEMMA NothingStuffed ==
  ASSUME NEW u \in Seq(Byte), Len(u) = 0 \/ Len(u) >= 3, NEW s \in Seq(Byte), Len(s) >= 1,
         \A i : ~DotAt(u \o s, i)
  PROVE  Stuff(u) = u /\ dothack(KeptOf(u), s) = s
<1> DEFINE w == u \o s
           n == Len(u)
           f == FirstThree(s)
           m == IF Len(s) < 3 THEN Len(s) ELSE 3
           last == KeptOf(u)
           d == last \o f
<1>1. /\ w \in Seq(Byte) /\ Len(w) = n + Len(s) /\ n \in Nat /\ Len(s) \in Nat
      /\ \A i \in 1 .. n : w[i] = u[i]
      /\ \A i \in 1 .. Len(s) : w[n + i] = s[i]
  BY Join
<1>2. \A i : ~DotAt(w, i)
  OBVIOUS
<1> HIDE DEF w
<1>3. ASSUME NEW i, DotAt(u, i) PROVE FALSE
  <2>1. i \in 1 .. n - 3
    BY <1>3 DEF DotAt
  <2>2. i \in 1 .. Len(w) - 3 /\ i \in 1 .. n /\ i + 1 \in 1 .. n /\ i + 2 \in 1 .. n /\ i + 3 \in 1 .. n
    BY <1>1, <2>1
  <2>3. DotAt(w, i)
    BY <1>1, <1>3, <2>2 DEF DotAt
  <2> QED BY <1>2, <2>3
<1>4. ASSUME NEW i, DotAt(s, i) PROVE FALSE
  <2>1. i \in 1 .. Len(s) - 3
    BY <1>4 DEF DotAt
  <2>2. /\ n + i \in 1 .. Len(w) - 3
        /\ i \in 1 .. Len(s) /\ i + 1 \in 1 .. Len(s) /\ i + 2 \in 1 .. Len(s) /\ i + 3 \in 1 .. Len(s)
        /\ n + (i + 1) = (n + i) + 1 /\ n + (i + 2) = (n + i) + 2 /\ n + (i + 3) = (n + i) + 3
    <3> DEFINE k == Len(s)
    <3>1. k \in Nat /\ n \in Nat /\ Len(w) = n + k /\ i \in 1 .. k - 3
      BY <1>1, <2>1
    <3> HIDE DEF k
    <3>2. /\ n + i \in 1 .. (n + k) - 3
          /\ i \in 1 .. k /\ i + 1 \in 1 .. k /\ i + 2 \in 1 .. k /\ i + 3 \in 1 .. k
      BY <3>1
    <3>3. n + (i + 1) = (n + i) + 1 /\ n + (i + 2) = (n + i) + 2 /\ n + (i + 3) = (n + i) + 3
      BY <3>1
    <3> QED BY <3>1, <3>2, <3>3 DEF k
  <2>3. w[n + i] = s[i] /\ w[n + (i + 1)] = s[i + 1] /\ w[n + (i + 2)] = s[i + 2] /\ w[n + (i + 3)] = s[i + 3]
    BY <1>1, <2>2
  <2>4. DotAt(w, n + i)
    BY <1>4, <2>2, <2>3 DEF DotAt
  <2> QED BY <1>2, <2>4
<1>5. /\ f \in Seq(Byte) /\ Len(f) = m /\ m \in Nat /\ m <= 3 /\ m <= Len(s)
      /\ \A k \in 1 .. m : f[k] = s[k]
  <2>1. m \in Int /\ 1 <= m + 1 /\ m <= Len(s) /\ m - 1 + 1 = m /\ m <= 3 /\ m \in Nat
    BY <1>1
  <2>2. FirstThree(s) = SubSeq(s, 1, m)
    BY DEF FirstThree
  <2> DEFINE e == SubSeq(s, 1, m)
  <2> HIDE DEF m
  <2>3. e \in Seq(Byte) /\ Len(e) = m /\ \A k \in 1 .. m : e[k] = s[1 + k - 1]
    BY <2>1, StretchIs
  <2>4. \A k \in 1 .. m : 1 + k - 1 = k
    BY <2>1
  <2> HIDE DEF e
  <2>5. f = e
    BY <2>2 DEF e
  <2> HIDE DEF f
  <2> QED BY <2>1, <2>3, <2>4, <2>5
<1>6. Matches(LoneDot, d) = {}
  <2> HIDE DEF f, m
  <2>1. CASE n = 0
    <3>1. u = <<>>
      BY <2>1, EmptySeq
    <3>2. last = <<>>
      BY <3>1 DEF KeptOf
    <3>3. d = f
      BY <1>5, <3>2, ConcatEmptySeq
    <3>4. \A i : ~DotAt(f, i)
      BY <1>5 DEF DotAt
    <3>5. \A i : i \notin Matches(LoneDot, f)
      BY <1>5, <3>4, LoneDotIs
    <3> QED BY <3>3, <3>5
  <2>2. CASE n >= 3
    <3>1. u # <<>>
      <4>1. Len(<<>>) = 0
        OBVIOUS
      <4> QED BY <2>2, <4>1
    <3>2. /\ last \in Seq(Byte) /\ Len(last) = 3
          /\ last[1] = u[n - 2] /\ last[2] = u[n - 1] /\ last[3] = u[n]
      BY <2>2, <3>1, LastThreeIs DEF KeptOf
    <3> HIDE DEF last
    <3>3. /\ d \in Seq(Byte) /\ Len(d) = 3 + m
          /\ \A i \in 1 .. 3 : d[i] = last[i]
          /\ \A i \in 1 .. m : d[3 + i] = f[i]
      <4>1. f \in Seq(Byte) /\ Len(f) = m
        BY <1>5
      <4>2. /\ d \in Seq(Byte) /\ Len(d) = Len(last) + Len(f)
            /\ \A i \in 1 .. Len(last) : d[i] = last[i]
            /\ \A i \in 1 .. Len(f) : d[Len(last) + i] = f[i]
        <5>1. last \in Seq(Byte)
          BY <3>2
        <5>2. Joins(Byte, last, f, d)
          <6> HIDE DEF f, m, last
          <6> QED BY <4>1, <5>1, JoinsIs
        <5> HIDE DEF f, m, last, d
        <5> QED BY <5>2 DEF Joins
      <4> QED BY <3>2, <4>1, <4>2
    <3> HIDE DEF d
    <3>4. ASSUME NEW k \in 1 .. 3 + m PROVE d[k] = w[(n - 3) + k]
      <4>1. CASE k <= 3
        <5>1. k \in {1, 2, 3}
          BY <1>5, <4>1
        <5>2. d[k] = u[(n - 3) + k]
          <6>1. (n - 3) + 1 = n - 2 /\ (n - 3) + 2 = n - 1 /\ (n - 3) + 3 = n
            BY <1>1
          <6>2. d[1] = last[1] /\ d[2] = last[2] /\ d[3] = last[3]
            BY <3>3
          <6> QED BY <3>2, <5>1, <6>1, <6>2
        <5>3. (n - 3) + k \in 1 .. n
          BY <1>1, <2>2, <4>1
        <5> QED BY <1>1, <5>2, <5>3
      <4>2. CASE k > 3
        <5>1. k - 3 \in 1 .. m /\ 3 + (k - 3) = k /\ k - 3 \in 1 .. Len(s) /\ n + (k - 3) = (n - 3) + k
          BY <1>1, <1>5, <4>2
        <5>2. d[3 + (k - 3)] = f[k - 3] /\ f[k - 3] = s[k - 3] /\ w[n + (k - 3)] = s[k - 3]
          BY <1>1, <1>5, <3>3, <5>1
        <5> QED BY <5>1, <5>2
      <4> QED BY <1>5, <4>1, <4>2
    <3>5. ASSUME NEW i, DotAt(d, i) PROVE FALSE
      <4>1. i \in 1 .. m
        BY <1>5, <3>3, <3>5 DEF DotAt
      <4>2. /\ i \in 1 .. 3 + m /\ i + 1 \in 1 .. 3 + m /\ i + 2 \in 1 .. 3 + m /\ i + 3 \in 1 .. 3 + m
            /\ (n - 3) + (i + 1) = ((n - 3) + i) + 1 /\ (n - 3) + (i + 2) = ((n - 3) + i) + 2
            /\ (n - 3) + (i + 3) = ((n - 3) + i) + 3
            /\ (n - 3) + i \in 1 .. Len(w) - 3
        BY <1>1, <1>5, <2>2, <4>1
      <4>3. /\ d[i] = w[(n - 3) + i] /\ d[i + 1] = w[(n - 3) + (i + 1)]
            /\ d[i + 2] = w[(n - 3) + (i + 2)] /\ d[i + 3] = w[(n - 3) + (i + 3)]
        BY <3>4, <4>2
      <4>4. DotAt(w, (n - 3) + i)
        BY <3>5, <4>2, <4>3 DEF DotAt
      <4> QED BY <1>2, <4>4
    <3>6. \A i : i \notin Matches(LoneDot, d)
      BY <3>3, <3>5, LoneDotIs
    <3> QED BY <3>6
  <2> QED BY <2>1, <2>2
<1>7. Rejoin(last, s) = s
  BY <1>6, Zenon DEF Rejoin
<1>8. Stuff(u) = u /\ Stuff(s) = s
  BY <1>3, <1>4, StuffSame
<1> HIDE DEF last
<1>9. dothack(last, s) = s
  BY <1>7, <1>8 DEF dothack
<1> QED
  BY <1>8, <1>9 DEF last

-----------------------------------------------------------------------------
(* How many lines tophack counts *)

(* The line ends of m behind its first b bytes and within the first e       *)
EndsIn(m, b, e) == {p \in Matches(Crlf, m) : p > b /\ p + 1 <= e}
Counted(m, b, e) == Cardinality(EndsIn(m, b, e))

(* s is what m has behind its first c bytes, or the beginning of that        *)
Inside(s, m, c) == c \in Nat /\ c + Len(s) <= Len(m) /\ \A i \in 1 .. Len(s) : s[i] = m[c + i]

LEMMA EndsInIs ==
  ASSUME NEW m \in Seq(Byte), NEW b, NEW e, NEW p
  PROVE  p \in EndsIn(m, b, e) <=>
           p \in 1 .. Len(m) - 1 /\ m[p] = Cr /\ m[p + 1] = Lf /\ p > b /\ p + 1 <= e
BY CrlfIs DEF EndsIn

LEMMA MatchesFinite ==
  ASSUME NEW m \in Seq(Byte)
  PROVE  Matches(Crlf, m) \subseteq 1 .. Len(m) /\ IsFiniteSet(Matches(Crlf, m))
<1>1. Matches(Crlf, m) \subseteq 1 .. Len(m)
  BY CrlfIs
<1>2. IsFiniteSet(1 .. Len(m))
  BY FS_Interval
<1> QED
  BY <1>1, <1>2, FS_Subset

LEMMA CountedType ==
  ASSUME NEW m \in Seq(Byte), NEW b, NEW e
  PROVE  IsFiniteSet(EndsIn(m, b, e)) /\ Counted(m, b, e) \in Nat
<1>1. EndsIn(m, b, e) \subseteq Matches(Crlf, m)
  BY DEF EndsIn
<1>2. IsFiniteSet(EndsIn(m, b, e))
  BY <1>1, MatchesFinite, FS_Subset
<1> QED
  BY <1>2, FS_CardinalityType DEF Counted

(* Fewer bytes have no more line ends                                       *)
LEMMA CountedLess ==
  ASSUME NEW m \in Seq(Byte), NEW b \in Int, NEW e \in Int, NEW b1 \in Int, NEW e1 \in Int, b <= b1, e1 <= e
  PROVE  Counted(m, b1, e1) <= Counted(m, b, e)
<1>1. EndsIn(m, b1, e1) \subseteq EndsIn(m, b, e)
  <2> SUFFICES ASSUME NEW p \in EndsIn(m, b1, e1) PROVE p \in EndsIn(m, b, e)
    OBVIOUS
  <2>1. p \in 1 .. Len(m) - 1 /\ m[p] = Cr /\ m[p + 1] = Lf /\ p > b1 /\ p + 1 <= e1
    BY EndsInIs
  <2>2. p > b /\ p + 1 <= e
    BY <2>1
  <2> QED BY <2>1, <2>2, EndsInIs
<1> QED
  BY <1>1, CountedType, FS_Subset DEF Counted

(* Where one ends, one more is counted                                      *)
LEMMA CountedOne ==
  ASSUME NEW m \in Seq(Byte), NEW p \in Matches(Crlf, m), NEW b \in Int, b < p, NEW e \in Int, p + 1 <= e
  PROVE  Counted(m, p, e) + 1 <= Counted(m, b, e)
<1> DEFINE S == EndsIn(m, p, e)
           T == EndsIn(m, b, e)
<1>1. p \in 1 .. Len(m) - 1 /\ m[p] = Cr /\ m[p + 1] = Lf
  BY CrlfIs
<1>2. p \notin S /\ p \in T
  BY <1>1, EndsInIs
<1>3. S \subseteq T
  <2> SUFFICES ASSUME NEW q \in S PROVE q \in T
    OBVIOUS
  <2>1. q \in 1 .. Len(m) - 1 /\ m[q] = Cr /\ m[q + 1] = Lf /\ q > p /\ q + 1 <= e
    BY EndsInIs
  <2>2. q > b
    BY <1>1, <2>1
  <2> QED BY <2>1, <2>2, EndsInIs
<1>4. IsFiniteSet(S) /\ IsFiniteSet(T) /\ Cardinality(S) \in Nat
  BY CountedType DEF Counted
<1> HIDE DEF S, T
<1>5. Cardinality(S \cup {p}) = Cardinality(S) + 1
  BY <1>2, <1>4, FS_AddElement
<1>6. Cardinality(S \cup {p}) <= Cardinality(T)
  BY <1>2, <1>3, <1>4, FS_Subset
<1> QED
  BY <1>5, <1>6 DEF Counted, S, T

(* A stretch in two: no line end is counted twice, one may be cut            *)
LEMMA CountedSum ==
  ASSUME NEW m \in Seq(Byte), NEW b \in Int, NEW c \in Int, NEW e \in Int, b <= c, c <= e
  PROVE  Counted(m, b, c) + Counted(m, c, e) <= Counted(m, b, e)
<1> DEFINE S == EndsIn(m, b, c)
           T == EndsIn(m, c, e)
           U == EndsIn(m, b, e)
<1>1. S \subseteq U /\ T \subseteq U /\ S \cap T = {}
  <2>1. ASSUME NEW q \in S PROVE q \in U /\ q \notin T
    <3>1. q \in 1 .. Len(m) - 1 /\ m[q] = Cr /\ m[q + 1] = Lf /\ q > b /\ q + 1 <= c
      BY <2>1, EndsInIs
    <3>2. q + 1 <= e /\ ~(q > c)
      BY <3>1
    <3> QED BY <3>1, <3>2, EndsInIs
  <2>2. ASSUME NEW q \in T PROVE q \in U
    <3>1. q \in 1 .. Len(m) - 1 /\ m[q] = Cr /\ m[q + 1] = Lf /\ q > c /\ q + 1 <= e
      BY <2>2, EndsInIs
    <3>2. q > b
      BY <3>1
    <3> QED BY <3>1, <3>2, EndsInIs
  <2> QED BY <2>1, <2>2
<1>2. /\ IsFiniteSet(S) /\ IsFiniteSet(T) /\ IsFiniteSet(U)
      /\ Cardinality(S) \in Nat /\ Cardinality(T) \in Nat /\ Cardinality(U) \in Nat
  BY CountedType DEF Counted
<1> HIDE DEF S, T, U
<1>3. Cardinality(S \cup T) = Cardinality(S) + Cardinality(T)
  <2>1. Cardinality(S \cap T) = 0
    BY <1>1, FS_EmptySet
  <2>2. Cardinality(S \cup T) = Cardinality(S) + Cardinality(T) - Cardinality(S \cap T)
    BY <1>2, FS_Union
  <2> QED BY <1>2, <2>1, <2>2
<1>4. Cardinality(S \cup T) <= Cardinality(U)
  BY <1>1, <1>2, FS_Subset
<1> QED
  BY <1>3, <1>4 DEF Counted, S, T, U

LEMMA CountedParts ==
  ASSUME NEW m \in Seq(Byte), NEW b \in Int, NEW c \in Int, NEW e \in Int
  PROVE  Counted(m, b, e) <= Counted(m, b, c + 1) + Counted(m, c, e)
<1> DEFINE S == EndsIn(m, b, c + 1)
           T == EndsIn(m, c, e)
           U == EndsIn(m, b, e)
<1>1. U \subseteq S \cup T
  <2> SUFFICES ASSUME NEW q \in U PROVE q \in S \/ q \in T
    OBVIOUS
  <2>1. q \in 1 .. Len(m) - 1 /\ m[q] = Cr /\ m[q + 1] = Lf /\ q > b /\ q + 1 <= e
    BY EndsInIs
  <2>2. q > c \/ q + 1 <= c + 1
    BY <2>1
  <2> QED BY <2>1, <2>2, EndsInIs
<1>2. /\ IsFiniteSet(S) /\ IsFiniteSet(T) /\ IsFiniteSet(U)
      /\ Cardinality(S) \in Nat /\ Cardinality(T) \in Nat /\ Cardinality(U) \in Nat
  BY CountedType DEF Counted
<1> HIDE DEF S, T, U
<1>3. IsFiniteSet(S \cup T) /\ IsFiniteSet(S \cap T)
  BY <1>2, FS_Union, FS_Intersection
<1>4. Cardinality(S \cup T) = Cardinality(S) + Cardinality(T) - Cardinality(S \cap T)
  BY <1>2, FS_Union
<1>5. Cardinality(S \cap T) \in Nat
  BY <1>3, FS_CardinalityType
<1>6. Cardinality(U) <= Cardinality(S \cup T)
  BY <1>1, <1>3, FS_Subset
<1> QED
  BY <1>2, <1>4, <1>5, <1>6 DEF Counted, S, T, U

(* But for one line end, all are behind b1                                   *)
LEMMA CountedBut ==
  ASSUME NEW m \in Seq(Byte), NEW b \in Int, NEW b1 \in Int, NEW e \in Int, NEW x,
         \A p \in EndsIn(m, b, e) : p > b1 \/ p = x
  PROVE  Counted(m, b, e) <= Counted(m, b1, e) + 1
<1> DEFINE S == EndsIn(m, b1, e)
           U == EndsIn(m, b, e)
<1>1. U \subseteq S \cup {x}
  <2> SUFFICES ASSUME NEW q \in U, q # x PROVE q \in S
    OBVIOUS
  <2>1. q \in 1 .. Len(m) - 1 /\ m[q] = Cr /\ m[q + 1] = Lf /\ q > b /\ q + 1 <= e
    BY EndsInIs
  <2>2. q > b1
    OBVIOUS
  <2> QED BY <2>1, <2>2, EndsInIs
<1>2. IsFiniteSet(S) /\ IsFiniteSet(U) /\ Cardinality(S) \in Nat /\ Cardinality(U) \in Nat
  BY CountedType DEF Counted
<1> HIDE DEF S, U
<1>3. IsFiniteSet(S \cup {x}) /\ Cardinality(S \cup {x}) <= Cardinality(S) + 1
  <2>1. /\ IsFiniteSet(S \cup {x})
        /\ Cardinality(S \cup {x}) = IF x \in S THEN Cardinality(S) ELSE Cardinality(S) + 1
    BY <1>2, FS_AddElement
  <2> QED BY <1>2, <2>1
<1>4. Cardinality(U) <= Cardinality(S \cup {x})
  BY <1>1, <1>3, FS_Subset
<1>5. Cardinality(S \cup {x}) \in Nat
  BY <1>3, FS_CardinalityType
<1> QED
  BY <1>2, <1>3, <1>4, <1>5 DEF Counted, S, U

(* What is counted in a piece is counted in the message                     *)
LEMMA CountedInside ==
  ASSUME NEW m \in Seq(Byte), NEW s \in Seq(Byte), NEW c, Inside(s, m, c),
         NEW lo \in Nat, NEW hi \in Int, hi <= Len(s)
  PROVE  Cardinality({q \in Matches(Crlf, s) : q > lo /\ q + 1 <= hi}) = Counted(m, c + lo, c + hi)
<1> DEFINE S == {q \in Matches(Crlf, s) : q > lo /\ q + 1 <= hi}
           T == EndsIn(m, c + lo, c + hi)
           f == [q \in S |-> c + q]
<1>1. c \in Nat /\ c + Len(s) <= Len(m) /\ (\A i \in 1 .. Len(s) : s[i] = m[c + i]) /\ Len(s) \in Nat /\ Len(m) \in Nat
  BY DEF Inside
<1>2. ASSUME NEW q \in Int PROVE q \in S <=> c + q \in T
  <2>1. q \in S <=> q \in 1 .. Len(s) - 1 /\ s[q] = Cr /\ s[q + 1] = Lf /\ q > lo /\ q + 1 <= hi
    BY CrlfIs
  <2>2. c + q \in T <=> /\ c + q \in 1 .. Len(m) - 1 /\ m[c + q] = Cr /\ m[(c + q) + 1] = Lf
                        /\ c + q > c + lo /\ (c + q) + 1 <= c + hi
    BY EndsInIs
  <2>3. q > lo <=> c + q > c + lo
    BY <1>1
  <2>4. q + 1 <= hi <=> (c + q) + 1 <= c + hi
    BY <1>1
  <2>5. ASSUME q > lo, q + 1 <= hi
        PROVE  /\ q \in 1 .. Len(s) - 1 /\ c + q \in 1 .. Len(m) - 1
               /\ s[q] = m[c + q] /\ s[q + 1] = m[(c + q) + 1]
    <3>1. q \in 1 .. Len(s) - 1 /\ q \in 1 .. Len(s) /\ q + 1 \in 1 .. Len(s) /\ c + (q + 1) = (c + q) + 1
      BY <1>1, <2>5
    <3>2. c + q \in 1 .. Len(m) - 1
      BY <1>1, <3>1
    <3>3. s[q] = m[c + q] /\ s[q + 1] = m[c + (q + 1)]
      BY <1>1, <3>1
    <3> QED BY <3>1, <3>2, <3>3
  <2> HIDE DEF S, T
  <2> QED BY <2>1, <2>2, <2>3, <2>4, <2>5
<1>3. S \subseteq Int /\ T \subseteq Int /\ IsFiniteSet(S)
  <2>1. S \subseteq Matches(Crlf, s) /\ S \subseteq Int
    BY MatchesFinite
  <2>2. T \subseteq Int
    BY EndsInIs
  <2> HIDE DEF S, T
  <2> QED BY <2>1, <2>2, MatchesFinite, FS_Subset
<1> HIDE DEF S, T
<1>4. f \in Bijection(S, T)
  <2>1. f \in [S -> T]
    BY <1>2, <1>3
  <2>2. \A a, b \in S : f[a] = f[b] => a = b
    BY <1>1, <1>3
  <2>3. \A t \in T : \E a \in S : f[a] = t
    <3> SUFFICES ASSUME NEW t \in T PROVE \E a \in S : f[a] = t
      OBVIOUS
    <3>1. t - c \in Int /\ c + (t - c) = t
      BY <1>1, <1>3
    <3>2. t - c \in S
      BY <1>2, <3>1
    <3> QED BY <3>1, <3>2
  <2> HIDE DEF f
  <2>4. f \in Injection(S, T)
    BY <2>1, <2>2 DEF Injection, IsInjective
  <2>5. f \in Surjection(S, T)
    BY <2>1, <2>3 DEF Surjection
  <2> QED BY <2>4, <2>5 DEF Bijection
<1>5. Cardinality(T) = Cardinality(S)
  BY <1>3, <1>4, FS_Bijection DEF ExistsBijection
<1> QED
  BY <1>5 DEF S, T, Counted

LEMMA LinesInside ==
  ASSUME NEW m \in Seq(Byte), NEW s \in Seq(Byte), NEW c, Inside(s, m, c)
  PROVE  /\ Lines(s) = Counted(m, c, c + Len(s))
         /\ \A at \in Matches(Crlf, s) : Cardinality({q \in Matches(Crlf, s) : q >= at}) = Counted(m, (c + at) - 1, c + Len(s))
<1> DEFINE n == Len(s)
           E == Matches(Crlf, s)
<1>1. n \in Nat /\ E \subseteq Int /\ \A q \in E : q >= 1 /\ q + 1 <= n
  BY CrlfIs
<1>2. c \in Nat
  BY DEF Inside
<1>3. ASSUME NEW lo \in Nat
      PROVE  Cardinality({q \in E : q > lo /\ q + 1 <= n}) = Counted(m, c + lo, c + n)
  BY CountedInside
<1> HIDE DEF E
<1>4. Lines(s) = Counted(m, c, c + n)
  <2>1. {q \in E : q > 0 /\ q + 1 <= n} = E
    <3>1. \A q \in E : q > 0 /\ q + 1 <= n
      BY <1>1
    <3> QED BY <3>1, Zenon
  <2>2. c + 0 = c
    BY <1>2
  <2> QED BY <1>3, <2>1, <2>2 DEF Lines, E
<1>5. ASSUME NEW at \in E
      PROVE  Cardinality({q \in E : q >= at}) = Counted(m, (c + at) - 1, c + n)
  <2>1. at - 1 \in Nat /\ c + (at - 1) = (c + at) - 1
    BY <1>1, <1>2
  <2>2. {q \in E : q > at - 1 /\ q + 1 <= n} = {q \in E : q >= at}
    <3>1. \A q \in E : (q > at - 1 /\ q + 1 <= n) <=> q >= at
      BY <1>1
    <3> QED BY <3>1, Zenon
  <2> QED BY <1>3, <2>1, <2>2
<1> QED
  BY <1>4, <1>5 DEF E

LEMMA BlankIs ==
  ASSUME NEW S, NEW s \in Seq(S), NEW i
  PROVE  i \in Matches(BlankLine, s) <=>
           /\ i \in 1 .. Len(s) - 3
           /\ s[i] = Cr /\ s[i + 1] = Lf /\ s[i + 2] = Cr /\ s[i + 3] = Lf
<1> DEFINE p == BlankLine
<1>1. p \in Seq(Byte) /\ Len(p) = 4 /\ p[1] = Cr /\ p[2] = Lf /\ p[3] = Cr /\ p[4] = Lf
  BY Bytes
<1> HIDE DEF p
<1>2. i \in Matches(p, s) <=>
        /\ i \in 1 .. Len(s) - Len(p) + 1
        /\ \A k \in 1 .. Len(p) : s[i + k - 1] = p[k]
  <2>1. p \in Seq(Byte)
    BY <1>1
  <2> QED BY <2>1, MatchesIs
<1>3. Len(s) - Len(p) + 1 = Len(s) - 3
  BY <1>1
<1>4. (\A k \in 1 .. Len(p) : s[i + k - 1] = p[k]) <=>
        s[i + 1 - 1] = p[1] /\ s[i + 2 - 1] = p[2] /\ s[i + 3 - 1] = p[3] /\ s[i + 4 - 1] = p[4]
  <2>1. 1 .. Len(p) = {1, 2, 3, 4}
    BY <1>1
  <2> QED BY <2>1
<1>5. i \in 1 .. Len(s) - 3 => i + 1 - 1 = i /\ i + 2 - 1 = i + 1 /\ i + 3 - 1 = i + 2 /\ i + 4 - 1 = i + 3
  OBVIOUS
<1> QED
  BY <1>1, <1>2, <1>3, <1>4, <1>5 DEF p

(* How long the header is, with the empty line behind it                     *)
HeaderLen(m) == First(Matches(BlankLine, m)) + 3

LEMMA HeaderIs ==
  ASSUME NEW m \in Message
  PROVE  /\ m \in Seq(Byte) /\ HeaderLen(m) \in 4 .. Len(m)
         /\ \A i \in Matches(BlankLine, m) : i + 3 \in HeaderLen(m) .. Len(m)
         /\ Body(m) \in Seq(Byte) /\ Len(Body(m)) = Len(m) - HeaderLen(m)
         /\ Inside(Body(m), m, HeaderLen(m))
<1> DEFINE B == Matches(BlankLine, m)
           h == First(B)
           n == Len(m)
           b == SubSeq(m, h + 4, n)
<1>1. m \in Seq(Byte) /\ B # {} /\ n \in Nat
  BY MessageSet, Mails
<1>2. \A i \in B : i \in 1 .. n - 3
  BY <1>1, BlankIs
<1> HIDE DEF B
<1>3. h \in B /\ \A i \in B : h <= i
  BY <1>1, <1>2, FirstLeast
<1>4. h \in 1 .. n - 3
  BY <1>2, <1>3
<1> HIDE DEF h
<1>5. h + 3 \in 4 .. n /\ \A i \in B : i + 3 \in h + 3 .. n
  BY <1>1, <1>2, <1>3, <1>4
<1>6. b \in Seq(Byte) /\ Len(b) = n - (h + 3) /\ \A k \in 1 .. n - (h + 3) : b[k] = m[(h + 3) + k]
  <2>1. h + 4 \in Int /\ n \in Int /\ 1 <= h + 4 /\ h + 4 <= n + 1 /\ n <= Len(m) /\ n - (h + 4) + 1 = n - (h + 3)
    BY <1>1, <1>4
  <2>2. /\ b \in Seq(Byte) /\ Len(b) = n - (h + 4) + 1
        /\ \A k \in 1 .. n - (h + 4) + 1 : b[k] = m[h + 4 + k - 1]
    BY <1>1, <2>1, StretchIs
  <2>3. \A k \in Int : h + 4 + k - 1 = (h + 3) + k
    BY <1>4
  <2> HIDE DEF b, n
  <2>4. ASSUME NEW k \in 1 .. n - (h + 3) PROVE b[k] = m[(h + 3) + k]
    <3>1. k \in 1 .. n - (h + 4) + 1 /\ k \in Int
      BY <2>1
    <3> QED BY <2>2, <2>3, <3>1
  <2> QED BY <2>1, <2>2, <2>4
<1>7. HeaderLen(m) = h + 3 /\ Body(m) = b
  BY DEF HeaderLen, Body, h, B
<1>8. Inside(b, m, h + 3)
  <2>1. h + 3 \in Nat /\ (h + 3) + (n - (h + 3)) <= n
    BY <1>1, <1>4
  <2> HIDE DEF b
  <2> QED BY <1>6, <2>1 DEF Inside
<1> HIDE DEF b, n
<1>9. m \in Seq(Byte) /\ n = Len(m)
  BY <1>1 DEF n
<1> QED
  BY <1>5, <1>6, <1>7, <1>8, <1>9 DEF B

LEMMA FirstLinesType ==
  ASSUME NEW k, NEW b \in Seq(Byte)
  PROVE  FirstLines(k, b) \in Nat /\ FirstLines(k, b) <= Len(b)
<1> DEFINE D == 1 .. Len(b)
           T == {i \in DOMAIN b : Cardinality({j \in Matches(Crlf, b) : j + 1 < i}) < k}
<1>1. T \subseteq D
  OBVIOUS
<1>2. IsFiniteSet(D) /\ Cardinality(D) = Len(b)
  <2>1. Len(b) \in Nat
    OBVIOUS
  <2> QED BY <2>1, FS_Interval
<1> HIDE DEF D, T
<1>3. IsFiniteSet(T) /\ Cardinality(T) <= Cardinality(D)
  BY <1>1, <1>2, FS_Subset
<1>4. Cardinality(T) \in Nat
  BY <1>3, FS_CardinalityType
<1> QED
  BY <1>2, <1>3, <1>4 DEF FirstLines, T

LEMMA CountedFirst ==
  ASSUME NEW m \in Seq(Byte), NEW s \in Seq(Byte), NEW c, Inside(s, m, c), NEW hi \in Int, hi <= Len(s)
  PROVE  Cardinality({q \in Matches(Crlf, s) : q > 0 /\ q + 1 <= hi}) = Counted(m, c, c + hi)
<1>1. ASSUME NEW lo \in Nat
      PROVE  Cardinality({q \in Matches(Crlf, s) : q > lo /\ q + 1 <= hi}) = Counted(m, c + lo, c + hi)
  BY CountedInside
<1>2. c + 0 = c
  BY DEF Inside
<1>3. Cardinality({q \in Matches(Crlf, s) : q > 0 /\ q + 1 <= hi}) = Counted(m, c + 0, c + hi)
  BY <1>1, SMTT(30)
<1> QED
  BY <1>2, <1>3

(* What holds l line ends of the body holds its first l lines               *)
LEMMA FirstLinesIn ==
  ASSUME NEW m \in Message, NEW l \in Nat, NEW e \in HeaderLen(m) .. Len(m), Counted(m, HeaderLen(m), e) >= l
  PROVE  FirstLines(l, Body(m)) <= e - HeaderLen(m)
<1> DEFINE b == Body(m)
           h == HeaderLen(m)
           P(i) == {j \in Matches(Crlf, b) : j + 1 < i}
           T == {i \in DOMAIN b : Cardinality(P(i)) < l}
           D == 1 .. e - h
<1>1. /\ m \in Seq(Byte) /\ b \in Seq(Byte) /\ Len(b) = Len(m) - h /\ Inside(b, m, h) /\ Counted(m, h, e) \in Nat
      /\ h \in Nat /\ e \in Nat /\ Len(m) \in Nat /\ h <= e /\ e <= Len(m)
  <2>1. /\ m \in Seq(Byte) /\ b \in Seq(Byte) /\ Len(b) = Len(m) - h /\ Inside(b, m, h) /\ h \in 4 .. Len(m)
    BY HeaderIs
  <2> QED BY <2>1, CountedType
<1>2. Counted(m, h, e) >= l
  OBVIOUS
<1> HIDE DEF b, h
<1>3. Cardinality({q \in Matches(Crlf, b) : q > 0 /\ q + 1 <= e - h}) = Counted(m, h, e)
  <2>1. 0 \in Nat /\ e - h \in Int /\ e - h <= Len(b) /\ h + 0 = h /\ h + (e - h) = e
    BY <1>1
  <2>2. h + (e - h) = e
    BY <2>1
  <2> QED BY <1>1, <2>1, <2>2, CountedFirst
<1>4. ASSUME NEW i \in T PROVE i \in D
  <2>1. i \in Int /\ i >= 1 /\ Cardinality(P(i)) < l
    BY <1>1
  <2>2. ASSUME ~(i <= e - h) PROVE FALSE
    <3> DEFINE Q == {q \in Matches(Crlf, b) : q > 0 /\ q + 1 <= e - h}
    <3>1. Matches(Crlf, b) \subseteq Int /\ IsFiniteSet(Matches(Crlf, b))
      BY <1>1, MatchesFinite
    <3>2. IsFiniteSet(P(i))
      <4>1. P(i) \subseteq Matches(Crlf, b)
        OBVIOUS
      <4> QED BY <3>1, <4>1, FS_Subset
    <3>3. Q \subseteq P(i)
      <4> SUFFICES ASSUME NEW q \in Matches(Crlf, b), q + 1 <= e - h PROVE q + 1 < i
        OBVIOUS
      <4> QED BY <1>1, <2>1, <2>2, <3>1
    <3>4. Cardinality(P(i)) \in Nat
      BY <3>2, FS_CardinalityType
    <3>5. Cardinality(Q) = Counted(m, h, e)
      BY <1>3
    <3> HIDE DEF Q, P
    <3>6. Cardinality(Q) <= Cardinality(P(i))
      BY <3>2, <3>3, FS_Subset
    <3> QED BY <1>1, <1>2, <2>1, <3>4, <3>5, <3>6
  <2> QED BY <1>1, <2>1, <2>2
<1>5. IsFiniteSet(D) /\ Cardinality(D) = e - h
  <2>1. 1 \in Int /\ e - h \in Int /\ (IF 1 > e - h THEN 0 ELSE (e - h) - 1 + 1) = e - h
    BY <1>1
  <2> QED BY <2>1, FS_Interval
<1>6. FirstLines(l, b) = Cardinality(T)
  BY DEF FirstLines
<1> HIDE DEF T, D
<1>7. Cardinality(T) <= Cardinality(D)
  BY <1>4, <1>5, FS_Subset
<1> QED
  BY <1>5, <1>6, <1>7 DEF b, h

(* Where tophack leaves off: at the end of the piece, or not before the     *)
(* line end at which it has counted as many from the end as it wants off    *)
TooMany(count, l) == count - l + 1 + IF l = 0 THEN 1 ELSE 0

LEMMA TopCutAt ==
  ASSUME NEW s \in Seq(Byte), Len(s) >= 1, NEW count, NEW l, NEW j \in 1 .. Len(s),
         TopCut(s, count, l) = SubSeq(s, 1, j)
  PROVE  \/ j = Len(s)
         \/ \E at \in Matches(Crlf, s) :
              Cardinality({q \in Matches(Crlf, s) : q >= at}) = TooMany(count, l) /\ j >= at - 1
<1> DEFINE k == TooMany(count, l)
           E == Matches(Crlf, s)
           C == {p \in E : p >= 3 /\ Cardinality({q \in E : q >= p}) = k}
           at == First(C)
<1>1. TopCut(s, count, l) = IF C = {} THEN s
        ELSE IF Len(s) - 1 - at >= 3 THEN SubSeq(s, 1, at + 1) ELSE SubSeq(s, 1, at - 1)
  BY Zenon DEF TopCut, TooMany
<1>2. (\A p \in C : p \in 1 .. Len(s) - 1 /\ p >= 3) /\ \A p \in C : p \in E /\ Cardinality({q \in E : q >= p}) = k
  BY CrlfIs
<1>3. Len(SubSeq(s, 1, j)) = j
  <2>1. 1 \in Int /\ j \in Int /\ 1 <= j + 1 /\ j <= Len(s) /\ j - 1 + 1 = j
    OBVIOUS
  <2> QED BY <2>1, StretchIs
<1> HIDE DEF C, k
<1>4. CASE C = {}
  BY <1>1, <1>3, <1>4
<1>5. CASE C # {}
  <2>1. at \in C
    <3>1. C \subseteq Nat
      BY <1>2
    <3> QED BY <1>5, <3>1, FirstLeast
  <2>2. at \in 1 .. Len(s) - 1 /\ at >= 3 /\ at \in E /\ Cardinality({q \in E : q >= at}) = k
    BY <1>2, <2>1
  <2> HIDE DEF at, E
  <2>3. Len(SubSeq(s, 1, at + 1)) = at + 1 /\ Len(SubSeq(s, 1, at - 1)) = at - 1
    <3>1. /\ 1 \in Int /\ at + 1 \in Int /\ at - 1 \in Int /\ 1 <= (at + 1) + 1 /\ 1 <= (at - 1) + 1
          /\ at + 1 <= Len(s) /\ at - 1 <= Len(s) /\ (at + 1) - 1 + 1 = at + 1 /\ (at - 1) - 1 + 1 = at - 1
      BY <2>2
    <3> QED BY <3>1, StretchIs
  <2>4. SubSeq(s, 1, j) = SubSeq(s, 1, at + 1) \/ SubSeq(s, 1, j) = SubSeq(s, 1, at - 1)
    BY <1>1, <1>5, Zenon
  <2>5. j = at + 1 \/ j = at - 1
    BY <1>3, <2>3, <2>4
  <2>6. j >= at - 1
    BY <2>2, <2>5
  <2> QED BY <2>2, <2>6 DEF E, k
<1> QED
  BY <1>4, <1>5

LEMMA CountedFrom ==
  ASSUME NEW m \in Seq(Byte), NEW b \in Int, NEW b1 \in Int, NEW e \in Int, \A p \in EndsIn(m, b, e) : p > b1
  PROVE  Counted(m, b, e) <= Counted(m, b1, e)
<1>1. EndsIn(m, b, e) \subseteq EndsIn(m, b1, e)
  <2> SUFFICES ASSUME NEW q \in EndsIn(m, b, e) PROVE q \in EndsIn(m, b1, e)
    OBVIOUS
  <2>1. q \in 1 .. Len(m) - 1 /\ m[q] = Cr /\ m[q + 1] = Lf /\ q + 1 <= e
    BY EndsInIs
  <2> QED BY <2>1, EndsInIs
<1> QED
  BY <1>1, CountedType, FS_Subset DEF Counted

(* An empty line that begins in m at g, with its last byte in a piece        *)
LEMMA BlankInside ==
  ASSUME NEW m \in Message, NEW g \in Matches(BlankLine, m)
  PROVE  /\ g \in 1 .. Len(m) - 3 /\ HeaderLen(m) <= g + 3 /\ HeaderLen(m) \in Nat /\ Len(m) \in Nat
         /\ m[g] = Cr /\ m[g + 1] = Lf /\ m[g + 2] = Cr /\ m[g + 3] = Lf
         /\ g \in Matches(Crlf, m) /\ g + 2 \in Matches(Crlf, m)
<1>1. m \in Seq(Byte) /\ HeaderLen(m) \in 4 .. Len(m) /\ g + 3 \in HeaderLen(m) .. Len(m)
  BY HeaderIs
<1>2. g \in 1 .. Len(m) - 3 /\ m[g] = Cr /\ m[g + 1] = Lf /\ m[g + 2] = Cr /\ m[g + 3] = Lf
  BY <1>1, BlankIs
<1>3. /\ HeaderLen(m) <= g + 3 /\ HeaderLen(m) \in Nat /\ Len(m) \in Nat
      /\ g \in 1 .. Len(m) - 1 /\ g + 2 \in 1 .. Len(m) - 1 /\ (g + 2) + 1 = g + 3
  BY <1>1, <1>2
<1>4. g \in Matches(Crlf, m)
  BY <1>1, <1>2, <1>3, CrlfIs
<1>5. g + 2 \in Matches(Crlf, m)
  BY <1>1, <1>2, <1>3, CrlfIs
<1> QED
  BY <1>2, <1>3, <1>4, <1>5

(* What tophack has kept of the pieces before                               *)
KeptBefore(last, m, c) ==
  \/ c = 0 /\ last = <<>>
  \/ c >= 3 /\ last \in Seq(Byte) /\ Len(last) = 3 /\ \A k \in 1 .. 3 : last[k] = m[(c - 3) + k]

LEMMA DefragIs ==
  ASSUME NEW m \in Seq(Byte), NEW s \in Seq(Byte), Len(s) >= 3, NEW c, Inside(s, m, c),
         NEW last, KeptBefore(last, m, c), NEW i \in Matches(BlankLine, last \o FirstThree(s))
  PROVE  /\ c >= 3 /\ Len(last \o FirstThree(s)) = 6 /\ i \in {1, 2, 3}
         /\ (c - 3) + i \in Matches(BlankLine, m)
<1> DEFINE h == FirstThree(s)
           d == last \o h
<1>1. c \in Nat /\ c + Len(s) <= Len(m) /\ (\A k \in 1 .. Len(s) : s[k] = m[c + k]) /\ Len(s) \in Nat /\ Len(m) \in Nat
  BY DEF Inside
<1>2. h \in Seq(Byte) /\ Len(h) = 3 /\ \A k \in 1 .. 3 : h[k] = m[c + k]
  <2>1. h = SubSeq(s, 1, 3)
    BY <1>1 DEF FirstThree
  <2>2. 1 \in Int /\ 3 \in Int /\ 1 <= 3 + 1 /\ 3 <= Len(s) /\ 3 - 1 + 1 = 3 /\ \A k \in 1 .. 3 : 1 + k - 1 = k /\ k \in 1 .. Len(s)
    OBVIOUS
  <2>3. SubSeq(s, 1, 3) \in Seq(Byte) /\ Len(SubSeq(s, 1, 3)) = 3 /\ \A k \in 1 .. 3 : SubSeq(s, 1, 3)[k] = s[1 + k - 1]
    BY <2>2, StretchIs
  <2>4. \A k \in 1 .. 3 : SubSeq(s, 1, 3)[k] = m[c + k]
    BY <1>1, <2>2, <2>3
  <2> QED BY <2>1, <2>3, <2>4
<1> HIDE DEF h
<1>3. CASE c = 0 /\ last = <<>>
  <2>1. d = h
    BY <1>2, <1>3
  <2>2. i \in Matches(BlankLine, h)
    BY <2>1 DEF h
  <2>3. i \in 1 .. Len(h) - 3
    BY <1>2, <2>2, BlankIs
  <2> QED BY <1>2, <2>3
<1>4. CASE c >= 3 /\ last \in Seq(Byte) /\ Len(last) = 3 /\ \A k \in 1 .. 3 : last[k] = m[(c - 3) + k]
  <2>1. d \in Seq(Byte) /\ Len(d) = 6 /\ \A k \in 1 .. 6 : d[k] = m[(c - 3) + k]
    <3>1. Joins(Byte, last, h, d)
      BY <1>2, <1>4, JoinsIs
    <3> HIDE DEF d
    <3>2. d \in Seq(Byte) /\ Len(d) = 6
      BY <1>2, <1>4, <3>1 DEF Joins
    <3>3. ASSUME NEW k \in 1 .. 3 PROVE d[k] = m[(c - 3) + k] /\ d[3 + k] = m[(c - 3) + (3 + k)]
      <4>1. d[k] = last[k] /\ d[3 + k] = h[k]
        BY <1>2, <1>4, <3>1 DEF Joins
      <4>2. (c - 3) + (3 + k) = c + k
        BY <1>1
      <4> QED BY <1>2, <1>4, <4>1, <4>2
    <3>4. ASSUME NEW k \in 4 .. 6 PROVE d[k] = m[(c - 3) + k]
      <4>1. k - 3 \in 1 .. 3 /\ 3 + (k - 3) = k
        OBVIOUS
      <4> QED BY <3>3, <4>1
    <3> QED BY <3>2, <3>3, <3>4
  <2>2. i \in Matches(BlankLine, d)
    BY DEF d, h
  <2> HIDE DEF d
  <2>3. i \in 1 .. Len(d) - 3 /\ d[i] = Cr /\ d[i + 1] = Lf /\ d[i + 2] = Cr /\ d[i + 3] = Lf
    BY <2>1, <2>2, BlankIs
  <2>4. i \in 1 .. 3 /\ i \in 1 .. 6 /\ i + 1 \in 1 .. 6 /\ i + 2 \in 1 .. 6 /\ i + 3 \in 1 .. 6
    BY <2>1, <2>3
  <2> DEFINE g == (c - 3) + i
  <2>5. /\ g \in 1 .. Len(m) - 3 /\ (c - 3) + (i + 1) = g + 1 /\ (c - 3) + (i + 2) = g + 2
        /\ (c - 3) + (i + 3) = g + 3
    BY <1>1, <1>4, <2>4
  <2>6. m[g] = Cr /\ m[g + 1] = Lf /\ m[g + 2] = Cr /\ m[g + 3] = Lf
    <3>1. d[i] = m[(c - 3) + i] /\ d[i + 1] = m[(c - 3) + (i + 1)] /\ d[i + 2] = m[(c - 3) + (i + 2)]
          /\ d[i + 3] = m[(c - 3) + (i + 3)]
      BY <2>1, <2>4
    <3> QED BY <2>3, <2>5, <3>1
  <2> HIDE DEF g
  <2>7. g \in Matches(BlankLine, m)
    BY <2>5, <2>6, BlankIs
  <2> QED BY <1>4, <2>1, <2>4, <2>7 DEF d, g, h
<1> QED
  BY <1>3, <1>4 DEF KeptBefore

(* The lines counted when the header ends are lines of the body              *)
LEMMA CutCounted ==
  ASSUME NEW m \in Message, NEW s \in Seq(Byte), Len(s) >= 3, NEW c, Inside(s, m, c),
         NEW last, KeptBefore(last, m, c), HeaderCut(last, s)
  PROVE  LET a == BodyLines(last, s) IN
         /\ a \in Int /\ HeaderLen(m) <= c + Len(s) /\ a <= Counted(m, HeaderLen(m), c + Len(s))
         /\ Lines(s) <= a + 1
<1> DEFINE d == last \o FirstThree(s)
           n == Len(s)
           L == Lines(s)
           M == Matches(BlankLine, d)
           second == Len(d) = 6 /\ {2, 3} \cap M # {}
<1>1. BodyLines(last, s) = L - IF second THEN 1 ELSE 0
  BY DEF BodyLines
<1>2. m \in Seq(Byte) /\ c \in Nat /\ n \in Nat /\ n >= 3
  BY HeaderIs DEF Inside
<1>3. L = Counted(m, c, c + n) /\ L \in Nat
  BY <1>2, LinesInside, CountedType
<1>4. ASSUME NEW i \in M
      PROVE  /\ Len(d) = 6 /\ i \in {1, 2, 3} /\ HeaderLen(m) <= c + i /\ HeaderLen(m) \in Nat
             /\ m[(c + i) - 2] = Lf /\ m[c + i] = Lf
  <2> DEFINE g == (c - 3) + i
  <2>1. c >= 3 /\ Len(d) = 6 /\ i \in {1, 2, 3} /\ g \in Matches(BlankLine, m)
    BY <1>2, DefragIs
  <2> HIDE DEF g
  <2>2. HeaderLen(m) <= g + 3 /\ HeaderLen(m) \in Nat /\ m[g + 1] = Lf /\ m[g + 3] = Lf
    BY <2>1, BlankInside
  <2>3. g + 3 = c + i /\ g + 1 = (c + i) - 2
    BY <1>2, <2>1 DEF g
  <2> QED BY <2>1, <2>2, <2>3
<1>5. M # {}
  BY DEF HeaderCut
<1> HIDE DEF M, d, L
<1>9. (second => BodyLines(last, s) = L - 1) /\ (~second => BodyLines(last, s) = L)
  <2> HIDE DEF second
  <2> QED BY <1>1, <1>3
<1>6. ASSUME NEW i \in {1, 2, 3}, HeaderLen(m) <= c + i, HeaderLen(m) \in Nat
      PROVE  /\ Counted(m, c + i, c + n) <= Counted(m, HeaderLen(m), c + n) /\ HeaderLen(m) <= c + n
             /\ Counted(m, c + i, c + n) \in Nat /\ Counted(m, HeaderLen(m), c + n) \in Nat
  <2>1. c + i \in Int /\ c + n \in Int /\ HeaderLen(m) \in Int /\ HeaderLen(m) <= c + n
    BY <1>2, <1>6
  <2> QED BY <1>2, <1>6, <2>1, CountedLess, CountedType
<1>7. CASE second
  <2>1. PICK i \in M : i \in {2, 3}
    BY <1>7
  <2>2. HeaderLen(m) <= c + i /\ HeaderLen(m) \in Nat /\ m[(c + i) - 2] = Lf /\ m[c + i] = Lf
    BY <1>4, <2>1
  <2>3. ASSUME NEW p \in EndsIn(m, c, c + n) PROVE p > c + i \/ p = (c + i) - 1
    <3>1. p \in Int /\ m[p] = Cr /\ p > c
      BY <1>2, EndsInIs
    <3>2. p # (c + i) - 2 /\ p # c + i
      BY <2>2, <3>1, Bytes
    <3> QED BY <1>2, <2>1, <3>1, <3>2
  <2>4. Counted(m, c, c + n) <= Counted(m, c + i, c + n) + 1
    <3> DEFINE x == (c + i) - 1
    <3>1. \A p \in EndsIn(m, c, c + n) : p > c + i \/ p = x
      BY <2>3
    <3> HIDE DEF x
    <3>2. c \in Int /\ c + i \in Int /\ c + n \in Int
      BY <1>2, <2>1
    <3> QED BY <1>2, <3>1, <3>2, CountedBut
  <2>5. /\ Counted(m, c + i, c + n) <= Counted(m, HeaderLen(m), c + n) /\ HeaderLen(m) <= c + n
        /\ Counted(m, c + i, c + n) \in Nat /\ Counted(m, HeaderLen(m), c + n) \in Nat
    BY <1>6, <2>1, <2>2
  <2>6. BodyLines(last, s) = L - 1
    BY <1>7, <1>9
  <2> QED BY <1>3, <2>4, <2>5, <2>6 DEF L
<1>8. CASE ~second
  <2>1. PICK i \in M : TRUE
    BY <1>5
  <2>2. Len(d) = 6 /\ i \in {1, 2, 3} /\ HeaderLen(m) <= c + i /\ HeaderLen(m) \in Nat /\ m[c + i] = Lf
    BY <1>4, <2>1
  <2>3. i = 1
    BY <1>8, <2>1, <2>2
  <2>4. ASSUME NEW p \in EndsIn(m, c, c + n) PROVE p > c + i
    <3>1. p \in Int /\ m[p] = Cr /\ p > c
      BY <1>2, EndsInIs
    <3>2. p # c + i
      BY <2>2, <3>1, Bytes
    <3> QED BY <1>2, <2>3, <3>1, <3>2
  <2>5. Counted(m, c, c + n) <= Counted(m, c + i, c + n)
    <3>1. c \in Int /\ c + i \in Int /\ c + n \in Int
      BY <1>2, <2>3
    <3> QED BY <1>2, <2>4, <3>1, CountedFrom
  <2>6. /\ Counted(m, c + i, c + n) <= Counted(m, HeaderLen(m), c + n) /\ HeaderLen(m) <= c + n
        /\ Counted(m, c + i, c + n) \in Nat /\ Counted(m, HeaderLen(m), c + n) \in Nat
    BY <1>6, <2>2
  <2>7. BodyLines(last, s) = L
    BY <1>8, <1>9
  <2> QED BY <1>3, <2>5, <2>6, <2>7 DEF L
<1> QED
  BY <1>7, <1>8 DEF L

LEMMA InsideCounted ==
  ASSUME NEW m \in Message, NEW s \in Seq(Byte), NEW c, Inside(s, m, c),
         NEW last, ~HeaderCut(last, s), Matches(BlankLine, s) # {}
  PROVE  LET a == BodyLines(last, s) IN
         /\ a \in Int /\ HeaderLen(m) <= c + Len(s) /\ a <= Counted(m, HeaderLen(m), c + Len(s))
         /\ \E f \in 1 .. Len(s) - 3 : /\ c + f \in Matches(BlankLine, m)
                                       /\ a = Counted(m, (c + f) + 3, c + Len(s))
<1> DEFINE n == Len(s)
           M == Matches(BlankLine, s)
           f == First(M)
           r == SubSeq(s, f + 4, n)
           g == c + f
<1>1. /\ m \in Seq(Byte) /\ c \in Nat /\ n \in Nat /\ c + n <= Len(m) /\ Len(m) \in Nat
      /\ \A i \in 1 .. n : s[i] = m[c + i]
  BY HeaderIs DEF Inside
<1>2. f \in 1 .. n - 3 /\ s[f] = Cr /\ s[f + 1] = Lf /\ s[f + 2] = Cr /\ s[f + 3] = Lf
  <2>1. \A i \in M : i \in 1 .. n - 3
    BY BlankIs
  <2>2. M \subseteq Nat
    BY <2>1
  <2>3. f \in M
    <3> HIDE DEF M
    <3> QED BY <2>2, FirstLeast DEF M
  <2> QED BY <2>3, BlankIs
<1>3. BodyLines(last, s) = Lines(r)
  BY DEF BodyLines
<1> HIDE DEF f, M
<1>4. g \in Matches(BlankLine, m)
  <2>1. /\ f \in 1 .. n /\ f + 1 \in 1 .. n /\ f + 2 \in 1 .. n /\ f + 3 \in 1 .. n
        /\ g \in 1 .. Len(m) - 3 /\ c + (f + 1) = g + 1 /\ c + (f + 2) = g + 2 /\ c + (f + 3) = g + 3
    <3>1. f \in Int /\ 1 <= f /\ f <= n - 3
      BY <1>2
    <3>2. c \in Nat /\ n \in Nat /\ c + n <= Len(m) /\ Len(m) \in Nat
      BY <1>1
    <3> HIDE DEF n
    <3> QED BY <3>1, <3>2
  <2>2. m[g] = Cr /\ m[g + 1] = Lf /\ m[g + 2] = Cr /\ m[g + 3] = Lf
    <3>1. s[f] = m[g] /\ s[f + 1] = m[c + (f + 1)] /\ s[f + 2] = m[c + (f + 2)] /\ s[f + 3] = m[c + (f + 3)]
      BY <1>1, <2>1
    <3> QED BY <1>2, <2>1, <3>1
  <2> HIDE DEF g, n
  <2> QED BY <1>1, <2>1, <2>2, BlankIs
<1>5. HeaderLen(m) <= g + 3 /\ HeaderLen(m) \in Nat
  BY <1>4, BlankInside
<1>6. r \in Seq(Byte) /\ Len(r) = n - (f + 3) /\ Inside(r, m, g + 3)
  <2>1. f + 4 \in Int /\ n \in Int /\ 1 <= f + 4 /\ f + 4 <= n + 1 /\ n <= Len(s) /\ n - (f + 4) + 1 = n - (f + 3)
    <3>1. f \in Int /\ 1 <= f /\ f <= n - 3
      BY <1>2
    <3>2. n \in Nat
      BY <1>1
    <3>3. n = Len(s)
      OBVIOUS
    <3> HIDE DEF n
    <3> QED BY <3>1, <3>2, <3>3
  <2>2. /\ r \in Seq(Byte) /\ Len(r) = n - (f + 4) + 1
        /\ \A k \in 1 .. n - (f + 4) + 1 : r[k] = s[f + 4 + k - 1]
    <3> DEFINE b == f + 4
    <3>1. b \in Int /\ n \in Int /\ 1 <= b /\ b <= n + 1 /\ n <= Len(s)
      BY <2>1
    <3> HIDE DEF b, n
    <3>2. /\ SubSeq(s, b, n) \in Seq(Byte) /\ Len(SubSeq(s, b, n)) = n - b + 1
          /\ \A k \in 1 .. n - b + 1 : SubSeq(s, b, n)[k] = s[b + k - 1]
      BY <3>1, StretchIs
    <3> QED BY <3>2, Zenon DEF b
  <2> HIDE DEF r
  <2>3. ASSUME NEW k \in 1 .. Len(r) PROVE r[k] = m[(g + 3) + k]
    <3>1. k \in 1 .. n - (f + 4) + 1 /\ f + 4 + k - 1 \in 1 .. n /\ c + (f + 4 + k - 1) = (g + 3) + k
      BY <1>1, <1>2, <2>1, <2>2
    <3>2. r[k] = s[f + 4 + k - 1] /\ s[f + 4 + k - 1] = m[c + (f + 4 + k - 1)]
      BY <1>1, <2>2, <3>1
    <3> QED BY <3>1, <3>2
  <2>4. g + 3 \in Nat /\ (g + 3) + Len(r) <= Len(m)
    BY <1>1, <1>2, <2>1, <2>2
  <2> QED BY <2>1, <2>2, <2>3, <2>4 DEF Inside
<1> HIDE DEF r
<1>7. Lines(r) = Counted(m, g + 3, c + n)
  <2>1. (g + 3) + Len(r) = c + n
    BY <1>1, <1>2, <1>6
  <2>2. Lines(r) = Counted(m, g + 3, (g + 3) + Len(r))
    <3> HIDE DEF g
    <3> QED BY <1>1, <1>6, LinesInside
  <2> QED BY <2>1, <2>2
<1>8. HeaderLen(m) <= c + n /\ g + 3 \in Int /\ c + n \in Int
  BY <1>1, <1>2, <1>5
<1>9. Counted(m, g + 3, c + n) \in Nat /\ Counted(m, g + 3, c + n) <= Counted(m, HeaderLen(m), c + n)
  BY <1>1, <1>5, <1>8, CountedLess, CountedType
<1> QED
  BY <1>2, <1>3, <1>4, <1>7, <1>8, <1>9

(* Where tophack cuts, there is enough behind it                            *)
LEMMA CutLate ==
  ASSUME NEW m \in Message, NEW s \in Seq(Byte), NEW c, Inside(s, m, c),
         NEW a \in Int, NEW l \in Nat, HeaderLen(m) <= c + Len(s), a <= Counted(m, HeaderLen(m), c + Len(s)), a > l,
         NEW at \in Matches(Crlf, s), Cardinality({q \in Matches(Crlf, s) : q >= at}) = TooMany(a, l), l # 0
  PROVE  FirstLines(l, Body(m)) + HeaderLen(m) <= (c + at) + 1
<1> DEFINE n == Len(s)
           h == HeaderLen(m)
           e == (c + at) + 1
<1>1. /\ m \in Seq(Byte) /\ h \in Nat /\ c \in Nat /\ n \in Nat /\ c + n <= Len(m) /\ Len(m) \in Nat
  BY HeaderIs DEF Inside
<1>2. at \in 1 .. n - 1 /\ c + at \in Matches(Crlf, m)
  <2>1. at \in 1 .. n - 1 /\ s[at] = Cr /\ s[at + 1] = Lf
    BY CrlfIs
  <2>2. at \in 1 .. n /\ at + 1 \in 1 .. n /\ c + at \in 1 .. Len(m) - 1 /\ c + (at + 1) = (c + at) + 1
    BY <1>1, <2>1
  <2>3. m[c + at] = Cr /\ m[(c + at) + 1] = Lf
    <3>1. s[at] = m[c + at] /\ s[at + 1] = m[c + (at + 1)]
      BY <2>2 DEF Inside
    <3> QED BY <2>1, <2>2, <3>1
  <2> QED BY <1>1, <2>1, <2>2, <2>3, CrlfIs
<1>3. a - l + 1 = Counted(m, (c + at) - 1, c + n)
  <2>1. a - l + 1 + 0 = a - l + 1
    OBVIOUS
  <2>2. TooMany(a, l) = a - l + 1
    BY <2>1 DEF TooMany
  <2> QED BY <1>1, <2>2, LinesInside
<1> DEFINE x == c + at
<1>4. x \in Int /\ x - 1 \in Int /\ x - 1 < x /\ x + 1 <= c + n /\ c + n \in Int /\ x + 1 \in Int /\ x + 1 <= Len(m)
  BY <1>1, <1>2
<1>5. x \in Matches(Crlf, m)
  BY <1>2
<1> HIDE DEF x
<1>6. Counted(m, x, c + n) + 1 <= Counted(m, x - 1, c + n)
  BY <1>1, <1>4, <1>5, CountedOne
<1>7. Counted(m, h, c + n) <= Counted(m, h, x + 1) + Counted(m, x, c + n)
  BY <1>1, <1>4, CountedParts
<1>8. Counted(m, h, x + 1) \in Nat /\ Counted(m, x, c + n) \in Nat /\ Counted(m, h, c + n) \in Nat /\ Counted(m, x - 1, c + n) \in Nat
  BY <1>1, CountedType
<1>9. Counted(m, x - 1, c + n) = a - l + 1
  BY <1>3 DEF x
<1>10. Counted(m, h, x + 1) >= l
  BY <1>6, <1>7, <1>8, <1>9
<1>11. h <= x + 1
  <2>1. ASSUME ~(h <= x + 1) PROVE FALSE
    <3>1. EndsIn(m, h, x + 1) = {}
      <4> SUFFICES ASSUME NEW p \in EndsIn(m, h, x + 1) PROVE FALSE
        OBVIOUS
      <4>1. p \in Int /\ p > h /\ p + 1 <= x + 1
        BY <1>1, EndsInIs
      <4> QED BY <1>1, <1>4, <2>1, <4>1
    <3>2. Counted(m, h, x + 1) = 0
      BY <3>1, FS_EmptySet DEF Counted
    <3> QED BY <1>10, <3>2
  <2> QED BY <2>1
<1>12. x + 1 \in HeaderLen(m) .. Len(m)
  BY <1>1, <1>4, <1>11
<1>13. FirstLines(l, Body(m)) <= (x + 1) - HeaderLen(m)
  <2> DEFINE z == x + 1
  <2>1. z \in HeaderLen(m) .. Len(m) /\ Counted(m, HeaderLen(m), z) >= l
    BY <1>10, <1>12
  <2> HIDE DEF z
  <2>2. FirstLines(l, Body(m)) <= z - HeaderLen(m)
    BY <2>1, FirstLinesIn
  <2> QED BY <2>2 DEF z
<1>14. FirstLines(l, Body(m)) \in Nat
  BY HeaderIs, FirstLinesType
<1>15. FirstLines(l, Body(m)) + HeaderLen(m) <= x + 1
  BY <1>1, <1>4, <1>13, <1>14
<1> QED
  BY <1>15 DEF x

(* If no line was asked for, the cut is at the empty line or behind it      *)
LEMMA CutBlank ==
  ASSUME NEW m \in Message, NEW s \in Seq(Byte), NEW c, Inside(s, m, c),
         NEW f \in 1 .. Len(s) - 3, c + f \in Matches(BlankLine, m),
         NEW at \in Matches(Crlf, s),
         Cardinality({q \in Matches(Crlf, s) : q >= at}) = Counted(m, (c + f) + 3, c + Len(s)) + 2
  PROVE  at >= f
<1> DEFINE n == Len(s)
           g == c + f
           x == c + at
           e == c + n
<1>1. m \in Seq(Byte) /\ c \in Nat /\ n \in Nat
  BY HeaderIs DEF Inside
<1>2. at \in Int
  BY CrlfIs
<1>3. Counted(m, x - 1, e) = Counted(m, g + 3, e) + 2
  BY <1>1, LinesInside
<1>4. g \in Matches(Crlf, m) /\ g + 2 \in Matches(Crlf, m)
  BY BlankInside
<1>5. ASSUME at < f PROVE FALSE
  <2>1. /\ x \in Int /\ g \in Int /\ x < g /\ g + 2 \in Int /\ g < g + 2 /\ e \in Int /\ g + 1 <= e /\ (g + 2) + 1 <= e
        /\ g + 3 \in Int /\ x - 1 \in Int
    BY <1>1, <1>2, <1>5
  <2>2. x \in Matches(Crlf, m)
    <3>1. at \in 1 .. n - 1 /\ s[at] = Cr /\ s[at + 1] = Lf
      BY CrlfIs
    <3>2. c + n <= Len(m) /\ Len(m) \in Nat
      BY <1>1 DEF Inside
    <3>3. at \in 1 .. n /\ at + 1 \in 1 .. n /\ c + at \in 1 .. Len(m) - 1 /\ c + (at + 1) = (c + at) + 1
      BY <1>1, <3>1, <3>2
    <3>4. m[c + at] = Cr /\ m[(c + at) + 1] = Lf
      <4>1. s[at] = m[c + at] /\ s[at + 1] = m[c + (at + 1)]
        BY <3>3 DEF Inside
      <4> QED BY <3>1, <3>3, <4>1
    <3> QED BY <1>1, <3>3, <3>4, CrlfIs
  <2> HIDE DEF x, g, e
  <2>3. Counted(m, g, e) + 1 <= Counted(m, x, e)
    BY <1>1, <1>4, <2>1, CountedOne
  <2>4. Counted(m, g + 2, e) + 1 <= Counted(m, g, e)
    BY <1>1, <1>4, <2>1, CountedOne
  <2>5. Counted(m, x, e) + 1 <= Counted(m, x - 1, e)
    <3>1. x - 1 < x /\ x + 1 <= e
      BY <2>1
    <3> QED BY <1>1, <2>1, <2>2, <3>1, CountedOne
  <2>6. Counted(m, g + 3, e) <= Counted(m, g + 2, e)
    <3>1. g + 2 <= g + 3 /\ e <= e
      BY <2>1
    <3> QED BY <1>1, <2>1, <3>1, CountedLess
  <2>7. /\ Counted(m, g, e) \in Nat /\ Counted(m, x, e) \in Nat /\ Counted(m, g + 2, e) \in Nat
        /\ Counted(m, g + 3, e) \in Nat /\ Counted(m, x - 1, e) \in Nat
    BY <1>1, CountedType
  <2> QED BY <1>3, <2>3, <2>4, <2>5, <2>6, <2>7
<1> QED
  BY <1>2, <1>5

-----------------------------------------------------------------------------
(* What is told *)

OkLine  == <<Ok>> \o Crlf
EndLine == <<Dot>> \o Crlf

(* Where tophack may cut a message: behind the header and the lines that   *)
(* are asked for, or two bytes before that, where top_cb ends the line     *)
Enough ==
  {j \in 0 .. Len(msg) :
     j + 2 >= HeaderLen(msg) + FirstLines(lines, Body(msg)) - (IF lines = 0 THEN 2 ELSE 0)}

CutShort(t) == \E j \in Enough : t = OkLine \o (Upto(j) \o Crlf)

Telling ==
  IF purge THEN NoDotLine => CutShort(told)
  ELSE told = OkLine \o Stuff(Upto(Taken)) /\ strhack.last4 = KeptOf(Stuff(Upto(Taken)))
Complete ==
  IF purge THEN NoDotLine => \E t : CutShort(t) /\ told = t \o EndLine
  ELSE (lines # Retr /\ StoppedShort) \/ told = (OkLine \o Stuff(msg)) \o EndLine

(* What tophack knows of the header, and how many lines it has counted       *)
Counts ==
  /\ ~strhack.header_done => strhack.last3 = KeptOf(Upto(Taken)) /\ strhack.current_lines = 0
  /\ strhack.header_done =>
       /\ lines # 0 /\ HeaderLen(msg) <= Taken /\ strhack.current_lines \in Int
       /\ strhack.current_lines <= Counted(msg, HeaderLen(msg), Taken)

TopInv ==
  /\ lines \in 0 .. MaxLines \cup {Retr}
  /\ pc \in {"start", "answered"} => strhack.header_done = FALSE /\ strhack.last3 = <<>> /\ strhack.current_lines = 0
  /\ cut = "fine" /\ lines # Retr /\ pc = "callback" /\ ~purge => Counts

(* The website's pieces are the message, in order; what the client is told  *)
(* is the first line, what they are stuffed to as a whole, and the last    *)
AnswerInv ==
  /\ Record(strhack)
  /\ cut \in {"fine", "rough", "short"}
  /\ \A i \in 1 .. Len(rest) : rest[i] = msg[Taken + i]
  /\ size \in Size
  /\ lines = Retr => ~purge /\ range = "first"
  /\ pc \in {"start", "answered"} => rest = msg /\ strhack.last4 = <<>> /\ ~purge
  /\ pc = "answered" /\ ~err => told = OkLine
  /\ cut = "fine" => GoodCut(Taken)
  /\ cut = "fine" /\ ~err /\ pc = "callback" => Telling
  /\ cut = "fine" /\ ~err /\ pc \in {"dot", "over"} /\ result # "failed" => Complete

LEMMA Strange ==
  ASSUME SendInv
  PROVE  /\ msg \in Seq(Byte) /\ rest \in Seq(Byte) /\ Len(msg) \in Nat /\ Len(rest) \in Nat
         /\ Taken \in 0 .. Len(msg) /\ Taken + Len(rest) = Len(msg)
<1>1. msg \in Seq(Byte) /\ rest \in Seq(Byte) /\ Len(rest) <= Len(msg)
  BY MessageSet DEF SendInv
<1>2. Len(msg) \in Nat /\ Len(rest) \in Nat
  BY <1>1
<1> QED
  BY <1>1, <1>2 DEF Taken

(* The next piece begins where the last one ended                           *)
LEMMA TakenMore ==
  ASSUME SendInv, AnswerInv, NEW n \in 1 .. Len(rest), rest' = SubSeq(rest, n + 1, Len(rest)), msg' = msg
  PROVE  LET s == SubSeq(rest, 1, n) IN
         /\ Taken' = Taken + n
         /\ \A i \in 1 .. n : s[i] = msg[Taken + i]
         /\ \A j \in 1 .. n : Upto(Taken) \o SubSeq(s, 1, j) = Upto(Taken + j)
         /\ \A i \in 1 .. Len(rest') : rest'[i] = msg'[Taken' + i]
<1> DEFINE s == SubSeq(rest, 1, n)
           c == Taken
<1>1. /\ s \in Seq(Byte) /\ Len(s) = n /\ \A i \in 1 .. n : s[i] = rest[i]
  BY PieceIs
<1>2. rest' \in Seq(Byte) /\ Len(rest') = Len(rest) - n /\ \A i \in 1 .. Len(rest) - n : rest'[i] = rest[n + i]
  BY PieceIs
<1>3. /\ msg \in Message /\ Len(msg) \in Nat /\ Len(rest) \in Nat /\ c \in 0 .. Len(msg)
      /\ c + Len(rest) = Len(msg)
  BY Strange DEF SendInv
<1>4. \A i \in 1 .. Len(rest) : rest[i] = msg[c + i]
  BY DEF AnswerInv
<1> HIDE DEF s
<1>5. Taken' = c + n
  <2>1. Taken' = Len(msg) - Len(rest') /\ c = Len(msg) - Len(rest)
    BY DEF Taken
  <2>2. Len(rest') = Len(rest) - n
    BY <1>2
  <2> DEFINE a == Len(msg)
             b == Len(rest)
  <2>3. Taken' = a - (b - n) /\ c = a - b /\ a \in Nat /\ b \in Nat
    BY <1>3, <2>1, <2>2, Zenon
  <2>4. n \in Int
    OBVIOUS
  <2> HIDE DEF a, b, c
  <2> QED BY <2>3, <2>4
<1> HIDE DEF c
<1>6. \A i \in 1 .. n : s[i] = msg[c + i]
  <2>1. \A i \in 1 .. n : i \in 1 .. Len(rest)
    BY <1>3
  <2> QED BY <1>1, <1>4, <2>1
<1>7. ASSUME NEW j \in 1 .. n PROVE Upto(c) \o SubSeq(s, 1, j) = Upto(c + j)
  <2> DEFINE p == SubSeq(s, 1, j)
  <2>1. j \in Int /\ 1 <= j + 1 /\ j <= Len(s) /\ j - 1 + 1 = j /\ \A i \in Int : 1 + i - 1 = i
    BY <1>1
  <2>2. p \in Seq(Byte) /\ Len(p) = j /\ \A i \in 1 .. j : p[i] = s[1 + i - 1]
    BY <1>1, <2>1, StretchIs
  <2> HIDE DEF p
  <2>3. \A i \in 1 .. j : i \in 1 .. n /\ 1 + i - 1 = i
    BY <1>3
  <2>4. \A i \in 1 .. Len(p) : p[i] = msg[c + i]
    BY <1>6, <2>2, <2>3
  <2>5. c \in Nat /\ c + Len(p) <= Len(msg)
    BY <1>3, <2>2
  <2>6. Upto(c) \o p = Upto(c + Len(p))
    BY <1>3, <2>2, <2>4, <2>5, UptoMore
  <2> QED BY <2>2, <2>6 DEF p
<1>8. ASSUME NEW i \in 1 .. Len(rest') PROVE rest'[i] = msg'[Taken' + i]
  <2>1. i \in 1 .. Len(rest) - n /\ n + i \in 1 .. Len(rest) /\ c + (n + i) = (c + n) + i
    BY <1>2, <1>3
  <2> QED BY <1>2, <1>4, <1>5, <2>1
<1> QED
  BY <1>5, <1>6, <1>7, <1>8 DEF s, c

(* Where the website's cut is fine dothack is right                         *)
LEMMA FineFromGood ==
  ASSUME msg \in Message, NEW c \in 0 .. Len(msg), GoodCut(c), c + 3 <= Len(msg),
         NEW h \in Triple, h[1] = msg[c + 1], h[2] = msg[c + 2], h[3] = msg[c + 3]
  PROVE  FineCut(Upto(c), h)
<1> DEFINE u == Upto(c)
<1>1. u \in Seq(Byte) /\ Len(u) = c /\ \A i \in 1 .. c : u[i] = msg[i]
  BY UptoIs
<1>2. msg \in Seq(Byte) /\ Len(msg) \in Nat /\ c \in Nat
  BY MessageSet
<1> HIDE DEF u
<1>3. CASE c = 0
  BY <1>1, <1>3 DEF FineCut, u
<1>4. CASE c >= 3
  <2>1. /\ u[c] = msg[c] /\ u[c - 1] = msg[c - 1] /\ u[c - 2] = msg[c - 2]
    <3>1. c \in 1 .. c /\ c - 1 \in 1 .. c /\ c - 2 \in 1 .. c
      BY <1>2, <1>4
    <3> QED BY <1>1, <3>1
  <2>2. ASSUME NEW i \in Matches(LoneDot, msg), c \in i .. i + 2, Dot \in {msg[j] : j \in c - 2 .. i - 1}
        PROVE  FALSE
    BY <1>2, <1>4, <2>2 DEF GoodCut
  <2>3. ASSUME u[c - 1] = Cr, u[c] = Lf, h[1] = Dot, h[2] = Cr, u[c - 2] = Dot PROVE FALSE
    <3>1. /\ (c - 1) + 1 = c /\ (c - 1) + 2 = c + 1 /\ (c - 1) + 3 = c + 2
          /\ c - 1 \in 1 .. Len(msg) - 3 /\ c \in c - 1 .. (c - 1) + 2
          /\ c - 2 \in c - 2 .. (c - 1) - 1
      BY <1>2, <1>4
    <3>2. DotAt(msg, c - 1)
      BY <2>1, <2>3, <3>1 DEF DotAt
    <3>3. c - 1 \in Matches(LoneDot, msg)
      BY <1>2, <3>2, LoneDotIs
    <3>4. Dot \in {msg[j] : j \in c - 2 .. (c - 1) - 1}
      BY <2>1, <2>3, <3>1
    <3> QED BY <2>2, <3>1, <3>3, <3>4
  <2>4. ASSUME u[c] = Cr, h[1] = Lf, h[2] = Dot, h[3] = Cr, u[c - 2] = Dot \/ u[c - 1] = Dot PROVE FALSE
    <3>1. /\ c \in 1 .. Len(msg) - 3 /\ c \in c .. c + 2
          /\ c - 2 \in c - 2 .. c - 1 /\ c - 1 \in c - 2 .. c - 1
      BY <1>2, <1>4
    <3>2. DotAt(msg, c)
      BY <2>1, <2>4, <3>1 DEF DotAt
    <3>3. c \in Matches(LoneDot, msg)
      BY <1>2, <3>2, LoneDotIs
    <3>4. Dot \in {msg[j] : j \in c - 2 .. c - 1}
      BY <2>1, <2>4, <3>1
    <3> QED BY <2>2, <3>1, <3>3, <3>4
  <2>5. FineCut(u, h)
    BY <1>1, <1>4, <2>3, <2>4 DEF FineCut
  <2> QED BY <2>5 DEF u
<1> QED
  BY <1>3, <1>4 DEF GoodCut

(* A piece in its first three bytes and the others                          *)
LEMMA TripleOf ==
  ASSUME NEW s \in Seq(Byte), Len(s) >= 3
  PROVE  \E h \in Triple, r \in Seq(Byte) : s = h \o r /\ h[1] = s[1] /\ h[2] = s[2] /\ h[3] = s[3]
<1> DEFINE h == SubSeq(s, 1, 3)
           r == SubSeq(s, 3 + 1, Len(s))
<1>1. /\ 3 \in Int /\ 3 - 1 + 1 = 3 /\ 3 <= Len(s) /\ 1 <= 3 + 1
  OBVIOUS
<1>2. h \in Seq(Byte) /\ Len(h) = 3 /\ \A k \in 1 .. 3 : h[k] = s[1 + k - 1]
  BY <1>1, StretchIs
<1>3. r \in Seq(Byte)
  <2>1. 3 + 1 \in Int /\ Len(s) \in Int /\ 1 <= 3 + 1 /\ 3 + 1 <= Len(s) + 1 /\ Len(s) <= Len(s)
    OBVIOUS
  <2> QED BY <2>1, StretchIs
<1>4. h \o r = s
  <2>1. 1 \in 1 .. Len(s) + 1 /\ 3 \in 1 - 1 .. Len(s) /\ Len(s) \in 3 .. Len(s)
    OBVIOUS
  <2>2. SubSeq(s, 1, 3) \o SubSeq(s, 3 + 1, Len(s)) = SubSeq(s, 1, Len(s))
    BY <2>1, ConcatAdjacentSubSeq
  <2>3. SubSeq(s, 1, Len(s)) = s
    BY SubSeqFull
  <2> QED BY <2>2, <2>3
<1> HIDE DEF h, r
<1>5. h[1] = s[1] /\ h[2] = s[2] /\ h[3] = s[3]
  BY <1>2
<1>6. h \in Triple
  BY <1>2 DEF Triple
<1> QED
  BY <1>3, <1>4, <1>5, <1>6

(* A piece told whole                                                       *)
LEMMA PieceWhole ==
  ASSUME msg \in Message, NEW c \in 0 .. Len(msg), GoodCut(c), NEW s \in Seq(Byte), Len(s) >= 3,
         c + 3 <= Len(msg), \A i \in 1 .. Len(s) : s[i] = msg[c + i]
  PROVE  LET t == Stuff(Upto(c))
             out == dothack(KeptOf(t), s)
         IN /\ t \o out = Stuff(Upto(c) \o s)
            /\ \A l \in KeepLast(out) : l = KeptOf(t \o out)
<1> DEFINE u == Upto(c)
           t == Stuff(u)
           out == dothack(KeptOf(t), s)
<1>1. u \in Seq(Byte)
  BY UptoIs
<1>2. PICK h \in Triple, r \in Seq(Byte) : s = h \o r /\ h[1] = s[1] /\ h[2] = s[2] /\ h[3] = s[3]
  BY TripleOf
<1>3. FineCut(u, h)
  <2>1. 1 \in 1 .. Len(s) /\ 2 \in 1 .. Len(s) /\ 3 \in 1 .. Len(s)
    OBVIOUS
  <2>2. h[1] = msg[c + 1] /\ h[2] = msg[c + 2] /\ h[3] = msg[c + 3]
    BY <1>2, <2>1
  <2> QED BY <2>2, FineFromGood
<1> HIDE DEF u
<1>4. t \o dothack(KeptOf(t), h \o r) = Stuff(u \o (h \o r))
  BY <1>1, <1>3, StuffPieces
<1>5. t \o out = Stuff(u \o s)
  BY <1>2, <1>4
<1>6. out \in Seq(Byte) /\ Len(out) >= 3
  <2>1. Len(s) >= 1 /\ Len(s) \in Nat
    OBVIOUS
  <2>2. out \in Seq(Byte) /\ Len(out) >= Len(s)
    BY <2>1, dothackType
  <2>3. Len(out) \in Nat
    BY <2>2
  <2> QED BY <2>1, <2>2, <2>3
<1>7. t \in Seq(Byte)
  BY <1>1, StuffIs
<1> HIDE DEF t, out
<1>8. KeepLast(out) = {LastThree(out)} /\ KeptOf(t \o out) = LastThree(out)
  BY <1>6, <1>7, LastOf
<1>9. \A l \in KeepLast(out) : l = KeptOf(t \o out)
  BY <1>8
<1> QED
  BY <1>5, <1>9 DEF out, t, u

(* A piece of a message without such lines, told as far as tophack lets it   *)
LEMMA PieceCut ==
  ASSUME msg \in Message, NoDotLine, NEW c \in 0 .. Len(msg), c = 0 \/ c >= 3,
         NEW p \in Seq(Byte), Len(p) >= 1, c + Len(p) <= Len(msg), \A i \in 1 .. Len(p) : p[i] = msg[c + i]
  PROVE  Stuff(Upto(c)) = Upto(c) /\ dothack(KeptOf(Stuff(Upto(c))), p) = p
<1> DEFINE u == Upto(c)
<1>1. u \in Seq(Byte) /\ Len(u) = c
  BY UptoIs
<1>2. msg \in Seq(Byte) /\ Len(msg) \in Nat /\ Len(p) \in Nat /\ c \in Nat
  BY MessageSet
<1>3. u \o p = Upto(c + Len(p))
  BY <1>2, UptoMore
<1>4. ASSUME NEW i, DotAt(u \o p, i) PROVE FALSE
  <2> DEFINE w == Upto(c + Len(p))
  <2>1. c + Len(p) \in 0 .. Len(msg)
    BY <1>2
  <2>2. w \in Seq(Byte) /\ Len(w) = c + Len(p) /\ \A k \in 1 .. c + Len(p) : w[k] = msg[k]
    BY <2>1, UptoIs
  <2>3. DotAt(w, i)
    BY <1>3, <1>4
  <2> HIDE DEF w
  <2> DEFINE m == c + Len(p)
  <2>4. m \in Nat /\ m <= Len(msg) /\ i \in 1 .. m - 3
    BY <1>2, <2>2, <2>3 DEF DotAt
  <2>5. w[i] = msg[i] /\ w[i + 1] = msg[i + 1] /\ w[i + 2] = msg[i + 2]
    <3> HIDE DEF m
    <3>1. i \in 1 .. m /\ i + 1 \in 1 .. m /\ i + 2 \in 1 .. m
      BY <2>4
    <3> QED BY <2>2, <3>1 DEF m
  <2>6. i \in 1 .. Len(msg) - 2
    <3> HIDE DEF m
    <3> QED BY <1>2, <2>4
  <2>7. i \in Matches(Crlf \o <<Dot>>, msg)
    BY <1>2, <2>3, <2>5, <2>6, DotLineIs DEF DotAt
  <2> QED BY <2>7 DEF NoDotLine
<1> HIDE DEF u
<1>5. Stuff(u) = u /\ dothack(KeptOf(u), p) = p
  BY <1>1, <1>4, NothingStuffed
<1> QED
  BY <1>5 DEF u

LEMMA OkLineIs ==
  OkLine \in Seq(Symbol) /\ Len(OkLine) = 3 /\ OkLine[1] = Ok /\ OkLine[2] = Cr /\ OkLine[3] = Lf
<1>1. Ok \in Symbol /\ Cr \in Symbol /\ Lf \in Symbol
  BY Bytes DEF Symbol
<1>2. <<Ok>> \o <<Cr, Lf>> = <<Ok, Cr, Lf>>
  BY <1>1, OneTwo
<1>3. OkLine = <<Ok, Cr, Lf>>
  BY <1>2 DEF OkLine, Crlf
<1> QED
  BY <1>1, <1>3

LEMMA EndLineIs ==
  EndLine \in Seq(Symbol) /\ Len(EndLine) = 3 /\ EndLine[1] = Dot /\ EndLine[2] = Cr /\ EndLine[3] = Lf
<1>1. Dot \in Symbol /\ Cr \in Symbol /\ Lf \in Symbol
  BY Bytes DEF Symbol
<1>2. <<Dot>> \o <<Cr, Lf>> = <<Dot, Cr, Lf>>
  BY <1>1, OneTwo
<1>3. EndLine = <<Dot, Cr, Lf>>
  BY <1>2 DEF EndLine, Crlf
<1> QED
  BY <1>1, <1>3

LEMMA AreSymbols ==
  ASSUME NEW s \in Seq(Byte)
  PROVE  s \in Seq(Symbol)
BY DEF Symbol

(* A string told of a message, if the client is still there                  *)
LEMMA SayIs ==
  ASSUME ~err, NEW a, Say(<<a>>)
  PROVE  told' = told \o a
BY JoinedIs DEF Say

LEMMA SayTwoIs ==
  ASSUME ~err, NEW a, NEW b, Say(<<a, b>>)
  PROVE  told' = told \o (a \o b)
BY JoinedIs DEF Say

LEMMA CutFine ==
  ASSUME cut \in {"fine", "rough", "short"}, NEW n \in Nat, cut' = Worse(cut, Cut(n))
  PROVE  /\ cut' \in {"fine", "rough", "short"}
         /\ cut' = "fine" => cut = "fine" /\ Cut(n) = "fine"
<1>1. Cut(n) \in {"fine", "rough", "short"}
  BY DEF Cut
<1> QED
  BY <1>1 DEF Worse

LEMMA CutGood ==
  ASSUME SendInv, NEW n \in 1 .. Len(rest), Cut(n) = "fine"
  PROVE  n >= 3 /\ GoodCut(Taken + n)
<1>1. Taken + n = Len(msg) - Len(rest) + n
  BY DEF Taken
<1>2. /\ ~(n < 3)
      /\ ~\E i \in Matches(LoneDot, msg) :
            /\ Taken + n \in i .. i + 2
            /\ Dot \in {msg[j] : j \in (Taken + n) - 2 .. i - 1}
  BY <1>1, Zenon DEF Cut
<1>3. n >= 3 /\ Taken + n >= 3
  BY <1>2, Strange
<1> QED
  BY <1>2, <1>3 DEF GoodCut

(* What a piece adds to what is told: whole, and cut                         *)
LEMMA ToldWhole ==
  ASSUME SendInv, AnswerInv, ~err, cut = "fine", pc = "callback", ~purge, NEW n \in 1 .. Len(rest), n >= 3,
         Say(<<dothack(strhack.last4, SubSeq(rest, 1, n))>>),
         strhack'.last4 \in KeepLast(dothack(strhack.last4, SubSeq(rest, 1, n))),
         rest' = SubSeq(rest, n + 1, Len(rest)), msg' = msg
  PROVE  /\ told' = OkLine \o Stuff(Upto(Taken + n))
         /\ strhack'.last4 = KeptOf(Stuff(Upto(Taken + n)))
<1> DEFINE s == SubSeq(rest, 1, n)
           c == Taken
           t == Stuff(Upto(c))
           out == dothack(strhack.last4, s)
<1>1. told = OkLine \o t /\ strhack.last4 = KeptOf(t)
  BY DEF AnswerInv, Telling
<1>2. msg \in Message /\ c \in 0 .. Len(msg) /\ c + Len(rest) = Len(msg) /\ Len(rest) \in Nat /\ Len(msg) \in Nat
  BY Strange DEF SendInv
<1>3. GoodCut(c)
  BY DEF AnswerInv
<1>4. s \in Seq(Byte) /\ Len(s) = n
  BY PieceIs
<1>5. \A i \in 1 .. n : s[i] = msg[c + i]
  BY TakenMore
<1>6. Upto(c) \o s = Upto(c + n)
  <2>1. n \in 1 .. n
    OBVIOUS
  <2>2. Upto(c) \o SubSeq(s, 1, n) = Upto(c + n)
    BY <2>1, TakenMore
  <2>3. SubSeq(s, 1, n) = s
    BY <1>4, SubSeqFull
  <2> QED BY <2>2, <2>3
<1>7. told' = told \o out
  BY SayIs
<1>8. Upto(c) \in Seq(Byte)
  BY <1>2, UptoIs
<1> HIDE DEF s, c
<1>9. c + 3 <= Len(msg) /\ Len(s) >= 3
  BY <1>2, <1>4
<1>10. t \o out = Stuff(Upto(c + n)) /\ \A l \in KeepLast(out) : l = KeptOf(t \o out)
  <2>1. \A i \in 1 .. Len(s) : s[i] = msg[c + i]
    BY <1>4, <1>5
  <2>2. /\ t \o dothack(KeptOf(t), s) = Stuff(Upto(c) \o s)
        /\ \A l \in KeepLast(dothack(KeptOf(t), s)) : l = KeptOf(t \o dothack(KeptOf(t), s))
    BY <1>2, <1>3, <1>4, <1>9, <2>1, PieceWhole
  <2> QED BY <1>1, <1>6, <2>2
<1>11. out \in Seq(Symbol) /\ t \in Seq(Symbol) /\ OkLine \in Seq(Symbol)
  <2>1. Len(s) >= 1
    BY <1>4
  <2>2. out \in Seq(Byte)
    BY <1>4, <2>1, dothackType
  <2>3. t \in Seq(Byte)
    BY <1>8, StuffIs
  <2> QED BY <2>2, <2>3, AreSymbols, OkLineIs
<1>12. strhack'.last4 \in KeepLast(out)
  BY DEF s
<1> HIDE DEF t, out
<1>13. (OkLine \o t) \o out = OkLine \o (t \o out)
  BY <1>11, Associates
<1>14. told' = OkLine \o Stuff(Upto(c + n))
  BY <1>1, <1>7, <1>10, <1>13
<1>15. strhack'.last4 = KeptOf(Stuff(Upto(c + n)))
  BY <1>10, <1>12
<1> QED
  BY <1>14, <1>15 DEF c

LEMMA GatherLines ==
  ASSUME NEW u \in Seq(Symbol), NEW p \in Seq(Symbol)
  PROVE  (OkLine \o u) \o (p \o Crlf) = OkLine \o ((u \o p) \o Crlf)
<1> DEFINE k == OkLine
           l == Crlf
           e == p \o l
<1>1. k \in Seq(Symbol) /\ l \in Seq(Symbol)
  BY AreSymbols, OkLineIs, Bytes
<1> HIDE DEF k, l
<1>2. e \in Seq(Symbol)
  BY <1>1, Join
<1> HIDE DEF e
<1>3. (k \o u) \o e = k \o (u \o e)
  BY <1>1, <1>2, Associates, SMTT(30)
<1>4. (u \o p) \o l = u \o (p \o l)
  BY <1>1, Associates
<1> QED
  BY <1>3, <1>4 DEF e, k, l

LEMMA ToldCut ==
  ASSUME SendInv, AnswerInv, ~err, cut = "fine", pc = "callback", ~purge, NoDotLine,
         NEW n \in 1 .. Len(rest), NEW j \in 1 .. n,
         Say(<<dothack(strhack.last4, SubSeq(SubSeq(rest, 1, n), 1, j)), Crlf>>),
         rest' = SubSeq(rest, n + 1, Len(rest)), msg' = msg
  PROVE  told' = OkLine \o (Upto(Taken + j) \o Crlf)
<1> DEFINE s == SubSeq(rest, 1, n)
           p == SubSeq(s, 1, j)
           c == Taken
           u == Upto(c)
           t == Stuff(u)
<1>1. told = OkLine \o t /\ strhack.last4 = KeptOf(t)
  BY DEF AnswerInv, Telling
<1>2. msg \in Message /\ c \in 0 .. Len(msg) /\ c + Len(rest) = Len(msg) /\ Len(rest) \in Nat /\ Len(msg) \in Nat
  BY Strange DEF SendInv
<1>3. c = 0 \/ c >= 3
  BY DEF AnswerInv, GoodCut
<1>4. s \in Seq(Byte) /\ Len(s) = n
  BY PieceIs
<1>5. \A i \in 1 .. n : s[i] = msg[c + i]
  BY TakenMore
<1>6. u \o p = Upto(c + j)
  BY TakenMore
<1>7. told' = told \o (dothack(strhack.last4, p) \o Crlf)
  BY SayTwoIs
<1> HIDE DEF s
<1>8. p \in Seq(Byte) /\ Len(p) = j /\ \A i \in 1 .. j : p[i] = msg[c + i]
  <2>1. j \in Int /\ 1 <= j + 1 /\ j <= Len(s) /\ j - 1 + 1 = j
    BY <1>4
  <2>2. p \in Seq(Byte) /\ Len(p) = j /\ \A i \in 1 .. j : p[i] = s[1 + i - 1]
    BY <1>4, <2>1, StretchIs
  <2>3. \A i \in 1 .. j : 1 + i - 1 = i /\ i \in 1 .. n
    OBVIOUS
  <2> HIDE DEF p
  <2> QED BY <1>5, <2>2, <2>3
<1>9. u \in Seq(Byte)
  BY <1>2, UptoIs
<1> HIDE DEF p, c
<1>10. t = u /\ dothack(KeptOf(t), p) = p
  <2>1. Len(p) >= 1 /\ c + Len(p) <= Len(msg) /\ \A i \in 1 .. Len(p) : p[i] = msg[c + i]
    BY <1>2, <1>8
  <2> QED BY <1>2, <1>3, <1>8, <2>1, PieceCut
<1>11. told' = (OkLine \o u) \o (p \o Crlf)
  BY <1>1, <1>7, <1>10
<1> HIDE DEF u, t
<1>12. OkLine \in Seq(Symbol) /\ u \in Seq(Symbol) /\ p \in Seq(Symbol) /\ Crlf \in Seq(Symbol)
  BY <1>8, <1>9, AreSymbols, OkLineIs, Bytes
<1>14. (OkLine \o u) \o (p \o Crlf) = OkLine \o ((u \o p) \o Crlf)
  BY <1>12, GatherLines
<1>16. told' = OkLine \o (Upto(c + j) \o Crlf)
  BY <1>6, <1>11, <1>14, Zenon
<1> QED
  BY <1>16 DEF c

LEMMA KeptIs ==
  ASSUME msg \in Message, NEW c \in 0 .. Len(msg), c = 0 \/ c >= 3
  PROVE  KeptBefore(KeptOf(Upto(c)), msg, c)
<1> DEFINE u == Upto(c)
           l == LastThree(u)
<1>1. u \in Seq(Byte) /\ Len(u) = c /\ \A i \in 1 .. c : u[i] = msg[i]
  BY UptoIs
<1> HIDE DEF u
<1>2. CASE c = 0
  <2>1. u = <<>>
    BY <1>1, <1>2
  <2> QED BY <1>2, <2>1 DEF KeptOf, KeptBefore, u
<1>3. CASE c >= 3
  <2>1. /\ l \in Seq(Byte) /\ Len(l) = 3
        /\ l[1] = u[c - 2] /\ l[2] = u[c - 1] /\ l[3] = u[c]
    BY <1>1, <1>3, LastThreeIs
  <2>2. u # <<>>
    <3>1. Len(<<>>) = 0
      OBVIOUS
    <3> QED BY <1>1, <1>3, <3>1
  <2> HIDE DEF l
  <2>3. c \in Int /\ c - 2 \in 1 .. c /\ c - 1 \in 1 .. c /\ c \in 1 .. c
    BY <1>3
  <2>4. u[c - 2] = msg[c - 2] /\ u[c - 1] = msg[c - 1] /\ u[c] = msg[c]
    BY <1>1, <2>3
  <2>5. \A k \in 1 .. 3 : l[k] = msg[(c - 3) + k]
    <3>1. (c - 3) + 1 = c - 2 /\ (c - 3) + 2 = c - 1 /\ (c - 3) + 3 = c /\ 1 .. 3 = {1, 2, 3}
      BY <2>3
    <3> QED BY <2>1, <2>4, <3>1
  <2>6. KeptOf(u) = l
    BY <2>2 DEF KeptOf, l
  <2>7. KeptBefore(l, msg, c)
    BY <1>3, <2>1, <2>5 DEF KeptBefore
  <2> QED BY <2>6, <2>7 DEF u
<1> QED
  BY <1>2, <1>3

(* What tophack makes of its counters                                       *)
LEMMA TopCountIs ==
  ASSUME Record(strhack), NEW s
  PROVE  LET a == TopCount(s) IN
         /\ Record(a) /\ a.last3 = strhack.last3
         /\ \/ /\ strhack.header_done /\ a.header_done = strhack.header_done
               /\ a.current_lines = strhack.current_lines + Lines(s)
            \/ /\ ~strhack.header_done /\ a.header_done = TRUE /\ HeaderEnds(strhack.last3, s)
               /\ a.current_lines = BodyLines(strhack.last3, s)
            \/ ~strhack.header_done /\ a = strhack
<1>1. PICK hd, cl, l3, l4 :
        strhack = [header_done |-> hd, current_lines |-> cl, last3 |-> l3, last4 |-> l4]
  BY DEF Record
<1> DEFINE a == TopCount(s)
           x == Lines(s)
           y == BodyLines(strhack.last3, s)
<1>2. a = IF strhack.header_done THEN [strhack EXCEPT !.current_lines = @ + x]
          ELSE IF HeaderEnds(strhack.last3, s) THEN [strhack EXCEPT !.header_done = TRUE, !.current_lines = y]
          ELSE strhack
  BY DEF TopCount
<1> HIDE DEF a, x, y
<1>3. CASE strhack.header_done
  <2>1. a = [strhack EXCEPT !.current_lines = @ + x]
    BY <1>2, <1>3
  <2>2. a = [header_done |-> hd, current_lines |-> cl + x, last3 |-> l3, last4 |-> l4]
    BY <1>1, <2>1
  <2>3. Record(a)
    BY <2>2 DEF Record
  <2> QED BY <1>1, <1>3, <2>2, <2>3 DEF a, x
<1>4. CASE ~strhack.header_done /\ HeaderEnds(strhack.last3, s)
  <2>1. a = [strhack EXCEPT !.header_done = TRUE, !.current_lines = y]
    BY <1>2, <1>4
  <2>2. a = [header_done |-> TRUE, current_lines |-> y, last3 |-> l3, last4 |-> l4]
    BY <1>1, <2>1
  <2>3. Record(a)
    BY <2>2 DEF Record
  <2>4. a.last3 = strhack.last3 /\ a.header_done = TRUE /\ a.current_lines = y
    BY <1>1, <2>2
  <2> QED BY <1>4, <2>3, <2>4, Zenon DEF a, y
<1>5. CASE ~strhack.header_done /\ ~HeaderEnds(strhack.last3, s)
  <2>1. a = strhack
    BY <1>2, <1>5
  <2> QED BY <1>5, <2>1 DEF a
<1> QED
  BY <1>3, <1>4, <1>5

LEMMA TopStep ==
  ASSUME Record(strhack), NEW s \in Seq(Byte), Len(s) >= 3, TopPiece(s)
  PROVE  LET a == TopCount(s) IN
         /\ strhack'.header_done = a.header_done /\ strhack'.current_lines = a.current_lines
         /\ ~strhack.header_done => strhack'.last3 = LastThree(s)
         /\ purge' = check_stop(a.header_done, a.current_lines, lines)
<1> DEFINE a == TopCount(s)
<1>1. PICK hd, cl, l3, l4 : a = [header_done |-> hd, current_lines |-> cl, last3 |-> l3, last4 |-> l4]
  BY TopCountIs DEF Record
<1>2. PICK k3 \in KeepLast(s) :
        \E k4 : strhack' = [a EXCEPT !.last3 = IF strhack.header_done THEN @ ELSE k3, !.last4 = k4]
  BY Zenon DEF TopPiece
<1>3. purge' = check_stop(a.header_done, a.current_lines, lines)
  BY Zenon DEF TopPiece
<1>4. k3 = LastThree(s)
  BY DEF KeepLast
<1> HIDE DEF a
<1>5. PICK k4 : strhack' = [a EXCEPT !.last3 = IF strhack.header_done THEN @ ELSE k3, !.last4 = k4]
  BY <1>2
<1> DEFINE m3 == IF strhack.header_done THEN l3 ELSE k3
<1>6. strhack' = [header_done |-> hd, current_lines |-> cl, last3 |-> m3, last4 |-> k4]
  BY <1>1, <1>5
<1>7. strhack'.header_done = hd /\ strhack'.current_lines = cl /\ strhack'.last3 = m3
  <2> HIDE DEF m3
  <2> QED BY <1>6
<1>8. a.header_done = hd /\ a.current_lines = cl
  BY <1>1
<1>9. ~strhack.header_done => m3 = LastThree(s)
  BY <1>4
<1> HIDE DEF m3
<1> QED
  BY <1>3, <1>7, <1>8, <1>9 DEF a

(* What tophack has counted when it has seen a piece                        *)
LEMMA TopCounted ==
  ASSUME SendInv, AnswerInv, TopInv, cut = "fine", lines # Retr, pc = "callback", ~purge,
         NEW n \in 1 .. Len(rest), n >= 3
  PROVE  LET s == SubSeq(rest, 1, n)
             a == TopCount(s)
         IN a.header_done =>
              /\ a.current_lines \in Int /\ HeaderLen(msg) <= Taken + n
              /\ a.current_lines <= Counted(msg, HeaderLen(msg), Taken + n)
              /\ lines = 0 => \/ Lines(s) <= a.current_lines + 1
                              \/ \E f \in 1 .. Len(s) - 3 :
                                   /\ Taken + f \in Matches(BlankLine, msg)
                                   /\ a.current_lines = Counted(msg, (Taken + f) + 3, Taken + Len(s))
<1> DEFINE s == SubSeq(rest, 1, n)
           a == TopCount(s)
           c == Taken
           h == HeaderLen(msg)
<1>1. /\ msg \in Message /\ msg \in Seq(Byte) /\ c \in 0 .. Len(msg) /\ c + Len(rest) = Len(msg)
      /\ Len(rest) \in Nat /\ Len(msg) \in Nat
  BY Strange DEF SendInv
<1>2. s \in Seq(Byte) /\ Len(s) = n
  BY PieceIs
<1>3. Inside(s, msg, c)
  <2>1. \A i \in 1 .. n : s[i] = msg[c + i]
    <3>1. s \in Seq(Byte) /\ \A i \in 1 .. n : s[i] = rest[i]
      BY PieceIs
    <3>2. \A i \in 1 .. Len(rest) : rest[i] = msg[c + i]
      BY DEF AnswerInv
    <3> HIDE DEF s
    <3> QED BY <1>1, <3>1, <3>2
  <2> HIDE DEF s
  <2> QED BY <1>1, <1>2, <2>1 DEF Inside
<1>4. Counts /\ Record(strhack) /\ (c = 0 \/ c >= 3) /\ h \in Nat
  <2>1. Counts
    BY DEF TopInv
  <2>2. Record(strhack) /\ GoodCut(c)
    BY DEF AnswerInv
  <2> QED BY <1>1, <2>1, <2>2, HeaderIs DEF GoodCut
<1> HIDE DEF s, c, h
<1>5. /\ a.last3 = strhack.last3
      /\ \/ /\ strhack.header_done /\ a.header_done = strhack.header_done
            /\ a.current_lines = strhack.current_lines + Lines(s)
         \/ /\ ~strhack.header_done /\ a.header_done = TRUE /\ HeaderEnds(strhack.last3, s)
            /\ a.current_lines = BodyLines(strhack.last3, s)
         \/ ~strhack.header_done /\ a = strhack
  BY <1>4, TopCountIs
<1> HIDE DEF a
<1>6. CASE strhack.header_done /\ a.current_lines = strhack.current_lines + Lines(s)
  <2> DEFINE k == strhack.current_lines
  <2>1. lines # 0 /\ h <= c /\ k \in Int /\ k <= Counted(msg, h, c)
    BY <1>4, <1>6 DEF Counts, c, h
  <2>2. a.current_lines = k + Lines(s)
    BY <1>6
  <2> HIDE DEF k
  <2>3. Lines(s) = Counted(msg, c, c + n)
    BY <1>1, <1>2, <1>3, LinesInside
  <2>4. h \in Int /\ c \in Int /\ c + n \in Int /\ c <= c + n
    BY <1>1, <1>4
  <2>5. Counted(msg, h, c) + Counted(msg, c, c + n) <= Counted(msg, h, c + n)
    BY <1>1, <2>1, <2>4, CountedSum
  <2>6. Counted(msg, h, c) \in Nat /\ Counted(msg, c, c + n) \in Nat /\ Counted(msg, h, c + n) \in Nat
    BY <1>1, CountedType
  <2>7. a.current_lines \in Int /\ h <= c + n /\ a.current_lines <= Counted(msg, h, c + n)
    BY <2>1, <2>2, <2>3, <2>4, <2>5, <2>6
  <2> QED BY <2>1, <2>7 DEF a, c, h, s
<1>7. CASE ~strhack.header_done /\ HeaderEnds(strhack.last3, s) /\ a.current_lines = BodyLines(strhack.last3, s)
  <2> DEFINE l == strhack.last3
             y == BodyLines(l, s)
  <2>1. KeptBefore(l, msg, c)
    <3>1. l = KeptOf(Upto(c))
      BY <1>4, <1>7 DEF Counts, c
    <3> QED BY <1>1, <1>4, <3>1, KeptIs
  <2>2. a.current_lines = y
    BY <1>7
  <2>3. HeaderCut(l, s) \/ Matches(BlankLine, s) # {}
    BY <1>7 DEF HeaderEnds
  <2> HIDE DEF l
  <2>4. CASE HeaderCut(l, s)
    <3>1. y \in Int /\ h <= c + Len(s) /\ y <= Counted(msg, h, c + Len(s)) /\ Lines(s) <= y + 1
      BY <1>1, <1>2, <1>3, <2>1, <2>4, CutCounted DEF h
    <3> QED BY <1>2, <2>2, <3>1 DEF a, c, h, s
  <2>5. CASE ~HeaderCut(l, s) /\ Matches(BlankLine, s) # {}
    <3>1. /\ y \in Int /\ h <= c + Len(s) /\ y <= Counted(msg, h, c + Len(s))
          /\ \E f \in 1 .. Len(s) - 3 : c + f \in Matches(BlankLine, msg) /\ y = Counted(msg, (c + f) + 3, c + Len(s))
      BY <1>1, <1>2, <1>3, <2>5, InsideCounted DEF h
    <3> QED BY <1>2, <2>2, <3>1 DEF a, c, h, s
  <2> QED BY <2>3, <2>4, <2>5
<1>8. CASE ~strhack.header_done /\ a = strhack
  BY <1>8 DEF a, s
<1> QED
  BY <1>5, <1>6, <1>7, <1>8

(* Where tophack cuts a piece                                               *)
LEMMA CutsEnough ==
  ASSUME SendInv, AnswerInv, TopInv, cut = "fine", lines # Retr, pc = "callback", ~purge,
         NEW n \in 1 .. Len(rest), n >= 3, NEW j \in 1 .. n,
         TopCut(SubSeq(rest, 1, n), TopCount(SubSeq(rest, 1, n)).current_lines, lines)
           = SubSeq(SubSeq(rest, 1, n), 1, j),
         check_stop(TopCount(SubSeq(rest, 1, n)).header_done, TopCount(SubSeq(rest, 1, n)).current_lines, lines),
         TopCount(SubSeq(rest, 1, n)).header_done
  PROVE  Taken + j \in Enough
<1> DEFINE s == SubSeq(rest, 1, n)
           a == TopCount(s).current_lines
           hd == TopCount(s).header_done
           c == Taken
           h == HeaderLen(msg)
           F == FirstLines(lines, Body(msg))
<1>1. /\ msg \in Message /\ msg \in Seq(Byte) /\ c \in 0 .. Len(msg) /\ c + Len(rest) = Len(msg)
      /\ Len(rest) \in Nat /\ Len(msg) \in Nat
  BY Strange DEF SendInv
<1>2. s \in Seq(Byte) /\ Len(s) = n
  BY PieceIs
<1>3. Inside(s, msg, c)
  <2>1. \A i \in 1 .. n : s[i] = msg[c + i]
    <3>1. s \in Seq(Byte) /\ \A i \in 1 .. n : s[i] = rest[i]
      BY PieceIs
    <3>2. \A i \in 1 .. Len(rest) : rest[i] = msg[c + i]
      BY DEF AnswerInv
    <3> HIDE DEF s
    <3> QED BY <1>1, <3>1, <3>2
  <2> HIDE DEF s
  <2> QED BY <1>1, <1>2, <2>1 DEF Inside
<1>4. lines \in Nat
  BY Requests DEF TopInv
<1>5. /\ a \in Int /\ h <= c + n /\ a <= Counted(msg, h, c + n)
      /\ lines = 0 => \/ Lines(s) <= a + 1
                      \/ \E f \in 1 .. Len(s) - 3 :
                           c + f \in Matches(BlankLine, msg) /\ a = Counted(msg, (c + f) + 3, c + Len(s))
  BY TopCounted
<1>6. TopCut(s, a, lines) = SubSeq(s, 1, j) /\ (a > lines \/ lines = 0)
  BY DEF check_stop
<1>7. h \in Nat /\ h <= Len(msg) /\ F \in Nat /\ F <= Len(msg) - h /\ c \in Nat
  <2>1. h \in 4 .. Len(msg) /\ Body(msg) \in Seq(Byte) /\ Len(Body(msg)) = Len(msg) - h
    BY <1>1, HeaderIs
  <2>2. F \in Nat /\ F <= Len(Body(msg))
    BY <2>1, FirstLinesType
  <2> HIDE DEF F, h, c
  <2> QED BY <1>1, <2>1, <2>2
<1>8. /\ j \in Nat /\ c + j \in 0 .. Len(msg) /\ n \in Nat /\ c + n \in Nat /\ c + n <= Len(msg)
  <2> HIDE DEF c
  <2> QED BY <1>1
<1> HIDE DEF s, a, hd
<1>9. lines # 0 \/ (lines = 0 /\ F = 0)
  <2>1. ASSUME lines = 0 PROVE F = 0
    <3> DEFINE P(i) == {k \in Matches(Crlf, Body(msg)) : k + 1 < i}
    <3>1. \A i \in DOMAIN Body(msg) : ~(Cardinality(P(i)) < 0)
      <4> SUFFICES ASSUME NEW i \in DOMAIN Body(msg) PROVE ~(Cardinality(P(i)) < 0)
        OBVIOUS
      <4>1. Body(msg) \in Seq(Byte)
        BY <1>1, HeaderIs
      <4>2. IsFiniteSet(Matches(Crlf, Body(msg))) /\ P(i) \subseteq Matches(Crlf, Body(msg))
        BY <4>1, MatchesFinite
      <4>3. Cardinality(P(i)) \in Nat
        <5> HIDE DEF P
        <5> QED BY <4>2, FS_Subset, FS_CardinalityType
      <4> HIDE DEF P
      <4> QED BY <4>3
    <3>2. F = Cardinality({i \in DOMAIN Body(msg) : Cardinality(P(i)) < 0})
      BY <2>1 DEF FirstLines
    <3> HIDE DEF P, F
    <3>3. {i \in DOMAIN Body(msg) : Cardinality(P(i)) < 0} = {}
      BY <3>1, Zenon
    <3> QED BY <3>2, <3>3, FS_EmptySet
  <2> QED BY <2>1
<1> SUFFICES (c + j) + 2 >= h + F - (IF lines = 0 THEN 2 ELSE 0)
  BY <1>8 DEF Enough
<1>10. CASE j = n
  <2>1. h + F <= c + n \/ lines = 0
    <3>1. CASE lines # 0
      <4> DEFINE e == c + n
      <4>1. e \in h .. Len(msg) /\ Counted(msg, h, e) >= lines
        <5>1. Counted(msg, h, e) \in Nat
          BY <1>1, CountedType
        <5> HIDE DEF h, c
        <5> QED BY <1>4, <1>5, <1>6, <1>7, <1>8, <3>1, <5>1
      <4> HIDE DEF e
      <4>2. F <= e - h
        BY <1>1, <1>4, <4>1, FirstLinesIn
      <4> HIDE DEF F, h
      <4> QED BY <1>7, <4>1, <4>2 DEF e
    <3> QED BY <3>1
  <2> HIDE DEF F, h, c
  <2> QED BY <1>5, <1>7, <1>8, <1>9, <1>10, <2>1
<1>11. ASSUME NEW at \in Matches(Crlf, s),
              Cardinality({q \in Matches(Crlf, s) : q >= at}) = TooMany(a, lines), j >= at - 1
       PROVE  (c + j) + 2 >= h + F - (IF lines = 0 THEN 2 ELSE 0)
  <2>1. at \in Nat
    BY <1>2, CrlfIs
  <2>2. CASE lines # 0
    <3>1. F + h <= (c + at) + 1
      BY <1>1, <1>2, <1>3, <1>4, <1>5, <1>6, <1>11, <2>2, CutLate
    <3> HIDE DEF F, h, c
    <3> QED BY <1>7, <1>8, <1>11, <2>1, <2>2, <3>1
  <2>3. CASE lines = 0
    <3>1. TooMany(a, lines) = a + 2
      BY <1>5, <2>3 DEF TooMany
    <3>2. Cardinality({q \in Matches(Crlf, s) : q >= at}) = a + 2
      BY <1>11, <3>1
    <3>3. ASSUME Lines(s) <= a + 1 PROVE FALSE
      <4>1. Lines(s) = Counted(msg, c, c + Len(s)) /\ a + 2 = Counted(msg, (c + at) - 1, c + Len(s))
        BY <1>1, <1>2, <1>3, <3>2, LinesInside
      <4>2. Counted(msg, (c + at) - 1, c + Len(s)) <= Counted(msg, c, c + Len(s))
        <5>1. at >= 1
          BY <1>2, CrlfIs
        <5>2. c \in Int /\ (c + at) - 1 \in Int /\ c + Len(s) \in Int /\ c <= (c + at) - 1 /\ c + Len(s) <= c + Len(s)
          <6> HIDE DEF c
          <6> QED BY <1>2, <1>7, <2>1, <5>1
        <5> HIDE DEF c
        <5> QED BY <1>1, <5>2, CountedLess
      <4>3. Counted(msg, (c + at) - 1, c + Len(s)) \in Nat /\ Counted(msg, c, c + Len(s)) \in Nat
        BY <1>1, CountedType
      <4> HIDE DEF c
      <4> QED BY <1>5, <3>3, <4>1, <4>2, <4>3
    <3>4. ASSUME NEW f \in 1 .. Len(s) - 3, c + f \in Matches(BlankLine, msg), a = Counted(msg, (c + f) + 3, c + Len(s))
          PROVE  (c + j) + 2 >= h - 2
      <4>1. at >= f
        BY <1>1, <1>2, <1>3, <3>2, <3>4, CutBlank
      <4>2. h <= (c + f) + 3
        BY <1>1, <3>4, BlankInside
      <4> HIDE DEF c, h
      <4> QED BY <1>7, <1>8, <1>11, <2>1, <4>1, <4>2
    <3>5. (c + j) + 2 >= h - 2
      <4>1. CASE Lines(s) <= a + 1
        BY <3>3, <4>1
      <4>2. CASE \E f \in 1 .. Len(s) - 3 :
                   c + f \in Matches(BlankLine, msg) /\ a = Counted(msg, (c + f) + 3, c + Len(s))
        <5>1. PICK f \in 1 .. Len(s) - 3 :
                c + f \in Matches(BlankLine, msg) /\ a = Counted(msg, (c + f) + 3, c + Len(s))
          BY <4>2
        <5> HIDE DEF c, h
        <5> QED BY <3>4, <5>1
      <4> HIDE DEF c, h
      <4> QED BY <1>5, <2>3, <4>1, <4>2
    <3> HIDE DEF c, h, F
    <3> QED BY <1>7, <1>9, <2>3, <3>5
  <2> QED BY <2>2, <2>3
<1>12. \/ j = Len(s)
       \/ \E at \in Matches(Crlf, s) :
            Cardinality({q \in Matches(Crlf, s) : q >= at}) = TooMany(a, lines) /\ j >= at - 1
  <2>1. j \in 1 .. Len(s) /\ Len(s) >= 1
    BY <1>2
  <2> QED BY <1>2, <1>6, <2>1, TopCutAt
<1> QED
  BY <1>2, <1>10, <1>11, <1>12

(* Nothing is cut before the header has been seen to the end                *)
LEMMA StopsPast ==
  ASSUME AnswerInv, TopInv, cut = "fine", lines # Retr, pc = "callback", ~purge, NEW s,
         check_stop(TopCount(s).header_done, TopCount(s).current_lines, lines)
  PROVE  TopCount(s).header_done
<1> DEFINE a == TopCount(s)
<1>1. \/ strhack.header_done /\ a.header_done = strhack.header_done
      \/ a.header_done = TRUE
      \/ ~strhack.header_done /\ a = strhack
  BY TopCountIs DEF AnswerInv
<1>2. lines \in Nat
  BY Requests DEF TopInv
<1>3. ~strhack.header_done => strhack.current_lines = 0
  BY DEF TopInv, Counts
<1>4. check_stop(a.header_done, a.current_lines, lines)
  OBVIOUS
<1> HIDE DEF a
<1>5. ASSUME ~strhack.header_done, a = strhack PROVE FALSE
  <2>1. a.current_lines = 0 /\ ~a.header_done
    BY <1>3, <1>5
  <2>2. ~(0 > lines)
    BY <1>2
  <2> QED BY <1>4, <2>1, <2>2 DEF check_stop
<1>6. a.header_done
  BY <1>1, <1>5
<1> QED
  BY <1>6 DEF a

LEMMA PieceAnswers ==
  ASSUME SendInv, AnswerInv, TopInv, Piece
  PROVE  AnswerInv'
<1>1. /\ pc = "callback" /\ pc' = "callback" /\ ~purge
      /\ msg' = msg /\ lines' = lines /\ size' = size /\ range' = range /\ result' = result /\ err' = err
  BY DEF Piece, Goto, request
<1>2. PICK n \in 1 .. Len(rest) :
        /\ RetrPiece(SubSeq(rest, 1, n)) \/ TopPiece(SubSeq(rest, 1, n))
        /\ rest' = SubSeq(rest, n + 1, Len(rest))
        /\ cut' = Worse(cut, Cut(n))
  BY DEF Piece
<1> DEFINE s == SubSeq(rest, 1, n)
<1>3. s \in Seq(Byte) /\ Len(s) = n
  BY PieceIs
<1>4. Record(strhack') /\ Tells(s)
  <2>1. RetrPiece(s) \/ TopPiece(s)
    BY <1>2
  <2>2. Record(strhack)
    BY DEF AnswerInv
  <2> HIDE DEF s
  <2>3. Len(s) >= 1
    BY <1>3
  <2> QED BY <1>1, <1>3, <2>1, <2>2, <2>3, PieceTells
<1>5. Taken' = Taken + n /\ \A i \in 1 .. Len(rest') : rest'[i] = msg'[Taken' + i]
  BY <1>1, <1>2, TakenMore
<1>6. cut' \in {"fine", "rough", "short"} /\ (cut' = "fine" => cut = "fine" /\ Cut(n) = "fine")
  <2>1. cut \in {"fine", "rough", "short"} /\ n \in Nat
    BY DEF AnswerInv
  <2> QED BY <1>2, <2>1, CutFine
<1>7. lines' = Retr => ~purge'
  BY <1>1, <1>4 DEF Tells
<1>8. ASSUME cut' = "fine" PROVE cut = "fine" /\ n >= 3 /\ GoodCut(Taken + n)
  BY <1>6, <1>8, CutGood
<1>9. cut' = "fine" => GoodCut(Taken)'
  BY <1>1, <1>5, <1>8 DEF GoodCut
<1>10. ASSUME cut' = "fine", ~err' PROVE Telling'
  <2>1. ~err /\ cut = "fine" /\ n >= 3
    BY <1>1, <1>8, <1>10
  <2>2. Upto(Taken)' = Upto(Taken + n)
    BY <1>1, <1>5 DEF Upto
  <2>3. CASE ~purge'
    <3>1. Say(<<dothack(strhack.last4, s)>>) /\ strhack'.last4 \in KeepLast(dothack(strhack.last4, s))
      BY <1>4, <2>3, Zenon DEF Tells
    <3>2. /\ told' = OkLine \o Stuff(Upto(Taken + n))
          /\ strhack'.last4 = KeptOf(Stuff(Upto(Taken + n)))
      BY <1>1, <1>2, <2>1, <3>1, ToldWhole
    <3> QED BY <2>2, <2>3, <3>2 DEF Telling
  <2>4. CASE purge'
    <3>1. lines # Retr
          /\ \E j \in 1 .. Len(s) :
               /\ TopCut(s, TopCount(s).current_lines, lines) = SubSeq(s, 1, j)
               /\ check_stop(TopCount(s).header_done, TopCount(s).current_lines, lines)
               /\ Say(<<dothack(strhack.last4, SubSeq(s, 1, j)), Crlf>>)
      BY <1>4, <2>4, Zenon DEF Tells
    <3>2. PICK j \in 1 .. n :
            /\ TopCut(s, TopCount(s).current_lines, lines) = SubSeq(s, 1, j)
            /\ check_stop(TopCount(s).header_done, TopCount(s).current_lines, lines)
            /\ Say(<<dothack(strhack.last4, SubSeq(s, 1, j)), Crlf>>)
      BY <1>3, <3>1
    <3>3. Taken + j \in Enough
      <4>1. TopCount(s).header_done
        BY <1>1, <2>1, <3>1, <3>2, StopsPast
      <4> QED BY <1>1, <2>1, <3>1, <3>2, <4>1, CutsEnough
    <3>4. NoDotLine => told' = OkLine \o (Upto(Taken + j) \o Crlf)
      BY <1>1, <1>2, <2>1, <3>2, ToldCut
    <3>5. Enough' = Enough /\ \A k : Upto(k)' = Upto(k)
      BY <1>1 DEF Enough, Upto
    <3>6. NoDotLine' <=> NoDotLine
      BY <1>1 DEF NoDotLine
    <3>7. NoDotLine' => CutShort(told)'
      BY <3>3, <3>4, <3>5, <3>6 DEF CutShort
    <3> QED BY <2>4, <3>7 DEF Telling
  <2> QED BY <2>3, <2>4
<1> HIDE DEF s
<1> QED
  BY <1>1, <1>4, <1>5, <1>6, <1>7, <1>9, <1>10 DEF AnswerInv

LEMMA TopInit ==
  ASSUME Init
  PROVE  TopInv
BY DEF Init, TopInv

(* What tophack knows after a piece it has not cut                          *)
LEMMA PieceCounts ==
  ASSUME SendInv, AnswerInv, TopInv, Piece, cut' = "fine", lines' # Retr, ~purge'
  PROVE  Counts'
<1>1. pc = "callback" /\ ~purge /\ msg' = msg /\ lines' = lines
  BY DEF Piece, Goto, request
<1>2. PICK n \in 1 .. Len(rest) :
        /\ RetrPiece(SubSeq(rest, 1, n)) \/ TopPiece(SubSeq(rest, 1, n))
        /\ rest' = SubSeq(rest, n + 1, Len(rest))
        /\ cut' = Worse(cut, Cut(n))
  BY DEF Piece
<1> DEFINE s == SubSeq(rest, 1, n)
           a == TopCount(s)
           h == HeaderLen(msg)
<1>3. cut = "fine" /\ n >= 3
  <2>1. cut \in {"fine", "rough", "short"} /\ n \in Nat
    BY DEF AnswerInv
  <2>2. cut = "fine" /\ Cut(n) = "fine"
    BY <1>2, <2>1, CutFine
  <2> QED BY <2>2, CutGood
<1>4. s \in Seq(Byte) /\ Len(s) = n
  BY PieceIs
<1>5. Taken' = Taken + n /\ (Upto(Taken))' = Upto(Taken + n)
  <2>1. Taken' = Taken + n
    BY <1>1, <1>2, TakenMore
  <2> QED BY <1>1, <2>1 DEF Upto
<1>6. Upto(Taken + n) = Upto(Taken) \o s
  <2>1. n \in 1 .. n
    OBVIOUS
  <2>2. Upto(Taken) \o SubSeq(s, 1, n) = Upto(Taken + n)
    BY <1>1, <1>2, <2>1, TakenMore
  <2>3. SubSeq(s, 1, n) = s
    BY <1>4, SubSeqFull
  <2> QED BY <2>2, <2>3
<1>7. Upto(Taken) \in Seq(Byte) /\ Record(strhack) /\ TopPiece(s)
  <2>1. Upto(Taken) \in Seq(Byte)
    BY Strange, UptoIs DEF SendInv
  <2>2. TopPiece(s)
    BY <1>1, <1>2 DEF RetrPiece
  <2> QED BY <2>1, <2>2 DEF AnswerInv
<1>8. a.header_done =>
        /\ a.current_lines \in Int /\ h <= Taken + n
        /\ a.current_lines <= Counted(msg, h, Taken + n)
  BY <1>1, <1>3, TopCounted
<1>9. \/ strhack.header_done /\ a.header_done = strhack.header_done
      \/ a.header_done = TRUE
      \/ ~strhack.header_done /\ a = strhack
  BY <1>7, TopCountIs
<1>10. /\ strhack'.header_done = a.header_done /\ strhack'.current_lines = a.current_lines
       /\ ~strhack.header_done => strhack'.last3 = LastThree(s)
       /\ purge' = check_stop(a.header_done, a.current_lines, lines)
  <2> HIDE DEF s
  <2> QED BY <1>3, <1>4, <1>7, TopStep
<1>11. (Counted(msg, HeaderLen(msg), Taken))' = Counted(msg, h, Taken + n) /\ HeaderLen(msg)' = h
  BY <1>1, <1>5
<1>12. ~strhack.header_done => strhack.current_lines = 0
  BY <1>1, <1>3 DEF TopInv, Counts
<1>13. KeptOf(Upto(Taken) \o s) = LastThree(s)
  <2> HIDE DEF s
  <2> QED BY <1>3, <1>4, <1>7, LastOf
<1> HIDE DEF s, a, h
<1>14. ASSUME ~strhack'.header_done
       PROVE  strhack'.last3 = KeptOf(Upto(Taken))' /\ strhack'.current_lines = 0
  <2>1. ~a.header_done
    BY <1>10, <1>14
  <2>2. ~strhack.header_done /\ a = strhack
    BY <1>9, <2>1
  <2>3. KeptOf(Upto(Taken))' = KeptOf(Upto(Taken) \o s)
    BY <1>5, <1>6 DEF KeptOf
  <2> QED BY <1>10, <1>12, <1>13, <2>2, <2>3
<1>15. ASSUME strhack'.header_done
       PROVE  /\ lines' # 0 /\ HeaderLen(msg)' <= Taken' /\ strhack'.current_lines \in Int
              /\ strhack'.current_lines <= Counted(msg, HeaderLen(msg), Taken)'
  <2>1. a.header_done
    BY <1>10, <1>15
  <2>2. lines # 0
    BY <1>10, <2>1 DEF check_stop
  <2> QED BY <1>1, <1>5, <1>8, <1>10, <1>11, <2>1, <2>2
<1> QED
  BY <1>14, <1>15 DEF Counts

LEMMA TopNext ==
  ASSUME SendInv, AnswerInv, TopInv, [Next]_vars
  PROVE  TopInv'
<1>1. msg' = msg /\ lines' = lines
  BY DEF Next, Send, SendFails, Answer, AnswerFails, Marshaller, Piece, RangeEnds, PluginEnds, LaterRangeFails,
         PluginFails, Over, vars, request
<1>2. CASE Piece
  <2>1. pc' = "callback"
    BY <1>2 DEF Piece, Goto
  <2>2. cut' = "fine" /\ lines' # Retr /\ ~purge' => Counts'
    BY <1>2, PieceCounts
  <2> QED BY <1>1, <2>1, <2>2 DEF TopInv
<1>3. ASSUME UNCHANGED <<rest, strhack>> PROVE Counts' <=> Counts
  <2>1. Taken' = Taken /\ Upto(Taken)' = Upto(Taken)
    BY <1>1, <1>3 DEF Taken, Upto
  <2>2. KeptOf(Upto(Taken))' = KeptOf(Upto(Taken)) /\ HeaderLen(msg)' = HeaderLen(msg)
        /\ Counted(msg, HeaderLen(msg), Taken)' = Counted(msg, HeaderLen(msg), Taken)
    BY <1>1, <2>1 DEF KeptOf
  <2> QED BY <1>1, <1>3, <2>1, <2>2 DEF Counts
<1>4. CASE Send \/ SendFails \/ RangeEnds \/ UNCHANGED vars
  <2>1. UNCHANGED <<rest, cut, strhack, purge, pc>>
    BY <1>4 DEF Send, SendFails, RangeEnds, Goto, vars, plugin
  <2> QED BY <1>1, <1>3, <2>1 DEF TopInv
<1>5. CASE Answer
  <2>1. pc = "start" /\ pc' = "answered" /\ UNCHANGED <<rest, cut, strhack, purge>>
    BY <1>5 DEF Answer, Goto, plugin
  <2> QED BY <1>1, <2>1 DEF TopInv
<1>6. CASE Marshaller
  <2>1. pc = "answered" /\ pc' = "callback" /\ UNCHANGED <<rest, cut, strhack, purge>>
    BY <1>6 DEF Marshaller, Goto, plugin
  <2>2. strhack.header_done = FALSE /\ strhack.last3 = <<>> /\ strhack.current_lines = 0 /\ rest = msg
    BY <2>1 DEF TopInv, AnswerInv
  <2>3. KeptOf(Upto(Taken)) = <<>>
    <3>1. Taken = 0
      BY <2>2, Strange DEF Taken
    <3>2. Upto(0) = <<>>
      BY SubSeqEmpty DEF Upto
    <3> QED BY <3>1, <3>2 DEF KeptOf
  <2>4. Counts
    BY <2>2, <2>3 DEF Counts
  <2> QED BY <1>1, <1>3, <2>1, <2>4 DEF TopInv
<1>7. CASE AnswerFails \/ PluginEnds \/ LaterRangeFails \/ PluginFails \/ Over
  <2>1. pc' \in {"dot", "over"}
    BY <1>7 DEF AnswerFails, PluginEnds, LaterRangeFails, PluginFails, Over, Goto
  <2> QED BY <1>1, <2>1 DEF TopInv
<1> QED
  BY <1>2, <1>4, <1>5, <1>6, <1>7 DEF Next

LEMMA AnswerInit ==
  ASSUME Init
  PROVE  AnswerInv
<1>1. msg \in Seq(Byte) /\ rest = msg /\ Len(msg) \in Nat
  BY MessageSet DEF Init
<1>2. Taken = 0
  BY <1>1 DEF Taken
<1>3. \A i \in 1 .. Len(rest) : rest[i] = msg[Taken + i]
  BY <1>1, <1>2
<1>4. Record(strhack) /\ strhack.last4 = <<>>
  BY DEF Init, Record
<1> QED
  BY <1>1, <1>2, <1>3, <1>4 DEF Init, AnswerInv, GoodCut

(* A step that adds nothing to what is told                                 *)
LEMMA SameTold ==
  ASSUME AnswerInv, UNCHANGED <<msg, lines, size, range, rest, cut, strhack, purge, told>>,
         err => err', pc' = pc, result' = result
  PROVE  AnswerInv'
<1>1. Taken' = Taken
  BY DEF Taken
<1>2. GoodCut(Taken)' <=> GoodCut(Taken)
  BY <1>1 DEF GoodCut
<1>3. Enough' = Enough /\ (\A j : Upto(j)' = Upto(j)) /\ Upto(Taken)' = Upto(Taken)
  BY <1>1 DEF Enough, Upto
<1>4. (NoDotLine' <=> NoDotLine) /\ \A t : CutShort(t)' <=> CutShort(t)
  BY <1>3 DEF NoDotLine, CutShort
<1>5. CutShort(told)' <=> CutShort(told)
  BY <1>3 DEF CutShort
<1>6. (Telling' <=> Telling) /\ (Complete' <=> Complete)
  BY <1>3, <1>4, <1>5 DEF Telling, Complete, StoppedShort
<1> QED
  BY <1>1, <1>2, <1>6 DEF AnswerInv

(* When all has been delivered, the client has been told all               *)
LEMMA AllTold ==
  ASSUME SendInv, Telling, ~purge, rest = <<>>, told' = told \o EndLine
  PROVE  told' = (OkLine \o Stuff(msg)) \o EndLine
<1>1. Taken = Len(msg)
  <2>1. Len(rest) = 0
    OBVIOUS
  <2> QED BY <2>1, Strange
<1>2. Upto(Taken) = msg
  BY <1>1, Strange, SubSeqFull DEF Upto
<1> QED
  BY <1>2 DEF Telling

LEMMA AnswerNext ==
  ASSUME SendInv, AnswerInv, TopInv, [Next]_vars
  PROVE  AnswerInv'
<1>1. CASE Send \/ SendFails \/ UNCHANGED vars
  <2>1. UNCHANGED <<msg, lines, size, range, rest, cut, strhack, purge, told, pc, result>> /\ (err => err')
    BY <1>1 DEF Send, SendFails, vars, request, plugin, socket
  <2> QED BY <2>1, SameTold
<1>2. CASE Piece
  BY <1>2, PieceAnswers
<1>3. ASSUME UNCHANGED <<msg, lines, rest, cut, strhack, purge>>
      PROVE  /\ Taken' = Taken /\ (GoodCut(Taken)' <=> GoodCut(Taken))
             /\ Upto(Taken)' = Upto(Taken) /\ (NoDotLine' <=> NoDotLine)
             /\ \A t : CutShort(t)' <=> CutShort(t)
  <2>1. Taken' = Taken
    BY <1>3 DEF Taken
  <2>2. Enough' = Enough /\ (\A j : Upto(j)' = Upto(j)) /\ Upto(Taken)' = Upto(Taken)
    BY <1>3, <2>1 DEF Enough, Upto
  <2> QED BY <1>3, <2>1, <2>2 DEF NoDotLine, CutShort, GoodCut
<1>4. CASE Answer
  <2>1. pc = "start" /\ pc' = "answered" /\ UNCHANGED <<msg, lines, size, range, rest, cut, strhack, purge, result, err>>
    BY <1>4 DEF Answer, Goto, request, plugin
  <2>2. told = <<>> /\ ~err
    BY <2>1 DEF SendInv
  <2>3. told' = <<>> \o OkLine
    BY <1>4, <2>2, SayTwoIs DEF Answer, OkLine
  <2>4. told' = OkLine
    BY <2>3, OkLineIs, ConcatEmptySeq
  <2> QED BY <1>3, <2>1, <2>4 DEF AnswerInv
<1>5. CASE AnswerFails
  <2>1. /\ pc' = "over" /\ err' = err /\ err
        /\ UNCHANGED <<msg, lines, size, range, rest, cut, strhack, purge, told>>
    BY <1>5 DEF AnswerFails, Goto, request, plugin, socket
  <2> QED BY <1>3, <2>1 DEF AnswerInv
<1>6. CASE Marshaller
  <2>1. /\ pc = "answered" /\ pc' = "callback" /\ err' = err /\ result' = result /\ ~err
        /\ UNCHANGED <<msg, lines, size, range, rest, cut, strhack, purge, told>>
    BY <1>6 DEF Marshaller, Goto, request, plugin, socket
  <2>2. rest = msg /\ strhack.last4 = <<>> /\ ~purge /\ told = OkLine
    BY <2>1 DEF AnswerInv
  <2>3. Taken = 0 /\ Upto(Taken) = <<>>
    <3>1. Taken = 0
      BY <2>2, Strange DEF Taken
    <3> QED BY <3>1, SubSeqEmpty DEF Upto
  <2>4. told = OkLine \o Stuff(Upto(Taken)) /\ strhack.last4 = KeptOf(Stuff(Upto(Taken)))
    BY <2>2, <2>3, StuffNone, OkLineIs, ConcatEmptySeq DEF KeptOf
  <2>5. Telling'
    BY <1>3, <2>1, <2>2, <2>4 DEF Telling
  <2> QED BY <1>3, <2>1, <2>5 DEF AnswerInv
<1>7. CASE PluginFails
  <2>1. /\ pc' = "dot" /\ err' = err /\ result' = "failed"
        /\ UNCHANGED <<msg, lines, size, range, rest, cut, strhack, purge>>
    BY <1>7 DEF PluginFails, Goto, request, plugin
  <2> QED BY <1>3, <2>1 DEF AnswerInv
<1>8. CASE PluginEnds
  <2>1. /\ pc = "callback" /\ pc' = "dot" /\ err' = err
        /\ IF lines = Retr THEN rest = <<>> ELSE purge \/ Taken >= size
        /\ UNCHANGED <<msg, lines, size, range, rest, cut, strhack, purge>>
    BY <1>8 DEF PluginEnds, MayStop, Delivered, Taken, Goto, request, plugin
  <2>2. ASSUME cut = "fine", ~err PROVE Complete'
    <3>1. told' = told \o EndLine
      BY <1>8, <2>2, SayTwoIs DEF PluginEnds, EndLine
    <3>2. Telling
      BY <2>1, <2>2 DEF AnswerInv
    <3>3. CASE purge
      <4>1. NoDotLine => CutShort(told)
        BY <3>2, <3>3 DEF Telling
      <4>2. NoDotLine' => \E t : CutShort(t)' /\ told' = t \o EndLine
        BY <1>3, <2>1, <3>1, <4>1
      <4> QED BY <2>1, <3>3, <4>2 DEF Complete
    <3>4. CASE ~purge /\ rest = <<>>
      <4>1. told' = (OkLine \o Stuff(msg)) \o EndLine
        BY <2>2, <3>1, <3>2, <3>4, AllTold
      <4> QED BY <2>1, <3>4, <4>1 DEF Complete
    <3>5. CASE ~purge /\ rest # <<>>
      <4>1. lines # Retr /\ Taken >= size
        BY <2>1, <3>5
      <4>2. size \in Nat /\ Len(rest) > 0
        BY <3>5, Sizes, Strange DEF AnswerInv
      <4>3. size < Len(msg)
        BY <4>1, <4>2, Strange
      <4> QED BY <2>1, <3>5, <4>1, <4>3 DEF Complete, StoppedShort
    <3> QED BY <3>3, <3>4, <3>5
  <2> QED BY <1>3, <2>1, <2>2 DEF AnswerInv
<1>9. CASE Over
  <2>1. /\ pc = "dot" /\ pc' = "over" /\ err' = err /\ (result' # "failed" => result # "failed")
        /\ UNCHANGED <<msg, lines, size, range, rest, cut, strhack, purge, told>>
    BY <1>9 DEF Over, Goto, request, plugin, socket
  <2>2. ASSUME cut = "fine", ~err, result # "failed" PROVE Complete'
    <3>1. Complete
      BY <2>1, <2>2 DEF AnswerInv
    <3> QED BY <1>3, <2>1, <3>1 DEF Complete, StoppedShort
  <2> QED BY <1>3, <2>1, <2>2 DEF AnswerInv
<1>10. CASE RangeEnds
  <2>1. /\ pc = "callback" /\ pc' = pc /\ err' = err /\ result' = result /\ lines # Retr
        /\ UNCHANGED <<msg, lines, size, rest, cut, strhack, purge, told>>
    BY <1>10 DEF RangeEnds, Goto, request, socket
  <2>2. CutShort(told)' <=> CutShort(told)
    BY <1>3, <2>1
  <2>3. Telling' <=> Telling
    BY <1>3, <2>1, <2>2 DEF Telling
  <2> QED BY <1>3, <2>1, <2>3 DEF AnswerInv
<1>11. CASE LaterRangeFails
  <2>1. /\ pc = "callback" /\ pc' = "dot" /\ err' = err /\ result' = result
        /\ range = "later" /\ range' = "failed"
        /\ UNCHANGED <<msg, lines, size, rest, cut, strhack, purge>>
    BY <1>11 DEF LaterRangeFails, Goto, request
  <2>2. lines # Retr
    BY <2>1 DEF AnswerInv
  <2>3. ASSUME cut = "fine", ~err PROVE Complete'
    <3>1. told' = told \o EndLine
      BY <1>11, <2>3, SayTwoIs DEF LaterRangeFails, EndLine
    <3>2. Telling
      BY <2>1, <2>3 DEF AnswerInv
    <3>3. CASE purge
      <4>1. NoDotLine => CutShort(told)
        BY <3>2, <3>3 DEF Telling
      <4>2. NoDotLine' => \E t : CutShort(t)' /\ told' = t \o EndLine
        BY <1>3, <2>1, <3>1, <4>1
      <4> QED BY <2>1, <3>3, <4>2 DEF Complete
    <3>4. CASE ~purge /\ rest = <<>>
      <4>1. told' = (OkLine \o Stuff(msg)) \o EndLine
        BY <2>3, <3>1, <3>2, <3>4, AllTold
      <4> QED BY <2>1, <3>4, <4>1 DEF Complete
    <3>5. CASE ~purge /\ rest # <<>>
      BY <2>1, <2>2, <3>5 DEF Complete, StoppedShort
    <3> QED BY <3>3, <3>4, <3>5
  <2> QED BY <1>3, <2>1, <2>2, <2>3 DEF AnswerInv
<1> QED
  BY <1>1, <1>2, <1>4, <1>5, <1>6, <1>7, <1>8, <1>9, <1>10, <1>11 DEF Next

-----------------------------------------------------------------------------
(* Where the client sees the end *)

ClearOf(w) == \A i : ~DotAt(w, i)

LEMMA EndPatternIs ==
  ASSUME NEW S, NEW s \in Seq(S), NEW i
  PROVE  i \in Ends(s) <=>
           /\ i \in 1 .. Len(s) - 4
           /\ s[i] = Cr /\ s[i + 1] = Lf /\ s[i + 2] = Dot /\ s[i + 3] = Cr /\ s[i + 4] = Lf
<1> DEFINE a == Crlf \o <<Dot>>
           c == a \o Crlf
<1>1. c \in Seq(Byte) /\ Len(c) = 5 /\ c[1] = Cr /\ c[2] = Lf /\ c[3] = Dot /\ c[4] = Cr /\ c[5] = Lf
  <2>1. Cr \in Byte /\ Lf \in Byte /\ Dot \in Byte
    BY Bytes
  <2>2. <<Cr, Lf>> \o <<Dot>> = <<Cr, Lf, Dot>>
    BY <2>1, TwoOne
  <2>3. a = <<Cr, Lf, Dot>>
    BY <2>2 DEF Crlf
  <2>4. a \in Seq(Byte) /\ Len(a) = 3 /\ a[1] = Cr /\ a[2] = Lf /\ a[3] = Dot
    <3> HIDE DEF a
    <3> QED BY <2>1, <2>3
  <2> DEFINE b == Crlf
  <2>5. b \in Seq(Byte) /\ Len(b) = 2 /\ b[1] = Cr /\ b[2] = Lf
    BY Bytes DEF Crlf
  <2>6. Joins(Byte, a, b, c)
    <3> HIDE DEF a
    <3> QED BY <2>4, <2>5, JoinsIs
  <2> HIDE DEF a, b, c
  <2>7. c \in Seq(Byte) /\ Len(c) = 3 + 2
    BY <2>4, <2>5, <2>6 DEF Joins
  <2>8. c[1] = a[1] /\ c[2] = a[2] /\ c[3] = a[3]
    BY <2>4, <2>6 DEF Joins
  <2>9. c[3 + 1] = b[1] /\ c[3 + 2] = b[2]
    BY <2>4, <2>5, <2>6 DEF Joins
  <2>10. 3 + 1 = 4 /\ 3 + 2 = 5
    OBVIOUS
  <2> QED BY <2>4, <2>5, <2>7, <2>8, <2>9, <2>10
<1>2. Ends(s) = Matches(c, s)
  BY DEF Ends
<1> HIDE DEF c
<1>3. i \in Matches(c, s) <=>
        /\ i \in 1 .. Len(s) - Len(c) + 1
        /\ \A k \in 1 .. Len(c) : s[i + k - 1] = c[k]
  <2>1. c \in Seq(Byte)
    BY <1>1
  <2> QED BY <2>1, MatchesIs
<1>4. Len(s) - Len(c) + 1 = Len(s) - 4
  BY <1>1
<1>5. (\A k \in 1 .. Len(c) : s[i + k - 1] = c[k]) <=>
        /\ s[i + 1 - 1] = c[1] /\ s[i + 2 - 1] = c[2] /\ s[i + 3 - 1] = c[3]
        /\ s[i + 4 - 1] = c[4] /\ s[i + 5 - 1] = c[5]
  <2>1. 1 .. Len(c) = {1, 2, 3, 4, 5}
    BY <1>1
  <2> QED BY <2>1
<1>6. i \in 1 .. Len(s) - 4 =>
        i + 1 - 1 = i /\ i + 2 - 1 = i + 1 /\ i + 3 - 1 = i + 2 /\ i + 4 - 1 = i + 3 /\ i + 5 - 1 = i + 4
  OBVIOUS
<1> QED
  BY <1>1, <1>2, <1>3, <1>4, <1>5, <1>6

(* What ends with a line and has no dot line ends, to the client, where it   *)
(* does: at the last line                                                  *)
LEMMA EndsThere ==
  ASSUME NEW w \in Seq(Symbol), ClearOf(w), EndsLine(w)
  PROVE  Len(w \o EndLine) = Len(w) + 3 /\ Ends(w \o EndLine) = {Len(w) - 1}
<1> DEFINE x == w \o EndLine
           n == Len(w)
<1>1. /\ x \in Seq(Symbol) /\ Len(x) = n + 3 /\ n \in Nat
      /\ \A i \in 1 .. n : x[i] = w[i]
      /\ x[n + 1] = Dot /\ x[n + 2] = Cr /\ x[n + 3] = Lf
  <2> DEFINE e == EndLine
  <2>1. e \in Seq(Symbol) /\ Len(e) = 3 /\ e[1] = Dot /\ e[2] = Cr /\ e[3] = Lf
    BY EndLineIs
  <2> HIDE DEF e
  <2>2. /\ w \o e \in Seq(Symbol) /\ Len(w \o e) = n + Len(e) /\ n \in Nat
        /\ \A i \in 1 .. n : (w \o e)[i] = w[i]
        /\ \A i \in 1 .. Len(e) : (w \o e)[n + i] = e[i]
    BY <2>1, Join
  <2>3. x = w \o e
    BY DEF e
  <2> HIDE DEF x
  <2>4. \A i \in 1 .. 3 : x[n + i] = e[i]
    BY <2>1, <2>2, <2>3
  <2> QED BY <2>1, <2>2, <2>3, <2>4
<1> HIDE DEF x
<1>2. n >= 2 /\ w[n - 1] = Cr /\ w[n] = Lf
  BY DEF EndsLine
<1>3. Dot # Cr /\ Dot # Lf /\ Cr # Lf
  BY Bytes
<1>4. n - 1 \in Ends(x)
  <2>1. /\ n - 1 \in 1 .. Len(x) - 4 /\ (n - 1) + 1 = n /\ (n - 1) + 2 = n + 1 /\ (n - 1) + 3 = n + 2
        /\ (n - 1) + 4 = n + 3 /\ n - 1 \in 1 .. n /\ n \in 1 .. n
    BY <1>1, <1>2
  <2>2. x[n - 1] = Cr /\ x[n] = Lf
    BY <1>1, <1>2, <2>1
  <2> QED BY <1>1, <2>1, <2>2, EndPatternIs
<1>5. ASSUME NEW i \in Ends(x) PROVE i = n - 1
  <2>1. /\ i \in 1 .. Len(x) - 4
        /\ x[i] = Cr /\ x[i + 1] = Lf /\ x[i + 2] = Dot /\ x[i + 3] = Cr /\ x[i + 4] = Lf
    BY <1>1, <1>5, EndPatternIs
  <2>2. i \in Nat /\ i >= 1 /\ i <= n - 1
    BY <1>1, <2>1
  <2>3. ASSUME i <= n - 3 PROVE FALSE
    <3>1. i \in 1 .. n - 3 /\ i \in 1 .. n /\ i + 1 \in 1 .. n /\ i + 2 \in 1 .. n /\ i + 3 \in 1 .. n
      BY <1>1, <2>2, <2>3
    <3>2. DotAt(w, i)
      BY <1>1, <2>1, <3>1 DEF DotAt
    <3> QED BY <3>2 DEF ClearOf
  <2>4. ASSUME i = n - 2 PROVE FALSE
    <3>1. i + 3 = n + 1
      BY <1>1, <2>4
    <3> QED BY <1>1, <1>3, <2>1, <3>1
  <2> QED BY <1>1, <2>2, <2>3, <2>4
<1> QED
  BY <1>1, <1>4, <1>5 DEF x

LEMMA ClearAppend ==
  ASSUME NEW w \in Seq(Symbol), NEW x \in Symbol, ClearOf(w), ~(EndsDot(w) /\ x = Cr)
  PROVE  ClearOf(Append(w, x))
<1> DEFINE v == Append(w, x)
           n == Len(w)
<1>1. v \in Seq(Symbol) /\ Len(v) = n + 1 /\ n \in Nat /\ v[n + 1] = x /\ \A i \in 1 .. n : v[i] = w[i]
  BY Longer
<1> HIDE DEF v
<1>2. ASSUME NEW i, DotAt(v, i) PROVE FALSE
  <2>1. i \in 1 .. n - 2 /\ i \in Int /\ n \in Int
    BY <1>1, <1>2 DEF DotAt
  <2>2. i \in 1 .. n /\ i + 1 \in 1 .. n /\ i + 2 \in 1 .. n
    BY <2>1
  <2>3. w[i] = Cr /\ w[i + 1] = Lf /\ w[i + 2] = Dot
    BY <1>1, <1>2, <2>2 DEF DotAt
  <2>4. CASE i = n - 2
    <3>1. i + 1 = n - 1 /\ i + 2 = n /\ i + 3 = n + 1 /\ n >= 3
      BY <2>1, <2>4
    <3>2. EndsDot(w)
      BY <2>3, <2>4, <3>1 DEF EndsDot
    <3>3. x = Cr
      BY <1>1, <1>2, <3>1 DEF DotAt
    <3> QED BY <3>2, <3>3
  <2>5. CASE i # n - 2
    <3>1. i \in 1 .. n - 3 /\ i + 3 \in 1 .. n
      BY <2>1, <2>5
    <3>2. DotAt(w, i)
      BY <1>1, <1>2, <2>3, <3>1 DEF DotAt
    <3> QED BY <3>2 DEF ClearOf
  <2> QED BY <2>4, <2>5
<1> QED
  BY <1>2 DEF ClearOf, v

(* The first line does not make a dot line of what follows                  *)
LEMMA OkEnds ==
  ASSUME NEW u \in Seq(Byte), u # <<>> => u[1] # Dot
  PROVE  LET w == OkLine \o Stuff(u) IN
         /\ EndsDot(w) => EndsDot(u)
         /\ EndsDot(u) => w[Len(w)] = Dot
         /\ EndsLine(u) => EndsLine(w)
<1> DEFINE t == Stuff(u)
           w == OkLine \o t
           n == Len(u)
           m == Len(t)
<1>1. t \in Seq(Byte) /\ EndsAs(t, u) /\ n \in Nat
  BY StuffIs, StuffEnds
<1> HIDE DEF t
<1>2. /\ m \in Nat /\ m >= n
      /\ n >= 1 => t[m] = u[n]
      /\ n >= 2 => t[m - 1] = u[n - 1]
      /\ n >= 3 => t[m - 2] = IF DotAt(u, n - 3) THEN Dot ELSE u[n - 2]
      /\ n <= 3 => t = u
      /\ n <= 3 => m = n
  <2>1. n <= 3 => t = u
    BY <1>1 DEF EndsAs
  <2>2. n <= 3 => m = n
    BY <2>1
  <2> QED BY <1>1, <2>1, <2>2 DEF EndsAs
<1>3. /\ w \in Seq(Symbol) /\ Len(w) = 3 + m
      /\ w[1] = Ok /\ w[2] = Cr /\ w[3] = Lf
      /\ \A i \in 1 .. m : w[3 + i] = t[i]
  <2> DEFINE o == OkLine
  <2>1. o \in Seq(Symbol) /\ Len(o) = 3 /\ o[1] = Ok /\ o[2] = Cr /\ o[3] = Lf
    BY OkLineIs
  <2>2. t \in Seq(Symbol)
    BY <1>1, AreSymbols
  <2>3. w = o \o t
    OBVIOUS
  <2> HIDE DEF o, w
  <2>4. /\ w \in Seq(Symbol) /\ Len(w) = Len(o) + m
        /\ \A i \in 1 .. Len(o) : w[i] = o[i]
        /\ \A i \in 1 .. m : w[Len(o) + i] = t[i]
    <3>1. Joins(Symbol, o, t, w)
      BY <2>1, <2>2, <2>3, JoinsIs
    <3> QED BY <3>1 DEF Joins
  <2> QED BY <2>1, <2>4
<1> HIDE DEF w
<1>4. Dot # Cr /\ Dot # Lf /\ Cr # Lf
  BY Bytes
<1>5. m >= 1 => w[3 + m] = t[m]
  BY <1>2, <1>3, SMTT(30)
<1>6. m >= 2 => w[(3 + m) - 1] = t[m - 1]
  <2> SUFFICES ASSUME m >= 2 PROVE w[(3 + m) - 1] = t[m - 1]
    OBVIOUS
  <2>1. m - 1 \in 1 .. m /\ 3 + (m - 1) = (3 + m) - 1
    BY <1>2
  <2> QED BY <1>3, <2>1
<1>7. m >= 3 => w[(3 + m) - 2] = t[m - 2]
  <2> SUFFICES ASSUME m >= 3 PROVE w[(3 + m) - 2] = t[m - 2]
    OBVIOUS
  <2>1. m - 2 \in 1 .. m /\ 3 + (m - 2) = (3 + m) - 2
    BY <1>2
  <2> QED BY <1>3, <2>1
<1>8. EndsLine(u) => EndsLine(w)
  <2> SUFFICES ASSUME EndsLine(u) PROVE EndsLine(w)
    OBVIOUS
  <2>1. n >= 2 /\ u[n - 1] = Cr /\ u[n] = Lf
    BY DEF EndsLine
  <2>2. m >= 2 /\ m >= 1 /\ n >= 1 /\ 3 + m >= 2
    BY <1>1, <1>2, <2>1
  <2>3. w[(3 + m) - 1] = Cr /\ w[3 + m] = Lf
    BY <1>2, <1>5, <1>6, <2>1, <2>2
  <2> QED BY <1>3, <2>2, <2>3 DEF EndsLine
<1>9. EndsDot(u) => w[Len(w)] = Dot
  <2> SUFFICES ASSUME EndsDot(u) PROVE w[3 + m] = Dot
    BY <1>3
  <2>1. n >= 3 /\ u[n] = Dot
    BY DEF EndsDot
  <2>2. m >= 1 /\ n >= 1
    BY <1>1, <1>2, <2>1
  <2> QED BY <1>2, <1>5, <2>1, <2>2
<1>10. EndsDot(w) => EndsDot(u)
  <2> SUFFICES ASSUME EndsDot(w) PROVE EndsDot(u)
    OBVIOUS
  <2>1. w[(3 + m) - 2] = Cr /\ w[(3 + m) - 1] = Lf /\ w[3 + m] = Dot
    BY <1>3 DEF EndsDot
  <2>2. CASE n >= 3
    <3>1. m >= 3 /\ m >= 2 /\ m >= 1 /\ n >= 1 /\ n >= 2
      BY <1>1, <1>2, <2>2
    <3>2. u[n] = Dot /\ u[n - 1] = Lf /\ u[n - 2] = Cr
      BY <1>2, <1>4, <1>5, <1>6, <1>7, <2>1, <2>2, <3>1
    <3> QED BY <2>2, <3>2 DEF EndsDot
  <2>3. CASE n = 2
    <3>1. m = 2
      <4> HIDE DEF n, m
      <4>1. n <= 3
        BY <2>3
      <4> QED BY <1>2, <2>3, <4>1
    <3>2. (3 + m) - 2 = 3
      BY <3>1
    <3> QED BY <1>3, <1>4, <2>1, <3>2
  <2>4. CASE n = 1
    <3>1. m = 1 /\ t = u
      BY <1>2, <2>4
    <3>2. u[1] = Dot
      BY <1>5, <2>1, <3>1
    <3>3. u # <<>>
      <4>1. Len(<<>>) # 1
        OBVIOUS
      <4> QED BY <2>4, <4>1
    <3> QED BY <3>2, <3>3
  <2>5. CASE n = 0
    <3>1. m = 0 /\ 3 + m = 3
      BY <1>2, <2>5
    <3> QED BY <1>3, <1>4, <2>1, <3>1
  <2>6. n >= 3 \/ n = 2 \/ n = 1 \/ n = 0
    <3>1. n \in Nat
      BY <1>1
    <3> HIDE DEF n
    <3> QED BY <3>1
  <2> QED BY <2>2, <2>3, <2>4, <2>5, <2>6
<1> QED
  BY <1>8, <1>9, <1>10 DEF w, t

(* What is stuffed has no line of a single dot                              *)
LEMMA StuffedClear ==
  ASSUME NEW u \in Seq(Byte), u # <<>> => u[1] # Dot
  PROVE  ClearOf(OkLine \o Stuff(u))
<1> DEFINE Fine(v) == (v # <<>> => v[1] # Dot) => ClearOf(OkLine \o Stuff(v))
           T == {v \in Seq(Byte) : Fine(v)}
<1>1. <<>> \in T
  <2>1. OkLine \in Seq(Symbol) /\ Len(OkLine) = 3
    BY OkLineIs
  <2>2. OkLine \o Stuff(<<>>) = OkLine
    <3> DEFINE k == OkLine
    <3>1. k \in Seq(Symbol)
      BY <2>1
    <3> HIDE DEF k
    <3>2. k \o <<>> = k
      BY <3>1
    <3> QED BY <3>2, StuffNone DEF k
  <2>3. ClearOf(OkLine)
    <3>1. ASSUME NEW i, DotAt(OkLine, i) PROVE FALSE
      <4>1. i \in 1 .. Len(OkLine) - 3
        BY <3>1 DEF DotAt
      <4> QED BY <2>1, <4>1
    <3> QED BY <3>1 DEF ClearOf
  <2>4. Fine(<<>>)
    <3>1. ClearOf(OkLine \o Stuff(<<>>))
      BY <2>2, <2>3, Zenon
    <3> QED BY <3>1
  <2> HIDE DEF Fine
  <2>5. <<>> \in Seq(Byte)
    OBVIOUS
  <2> QED BY <2>4, <2>5
<1>2. ASSUME NEW v \in Seq(Byte), NEW x \in Byte, v \in T
      PROVE  Append(v, x) \in T
  <2> DEFINE w == Append(v, x)
             t == Stuff(v)
             o == OkLine
             y == o \o t
             a == Adds(v, x)
  <2>1. /\ w \in Seq(Byte) /\ Len(w) = Len(v) + 1 /\ Len(v) \in Nat /\ \A i \in 1 .. Len(v) : w[i] = v[i]
    BY Longer
  <2>2. ASSUME w # <<>> => w[1] # Dot PROVE v # <<>> => v[1] # Dot
    <3> SUFFICES ASSUME v # <<>> PROVE v[1] # Dot
      OBVIOUS
    <3> HIDE DEF w
    <3>1. Len(v) # 0
      OBVIOUS
    <3>2. w # <<>>
      <4>1. Len(<<>>) = 0
        OBVIOUS
      <4> QED BY <2>1, <4>1
    <3>3. 1 \in 1 .. Len(v)
      BY <2>1, <3>1
    <3> QED BY <2>1, <2>2, <3>2, <3>3
  <2>3. t \in Seq(Symbol) /\ a \in Seq(Symbol) /\ o \in Seq(Symbol) /\ x \in Symbol /\ Dot \in Symbol
    <3>1. t \in Seq(Byte) /\ a \in Seq(Byte) /\ Dot \in Byte
      BY StuffIs, AddsType, Bytes
    <3> QED BY <3>1, AreSymbols, OkLineIs DEF Symbol
  <2>4. Stuff(w) = t \o a
    BY StuffAppend
  <2>5. ASSUME v # <<>> => v[1] # Dot PROVE ClearOf(o \o Stuff(w))
    <3>1. ClearOf(y)
      BY <1>2, <2>5
    <3>2. (EndsDot(y) => EndsDot(v)) /\ (EndsDot(v) => y[Len(y)] = Dot)
      BY <2>5, OkEnds
    <3> HIDE DEF w, t, o
    <3>3. y \in Seq(Symbol)
      BY <2>3, Join
    <3>4. o \o Stuff(w) = y \o a
      <4> HIDE DEF a
      <4>1. (o \o t) \o a = o \o (t \o a)
        BY <2>3, Associates, SMTT(30)
      <4> QED BY <2>4, <4>1, Zenon
    <3> HIDE DEF y
    <3>5. CASE EndsDot(v) /\ x = Cr
      <4> DEFINE z == Append(y, Dot)
      <4>1. a = <<Dot, x>>
        BY <3>5 DEF Adds
      <4>2. y \o <<Dot, x>> = Append(z, x)
        BY <2>3, <3>3
      <4>3. /\ z \in Seq(Symbol) /\ Len(z) = Len(y) + 1 /\ Len(y) \in Nat /\ z[Len(y) + 1] = Dot
            /\ \A i \in 1 .. Len(y) : z[i] = y[i]
        BY <2>3, <3>3, Longer
      <4>4. Dot # Cr /\ Dot # Lf
        BY Bytes
      <4>5. ClearOf(z)
        BY <2>3, <3>1, <3>3, <4>4, ClearAppend
      <4> HIDE DEF z
      <4>6. ~EndsDot(z)
        <5> SUFFICES ASSUME EndsDot(z) PROVE FALSE
          OBVIOUS
        <5>1. Len(z) >= 3 /\ z[Len(z) - 1] = Lf
          BY DEF EndsDot
        <5>2. Len(z) - 1 = Len(y) /\ Len(y) \in 1 .. Len(y)
          BY <4>3, <5>1
        <5>3. z[Len(y)] = y[Len(y)]
          BY <4>3, <5>2
        <5> QED BY <3>2, <3>5, <4>4, <5>1, <5>2, <5>3
      <4>7. ClearOf(Append(z, x))
        BY <2>3, <4>3, <4>5, <4>6, ClearAppend
      <4> QED BY <3>4, <4>1, <4>2, <4>7
    <3>6. CASE ~(EndsDot(v) /\ x = Cr)
      <4>1. a = <<x>>
        BY <3>6 DEF Adds
      <4>2. y \o <<x>> = Append(y, x)
        BY <2>3, <3>3
      <4>3. ClearOf(Append(y, x))
        BY <2>3, <3>1, <3>2, <3>3, <3>6, ClearAppend
      <4> QED BY <3>4, <4>1, <4>2, <4>3
    <3> QED BY <3>5, <3>6
  <2> QED BY <2>1, <2>2, <2>5
<1> HIDE DEF T
<1>3. Seq(Byte) \subseteq T
  BY <1>1, <1>2, SeqInduction
<1> QED
  BY <1>3 DEF T

-----------------------------------------------------------------------------
(* What holds of every behaviour: the pieces are the message, in order, and *)
(* what is told is what has been sent or is being sent, until an error      *)
THEOREM DeliveryInvariant == Spec => [](SendInv /\ AnswerInv /\ TopInv)
<1>1. Init => SendInv /\ AnswerInv /\ TopInv
  BY SendInvInit, AnswerInit, TopInit
<1>2. SendInv /\ AnswerInv /\ TopInv /\ [Next]_vars => (SendInv /\ AnswerInv /\ TopInv)'
  BY SendInvNext, AnswerNext, TopNext
<1> QED
  BY <1>1, <1>2, PTL DEF Spec

-----------------------------------------------------------------------------
(* Types *)

LEMMA KeptElement ==
  ASSUME NEW l
  PROVE  l \in Kept <=> l \in Seq(Byte) /\ Len(l) \in {0, 3}
<1>1. ASSUME l \in Kept PROVE l \in Seq(Byte) /\ Len(l) \in {0, 3}
  <2>1. PICK n \in {0, 3} : l \in [1 .. n -> Byte]
    BY <1>1 DEF Kept
  <2>2. n \in Nat
    BY <2>1
  <2>3. l \in Seq(Byte) /\ Len(l) = n
    <3>1. l = [i \in 1 .. n |-> l[i]] /\ \A i \in 1 .. n : l[i] \in Byte
      BY <2>1
    <3>2. [i \in 1 .. n |-> l[i]] \in Seq(Byte) /\ Len([i \in 1 .. n |-> l[i]]) = n
      BY <2>2, <3>1
    <3> QED BY <3>1, <3>2
  <2> QED BY <2>1, <2>3
<1>2. ASSUME l \in Seq(Byte), Len(l) \in {0, 3} PROVE l \in Kept
  <2>1. l \in [1 .. Len(l) -> Byte]
    BY <1>2, LenProperties
  <2> QED BY <1>2, <2>1 DEF Kept
<1> QED
  BY <1>1, <1>2

LEMMA KeepLastType ==
  ASSUME NEW s \in Seq(Byte), Len(s) >= 1, NEW l \in KeepLast(s)
  PROVE  l \in Kept
<1>1. CASE Len(s) >= 3
  <2>1. l = LastThree(s)
    BY <1>1 DEF KeepLast
  <2> QED BY <1>1, <2>1, LastThreeIs, KeptElement
<1>2. CASE Len(s) < 3
  <2>1. PICK m \in Before : l = IF m = <<>> THEN <<>> ELSE LastThree(m \o s)
    <3>1. KeepLast(s) = {IF m = <<>> THEN <<>> ELSE LastThree(m \o s) : m \in Before}
      BY <1>2 DEF KeepLast
    <3> QED BY <3>1
  <2>2. CASE m = <<>>
    <3>1. l = <<>> /\ <<>> \in Seq(Byte) /\ Len(<<>>) = 0
      BY <2>1, <2>2
    <3> QED BY <3>1, KeptElement
  <2>3. CASE m # <<>>
    <3>1. m \in Byte \X Byte
      BY <2>3, MemoryBefore
    <3>2. m \in Seq(Byte) /\ Len(m) = 2
      <4>1. PICK a \in Byte, b \in Byte : m = <<a, b>>
        BY <3>1
      <4>2. <<a, b>> \in Seq(Byte) /\ Len(<<a, b>>) = 2
        OBVIOUS
      <4> QED BY <4>1, <4>2
    <3> DEFINE t == m \o s
    <3>3. t \in Seq(Byte) /\ Len(t) = 2 + Len(s)
      <4>1. m \o s \in Seq(Byte) /\ Len(m \o s) = Len(m) + Len(s)
        BY <3>2, Join
      <4> QED BY <3>2, <4>1
    <3>4. l = LastThree(t)
      BY <2>1, <2>3
    <3> HIDE DEF t
    <3>5. Len(t) >= 3
      BY <3>3
    <3> QED BY <3>3, <3>4, <3>5, LastThreeIs, KeptElement
  <2> QED BY <2>2, <2>3
<1>3. Len(s) \in Nat
  OBVIOUS
<1> QED
  BY <1>1, <1>2, <1>3

(* A line end across the cut belongs to the header, and is taken off        *)
LEMMA CutHasLine ==
  ASSUME NEW last \in Kept, NEW s \in Seq(Byte), Len(last \o FirstThree(s)) = 6,
         NEW k \in {2, 3}, k \in Matches(BlankLine, last \o FirstThree(s))
  PROVE  Lines(s) >= 1
<1> DEFINE t == FirstThree(s)
           n == IF Len(s) < 3 THEN Len(s) ELSE 3
           d == last \o t
<1>1. last \in Seq(Byte) /\ Len(last) \in {0, 3}
  BY KeptElement
<1>2. t \in Seq(Byte) /\ Len(t) = n /\ n \in 0 .. 3 /\ n <= Len(s) /\ \A i \in 1 .. n : t[i] = s[i]
  <2>1. n \in 0 .. 3 /\ n \in Int /\ 1 <= n + 1 /\ n <= Len(s) /\ n - 1 + 1 = n
    <3> DEFINE c == Len(s)
    <3>1. c \in Nat
      OBVIOUS
    <3> HIDE DEF c
    <3>2. n = IF c < 3 THEN c ELSE 3
      BY DEF c
    <3> HIDE DEF n
    <3>3. n \in 0 .. 3 /\ n <= c
      BY <3>1, <3>2
    <3>4. n \in 0 .. 3 /\ n \in Int /\ 1 <= n + 1 /\ n <= c /\ n - 1 + 1 = n
      BY <3>1, <3>3
    <3> QED BY <3>4 DEF c
  <2>2. t = SubSeq(s, 1, n)
    BY DEF FirstThree
  <2> HIDE DEF n, t
  <2>3. t \in Seq(Byte) /\ Len(t) = n /\ \A i \in 1 .. n : t[i] = s[1 + i - 1]
    BY <2>1, <2>2, StretchIs
  <2>4. \A i \in 1 .. n : 1 + i - 1 = i
    BY <2>1
  <2> QED BY <2>1, <2>3, <2>4
<1> HIDE DEF t, n
<1>3. /\ d \in Seq(Byte) /\ Len(d) = Len(last) + n
      /\ \A i \in 1 .. n : d[Len(last) + i] = t[i]
  BY <1>1, <1>2, Join
<1>4. d[k] = Cr /\ d[k + 1] = Lf /\ d[k + 2] = Cr /\ d[k + 3] = Lf /\ k \in Matches(BlankLine, d)
  <2>1. k \in Matches(BlankLine, d)
    BY DEF t
  <2> HIDE DEF d
  <2> QED BY <1>3, <2>1, BlankIs
<1>5. Len(d) = 6
  BY DEF t
<1> HIDE DEF d
<1>6. Len(last) = 3 /\ n = 3
  <2> DEFINE a == Len(last)
  <2>1. a \in {0, 3} /\ n \in 0 .. 3 /\ a + n = 6
    BY <1>1, <1>2, <1>3, <1>5
  <2> HIDE DEF a
  <2>2. a = 3 /\ n = 3
    BY <2>1
  <2> QED BY <2>2 DEF a
<1>7. d[4] = s[1] /\ d[5] = s[2] /\ d[6] = s[3]
  <2>1. d[3 + 1] = t[1] /\ d[3 + 2] = t[2] /\ d[3 + 3] = t[3]
    BY <1>3, <1>6
  <2>2. t[1] = s[1] /\ t[2] = s[2] /\ t[3] = s[3]
    BY <1>2, <1>6
  <2> QED BY <2>1, <2>2
<1>8. Matches(Crlf, s) # {}
  <2>1. CASE k = 2
    <3>1. s[1] = Cr /\ s[1 + 1] = Lf /\ 1 \in 1 .. Len(s) - 1
      BY <1>2, <1>4, <1>6, <1>7, <2>1
    <3> QED BY <3>1, CrlfIs
  <2>2. CASE k = 3
    <3>1. s[2] = Cr /\ s[2 + 1] = Lf /\ 2 \in 1 .. Len(s) - 1
      BY <1>2, <1>4, <1>6, <1>7, <2>2
    <3> QED BY <3>1, CrlfIs
  <2> QED BY <2>1, <2>2
<1>9. IsFiniteSet(Matches(Crlf, s))
  BY MatchesFinite
<1>10. Cardinality(Matches(Crlf, s)) \in Nat /\ Cardinality(Matches(Crlf, s)) # 0
  BY <1>8, <1>9, FS_CardinalityType, FS_EmptySet
<1> QED
  BY <1>10 DEF Lines

LEMMA LinesType ==
  ASSUME NEW s \in Seq(Byte)
  PROVE  Lines(s) \in Nat
BY MatchesFinite, FS_CardinalityType DEF Lines

LEMMA BodyLinesType ==
  ASSUME NEW last \in Kept, NEW s \in Seq(Byte), HeaderEnds(last, s)
  PROVE  BodyLines(last, s) \in Nat
<1> DEFINE d == last \o FirstThree(s)
           second == Len(d) = 6 /\ {2, 3} \cap Matches(BlankLine, d) # {}
           e == First(Matches(BlankLine, s)) + 4
           x == Lines(s)
           y == Lines(SubSeq(s, e, Len(s)))
<1>1. BodyLines(last, s) = IF HeaderCut(last, s) THEN x - IF second THEN 1 ELSE 0 ELSE y
  BY DEF BodyLines
<1>2. x \in Nat /\ (second => x >= 1)
  <2>1. ASSUME second PROVE x >= 1
    <3>1. PICK k \in {2, 3} : k \in Matches(BlankLine, d)
      BY <2>1
    <3> QED BY <2>1, <3>1, CutHasLine
  <2> QED BY <2>1, LinesType
<1>3. ASSUME ~HeaderCut(last, s) PROVE y \in Nat
  <2> DEFINE M == Matches(BlankLine, s)
             f == First(M)
  <2>1. M # {} /\ \A i \in M : i \in 1 .. Len(s) - 3
    BY <1>3, BlankIs DEF HeaderEnds
  <2>2. f \in M
    <3> HIDE DEF M
    <3>1. M \subseteq Nat
      BY <2>1
    <3> QED BY <2>1, <3>1, FirstLeast
  <2>3. f \in 1 .. Len(s) - 3
    BY <2>1, <2>2
  <2> HIDE DEF f, M
  <2>4. e = f + 4
    BY DEF f, M
  <2> HIDE DEF e
  <2>5. e \in Int /\ Len(s) \in Int /\ 1 <= e /\ e <= Len(s) + 1 /\ Len(s) <= Len(s)
    BY <2>3, <2>4
  <2>6. SubSeq(s, e, Len(s)) \in Seq(Byte)
    BY <2>5, StretchIs
  <2> QED BY <2>6, LinesType
<1> HIDE DEF second, x, y
<1> QED
  BY <1>1, <1>2, <1>3

Hacked == [header_done : BOOLEAN, current_lines : Nat, last3 : Kept, last4 : Kept]

(* Strings to be sent: none is empty                                        *)
Full(q) ==
  \/ q = <<>>
  \/ \E a \in Seq(Symbol) : Len(a) >= 1 /\ q = <<a>>
  \/ \E a \in Seq(Symbol), b \in Seq(Symbol) : Len(a) >= 1 /\ Len(b) >= 1 /\ q = <<a, b>>

(* What the other invariants do not say                                     *)
Types ==
  /\ pc \in {"start", "answered", "callback", "dot", "over"}
  /\ result \in {"none", "ok", "failed"}
  /\ range \in {"first", "later", "failed"}
  /\ purge \in BOOLEAN
  /\ partial \in 0 .. MaxPartial
  /\ strhack \in Hacked
  /\ Full(queue)
  /\ queue # <<>> => rc < Len(Head(queue))

LEMMA FullIs ==
  ASSUME NEW q, Full(q), q # <<>>
  PROVE  q \in Seq(Seq(Symbol)) /\ Len(Head(q)) \in Nat /\ Len(Head(q)) >= 1 /\ Full(Tail(q))
<1>1. ASSUME NEW a \in Seq(Symbol), Len(a) >= 1, q = <<a>>
      PROVE  q \in Seq(Seq(Symbol)) /\ Len(Head(q)) \in Nat /\ Len(Head(q)) >= 1 /\ Full(Tail(q))
  <2>1. <<a>> \in Seq(Seq(Symbol)) /\ Head(<<a>>) = a /\ Tail(<<a>>) = <<>> /\ Len(a) \in Nat
    OBVIOUS
  <2> QED BY <1>1, <2>1 DEF Full
<1>2. ASSUME NEW a \in Seq(Symbol), NEW b \in Seq(Symbol), Len(a) >= 1, Len(b) >= 1, q = <<a, b>>
      PROVE  q \in Seq(Seq(Symbol)) /\ Len(Head(q)) \in Nat /\ Len(Head(q)) >= 1 /\ Full(Tail(q))
  <2>1. <<a, b>> \in Seq(Seq(Symbol)) /\ Head(<<a, b>>) = a /\ Len(a) \in Nat
    OBVIOUS
  <2>2. Tail(<<a, b>>) = <<b>>
    OBVIOUS
  <2>3. Full(<<b>>)
    BY <1>2 DEF Full
  <2> QED BY <1>2, <2>1, <2>2, <2>3
<1> QED
  BY <1>1, <1>2, Zenon DEF Full

LEMMA SayTypes ==
  ASSUME queue = <<>>, rc = 0, rc' = rc, NEW strings, Full(strings), Say(strings)
  PROVE  Full(queue') /\ (queue' # <<>> => rc' < Len(Head(queue')))
<1>1. queue' = <<>> \/ queue' = strings
  BY DEF Say
<1>2. Full(queue')
  BY <1>1 DEF Full
<1>3. ASSUME queue' # <<>> PROVE 0 < Len(Head(queue'))
  BY <1>2, <1>3, FullIs
<1> QED
  BY <1>2, <1>3

LEMMA TopCountType ==
  ASSUME strhack \in Hacked, NEW s \in Seq(Byte)
  PROVE  TopCount(s) \in Hacked
<1> DEFINE a == TopCount(s)
           x == Lines(s)
           y == BodyLines(strhack.last3, s)
<1>1. a = IF strhack.header_done THEN [strhack EXCEPT !.current_lines = @ + x]
          ELSE IF HeaderEnds(strhack.last3, s) THEN [strhack EXCEPT !.header_done = TRUE, !.current_lines = y]
          ELSE strhack
  BY DEF TopCount
<1>2. x \in Nat
  BY LinesType
<1>3. HeaderEnds(strhack.last3, s) => y \in Nat
  BY BodyLinesType DEF Hacked
<1> HIDE DEF a, x, y
<1>4. a \in Hacked
  <2>1. CASE strhack.header_done
    BY <1>1, <1>2, <2>1 DEF Hacked
  <2>2. CASE ~strhack.header_done /\ HeaderEnds(strhack.last3, s)
    <3>1. a = [strhack EXCEPT !.header_done = TRUE, !.current_lines = y]
      BY <1>1, <2>2
    <3> QED BY <1>3, <2>2, <3>1 DEF Hacked
  <2>3. CASE ~strhack.header_done /\ ~HeaderEnds(strhack.last3, s)
    BY <1>1, <2>3
  <2> QED BY <2>1, <2>2, <2>3
<1> QED
  BY <1>4 DEF a

LEMMA PieceTypes ==
  ASSUME strhack \in Hacked, purge \in BOOLEAN, NEW s \in Seq(Byte), Len(s) >= 1, RetrPiece(s) \/ TopPiece(s)
  PROVE  strhack' \in Hacked /\ purge' \in BOOLEAN /\ \E strings : Full(strings) /\ Say(strings)
<1>1. CASE RetrPiece(s)
  <2> DEFINE out == dothack(strhack.last4, s)
  <2>1. out \in Seq(Byte) /\ Len(out) >= Len(s)
    BY dothackType
  <2>2. Say(<<out>>) /\ purge' = purge
    BY <1>1 DEF RetrPiece
  <2>3. PICK l4 \in KeepLast(out) : strhack' = [strhack EXCEPT !.last4 = l4]
    BY <1>1 DEF RetrPiece
  <2> HIDE DEF out
  <2>4. Len(out) >= 1 /\ out \in Seq(Symbol)
    BY <2>1, AreSymbols
  <2>5. l4 \in Kept
    BY <2>1, <2>4, KeepLastType
  <2>6. strhack' \in Hacked
    BY <2>3, <2>5 DEF Hacked
  <2>7. Full(<<out>>)
    BY <2>4 DEF Full
  <2> QED BY <2>2, <2>6, <2>7
<1>2. CASE TopPiece(s)
  <2> DEFINE a == TopCount(s)
             stop == check_stop(a.header_done, a.current_lines, lines)
             kept == IF stop THEN TopCut(s, a.current_lines, lines) ELSE s
             out == dothack(a.last4, kept)
  <2>1. a \in Hacked
    BY TopCountType
  <2>2. PICK k3 \in KeepLast(s), k4 \in KeepLast(out) :
          strhack' = [a EXCEPT !.last3 = IF strhack.header_done THEN @ ELSE k3, !.last4 = k4]
    BY <1>2, Zenon DEF TopPiece
  <2>3. Say(IF stop THEN <<out, Crlf>> ELSE <<out>>) /\ purge' = stop
    BY <1>2, Zenon DEF TopPiece
  <2>4. stop \in BOOLEAN
    BY DEF check_stop
  <2> HIDE DEF a, stop
  <2>5. kept \in Seq(Byte) /\ Len(kept) >= 1
    BY TopCutType
  <2> HIDE DEF kept
  <2>6. out \in Seq(Byte) /\ Len(out) >= Len(kept)
    BY <2>5, dothackType
  <2> HIDE DEF out
  <2>7. Len(out) >= 1 /\ out \in Seq(Symbol) /\ Crlf \in Seq(Symbol) /\ Len(Crlf) >= 1
    BY <2>5, <2>6, AreSymbols, Bytes
  <2>8. k3 \in Kept /\ k4 \in Kept
    BY <2>6, <2>7, KeepLastType
  <2>9. strhack' \in Hacked
    <3> DEFINE m3 == IF strhack.header_done THEN a.last3 ELSE k3
    <3>1. strhack' = [a EXCEPT !.last3 = m3, !.last4 = k4]
      BY <2>2
    <3>2. m3 \in Kept
      BY <2>1, <2>8 DEF Hacked
    <3> HIDE DEF m3
    <3> QED BY <2>1, <2>8, <3>1, <3>2 DEF Hacked
  <2>10. Full(<<out>>) /\ Full(<<out, Crlf>>)
    BY <2>7 DEF Full
  <2>11. CASE stop
    <3>1. Say(<<out, Crlf>>)
      BY <2>3, <2>11, Zenon
    <3> QED BY <2>3, <2>4, <2>9, <2>10, <3>1
  <2>12. CASE ~stop
    <3>1. Say(<<out>>)
      BY <2>3, <2>12, Zenon
    <3> QED BY <2>3, <2>4, <2>9, <2>10, <3>1
  <2> QED BY <2>11, <2>12
<1> QED
  BY <1>1, <1>2

LEMMA TypesInit ==
  ASSUME Init
  PROVE  Types
<1>1. <<>> \in Kept
  <2>1. <<>> \in Seq(Byte) /\ Len(<<>>) = 0
    OBVIOUS
  <2> QED BY <2>1, KeptElement
<1>2. strhack \in Hacked
  BY <1>1 DEF Init, Hacked
<1> QED
  <2>1. partial \in 0 .. MaxPartial
    BY Requests DEF Init
  <2>2. Full(queue) /\ queue = <<>>
    BY DEF Init, Full
  <2> QED BY <1>2, <2>1, <2>2, Zenon DEF Init, Types

LEMMA TypesNext ==
  ASSUME SendInv, Types, [Next]_vars
  PROVE  Types'
<1>1. queue = <<>> => rc = 0
  BY DEF SendInv
<1>2. ASSUME UNCHANGED <<queue, rc>>
      PROVE  Full(queue') /\ (queue' # <<>> => rc' < Len(Head(queue')))
  BY <1>2 DEF Types
<1>3. Full(<<<<Ok>>, Crlf>>) /\ Full(<<<<Dot>>, Crlf>>)
  <2>1. /\ <<Ok>> \in Seq(Symbol) /\ <<Dot>> \in Seq(Symbol) /\ Crlf \in Seq(Symbol)
        /\ Len(<<Ok>>) = 1 /\ Len(<<Dot>>) = 1 /\ Len(Crlf) = 2
    <3>1. Ok \in Symbol /\ Dot \in Symbol
      BY Bytes DEF Symbol
    <3> QED BY <3>1, AreSymbols, Bytes
  <2>2. \A a, b : a \in Seq(Symbol) /\ b \in Seq(Symbol) /\ Len(a) >= 1 /\ Len(b) >= 1 => Full(<<a, b>>)
    BY Zenon DEF Full
  <2>3. 1 >= 1 /\ 2 >= 1
    OBVIOUS
  <2> QED BY <2>1, <2>2, <2>3, Zenon
<1>4. CASE Send
  <2>1. queue # <<>> /\ UNCHANGED <<pc, result, range, purge, strhack>> /\ rc \in Nat
    BY <1>4 DEF Send, SendInv, plugin
  <2>2. PICK n \in 1 .. Len(Head(queue)) - rc :
          IF n = Len(Head(queue)) THEN queue' = Tail(queue) /\ rc' = 0 /\ UNCHANGED partial
          ELSE partial < MaxPartial /\ partial' = partial + 1 /\ rc' = n /\ UNCHANGED queue
    BY <1>4 DEF Send
  <2>3. Len(Head(queue)) \in Nat /\ Full(Tail(queue)) /\ Full(queue)
    BY <2>1, FullIs DEF Types
  <2>4. CASE n = Len(Head(queue))
    <3>1. queue' = Tail(queue) /\ rc' = 0 /\ partial' = partial
      BY <2>2, <2>4
    <3>2. queue' # <<>> => 0 < Len(Head(queue'))
      <4>1. Full(queue')
        BY <2>3, <3>1
      <4>2. \A q : Full(q) /\ q # <<>> => Len(Head(q)) \in Nat /\ Len(Head(q)) >= 1
        BY FullIs
      <4>3. queue' # <<>> => Len(Head(queue')) \in Nat /\ Len(Head(queue')) >= 1
        BY <4>1, <4>2, Zenon
      <4> QED BY <4>3
    <3> QED BY <2>1, <2>3, <3>1, <3>2 DEF Types
  <2>5. CASE n # Len(Head(queue))
    <3>1. queue' = queue /\ rc' = n /\ partial' \in 0 .. MaxPartial
      BY <2>2, <2>5, Requests DEF Types
    <3>2. n < Len(Head(queue))
      BY <2>1, <2>3, <2>5
    <3> QED BY <2>1, <2>3, <3>1, <3>2 DEF Types
  <2> QED BY <2>4, <2>5
<1>5. CASE SendFails
  <2>1. queue' = <<>> /\ UNCHANGED <<pc, result, range, purge, strhack, partial>>
    BY <1>5 DEF SendFails, plugin
  <2> QED BY <2>1 DEF Types, Full
<1>6. CASE Answer
  <2>1. /\ queue = <<>> /\ rc' = rc /\ pc' = "answered" /\ Say(<<<<Ok>>, Crlf>>)
        /\ UNCHANGED <<result, range, purge, strhack, partial>>
    BY <1>6 DEF Answer, Goto, plugin
  <2>2. Full(queue') /\ (queue' # <<>> => rc' < Len(Head(queue')))
    BY <1>1, <1>3, <2>1, SayTypes
  <2> QED BY <2>1, <2>2 DEF Types
<1>7. CASE AnswerFails \/ Marshaller \/ Over
  <2>1. /\ UNCHANGED <<queue, rc, range, purge, strhack, partial>>
        /\ pc' \in {"callback", "over"} /\ result' \in {result, "ok", "failed"}
    BY <1>7 DEF AnswerFails, Marshaller, Over, Goto, plugin, socket
  <2> QED BY <1>2, <2>1 DEF Types
<1>8. CASE Piece
  <2>1. PICK n \in 1 .. Len(rest) : RetrPiece(SubSeq(rest, 1, n)) \/ TopPiece(SubSeq(rest, 1, n))
    BY <1>8 DEF Piece
  <2>2. queue = <<>> /\ rc' = rc /\ pc' = "callback" /\ UNCHANGED <<range, result, partial>>
    BY <1>8 DEF Piece, Goto
  <2> DEFINE s == SubSeq(rest, 1, n)
  <2>3. s \in Seq(Byte) /\ Len(s) >= 1 /\ (RetrPiece(s) \/ TopPiece(s))
    BY <2>1, PieceIs
  <2> HIDE DEF s
  <2>4. strhack' \in Hacked /\ purge' \in BOOLEAN /\ \E strings : Full(strings) /\ Say(strings)
    BY <2>3, PieceTypes DEF Types
  <2>5. Full(queue') /\ (queue' # <<>> => rc' < Len(Head(queue')))
    BY <1>1, <2>2, <2>4, SayTypes
  <2> QED BY <2>2, <2>4, <2>5 DEF Types
<1>9. CASE PluginEnds \/ LaterRangeFails \/ PluginFails
  <2>1. /\ queue = <<>> /\ rc' = rc /\ pc' = "dot" /\ Say(<<<<Dot>>, Crlf>>)
        /\ UNCHANGED <<purge, strhack, partial>>
        /\ range' \in {range, "failed"} /\ result' \in {result, "failed"}
    BY <1>9 DEF PluginEnds, LaterRangeFails, PluginFails, Goto, plugin
  <2>2. Full(queue') /\ (queue' # <<>> => rc' < Len(Head(queue')))
    BY <1>1, <1>3, <2>1, SayTypes
  <2> QED BY <2>1, <2>2 DEF Types
<1>10. CASE UNCHANGED vars
  BY <1>2, <1>10 DEF Types, vars, plugin, socket
<1>11. CASE RangeEnds
  <2>1. /\ UNCHANGED <<queue, rc, pc, result, purge, strhack, partial>> /\ range' = "later"
    BY <1>11 DEF RangeEnds, Goto, socket
  <2> QED BY <1>2, <2>1 DEF Types
<1> QED
  BY <1>4, <1>5, <1>6, <1>7, <1>8, <1>9, <1>10, <1>11 DEF Next

(* Type correctness of the answer: what is kept of a piece is nothing or     *)
(* three bytes, a line is counted once at most, and a call of send is never *)
(* asked to send nothing (tophack, dothack, senddata)                      *)
THEOREM TypeCorrect == Spec => []TypeOK
<1>1. Init => Types
  BY TypesInit
<1>2. SendInv /\ Types /\ [Next]_vars => Types'
  BY TypesNext
<1>3. SendInv /\ AnswerInv /\ TopInv /\ Types => TypeOK
  <2> SUFFICES ASSUME SendInv, AnswerInv, TopInv, Types PROVE TypeOK
    OBVIOUS
  <2>1. Symbol = Byte \cup {Ok}
    BY DEF Symbol
  <2>2. queue \in Seq(Seq(Symbol))
    <3>1. CASE queue = <<>>
      BY <3>1
    <3>2. CASE queue # <<>>
      BY <3>2, FullIs DEF Types
    <3> QED BY <3>1, <3>2
  <2>3. msg \in Message /\ told \in Seq(Symbol) /\ wire \in Seq(Symbol) /\ rc \in Nat /\ rest \in Seq(Byte) /\ err \in BOOLEAN
    BY DEF SendInv
  <2>4. queue # <<>> => ~err /\ rc < Len(Head(queue))
    BY DEF SendInv, Types
  <2>5. cut \in {"fine", "rough", "short"} /\ lines \in 0 .. MaxLines \cup {Retr} /\ size \in Size
    BY DEF AnswerInv, TopInv
  <2> QED BY <2>1, <2>2, <2>3, <2>4, <2>5, Zenon DEF TypeOK, Types, Hacked
<1> QED
  BY <1>1, <1>2, <1>3, DeliveryInvariant, PTL DEF Spec

-----------------------------------------------------------------------------
(* What the client gets *)

LEMMA SuccessSent ==
  ASSUME SendInv, Succeeded
  PROVE  wire = told /\ ~err /\ pc = "over"
<1>1. pc = "over" /\ result = "ok"
  BY DEF Succeeded
<1>2. ~err /\ queue = <<>> /\ rc = 0
  BY <1>1 DEF SendInv
<1>3. Sent(told, wire, queue)
  BY <1>2 DEF SendInv
<1>4. told = wire
  <2>1. \A a : <<>> # <<a>>
    OBVIOUS
  <2>2. \A a, b : <<>> # <<a, b>>
    OBVIOUS
  <2> QED BY <1>2, <1>3, <2>1, <2>2 DEF Sent
<1> QED
  BY <1>1, <1>2, <1>4

(* Whatever send returns, an answer that was given successfully has been    *)
(* sent to the last byte (senddata, sock_send)                             *)
THEOREM SentToTheEnd == Spec => []SuccessMeansSent
<1>1. SendInv /\ AnswerInv => SuccessMeansSent
  BY SuccessSent DEF SuccessMeansSent
<1> QED
  BY <1>1, DeliveryInvariant, PTL

LEMMA EndedThere ==
  ASSUME NEW u \in Seq(Byte), u[1] # Dot, EndsLine(u), NEW x, x = (OkLine \o Stuff(u)) \o EndLine
  PROVE  Ends(x) = {Len(x) - 4}
<1> DEFINE w == OkLine \o Stuff(u)
<1>1. EndsLine(w) /\ ClearOf(w)
  BY OkEnds, StuffedClear
<1>2. w \in Seq(Symbol)
  <2>1. Stuff(u) \in Seq(Symbol)
    BY StuffIs, AreSymbols
  <2> QED BY <2>1, OkLineIs, Join
<1> HIDE DEF w
<1>3. Len(w \o EndLine) = Len(w) + 3 /\ Ends(w \o EndLine) = {Len(w) - 1} /\ Len(w) \in Nat
  BY <1>1, <1>2, EndsThere
<1>4. x = w \o EndLine
  BY DEF w
<1>5. Len(x) - 4 = Len(w) - 1
  BY <1>3, <1>4
<1> QED
  BY <1>3, <1>4, <1>5

LEMMA MailIs ==
  ASSUME msg \in Message
  PROVE  msg \in Seq(Byte) /\ msg[1] # Dot /\ (Whole(msg) => EndsLine(msg))
<1>1. msg \in Seq(Byte) /\ msg[1] # Dot
  BY MessageSet, Mails
<1>2. ASSUME Whole(msg) PROVE EndsLine(msg)
  <2> DEFINE n == Len(msg)
  <2>1. n - 1 \in 1 .. n - 1 /\ msg[n - 1] = Cr /\ msg[(n - 1) + 1] = Lf /\ n \in Nat
    BY <1>1, <1>2, CrlfIs DEF Whole
  <2>2. n >= 2 /\ (n - 1) + 1 = n
    BY <2>1
  <2> QED BY <2>1, <2>2 DEF EndsLine
<1> QED
  BY <1>1, <1>2

(* A message cut anywhere has no line that begins with a dot if it had none *)
LEMMA CutPlain ==
  ASSUME msg \in Message, NoDotLine, NEW j \in 0 .. Len(msg)
  PROVE  LET v == Upto(j) \o Crlf IN
         /\ v \in Seq(Byte) /\ v[1] # Dot /\ EndsLine(v) /\ Stuff(v) = v
         /\ Len(v) = j + 2 /\ \A i \in 1 .. j : v[i] = msg[i]
         /\ \A i \in 1 .. Len(v) - 3 : ~(v[i] = Cr /\ v[i + 1] = Lf /\ v[i + 2] = Dot)
<1> DEFINE p == Upto(j)
           v == p \o Crlf
<1>1. p \in Seq(Byte) /\ Len(p) = j /\ \A i \in 1 .. j : p[i] = msg[i]
  BY UptoIs
<1>2. msg \in Seq(Byte) /\ msg[1] # Dot /\ Len(msg) \in Nat /\ j \in Nat /\ j <= Len(msg)
  <2>1. msg \in Seq(Byte) /\ msg[1] # Dot
    BY MailIs
  <2> QED BY <2>1
<1>3. Cr # Lf /\ Cr # Dot /\ Lf # Dot /\ Crlf \in Seq(Byte) /\ Len(Crlf) = 2
  BY Bytes
<1>4. Crlf[1] = Cr /\ Crlf[2] = Lf
  BY DEF Crlf
<1> HIDE DEF p
<1>5. /\ v \in Seq(Byte) /\ Len(v) = j + 2
      /\ \A i \in 1 .. j : v[i] = msg[i]
      /\ v[j + 1] = Cr /\ v[j + 2] = Lf
  <2>1. Joins(Byte, p, Crlf, v)
    BY <1>1, <1>3, JoinsIs
  <2> HIDE DEF v
  <2>2. 1 \in 1 .. Len(Crlf) /\ 2 \in 1 .. Len(Crlf)
    BY <1>3
  <2>3. v[Len(p) + 1] = Crlf[1] /\ v[Len(p) + 2] = Crlf[2]
    BY <2>1, <2>2 DEF Joins
  <2>4. \A i \in 1 .. j : v[i] = p[i]
    BY <1>1, <2>1 DEF Joins
  <2>5. v \in Seq(Byte) /\ Len(v) = j + 2
    BY <1>1, <1>3, <2>1 DEF Joins
  <2> QED BY <1>1, <1>4, <2>3, <2>4, <2>5
<1> HIDE DEF v
<1>6. v[1] # Dot
  <2>1. CASE j = 0
    BY <1>3, <1>5, <2>1
  <2>2. CASE j # 0
    <3>1. 1 \in 1 .. j
      BY <1>2, <2>2
    <3> QED BY <1>2, <1>5, <3>1
  <2> QED BY <2>1, <2>2
<1>7. EndsLine(v)
  <2>1. (j + 2) - 1 = j + 1 /\ j + 2 >= 2
    BY <1>2
  <2> QED BY <1>5, <2>1 DEF EndsLine
<1>8. ASSUME NEW i \in 1 .. Len(v) - 3, v[i] = Cr, v[i + 1] = Lf, v[i + 2] = Dot PROVE FALSE
  <2>1. i \in 1 .. (j + 2) - 3 /\ v[i] = Cr /\ v[i + 1] = Lf /\ v[i + 2] = Dot
    BY <1>5, <1>8
  <2>2. i \in 1 .. j - 1 /\ i \in 1 .. j /\ i + 1 \in 1 .. j
    BY <1>2, <2>1
  <2>3. CASE i = j - 1
    <3>1. i + 2 = j + 1
      BY <1>2, <2>3
    <3> QED BY <1>3, <1>5, <2>1, <3>1
  <2>4. CASE i # j - 1
    <3>1. i + 2 \in 1 .. j /\ i \in 1 .. Len(msg) - 2
      BY <1>2, <2>2, <2>4
    <3>2. msg[i] = Cr /\ msg[i + 1] = Lf /\ msg[i + 2] = Dot
      BY <1>5, <2>1, <2>2, <3>1
    <3>3. i \in Matches(Crlf \o <<Dot>>, msg)
      BY <1>2, <3>1, <3>2, DotLineIs
    <3> QED BY <3>3 DEF NoDotLine
  <2> QED BY <2>3, <2>4
<1>9. Stuff(v) = v
  <2>1. \A i : ~DotAt(v, i)
    BY <1>8 DEF DotAt
  <2> QED BY <1>5, <2>1, StuffSame
<1> QED
  BY <1>5, <1>6, <1>7, <1>8, <1>9 DEF v, p

(* What a complete answer ends                                              *)
LEMMA CompleteEnds ==
  ASSUME msg \in Message, Whole(msg), purge => NoDotLine, lines = Retr \/ ~StoppedShort, Complete
  PROVE  Ends(told) = {Len(told) - 4}
<1>1. CASE ~purge
  <2>1. told = (OkLine \o Stuff(msg)) \o EndLine
    BY <1>1 DEF Complete
  <2> QED BY <2>1, MailIs, EndedThere
<1>2. CASE purge
  <2>1. PICK j \in 0 .. Len(msg) : told = (OkLine \o (Upto(j) \o Crlf)) \o EndLine
    BY <1>2 DEF Complete, CutShort, Enough
  <2> DEFINE v == Upto(j) \o Crlf
  <2>2. v \in Seq(Byte) /\ v[1] # Dot /\ EndsLine(v) /\ Stuff(v) = v
    BY <1>2, CutPlain
  <2>3. told = (OkLine \o Stuff(v)) \o EndLine
    BY <2>1, <2>2
  <2> HIDE DEF v
  <2> QED BY <2>2, <2>3, EndedThere
<1> QED
  BY <1>1, <1>2

(* The client sees a successful answer end where the server ended it, for   *)
(* every message that ends with a line, every size on the page and however  *)
(* often send sends less than it was asked to; but only for pieces of      *)
(* three bytes or more that do not cut a line of a single dot close behind *)
(* another dot, for a TOP that did not stop short, and for a TOP of a      *)
(* message without a line that begins with a dot                           *)
THEOREM BothAgree == Spec => []InStep
<1>1. SendInv /\ AnswerInv => InStep
  <2> SUFFICES ASSUME SendInv, AnswerInv, Succeeded, cut = "fine", Whole(msg),
                      lines = Retr \/ (Matches(Crlf \o <<Dot>>, msg) = {} /\ ~StoppedShort)
               PROVE  Ends(wire) = {Len(wire) - 4}
    BY DEF InStep
  <2>1. wire = told /\ ~err /\ pc = "over" /\ result # "failed"
    BY SuccessSent DEF Succeeded
  <2>2. Complete /\ msg \in Message
    BY <2>1 DEF AnswerInv, SendInv
  <2>3. purge => NoDotLine
    BY DEF AnswerInv, NoDotLine
  <2> QED BY <2>1, <2>2, <2>3, CompleteEnds
<1> QED
  BY <1>1, DeliveryInvariant, PTL

-----------------------------------------------------------------------------
(* What the client makes of it *)

(* A byte of the answer, without the dot at the beginning of a line          *)
Kept1(b, i) == IF b[i] = Dot /\ (i = 1 \/ i - 2 \in Matches(Crlf, b)) THEN <<>> ELSE <<b[i]>>
KeptBits(b) == [i \in 1 .. Len(b) |-> Kept1(b, i)]
UnAdds(b, y) == IF y = Dot /\ (b = <<>> \/ EndsLine(b)) THEN <<>> ELSE <<y>>

LEMMA UnstuffedIs ==
  ASSUME NEW b \in Seq(Byte)
  PROVE  /\ KeptBits(b) \in Seq(Seq(Byte)) /\ Len(KeptBits(b)) = Len(b)
         /\ \A i \in 1 .. Len(b) : KeptBits(b)[i] = Kept1(b, i)
         /\ Unstuffed(b) = FlattenSeq(KeptBits(b)) /\ Unstuffed(b) \in Seq(Byte)
<1> DEFINE n == Len(b)
           Q == Seq(Byte)
<1>1. n \in Nat
  OBVIOUS
<1>2. ASSUME NEW i \in 1 .. n PROVE Kept1(b, i) \in Q
  <2>1. b[i] \in Byte
    OBVIOUS
  <2>2. <<b[i]>> \in Q /\ <<>> \in Q
    BY <2>1
  <2> QED BY <2>2 DEF Kept1
<1> HIDE DEF n, Q
<1>3. [i \in 1 .. n |-> Kept1(b, i)] \in [1 .. n -> Q]
  BY <1>2
<1>4. KeptBits(b) \in [1 .. n -> Q]
  BY <1>3 DEF KeptBits, n
<1>5. KeptBits(b) \in Seq(Q) /\ Len(KeptBits(b)) = n
  BY <1>1, <1>4
<1>6. \A i \in 1 .. n : KeptBits(b)[i] = Kept1(b, i)
  BY DEF KeptBits, n
<1>7. Unstuffed(b) = FlattenSeq(KeptBits(b))
  BY Zenon DEF Unstuffed, KeptBits, Kept1
<1>8. FlattenSeq(KeptBits(b)) \in Seq(Byte)
  BY <1>5, FlattenType DEF Q
<1> QED
  BY <1>5, <1>6, <1>7, <1>8 DEF n, Q

LEMMA UnstuffedAppend ==
  ASSUME NEW b \in Seq(Byte), NEW y \in Byte
  PROVE  Unstuffed(Append(b, y)) = Unstuffed(b) \o UnAdds(b, y)
<1> DEFINE c == Append(b, y)
           n == Len(b)
           e == UnAdds(b, y)
           k == KeptBits(b)
           a == Append(k, e)
           Q == Seq(Byte)
<1>1. /\ c \in Seq(Byte) /\ Len(c) = n + 1 /\ n \in Nat /\ c[n + 1] = y /\ \A i \in 1 .. n : c[i] = b[i]
  BY Longer
<1> HIDE DEF c
<1>2. /\ k \in Seq(Q) /\ Len(k) = n /\ (\A i \in 1 .. n : k[i] = Kept1(b, i))
      /\ Unstuffed(b) = FlattenSeq(k)
  BY UnstuffedIs
<1>3. /\ KeptBits(c) \in Seq(Q) /\ Len(KeptBits(c)) = n + 1
      /\ (\A i \in 1 .. n + 1 : KeptBits(c)[i] = Kept1(c, i))
      /\ Unstuffed(c) = FlattenSeq(KeptBits(c))
  BY <1>1, UnstuffedIs
<1>4. ASSUME NEW i \in 1 .. n PROVE Kept1(c, i) = Kept1(b, i)
  <2>1. i - 2 \in Matches(Crlf, c) <=> i - 2 \in Matches(Crlf, b)
    <3>1. /\ i - 2 \in Matches(Crlf, b)
               <=> i - 2 \in 1 .. Len(b) - 1 /\ b[i - 2] = Cr /\ b[(i - 2) + 1] = Lf
          /\ i - 2 \in Matches(Crlf, c)
               <=> i - 2 \in 1 .. Len(c) - 1 /\ c[i - 2] = Cr /\ c[(i - 2) + 1] = Lf
      BY <1>1, CrlfIs
    <3>2. CASE i <= 2
      <4>1. ~(i - 2 \in 1 .. Len(b) - 1) /\ ~(i - 2 \in 1 .. Len(c) - 1)
        BY <3>2
      <4> QED BY <3>1, <4>1
    <3>3. CASE i > 2
      <4>1. /\ i - 2 \in 1 .. Len(b) - 1 /\ i - 2 \in 1 .. Len(c) - 1
            /\ i - 2 \in 1 .. n /\ (i - 2) + 1 \in 1 .. n
        BY <1>1, <3>3
      <4>2. c[i - 2] = b[i - 2] /\ c[(i - 2) + 1] = b[(i - 2) + 1]
        BY <1>1, <4>1
      <4> QED BY <3>1, <4>1, <4>2
    <3>4. i <= 2 \/ i > 2
      OBVIOUS
    <3> QED BY <3>2, <3>3, <3>4
  <2>2. c[i] = b[i]
    BY <1>1
  <2> QED BY <2>1, <2>2 DEF Kept1
<1>5. Kept1(c, n + 1) = e
  <2>1. n + 1 = 1 <=> b = <<>>
    <3>1. n = 0 <=> b = <<>>
      OBVIOUS
    <3> HIDE DEF n
    <3> QED BY <1>1, <3>1
  <2>2. (n + 1) - 2 \in Matches(Crlf, c) <=> EndsLine(b)
    <3>1. (n + 1) - 2 \in Matches(Crlf, c)
               <=> (n + 1) - 2 \in 1 .. Len(c) - 1 /\ c[(n + 1) - 2] = Cr /\ c[((n + 1) - 2) + 1] = Lf
      BY <1>1, CrlfIs
    <3>2. CASE n < 2
      <4>1. ~((n + 1) - 2 \in 1 .. Len(c) - 1)
        BY <1>1, <3>2
      <4> QED BY <3>1, <3>2, <4>1 DEF EndsLine
    <3>3. CASE n >= 2
      <4>1. /\ (n + 1) - 2 = n - 1 /\ ((n + 1) - 2) + 1 = n /\ n - 1 \in 1 .. Len(c) - 1
            /\ n - 1 \in 1 .. n /\ n \in 1 .. n
        BY <1>1, <3>3
      <4>2. c[n - 1] = b[n - 1] /\ c[n] = b[n]
        BY <1>1, <4>1
      <4> QED BY <3>1, <3>3, <4>1, <4>2 DEF EndsLine
    <3>4. n < 2 \/ n >= 2
      <4> HIDE DEF n
      <4> QED BY <1>1
    <3> QED BY <3>2, <3>3, <3>4
  <2>3. c[n + 1] = y
    BY <1>1
  <2> DEFINE p == (n + 1) - 2 \in Matches(Crlf, c)
             q == n + 1 = 1
             d == c[n + 1]
  <2>4. Kept1(c, n + 1) = IF d = Dot /\ (q \/ p) THEN <<>> ELSE <<d>>
    BY Zenon DEF Kept1
  <2> HIDE DEF p, q, d
  <2>5. e = IF y = Dot /\ (b = <<>> \/ EndsLine(b)) THEN <<>> ELSE <<y>>
    BY Zenon DEF UnAdds
  <2> HIDE DEF e
  <2>6. d = y /\ (q <=> b = <<>>) /\ (p <=> EndsLine(b))
    BY <2>1, <2>2, <2>3 DEF p, q, d
  <2> QED BY <2>4, <2>5, <2>6
<1>6. e \in Q
  BY DEF UnAdds
<1> HIDE DEF k, e, Q
<1>7. /\ a \in Seq(Q) /\ Len(a) = n + 1 /\ a[n + 1] = e /\ \A i \in 1 .. n : a[i] = k[i]
  BY <1>2, <1>6, Longer
<1> HIDE DEF a
<1>8. \A i \in 1 .. n + 1 : KeptBits(c)[i] = a[i]
  <2> SUFFICES ASSUME NEW i \in 1 .. n + 1 PROVE KeptBits(c)[i] = a[i]
    OBVIOUS
  <2>1. KeptBits(c)[i] = Kept1(c, i)
    BY <1>3
  <2>2. CASE i \in 1 .. n
    BY <1>2, <1>4, <1>7, <2>1, <2>2
  <2>3. CASE i = n + 1
    BY <1>5, <1>7, <2>1, <2>3, Zenon
  <2>4. i \in 1 .. n \/ i = n + 1
    <3> HIDE DEF n
    <3> QED BY <1>1
  <2> QED BY <2>2, <2>3, <2>4
<1>9. KeptBits(c) = a
  BY <1>3, <1>7, <1>8, SeqEqual
<1>10. FlattenSeq(a) = FlattenSeq(k) \o e
  BY <1>2, <1>6, FlattenAppend DEF a, Q
<1>11. Unstuffed(c) = Unstuffed(b) \o e
  BY <1>2, <1>3, <1>9, <1>10
<1> QED
  BY <1>11 DEF c, e

LEMMA UnstuffedNone == Unstuffed(<<>>) = <<>>
<1>1. KeptBits(<<>>) = <<>> /\ <<>> \in Seq(Byte)
  BY DEF KeptBits
<1> QED
  BY <1>1, UnstuffedIs, FlattenNone

(* No line begins with a dot but one that is that dot                       *)
Mild(v) ==
  /\ v # <<>> => v[1] # Dot
  /\ \A i \in 1 .. Len(v) - 3 : v[i] = Cr /\ v[i + 1] = Lf /\ v[i + 2] = Dot => v[i + 3] = Cr

(* A dot that may still become a line is not doubled yet                    *)
Pending(v) == IF EndsDot(v) THEN <<Dot>> ELSE <<>>
Restored(v) == Unstuffed(Stuff(v)) \o Pending(v) = v

LEMMA MildBefore ==
  ASSUME NEW v \in Seq(Byte), NEW x \in Byte, Mild(Append(v, x))
  PROVE  Mild(v) /\ (EndsDot(v) => x = Cr) /\ (v = <<>> => x # Dot)
<1> DEFINE w == Append(v, x)
           n == Len(v)
<1>1. /\ w \in Seq(Byte) /\ Len(w) = n + 1 /\ n \in Nat /\ w[n + 1] = x /\ \A i \in 1 .. n : w[i] = v[i]
  BY Longer
<1> HIDE DEF w
<1>2. w # <<>> /\ w[1] # Dot
  <2>1. Len(<<>>) = 0
    OBVIOUS
  <2>2. w # <<>>
    BY <1>1, <2>1
  <2> QED BY <2>2 DEF Mild, w
<1>3. \A i \in 1 .. Len(w) - 3 : w[i] = Cr /\ w[i + 1] = Lf /\ w[i + 2] = Dot => w[i + 3] = Cr
  BY DEF Mild, w
<1>4. n = 0 <=> v = <<>>
  OBVIOUS
<1>5. v # <<>> => v[1] # Dot
  <2> SUFFICES ASSUME v # <<>> PROVE v[1] # Dot
    OBVIOUS
  <2>1. 1 \in 1 .. n
    BY <1>1, <1>4
  <2> QED BY <1>1, <1>2, <2>1
<1>6. v = <<>> => x # Dot
  BY <1>1, <1>2, <1>4
<1>7. ASSUME NEW i \in 1 .. n - 3, v[i] = Cr, v[i + 1] = Lf, v[i + 2] = Dot PROVE v[i + 3] = Cr
  <2>1. i \in 1 .. n /\ i + 1 \in 1 .. n /\ i + 2 \in 1 .. n /\ i + 3 \in 1 .. n /\ i \in 1 .. Len(w) - 3
    BY <1>1
  <2>2. w[i] = Cr /\ w[i + 1] = Lf /\ w[i + 2] = Dot /\ w[i + 3] = v[i + 3]
    BY <1>1, <1>7, <2>1
  <2> QED BY <1>3, <2>1, <2>2
<1>8. EndsDot(v) => x = Cr
  <2> SUFFICES ASSUME EndsDot(v) PROVE x = Cr
    OBVIOUS
  <2>1. n >= 3 /\ v[n - 2] = Cr /\ v[n - 1] = Lf /\ v[n] = Dot
    BY DEF EndsDot
  <2>2. /\ n - 2 \in 1 .. n /\ n - 1 \in 1 .. n /\ n \in 1 .. n /\ n - 2 \in 1 .. Len(w) - 3
        /\ (n - 2) + 1 = n - 1 /\ (n - 2) + 2 = n /\ (n - 2) + 3 = n + 1
    BY <1>1, <2>1
  <2>3. w[n - 2] = Cr /\ w[(n - 2) + 1] = Lf /\ w[(n - 2) + 2] = Dot
    BY <1>1, <2>1, <2>2
  <2>4. w[(n - 2) + 3] = Cr
    BY <1>3, <2>2, <2>3
  <2> QED BY <1>1, <2>2, <2>4
<1>9. Mild(v)
  BY <1>5, <1>7 DEF Mild
<1> QED
  BY <1>6, <1>8, <1>9

LEMMA EndsDotAfter ==
  ASSUME NEW v \in Seq(Byte), NEW x \in Byte
  PROVE  EndsDot(Append(v, x)) <=> EndsLine(v) /\ x = Dot
<1> DEFINE w == Append(v, x)
           n == Len(v)
<1>1. /\ Len(w) = n + 1 /\ n \in Nat /\ w[n + 1] = x /\ \A i \in 1 .. n : w[i] = v[i]
  BY Longer
<1> HIDE DEF w
<1>2. CASE n >= 2
  <2>1. /\ (n + 1) - 2 = n - 1 /\ (n + 1) - 1 = n /\ n + 1 >= 3
        /\ n - 1 \in 1 .. n /\ n \in 1 .. n
    BY <1>1, <1>2
  <2>2. w[n - 1] = v[n - 1] /\ w[n] = v[n]
    BY <1>1, <2>1
  <2>3. EndsDot(w) <=> EndsLine(v) /\ x = Dot
    BY <1>1, <1>2, <2>1, <2>2 DEF EndsDot, EndsLine
  <2> QED BY <2>3 DEF w
<1>3. CASE n < 2
  <2>1. ~EndsDot(w) /\ ~EndsLine(v)
    BY <1>1, <1>3 DEF EndsDot, EndsLine
  <2> QED BY <2>1 DEF w
<1>4. n >= 2 \/ n < 2
  <2> HIDE DEF n
  <2> QED BY <1>1
<1> QED
  BY <1>2, <1>3, <1>4

(* Stuffed, v ends as it did                                                *)
LEMMA StuffedEnds ==
  ASSUME NEW v \in Seq(Byte)
  PROVE  LET t == Stuff(v) IN
         /\ t \in Seq(Byte) /\ (t = <<>> => v = <<>>)
         /\ EndsLine(t) <=> EndsLine(v)
         /\ EndsDot(v) => t # <<>> /\ ~EndsLine(t)
<1> DEFINE t == Stuff(v)
           n == Len(v)
           m == Len(t)
<1>1. t \in Seq(Byte) /\ EndsAs(t, v) /\ n \in Nat
  BY StuffIs, StuffEnds
<1> HIDE DEF t
<1>2. /\ m \in Nat /\ m >= n
      /\ n >= 1 => t[m] = v[n]
      /\ n >= 2 => t[m - 1] = v[n - 1]
      /\ n <= 3 => t = v
  BY <1>1 DEF EndsAs
<1>3. (t = <<>> <=> m = 0) /\ (v = <<>> <=> n = 0)
  BY <1>1
<1>4. t = <<>> => v = <<>>
  BY <1>1, <1>2, <1>3
<1>5. EndsLine(t) <=> EndsLine(v)
  <2>1. CASE n >= 2
    <3>1. m >= 2 /\ n >= 1
      BY <1>1, <1>2, <2>1
    <3> QED BY <1>2, <2>1, <3>1 DEF EndsLine
  <2>2. CASE n < 2
    <3>1. n <= 3
      <4> HIDE DEF n
      <4> QED BY <1>1, <2>2
    <3> QED BY <1>2, <3>1
  <2>3. n >= 2 \/ n < 2
    <3> HIDE DEF n
    <3> QED BY <1>1
  <2> QED BY <2>1, <2>2, <2>3
<1>6. ASSUME EndsDot(v) PROVE t # <<>> /\ ~EndsLine(t)
  <2>1. n >= 3 /\ v[n] = Dot /\ Dot # Lf
    BY <1>6, Bytes DEF EndsDot
  <2>2. n >= 1 /\ m # 0
    BY <1>1, <1>2, <2>1
  <2>3. t[m] = Dot
    BY <1>2, <2>1, <2>2
  <2> QED BY <1>3, <2>1, <2>2, <2>3 DEF EndsLine
<1> QED
  BY <1>1, <1>4, <1>5, <1>6 DEF t

LEMMA RestoredMore ==
  ASSUME NEW v \in Seq(Byte), NEW x \in Byte, Mild(Append(v, x)), Restored(v)
  PROVE  Restored(Append(v, x))
<1> DEFINE w == Append(v, x)
           t == Stuff(v)
           U == Unstuffed(t)
<1>1. (EndsDot(v) => x = Cr) /\ (v = <<>> => x # Dot)
  BY MildBefore
<1>2. EndsDot(w) <=> EndsLine(v) /\ x = Dot
  BY EndsDotAfter
<1>3. /\ t \in Seq(Byte) /\ (t = <<>> => v = <<>>)
      /\ EndsLine(t) <=> EndsLine(v)
      /\ EndsDot(v) => t # <<>> /\ ~EndsLine(t)
  BY StuffedEnds
<1>4. Stuff(w) = t \o Adds(v, x)
  BY StuffAppend
<1>5. U \in Seq(Byte)
  BY <1>3, UnstuffedIs
<1>6. U \o Pending(v) = v
  BY DEF Restored
<1>7. Dot \in Byte /\ Cr # Dot
  BY Bytes
<1>8. w = v \o <<x>>
  OBVIOUS
<1> HIDE DEF t, w
<1>9. CASE EndsDot(v)
  <2> DEFINE z == Append(t, Dot)
  <2>1. x = Cr /\ Adds(v, x) = <<Dot, x>> /\ Pending(v) = <<Dot>> /\ Pending(w) = <<>>
    BY <1>1, <1>2, <1>7, <1>9 DEF Adds, Pending
  <2>2. Stuff(w) = Append(z, x)
    <3>1. t \o <<Dot, x>> = Append(Append(t, Dot), x)
      BY <1>3, <1>7
    <3> QED BY <1>4, <2>1, <3>1
  <2>3. z \in Seq(Byte)
    BY <1>3, <1>7, Longer
  <2>4. Unstuffed(z) = U \o <<Dot>>
    <3>1. UnAdds(t, Dot) = <<Dot>>
      BY <1>3, <1>9 DEF UnAdds
    <3>2. Unstuffed(Append(t, Dot)) = Unstuffed(t) \o UnAdds(t, Dot)
      BY <1>3, <1>7, UnstuffedAppend
    <3> QED BY <3>1, <3>2
  <2> HIDE DEF z
  <2>5. Unstuffed(Stuff(w)) = Unstuffed(z) \o <<x>>
    <3>1. UnAdds(z, x) = <<x>>
      BY <1>7, <2>1 DEF UnAdds
    <3>2. Unstuffed(Append(z, x)) = Unstuffed(z) \o UnAdds(z, x)
      BY <2>3, UnstuffedAppend
    <3> QED BY <2>2, <3>1, <3>2
  <2>6. Unstuffed(Stuff(w)) = w
    BY <1>6, <1>8, <2>1, <2>4, <2>5
  <2>7. w \o <<>> = w
    BY <1>8
  <2> QED BY <2>1, <2>6, <2>7 DEF Restored, w
<1>10. CASE ~EndsDot(v)
  <2>1. Adds(v, x) = <<x>> /\ Pending(v) = <<>>
    BY <1>10 DEF Adds, Pending
  <2>2. U = v
    BY <1>5, <1>6, <2>1, ConcatEmptySeq
  <2>3. Stuff(w) = Append(t, x)
    <3>1. t \o <<x>> = Append(t, x)
      BY <1>3
    <3> QED BY <1>4, <2>1, <3>1
  <2>4. Unstuffed(Stuff(w)) = v \o UnAdds(t, x)
    <3>1. Unstuffed(Append(t, x)) = Unstuffed(t) \o UnAdds(t, x)
      BY <1>3, UnstuffedAppend
    <3> QED BY <2>2, <2>3, <3>1
  <2>5. CASE x = Dot /\ EndsLine(v)
    <3>1. UnAdds(t, x) = <<>> /\ Pending(w) = <<Dot>>
      BY <1>2, <1>3, <2>5 DEF UnAdds, Pending
    <3>2. v \o <<>> = v
      BY ConcatEmptySeq
    <3> QED BY <1>8, <2>4, <2>5, <3>1, <3>2 DEF Restored, w
  <2>6. CASE ~(x = Dot /\ EndsLine(v))
    <3>1. UnAdds(t, x) = <<x>> /\ Pending(w) = <<>>
      BY <1>1, <1>2, <1>3, <2>6 DEF UnAdds, Pending
    <3>2. w \o <<>> = w
      BY <1>8
    <3> QED BY <1>8, <2>4, <3>1, <3>2 DEF Restored, w
  <2> QED BY <2>5, <2>6
<1> QED
  BY <1>9, <1>10

(* What is stuffed is what the client makes the message of again            *)
LEMMA UnstuffedStuff ==
  ASSUME NEW u \in Seq(Byte), Mild(u)
  PROVE  Restored(u)
<1> DEFINE Fine(v) == Mild(v) => Restored(v)
           T == {v \in Seq(Byte) : Fine(v)}
<1>1. <<>> \in T
  <2>1. ~EndsDot(<<>>)
    BY DEF EndsDot
  <2>2. Pending(<<>>) = <<>>
    BY <2>1 DEF Pending
  <2>3. Unstuffed(Stuff(<<>>)) = <<>>
    BY StuffNone, UnstuffedNone
  <2>4. Fine(<<>>)
    <3>1. <<>> \o <<>> = <<>>
      OBVIOUS
    <3> QED BY <2>2, <2>3, <3>1 DEF Restored
  <2> HIDE DEF Fine
  <2>5. <<>> \in Seq(Byte)
    OBVIOUS
  <2> QED BY <2>4, <2>5
<1>2. ASSUME NEW v \in Seq(Byte), NEW x \in Byte, v \in T
      PROVE  Append(v, x) \in T
  <2>1. ASSUME Mild(Append(v, x)) PROVE Restored(Append(v, x))
    <3>1. Mild(v)
      BY <2>1, MildBefore
    <3>2. Restored(v)
      BY <1>2, <3>1
    <3> QED BY <2>1, <3>2, RestoredMore
  <2>2. Append(v, x) \in Seq(Byte)
    BY Longer
  <2> QED BY <2>1, <2>2
<1> HIDE DEF T
<1>3. Seq(Byte) \subseteq T
  BY <1>1, <1>2, SeqInduction
<1> QED
  BY <1>3 DEF T

LEMMA PlainMild ==
  ASSUME msg \in Message, Whole(msg), Plain(msg)
  PROVE  Unstuffed(Stuff(msg)) = msg
<1> DEFINE n == Len(msg)
<1>1. msg \in Seq(Byte) /\ msg[1] # Dot /\ EndsLine(msg)
  BY MailIs
<1>2. ASSUME NEW i \in 1 .. n - 3, msg[i] = Cr, msg[i + 1] = Lf, msg[i + 2] = Dot
      PROVE  msg[i + 3] = Cr
  <2>1. i \in 1 .. n - 2
    BY <1>1
  <2>2. i \in Matches(Crlf \o <<Dot>>, msg)
    BY <1>1, <1>2, <2>1, DotLineIs
  <2>3. i \in Matches(LoneDot, msg)
    BY <2>2 DEF Plain
  <2>4. DotAt(msg, i)
    BY <1>1, <2>3, LoneDotIs
  <2> QED BY <2>4 DEF DotAt
<1>3. Mild(msg)
  BY <1>1, <1>2 DEF Mild
<1>4. Restored(msg)
  BY <1>1, <1>3, UnstuffedStuff
<1>5. Pending(msg) = <<>>
  BY <1>1, Bytes DEF Pending, EndsDot, EndsLine
<1>6. Unstuffed(Stuff(msg)) \in Seq(Byte)
  BY <1>1, StuffIs, UnstuffedIs
<1> QED
  BY <1>4, <1>5, <1>6, ConcatEmptySeq DEF Restored

(* The answer between the first line and the last                           *)
LEMMA AnsweredIs ==
  ASSUME NEW t \in Seq(Byte), NEW x, x = (OkLine \o t) \o EndLine, Ends(x) = {Len(x) - 4}
  PROVE  Answered(x) = t
<1> DEFINE w == OkLine \o t
           m == Len(t)
<1>1. t \in Seq(Symbol) /\ OkLine \in Seq(Symbol) /\ EndLine \in Seq(Symbol) /\ Len(OkLine) = 3 /\ Len(EndLine) = 3
  BY AreSymbols, OkLineIs, EndLineIs
<1>2. /\ w \in Seq(Symbol) /\ Len(w) = 3 + m /\ m \in Nat
      /\ \A i \in 1 .. m : w[3 + i] = t[i]
  <2>1. Joins(Symbol, OkLine, t, w)
    BY <1>1, JoinsIs
  <2> HIDE DEF w
  <2> QED BY <1>1, <2>1 DEF Joins
<1> HIDE DEF w
<1>3. /\ x \in Seq(Symbol) /\ Len(x) = (3 + m) + 3
      /\ \A i \in 1 .. 3 + m : x[i] = w[i]
  <2>1. Joins(Symbol, w, EndLine, w \o EndLine)
    BY <1>1, <1>2, JoinsIs
  <2>2. x = w \o EndLine
    BY DEF w
  <2> QED BY <1>1, <1>2, <2>1, <2>2 DEF Joins
<1>4. First(Ends(x)) = m + 2
  <2>1. Len(x) - 4 = m + 2 /\ m + 2 \in Int /\ m + 2 <= m + 2
    BY <1>2, <1>3
  <2>2. Ends(x) = {m + 2}
    BY <2>1
  <2> DEFINE k == m + 2
  <2>3. k \in Int /\ k <= k
    BY <2>1
  <2> HIDE DEF k
  <2>4. First({k}) = k
    <3> DEFINE K == {k}
    <3>1. K \subseteq Int /\ k \in K /\ \A y \in K : k <= y
      BY <2>3
    <3> HIDE DEF K
    <3>2. First(K) = k
      BY <3>1, FirstIs
    <3> QED BY <3>2 DEF K
  <2> QED BY <2>2, <2>4 DEF k
<1> DEFINE s == SubSeq(x, 4, m + 3)
<1>5. Answered(x) = s
  <2>1. (m + 2) + 1 = m + 3
    BY <1>2
  <2> QED BY <1>4, <2>1 DEF Answered
<1>6. s \in Seq(Symbol) /\ Len(s) = m /\ \A k \in 1 .. m : s[k] = x[4 + k - 1]
  <2>1. /\ 4 \in Int /\ m + 3 \in Int /\ 4 <= (m + 3) + 1 /\ m + 3 <= Len(x) /\ (m + 3) - 4 + 1 = m
        /\ 1 <= 4
    BY <1>2, <1>3
  <2>2. s \in Seq(Symbol) /\ Len(s) = (m + 3) - 4 + 1 /\ \A k \in 1 .. (m + 3) - 4 + 1 : s[k] = x[4 + k - 1]
    BY <1>3, <2>1, StretchIs, SMTT(30)
  <2> QED BY <2>1, <2>2
<1> HIDE DEF s
<1>7. \A k \in 1 .. Len(s) : s[k] = t[k]
  <2> SUFFICES ASSUME NEW k \in 1 .. m PROVE s[k] = t[k]
    BY <1>6
  <2>1. 4 + k - 1 = 3 + k /\ 3 + k \in 1 .. 3 + m
    BY <1>2
  <2>2. s[k] = x[3 + k] /\ x[3 + k] = w[3 + k] /\ w[3 + k] = t[k]
    BY <1>2, <1>3, <1>6, <2>1
  <2> QED BY <2>2
<1>8. s = t
  BY <1>6, <1>7, Same
<1> QED
  BY <1>5, <1>8

(* RETR, in such pieces: whatever the lengths of the lines, the client      *)
(* makes of the answer the message, byte by byte, if the only lines that   *)
(* begin with a dot are single dots                                        *)
THEOREM MessageDelivered == Spec => []DeliveredWhole
<1>1. SendInv /\ AnswerInv => DeliveredWhole
  <2> SUFFICES ASSUME SendInv, AnswerInv, Succeeded, lines = Retr, cut = "fine", Whole(msg), Plain(msg)
               PROVE  Received = msg
    BY DEF DeliveredWhole
  <2>1. wire = told /\ ~err /\ pc = "over" /\ result # "failed"
    BY SuccessSent DEF Succeeded
  <2>2. Complete /\ msg \in Message /\ ~purge
    BY <2>1 DEF AnswerInv, SendInv
  <2>3. wire = (OkLine \o Stuff(msg)) \o EndLine
    BY <2>1, <2>2 DEF Complete
  <2>4. Ends(wire) = {Len(wire) - 4}
    BY <2>1, <2>2, CompleteEnds
  <2>5. Stuff(msg) \in Seq(Byte)
    BY <2>2, MailIs, StuffIs
  <2>6. Answered(wire) = Stuff(msg)
    BY <2>3, <2>4, <2>5, AnsweredIs
  <2> QED BY <2>2, <2>6, PlainMild DEF Received
<1> QED
  BY <1>1, DeliveryInvariant, PTL

(* The client makes of a message cut anywhere what it is                    *)
LEMMA CutReceived ==
  ASSUME msg \in Message, NoDotLine, NEW j \in 0 .. Len(msg)
  PROVE  LET v == Upto(j) \o Crlf IN
         /\ Unstuffed(v) = v /\ Len(v) = j + 2
         /\ IsPrefix(SubSeq(v, 1, Len(v) - 2), msg)
<1> DEFINE v == Upto(j) \o Crlf
<1>1. /\ v \in Seq(Byte) /\ v[1] # Dot /\ EndsLine(v) /\ Stuff(v) = v
      /\ Len(v) = j + 2 /\ \A i \in 1 .. j : v[i] = msg[i]
      /\ \A i \in 1 .. Len(v) - 3 : ~(v[i] = Cr /\ v[i + 1] = Lf /\ v[i + 2] = Dot)
  BY CutPlain
<1>2. msg \in Seq(Byte) /\ j \in Nat /\ j <= Len(msg) /\ Len(msg) \in Nat
  BY MailIs
<1> HIDE DEF v
<1>3. Unstuffed(v) = v
  <2>1. Mild(v)
    BY <1>1 DEF Mild
  <2>2. Restored(v)
    BY <1>1, <2>1, UnstuffedStuff
  <2>3. Pending(v) = <<>>
    BY <1>1, Bytes DEF Pending, EndsDot, EndsLine
  <2>4. Unstuffed(v) \in Seq(Byte)
    BY <1>1, UnstuffedIs
  <2> QED BY <1>1, <2>2, <2>3, <2>4, ConcatEmptySeq DEF Restored
<1> DEFINE p == SubSeq(v, 1, j)
           q == SubSeq(msg, 1, j)
<1>4. /\ p \in Seq(Byte) /\ Len(p) = j /\ \A i \in 1 .. j : p[i] = v[i]
  <2>1. j \in Int /\ 1 <= j + 1 /\ j <= Len(v) /\ j - 1 + 1 = j
    BY <1>1, <1>2
  <2>2. p \in Seq(Byte) /\ Len(p) = j /\ \A i \in 1 .. j : p[i] = v[1 + i - 1]
    BY <1>1, <2>1, StretchIs
  <2>3. \A i \in 1 .. j : 1 + i - 1 = i
    OBVIOUS
  <2> HIDE DEF p
  <2> QED BY <2>2, <2>3
<1>5. q \in Seq(Byte) /\ Len(q) = j /\ \A i \in 1 .. j : q[i] = msg[i]
  BY UptoIs DEF Upto
<1> HIDE DEF p, q
<1>6. p = q
  <2>1. \A i \in 1 .. Len(p) : p[i] = q[i]
    BY <1>1, <1>4, <1>5
  <2> QED BY <1>4, <1>5, <2>1, Same
<1>7. SubSeq(p, 1, Len(p)) = p
  BY <1>4, SubSeqFull
<1>8. IsPrefix(p, msg)
  BY <1>2, <1>4, <1>6, <1>7 DEF IsPrefix, q
<1>9. Len(v) - 2 = j
  BY <1>1, <1>2
<1>10. IsPrefix(SubSeq(v, 1, Len(v) - 2), msg)
  BY <1>8, <1>9 DEF p
<1> QED
  BY <1>1, <1>3, <1>10 DEF v

(* TOP, in such pieces, of a message without a line that begins with a dot: *)
(* wherever tophack cuts, the client makes of the answer the beginning of  *)
(* the message, the header and at least the lines it asked for in it, and  *)
(* nothing else but the line end top_cb adds, unless the page's size was   *)
(* short of the message or a later range failed before the lines were      *)
(* counted                                                                 *)
THEOREM EnoughIsSent == Spec => []TopEnough
<1>1. SendInv /\ AnswerInv => TopEnough
  <2> DEFINE least == Len(msg) - Len(Body(msg)) + FirstLines(lines, Body(msg)) - (IF lines = 0 THEN 2 ELSE 0)
  <2> SUFFICES ASSUME SendInv, AnswerInv, Succeeded, lines # Retr, cut = "fine", Whole(msg), NoDotLine, ~StoppedShort
               PROVE  /\ IsPrefix(Received, msg) \/ IsPrefix(SubSeq(Received, 1, Len(Received) - 2), msg)
                      /\ Len(Received) >= least
    BY DEF TopEnough, NoDotLine
  <2>1. wire = told /\ ~err /\ pc = "over" /\ result # "failed"
    BY SuccessSent DEF Succeeded
  <2>2. Complete /\ msg \in Message
    BY <2>1 DEF AnswerInv, SendInv
  <2>3. Ends(wire) = {Len(wire) - 4}
    BY <2>1, <2>2, CompleteEnds
  <2>4. msg \in Seq(Byte)
    BY <2>2, MailIs
  <2>5. /\ HeaderLen(msg) \in Nat /\ Len(Body(msg)) = Len(msg) - HeaderLen(msg) /\ Len(msg) \in Nat
        /\ FirstLines(lines, Body(msg)) \in Nat /\ FirstLines(lines, Body(msg)) <= Len(Body(msg))
    <3>1. /\ HeaderLen(msg) \in 4 .. Len(msg) /\ Len(Body(msg)) = Len(msg) - HeaderLen(msg)
          /\ Body(msg) \in Seq(Byte)
      BY <2>2, HeaderIs
    <3> QED BY <2>4, <3>1, FirstLinesType
  <2> DEFINE drop == IF lines = 0 THEN 2 ELSE 0
             h == HeaderLen(msg)
             f == FirstLines(lines, Body(msg))
  <2>6. drop \in Nat
    OBVIOUS
  <2>7. least = h + f - drop
    <3>1. least = Len(msg) - Len(Body(msg)) + f - drop
      OBVIOUS
    <3> HIDE DEF least, drop, f, h
    <3>2. Len(Body(msg)) = Len(msg) - h /\ h \in Nat /\ f \in Nat
      BY <2>5 DEF h, f
    <3> QED BY <2>5, <2>6, <3>1, <3>2
  <2>8. CASE ~purge
    <3>1. wire = (OkLine \o Stuff(msg)) \o EndLine
      BY <2>1, <2>2, <2>8 DEF Complete
    <3>2. Answered(wire) = Stuff(msg)
      BY <2>3, <2>4, <3>1, StuffIs, AnsweredIs
    <3>3. Received = msg
      <4>1. Plain(msg)
        BY DEF Plain, NoDotLine
      <4> QED BY <2>2, <3>2, <4>1, PlainMild DEF Received
    <3>4. IsPrefix(msg, msg)
      BY <2>4 DEF IsPrefix
    <3>5. Len(msg) >= h + f - drop
      <4>1. h \in Nat /\ f \in Nat /\ f <= Len(msg) - h
        BY <2>5
      <4> HIDE DEF h, f, drop
      <4> QED BY <2>5, <2>6, <4>1
    <3> HIDE DEF least
    <3> QED BY <2>7, <3>3, <3>4, <3>5
  <2>9. CASE purge
    <3>1. PICK j \in Enough : wire = (OkLine \o (Upto(j) \o Crlf)) \o EndLine
      BY <2>1, <2>2, <2>9 DEF Complete, CutShort
    <3>2. j \in 0 .. Len(msg) /\ j + 2 >= h + f - drop
      BY DEF Enough
    <3> DEFINE v == Upto(j) \o Crlf
    <3>3. v \in Seq(Byte)
      BY <2>2, <3>2, CutPlain
    <3>4. Unstuffed(v) = v /\ Len(v) = j + 2 /\ IsPrefix(SubSeq(v, 1, Len(v) - 2), msg)
      BY <2>2, <3>2, CutReceived
    <3>5. wire = (OkLine \o v) \o EndLine
      BY <3>1
    <3> HIDE DEF v, least, h, f, drop
    <3>6. Received = v
      BY <2>3, <3>3, <3>4, <3>5, AnsweredIs DEF Received
    <3> QED BY <2>7, <3>2, <3>4, <3>6
  <2> QED BY <2>8, <2>9
<1> QED
  BY <1>1, DeliveryInvariant, PTL
=============================================================================
