----------------------------- MODULE Mlex_proofs -----------------------------
(***************************************************************************)
(* A page is cut into tokens that are the page (TokensAreRight): by         *)
(* induction over the places a token may begin at, from the last one, for   *)
(* what tokenize_html makes of a place depends on the places behind it      *)
(* (FixedPoint, Backwards); Cut says what the tokens from a place on are.   *)
(*                                                                         *)
(* The search of mlmatch_find finds what a match is defined to be, for any *)
(* pages and expressions and any regular expressions: MlexInv says what is *)
(* known on the way.  The tokens passed so far match the page (Goes), the  *)
(* stack holds the optional ones among them, each with what the search was *)
(* like when it came to it (OnStack), and no match is lost: a match goes   *)
(* on from the path, or it is less preferred than any that does, for it    *)
(* passes over an optional token the path has taken (Complete).            *)
(***************************************************************************)
EXTENDS Mlex, FiniteSetTheorems, SequenceTheorems, WellFoundedInduction,
        TLAPS

(* What is required or chosen before token i of the expression: as many     *)
(* tokens of the page are matched before it                                *)
Before(i, c)  == {j \in Required \cup c : j < i}
Earlier(i, c) == {j \in c : j < i}

(* The required tokens before q and the optional ones in e, all before q,   *)
(* match the page from start on                                            *)
Goes(q, e) ==
  /\ \A j \in e : j < q
  /\ \A i \in Before(q, e) :
       /\ Place(i, e, start) \in DOMAIN data
       /\ Matched(data[Place(i, e, start)], pattern[i])

(* What the search was like when it came to the optional token j            *)
From(j, e) ==
  [dust |-> Earlier(j, e), d |-> Place(j, e, start), p |-> j + 1,
   len  |-> Cardinality(Before(j, e))]

(* The stack has the optional tokens that are matched, the last on top      *)
OnStack(st, e) ==
  /\ \A k \in 1 .. Len(st) : \E j \in e : st[k] = From(j, e)
  /\ \A j \in e : \E k \in 1 .. Len(st) : st[k].p = j + 1
  /\ \A k, l \in 1 .. Len(st) : k < l => st[k].p > st[l].p

(* A match goes on from the path, or leaves it by an optional token that it *)
(* passes over                                                             *)
Leaves(c, e)   == \E i \in e \ c : Earlier(i, c) = Earlier(i, e)
Complete(q, e) ==
  \A c \in SUBSET Optional : MatchesFrom(start, c) => Earlier(q, c) = e \/ Leaves(c, e)

SearchInv ==
  /\ Goes(p, dust) /\ OnStack(stack, dust) /\ Complete(p, dust)
  /\ len = Cardinality(Before(p, dust)) /\ rc = len /\ d = start + len

(* The answers there should be to token s of the page                       *)
Expected(s) ==
  LET match == {c \in SUBSET Optional : MatchesFrom(s, c)}
  IN IF match = {} THEN {}
     ELSE {[start |-> s, len |-> exp_min_len + Cardinality(c), dust |-> c] :
             c \in {x \in match : \A y \in match \ {x} : Prefers(x, y)}}

(* The tokens of the page before start have the answers they should have    *)
AnswersInv ==
  /\ \A a \in answers : a.start < start
  /\ \A s \in DOMAIN data :
       s < start => s \in short \/ {a \in answers : a.start = s} = Expected(s)

MlexInv == TypeOK /\ SearchInv /\ AnswersInv

-----------------------------------------------------------------------------
(* Induction over data *)

(* Induction over the naturals, of what a set of them has: the minimal one  *)
(* that it does not have is not 0, nor the successor of one that it has     *)
LEMMA SetInduction ==
  ASSUME NEW T, 0 \in T, \A n \in Nat : n \in T => n + 1 \in T
  PROVE  Nat \subseteq T
<1> DEFINE R == OpToRel(<, Nat)
           U == Nat \ T
<1>1. IsWellFoundedOn(R, Nat)
  BY NatLessThanWellFounded
<1>2. \A x, y \in Nat : x < y => <<x, y>> \in R
  BY DEF OpToRel
<1> HIDE DEF R
<1> SUFFICES ASSUME U # {} PROVE FALSE
  OBVIOUS
<1>3. PICK x \in U : \A y \in U : ~(<<y, x>> \in R)
  <2>1. U \subseteq Nat /\ U # {}
    OBVIOUS
  <2> HIDE DEF U
  <2> QED BY <1>1, <2>1, WFMin
<1>4. x # 0 /\ x \in Nat
  OBVIOUS
<1>5. x - 1 \in Nat /\ x - 1 < x /\ (x - 1) + 1 = x
  BY <1>4
<1>6. x - 1 \in T
  BY <1>2, <1>3, <1>4, <1>5
<1> QED
  BY <1>5, <1>6

(* A set of numbers that is not empty has a minimum                         *)
LEMMA MinIs ==
  ASSUME NEW S, S \subseteq Nat, S # {}
  PROVE  Min(S) \in S /\ \A y \in S : Min(S) <= y
<1> DEFINE R == OpToRel(<, Nat)
<1>1. IsWellFoundedOn(R, Nat)
  BY NatLessThanWellFounded
<1>2. \A x, y \in Nat : x < y => <<x, y>> \in R
  BY DEF OpToRel
<1> HIDE DEF R
<1>3. PICK x \in S : \A y \in S : ~(<<y, x>> \in R)
  BY <1>1, WFMin
<1>4. \A y \in S : x <= y
  <2> SUFFICES ASSUME NEW y \in S, y < x PROVE FALSE
    OBVIOUS
  <2> QED BY <1>2, <1>3
<1> QED
  BY <1>3, <1>4, Zenon DEF Min

(* B makes at each place of what is behind it only                          *)
LooksBehind(B, F, m) ==
  \A f, g \in F : \A i \in 1 .. m :
    (\A j \in 1 .. m : j > i => f[j] = g[j]) => B[f][i] = B[g][i]

(* There is a function that is what B makes of it: a recursive definition    *)
(* that looks behind has a function to define                              *)
LEMMA FixedPoint ==
  ASSUME NEW m \in Nat, NEW X, X # {}, NEW F, F = [1 .. m -> X], NEW B \in [F -> F],
         LooksBehind(B, F, m)
  PROVE  \E f \in F : f = B[f]
<1> DEFINE Upto(k) == \E f \in F : \A i \in 1 .. m : i > m - k => B[f][i] = f[i]
           T == {k \in Nat : Upto(k)}
<1>1. 0 \in T
  <2>1. PICK x \in X : TRUE
    OBVIOUS
  <2>2. [i \in 1 .. m |-> x] \in F
    BY <2>1
  <2>3. \A i \in 1 .. m : ~(i > m - 0)
    OBVIOUS
  <2> QED BY <2>2, <2>3
<1>2. ASSUME NEW k \in Nat, k \in T PROVE k + 1 \in T
  <2>1. PICK f \in F : \A i \in 1 .. m : i > m - k => B[f][i] = f[i]
    BY <1>2
  <2>2. B[f] \in F
    OBVIOUS
  <2>3. ASSUME NEW i \in 1 .. m, i > m - (k + 1) PROVE B[B[f]][i] = B[f][i]
    <3>1. \A j \in 1 .. m : j > i => B[f][j] = f[j]
      <4> SUFFICES ASSUME NEW j \in 1 .. m, j > i PROVE j > m - k
        BY <2>1
      <4> QED BY <2>3
    <3> QED BY <2>2, <3>1 DEF LooksBehind
  <2> QED BY <2>2, <2>3
<1>3. 0 \in T /\ \A k \in Nat : k \in T => k + 1 \in T
  BY <1>1, <1>2
<1>4. m \in T
  <2> HIDE DEF T
  <2> QED BY <1>3, SetInduction
<1>5. PICK f \in F : \A i \in 1 .. m : i > m - m => B[f][i] = f[i]
  BY <1>4
<1>6. \A i \in 1 .. m : i > m - m
  OBVIOUS
<1>7. B[f] \in F /\ \A i \in 1 .. m : B[f][i] = f[i]
  BY <1>5, <1>6
<1> QED
  BY <1>7

(* What holds of each place up to m if it holds of the ones behind it holds *)
(* of all                                                                  *)
LEMMA Backwards ==
  ASSUME NEW m \in Nat, NEW T,
         \A i \in 1 .. m : (\A j \in 1 .. m : j > i => j \in T) => i \in T
  PROVE  1 .. m \subseteq T
<1> DEFINE U == {k \in Nat : \A i \in 1 .. m : i > m - k => i \in T}
<1>1. 0 \in U
  <2>1. \A i \in 1 .. m : ~(i > m - 0)
    OBVIOUS
  <2> QED BY <2>1
<1>2. ASSUME NEW k \in Nat, k \in U PROVE k + 1 \in U
  <2> SUFFICES ASSUME NEW i \in 1 .. m, i > m - (k + 1) PROVE i \in T
    OBVIOUS
  <2>1. \A j \in 1 .. m : j > i => j > m - k
    OBVIOUS
  <2>2. \A j \in 1 .. m : j > i => j \in T
    BY <1>2, <2>1
  <2> QED BY <2>2
<1>3. m \in U
  <2> HIDE DEF U
  <2> QED BY <1>1, <1>2, SetInduction
<1>4. \A i \in 1 .. m : i > m - m
  OBVIOUS
<1> QED
  BY <1>3, <1>4

-----------------------------------------------------------------------------
(* Where the tags of a page are *)

(* Where a tag may begin, and where the one that begins at b may end         *)
Begins(s, position, mode) ==
  {i \in position .. Len(s) : s[i] = "<" /\ (mode = "plain" \/ scriptmatch(s, i + 1))}
Comment(s, b, mode) == mode = "plain" /\ b < Len(s) /\ s[b + 1] = "!--"
Closes(s, b, mode, i) ==
  IF Comment(s, b, mode) THEN s[i - 1] \in {"--", "!--"}
  ELSE mode = "plain" \/ s[i - 1] = "script"
EndsOf(s, b, mode) == {i \in b + 1 .. Len(s) : s[i] = ">" /\ Closes(s, b, mode, i)}

Mode == {"plain", "script"}

(* What regexec_my finds, in these words                                    *)
LEMMA RegexecIs ==
  ASSUME NEW s, NEW position, NEW mode
  PROVE  regexec_my(s, position, mode) =
           LET b == Min(Begins(s, position, mode))
           IN IF Begins(s, position, mode) = {} \/ EndsOf(s, b, mode) = {} THEN NoTag
              ELSE [begin |-> b, end |-> Min(EndsOf(s, b, mode)),
                    mode |-> IF mode = "plain" /\ scriptmatch(s, b + 1) THEN "script" ELSE "plain"]
BY Zenon DEF regexec_my, Begins, EndsOf, Closes, Comment

(* What a tag is: the first there is, and it does not contain its end,       *)
(* unless it is a comment or the tag of a script                           *)
LEMMA TagIs ==
  ASSUME NEW s \in Seq(Symbol), NEW position \in 1 .. Len(s) + 1, NEW mode \in Mode,
         NEW m, m = regexec_my(s, position, mode), m # NoTag
  PROVE  /\ m.begin \in position .. Len(s) /\ m.end \in m.begin + 1 .. Len(s)
         /\ s[m.begin] = "<" /\ s[m.end] = ">"
         /\ mode = "plain" \/ scriptmatch(s, m.begin + 1)
         /\ m.mode = IF mode = "plain" /\ scriptmatch(s, m.begin + 1) THEN "script" ELSE "plain"
         /\ \A i \in position .. m.begin - 1 :
              s[i] = "<" => mode = "script" /\ ~scriptmatch(s, i + 1)
         /\ mode = "plain" /\ ~Comment(s, m.begin, mode) =>
              \A i \in m.begin + 1 .. m.end - 1 : s[i] # ">"
<1> DEFINE P == Begins(s, position, mode)
           b == Min(P)
           Q == EndsOf(s, b, mode)
           e == Min(Q)
<1>1. /\ P # {} /\ Q # {}
      /\ m = [begin |-> b, end |-> e,
              mode |-> IF mode = "plain" /\ scriptmatch(s, b + 1) THEN "script" ELSE "plain"]
  BY RegexecIs
<1>2. m.begin = b /\ m.end = e
      /\ m.mode = IF mode = "plain" /\ scriptmatch(s, b + 1) THEN "script" ELSE "plain"
  BY <1>1
<1>3. Len(s) \in Nat /\ position \in Nat /\ P \subseteq Nat
  BY DEF Begins
<1>4. b \in P /\ \A y \in P : b <= y
  BY <1>1, <1>3, MinIs
<1> HIDE DEF b
<1>5. b \in position .. Len(s) /\ s[b] = "<" /\ (mode = "plain" \/ scriptmatch(s, b + 1))
  BY <1>4 DEF Begins
<1>6. Q \subseteq Nat
  BY <1>3, <1>5 DEF EndsOf
<1>7. e \in Q /\ \A y \in Q : e <= y
  BY <1>1, <1>6, MinIs
<1> HIDE DEF e
<1>8. e \in b + 1 .. Len(s) /\ s[e] = ">"
  BY <1>7 DEF EndsOf
<1>9. ASSUME NEW i \in position .. b - 1, s[i] = "<"
      PROVE  mode = "script" /\ ~scriptmatch(s, i + 1)
  <2>1. i \in position .. Len(s) /\ ~(b <= i)
    BY <1>3, <1>5
  <2>2. i \notin P
    BY <1>4, <2>1
  <2> QED BY <1>9, <2>1, <2>2 DEF Begins, Mode
<1>10. ASSUME mode = "plain", ~Comment(s, b, mode), NEW i \in b + 1 .. e - 1
       PROVE  s[i] # ">"
  <2>1. i \in b + 1 .. Len(s) /\ ~(e <= i)
    BY <1>3, <1>5, <1>8
  <2>2. i \notin Q
    BY <1>7, <2>1
  <2> QED BY <1>10, <2>1, <2>2 DEF EndsOf, Closes
<1> QED
  BY <1>2, <1>5, <1>8, <1>9, <1>10

(* Where there is no tag any more, nothing looks like one, except inside a  *)
(* script, and a comment without an end                                    *)
LEMMA NoTagIs ==
  ASSUME NEW s \in Seq(Symbol), NEW position \in 1 .. Len(s) + 1, NEW mode \in Mode,
         regexec_my(s, position, mode) = NoTag,
         NEW i \in position .. Len(s), NEW j \in position .. Len(s), i < j, s[i] = "<", s[j] = ">"
  PROVE  mode = "script" \/ \E k \in position .. Len(s) : s[k] = "!--"
<1> SUFFICES ASSUME mode = "plain" PROVE \E k \in position .. Len(s) : s[k] = "!--"
  BY DEF Mode
<1> DEFINE P == Begins(s, position, mode)
           b == Min(P)
           Q == EndsOf(s, b, mode)
<1>1. Len(s) \in Nat /\ position \in Nat /\ P \subseteq Nat /\ i \in P
  BY DEF Begins
<1>2. b \in P /\ \A y \in P : b <= y
  BY <1>1, MinIs
<1>3. Q = {}
  <2> DEFINE r == [begin |-> b, end |-> Min(Q),
              mode |-> IF mode = "plain" /\ scriptmatch(s, b + 1) THEN "script" ELSE "plain"]
  <2>1. P = {} \/ Q = {} \/ NoTag = r
    BY RegexecIs
  <2>2. r.begin = b /\ NoTag.begin = 0
    BY DEF NoTag
  <2>3. b # 0
    BY <1>1, <1>2 DEF Begins
  <2> QED BY <1>1, <2>1, <2>2, <2>3
<1> HIDE DEF b
<1>4. b \in position .. Len(s) /\ b <= i
  BY <1>1, <1>2 DEF Begins
<1>5. j \in b + 1 .. Len(s)
  BY <1>1, <1>4
<1>6. Comment(s, b, mode)
  BY <1>3, <1>5 DEF EndsOf, Closes
<1>7. b + 1 \in position .. Len(s) /\ s[b + 1] = "!--"
  BY <1>1, <1>4, <1>6 DEF Comment
<1> QED
  BY <1>7

(* The same place counted from elsewhere                                     *)
LEMMA Shift ==
  ASSUME NEW a \in Int, NEW k \in Int, NEW x \in Int, NEW n \in Int, k >= a, k + x <= n
  PROVE  /\ k + x \in a + x .. n /\ k \in a .. k
         /\ \A j \in a + x .. (k + x) - 1 :
              /\ j - x \in a .. k - 1 /\ j - x \in a .. k
              /\ (j - x) + x = j /\ (j - x = k - 1 => j = (k + x) - 1)
OBVIOUS

(* What scriptmatch goes by: "script" at k, blanks or a slash before it      *)
Leads(c, last)  == c = " " \/ (c = "/" /\ last)
Names(s, a, k) == (\A j \in a .. k - 1 : Leads(s[j], j = k - 1)) /\ s[k] = "script"

(* scriptmatch, in these words                                              *)
LEMMA ScriptIs ==
  ASSUME NEW s, NEW a
  PROVE  scriptmatch(s, a) <=> \E k \in a .. Len(s) : Names(s, a, k)
BY Zenon DEF scriptmatch, Names, Leads

(* The same symbols name a script wherever they are                         *)
LEMMA ScriptShift ==
  ASSUME NEW s, NEW t, NEW a \in Int, NEW k \in Int, NEW x \in Int, k >= a,
         Len(t) \in Int, k + x <= Len(t), \A j \in a .. k : t[j + x] = s[j], Names(s, a, k)
  PROVE  scriptmatch(t, a + x)
<1>1. k + x \in a + x .. Len(t) /\ k \in a .. k
  BY Shift
<1>2. t[k + x] = "script"
  BY <1>1 DEF Names
<1>3. ASSUME NEW j \in a + x .. (k + x) - 1
      PROVE  Leads(t[j], j = (k + x) - 1)
  <2>1. j - x \in a .. k - 1 /\ j - x \in a .. k /\ (j - x) + x = j
        /\ (j - x = k - 1 => j = (k + x) - 1)
    BY Shift
  <2>2. Leads(s[j - x], j - x = k - 1)
    BY <2>1 DEF Names
  <2>3. t[(j - x) + x] = s[j - x]
    BY <2>1
  <2>4. t[j] = s[j - x]
    BY <2>1, <2>3
  <2> QED BY <2>1, <2>2, <2>4, Zenon DEF Leads
<1>4. Names(t, a + x, k + x)
  BY <1>2, <1>3 DEF Names
<1> QED
  BY <1>1, <1>4, ScriptIs

(* A part of the page: what is where                                        *)
LEMMA PartIs ==
  ASSUME NEW s \in Seq(Symbol), NEW a \in 1 .. Len(s) + 1, NEW e \in a - 1 .. Len(s)
  PROVE  /\ SubSeq(s, a, e) \in Seq(Symbol) /\ Len(SubSeq(s, a, e)) = e - a + 1
         /\ \A i \in 1 .. e - a + 1 : SubSeq(s, a, e)[i] = s[i + (a - 1)]
         /\ \A j \in a .. e : SubSeq(s, a, e)[j + (1 - a)] = s[j]
<1> DEFINE t == SubSeq(s, a, e)
<1>1. t \in Seq(Symbol) /\ Len(t) = e - a + 1 /\ \A i \in 1 .. e - a + 1 : t[i] = s[a + i - 1]
  BY SubSeqProperties
<1> HIDE DEF t
<1>2. \A i \in 1 .. e - a + 1 : t[i] = s[i + (a - 1)]
  <2> SUFFICES ASSUME NEW i \in 1 .. e - a + 1 PROVE t[i] = s[i + (a - 1)]
    OBVIOUS
  <2>1. a + i - 1 = i + (a - 1)
    OBVIOUS
  <2> QED BY <1>1, <2>1
<1>3. \A j \in a .. e : t[j + (1 - a)] = s[j]
  <2> SUFFICES ASSUME NEW j \in a .. e PROVE t[j + (1 - a)] = s[j]
    OBVIOUS
  <2>1. j + (1 - a) \in 1 .. e - a + 1 /\ (j + (1 - a)) + (a - 1) = j
    OBVIOUS
  <2> QED BY <1>2, <2>1
<1> QED
  BY <1>1, <1>2, <1>3 DEF t

(* A tag names a script if the page does where it begins                    *)
LEMMA ScriptInside ==
  ASSUME NEW s \in Seq(Symbol), NEW b \in 1 .. Len(s), NEW e \in b + 1 .. Len(s), s[e] = ">",
         NEW t, t = SubSeq(s, b + 1, e - 1)
  PROVE  /\ scriptmatch(t, 1) <=> scriptmatch(s, b + 1)
         /\ b + 1 = e => ~scriptmatch(s, b + 1)
<1>1. Len(s) \in Nat /\ b \in Nat /\ e \in Nat /\ b + 1 \in 1 .. Len(s) + 1 /\ e - 1 \in (b + 1) - 1 .. Len(s)
  OBVIOUS
<1> DEFINE a == b + 1
           z == e - 1
<1>2. /\ t \in Seq(Symbol) /\ Len(t) = z - a + 1
      /\ \A i \in 1 .. z - a + 1 : t[i] = s[i + (a - 1)]
      /\ \A j \in a .. z : t[j + (1 - a)] = s[j]
  BY <1>1, PartIs
<1>3. a \in Nat /\ z \in Int /\ a - 1 <= z /\ z < Len(s) /\ z + 1 = e
  BY <1>1
<1> HIDE DEF a, z
<1>4. ASSUME scriptmatch(s, a) PROVE scriptmatch(t, 1) /\ a <= z
  <2>1. PICK k \in a .. Len(s) : Names(s, a, k)
    BY <1>4, ScriptIs
  <2>2. k <= z
    <3> SUFFICES ASSUME z < k PROVE FALSE
      BY <1>1, <1>3
    <3>1. e = k \/ e \in a .. k - 1
      BY <1>1, <1>3
    <3>2. s[k] = "script" /\ \A j \in a .. k - 1 : s[j] # ">"
      BY <2>1 DEF Names, Leads
    <3> QED BY <3>1, <3>2
  <2> DEFINE x == 1 - a
  <2>3. k \in Int /\ k >= a /\ x \in Int /\ k + x <= Len(t) /\ Len(t) \in Int /\ a + x = 1
    BY <1>1, <1>2, <1>3, <2>2
  <2>4. \A j \in a .. k : t[j + x] = s[j]
    BY <1>2, <1>3, <2>2
  <2> HIDE DEF x
  <2>5. a \in Int
    BY <1>3
  <2>6. scriptmatch(t, a + x)
    BY <2>1, <2>3, <2>4, <2>5, ScriptShift
  <2> QED BY <1>3, <2>2, <2>3, <2>6
<1>5. ASSUME scriptmatch(t, 1) PROVE scriptmatch(s, a)
  <2>1. PICK k \in 1 .. Len(t) : Names(t, 1, k)
    BY <1>5, ScriptIs
  <2> DEFINE x == a - 1
  <2>2. k \in Int /\ k >= 1 /\ x \in Int /\ k + x <= Len(s) /\ Len(s) \in Int /\ 1 + x = a
    BY <1>1, <1>2, <1>3
  <2>3. \A j \in 1 .. k : s[j + x] = t[j]
    BY <1>2, <1>3
  <2> HIDE DEF x
  <2> DEFINE o == 1
  <2>4. o \in Int /\ k >= o /\ o + x = a
    BY <2>2
  <2>5. Names(t, o, k) /\ \A j \in o .. k : s[j + x] = t[j]
    BY <2>1, <2>3
  <2> HIDE DEF o
  <2>6. scriptmatch(s, o + x)
    BY <2>2, <2>4, <2>5, ScriptShift
  <2> QED BY <2>4, <2>6
<1> QED
  BY <1>3, <1>4, <1>5 DEF a

(* ... and what names one in a string names one in the page                 *)
LEMMA ScriptBefore ==
  ASSUME NEW s \in Seq(Symbol), NEW p0 \in 1 .. Len(s) + 1, NEW e \in p0 - 1 .. Len(s),
         NEW t, t = SubSeq(s, p0, e), NEW i \in 1 .. Len(t), scriptmatch(t, i + 1)
  PROVE  scriptmatch(s, (i + 1) + (p0 - 1))
<1>1. /\ Len(s) \in Nat /\ t \in Seq(Symbol) /\ Len(t) = e - p0 + 1
      /\ \A j \in 1 .. e - p0 + 1 : t[j] = s[j + (p0 - 1)]
  BY PartIs
<1>2. PICK k \in i + 1 .. Len(t) : Names(t, i + 1, k)
  BY ScriptIs
<1> DEFINE x == p0 - 1
           a == i + 1
<1>3. a \in Int /\ k \in Int /\ k >= a /\ x \in Int /\ k + x <= Len(s) /\ Len(s) \in Int
  BY <1>1
<1>4. \A j \in a .. k : s[j + x] = t[j]
  BY <1>1
<1> HIDE DEF x, a
<1>5. scriptmatch(s, a + x)
  BY <1>2, <1>3, <1>4, ScriptShift DEF a
<1> QED
  BY <1>5 DEF a, x

-----------------------------------------------------------------------------
(* The tokens of a page *)

(* What tokenize_html makes of the page from a place on                     *)
String(s, position, m) == [tag |-> FALSE, text |-> SubSeq(s, position, m.begin - 1)]
Tag(s, m)              == [tag |-> TRUE, text |-> SubSeq(s, m.begin + 1, m.end - 1)]
HtmlFrom(f, s, position, mode) ==
  LET m == regexec_my(s, position, mode)
  IN IF m = NoTag THEN <<>>
     ELSE <<String(s, position, m)>> \o (IF m.begin + 1 < m.end THEN <<Tag(s, m)>> ELSE <<>>)
          \o f[m.end + 1][m.mode]

(* They are tokens, and what follows them is further on in the page         *)
LEMMA TokenTypes ==
  ASSUME NEW s \in Seq(Symbol), NEW position \in 1 .. Len(s) + 1, NEW mode \in Mode,
         NEW m, m = regexec_my(s, position, mode), m # NoTag
  PROVE  /\ String(s, position, m) \in Token /\ Tag(s, m) \in Token
         /\ m.end + 1 \in 1 .. Len(s) + 1 /\ m.end + 1 > position /\ m.mode \in Mode
<1>1. m.begin \in position .. Len(s) /\ m.end \in m.begin + 1 .. Len(s) /\ m.mode \in Mode
  BY TagIs DEF Mode
<1>2. Len(s) \in Nat /\ position \in Nat
  OBVIOUS
<1>3. m.end + 1 \in 1 .. Len(s) + 1 /\ m.end + 1 > position
  BY <1>1, <1>2
<1>4. m.begin - 1 \in position - 1 .. Len(s) /\ m.begin + 1 \in 1 .. Len(s) + 1
      /\ m.end - 1 \in (m.begin + 1) - 1 .. Len(s)
  BY <1>1, <1>2
<1>5. SubSeq(s, position, m.begin - 1) \in Seq(Symbol)
  BY <1>4, PartIs
<1>6. SubSeq(s, m.begin + 1, m.end - 1) \in Seq(Symbol)
  BY <1>4, PartIs
<1> QED
  BY <1>1, <1>3, <1>5, <1>6 DEF String, Tag, Token

(* There is a function that has this at each place                          *)
LEMMA HtmlExists ==
  ASSUME NEW s \in Seq(Symbol)
  PROVE  \E f : f = [position \in 1 .. Len(s) + 1 |->
                       [mode \in Mode |-> HtmlFrom(f, s, position, mode)]]
<1> DEFINE k == Len(s) + 1
           Q == Seq(Token)
           X == [Mode -> Q]
           F == [1 .. k -> X]
           at(g, position) == [mode \in Mode |-> HtmlFrom(g, s, position, mode)]
           B == [g \in F |-> [position \in 1 .. k |-> at(g, position)]]
<1>1. k \in Nat
  OBVIOUS
<1>2. ASSUME NEW g \in F, NEW position \in 1 .. k, NEW mode \in Mode
      PROVE  HtmlFrom(g, s, position, mode) \in Q
  <2> DEFINE m == regexec_my(s, position, mode)
             rest == g[m.end + 1][m.mode]
  <2>1. CASE m = NoTag
    BY <2>1 DEF HtmlFrom
  <2>2. CASE m # NoTag
    <3>1. String(s, position, m) \in Token /\ Tag(s, m) \in Token
          /\ m.end + 1 \in 1 .. k /\ m.mode \in Mode
      BY <2>2, TokenTypes
    <3> HIDE DEF m, Q
    <3>2. rest \in Q
      BY <3>1
    <3> HIDE DEF rest
    <3>3. <<String(s, position, m)>> \in Seq(Token)
          /\ (IF m.begin + 1 < m.end THEN <<Tag(s, m)>> ELSE <<>>) \in Seq(Token)
      BY <3>1
    <3>4. <<String(s, position, m)>> \o (IF m.begin + 1 < m.end THEN <<Tag(s, m)>> ELSE <<>>)
            \o rest \in Seq(Token)
      BY <3>2, <3>3, ConcatProperties DEF Q
    <3> QED BY <2>2, <3>4 DEF HtmlFrom, m, rest, Q
  <2> QED BY <2>1, <2>2
<1>3. X # {}
  <2>1. [mode \in Mode |-> <<>>] \in X
    OBVIOUS
  <2> QED BY <2>1
<1> HIDE DEF Q, k
<1>4. \A g \in F : \A position \in 1 .. k : at(g, position) \in X
  BY <1>2
<1> HIDE DEF X
<1>5. \A g \in F : [position \in 1 .. k |-> at(g, position)] \in F
  BY <1>4
<1>6. B \in [F -> F]
  BY <1>5
<1>7. ASSUME NEW f \in F, NEW g \in F, NEW i \in 1 .. k,
             \A j \in 1 .. k : j > i => f[j] = g[j]
      PROVE  B[f][i] = B[g][i]
  <2>1. ASSUME NEW mode \in Mode
        PROVE  HtmlFrom(f, s, i, mode) = HtmlFrom(g, s, i, mode)
    <3> DEFINE m == regexec_my(s, i, mode)
    <3>1. CASE m = NoTag
      BY <3>1 DEF HtmlFrom
    <3>2. CASE m # NoTag
      <4>1. m.end + 1 \in 1 .. k /\ m.end + 1 > i
        BY <3>2, TokenTypes DEF k
      <4>2. f[m.end + 1] = g[m.end + 1]
        BY <1>7, <4>1
      <4> QED BY <4>2 DEF HtmlFrom
    <3> QED BY <3>1, <3>2
  <2>2. at(f, i) = at(g, i)
    BY <2>1, Zenon
  <2> HIDE DEF at
  <2> QED BY <2>2
<1> HIDE DEF B, F
<1>8. LooksBehind(B, F, k)
  BY <1>7 DEF LooksBehind
<1>9. F = [1 .. k -> X]
  BY DEF F
<1>10. \E f \in F : f = B[f]
  BY <1>1, <1>3, <1>6, <1>8, <1>9, FixedPoint
<1>11. PICK f \in F : f = B[f]
  BY <1>10
<1>12. f = [position \in 1 .. k |-> at(f, position)]
  BY <1>11 DEF B
<1> QED
  BY <1>12 DEF k

(* tokenize_html is what is made of the page from its beginning              *)
LEMMA HtmlIs ==
  ASSUME NEW s \in Seq(Symbol)
  PROVE  \E f : /\ \A position \in 1 .. Len(s) + 1 : \A mode \in Mode :
                     f[position][mode] = HtmlFrom(f, s, position, mode)
                /\ tokenize_html(s) = f[1]["plain"]
<1> DEFINE from == CHOOSE f : f = [position \in 1 .. Len(s) + 1 |->
                     [mode \in Mode |-> HtmlFrom(f, s, position, mode)]]
<1>1. PICK f : f = [position \in 1 .. Len(s) + 1 |->
                      [mode \in Mode |-> HtmlFrom(f, s, position, mode)]]
  BY HtmlExists
<1>2. from = [position \in 1 .. Len(s) + 1 |-> [mode \in Mode |-> HtmlFrom(from, s, position, mode)]]
  BY <1>1, Zenon
<1>3. tokenize_html(s) = from[1]["plain"]
  BY Zenon DEF tokenize_html, HtmlFrom, String, Tag, Mode
<1> HIDE DEF from
<1>4. \A position \in 1 .. Len(s) + 1 :
        from[position] = [mode \in Mode |-> HtmlFrom(from, s, position, mode)]
  BY <1>2, Zenon
<1>5. \A position \in 1 .. Len(s) + 1 : \A mode \in Mode :
        from[position][mode] = HtmlFrom(from, s, position, mode)
  BY <1>4
<1> QED
  BY <1>3, <1>5

(* The sequences of w are stretches of s, one behind the other              *)
Stretched(s, w, at, n) ==
  \A i \in 1 .. n : at[i - 1] <= at[i] /\ w[i] = SubSeq(s, at[i - 1] + 1, at[i])

(* ... and put together they are the beginning of s                         *)
LEMMA Stretches ==
  ASSUME NEW S, NEW s \in Seq(S), NEW w \in Seq(Seq(S)), NEW n, n = Len(w),
         NEW at \in [0 .. n -> 0 .. Len(s)], at[0] = 0, Stretched(s, w, at, n)
  PROVE  FlattenSeq(w) = SubSeq(s, 1, at[n])
<1>1. n \in Nat /\ Len(s) \in Nat
  OBVIOUS
<1>2. CASE n = 0
  <2>1. w = <<>> /\ FlattenSeq(w) = w
    BY <1>2, EmptySeq, Zenon DEF FlattenSeq
  <2>2. SubSeq(s, 1, 0) = <<>>
    OBVIOUS
  <2> QED BY <1>2, <2>1, <2>2
<1>3. CASE n > 0
  <2> DEFINE Sum(f) == f = [i \in 1 .. Len(w) |-> IF i = 1 THEN w[i] ELSE f[i - 1] \o w[i]]
             g == [i \in 1 .. Len(w) |-> SubSeq(s, 1, at[i])]
             flatten == CHOOSE f : Sum(f)
  <2>1. ASSUME NEW i \in 1 .. n
        PROVE  SubSeq(s, 1, at[i]) = IF i = 1 THEN w[i] ELSE SubSeq(s, 1, at[i - 1]) \o w[i]
    <3>1. i \in 0 .. n /\ i - 1 \in 0 .. n
      BY <1>1
    <3>2. at[i] \in 0 .. Len(s) /\ at[i - 1] \in 0 .. Len(s)
      BY <3>1
    <3>3. at[i - 1] <= at[i] /\ w[i] = SubSeq(s, at[i - 1] + 1, at[i])
      BY DEF Stretched
    <3>4. CASE i = 1
      <4>1. at[i - 1] + 1 = 1
        BY <3>4
      <4> QED BY <3>3, <3>4, <4>1
    <3>5. CASE i # 1
      <4> DEFINE j == at[i - 1]
                 k == at[i]
      <4> HIDE DEF j, k
      <4>1. j \in 0 .. Len(s) /\ k \in j .. Len(s) /\ 1 \in 1 .. Len(s) + 1 /\ j \in 1 - 1 .. Len(s)
        BY <1>1, <3>2, <3>3 DEF j, k
      <4>2. SubSeq(s, 1, j) \o SubSeq(s, j + 1, k) = SubSeq(s, 1, k)
        BY <4>1, ConcatAdjacentSubSeq
      <4> QED BY <3>3, <3>5, <4>2 DEF j, k
    <3> QED BY <3>4, <3>5
  <2>2. Sum(g)
    <3>1. ASSUME NEW i \in 1 .. Len(w)
          PROVE  g[i] = IF i = 1 THEN w[i] ELSE g[i - 1] \o w[i]
      <4>1. i = 1 \/ i - 1 \in 1 .. Len(w)
        BY <1>1
      <4> QED BY <2>1, <4>1
    <3> QED BY <3>1
  <2>3. Sum(flatten)
    <3> HIDE DEF Sum, g
    <3> QED BY <2>2, Zenon
  <2>4. FlattenSeq(w) = flatten[Len(w)]
    <3>1. ~(Len(w) = 0)
      BY <1>3
    <3> QED BY <3>1, Zenon DEF FlattenSeq
  <2> HIDE DEF flatten
  <2> DEFINE T == {i \in Nat : i \in 1 .. n => flatten[i] = SubSeq(s, 1, at[i])}
  <2>5. 0 \in T
    OBVIOUS
  <2>6. ASSUME NEW i \in Nat, i \in T PROVE i + 1 \in T
    <3> SUFFICES ASSUME i + 1 \in 1 .. n PROVE flatten[i + 1] = SubSeq(s, 1, at[i + 1])
      OBVIOUS
    <3>1. (i + 1) - 1 = i /\ (i + 1 = 1 \/ i \in 1 .. n)
      OBVIOUS
    <3>2. flatten[i + 1] = IF i + 1 = 1 THEN w[i + 1] ELSE flatten[(i + 1) - 1] \o w[i + 1]
      BY <2>3
    <3>3. i + 1 = 1 \/ flatten[i] = SubSeq(s, 1, at[i])
      BY <2>6, <3>1
    <3>4. SubSeq(s, 1, at[i + 1]) =
            IF i + 1 = 1 THEN w[i + 1] ELSE SubSeq(s, 1, at[(i + 1) - 1]) \o w[i + 1]
      BY <2>1
    <3> QED BY <3>1, <3>2, <3>3, <3>4
  <2> HIDE DEF T
  <2>7. Nat \subseteq T
    BY <2>5, <2>6, SetInduction
  <2> QED BY <1>3, <2>4, <2>7 DEF T
<1> QED
  BY <1>1, <1>2, <1>3

(* What the page has at a token, and what the mode is behind it             *)
Spelt(t, followed) ==
  IF t.tag THEN <<"<">> \o t.text \o <<">">>
  ELSE IF followed THEN t.text ELSE t.text \o <<"<", ">">>

IsScript(t) == t.tag /\ scriptmatch(t.text, 1)
Other(a)  == IF a = "plain" THEN "script" ELSE "plain"

Spans(s, t, followed, i, j, a, b) ==
  /\ i <= j /\ Spelt(t, followed) = SubSeq(s, i + 1, j)
  /\ b = IF IsScript(t) THEN Other(a) ELSE a
  /\ t.tag /\ Holds(t.text, ">") => a = "script" \/ t.text[1] = "!--"
  /\ ~t.tag /\ Holds(t.text, "<") =>
       /\ a = "script"
       /\ \A k \in DOMAIN t.text : t.text[k] = "<" => ~scriptmatch(t.text, k + 1)

Left(s, i, a) ==
  LET rest == SubSeq(s, i + 1, Len(s))
  IN (\E k, l \in DOMAIN rest : k < l /\ rest[k] = "<" /\ rest[l] = ">") =>
       a = "script" \/ Holds(rest, "!--")

(* The tokens ts are what is in the page from a place on: at is where each   *)
(* ends, mo the mode behind it                                             *)
ByTag(ts, k) == k < Len(ts) /\ ts[k + 1].tag
Follows(s, ts, at, mo) ==
  \A k \in 1 .. Len(ts) : Spans(s, ts[k], ByTag(ts, k), at[k - 1], at[k], mo[k - 1], mo[k])
Cut(s, ts, i, a) ==
  \E at \in [0 .. Len(ts) -> 0 .. Len(s)], mo \in [0 .. Len(ts) -> Mode] :
    /\ at[0] = i /\ mo[0] = a
    /\ Follows(s, ts, at, mo)
    /\ Left(s, at[Len(ts)], mo[Len(ts)])

(* No token, where nothing looks like a tag                                 *)
LEMMA CutNone ==
  ASSUME NEW s \in Seq(Symbol), NEW i \in 0 .. Len(s), NEW a \in Mode, Left(s, i, a)
  PROVE  Cut(s, <<>>, i, a)
<1> DEFINE at == [k \in 0 .. 0 |-> i]
           mo == [k \in 0 .. 0 |-> a]
<1>1. Len(<<>>) = 0
  OBVIOUS
<1>2. at \in [0 .. 0 -> 0 .. Len(s)] /\ mo \in [0 .. 0 -> Mode] /\ at[0] = i /\ mo[0] = a
  OBVIOUS
<1> HIDE DEF at, mo
<1>3. Follows(s, <<>>, at, mo)
  BY <1>1 DEF Follows
<1> QED
  BY <1>1, <1>2, <1>3 DEF Cut

(* One more token, in front                                                  *)
LEMMA CutFront ==
  ASSUME NEW s \in Seq(Symbol), NEW i \in 0 .. Len(s), NEW j \in 0 .. Len(s),
         NEW a \in Mode, NEW b \in Mode, NEW t \in Token, NEW us \in Seq(Token),
         Spans(s, t, ByTag(<<t>> \o us, 1), i, j, a, b), Cut(s, us, j, b)
  PROVE  Cut(s, <<t>> \o us, i, a)
<1> DEFINE ts == <<t>> \o us
           n == Len(us)
<1>1. n \in Nat /\ ts \in Seq(Token) /\ Len(ts) = n + 1 /\ ts[1] = t
      /\ \A k \in 1 .. n : ts[k + 1] = us[k]
  OBVIOUS
<1>2. PICK at \in [0 .. n -> 0 .. Len(s)], mo \in [0 .. n -> Mode] :
        /\ at[0] = j /\ mo[0] = b
        /\ Follows(s, us, at, mo)
        /\ Left(s, at[n], mo[n])
  BY DEF Cut
<1> HIDE DEF ts, n
<1> DEFINE at1 == [k \in 0 .. n + 1 |-> IF k = 0 THEN i ELSE at[k - 1]]
           mo1 == [k \in 0 .. n + 1 |-> IF k = 0 THEN a ELSE mo[k - 1]]
<1>3. /\ at1 \in [0 .. n + 1 -> 0 .. Len(s)] /\ mo1 \in [0 .. n + 1 -> Mode]
      /\ at1[0] = i /\ mo1[0] = a
      /\ \A k \in 0 .. n : at1[k + 1] = at[k] /\ mo1[k + 1] = mo[k]
  <2>1. \A k \in 0 .. n + 1 : k = 0 \/ k - 1 \in 0 .. n
    BY <1>1
  <2>2. \A k \in 0 .. n : k + 1 \in 0 .. n + 1 /\ k + 1 # 0 /\ (k + 1) - 1 = k
    BY <1>1
  <2>3. 0 \in 0 .. n + 1
    BY <1>1
  <2>4. at1 \in [0 .. n + 1 -> 0 .. Len(s)]
    BY <2>1
  <2>5. mo1 \in [0 .. n + 1 -> Mode]
    BY <2>1
  <2> QED BY <2>2, <2>3, <2>4, <2>5
<1> HIDE DEF at1, mo1
<1>4. ASSUME NEW k \in 1 .. n + 1
      PROVE  Spans(s, ts[k], ByTag(ts, k), at1[k - 1], at1[k], mo1[k - 1], mo1[k])
  <2>1. CASE k = 1
    <3>1. at1[0 + 1] = at[0] /\ mo1[0 + 1] = mo[0] /\ 0 + 1 = 1 /\ 1 - 1 = 0
      BY <1>1, <1>3
    <3>2. ts[1] = t /\ at1[1] = j /\ mo1[1] = b /\ at1[1 - 1] = i /\ mo1[1 - 1] = a
      BY <1>1, <1>2, <1>3, <3>1
    <3>3. ByTag(ts, 1) = ByTag(<<t>> \o us, 1)
      BY DEF ts
    <3> QED BY <2>1, <3>2, <3>3
  <2>2. CASE k # 1
    <3> DEFINE l == k - 1
    <3>1. l \in 1 .. n /\ l \in 0 .. n /\ l - 1 \in 0 .. n /\ l + 1 = k /\ (l - 1) + 1 = l
      BY <1>1, <2>2
    <3> HIDE DEF l
    <3>2. Spans(s, us[l], ByTag(us, l), at[l - 1], at[l], mo[l - 1], mo[l])
      BY <1>2, <3>1 DEF Follows, n
    <3>3. ts[k] = us[l] /\ at1[k] = at[l] /\ mo1[k] = mo[l]
      BY <1>1, <1>3, <3>1
    <3>4. at1[l] = at[l - 1] /\ mo1[l] = mo[l - 1]
      BY <1>3, <3>1
    <3>5. ByTag(ts, k) = ByTag(us, l)
      <4>1. k < Len(ts) <=> l < n
        BY <1>1, <3>1
      <4>2. l < n => l + 1 \in 1 .. n
        BY <1>1, <3>1
      <4>3. l < n => ts[k + 1] = us[l + 1]
        BY <1>1, <3>1, <4>2
      <4> QED BY <4>1, <4>3 DEF ByTag, n
    <3> QED BY <3>2, <3>3, <3>4, <3>5 DEF l
  <2> QED BY <2>1, <2>2
<1>5. Follows(s, ts, at1, mo1)
  BY <1>1, <1>4 DEF Follows
<1>6. Left(s, at1[n + 1], mo1[n + 1])
  BY <1>1, <1>2, <1>3
<1>7. Cut(s, ts, i, a)
  BY <1>1, <1>3, <1>5, <1>6 DEF Cut
<1> QED
  BY <1>7 DEF ts

(* The tag m makes is what is in the page from its beginning to its end     *)
LEMMA SpansTag ==
  ASSUME NEW s \in Seq(Symbol), NEW position \in 1 .. Len(s) + 1, NEW mode \in Mode,
         NEW m, m = regexec_my(s, position, mode), m # NoTag, NEW followed
  PROVE  Spans(s, Tag(s, m), followed, m.begin - 1, m.end, mode, m.mode)
<1> DEFINE b == m.begin
           e == m.end
           t == SubSeq(s, b + 1, e - 1)
<1>1. /\ b \in position .. Len(s) /\ e \in b + 1 .. Len(s)
      /\ s[b] = "<" /\ s[e] = ">"
      /\ mode = "plain" \/ scriptmatch(s, b + 1)
      /\ m.mode = IF mode = "plain" /\ scriptmatch(s, b + 1) THEN "script" ELSE "plain"
      /\ mode = "plain" /\ ~Comment(s, b, mode) => \A i \in b + 1 .. e - 1 : s[i] # ">"
  BY TagIs
<1> HIDE DEF b, e
<1>2. Len(s) \in Nat /\ b \in 1 .. Len(s) /\ e \in b + 1 .. Len(s) /\ b + 1 \in 1 .. Len(s) + 1
      /\ e - 1 \in (b + 1) - 1 .. Len(s)
  BY <1>1
<1>3. /\ t \in Seq(Symbol) /\ Len(t) = (e - 1) - (b + 1) + 1
      /\ \A i \in 1 .. (e - 1) - (b + 1) + 1 : t[i] = s[i + ((b + 1) - 1)]
  BY <1>2, PartIs
<1>4. Len(t) = e - b - 1 /\ \A i \in 1 .. e - b - 1 : t[i] = s[b + i]
  <2>1. Len(t) = e - b - 1
    BY <1>2, <1>3
  <2>2. ASSUME NEW i \in 1 .. e - b - 1 PROVE t[i] = s[b + i]
    <3>1. i \in 1 .. (e - 1) - (b + 1) + 1 /\ i + ((b + 1) - 1) = b + i
      BY <1>2
    <3> QED BY <1>3, <3>1
  <2> QED BY <2>1, <2>2
<1>5. scriptmatch(t, 1) <=> scriptmatch(s, b + 1)
  BY <1>1, <1>2, ScriptInside
<1> HIDE DEF t
<1>6. Tag(s, m) = [tag |-> TRUE, text |-> t]
  BY DEF Tag, t, b, e
<1>7. <<"<">> \o t \o <<">">> = SubSeq(s, (b - 1) + 1, e)
  <2> DEFINE u == <<"<">> \o t \o <<">">>
             v == SubSeq(s, b, e)
             n == Len(t)
  <2>1. (b - 1) + 1 = b /\ b \in 1 .. Len(s) + 1 /\ e \in b - 1 .. Len(s)
    BY <1>2
  <2>2. v \in Seq(Symbol) /\ Len(v) = e - b + 1 /\ \A i \in 1 .. e - b + 1 : v[i] = s[i + (b - 1)]
    BY <2>1, PartIs
  <2>3. <<"<">> \o t \in Seq(Symbol \cup {"<", ">"}) /\ Len(<<"<">> \o t) = 1 + n
        /\ \A i \in 1 .. 1 + n : (<<"<">> \o t)[i] = IF i = 1 THEN "<" ELSE t[i - 1]
    BY <1>3
  <2>4. u \in Seq(Symbol \cup {"<", ">"}) /\ Len(u) = n + 2
        /\ \A i \in 1 .. n + 2 : u[i] = IF i <= n + 1 THEN (<<"<">> \o t)[i] ELSE ">"
    BY <2>3
  <2>5. n = e - b - 1
    BY <1>4
  <2> HIDE DEF u, v, n
  <2>6. ASSUME NEW i \in 1 .. n + 2 PROVE u[i] = v[i]
    <3>1. i \in 1 .. e - b + 1 /\ n \in Nat
      BY <1>2, <2>5
    <3>2. v[i] = s[i + (b - 1)]
      BY <2>2, <3>1
    <3>3. CASE i = 1
      BY <1>1, <1>2, <2>3, <2>4, <3>1, <3>2, <3>3
    <3>4. CASE i = n + 2
      <4>1. i + (b - 1) = e /\ ~(i <= n + 1)
        BY <1>2, <2>5, <3>4
      <4> QED BY <1>1, <2>4, <3>2, <4>1
    <3>5. CASE i # 1 /\ i # n + 2
      <4>1. i - 1 \in 1 .. e - b - 1 /\ b + (i - 1) = i + (b - 1) /\ i <= n + 1 /\ i \in 1 .. 1 + n
        BY <1>2, <2>5, <3>1, <3>5
      <4>2. t[i - 1] = s[b + (i - 1)]
        BY <1>4, <4>1
      <4> QED BY <2>3, <2>4, <3>2, <3>5, <4>1, <4>2
    <3> QED BY <3>3, <3>4, <3>5
  <2>7. Len(u) = Len(v) /\ Len(u) = n + 2
    BY <1>2, <2>2, <2>4, <2>5
  <2>8. u \in Seq(Symbol \cup {"<", ">"}) /\ v \in Seq(Symbol \cup {"<", ">"})
    BY <2>2, <2>4
  <2>9. Len(u) = Len(v) /\ \A i \in 1 .. Len(u) : u[i] = v[i]
    BY <2>6, <2>7
  <2>10. u = v
    BY <2>8, <2>9
  <2> QED BY <2>1, <2>10 DEF u, v
<1>8. m.mode = IF scriptmatch(t, 1) THEN Other(mode) ELSE mode
  BY <1>1, <1>5 DEF Other, Mode
<1>9. ASSUME Holds(t, ">") PROVE mode = "script" \/ t[1] = "!--"
  <2> SUFFICES ASSUME mode = "plain" PROVE t[1] = "!--"
    BY DEF Mode
  <2>1. PICK i \in DOMAIN t : t[i] = ">"
    BY <1>9 DEF Holds
  <2>2. i \in 1 .. e - b - 1 /\ b + i \in b + 1 .. e - 1 /\ s[b + i] = ">"
    BY <1>2, <1>3, <1>4, <2>1
  <2>3. Comment(s, b, mode)
    BY <1>1, <2>2
  <2>4. 1 \in 1 .. e - b - 1
    BY <1>2, <2>2
  <2> QED BY <1>4, <2>3, <2>4 DEF Comment
<1>10. m.begin - 1 <= m.end
  BY <1>2 DEF b, e
<1> DEFINE u == Tag(s, m)
<1>11. u.tag /\ u.text = t
  BY <1>6
<1> HIDE DEF u
<1>12. Spelt(u, followed) = SubSeq(s, (b - 1) + 1, e)
  BY <1>7, <1>11 DEF Spelt
<1>13. m.mode = IF IsScript(u) THEN Other(mode) ELSE mode
  BY <1>8, <1>11 DEF IsScript
<1> QED
  BY <1>9, <1>10, <1>11, <1>12, <1>13 DEF Spans, b, e, u

(* The string before it, followed by it or by an empty tag                  *)
LEMMA SpansString ==
  ASSUME NEW s \in Seq(Symbol), NEW position \in 1 .. Len(s) + 1, NEW mode \in Mode,
         NEW m, m = regexec_my(s, position, mode), m # NoTag
  PROVE  /\ Spans(s, String(s, position, m), TRUE, position - 1, m.begin - 1, mode, mode)
         /\ m.begin + 1 = m.end =>
              /\ m.mode = mode
              /\ Spans(s, String(s, position, m), FALSE, position - 1, m.end, mode, mode)
<1> DEFINE b == m.begin
           e == m.end
           q == position
           t == SubSeq(s, q, b - 1)
<1>1. /\ b \in q .. Len(s) /\ e \in b + 1 .. Len(s)
      /\ s[b] = "<" /\ s[e] = ">"
      /\ mode = "plain" \/ scriptmatch(s, b + 1)
      /\ m.mode = IF mode = "plain" /\ scriptmatch(s, b + 1) THEN "script" ELSE "plain"
      /\ \A i \in q .. b - 1 : s[i] = "<" => mode = "script" /\ ~scriptmatch(s, i + 1)
  BY TagIs
<1> HIDE DEF b, e, q
<1>2. Len(s) \in Nat /\ q \in 1 .. Len(s) + 1 /\ b \in 1 .. Len(s) /\ b - 1 \in q - 1 .. Len(s)
  BY <1>1 DEF q
<1>3. /\ t \in Seq(Symbol) /\ Len(t) = (b - 1) - q + 1
      /\ \A i \in 1 .. (b - 1) - q + 1 : t[i] = s[i + (q - 1)]
  BY <1>2, PartIs
<1>4. ASSUME NEW i \in DOMAIN t, t[i] = "<" PROVE mode = "script" /\ ~scriptmatch(t, i + 1)
  <2>1. i \in 1 .. Len(t) /\ i \in 1 .. (b - 1) - q + 1 /\ i + (q - 1) \in q .. b - 1
    BY <1>2, <1>3
  <2>2. s[i + (q - 1)] = "<"
    BY <1>3, <1>4, <2>1
  <2>3. mode = "script" /\ ~scriptmatch(s, (i + (q - 1)) + 1)
    BY <1>1, <2>1, <2>2
  <2>4. (i + (q - 1)) + 1 = (i + 1) + (q - 1)
    BY <1>2, <2>1
  <2>5. scriptmatch(t, i + 1) => scriptmatch(s, (i + 1) + (q - 1))
    BY <1>2, <2>1, ScriptBefore
  <2> QED BY <2>3, <2>4, <2>5
<1> HIDE DEF t
<1>5. String(s, position, m) = [tag |-> FALSE, text |-> t]
  BY DEF String, t, b, q
<1>6. /\ Holds(t, "<") => mode = "script"
      /\ \A i \in DOMAIN t : t[i] = "<" => ~scriptmatch(t, i + 1)
  BY <1>4 DEF Holds
<1>7. q - 1 <= b - 1 /\ (q - 1) + 1 = q
  BY <1>1, <1>2
<1>8. t = SubSeq(s, (q - 1) + 1, b - 1)
  BY <1>7 DEF t
<1> DEFINE u == String(s, position, m)
<1>9. ~u.tag /\ u.text = t
  BY <1>5
<1> HIDE DEF u
<1>10. ~IsScript(u)
  BY <1>9 DEF IsScript
<1>11. Spans(s, u, TRUE, position - 1, m.begin - 1, mode, mode)
  <2>1. Spelt(u, TRUE) = SubSeq(s, (q - 1) + 1, b - 1)
    BY <1>8, <1>9 DEF Spelt
  <2> QED BY <1>6, <1>7, <1>9, <1>10, <2>1 DEF Spans, b, q
<1>12. ASSUME b + 1 = e
       PROVE  /\ m.mode = mode
              /\ Spans(s, u, FALSE, position - 1, m.end, mode, mode)
  <2>1. ~scriptmatch(s, b + 1)
    <3> DEFINE x == SubSeq(s, b + 1, e - 1)
    <3>1. b \in 1 .. Len(s) /\ e \in b + 1 .. Len(s)
      BY <1>1, <1>2
    <3> QED BY <1>1, <1>12, <3>1, ScriptInside
  <2>2. m.mode = mode
    BY <1>1, <2>1 DEF Mode
  <2>3. t \o <<"<", ">">> = SubSeq(s, q, e)
    <3> DEFINE w == t \o <<"<", ">">>
               v == SubSeq(s, q, e)
               n == Len(t)
    <3>1. q \in 1 .. Len(s) + 1 /\ e \in q - 1 .. Len(s) /\ e - q + 1 = n + 2 /\ n \in Nat
      BY <1>1, <1>2, <1>3, <1>12
    <3>2. v \in Seq(Symbol) /\ Len(v) = e - q + 1 /\ \A i \in 1 .. e - q + 1 : v[i] = s[i + (q - 1)]
      BY <3>1, PartIs
    <3>3. w \in Seq(Symbol \cup {"<", ">"}) /\ Len(w) = n + 2
          /\ \A i \in 1 .. n + 2 : w[i] = IF i <= n THEN t[i] ELSE IF i = n + 1 THEN "<" ELSE ">"
      BY <1>3
    <3>4. n = b - q /\ b \in Int /\ q \in Int
      BY <1>2, <1>3
    <3> HIDE DEF w, v, n
    <3>5. ASSUME NEW i \in 1 .. n + 2 PROVE w[i] = v[i]
      <4>1. i \in 1 .. e - q + 1 /\ v[i] = s[i + (q - 1)]
        BY <3>1, <3>2
      <4>2. CASE i <= n
        <5>1. i \in 1 .. (b - 1) - q + 1
          BY <3>1, <3>4, <4>2
        <5> QED BY <1>3, <3>3, <4>1, <4>2, <5>1
      <4>3. CASE i = n + 1
        <5>1. i + (q - 1) = b /\ ~(i <= n)
          BY <3>1, <3>4, <4>3
        <5> QED BY <1>1, <3>3, <4>1, <4>3, <5>1
      <4>4. CASE i = n + 2
        <5>1. i + (q - 1) = e /\ ~(i <= n) /\ i # n + 1
          BY <1>12, <3>1, <3>4, <4>4
        <5> QED BY <1>1, <3>3, <4>1, <5>1
      <4> QED BY <3>1, <4>2, <4>3, <4>4
    <3>6. Len(w) = Len(v)
      BY <3>1, <3>2, <3>3
    <3>7. w \in Seq(Symbol \cup {"<", ">"}) /\ v \in Seq(Symbol \cup {"<", ">"})
      BY <3>2, <3>3
    <3>8. w = v
      BY <3>3, <3>5, <3>6, <3>7
    <3> QED BY <3>8 DEF w, v
  <2>4. q - 1 <= e
    BY <1>1, <1>2
  <2>5. Spelt(u, FALSE) = SubSeq(s, (q - 1) + 1, e)
    BY <1>7, <1>9, <2>3 DEF Spelt
  <2> QED BY <1>6, <1>9, <1>10, <2>2, <2>4, <2>5 DEF Spans, e, q
<1> QED
  BY <1>11, <1>12 DEF b, e, u

(* What is made of the page from a place on is what the page is from there,  *)
(* and it does not begin with a tag                                        *)
LEMMA CutStep ==
  ASSUME NEW s \in Seq(Symbol), NEW position \in 1 .. Len(s) + 1, NEW mode \in Mode, NEW f,
         \A j \in 1 .. Len(s) + 1 : j > position => \A a \in Mode :
           f[j][a] \in Seq(Token) /\ Cut(s, f[j][a], j - 1, a) /\ ~ByTag(f[j][a], 0)
  PROVE  LET ts == HtmlFrom(f, s, position, mode)
         IN ts \in Seq(Token) /\ Cut(s, ts, position - 1, mode) /\ ~ByTag(ts, 0)
<1> DEFINE m == regexec_my(s, position, mode)
           ts == HtmlFrom(f, s, position, mode)
<1>1. Len(s) \in Nat /\ position \in Nat /\ position - 1 \in 0 .. Len(s)
  OBVIOUS
<1>2. CASE m = NoTag
  <2>1. ts = <<>>
    BY <1>2 DEF HtmlFrom
  <2>2. Left(s, position - 1, mode)
    <3> DEFINE rest == SubSeq(s, position, Len(s))
    <3>1. position \in 1 .. Len(s) + 1 /\ Len(s) \in position - 1 .. Len(s)
      BY <1>1
    <3>2. /\ rest \in Seq(Symbol) /\ Len(rest) = Len(s) - position + 1
          /\ \A i \in 1 .. Len(s) - position + 1 : rest[i] = s[i + (position - 1)]
          /\ \A j \in position .. Len(s) : rest[j + (1 - position)] = s[j]
      BY <3>1, PartIs
    <3>3. DOMAIN rest = 1 .. Len(s) - position + 1
      BY <3>2
    <3> HIDE DEF rest
    <3>4. ASSUME NEW k \in DOMAIN rest, NEW l \in DOMAIN rest, k < l, rest[k] = "<", rest[l] = ">"
          PROVE  mode = "script" \/ Holds(rest, "!--")
      <4> DEFINE x == k + (position - 1)
                 y == l + (position - 1)
      <4>1. x \in position .. Len(s) /\ y \in position .. Len(s) /\ x < y
        BY <1>1, <3>3, <3>4
      <4>2. s[x] = "<" /\ s[y] = ">"
        BY <3>2, <3>3, <3>4
      <4> HIDE DEF x, y
      <4>3. mode = "script" \/ \E i \in position .. Len(s) : s[i] = "!--"
        BY <1>2, <4>1, <4>2, NoTagIs
      <4>4. ASSUME NEW i \in position .. Len(s), s[i] = "!--" PROVE Holds(rest, "!--")
        <5>1. i + (1 - position) \in DOMAIN rest
          BY <1>1, <3>3
        <5>2. rest[i + (1 - position)] = "!--"
          BY <3>2, <4>4
        <5> QED BY <5>1, <5>2 DEF Holds
      <4> QED BY <4>3, <4>4
    <3>5. (position - 1) + 1 = position
      BY <1>1
    <3> QED BY <3>4, <3>5 DEF Left, rest
  <2>3. Cut(s, <<>>, position - 1, mode)
    BY <1>1, <2>2, CutNone
  <2>4. ~ByTag(<<>>, 0)
    BY DEF ByTag
  <2> QED BY <2>1, <2>3, <2>4
<1>3. CASE m # NoTag
  <2> DEFINE string == String(s, position, m)
             behind == Tag(s, m)
             us == f[m.end + 1][m.mode]
  <2>1. /\ string \in Token /\ behind \in Token
        /\ m.end + 1 \in 1 .. Len(s) + 1 /\ m.end + 1 > position /\ m.mode \in Mode
    BY <1>3, TokenTypes
  <2>2. us \in Seq(Token) /\ Cut(s, us, (m.end + 1) - 1, m.mode) /\ ~ByTag(us, 0)
    BY <2>1
  <2>3. m.begin \in position .. Len(s) /\ m.end \in m.begin + 1 .. Len(s)
    BY <1>3, TagIs
  <2>4. m.begin - 1 \in 0 .. Len(s) /\ m.end \in 0 .. Len(s) /\ (m.end + 1) - 1 = m.end
    BY <1>1, <2>3
  <2>5. Cut(s, us, m.end, m.mode)
    BY <2>2, <2>4
  <2>6. ~string.tag
    BY DEF String
  <2>7. behind.tag
    BY DEF Tag
  <2>8. ts = (<<string>> \o (IF m.begin + 1 < m.end THEN <<behind>> ELSE <<>>)) \o us
    BY <1>3 DEF HtmlFrom
  <2>9. /\ Spans(s, string, TRUE, position - 1, m.begin - 1, mode, mode)
        /\ m.begin + 1 = m.end =>
             m.mode = mode /\ Spans(s, string, FALSE, position - 1, m.end, mode, mode)
        /\ \A followed : Spans(s, behind, followed, m.begin - 1, m.end, mode, m.mode)
    BY <1>3, SpansString, SpansTag
  <2> HIDE DEF ts, string, behind, us, m
  <2>10. ASSUME NEW vs \in Seq(Token), ts = <<string>> \o vs
         PROVE  ts \in Seq(Token) /\ ~ByTag(ts, 0) /\ (ByTag(ts, 1) <=> ByTag(vs, 0))
    <3>1. ts \in Seq(Token) /\ Len(ts) = Len(vs) + 1 /\ ts[1] = string /\ Len(vs) \in Nat
          /\ \A k \in 1 .. Len(vs) : ts[k + 1] = vs[k]
      BY <2>1, <2>10
    <3>2. ts[0 + 1] = string
      BY <3>1
    <3>3. 1 < Len(ts) <=> 0 < Len(vs)
      BY <3>1
    <3>4. 0 < Len(vs) => ts[1 + 1] = vs[0 + 1]
      BY <3>1
    <3> QED BY <2>6, <3>1, <3>2, <3>3, <3>4 DEF ByTag
  <2>11. CASE m.begin + 1 < m.end
    <3> DEFINE vs == <<behind>> \o us
    <3>1. vs \in Seq(Token) /\ Len(vs) = Len(us) + 1 /\ Len(us) \in Nat /\ vs[1] = behind
      BY <2>1, <2>2
    <3>2. ByTag(vs, 0)
      BY <2>7, <3>1 DEF ByTag
    <3>3. Cut(s, vs, m.begin - 1, mode)
      BY <2>1, <2>2, <2>4, <2>5, <2>9, CutFront
    <3>4. ts = <<string>> \o vs
      <4>1. <<string>> \in Seq(Token) /\ <<behind>> \in Seq(Token)
        BY <2>1
      <4>2. (<<string>> \o <<behind>>) \o us = <<string>> \o (<<behind>> \o us)
        BY <2>2, <4>1, ConcatAssociative
      <4> QED BY <2>8, <2>11, <4>2
    <3> HIDE DEF vs
    <3>5. ts \in Seq(Token) /\ ~ByTag(ts, 0) /\ ByTag(ts, 1) /\ ByTag(<<string>> \o vs, 1)
      BY <2>10, <3>1, <3>2, <3>4
    <3>6. ByTag(<<string>> \o vs, 1) = TRUE
      BY <3>5 DEF ByTag
    <3>7. Cut(s, <<string>> \o vs, position - 1, mode)
      BY <1>1, <2>1, <2>4, <2>9, <3>1, <3>3, <3>6, CutFront
    <3> QED BY <3>4, <3>5, <3>7 DEF ts
  <2>12. CASE m.begin + 1 = m.end
    <3>1. ts = <<string>> \o us
      <4>1. <<string>> \in Seq(Token)
        BY <2>1
      <4>2. <<string>> \o <<>> = <<string>>
        BY <4>1, ConcatEmptySeq
      <4>3. ~(m.begin + 1 < m.end)
        BY <2>3, <2>12
      <4> QED BY <2>8, <4>2, <4>3
    <3>2. ts \in Seq(Token) /\ ~ByTag(ts, 0) /\ ~ByTag(ts, 1) /\ ~ByTag(<<string>> \o us, 1)
      BY <2>2, <2>10, <3>1
    <3>3. ByTag(<<string>> \o us, 1) = FALSE
      BY <3>2 DEF ByTag
    <3>4. m.mode = mode /\ Spans(s, string, FALSE, position - 1, m.end, mode, mode)
      BY <2>9, <2>12
    <3>5. Cut(s, <<string>> \o us, position - 1, mode)
      BY <1>1, <2>1, <2>2, <2>4, <2>5, <3>3, <3>4, CutFront
    <3> QED BY <3>1, <3>2, <3>5 DEF ts
  <2>13. m.begin + 1 < m.end \/ m.begin + 1 = m.end
    <3> DEFINE b == m.begin
               e == m.end
    <3>1. Len(s) \in Int /\ position \in Int /\ b \in position .. Len(s) /\ e \in b + 1 .. Len(s)
      BY <1>1, <2>3
    <3> HIDE DEF b, e
    <3>2. b + 1 < e \/ b + 1 = e
      BY <3>1
    <3> QED BY <3>2 DEF b, e
  <2> QED BY <2>11, <2>12, <2>13 DEF ts
<1> QED
  BY <1>2, <1>3

(* So tokenize_html makes of a page what it is                              *)
LEMMA PageIsCut ==
  ASSUME NEW s \in Seq(Symbol)
  PROVE  tokenize_html(s) \in Seq(Token) /\ Cut(s, tokenize_html(s), 0, "plain")
<1> DEFINE Right(f, i) == \A a \in Mode :
             f[i][a] \in Seq(Token) /\ Cut(s, f[i][a], i - 1, a) /\ ~ByTag(f[i][a], 0)
<1>1. PICK f : /\ \A position \in 1 .. Len(s) + 1 : \A mode \in Mode :
                    f[position][mode] = HtmlFrom(f, s, position, mode)
               /\ tokenize_html(s) = f[1]["plain"]
  BY HtmlIs
<1> DEFINE T == {i \in 1 .. Len(s) + 1 : Right(f, i)}
<1>2. ASSUME NEW i \in 1 .. Len(s) + 1, \A j \in 1 .. Len(s) + 1 : j > i => j \in T
      PROVE  i \in T
  <2>1. ASSUME NEW a \in Mode
        PROVE  f[i][a] \in Seq(Token) /\ Cut(s, f[i][a], i - 1, a) /\ ~ByTag(f[i][a], 0)
    <3>1. \A j \in 1 .. Len(s) + 1 : j > i => \A b \in Mode :
            f[j][b] \in Seq(Token) /\ Cut(s, f[j][b], j - 1, b) /\ ~ByTag(f[j][b], 0)
      BY <1>2
    <3>2. f[i][a] = HtmlFrom(f, s, i, a)
      BY <1>1
    <3> QED BY <3>1, <3>2, CutStep
  <2> QED BY <2>1
<1> HIDE DEF T
<1>3. 1 .. Len(s) + 1 \subseteq T
  <2>1. Len(s) + 1 \in Nat
    OBVIOUS
  <2> QED BY <1>2, <2>1, Backwards
<1>4. 1 \in T
  <2>1. 1 \in 1 .. Len(s) + 1
    OBVIOUS
  <2> QED BY <1>3, <2>1
<1>5. f[1]["plain"] \in Seq(Token) /\ Cut(s, f[1]["plain"], 1 - 1, "plain")
  BY <1>4 DEF T, Mode
<1> QED
  BY <1>1, <1>5

(* Of two numbers that follow each other one is odd                         *)
LEMMA OneMore ==
  ASSUME NEW x \in Nat
  PROVE  (x + 1) % 2 = 1 <=> ~(x % 2 = 1)
OBVIOUS

(* The mode behind a token is that of a script if an odd number of tags up   *)
(* to it are tags of scripts                                               *)
LEMMA ModeIsParity ==
  ASSUME NEW ts \in Seq(Token), NEW mo \in [0 .. Len(ts) -> Mode], mo[0] = "plain",
         \A k \in 1 .. Len(ts) : mo[k] = IF IsScript(ts[k]) THEN Other(mo[k - 1]) ELSE mo[k - 1]
  PROVE  \A k \in 0 .. Len(ts) :
           mo[k] = "script" <=> Cardinality({j \in 1 .. k : IsScript(ts[j])}) % 2 = 1
<1> DEFINE S(k) == {j \in 1 .. k : IsScript(ts[j])}
           T == {k \in Nat : k \in 0 .. Len(ts) => (mo[k] = "script" <=> Cardinality(S(k)) % 2 = 1)}
<1>1. ASSUME NEW k \in Nat
      PROVE  IsFiniteSet(S(k)) /\ Cardinality(S(k)) \in Nat
  <2>1. IsFiniteSet(1 .. k)
    BY FS_Interval
  <2>2. S(k) \subseteq 1 .. k
    OBVIOUS
  <2> HIDE DEF S
  <2>3. IsFiniteSet(S(k))
    BY <2>1, <2>2, FS_Subset
  <2> QED BY <2>3, FS_CardinalityType
<1>2. 0 \in T
  <2>1. S(0) = {}
    OBVIOUS
  <2>2. Cardinality(S(0)) = 0
    BY <2>1, FS_EmptySet
  <2> QED BY <2>2
<1>3. ASSUME NEW k \in Nat, k \in T PROVE k + 1 \in T
  <2> SUFFICES ASSUME k + 1 \in 0 .. Len(ts)
               PROVE  mo[k + 1] = "script" <=> Cardinality(S(k + 1)) % 2 = 1
    OBVIOUS
  <2>1. k + 1 \in 1 .. Len(ts) /\ k \in 0 .. Len(ts) /\ (k + 1) - 1 = k
    OBVIOUS
  <2>2. mo[k] = "script" <=> Cardinality(S(k)) % 2 = 1
    BY <1>3, <2>1
  <2>3. mo[k + 1] = IF IsScript(ts[k + 1]) THEN Other(mo[k]) ELSE mo[k]
    BY <2>1
  <2>4. mo[k] = "plain" \/ mo[k] = "script"
    BY <2>1 DEF Mode
  <2>5. CASE IsScript(ts[k + 1])
    <3>1. S(k + 1) = S(k) \cup {k + 1} /\ k + 1 \notin S(k)
      BY <2>5
    <3>2. IsFiniteSet(S(k)) /\ Cardinality(S(k)) \in Nat
      BY <1>1
    <3> HIDE DEF S
    <3>3. Cardinality(S(k + 1)) = Cardinality(S(k)) + 1
      BY <3>1, <3>2, FS_AddElement
    <3>4. Cardinality(S(k + 1)) % 2 = 1 <=> ~(Cardinality(S(k)) % 2 = 1)
      BY <3>2, <3>3, OneMore
    <3> QED BY <2>2, <2>3, <2>4, <2>5, <3>4 DEF Other
  <2>6. CASE ~IsScript(ts[k + 1])
    <3>1. S(k + 1) = S(k)
      BY <2>6
    <3> QED BY <2>2, <2>3, <2>6, <3>1
  <2> QED BY <2>5, <2>6
<1>4. Nat \subseteq T
  <2> HIDE DEF T
  <2> QED BY <1>2, <1>3, SetInduction
<1> QED
  BY <1>4

(* What is cut from the beginning of the page on is the page               *)
LEMMA CutIsThePage ==
  ASSUME str \in Seq(Symbol), data \in Seq(Token), Cut(str, data, 0, "plain")
  PROVE  TokensAreThePage
<1> DEFINE n == Len(data)
           E == Symbol \cup {"<", ">"}
<1>1. PICK at \in [0 .. n -> 0 .. Len(str)], mo \in [0 .. n -> Mode] :
        /\ at[0] = 0 /\ mo[0] = "plain"
        /\ Follows(str, data, at, mo)
        /\ Left(str, at[n], mo[n])
  BY DEF Cut
<1>2. n \in Nat /\ DOMAIN data = 1 .. n /\ Len(str) \in Nat /\ str \in Seq(E)
      /\ \A k \in 1 .. n : data[k] \in Token
  OBVIOUS
<1> HIDE DEF n, E
<1>3. \A k \in 1 .. n :
        Spans(str, data[k], ByTag(data, k), at[k - 1], at[k], mo[k - 1], mo[k])
  BY <1>1 DEF Follows, n
<1>4. ASSUME NEW k \in 1 .. n
      PROVE  /\ Written(k) = SubSeq(str, at[k - 1] + 1, at[k]) /\ Written(k) \in Seq(E)
             /\ at[k - 1] <= at[k]
  <2>1. Written(k) = Spelt(data[k], ByTag(data, k))
    <3>1. (k = n \/ ~data[k + 1].tag) <=> ~ByTag(data, k)
      <4>1. k = n <=> ~(k < n)
        BY <1>2
      <4> QED BY <4>1 DEF ByTag, n
    <3> QED BY <3>1 DEF Written, Spelt, n
  <2>2. Spelt(data[k], ByTag(data, k)) = SubSeq(str, at[k - 1] + 1, at[k]) /\ at[k - 1] <= at[k]
    BY <1>3 DEF Spans
  <2>3. at[k - 1] \in 0 .. Len(str) /\ at[k] \in 0 .. Len(str)
    <3>1. k - 1 \in 0 .. n /\ k \in 0 .. n
      BY <1>2
    <3> QED BY <3>1
  <2>4. SubSeq(str, at[k - 1] + 1, at[k]) \in Seq(E)
    <3> DEFINE x == at[k - 1] + 1
               y == at[k]
    <3>1. x \in Int /\ y \in Int /\ \A i \in x .. y : i \in 1 .. Len(str)
      BY <1>2, <2>3
    <3> HIDE DEF x, y
    <3>2. \A i \in x .. y : str[i] \in E
      BY <1>2, <3>1
    <3>3. SubSeq(str, x, y) \in Seq(E)
      BY <3>1, <3>2, SubSeqProperties
    <3> QED BY <3>3 DEF x, y
  <2> QED BY <2>1, <2>2, <2>4
<1> DEFINE w == [k \in DOMAIN data |-> Written(k)]
<1>5. w \in Seq(Seq(E)) /\ Len(w) = n /\ \A k \in 1 .. n : w[k] = Written(k)
  <2>1. w \in [1 .. n -> Seq(E)]
    BY <1>2, <1>4
  <2> DEFINE Q == Seq(E)
  <2>2. w \in [1 .. n -> Q]
    BY <2>1
  <2>3. \A k \in 1 .. n : w[k] = Written(k)
    BY <1>2
  <2> HIDE DEF Q, w
  <2>4. w \in Seq(Q) /\ Len(w) = n
    BY <1>2, <2>2
  <2> QED BY <2>3, <2>4 DEF Q
<1> HIDE DEF w
<1> DEFINE written == FlattenSeq(w)
           z == at[n]
<1>6. written = SubSeq(str, 1, z)
  <2>1. Stretched(str, w, at, n)
    BY <1>4, <1>5 DEF Stretched
  <2>2. at \in [0 .. n -> 0 .. Len(str)] /\ at[0] = 0
    BY <1>1
  <2>3. n = Len(w) /\ str \in Seq(E) /\ w \in Seq(Seq(E))
    BY <1>2, <1>5
  <2> HIDE DEF w
  <2>4. FlattenSeq(w) = SubSeq(str, 1, at[n])
    BY <2>1, <2>2, <2>3, Stretches
  <2> QED BY <2>4
<1>7. z \in 0 .. Len(str)
  BY <1>1, <1>2
<1> HIDE DEF written, z
<1>8. Len(written) = z
  <2>1. 1 \in 1 .. Len(str) + 1 /\ z \in 1 - 1 .. Len(str)
    BY <1>2, <1>7
  <2> QED BY <1>6, <2>1, PartIs
<1>9. IsPrefix(written, str)
  <2>1. z <= Len(str) /\ z \in Int
    BY <1>2, <1>7
  <2>2. SubSeq(written, 1, z) = SubSeq(str, 1, z)
    <3>1. \A i \in 1 .. z : i \in 1 .. Len(str)
      BY <1>2, <1>7
    <3>2. \A i \in 1 .. z : str[i] \in Symbol
      BY <3>1
    <3>3. written \in Seq(Symbol)
      BY <1>6, <2>1, <3>2, SubSeqProperties
    <3> QED BY <1>6, <1>8, <3>3
  <2> QED BY <1>8, <2>1, <2>2 DEF IsPrefix
<1>10. \A k \in 0 .. n : mo[k] = "script" <=> Cardinality({j \in 1 .. k : IsScript(data[j])}) % 2 = 1
  <2>1. \A k \in 1 .. n : mo[k] = IF IsScript(data[k]) THEN Other(mo[k - 1]) ELSE mo[k - 1]
    BY <1>3 DEF Spans
  <2> QED BY <1>1, <2>1, ModeIsParity DEF n
<1>11. ASSUME NEW k \in 1 .. n + 1
       PROVE  InScript(k) <=> mo[k - 1] = "script"
  <2>1. k - 1 \in 0 .. n
    BY <1>2
  <2>2. {j \in 1 .. k - 1 : IsScript(data[j])} = {j \in 1 .. k - 1 : ScriptTag(j)}
    BY DEF IsScript, ScriptTag
  <2> QED BY <1>10, <2>1, <2>2 DEF InScript
<1>12. ASSUME NEW k \in DOMAIN data
       PROVE  /\ data[k].tag /\ Holds(data[k].text, ">") => InScript(k) \/ data[k].text[1] = "!--"
              /\ ~data[k].tag /\ Holds(data[k].text, "<") =>
                   /\ InScript(k)
                   /\ \A i \in DOMAIN data[k].text :
                        data[k].text[i] = "<" => ~scriptmatch(data[k].text, i + 1)
  <2>1. k \in 1 .. n /\ k \in 1 .. n + 1
    BY <1>2
  <2>2. InScript(k) <=> mo[k - 1] = "script"
    BY <1>11, <2>1
  <2>3. Spans(str, data[k], ByTag(data, k), at[k - 1], at[k], mo[k - 1], mo[k])
    BY <1>3, <2>1
  <2> QED BY <2>2, <2>3 DEF Spans
<1>13. LET rest == SubSeq(str, Len(written) + 1, Len(str))
       IN (\E i, j \in DOMAIN rest : i < j /\ rest[i] = "<" /\ rest[j] = ">") =>
            InScript(Len(data) + 1) \/ Holds(rest, "!--")
  <2>1. Left(str, z, mo[n])
    BY <1>1 DEF z
  <2>2. InScript(n + 1) <=> mo[n] = "script"
    <3>1. n + 1 \in 1 .. n + 1 /\ (n + 1) - 1 = n
      BY <1>2
    <3> QED BY <1>11, <3>1
  <2> QED BY <1>8, <2>1, <2>2 DEF Left, n
<1> QED
  BY <1>9, <1>12, <1>13, Zenon DEF TokensAreThePage, written, w

(* "a token is a tag, or a comment or a <script></script>" (mlex.c:135), and *)
(* the tokens are the page, in its order, without a gap, a script or a      *)
(* comment in one piece: whatever the page is, and for the whole search.    *)
THEOREM TokensAreRight == Spec => []TokensAreThePage
<1> DEFINE PageInv == str \in Seq(Symbol) /\ data \in Seq(Token) /\ Cut(str, data, 0, "plain")
<1>1. Init => PageInv
  <2> SUFFICES ASSUME Init PROVE PageInv
    OBVIOUS
  <2>1. str \in Seq(Symbol) /\ data = tokenize_html(str)
    BY Inputs DEF Init
  <2> QED BY <2>1, PageIsCut
<1>2. PageInv /\ [Next]_vars => PageInv'
  <2> SUFFICES ASSUME PageInv, [Next]_vars PROVE PageInv'
    OBVIOUS
  <2>1. str' = str /\ data' = data
    BY DEF Next, Found, Backtrack, Fails, PatternEnds, DataEnds, NextStart, vars, input
  <2> QED BY <2>1
<1>3. PageInv => TokensAreThePage
  BY CutIsThePage
<1> QED
  BY <1>1, <1>2, <1>3, PTL DEF Spec

-----------------------------------------------------------------------------
(* The tokens of an expression, as they are cut *)

(* What tokenize_exp makes of the expression from a place on               *)
ExpFrom(f, s, position) ==
  LET m == regexec_myext(s, position)
  IN IF m = NoTag THEN <<>>
     ELSE <<StringToken(s, position, m.begin - 1)>>
          \o (IF m.begin + 1 < m.end
                THEN <<[tag |-> TRUE, opt |-> s[m.begin] = "{",
                        text |-> SubSeq(s, m.begin + 1, m.end - 1)]>>
                ELSE <<>>)
          \o f[m.end + 1]

(* A stretch of an expression has its symbols only                           *)
LEMMA SubSeqType ==
  ASSUME NEW s \in Seq(Symbol), NEW a \in Int, NEW e \in Int, a >= 1, e <= Len(s)
  PROVE  SubSeq(s, a, e) \in Seq(Symbol)
<1>1. \A i \in a .. e : i \in 1 .. Len(s)
  OBVIOUS
<1>2. \A i \in a .. e : s[i] \in Symbol
  BY <1>1
<1> QED
  BY <1>2, SubSeqProperties

(* They are tokens, and what follows them is further on in the expression   *)
LEMMA ExpTokenTypes ==
  ASSUME NEW s \in Seq(Symbol), NEW position \in 1 .. Len(s) + 1,
         NEW m, m = regexec_myext(s, position), m # NoTag
  PROVE  /\ m.end + 1 \in 1 .. Len(s) + 1 /\ m.end + 1 > position
         /\ StringToken(s, position, m.begin - 1) \in ExpToken
         /\ [tag |-> TRUE, opt |-> s[m.begin] = "{",
             text |-> SubSeq(s, m.begin + 1, m.end - 1)] \in ExpToken
<1> DEFINE P == {i \in position .. Len(s) : s[i] \in {"<", "{"}}
           b == Min(P)
           Q == {i \in b + 1 .. Len(s) : s[i] \in {">", "}"}}
           e == Min(Q)
<1>1. P # {} /\ Q # {} /\ m = [begin |-> b, end |-> e, mode |-> "plain"]
  BY Zenon DEF regexec_myext
<1>2. Len(s) \in Nat /\ position \in Nat /\ 1 <= position
  OBVIOUS
<1>3. P \subseteq position .. Len(s) /\ Q \subseteq b + 1 .. Len(s)
  OBVIOUS
<1> HIDE DEF P, Q
<1>4. P \subseteq Nat
  BY <1>2, <1>3
<1>5. b \in position .. Len(s)
  BY <1>1, <1>3, <1>4, MinIs
<1> HIDE DEF b
<1>6. Q \subseteq Nat
  BY <1>2, <1>3, <1>5
<1>7. e \in b + 1 .. Len(s)
  BY <1>1, <1>3, <1>6, MinIs
<1> HIDE DEF e
<1>8. /\ e + 1 \in 1 .. Len(s) + 1 /\ e + 1 > position
      /\ position \in Int /\ position + 1 \in Int /\ position + 1 >= 1 /\ position >= 1
      /\ b - 1 \in Int /\ (b - 1) - 1 \in Int /\ b - 1 <= Len(s) /\ (b - 1) - 1 <= Len(s)
      /\ b + 1 \in Int /\ b + 1 >= 1 /\ e - 1 \in Int /\ e - 1 <= Len(s)
  BY <1>2, <1>5, <1>7
<1>9. /\ SubSeq(s, position + 1, (b - 1) - 1) \in Seq(Symbol)
      /\ SubSeq(s, position, b - 1) \in Seq(Symbol)
      /\ SubSeq(s, b + 1, e - 1) \in Seq(Symbol)
  BY <1>8, SubSeqType
<1>10. StringToken(s, position, b - 1) \in ExpToken
  BY <1>9 DEF StringToken, ExpToken
<1>11. [tag |-> TRUE, opt |-> s[b] = "{", text |-> SubSeq(s, b + 1, e - 1)] \in ExpToken
  BY <1>9 DEF ExpToken
<1>12. m.begin = b /\ m.end = e
  BY <1>1
<1> QED
  BY <1>8, <1>10, <1>11, <1>12

(* There is a function that has this at each place                          *)
LEMMA ExpExists ==
  ASSUME NEW s \in Seq(Symbol)
  PROVE  \E f : /\ f = [position \in 1 .. Len(s) + 1 |-> ExpFrom(f, s, position)]
                /\ f \in [1 .. Len(s) + 1 -> Seq(ExpToken)]
<1> DEFINE k == Len(s) + 1
           X == Seq(ExpToken)
           F == [1 .. k -> X]
           B == [g \in F |-> [position \in 1 .. k |-> ExpFrom(g, s, position)]]
<1>1. k \in Nat
  OBVIOUS
<1>2. ASSUME NEW g \in F, NEW position \in 1 .. k
      PROVE  ExpFrom(g, s, position) \in X
  <2> DEFINE m == regexec_myext(s, position)
             x == StringToken(s, position, m.begin - 1)
             y == [tag |-> TRUE, opt |-> s[m.begin] = "{",
                   text |-> SubSeq(s, m.begin + 1, m.end - 1)]
             one == <<x>>
             two == IF m.begin + 1 < m.end THEN <<y>> ELSE <<>>
             rest == g[m.end + 1]
  <2>1. CASE m = NoTag
    BY <2>1 DEF ExpFrom
  <2>2. CASE m # NoTag
    <3>1. /\ m.end + 1 \in 1 .. k
          /\ x \in ExpToken /\ y \in ExpToken
      BY <2>2, ExpTokenTypes
    <3>2. ExpFrom(g, s, position) = (one \o two) \o rest
      BY <2>2 DEF ExpFrom
    <3> HIDE DEF m, X, x, y
    <3>3. one \in Seq(ExpToken) /\ two \in Seq(ExpToken)
      BY <3>1
    <3>4. rest \in X
      BY <3>1
    <3> HIDE DEF one, two, rest
    <3>5. (one \o two) \o rest \in Seq(ExpToken)
      BY <3>3, <3>4, ConcatProperties DEF X
    <3> QED BY <3>2, <3>5 DEF X
  <2> QED BY <2>1, <2>2
<1>3. X # {}
  <2>1. <<>> \in X
    OBVIOUS
  <2> QED BY <2>1
<1> HIDE DEF X, k
<1>4. \A g \in F : [position \in 1 .. k |-> ExpFrom(g, s, position)] \in F
  BY <1>2
<1>5. B \in [F -> F]
  BY <1>4
<1>6. ASSUME NEW f \in F, NEW g \in F, NEW i \in 1 .. k,
             \A j \in 1 .. k : j > i => f[j] = g[j]
      PROVE  B[f][i] = B[g][i]
  <2>1. ExpFrom(f, s, i) = ExpFrom(g, s, i)
    <3> DEFINE m == regexec_myext(s, i)
    <3>1. CASE m = NoTag
      BY <3>1 DEF ExpFrom
    <3>2. CASE m # NoTag
      <4>1. m.end + 1 \in 1 .. k /\ m.end + 1 > i
        BY <3>2, ExpTokenTypes DEF k
      <4>2. f[m.end + 1] = g[m.end + 1]
        BY <1>6, <4>1
      <4> QED BY <4>2 DEF ExpFrom
    <3> QED BY <3>1, <3>2
  <2> QED BY <2>1
<1> HIDE DEF B, F
<1>7. LooksBehind(B, F, k)
  BY <1>6 DEF LooksBehind
<1>8. F = [1 .. k -> X]
  BY DEF F
<1>9. \E f \in F : f = B[f]
  BY <1>1, <1>3, <1>5, <1>7, <1>8, FixedPoint
<1>10. PICK f \in F : f = B[f]
  BY <1>9
<1>11. f = [position \in 1 .. k |-> ExpFrom(f, s, position)]
  BY <1>10 DEF B
<1> QED
  BY <1>8, <1>10, <1>11 DEF k, X

(* So tokenize_exp makes tokens of an expression                            *)
LEMMA ExpressionIsCut ==
  ASSUME NEW s \in Seq(Symbol)
  PROVE  tokenize_exp(s) \in Seq(ExpToken)
<1> DEFINE from == CHOOSE f : f = [position \in 1 .. Len(s) + 1 |-> ExpFrom(f, s, position)]
           K == 1 .. Len(s) + 1
           X == Seq(ExpToken)
<1>1. PICK f : f = [position \in K |-> ExpFrom(f, s, position)] /\ f \in [K -> X]
  BY ExpExists
<1>2. from = [position \in K |-> ExpFrom(from, s, position)]
  BY <1>1, Zenon
<1>3. tokenize_exp(s) = from[1]
  BY Zenon DEF tokenize_exp, ExpFrom
<1> HIDE DEF from
<1> DEFINE T == {i \in K : from[i] = f[i]}
<1>4. ASSUME NEW i \in 1 .. Len(s) + 1, \A j \in 1 .. Len(s) + 1 : j > i => j \in T
      PROVE  i \in T
  <2> DEFINE m == regexec_myext(s, i)
  <2>1. from[i] = ExpFrom(from, s, i) /\ f[i] = ExpFrom(f, s, i)
    BY <1>1, <1>2
  <2>2. CASE m = NoTag
    BY <2>1, <2>2 DEF ExpFrom
  <2>3. CASE m # NoTag
    <3>1. m.end + 1 \in 1 .. Len(s) + 1 /\ m.end + 1 > i
      BY <2>3, ExpTokenTypes
    <3>2. from[m.end + 1] = f[m.end + 1]
      BY <1>4, <3>1
    <3> QED BY <2>1, <3>2 DEF ExpFrom
  <2> QED BY <2>2, <2>3
<1> HIDE DEF T
<1>5. 1 .. Len(s) + 1 \subseteq T
  <2>1. Len(s) + 1 \in Nat
    OBVIOUS
  <2> QED BY <1>4, <2>1, Backwards
<1>6. 1 \in 1 .. Len(s) + 1
  OBVIOUS
<1>7. from[1] = f[1]
  BY <1>5, <1>6 DEF T
<1> QED
  BY <1>1, <1>3, <1>6, <1>7

(* Both ways of cutting end, with a sequence of tokens                     *)
LEMMA Tokenized ==
  \A i \in Input : tokenize_html(i[1]) \in Seq(Token) /\ tokenize_exp(i[2]) \in Seq(ExpToken)
<1> SUFFICES ASSUME NEW i \in Input
             PROVE  tokenize_html(i[1]) \in Seq(Token) /\ tokenize_exp(i[2]) \in Seq(ExpToken)
  OBVIOUS
<1>1. i[1] \in Seq(Symbol) /\ i[2] \in Seq(Symbol)
  BY Inputs
<1> QED
  BY <1>1, PageIsCut, ExpressionIsCut

-----------------------------------------------------------------------------
(* The tokens of an expression *)

(* The tokens of a page and of an expression are numbered from 1, and      *)
(* finitely many of the expression's are optional or required              *)
LEMMA Tokens ==
  ASSUME TypeOK
  PROVE  /\ Len(pattern) \in Nat /\ DOMAIN pattern = 1 .. Len(pattern)
         /\ Len(data) \in Nat /\ DOMAIN data = 1 .. Len(data)
         /\ Optional \subseteq 1 .. Len(pattern)
         /\ Required = 1 .. Len(pattern) \ Optional
         /\ IsFiniteSet(Optional) /\ IsFiniteSet(Required)
         /\ Cardinality(Required) \in Nat
<1>1. pattern \in Seq(ExpToken) /\ data \in Seq(Token)
  BY DEF TypeOK
<1>2. Len(pattern) \in Nat /\ DOMAIN pattern = 1 .. Len(pattern)
  BY <1>1
<1>3. Len(data) \in Nat /\ DOMAIN data = 1 .. Len(data)
  BY <1>1
<1>4. Optional \subseteq 1 .. Len(pattern) /\ Required = 1 .. Len(pattern) \ Optional
  BY <1>2 DEF Optional, Required
<1>5. IsFiniteSet(1 .. Len(pattern))
  BY <1>2, FS_Interval
<1>6. IsFiniteSet(Optional) /\ IsFiniteSet(Required)
  BY <1>4, <1>5, FS_Subset
<1> QED
  BY <1>2, <1>3, <1>4, <1>6, FS_CardinalityType

(* There is a number of tokens that are matched before a token             *)
LEMMA BeforeFinite ==
  ASSUME TypeOK, NEW c \in SUBSET Optional, NEW i \in Int
  PROVE  /\ Before(i, c) \subseteq 1 .. Len(pattern)
         /\ IsFiniteSet(Before(i, c)) /\ Cardinality(Before(i, c)) \in Nat
<1>1. Before(i, c) \subseteq 1 .. Len(pattern)
  BY Tokens DEF Before
<1>2. IsFiniteSet(1 .. Len(pattern))
  BY Tokens, FS_Interval
<1>3. IsFiniteSet(Before(i, c))
  BY <1>1, <1>2, FS_Subset
<1> QED
  BY <1>1, <1>3, FS_CardinalityType

(* Before the first token of the expression there is none                  *)
LEMMA BeforeFirst ==
  ASSUME TypeOK, NEW c \in SUBSET Optional
  PROVE  Before(1, c) = {} /\ Cardinality(Before(1, c)) = 0
<1>1. Before(1, c) = {}
  BY Tokens DEF Before
<1> QED
  BY <1>1, FS_EmptySet

(* A token that is passed over adds nothing to those before it, a token    *)
(* that is matched adds itself                                             *)
LEMMA BeforeNext ==
  ASSUME TypeOK, NEW c \in SUBSET Optional, NEW i \in 1 .. Len(pattern)
  PROVE  /\ i \in Required \cup c =>
              Cardinality(Before(i + 1, c)) = Cardinality(Before(i, c)) + 1
         /\ i \notin Required \cup c => Before(i + 1, c) = Before(i, c)
<1>1. Required \cup c \subseteq Int /\ i \in Int
  BY Tokens
<1>2. i \notin Required \cup c => Before(i + 1, c) = Before(i, c)
  BY <1>1 DEF Before
<1>3. ASSUME i \in Required \cup c
      PROVE  Cardinality(Before(i + 1, c)) = Cardinality(Before(i, c)) + 1
  <2>1. Before(i + 1, c) = Before(i, c) \cup {i} /\ i \notin Before(i, c)
    BY <1>1, <1>3 DEF Before
  <2>2. IsFiniteSet(Before(i, c))
    BY <1>1, BeforeFinite
  <2> QED BY <2>1, <2>2, FS_AddElement
<1> QED
  BY <1>2, <1>3

(* A later token has no fewer tokens before it                             *)
LEMMA BeforeGrows ==
  ASSUME TypeOK, NEW c \in SUBSET Optional, NEW i \in Int, NEW j \in Int, i <= j
  PROVE  Cardinality(Before(i, c)) <= Cardinality(Before(j, c))
<1>1. Before(i, c) \subseteq Before(j, c)
  <2>1. Required \cup c \subseteq Int
    BY Tokens
  <2> QED BY <2>1 DEF Before
<1>2. IsFiniteSet(Before(j, c))
  BY BeforeFinite
<1> QED
  BY <1>1, <1>2, FS_Subset

(* A match is as long as the required tokens and the chosen ones together  *)
LEMMA BeforeAll ==
  ASSUME TypeOK, NEW c \in SUBSET Optional
  PROVE  /\ Before(Len(pattern) + 1, c) = Required \cup c
         /\ Cardinality(Before(Len(pattern) + 1, c)) = exp_min_len + Cardinality(c)
         /\ Cardinality(c) \in Nat
<1>1. Before(Len(pattern) + 1, c) = Required \cup c
  <2>1. Required \cup c \subseteq 1 .. Len(pattern) /\ Len(pattern) \in Nat
    BY Tokens
  <2>2. \A j \in Required \cup c : j < Len(pattern) + 1
    BY <2>1
  <2> QED BY <2>2 DEF Before
<1>2. IsFiniteSet(c) /\ IsFiniteSet(Required) /\ Required \cap c = {}
  BY Tokens, FS_Subset
<1>3. Cardinality(Required \cup c) = Cardinality(Required) + Cardinality(c)
  <2>1. Cardinality(Required \cap c) = 0
    BY <1>2, FS_EmptySet
  <2>2. Cardinality(Required) \in Nat /\ Cardinality(c) \in Nat
    BY <1>2, FS_CardinalityType
  <2>3. Cardinality(Required \cup c) =
          Cardinality(Required) + Cardinality(c) - Cardinality(Required \cap c)
    BY <1>2, FS_Union
  <2> QED BY <2>1, <2>2, <2>3
<1>4. Cardinality(c) \in Nat
  BY <1>2, FS_CardinalityType
<1> QED
  BY <1>1, <1>3, <1>4 DEF exp_min_len

(* Choices that agree before a token have it at the same place              *)
LEMMA SameBefore ==
  ASSUME TypeOK, NEW c \in SUBSET Optional, NEW e \in SUBSET Optional,
         NEW i \in Int, Earlier(i, c) = Earlier(i, e), NEW j \in Int, j <= i
  PROVE  Before(j, c) = Before(j, e) /\ Earlier(j, c) = Earlier(j, e)
<1>1. Required \cup c \cup e \subseteq Int
  BY Tokens
<1>2. \A k \in Int : k < j => (k \in c <=> k \in e)
  <2> SUFFICES ASSUME NEW k \in Int, k < j PROVE k \in c <=> k \in e
    OBVIOUS
  <2>1. k < i
    OBVIOUS
  <2>2. (k \in Earlier(i, c)) <=> (k \in Earlier(i, e))
    OBVIOUS
  <2> QED BY <2>1, <2>2 DEF Earlier
<1> QED
  BY <1>1, <1>2 DEF Before, Earlier

(* To leave out the tokens from j on changes nothing before j              *)
LEMMA EarlierTypes ==
  ASSUME TypeOK, NEW e \in SUBSET Optional, NEW j \in Int
  PROVE  /\ Earlier(j, e) \in SUBSET Optional /\ \A k \in Earlier(j, e) : k < j
         /\ \A i \in Int : i <= j => /\ Earlier(i, Earlier(j, e)) = Earlier(i, e)
                                     /\ Before(i, Earlier(j, e)) = Before(i, e)
<1>1. Required \cup e \subseteq Int
  BY Tokens
<1> QED
  BY <1>1 DEF Earlier, Before

(* What is chosen before the token that follows q                          *)
LEMMA EarlierNext ==
  ASSUME NEW c, c \subseteq Int, NEW q \in Int
  PROVE  /\ q \in c => Earlier(q + 1, c) = Earlier(q, c) \cup {q}
         /\ q \notin c => Earlier(q + 1, c) = Earlier(q, c)
<1>1. \A k \in c : k < q + 1 <=> (k < q \/ k = q)
  OBVIOUS
<1>2. ~(q < q)
  OBVIOUS
<1> QED
  BY <1>1, <1>2, Zenon DEF Earlier

(* All the chosen tokens are earlier than one that is later than each of   *)
(* them                                                                    *)
LEMMA EarlierAll ==
  ASSUME NEW e, NEW q, \A j \in e : j < q
  PROVE  Earlier(q, e) = e
BY DEF Earlier

(* A choice is its last token and those before it                          *)
LEMMA EarlierLast ==
  ASSUME NEW e, e \subseteq Int, NEW j \in e, \A k \in e : k <= j
  PROVE  e = Earlier(j, e) \cup {j} /\ j \notin Earlier(j, e)
<1>1. \A k \in e : k < j \/ k = j
  OBVIOUS
<1>2. ~(j < j)
  OBVIOUS
<1> QED
  BY <1>1, <1>2, Zenon DEF Earlier

-----------------------------------------------------------------------------
(* What the steps of a search make of its path *)

(* A token has the same place in choices that have the same before it      *)
LEMMA SamePlace ==
  ASSUME NEW i, NEW c, NEW e, NEW s, Before(i, c) = Before(i, e)
  PROVE  Place(i, c, s) = Place(i, e, s)
BY DEF Before, Place

(* The place of a token is as many tokens after s as are matched before    *)
(* it                                                                      *)
LEMMA PlaceIs ==
  ASSUME NEW i, NEW c, NEW s
  PROVE  Place(i, c, s) = s + Cardinality(Before(i, c))
BY DEF Before, Place

(* A token that is matched: a choice that passes it over leaves the path    *)
LEMMA TakeToken ==
  ASSUME TypeOK, NEW q \in 1 .. Len(pattern), NEW e \in SUBSET Optional,
         Goes(q, e), Complete(q, e),
         Place(q, e, start) \in DOMAIN data, Matched(data[Place(q, e, start)], pattern[q]),
         NEW f, f = e \cup ({q} \cap Optional)
  PROVE  /\ f \in SUBSET Optional
         /\ \A j \in 1 .. q : Before(j, f) = Before(j, e) /\ Earlier(j, f) = Earlier(j, e)
         /\ Cardinality(Before(q + 1, f)) = Cardinality(Before(q, e)) + 1
         /\ Goes(q + 1, f) /\ Complete(q + 1, f)
<1>1. f \in SUBSET Optional /\ Required \cup f \subseteq Int /\ q \in Required \cup f
  BY Tokens
<1>2. \A j \in e : j < q
  BY DEF Goes
<1>3. \A j \in 1 .. q : Before(j, f) = Before(j, e) /\ Earlier(j, f) = Earlier(j, e)
  BY <1>1 DEF Before, Earlier
<1>4. Before(q + 1, f) = Before(q, e) \cup {q}
  BY <1>1, <1>2, <1>3 DEF Before
<1>5. Cardinality(Before(q + 1, f)) = Cardinality(Before(q, e)) + 1
  <2>1. q \in 1 .. q
    OBVIOUS
  <2> QED BY <1>1, <1>3, <2>1, BeforeNext
<1>6. Goes(q + 1, f)
  <2>1. \A j \in f : j < q + 1
    BY <1>1, <1>2
  <2>2. ASSUME NEW i \in Before(q + 1, f)
        PROVE  /\ Place(i, f, start) \in DOMAIN data
               /\ Matched(data[Place(i, f, start)], pattern[i])
    <3>1. i \in 1 .. q
      BY <1>1, Tokens DEF Before
    <3>2. Place(i, f, start) = Place(i, e, start)
      BY <1>3, <3>1, SamePlace
    <3>3. CASE i = q
      BY <3>2, <3>3
    <3>4. CASE i # q
      BY <1>4, <3>2, <3>4 DEF Goes
    <3> QED BY <3>3, <3>4
  <2> QED BY <2>1, <2>2 DEF Goes
<1>7. Complete(q + 1, f)
  <2> SUFFICES ASSUME NEW c \in SUBSET Optional, MatchesFrom(start, c)
               PROVE  Earlier(q + 1, c) = f \/ Leaves(c, f)
    BY DEF Complete
  <2>1. CASE Leaves(c, e)
    <3>1. PICK i \in e \ c : Earlier(i, c) = Earlier(i, e)
      BY <2>1 DEF Leaves
    <3>2. i \in 1 .. q
      BY <1>2, Tokens
    <3> QED BY <1>3, <3>1, <3>2 DEF Leaves
  <2>2. CASE Earlier(q, c) = e
    <3>1. c \subseteq Int /\ q \in Int
      BY Tokens
    <3>2. CASE q \in c
      <4>1. q \in Optional /\ f = e \cup {q}
        BY <3>2
      <4>2. Earlier(q + 1, c) = Earlier(q, c) \cup {q}
        BY <3>1, <3>2, EarlierNext
      <4> QED BY <2>2, <4>1, <4>2
    <3>3. CASE q \notin c /\ q \in Optional
      <4>0. q \in f \ c /\ q \in 1 .. q
        BY <1>1, <3>3
      <4>1. Earlier(q, f) = Earlier(q, e)
        BY <1>3, <4>0
      <4>2. Earlier(q, e) = e
        BY <1>2, EarlierAll
      <4> QED BY <2>2, <4>0, <4>1, <4>2 DEF Leaves
    <3>4. CASE q \notin Optional
      <4>1. q \notin c /\ f = e
        BY <3>4
      <4>2. Earlier(q + 1, c) = Earlier(q, c)
        BY <3>1, <4>1, EarlierNext
      <4> QED BY <2>2, <4>1, <4>2
    <3> QED BY <3>2, <3>3, <3>4
  <2> QED BY <2>1, <2>2 DEF Complete
<1> QED
  BY <1>1, <1>3, <1>5, <1>6, <1>7

(* No match goes on from the path through a token that does not match       *)
LEMMA DeadEnd ==
  ASSUME TypeOK, NEW q \in 1 .. Len(pattern), NEW e \in SUBSET Optional,
         ~(/\ Place(q, e, start) \in DOMAIN data
           /\ Matched(data[Place(q, e, start)], pattern[q])),
         NEW c \in SUBSET Optional, MatchesFrom(start, c), Earlier(q, c) = e,
         \A j \in e : j < q
  PROVE  q \notin Required \cup c
<1>1. Earlier(q, e) = e
  BY DEF Earlier
<1>2. Before(q, c) = Before(q, e)
  <2>1. q \in Int /\ q <= q
    OBVIOUS
  <2> QED BY <1>1, <2>1, SameBefore
<1>3. Place(q, c, start) = Place(q, e, start)
  BY <1>2, SamePlace
<1> QED
  BY <1>3 DEF MatchesFrom

(* An optional token that is passed over *)
LEMMA PassToken ==
  ASSUME TypeOK, NEW q \in 1 .. Len(pattern), NEW e \in SUBSET Optional,
         Goes(q, e), Complete(q, e), q \in Optional,
         ~(/\ Place(q, e, start) \in DOMAIN data
           /\ Matched(data[Place(q, e, start)], pattern[q]))
  PROVE  /\ Before(q + 1, e) = Before(q, e)
         /\ Goes(q + 1, e) /\ Complete(q + 1, e)
<1>1. \A j \in e : j < q /\ j \in Int
  BY Tokens DEF Goes
<1>2. q \notin Required \cup e
  BY <1>1, Tokens
<1>3. Before(q + 1, e) = Before(q, e)
  BY <1>2, BeforeNext
<1>4. \A j \in e : j < q + 1
  BY <1>1
<1>5. Goes(q + 1, e)
  BY <1>3, <1>4 DEF Goes
<1>6. Complete(q + 1, e)
  <2> SUFFICES ASSUME NEW c \in SUBSET Optional, MatchesFrom(start, c), Earlier(q, c) = e
               PROVE  Earlier(q + 1, c) = e
    BY DEF Complete
  <2>1. q \notin c
    BY <1>1, DeadEnd
  <2>2. c \subseteq Int /\ q \in Int
    BY Tokens
  <2>3. Earlier(q + 1, c) = Earlier(q, c)
    BY <2>1, <2>2, EarlierNext
  <2> QED BY <2>3
<1> QED
  BY <1>3, <1>5, <1>6

(* A required token that does not match: the search goes back to the last   *)
(* optional one that it has matched, and passes it over                    *)
LEMMA PopToken ==
  ASSUME TypeOK, NEW q \in 1 .. Len(pattern), NEW e \in SUBSET Optional,
         Goes(q, e), Complete(q, e), q \in Required,
         ~(/\ Place(q, e, start) \in DOMAIN data
           /\ Matched(data[Place(q, e, start)], pattern[q])),
         NEW j \in e, \A k \in e : k <= j,
         NEW f, f = Earlier(j, e)
  PROVE  /\ f \in SUBSET Optional
         /\ Before(j + 1, f) = Before(j, e)
         /\ Goes(j + 1, f) /\ Complete(j + 1, f)
<1>1. j \in 1 .. Len(pattern) /\ j < q /\ j \notin Required
  BY Tokens DEF Goes
<1>2. f \in SUBSET Optional /\ \A k \in f : k < j /\ k \in Int
  <2>1. f \in SUBSET Optional /\ \A k \in f : k < j
    BY <1>1, EarlierTypes
  <2>2. f \subseteq Int
    BY <2>1, Tokens
  <2> QED BY <2>1, <2>2
<1>3. \A i \in Int : i <= j => Before(i, f) = Before(i, e) /\ Earlier(i, f) = Earlier(i, e)
  <2>1. j \in Int
    BY <1>1
  <2> QED BY <2>1, EarlierTypes
<1>4. e = f \cup {j} /\ j \notin f
  <2>1. e \subseteq Int
    BY Tokens
  <2> QED BY <2>1, EarlierLast
<1>5. Before(j + 1, f) = Before(j, e)
  <2>1. Before(j + 1, f) = Before(j, f)
    BY <1>1, <1>2, <1>4, BeforeNext
  <2> QED BY <1>1, <1>3, <2>1
<1>6. Goes(j + 1, f)
  <2>1. \A k \in f : k < j + 1
    BY <1>1, <1>2
  <2>2. ASSUME NEW i \in Before(j + 1, f)
        PROVE  /\ Place(i, f, start) \in DOMAIN data
               /\ Matched(data[Place(i, f, start)], pattern[i])
    <3>1. i \in Before(j, e)
      BY <1>5
    <3>2. i \in Int /\ i < j /\ i \in Before(q, e)
      BY <1>1, <3>1, BeforeFinite DEF Before
    <3>3. Place(i, f, start) = Place(i, e, start)
      BY <1>1, <1>3, <3>2, SamePlace
    <3> QED BY <3>2, <3>3 DEF Goes
  <2> QED BY <2>1, <2>2 DEF Goes
<1>7. Complete(j + 1, f)
  <2> SUFFICES ASSUME NEW c \in SUBSET Optional, MatchesFrom(start, c)
               PROVE  Earlier(j + 1, c) = f \/ Leaves(c, f)
    BY DEF Complete
  <2>1. ~(Earlier(q, c) = e)
    BY DeadEnd DEF Goes
  <2>2. PICK i \in e \ c : Earlier(i, c) = Earlier(i, e)
    BY <2>1 DEF Complete, Leaves
  <2>3. c \subseteq Int /\ j \in Int
    BY <1>1, Tokens
  <2>4. CASE i = j
    <3>1. j \notin c
      BY <2>2, <2>4
    <3>2. Earlier(j + 1, c) = Earlier(j, c)
      BY <2>3, <3>1, EarlierNext
    <3> QED BY <2>2, <2>4, <3>2
  <2>5. CASE i # j
    <3>1. i \in f \ c /\ i \in Int /\ i <= j
      BY <1>2, <1>4, <2>2, <2>5, <1>1
    <3> QED BY <1>3, <2>2, <3>1 DEF Leaves
  <2> QED BY <2>4, <2>5
<1> QED
  BY <1>2, <1>5, <1>6, <1>7

-----------------------------------------------------------------------------
(* The stack *)

(* Choices that agree before an optional token come to it alike            *)
LEMMA SameFrom ==
  ASSUME NEW j, NEW e, NEW f, Before(j, e) = Before(j, f), Earlier(j, e) = Earlier(j, f)
  PROVE  From(j, e) = From(j, f)
<1>1. Place(j, e, start) = Place(j, f, start)
  BY SamePlace
<1> QED
  BY <1>1 DEF From

(* What a sequence is with one more element in front                       *)
LEMMA Prepend ==
  ASSUME NEW S, NEW x \in S, NEW st \in Seq(S)
  PROVE  /\ <<x>> \o st \in Seq(S) /\ <<x>> \o st # <<>>
         /\ Len(<<x>> \o st) = Len(st) + 1
         /\ (<<x>> \o st)[1] = x /\ Head(<<x>> \o st) = x
         /\ \A k \in 1 .. Len(st) : (<<x>> \o st)[k + 1] = st[k]
         /\ Tail(<<x>> \o st) = st
<1>1. <<x>> \in Seq(S) /\ Len(<<x>>) = 1 /\ <<x>>[1] = x
  OBVIOUS
<1>2. <<x>> \o st \in Seq(S) /\ Len(<<x>> \o st) = Len(st) + 1
  BY <1>1
<1>3. (<<x>> \o st)[1] = x /\ <<x>> \o st # <<>>
  BY <1>1, <1>2
<1>4. \A k \in 1 .. Len(st) : (<<x>> \o st)[k + 1] = st[k]
  BY <1>1
<1>5. Head(<<x>> \o st) = x /\ Tail(<<x>> \o st) = st
  BY <1>1, <1>2, <1>3, <1>4
<1> QED
  BY <1>2, <1>3, <1>4, <1>5

(* An optional token that is matched goes on top of the stack              *)
LEMMA Push ==
  ASSUME TypeOK, NEW q \in Optional, NEW e \in SUBSET Optional, \A j \in e : j < q,
         NEW st \in Seq(Back), OnStack(st, e), From(q, e) \in Back
  PROVE  OnStack(<<From(q, e)>> \o st, e \cup {q})
<1> DEFINE f == e \cup {q}
           x == From(q, e)
           u == <<x>> \o st
<1>1. q \in Int /\ e \subseteq Int
  BY Tokens
<1>2. \A j \in f : From(j, e) = From(j, f)
  <2> SUFFICES ASSUME NEW j \in f PROVE From(j, e) = From(j, f)
    OBVIOUS
  <2>1. j <= q /\ j \in Int
    BY <1>1
  <2>2. Before(j, e) = Before(j, f) /\ Earlier(j, e) = Earlier(j, f)
    BY <1>1, <2>1 DEF Before, Earlier
  <2> QED BY <2>2, SameFrom
<1>3. /\ u \in Seq(Back) /\ Len(st) \in Nat /\ Len(u) = Len(st) + 1 /\ u[1] = x
      /\ \A k \in 1 .. Len(st) : u[k + 1] = st[k]
  BY Prepend
<1> HIDE DEF u
<1>4. \A k \in 1 .. Len(u) : k = 1 \/ (k - 1 \in 1 .. Len(st) /\ u[k] = st[k - 1])
  <2> SUFFICES ASSUME NEW k \in 1 .. Len(u), k # 1
               PROVE  k - 1 \in 1 .. Len(st) /\ u[k] = st[k - 1]
    OBVIOUS
  <2>1. k - 1 \in 1 .. Len(st) /\ (k - 1) + 1 = k
    BY <1>3
  <2> QED BY <1>3, <2>1
<1>5. \A k \in 1 .. Len(u) : \E j \in f : u[k] = From(j, f)
  <2> SUFFICES ASSUME NEW k \in 1 .. Len(u) PROVE \E j \in f : u[k] = From(j, f)
    OBVIOUS
  <2>1. CASE k = 1
    BY <1>2, <1>3, <2>1
  <2>2. CASE k - 1 \in 1 .. Len(st) /\ u[k] = st[k - 1]
    <3>1. PICK j \in e : st[k - 1] = From(j, e)
      BY <2>2 DEF OnStack
    <3> QED BY <1>2, <2>2, <3>1
  <2> QED BY <1>4, <2>1, <2>2
<1>6. \A j \in f : \E k \in 1 .. Len(u) : u[k].p = j + 1
  <2> SUFFICES ASSUME NEW j \in f PROVE \E k \in 1 .. Len(u) : u[k].p = j + 1
    OBVIOUS
  <2>1. CASE j = q
    <3>1. 1 \in 1 .. Len(u) /\ u[1].p = j + 1
      BY <1>3, <2>1 DEF From
    <3> QED BY <3>1
  <2>2. CASE j \in e
    <3>1. PICK k \in 1 .. Len(st) : st[k].p = j + 1
      BY <2>2 DEF OnStack
    <3>2. k + 1 \in 1 .. Len(u) /\ u[k + 1].p = j + 1
      BY <1>3, <3>1
    <3> QED BY <3>2
  <2> QED BY <2>1, <2>2
<1>7. \A k, l \in 1 .. Len(u) : k < l => u[k].p > u[l].p
  <2> SUFFICES ASSUME NEW k \in 1 .. Len(u), NEW l \in 1 .. Len(u), k < l
               PROVE  u[k].p > u[l].p
    OBVIOUS
  <2>1. l - 1 \in 1 .. Len(st) /\ u[l] = st[l - 1]
    BY <1>3, <1>4
  <2>2. CASE k = 1
    <3>1. PICK j \in e : st[l - 1] = From(j, e)
      BY <2>1 DEF OnStack
    <3>2. u[l].p = j + 1 /\ j \in Int /\ j < q
      BY <1>1, <2>1, <3>1 DEF From
    <3>3. u[k].p = q + 1
      BY <1>3, <2>2 DEF From
    <3> QED BY <1>1, <3>2, <3>3
  <2>3. CASE k # 1
    <3>1. k - 1 \in 1 .. Len(st) /\ u[k] = st[k - 1] /\ k - 1 < l - 1
      BY <1>4, <1>3, <2>3
    <3> QED BY <2>1, <3>1 DEF OnStack
  <2> QED BY <2>2, <2>3
<1> QED
  BY <1>5, <1>6, <1>7 DEF OnStack, u

(* The top of a stack that is not empty is the last optional token that    *)
(* is matched, and the rest of it those before                             *)
LEMMA Pop ==
  ASSUME TypeOK, NEW e \in SUBSET Optional,
         NEW st \in Seq(Back), OnStack(st, e), st # <<>>
  PROVE  \E j \in e : /\ \A k \in e : k <= j
                      /\ Head(st) = From(j, e)
                      /\ OnStack(Tail(st), Earlier(j, e))
<1>1. Len(st) \in Nat /\ 1 \in 1 .. Len(st) /\ Head(st) = st[1]
  BY EmptySeq
<1>2. PICK j \in e : st[1] = From(j, e)
  BY <1>1 DEF OnStack
<1>3. e \subseteq Int /\ j \in Int
  BY Tokens
<1>4. \A k \in 1 .. Len(st) : \A i \in e : st[k].p = i + 1 /\ k # 1 => i < j
  <2> SUFFICES ASSUME NEW k \in 1 .. Len(st), NEW i \in e, st[k].p = i + 1, k # 1
               PROVE  i < j
    OBVIOUS
  <2>1. 1 < k
    BY <1>1
  <2>2. st[1].p > st[k].p
    BY <1>1, <2>1 DEF OnStack
  <2>3. st[1].p = j + 1
    BY <1>2 DEF From
  <2> QED BY <1>3, <2>2, <2>3
<1>5. \A k \in e : k <= j
  <2> SUFFICES ASSUME NEW i \in e PROVE i <= j
    OBVIOUS
  <2>1. PICK k \in 1 .. Len(st) : st[k].p = i + 1
    BY DEF OnStack
  <2>2. CASE k = 1
    <3>1. st[1].p = j + 1
      BY <1>2 DEF From
    <3> QED BY <1>3, <2>1, <2>2, <3>1
  <2>3. CASE k # 1
    BY <1>3, <1>4, <2>1, <2>3
  <2> QED BY <2>2, <2>3
<1> DEFINE t == Tail(st)
           f == Earlier(j, e)
<1>6. /\ t \in Seq(Back) /\ Len(t) = Len(st) - 1
      /\ \A k \in 1 .. Len(t) : t[k] = st[k + 1] /\ k + 1 \in 1 .. Len(st) /\ k + 1 # 1
  <2>1. t \in Seq(Back) /\ Len(t) = Len(st) - 1
    BY <1>1
  <2>2. \A k \in 1 .. Len(t) : t[k] = st[k + 1]
    BY <1>1, <2>1
  <2>3. \A k \in 1 .. Len(t) : k + 1 \in 1 .. Len(st) /\ k + 1 # 1
    BY <1>1, <2>1
  <2> QED BY <2>1, <2>2, <2>3
<1>7. \A i \in f : i \in e /\ i < j /\ From(i, f) = From(i, e)
  <2> SUFFICES ASSUME NEW i \in f PROVE i \in e /\ i < j /\ From(i, f) = From(i, e)
    OBVIOUS
  <2>1. i \in e /\ i < j /\ i \in Int /\ i <= j
    BY <1>3 DEF Earlier
  <2>2. Before(i, f) = Before(i, e) /\ Earlier(i, f) = Earlier(i, e)
    BY <1>3, <2>1, EarlierTypes
  <2> QED BY <2>1, <2>2, SameFrom
<1> HIDE DEF t
<1>8. \A k \in 1 .. Len(t) : \E i \in f : t[k] = From(i, f)
  <2> SUFFICES ASSUME NEW k \in 1 .. Len(t) PROVE \E i \in f : t[k] = From(i, f)
    OBVIOUS
  <2>1. PICK i \in e : st[k + 1] = From(i, e)
    BY <1>6 DEF OnStack
  <2>2. st[k + 1].p = i + 1
    BY <2>1 DEF From
  <2>3. i < j
    BY <1>4, <1>6, <2>2
  <2>4. i \in f
    BY <2>3 DEF Earlier
  <2> QED BY <1>6, <1>7, <2>1, <2>4
<1>9. \A i \in f : \E k \in 1 .. Len(t) : t[k].p = i + 1
  <2> SUFFICES ASSUME NEW i \in f PROVE \E k \in 1 .. Len(t) : t[k].p = i + 1
    OBVIOUS
  <2>0. i \in e /\ i < j /\ i \in Int
    BY <1>3, <1>7
  <2>1. PICK k \in 1 .. Len(st) : st[k].p = i + 1
    BY <2>0 DEF OnStack
  <2>2. k # 1
    <3>1. st[1].p = j + 1
      BY <1>2 DEF From
    <3> QED BY <1>3, <2>0, <2>1, <3>1
  <2>3. k - 1 \in 1 .. Len(t) /\ (k - 1) + 1 = k
    BY <1>1, <1>6, <2>2
  <2>4. t[k - 1] = st[k]
    BY <1>6, <2>3
  <2> QED BY <2>1, <2>3, <2>4
<1>10. \A k, l \in 1 .. Len(t) : k < l => t[k].p > t[l].p
  <2> SUFFICES ASSUME NEW k \in 1 .. Len(t), NEW l \in 1 .. Len(t), k < l
               PROVE  t[k].p > t[l].p
    OBVIOUS
  <2>1. k + 1 < l + 1 /\ k + 1 \in 1 .. Len(st) /\ l + 1 \in 1 .. Len(st)
    BY <1>6
  <2>2. st[k + 1].p > st[l + 1].p
    BY <2>1 DEF OnStack
  <2> QED BY <1>6, <2>2
<1>11. OnStack(t, f)
  BY <1>8, <1>9, <1>10 DEF OnStack
<1> QED
  BY <1>1, <1>2, <1>5, <1>11 DEF t

(* The stack is empty when no optional token is matched, and only then     *)
LEMMA NothingOnStack ==
  ASSUME NEW e
  PROVE  /\ OnStack(<<>>, e) => e = {}
         /\ OnStack(<<>>, {})
<1>1. Len(<<>>) = 0 /\ 1 .. 0 = {}
  OBVIOUS
<1> QED
  BY <1>1 DEF OnStack

-----------------------------------------------------------------------------
(* The end of a search *)

(* Matches that all leave one of them: it is the one that is preferred      *)
LEMMA OnlyOne ==
  ASSUME TypeOK, NEW s, NEW e \in SUBSET Optional, MatchesFrom(s, e),
         \A c \in SUBSET Optional : MatchesFrom(s, c) => c = e \/ Leaves(c, e)
  PROVE  LET match == {c \in SUBSET Optional : MatchesFrom(s, c)}
         IN {x \in match : \A y \in match \ {x} : Prefers(x, y)} = {e}
<1> DEFINE match == {c \in SUBSET Optional : MatchesFrom(s, c)}
<1>1. ASSUME NEW c \in match, c # e
      PROVE  Prefers(e, c) /\ ~Prefers(c, e)
  <2>1. c \in SUBSET Optional /\ c \subseteq Int /\ e \subseteq Int
    BY Tokens
  <2>2. PICK i \in e \ c : Earlier(i, c) = Earlier(i, e)
    BY <1>1, <2>1 DEF Leaves
  <2>3. \A j \in Int : j < i => (j \in c <=> j \in e)
    <3> SUFFICES ASSUME NEW j \in Int, j < i PROVE j \in c <=> j \in e
      OBVIOUS
    <3>1. j \in Earlier(i, c) <=> j \in Earlier(i, e)
      BY <2>2
    <3> QED BY <3>1 DEF Earlier
  <2>4. \A j \in (e \cup c) \ (e \cap c) : i <= j
    BY <2>1, <2>2, <2>3
  <2>5. Prefers(e, c)
    BY <2>2, <2>4 DEF Prefers
  <2>6. ~Prefers(c, e)
    <3> SUFFICES ASSUME NEW j \in c \ e, \A k \in (c \cup e) \ (c \cap e) : j <= k
                 PROVE  FALSE
      BY DEF Prefers
    <3>1. j <= i /\ i <= j
      BY <2>2, <2>4
    <3> QED BY <2>1, <2>2, <3>1
  <2> QED BY <2>5, <2>6
<1>2. e \in match
  OBVIOUS
<1> HIDE DEF match
<1>3. {x \in match : \A y \in match \ {x} : Prefers(x, y)} = {e}
  BY <1>1, <1>2, Zenon
<1> QED
  BY <1>3 DEF match

(* The path has come to the last of the tokens that have to match           *)
LEMMA PathMatches ==
  ASSUME TypeOK, NEW q \in 1 .. Len(pattern) + 1, NEW e \in SUBSET Optional,
         Goes(q, e), \A i \in Required : i < q
  PROVE  /\ Before(q, e) = Required \cup e
         /\ Cardinality(Before(q, e)) = exp_min_len + Cardinality(e)
         /\ Cardinality(e) \in Nat
         /\ MatchesFrom(start, e)
<1>1. Before(q, e) = Required \cup e
  BY DEF Goes, Before
<1>2. Before(Len(pattern) + 1, e) = Required \cup e
  BY BeforeAll
<1> QED
  BY <1>1, <1>2, BeforeAll DEF Goes, MatchesFrom

(* Where there is no match there should be no answer                       *)
LEMMA NoneExpected ==
  ASSUME NEW s, \A c \in SUBSET Optional : ~MatchesFrom(s, c)
  PROVE  Expected(s) = {}
BY DEF Expected

(* Where there is a match that all others leave, it should be the answer   *)
LEMMA OneExpected ==
  ASSUME TypeOK, NEW s, NEW e \in SUBSET Optional, MatchesFrom(s, e),
         \A c \in SUBSET Optional : MatchesFrom(s, c) => c = e \/ Leaves(c, e)
  PROVE  Expected(s) = {[start |-> s, len |-> exp_min_len + Cardinality(e), dust |-> e]}
<1> DEFINE match == {c \in SUBSET Optional : MatchesFrom(s, c)}
           best  == {x \in match : \A y \in match \ {x} : Prefers(x, y)}
           answer(c) == [start |-> s, len |-> exp_min_len + Cardinality(c), dust |-> c]
<1>1. match # {}
  OBVIOUS
<1>2. best = {e}
  BY OnlyOne, Zenon
<1>3. Expected(s) = {answer(c) : c \in best}
  BY <1>1 DEF Expected
<1> HIDE DEF best, answer
<1>4. {answer(c) : c \in best} = {answer(e)}
  BY <1>2, Zenon
<1> QED
  BY <1>3, <1>4 DEF answer

(* The page and the expression stay what they are during a search          *)
LEMMA SameTokens ==
  ASSUME UNCHANGED input
  PROVE  /\ Optional' = Optional /\ Required' = Required /\ exp_min_len' = exp_min_len
         /\ data' = data /\ pattern' = pattern /\ str' = str /\ exp' = exp
         /\ Back' = Back /\ Answer' = Answer
<1>1. data' = data /\ pattern' = pattern /\ str' = str /\ exp' = exp
  BY DEF input
<1>2. Optional' = Optional
  BY <1>1 DEF Optional
<1>3. Required' = Required
  BY <1>1, <1>2 DEF Required
<1>4. exp_min_len' = exp_min_len
  BY <1>3 DEF exp_min_len
<1>5. Back' = Back /\ Answer' = Answer
  BY <1>1, <1>2 DEF Back, Answer
<1> QED
  BY <1>1, <1>2, <1>3, <1>4, <1>5

(* So do the answers there should be                                       *)
LEMMA SameExpected ==
  ASSUME UNCHANGED input, NEW s
  PROVE  Expected(s)' = Expected(s)
<1>1. \A c : MatchesFrom(s, c)' <=> MatchesFrom(s, c)
  BY SameTokens DEF MatchesFrom, Place, Matched
<1> QED
  BY <1>1, SameTokens DEF Expected, Prefers

(* What a step leaves of the path, stated of the state before it            *)
LEMMA SamePath ==
  ASSUME UNCHANGED <<input, start>>, Goes(p', dust'), Complete(p', dust'),
         OnStack(stack', dust'),
         len' = Cardinality(Before(p', dust')), rc' = len', d' = start + len'
  PROVE  SearchInv'
<1>0. UNCHANGED input /\ start' = start
  BY DEF input
<1>1. \A i, c : /\ Before(i, c)' = Before(i, c) /\ Earlier(i, c)' = Earlier(i, c)
                /\ Place(i, c, start)' = Place(i, c, start)
  BY <1>0, SameTokens DEF Before, Earlier, Place
<1>2. Goes(p, dust)'
  BY <1>0, <1>1, SameTokens DEF Goes, Matched
<1>3. OnStack(stack, dust)'
  BY <1>0, <1>1 DEF OnStack, From
<1>4. Complete(p, dust)'
  <2>1. \A c : MatchesFrom(start, c)' <=> MatchesFrom(start, c)
    BY <1>0, SameTokens DEF MatchesFrom, Place, Matched
  <2> QED BY <1>0, <1>1, <2>1, SameTokens DEF Complete, Leaves
<1> QED
  BY <1>0, <1>1, <1>2, <1>3, <1>4 DEF SearchInv

(* A step within the search from one token of the page settles nothing     *)
LEMMA SameAnswers ==
  ASSUME UNCHANGED <<input, start, answers, short>>, AnswersInv
  PROVE  AnswersInv'
<1>1. UNCHANGED input
  BY DEF input
<1> QED
  BY <1>1, SameTokens, SameExpected DEF AnswersInv

(* The beginning of a search *)
LEMMA EmptyPath ==
  ASSUME TypeOK
  PROVE  Goes(1, {}) /\ OnStack(<<>>, {}) /\ Complete(1, {}) /\ Cardinality(Before(1, {})) = 0
<1>1. {} \in SUBSET Optional /\ Before(1, {}) = {} /\ Cardinality(Before(1, {})) = 0
  BY BeforeFirst
<1>2. Goes(1, {})
  BY <1>1 DEF Goes
<1>3. Complete(1, {})
  BY Tokens DEF Complete, Earlier
<1> QED
  BY <1>1, <1>2, <1>3, NothingOnStack

-----------------------------------------------------------------------------
(* The steps of the search *)

(* The first search begins at the first tokens, with nothing matched       *)
LEMMA TypeInit == Init => TypeOK
<1> SUFFICES ASSUME Init PROVE TypeOK
  OBVIOUS
<1>1. PICK i \in Input : str = i[1] /\ exp = i[2]
  BY DEF Init
<1>2. i = <<str, exp>>
  BY <1>1, Inputs
<1>3. data \in Seq(Token) /\ pattern \in Seq(ExpToken)
  BY <1>1, Tokenized DEF Init
<1>4. Len(data) \in Nat /\ Len(pattern) \in Nat
  BY <1>3
<1>5. stack \in Seq(Back)
  BY DEF Init
<1>6. 1 \in 1 .. Len(data) + 1 /\ 1 \in 1 .. Len(pattern) + 1
  BY <1>4
<1> QED
  BY <1>1, <1>2, <1>3, <1>5, <1>6 DEF Init, TypeOK

(* Where the search is *)
LEMMA AtToken ==
  ASSUME TypeOK, SearchInv, Searching
  PROVE  /\ p \in 1 .. Len(pattern) /\ d \in DOMAIN data /\ d = Place(p, dust, start)
         /\ \A j \in dust : j < p
         /\ From(p, dust) = [dust |-> dust, d |-> d, p |-> p + 1, len |-> len]
         /\ From(p, dust) \in Back
         /\ Matched(data[d], pattern[p]) <=>
              (/\ Place(p, dust, start) \in DOMAIN data
               /\ Matched(data[Place(p, dust, start)], pattern[p]))
<1>1. p \in 1 .. Len(pattern) /\ d \in DOMAIN data
  BY Tokens DEF TypeOK, Searching
<1>2. d = Place(p, dust, start)
  BY PlaceIs DEF SearchInv
<1>3. \A j \in dust : j < p
  BY DEF SearchInv, Goes
<1>4. Earlier(p, dust) = dust
  BY <1>3, EarlierAll
<1>5. From(p, dust) = [dust |-> dust, d |-> d, p |-> p + 1, len |-> len]
  BY <1>2, <1>4 DEF From, SearchInv
<1>6. p + 1 \in 1 .. Len(pattern) + 1
  BY <1>1, Tokens
<1>7. From(p, dust) \in Back
  BY <1>5, <1>6 DEF TypeOK, Back
<1> QED
  BY <1>1, <1>2, <1>3, <1>5, <1>7

(* What Pushed adds to the stack is where the search is now                *)
LEMMA PushedIs ==
  ASSUME TypeOK, SearchInv, Searching
  PROVE  /\ p \in Optional => Pushed = <<From(p, dust)>> \o stack
         /\ p \notin Optional => Pushed = stack
         /\ Pushed \in Seq(Back)
<1>1. stack \in Seq(Back)
  BY DEF TypeOK
<1>2. p \in Optional => Pushed = <<From(p, dust)>> \o stack
  BY AtToken DEF Pushed
<1>3. p \notin Optional => Pushed = stack
  BY DEF Pushed
<1>4. <<From(p, dust)>> \o stack \in Seq(Back)
  BY <1>1, AtToken, Prepend
<1> QED
  BY <1>1, <1>2, <1>3, <1>4

(* A token that matches: the path is longer by it                          *)
LEMMA FoundStep ==
  ASSUME TypeOK, SearchInv, AnswersInv, Found
  PROVE  TypeOK' /\ SearchInv' /\ AnswersInv'
<1>1. Searching /\ Matched(data[d], pattern[p])
  BY DEF Found
<1>2. UNCHANGED input /\ UNCHANGED <<input, start>> /\ UNCHANGED <<input, start, answers, short>>
  BY DEF Found
<1>3. /\ dust \in SUBSET Optional /\ dust' = dust \cup ({p} \cap Optional)
      /\ d' = d + 1 /\ p' = p + 1 /\ len' = len + 1 /\ rc' = rc + 1 /\ stack' = Pushed
  BY DEF Found, TypeOK
<1>4. /\ dust' \in SUBSET Optional
      /\ Cardinality(Before(p + 1, dust')) = Cardinality(Before(p, dust)) + 1
      /\ Goes(p + 1, dust') /\ Complete(p + 1, dust')
  BY <1>1, <1>3, AtToken, TakeToken DEF SearchInv
<1>5. OnStack(stack', dust')
  <2>1. stack \in Seq(Back) /\ OnStack(stack, dust)
    BY DEF TypeOK, SearchInv
  <2>2. CASE p \in Optional
    <3>1. dust' = dust \cup {p}
      BY <1>3, <2>2
    <3>2. stack' = <<From(p, dust)>> \o stack
      BY <1>1, <1>3, <2>2, PushedIs
    <3>3. From(p, dust) \in Back /\ \A j \in dust : j < p
      BY <1>1, AtToken
    <3> QED BY <1>3, <2>1, <2>2, <3>1, <3>2, <3>3, Push
  <2>3. CASE p \notin Optional
    <3>1. dust' = dust /\ stack' = stack
      BY <1>1, <1>3, <2>3, PushedIs
    <3> QED BY <2>1, <3>1
  <2> QED BY <2>2, <2>3
<1>6. len \in Int /\ rc = len /\ d = start + len /\ start \in Int
      /\ len = Cardinality(Before(p, dust))
  BY DEF SearchInv, TypeOK
<1>7. /\ len' = Cardinality(Before(p', dust')) /\ rc' = len' /\ d' = start + len'
      /\ Goes(p', dust') /\ Complete(p', dust')
  BY <1>3, <1>4, <1>6
<1>8. SearchInv'
  BY <1>2, <1>5, <1>7, SamePath
<1>9. stack' \in Seq(Back)
  BY <1>1, <1>3, PushedIs
<1>10. d' \in 1 .. Len(data) + 1 /\ p' \in 1 .. Len(pattern) + 1 /\ len' \in Nat /\ rc' \in Nat
  <2>1. p \in 1 .. Len(pattern) /\ d \in DOMAIN data
    BY <1>1, AtToken
  <2>2. len \in Nat /\ rc \in Nat
    BY DEF TypeOK
  <2> QED BY <1>3, <2>1, <2>2, Tokens
<1>11. TypeOK'
  BY <1>2, <1>4, <1>7, <1>9, <1>10, SameTokens DEF TypeOK, Over
<1> QED
  BY <1>2, <1>8, <1>11, SameAnswers

(* A token is passed over: the one that does not match, or the last that is *)
(* on the stack                                                            *)
LEMMA BacktrackStep ==
  ASSUME TypeOK, SearchInv, AnswersInv, Backtrack
  PROVE  TypeOK' /\ SearchInv' /\ AnswersInv'
<1>1. Searching /\ ~Matched(data[d], pattern[p]) /\ Pushed # <<>>
  BY DEF Backtrack
<1>2. UNCHANGED input /\ UNCHANGED <<input, start>> /\ UNCHANGED <<input, start, answers, short>>
  BY DEF Backtrack
<1>3. /\ dust \in SUBSET Optional /\ stack \in Seq(Back)
      /\ Goes(p, dust) /\ OnStack(stack, dust) /\ Complete(p, dust)
  BY DEF TypeOK, SearchInv
<1>4. /\ dust' = Head(Pushed).dust /\ d' = Head(Pushed).d /\ p' = Head(Pushed).p
      /\ len' = Head(Pushed).len /\ rc' = rc - (len - Head(Pushed).len)
      /\ stack' = Tail(Pushed)
  BY DEF Backtrack
<1>5. Head(Pushed) \in Back /\ stack' \in Seq(Back)
  BY <1>1, <1>4, PushedIs, HeadTailProperties
<1>6. /\ dust' \subseteq Optional /\ d' \in 1 .. Len(data) + 1
      /\ p' \in 1 .. Len(pattern) + 1 /\ len' \in Nat /\ rc' = len'
  <2>1. /\ Head(Pushed).dust \subseteq Optional /\ Head(Pushed).d \in 1 .. Len(data) + 1
        /\ Head(Pushed).p \in 1 .. Len(pattern) + 1 /\ Head(Pushed).len \in Nat
    BY <1>5 DEF Back
  <2>2. rc = len /\ len \in Nat
    BY DEF SearchInv, TypeOK
  <2> QED BY <1>4, <2>1, <2>2
<1>7. \E j \in 1 .. Len(pattern) :
        /\ p' = j + 1 /\ Goes(j + 1, dust') /\ Complete(j + 1, dust')
        /\ OnStack(stack', dust')
        /\ len' = Cardinality(Before(j + 1, dust')) /\ d' = start + len'
  <2>1. CASE p \in Optional
    <3>1. Head(Pushed) = From(p, dust) /\ stack' = stack
      BY <1>1, <1>3, <1>4, <2>1, PushedIs, AtToken, Prepend
    <3>2. From(p, dust) = [dust |-> dust, d |-> d, p |-> p + 1, len |-> len]
      BY <1>1, AtToken
    <3>3. dust' = dust /\ d' = d /\ p' = p + 1 /\ len' = len
      BY <1>4, <3>1, <3>2
    <3>4. p \in 1 .. Len(pattern)
      BY <1>1, AtToken
    <3>5. /\ Before(p + 1, dust) = Before(p, dust)
          /\ Goes(p + 1, dust) /\ Complete(p + 1, dust)
      BY <1>1, <1>3, <2>1, <3>4, AtToken, PassToken
    <3>6. len = Cardinality(Before(p, dust)) /\ d = start + len
      BY DEF SearchInv
    <3> QED BY <1>3, <3>1, <3>3, <3>4, <3>5, <3>6
  <2>2. CASE p \notin Optional
    <3>1. Pushed = stack /\ stack # <<>>
      BY <1>1, <2>2, PushedIs
    <3>2. PICK j \in dust : /\ \A k \in dust : k <= j
                            /\ Head(stack) = From(j, dust)
                            /\ OnStack(Tail(stack), Earlier(j, dust))
      BY <1>3, <3>1, Pop
    <3>3. /\ dust' = Earlier(j, dust) /\ d' = Place(j, dust, start) /\ p' = j + 1
          /\ len' = Cardinality(Before(j, dust)) /\ stack' = Tail(stack)
      BY <1>4, <3>1, <3>2 DEF From
    <3>4. p \in 1 .. Len(pattern) /\ p \in Required /\ j \in 1 .. Len(pattern)
      BY <1>1, <1>3, <2>2, AtToken, Tokens
    <3>5. /\ Before(j + 1, dust') = Before(j, dust)
          /\ Goes(j + 1, dust') /\ Complete(j + 1, dust')
      BY <1>1, <1>3, <3>2, <3>3, <3>4, AtToken, PopToken
    <3>6. d' = start + len'
      BY <3>3, PlaceIs
    <3> QED BY <3>2, <3>3, <3>4, <3>5, <3>6
  <2> QED BY <2>1, <2>2
<1>8. SearchInv'
  <2>1. /\ Goes(p', dust') /\ Complete(p', dust') /\ OnStack(stack', dust')
        /\ len' = Cardinality(Before(p', dust')) /\ d' = start + len'
    BY <1>7
  <2> QED BY <1>2, <1>6, <2>1, SamePath
<1>9. TypeOK'
  <2>1. d' = start + len'
    BY <1>7
  <2> QED BY <1>2, <1>5, <1>6, <2>1, SameTokens DEF TypeOK, Over
<1> QED
  BY <1>2, <1>8, <1>9, SameAnswers

(* The search from a token of the page is over: it has the answers it should *)
(* have, and the next one begins                                           *)
LEMMA NextStep ==
  ASSUME TypeOK, AnswersInv, ~Over, Answers, NextStart, rc \in Nat,
         short' \subseteq DOMAIN data, short \subseteq short',
         start \in short' \/ {a \in answers' : a.start = start} = Expected(start)
  PROVE  TypeOK' /\ SearchInv' /\ AnswersInv'
<1>1. /\ UNCHANGED input /\ start' = start + 1 /\ d' = start + 1 /\ p' = 1 /\ len' = 0 /\ rc' = 0
      /\ dust' = {} /\ stack' = <<>>
  BY DEF NextStart
<1>2. start \in 1 .. Len(data) /\ start \in DOMAIN data /\ DOMAIN data = 1 .. Len(data)
      /\ Len(data) \in Nat /\ Len(pattern) \in Nat
  BY Tokens DEF Over, TypeOK
<1>3. \A a \in answers' : a \in answers \/ (a \in Answer /\ a.start = start)
  BY <1>2 DEF Answers, Answer, TypeOK
<1>4. answers \subseteq answers' /\ answers' \subseteq Answer
  BY <1>3 DEF Answers, TypeOK
<1>5. TypeOK'
  <2>1. start' \in 1 .. Len(data) + 1 /\ d' \in 1 .. Len(data) + 1 /\ p' \in 1 .. Len(pattern) + 1
    BY <1>1, <1>2
  <2>2. stack' \in Seq(Back) /\ d' = start' + len'
    BY <1>1, <1>2
  <2> QED BY <1>1, <1>4, <2>1, <2>2, SameTokens DEF TypeOK
<1>6. SearchInv'
  <2>1. (Goes(1, {}) /\ OnStack(<<>>, {}) /\ Complete(1, {}) /\ Cardinality(Before(1, {})) = 0)'
    BY <1>5, EmptyPath, PTL
  <2> QED BY <1>1, <1>2, <2>1 DEF SearchInv
<1>7. \A a \in answers' : a.start < start + 1
  <2>1. \A a \in answers : a.start < start /\ a.start \in Int
    BY <1>2 DEF AnswersInv, TypeOK, Answer
  <2> QED BY <1>2, <1>3, <2>1
<1>8. ASSUME NEW s \in DOMAIN data, s < start + 1
      PROVE  s \in short' \/ {a \in answers' : a.start = s} = Expected(s)
  <2>1. CASE s = start
    BY <2>1
  <2>2. CASE s # start
    <3>1. s < start
      BY <1>2, <1>8, <2>2
    <3>2. {a \in answers' : a.start = s} = {a \in answers : a.start = s}
      BY <1>3, <1>4, <2>2
    <3> QED BY <3>1, <3>2 DEF AnswersInv
  <2> QED BY <2>1, <2>2
<1>9. AnswersInv'
  BY <1>1, <1>7, <1>8, SameTokens, SameExpected DEF AnswersInv
<1> QED
  BY <1>5, <1>6, <1>9

(* No optional token is matched and a required one does not match: there is *)
(* no match                                                                *)
LEMMA FailsStep ==
  ASSUME TypeOK, SearchInv, AnswersInv, Fails
  PROVE  TypeOK' /\ SearchInv' /\ AnswersInv'
<1>1. /\ Searching /\ ~Matched(data[d], pattern[p]) /\ Pushed = <<>>
      /\ Answers /\ NextStart /\ UNCHANGED short
  BY DEF Fails
<1>2. p \in Required /\ stack = <<>>
  <2>1. p \notin Optional
    <3>1. From(p, dust) \in Back /\ stack \in Seq(Back)
      BY <1>1, AtToken DEF TypeOK
    <3> QED BY <1>1, <3>1, PushedIs, Prepend
  <2>2. p \in 1 .. Len(pattern)
    BY <1>1, AtToken
  <2> QED BY <1>1, <2>1, <2>2, PushedIs, Tokens
<1>3. dust = {} /\ Goes(p, dust) /\ Complete(p, dust)
  BY <1>2, NothingOnStack DEF SearchInv
<1>4. \A c \in SUBSET Optional : ~MatchesFrom(start, c)
  <2> SUFFICES ASSUME NEW c \in SUBSET Optional, MatchesFrom(start, c) PROVE FALSE
    OBVIOUS
  <2>1. Earlier(p, c) = dust
    BY <1>3 DEF Complete, Leaves
  <2>2. p \in 1 .. Len(pattern) /\ dust \in SUBSET Optional /\ \A j \in dust : j < p
    BY <1>1, AtToken DEF TypeOK
  <2>3. p \notin Required \cup c
    BY <1>1, <2>1, <2>2, AtToken, DeadEnd
  <2> QED BY <1>2, <2>3
<1>5. Expected(start) = {}
  BY <1>4, NoneExpected
<1>6. rc < exp_min_len
  <2>1. Before(p, dust) \subseteq Required \ {p} /\ Required \ {p} \subseteq Required
    BY <1>2, <1>3, Tokens DEF Before
  <2>2. IsFiniteSet(Required) /\ IsFiniteSet(Required \ {p})
    BY Tokens, FS_Subset
  <2>3. Cardinality(Before(p, dust)) <= Cardinality(Required \ {p})
    BY <2>1, <2>2, FS_Subset
  <2>4. Cardinality(Required \ {p}) = Cardinality(Required) - 1
    BY <1>2, <2>2, FS_RemoveElement
  <2>5. rc = Cardinality(Before(p, dust)) /\ rc \in Nat
    BY DEF SearchInv, TypeOK
  <2> QED BY <2>3, <2>4, <2>5, Tokens DEF exp_min_len
<1>7. answers' = answers
  <2>1. rc \in Nat /\ exp_min_len \in Nat
    BY Tokens DEF TypeOK, exp_min_len
  <2> QED BY <1>1, <1>6, <2>1 DEF Answers
<1>8. {a \in answers' : a.start = start} = Expected(start)
  <2>1. \A a \in answers : a.start # start
    BY Tokens DEF AnswersInv, TypeOK
  <2> QED BY <1>5, <1>7, <2>1
<1>9. ~Over /\ rc \in Nat /\ short' \subseteq DOMAIN data /\ short \subseteq short'
  BY <1>1 DEF Searching, TypeOK
<1> QED
  BY <1>1, <1>8, <1>9, NextStep

(* The path is a match, and any other leaves it                             *)
LEMMA MatchStep ==
  ASSUME TypeOK, SearchInv, AnswersInv, ~Over, Answers, NextStart,
         short' \subseteq DOMAIN data, short \subseteq short',
         \A i \in Required : i < p,
         \A c \in SUBSET Optional :
           MatchesFrom(start, c) => c = dust \/ Leaves(c, dust)
  PROVE  TypeOK' /\ SearchInv' /\ AnswersInv'
<1>1. p \in 1 .. Len(pattern) + 1 /\ dust \in SUBSET Optional /\ Goes(p, dust) /\ rc \in Nat
  BY DEF TypeOK, SearchInv
<1>2. /\ rc = exp_min_len + Cardinality(dust) /\ Cardinality(dust) \in Nat
      /\ MatchesFrom(start, dust)
  BY <1>1, PathMatches DEF SearchInv
<1>3. Expected(start) =
        {[start |-> start, len |-> exp_min_len + Cardinality(dust), dust |-> dust]}
  BY <1>1, <1>2, OneExpected
<1>4. answers' = answers \cup {[start |-> start, len |-> rc, dust |-> dust]}
  <2>1. exp_min_len \in Nat
    BY Tokens DEF exp_min_len
  <2>2. rc >= exp_min_len
    BY <1>2, <2>1
  <2> QED BY <2>2 DEF Answers
<1>5. {a \in answers' : a.start = start} = Expected(start)
  <2>1. \A a \in answers : a.start # start
    BY Tokens DEF AnswersInv, TypeOK
  <2>2. [start |-> start, len |-> rc, dust |-> dust].start = start
    OBVIOUS
  <2> QED BY <1>2, <1>3, <1>4, <2>1, <2>2
<1> QED
  BY <1>1, <1>5, NextStep

(* The expression is at its end: the path is a match                       *)
LEMMA PatternEndsStep ==
  ASSUME TypeOK, SearchInv, AnswersInv, PatternEnds
  PROVE  TypeOK' /\ SearchInv' /\ AnswersInv'
<1>1. ~Over /\ p = Len(pattern) + 1 /\ Answers /\ NextStart /\ UNCHANGED short
  BY DEF PatternEnds
<1>2. Required \cup Optional = 1 .. Len(pattern) /\ Len(pattern) \in Nat
  BY Tokens
<1>3. \A i \in Required : i < p
  BY <1>1, <1>2
<1>4. ASSUME NEW c \in SUBSET Optional, MatchesFrom(start, c)
      PROVE  c = dust \/ Leaves(c, dust)
  <2>1. \A j \in c : j < p
    BY <1>1, <1>2
  <2>2. Earlier(p, c) = c
    BY <2>1, EarlierAll
  <2> QED BY <1>4, <2>2 DEF SearchInv, Complete
<1>5. short' \subseteq DOMAIN data /\ short \subseteq short'
  BY <1>1 DEF TypeOK
<1> QED
  BY <1>1, <1>3, <1>4, <1>5, MatchStep

(* No token of the page is left for a token that a match has after the path *)
LEMMA DataEndsStep ==
  ASSUME TypeOK, SearchInv, AnswersInv, DataEnds
  PROVE  TypeOK' /\ SearchInv' /\ AnswersInv'
<1>1. /\ ~Over /\ d = Len(data) + 1 /\ p <= Len(pattern) /\ Answers /\ NextStart
      /\ short' = IF \E i \in Required : i >= p THEN short \cup {start} ELSE short
  BY DEF DataEnds
<1>2. /\ start \in DOMAIN data /\ p \in Int /\ p \in 1 .. Len(pattern)
      /\ dust \in SUBSET Optional /\ rc \in Nat /\ start \in Int /\ \A j \in dust : j < p
  BY <1>1, Tokens DEF Over, TypeOK, SearchInv, Goes
<1>3. short' \subseteq DOMAIN data /\ short \subseteq short'
  BY <1>1, <1>2 DEF TypeOK
<1>4. CASE \E i \in Required : i >= p
  <2>1. start \in short'
    BY <1>1, <1>4
  <2> QED BY <1>1, <1>2, <1>3, <2>1, NextStep
<1>5. CASE \A i \in Required : ~(i >= p)
  <2>1. \A i \in Required : i < p
    BY <1>2, <1>5, Tokens
  <2>2. ASSUME NEW c \in SUBSET Optional, MatchesFrom(start, c)
        PROVE  c = dust \/ Leaves(c, dust)
    <3> SUFFICES ASSUME Earlier(p, c) = dust PROVE c = dust
      BY <2>2 DEF SearchInv, Complete
    <3>1. Earlier(p, dust) = dust
      BY <1>2, EarlierAll
    <3>2. Before(p, c) = Before(p, dust)
      <4>1. p <= p
        BY <1>2
      <4> QED BY <1>2, <3>1, <4>1, SameBefore
    <3>3. ASSUME NEW i \in c, ~(i < p) PROVE FALSE
      <4>1. i \in Int /\ p <= i
        BY <1>2, <3>3, Tokens
      <4>2. Cardinality(Before(p, c)) <= Cardinality(Before(i, c))
        BY <1>2, <4>1, BeforeGrows
      <4>3. Cardinality(Before(p, c)) \in Nat /\ Cardinality(Before(i, c)) \in Nat
        BY <1>2, <4>1, BeforeFinite
      <4>4. d = start + Cardinality(Before(p, c))
        BY <3>2 DEF SearchInv
      <4>5. Place(i, c, start) = start + Cardinality(Before(i, c))
        BY PlaceIs
      <4>6. Place(i, c, start) \in DOMAIN data
        BY <2>2 DEF MatchesFrom
      <4> QED BY <1>1, <1>2, <4>2, <4>3, <4>4, <4>5, <4>6, Tokens
    <3>4. Earlier(p, c) = c
      BY <3>3, EarlierAll
    <3> QED BY <3>4
  <2> QED BY <1>1, <1>3, <2>1, <2>2, MatchStep
<1> QED
  BY <1>4, <1>5

-----------------------------------------------------------------------------
(* The search never goes past a match, and never off the path that matches  *)
(* the page: an invariant of mlmatch_find and of mlmatch_aux.              *)
THEOREM MlexInvariant == Spec => []MlexInv
<1>1. Init => MlexInv
  <2> SUFFICES ASSUME Init PROVE MlexInv
    OBVIOUS
  <2>1. TypeOK
    BY TypeInit
  <2>2. SearchInv
    <3>1. start \in Int
      BY <2>1 DEF TypeOK
    <3> QED BY <2>1, <3>1, EmptyPath DEF Init, SearchInv
  <2>3. AnswersInv
    BY <2>1, Tokens DEF Init, AnswersInv
  <2> QED BY <2>1, <2>2, <2>3 DEF MlexInv
<1>2. MlexInv /\ [Next]_vars => MlexInv'
  <2> SUFFICES ASSUME TypeOK, SearchInv, AnswersInv, [Next]_vars
               PROVE  TypeOK' /\ SearchInv' /\ AnswersInv'
    BY DEF MlexInv
  <2>1. CASE Found
    BY <2>1, FoundStep
  <2>2. CASE Backtrack
    BY <2>2, BacktrackStep
  <2>3. CASE Fails
    BY <2>3, FailsStep
  <2>4. CASE PatternEnds
    BY <2>4, PatternEndsStep
  <2>5. CASE DataEnds
    BY <2>5, DataEndsStep
  <2>6. CASE UNCHANGED vars
    <3>1. UNCHANGED <<input, start, answers, short>> /\ UNCHANGED <<input, start>> /\ UNCHANGED input
      BY <2>6 DEF vars
    <3>2. UNCHANGED <<d, p, len, rc, dust, stack>>
      BY <2>6 DEF vars, search
    <3>3. TypeOK'
      BY <3>1, <3>2, SameTokens DEF TypeOK, Over
    <3>4. SearchInv'
      BY <3>1, <3>2, SamePath DEF SearchInv
    <3> QED BY <3>1, <3>3, <3>4, SameAnswers
  <2> QED BY <2>1, <2>2, <2>3, <2>4, <2>5, <2>6 DEF Next
<1> QED
  BY <1>1, <1>2, PTL DEF Spec

(* The positions, the stack and the answers have their types: the search    *)
(* adds up to what it has passed of the page, whatever it went back to.    *)
THEOREM TypeCorrect == Spec => []TypeOK
<1>1. MlexInv => TypeOK
  BY DEF MlexInv
<1> QED
  BY <1>1, MlexInvariant, PTL

(* mlmatch returns an answer for each token of the page that a match begins *)
(* at, and for no other; and of the matches it is the one with as many      *)
(* optional tokens as early as can be: whatever the page, the expression    *)
(* and the regular expressions.                                            *)
THEOREM AnswersAreRight == Spec => []AnswersAreMatches
<1>1. MlexInv => AnswersAreMatches
  <2> SUFFICES ASSUME MlexInv, Over, NEW s \in DOMAIN data \ short
               PROVE  LET found == {a \in answers : a.start = s}
                          match == {c \in SUBSET Optional : MatchesFrom(s, c)}
                      IN IF match = {} THEN found = {}
                         ELSE found = {[start |-> s, len |-> exp_min_len + Cardinality(c),
                                        dust |-> c] :
                                c \in {x \in match : \A y \in match \ {x} : Prefers(x, y)}}
    BY DEF AnswersAreMatches
  <2>1. s < start
    BY Tokens DEF Over, MlexInv, TypeOK
  <2>2. {a \in answers : a.start = s} = Expected(s)
    BY <2>1 DEF MlexInv, AnswersInv
  <2> QED BY <2>2 DEF Expected
<1> QED
  BY <1>1, MlexInvariant, PTL

-----------------------------------------------------------------------------
(* The tokens that are kept of an answer *)

(* One token of the expression: what epurate makes of the row               *)
Pass(r, i, chosen, keep) ==
  IF r.len = 0 \/ i \in Optional \ chosen THEN r
  ELSE [at   |-> r.at + 1, len |-> r.len - 1,
        kept |-> IF i \in keep THEN Append(r.kept, r.at) ELSE r.kept]

FirstRow(s, n) == [at |-> s, len |-> n, kept |-> <<>>]
RowOf(f, i, s, n, chosen, keep) ==
  IF i = 0 THEN FirstRow(s, n) ELSE Pass(f[i - 1], i, chosen, keep)

(* There are such rows: up to each token, by induction                      *)
LEMMA RowsExist ==
  ASSUME NEW last \in Nat, NEW s, NEW n, NEW chosen, NEW keep
  PROVE  \E f : f = [i \in 0 .. last |-> RowOf(f, i, s, n, chosen, keep)]
<1> DEFINE Upto(m) == \E f : \A i \in 0 .. m : f[i] = RowOf(f, i, s, n, chosen, keep)
           T == {m \in Nat : Upto(m)}
<1>1. 0 \in T
  <2> DEFINE f == [i \in {0} |-> FirstRow(s, n)]
  <2>1. \A i \in 0 .. 0 : f[i] = RowOf(f, i, s, n, chosen, keep)
    BY DEF RowOf
  <2> QED BY <2>1
<1>2. ASSUME NEW m \in Nat, m \in T
      PROVE  m + 1 \in T
  <2>1. PICK f : \A i \in 0 .. m : f[i] = RowOf(f, i, s, n, chosen, keep)
    BY <1>2
  <2> DEFINE x == RowOf(f, m + 1, s, n, chosen, keep)
             g == [i \in 0 .. m + 1 |-> IF i = m + 1 THEN x ELSE f[i]]
  <2>2. \A i \in 0 .. m + 1 : i = m + 1 \/ i \in 0 .. m
    OBVIOUS
  <2> HIDE DEF x
  <2>3. g[m + 1] = x /\ \A i \in 0 .. m : g[i] = f[i]
    OBVIOUS
  <2> HIDE DEF g
  <2>4. \A i \in 0 .. m + 1 : RowOf(g, i, s, n, chosen, keep) = RowOf(f, i, s, n, chosen, keep)
    <3> SUFFICES ASSUME NEW i \in 0 .. m + 1, i # 0 PROVE g[i - 1] = f[i - 1]
      BY DEF RowOf
    <3>1. i - 1 \in 0 .. m
      OBVIOUS
    <3> QED BY <2>3, <3>1
  <2>5. \A i \in 0 .. m + 1 : g[i] = RowOf(g, i, s, n, chosen, keep)
    BY <2>1, <2>2, <2>3, <2>4 DEF x
  <2> QED BY <2>5
<1>3. PICK f : \A i \in 0 .. last : f[i] = RowOf(f, i, s, n, chosen, keep)
  <2> HIDE DEF Upto
  <2>1. 0 \in T /\ \A m \in Nat : m \in T => m + 1 \in T
    BY <1>1, <1>2
  <2> HIDE DEF T
  <2>2. last \in T
    BY <2>1, SetInduction
  <2> QED BY <2>2 DEF T, Upto
<1> DEFINE g == [i \in 0 .. last |-> f[i]]
<1>4. \A i \in 0 .. last : g[i] = f[i]
  OBVIOUS
<1>5. \A i \in 0 .. last : RowOf(g, i, s, n, chosen, keep) = RowOf(f, i, s, n, chosen, keep)
  <2> SUFFICES ASSUME NEW i \in 0 .. last, i # 0 PROVE g[i - 1] = f[i - 1]
    BY DEF RowOf
  <2>1. i - 1 \in 0 .. last
    OBVIOUS
  <2> QED BY <1>4, <2>1
<1>6. \A i \in 0 .. last : f[i] = RowOf(g, i, s, n, chosen, keep)
  BY <1>3, <1>5
<1>7. g = [i \in 0 .. last |-> RowOf(g, i, s, n, chosen, keep)]
  BY <1>6, Zenon
<1> QED
  BY <1>7

(* So epurate, which chooses them, returns what the last of them has kept  *)
LEMMA EpurateIs ==
  ASSUME TypeOK, NEW a, NEW keep
  PROVE  \E f : /\ \A i \in 0 .. Len(pattern) : f[i] = RowOf(f, i, a.start, a.len, a.dust, keep)
                /\ epurate(a, keep) = f[Len(pattern)].kept
<1> DEFINE rows == CHOOSE f : f = [i \in 0 .. Len(pattern) |->
                     RowOf(f, i, a.start, a.len, a.dust, keep)]
<1>1. Len(pattern) \in Nat
  BY Tokens
<1>2. PICK f : f = [i \in 0 .. Len(pattern) |-> RowOf(f, i, a.start, a.len, a.dust, keep)]
  BY <1>1, RowsExist
<1>3. rows = [i \in 0 .. Len(pattern) |-> RowOf(rows, i, a.start, a.len, a.dust, keep)]
  BY <1>2, Zenon
<1>4. epurate(a, keep) = rows[Len(pattern)].kept
  BY Zenon DEF epurate, RowOf, FirstRow, Pass
<1> HIDE DEF rows
<1>5. \A i \in 0 .. Len(pattern) : rows[i] = RowOf(rows, i, a.start, a.len, a.dust, keep)
  BY <1>3, Zenon
<1> QED
  BY <1>4, <1>5

(* The tokens of the page that match kept tokens before q, in the order of  *)
(* the page                                                                *)
RowSoFar(r, q, s, n, chosen, keep) ==
  /\ r.at = s + Cardinality(Before(q, chosen))
  /\ r.len = n - Cardinality(Before(q, chosen))
  /\ r.kept \in Seq(Nat)
  /\ {r.kept[k] : k \in 1 .. Len(r.kept)} = {Place(i, chosen, s) : i \in keep \cap Before(q, chosen)}
  /\ \A k \in 1 .. Len(r.kept) : r.kept[k] < r.at
  /\ \A k, l \in 1 .. Len(r.kept) : k < l => r.kept[k] < r.kept[l]

(* ... and one more                                                        *)
LEMMA RowAppend ==
  ASSUME NEW q \in Seq(Nat), NEW x \in Nat, NEW W, {q[k] : k \in 1 .. Len(q)} = W,
         \A k \in 1 .. Len(q) : q[k] < x,
         \A k, l \in 1 .. Len(q) : k < l => q[k] < q[l]
  PROVE  /\ Append(q, x) \in Seq(Nat)
         /\ {Append(q, x)[k] : k \in 1 .. Len(Append(q, x))} = W \cup {x}
         /\ \A k \in 1 .. Len(Append(q, x)) : Append(q, x)[k] < x + 1
         /\ \A k, l \in 1 .. Len(Append(q, x)) : k < l => Append(q, x)[k] < Append(q, x)[l]
<1> DEFINE r == Append(q, x)
           n == Len(q)
<1>1. /\ n \in Nat /\ r \in Seq(Nat) /\ Len(r) = n + 1 /\ r[n + 1] = x
      /\ \A k \in 1 .. n : r[k] = q[k] /\ q[k] \in Nat
  OBVIOUS
<1> HIDE DEF r, n
<1>2. \A k \in 1 .. n + 1 : k = n + 1 \/ k \in 1 .. n
  BY <1>1
<1>3. \A k \in 1 .. n : k \in 1 .. n + 1
  BY <1>1
<1>4. n + 1 \in 1 .. n + 1
  BY <1>1
<1>5. {r[k] : k \in 1 .. n + 1} = W \cup {x}
  <2>1. W = {q[k] : k \in 1 .. n}
    BY DEF n
  <2>2. \A y : y \in {r[k] : k \in 1 .. n + 1} => y \in W \cup {x}
    BY <1>1, <1>2, <2>1
  <2>3. \A y : y \in W \cup {x} => y \in {r[k] : k \in 1 .. n + 1}
    BY <1>1, <1>3, <1>4, <2>1
  <2> QED BY <2>2, <2>3
<1>6. \A k \in 1 .. n : r[k] < x
  BY <1>1 DEF n
<1>7. \A k \in 1 .. n + 1 : r[k] < x + 1
  BY <1>1, <1>2, <1>6
<1>8. ASSUME NEW k \in 1 .. n + 1, NEW l \in 1 .. n + 1, k < l PROVE r[k] < r[l]
  <2>1. k \in 1 .. n
    BY <1>1, <1>8
  <2>2. CASE l = n + 1
    BY <1>1, <1>6, <2>1, <2>2
  <2>3. CASE l \in 1 .. n
    <3>1. q[k] < q[l]
      BY <1>8, <2>1, <2>3 DEF n
    <3> QED BY <1>1, <2>1, <2>3, <3>1
  <2> QED BY <1>2, <2>2, <2>3
<1> QED
  BY <1>1, <1>5, <1>7, <1>8 DEF r

(* A token that is matched is passed and kept if it is to be; an optional   *)
(* one that is not is passed over                                          *)
LEMMA RowPass ==
  ASSUME TypeOK, NEW chosen \in SUBSET Optional, NEW q \in 1 .. Len(pattern), NEW s \in Nat,
         NEW n \in Nat, n = Cardinality(Before(Len(pattern) + 1, chosen)), NEW keep,
         NEW r, RowSoFar(r, q, s, n, chosen, keep)
  PROVE  RowSoFar(Pass(r, q, chosen, keep), q + 1, s, n, chosen, keep)
<1> DEFINE N == Cardinality(Before(q, chosen))
<1>1. N \in Nat /\ q \in Int /\ q + 1 \in Int
  <2>1. q \in Int /\ q + 1 \in Int
    BY Tokens
  <2> QED BY <2>1, BeforeFinite
<1>2. CASE q \in Optional \ chosen
  <2>1. q \notin Required \cup chosen
    BY <1>2 DEF Required
  <2>2. Before(q + 1, chosen) = Before(q, chosen)
    BY <2>1, BeforeNext
  <2>3. Pass(r, q, chosen, keep) = r
    BY <1>2 DEF Pass
  <2> QED BY <2>2, <2>3 DEF RowSoFar
<1>3. CASE q \notin Optional \ chosen
  <2>1. q \in Required \cup chosen
    BY <1>3, Tokens DEF Required
  <2>2. Cardinality(Before(q + 1, chosen)) = N + 1
    BY <2>1, BeforeNext
  <2>3. Before(q + 1, chosen) = Before(q, chosen) \cup {q} /\ q \notin Before(q, chosen)
    <3>1. Required \cup chosen \subseteq Int
      BY Tokens
    <3> QED BY <1>1, <2>1, <3>1 DEF Before
  <2>4. N + 1 <= n
    <3>1. q + 1 <= Len(pattern) + 1 /\ Len(pattern) + 1 \in Int
      BY Tokens
    <3> QED BY <1>1, <2>2, <3>1, BeforeGrows
  <2>5. r.len = n - N /\ r.at = s + N /\ r.at \in Nat /\ r.len # 0
    BY <1>1, <2>4 DEF RowSoFar
  <2> DEFINE t == Pass(r, q, chosen, keep)
  <2>6. t = [at |-> r.at + 1, len |-> r.len - 1,
             kept |-> IF q \in keep THEN Append(r.kept, r.at) ELSE r.kept]
    BY <1>3, <2>5 DEF Pass
  <2>7. t.at = r.at + 1 /\ t.len = r.len - 1
        /\ t.kept = IF q \in keep THEN Append(r.kept, r.at) ELSE r.kept
    BY <2>6
  <2> HIDE DEF t
  <2>8. t.at = s + Cardinality(Before(q + 1, chosen)) /\ t.len = n - Cardinality(Before(q + 1, chosen))
    BY <1>1, <2>2, <2>5, <2>7, SMTT(20)
  <2> DEFINE W(j) == {Place(i, chosen, s) : i \in keep \cap Before(j, chosen)}
             kept == r.kept
  <2>9. /\ kept \in Seq(Nat) /\ {kept[k] : k \in 1 .. Len(kept)} = W(q)
        /\ \A k \in 1 .. Len(kept) : kept[k] < r.at
        /\ \A k, l \in 1 .. Len(kept) : k < l => kept[k] < kept[l]
    BY DEF RowSoFar
  <2>10. Place(q, chosen, s) = r.at
    BY <2>5, PlaceIs
  <2>11. W(q + 1) = W(q) \cup (IF q \in keep THEN {r.at} ELSE {})
    <3>1. keep \cap Before(q + 1, chosen)
            = (keep \cap Before(q, chosen)) \cup (IF q \in keep THEN {q} ELSE {})
      BY <2>3
    <3> QED BY <2>10, <3>1
  <2> HIDE DEF W, kept
  <2>12. /\ t.kept \in Seq(Nat)
         /\ {t.kept[k] : k \in 1 .. Len(t.kept)} = W(q + 1)
         /\ \A k \in 1 .. Len(t.kept) : t.kept[k] < t.at
         /\ \A k, l \in 1 .. Len(t.kept) : k < l => t.kept[k] < t.kept[l]
    <3>1. CASE q \in keep
      <4>1. t.kept = Append(kept, r.at) /\ W(q + 1) = W(q) \cup {r.at}
        BY <2>7, <2>11, <3>1 DEF kept
      <4> DEFINE x == r.at
      <4>2. x \in Nat /\ t.at = x + 1 /\ t.kept = Append(kept, x) /\ W(q + 1) = W(q) \cup {x}
            /\ \A k \in 1 .. Len(kept) : kept[k] < x
        BY <2>5, <2>7, <2>9, <4>1
      <4> DEFINE v == W(q)
                 y == Append(kept, x)
      <4>3. {kept[k] : k \in 1 .. Len(kept)} = v
        BY <2>9
      <4> HIDE DEF x, v
      <4>4. /\ y \in Seq(Nat) /\ {y[k] : k \in 1 .. Len(y)} = v \cup {x}
            /\ \A k \in 1 .. Len(y) : y[k] < x + 1
            /\ \A k, l \in 1 .. Len(y) : k < l => y[k] < y[l]
        BY <2>9, <4>2, <4>3, RowAppend
      <4>5. t.kept = y /\ W(q + 1) = v \cup {x} /\ t.at = x + 1
        BY <4>2 DEF v
      <4> HIDE DEF y
      <4> QED BY <4>4, <4>5
    <3>2. CASE q \notin keep
      <4>1. t.kept = kept /\ W(q + 1) = W(q)
        BY <2>7, <2>11, <3>2 DEF kept
      <4>2. \A k \in 1 .. Len(kept) : kept[k] \in Nat
        BY <2>9
      <4>3. \A k \in 1 .. Len(kept) : kept[k] < t.at
        BY <2>5, <2>7, <2>9, <4>2
      <4> QED BY <2>9, <4>1, <4>3
    <3> QED BY <3>1, <3>2
  <2> QED BY <2>8, <2>12 DEF RowSoFar, W, t
<1> QED
  BY <1>2, <1>3

(* What epurate returns of an answer that is a match                       *)
LEMMA RowOfMatch ==
  ASSUME TypeOK, NEW chosen \in SUBSET Optional, NEW s \in Nat, NEW keep, NEW a,
         a.start = s, a.dust = chosen, a.len = Cardinality(Before(Len(pattern) + 1, chosen))
  PROVE  LET want == {Place(i, chosen, s) : i \in keep \cap (Required \cup chosen)}
             row  == epurate(a, keep)
         IN /\ {row[k] : k \in DOMAIN row} = want
            /\ \A k, l \in DOMAIN row : k < l => row[k] < row[l]
<1> DEFINE last == Len(pattern)
           n == a.len
<1>1. last \in Nat /\ n \in Nat
  <2>1. last \in Nat /\ last + 1 \in Int
    BY Tokens
  <2> QED BY <2>1, BeforeFinite
<1>2. PICK f : /\ \A i \in 0 .. last : f[i] = RowOf(f, i, s, n, chosen, keep)
               /\ epurate(a, keep) = f[last].kept
  BY EpurateIs
<1> DEFINE T == {i \in Nat : i <= last => RowSoFar(f[i], i + 1, s, n, chosen, keep)}
<1>3. 0 \in T
  <2>1. f[0] = FirstRow(s, n)
    <3>1. 0 \in 0 .. last
      BY <1>1
    <3> QED BY <1>2, <3>1 DEF RowOf
  <2>2. Before(1, chosen) = {} /\ Cardinality(Before(1, chosen)) = 0
    BY BeforeFirst
  <2>3. FirstRow(s, n).at = s /\ FirstRow(s, n).len = n /\ FirstRow(s, n).kept = <<>>
    BY DEF FirstRow
  <2>4. <<>> \in Seq(Nat) /\ Len(<<>>) = 0 /\ 1 .. 0 = {}
    OBVIOUS
  <2>5. RowSoFar(FirstRow(s, n), 1, s, n, chosen, keep)
    <3> DEFINE r == FirstRow(s, n)
    <3>1. r.at = s + 0 /\ r.len = n - 0 /\ r.kept = <<>>
      BY <1>1, <2>3
    <3> HIDE DEF r
    <3>2. {r.kept[k] : k \in 1 .. Len(r.kept)} = {} /\ ~\E k : k \in 1 .. Len(r.kept)
      BY <2>4, <3>1
    <3>3. {Place(i, chosen, s) : i \in keep \cap Before(1, chosen)} = {}
      BY <2>2
    <3>4. RowSoFar(r, 1, s, n, chosen, keep)
      BY <2>2, <2>4, <3>1, <3>2, <3>3 DEF RowSoFar
    <3> QED BY <3>4 DEF r
  <2>6. 0 + 1 = 1
    OBVIOUS
  <2> QED BY <2>1, <2>5, <2>6
<1>4. ASSUME NEW i \in Nat, i \in T PROVE i + 1 \in T
  <2> SUFFICES ASSUME i + 1 <= last PROVE RowSoFar(f[i + 1], (i + 1) + 1, s, n, chosen, keep)
    OBVIOUS
  <2>1. i + 1 \in 0 .. last /\ i + 1 # 0 /\ (i + 1) - 1 = i /\ i <= last /\ i + 1 \in 1 .. last
    BY <1>1
  <2>2. RowSoFar(f[i], i + 1, s, n, chosen, keep)
    BY <1>4, <2>1
  <2>3. f[i + 1] = Pass(f[i], i + 1, chosen, keep)
    BY <1>2, <2>1 DEF RowOf
  <2> QED BY <1>1, <2>1, <2>2, <2>3, RowPass
<1>5. RowSoFar(f[last], last + 1, s, n, chosen, keep)
  <2> HIDE DEF T
  <2>1. last \in T
    BY <1>1, <1>3, <1>4, SetInduction
  <2> QED BY <1>1, <2>1 DEF T
<1>6. Before(last + 1, chosen) = Required \cup chosen
  BY BeforeAll
<1> DEFINE row == epurate(a, keep)
<1>7. row = f[last].kept
  BY <1>2
<1> HIDE DEF row
<1>8. row \in Seq(Nat) /\ {row[k] : k \in 1 .. Len(row)}
        = {Place(i, chosen, s) : i \in keep \cap Before(last + 1, chosen)}
      /\ \A k, l \in 1 .. Len(row) : k < l => row[k] < row[l]
  BY <1>5, <1>7 DEF RowSoFar
<1>9. DOMAIN row = 1 .. Len(row)
  BY <1>8
<1> QED
  BY <1>6, <1>8, <1>9 DEF row

(* A column of the result is the token of the page that matched the token   *)
(* kept, in the order of the expression, and none is missing but those of   *)
(* optional tokens that were passed over: whatever the get expression keeps *)
(* of the answers of any page, but those given because the page was at its *)
(* end (short).                                                            *)
THEOREM KeptAsMatched == Spec => []RowsAreKept
<1>1. MlexInv => RowsAreKept
  <2> SUFFICES ASSUME MlexInv, Over, NEW a \in answers, NEW keep \in SUBSET DOMAIN pattern,
                      a.start \notin short
               PROVE  LET want == {Place(i, a.dust, a.start) : i \in keep \cap (Required \cup a.dust)}
                          row  == epurate(a, keep)
                      IN /\ {row[k] : k \in DOMAIN row} = want
                         /\ \A k, l \in DOMAIN row : k < l => row[k] < row[l]
    BY DEF RowsAreKept
  <2>1. TypeOK /\ AnswersInv
    BY DEF MlexInv
  <2>2. a.start \in DOMAIN data /\ a.start < start /\ a.start \in Nat
    BY <2>1, Tokens DEF TypeOK, Answer, AnswersInv
  <2>3. a \in Expected(a.start)
    BY <2>1, <2>2 DEF AnswersInv
  <2>4. PICK c \in SUBSET Optional :
          a = [start |-> a.start, len |-> exp_min_len + Cardinality(c), dust |-> c]
    <3>1. {c \in SUBSET Optional : MatchesFrom(a.start, c)} # {}
      BY <2>3 DEF Expected
    <3> QED BY <2>3, <3>1 DEF Expected
  <2>5. a.dust = c /\ a.len = exp_min_len + Cardinality(c)
    BY <2>4
  <2>6. a.len = Cardinality(Before(Len(pattern) + 1, c))
    BY <2>1, <2>5, BeforeAll
  <2> QED BY <2>1, <2>2, <2>5, <2>6, RowOfMatch
<1> QED
  BY <1>1, MlexInvariant, PTL
=============================================================================
