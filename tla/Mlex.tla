-------------------------------- MODULE Mlex --------------------------------
(***************************************************************************)
(* Markup language expressions (mlex/mlex.c), by which the plugins find    *)
(* their way in the pages of a website: an expression is matched against   *)
(* the page from each of its tokens on, with backtracking over the         *)
(* optional tokens, and the tokens the get expression keeps are returned.  *)
(***************************************************************************)
EXTENDS Markup, FiniteSets

CONSTANTS
  Symbol,         \* what pages and expressions are made of
  Input,          \* bound: pairs of a page and an expression
  regfind(_, _)   \* regfind(text, exp): does the regular expression match in the text?

ASSUME Inputs == Input \subseteq Seq(Symbol) \X Seq(Symbol)

Token    == [tag : BOOLEAN, text : Seq(Symbol)]
ExpToken == [tag : BOOLEAN, opt : BOOLEAN, text : Seq(Symbol)]

VARIABLES
  str,      \* the page
  exp,      \* the expression
  data,     \* the tokens of the page
  pattern,  \* the tokens of the expression
  start,    \* the token of the page the search has begun at
  d, p,     \* where it is, in the page and in the expression
  len,      \* tokens matched
  rc,       \* what the calls of mlmatch_find add up to
  dust,     \* dustlen: the optional tokens that are matched
  stack,    \* of struct back_t
  answers,  \* of struct answer_t
  short     \* the answers given because the page was at its end

input  == <<str, exp, data, pattern>>
search == <<d, p, len, rc, dust, stack>>
vars   == <<input, start, search, answers, short>>

Matched(u, e) == u.tag = e.tag /\ regfind(u.text, e.text)

Optional == {i \in DOMAIN pattern : pattern[i].opt}
Required == DOMAIN pattern \ Optional

exp_min_len == Cardinality(Required)

Over == start > Len(data)

Back   == [dust : SUBSET Optional, d : 1 .. Len(data) + 1, p : 1 .. Len(pattern) + 1, len : Nat]
Answer == [start : DOMAIN data, len : Nat, dust : SUBSET Optional]

(* Types, and what the search adds up is what it has passed of the page     *)
TypeOK ==
  /\ <<str, exp>> \in Input
  /\ data \in Seq(Token) /\ pattern \in Seq(ExpToken)
  /\ start \in 1 .. Len(data) + 1
  /\ d \in 1 .. Len(data) + 1 /\ p \in 1 .. Len(pattern) + 1
  /\ len \in Nat /\ rc \in Nat
  /\ dust \subseteq Optional
  /\ stack \in Seq(Back)
  /\ answers \subseteq Answer
  /\ short \subseteq DOMAIN data
  /\ ~Over => rc = len /\ d = start + len

Init ==
  /\ \E i \in Input : str = i[1] /\ exp = i[2]
  /\ data = tokenize_html(str) /\ pattern = tokenize_exp(exp)
  /\ start = 1 /\ d = 1 /\ p = 1
  /\ len = 0 /\ rc = 0
  /\ dust = {} /\ stack = <<>>
  /\ answers = {} /\ short = {}

-----------------------------------------------------------------------------
(* mlmatch_find, a call of it *)

Searching == ~Over /\ d <= Len(data) /\ p <= Len(pattern)

(* An optional token may be passed over later                              *)
Pushed ==
  IF p \in Optional THEN <<[dust |-> dust, d |-> d, p |-> p + 1, len |-> len]>> \o stack
  ELSE stack

Found ==
  /\ Searching
  /\ Matched(data[d], pattern[p])
  /\ stack' = Pushed
  /\ dust' = dust \cup ({p} \cap Optional)
  /\ d' = d + 1 /\ p' = p + 1 /\ len' = len + 1
  /\ rc' = rc + 1
  /\ UNCHANGED <<input, start, answers, short>>

(* Fault: the dusts are not restored                                       *)
Backtrack_KeepsDust ==
  /\ Searching
  /\ ~Matched(data[d], pattern[p])
  /\ Pushed # <<>>
  /\ LET back == Head(Pushed) IN
       /\ d' = back.d /\ p' = back.p /\ len' = back.len
       /\ rc' = rc - (len - back.len)
  /\ stack' = Tail(Pushed)
  /\ UNCHANGED <<input, start, dust, answers, short>>

(* Fault: the optional token is tried again                                *)
Backtrack_Again ==
  /\ Searching
  /\ ~Matched(data[d], pattern[p])
  /\ Pushed # <<>>
  /\ LET back == Head(Pushed) IN
       /\ dust' = back.dust
       /\ d' = back.d /\ p' = back.p - 1 /\ len' = back.len
       /\ rc' = rc - (len - back.len)
  /\ stack' = Tail(Pushed)
  /\ UNCHANGED <<input, start, answers, short>>

Backtrack ==
  /\ Searching
  /\ ~Matched(data[d], pattern[p])
  /\ Pushed # <<>>
  /\ LET back == Head(Pushed) IN
       /\ dust' = back.dust
       /\ d' = back.d /\ p' = back.p /\ len' = back.len
       /\ rc' = rc - (len - back.len)
  /\ stack' = Tail(Pushed)
  /\ UNCHANGED <<input, start, answers, short>>

-----------------------------------------------------------------------------
(* mlmatch_aux: the search from one token of the page is over *)

NextStart ==
  /\ start' = start + 1
  /\ d' = start + 1 /\ p' = 1
  /\ len' = 0 /\ rc' = 0
  /\ dust' = {} /\ stack' = <<>>
  /\ UNCHANGED input

(* The result is taken for an answer if it is long enough                  *)
Answers ==
  IF rc >= exp_min_len
    THEN answers' = answers \cup {[start |-> start, len |-> rc, dust |-> dust]}
    ELSE UNCHANGED answers

(* No optional token is left to pass over                                  *)
Fails ==
  /\ Searching
  /\ ~Matched(data[d], pattern[p])
  /\ Pushed = <<>>
  /\ Answers /\ NextStart
  /\ UNCHANGED short

PatternEnds ==
  /\ ~Over /\ p = Len(pattern) + 1
  /\ Answers /\ NextStart
  /\ UNCHANGED short

(* The page ends before the expression: nothing is passed over any more,    *)
(* and the length decides                                                  *)
DataEnds ==
  /\ ~Over /\ d = Len(data) + 1 /\ p <= Len(pattern)
  /\ Answers /\ NextStart
  /\ short' = IF \E i \in Required : i >= p THEN short \cup {start} ELSE short

Next == Found \/ Backtrack \/ Fails \/ PatternEnds \/ DataEnds

Spec     == Init /\ [][Next]_vars
FairSpec == Spec /\ WF_vars(Next)

-----------------------------------------------------------------------------
(* epurate *)

(* The tokens of the page that are kept of an answer: the get expression    *)
(* has the shape of the expression and keeps the tokens in keep            *)
epurate(a, keep) ==
  LET row[i \in 0 .. Len(pattern)] ==
        IF i = 0 THEN [at |-> a.start, len |-> a.len, kept |-> <<>>]
        ELSE IF row[i - 1].len = 0 \/ i \in Optional \ a.dust THEN row[i - 1]
        ELSE [at   |-> row[i - 1].at + 1, len |-> row[i - 1].len - 1,
              kept |-> IF i \in keep THEN Append(row[i - 1].kept, row[i - 1].at)
                       ELSE row[i - 1].kept]
  IN row[Len(pattern)].kept

-----------------------------------------------------------------------------
(* Properties of the tokens *)

Holds(text, c) == \E i \in DOMAIN text : text[i] = c
ScriptTag(k) == data[k].tag /\ scriptmatch(data[k].text, 1)
InScript(k) == Cardinality({j \in 1 .. k - 1 : ScriptTag(j)}) % 2 = 1

(* The token as the page has it: an empty tag is none                      *)
Written(k) ==
  IF data[k].tag THEN <<"<">> \o data[k].text \o <<">">>
  ELSE IF k = Len(data) \/ ~data[k + 1].tag THEN data[k].text \o <<"<", ">">>
  ELSE data[k].text

(* "a token is a tag, or a comment or a <script></script>" (mlex.c:138), and *)
(* the tokens are the page, in its order, without a gap: a tag is not cut    *)
(* by what is in it unless it is the end of a script or of a comment, the    *)
(* code of a script is one string, and what is left over has no tag.         *)
TokensAreThePage ==
  LET written == FlattenSeq([k \in DOMAIN data |-> Written(k)])
      rest == SubSeq(str, Len(written) + 1, Len(str))
  IN /\ IsPrefix(written, str)
     /\ \A k \in DOMAIN data :
          /\ data[k].tag /\ Holds(data[k].text, ">") => InScript(k) \/ data[k].text[1] = "!--"
          /\ ~data[k].tag /\ Holds(data[k].text, "<") =>
               /\ InScript(k)
               /\ \A i \in DOMAIN data[k].text :
                    data[k].text[i] = "<" => ~scriptmatch(data[k].text, i + 1)
     /\ (\E i, j \in DOMAIN rest : i < j /\ rest[i] = "<" /\ rest[j] = ">") =>
          InScript(Len(data) + 1) \/ Holds(rest, "!--")

(* Properties of the search *)

(* The expression with the optional tokens in chosen matches the page from  *)
(* token s on                                                              *)
Place(i, chosen, s) == s + Cardinality({j \in Required \cup chosen : j < i})
MatchesFrom(s, chosen) ==
  \A i \in Required \cup chosen :
    /\ Place(i, chosen, s) \in DOMAIN data
    /\ Matched(data[Place(i, chosen, s)], pattern[i])

(* The first that is in one of them and not in the other is in a           *)
Prefers(a, b) == \E i \in a \ b : \A j \in (a \cup b) \ (a \cap b) : i <= j

(* mlex.h: "each regexp matches the corresponding token".  An answer is a   *)
(* match, by as many optional tokens as early as can be, and there is one  *)
(* wherever there is a match; unless the page ended too soon for the       *)
(* optional tokens that were tried.                                        *)
AnswersAreMatches ==
  Over => \A s \in DOMAIN data \ short :
    LET found == {a \in answers : a.start = s}
        match == {c \in SUBSET Optional : MatchesFrom(s, c)}
    IN IF match = {} THEN found = {}
       ELSE found = {[start |-> s, len |-> exp_min_len + Cardinality(c), dust |-> c] :
                       c \in {x \in match : \A y \in match \ {x} : Prefers(x, y)}}

(* A column of the result is the token of the page that matched the token   *)
(* kept, in the order of the expression: no column is missing but those of *)
(* optional tokens, unless the page ended too soon for those (short)       *)
RowsAreKept ==
  Over => \A a \in answers, keep \in SUBSET DOMAIN pattern :
    a.start \notin short =>
      LET want == {Place(i, a.dust, a.start) : i \in keep \cap (Required \cup a.dust)}
          row  == epurate(a, keep)
      IN /\ {row[k] : k \in DOMAIN row} = want
         /\ \A k, l \in DOMAIN row : k < l => row[k] < row[l]

(* The search ends, however many optional tokens there are                 *)
Terminates == <>Over
=============================================================================
