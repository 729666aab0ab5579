-------------------------------- MODULE Markup --------------------------------
(***************************************************************************)
(* How mlex/mlex.c cuts the page of a website, and a markup expression,    *)
(* into tokens.  Both are sequences of symbols: the ones that delimit, the *)
(* words "script", "!--" and "--" that change what does, and the rest.     *)
(***************************************************************************)
EXTENDS Integers, SequencesExt

NoTag == [begin |-> 0, end |-> 0, mode |-> "plain"]

-----------------------------------------------------------------------------
(* Pages *)

(* What follows a "<" names a script, or its end                           *)
scriptmatch(s, from) ==
  \E i \in from .. Len(s) :
    /\ \A j \in from .. i - 1 : s[j] = " " \/ (s[j] = "/" /\ j = i - 1)
    /\ s[i] = "script"

(* Fault: the end of a script does not end it                              *)
regexec_my_Stays(s, position, mode) ==
  LET begins  == {i \in position .. Len(s) :
                    s[i] = "<" /\ (mode = "plain" \/ scriptmatch(s, i + 1))}
      begin   == Min(begins)
      comment == mode = "plain" /\ begin < Len(s) /\ s[begin + 1] = "!--"
      closes(i) == IF comment THEN s[i - 1] \in {"--", "!--"}
                   ELSE mode = "plain" \/ s[i - 1] = "script"
      ends    == {i \in begin + 1 .. Len(s) : s[i] = ">" /\ closes(i)}
  IN IF begins = {} \/ ends = {} THEN NoTag
     ELSE [begin |-> begin, end |-> Min(ends),
           mode  |-> IF scriptmatch(s, begin + 1) THEN "script" ELSE "plain"]

(* The first tag from position on: inside a script only the tag of a script *)
(* is one, a comment goes to its end, and either changes the mode           *)
regexec_my(s, position, mode) ==
  LET begins  == {i \in position .. Len(s) :
                    s[i] = "<" /\ (mode = "plain" \/ scriptmatch(s, i + 1))}
      begin   == Min(begins)
      comment == mode = "plain" /\ begin < Len(s) /\ s[begin + 1] = "!--"
      closes(i) == IF comment THEN s[i - 1] \in {"--", "!--"}
                   ELSE mode = "plain" \/ s[i - 1] = "script"
      ends    == {i \in begin + 1 .. Len(s) : s[i] = ">" /\ closes(i)}
  IN IF begins = {} \/ ends = {} THEN NoTag
     ELSE [begin |-> begin, end |-> Min(ends),
           mode  |-> IF mode = "plain" /\ scriptmatch(s, begin + 1) THEN "script" ELSE "plain"]

(* A string, which may be empty, and the tag behind it, unless that is      *)
(* empty.  What follows the last tag is no token.                          *)
tokenize_html(s) ==
  LET from[position \in 1 .. Len(s) + 1] ==
        [mode \in {"plain", "script"} |->
           LET m == regexec_my(s, position, mode) IN
           IF m = NoTag THEN <<>>
           ELSE <<[tag |-> FALSE, text |-> SubSeq(s, position, m.begin - 1)]>>
                \o (IF m.begin + 1 < m.end
                      THEN <<[tag |-> TRUE, text |-> SubSeq(s, m.begin + 1, m.end - 1)]>>
                      ELSE <<>>)
                \o from[m.end + 1][m.mode]]
  IN from[1]["plain"]

-----------------------------------------------------------------------------
(* Expressions *)

(* The first tag from position on, whichever bracket ends it               *)
regexec_myext(s, position) ==
  LET begins == {i \in position .. Len(s) : s[i] \in {"<", "{"}}
      begin  == Min(begins)
      ends   == {i \in begin + 1 .. Len(s) : s[i] \in {">", "}"}}
  IN IF begins = {} \/ ends = {} THEN NoTag
     ELSE [begin |-> begin, end |-> Min(ends), mode |-> "plain"]

(* A string that begins with a bracket is optional, and its last symbol is  *)
(* taken for the other bracket; of one that is only a bracket the code      *)
(* makes a text that ends before it begins, here one of no symbols         *)
StringToken(s, from, to) ==
  IF s[from] = "["
    THEN [tag |-> FALSE, opt |-> TRUE, text |-> SubSeq(s, from + 1, to - 1)]
    ELSE [tag |-> FALSE, opt |-> FALSE, text |-> SubSeq(s, from, to)]

tokenize_exp(s) ==
  LET from[position \in 1 .. Len(s) + 1] ==
        LET m == regexec_myext(s, position) IN
        IF m = NoTag THEN <<>>
        ELSE <<StringToken(s, position, m.begin - 1)>>
             \o (IF m.begin + 1 < m.end
                   THEN <<[tag |-> TRUE, opt |-> s[m.begin] = "{",
                           text |-> SubSeq(s, m.begin + 1, m.end - 1)]>>
                   ELSE <<>>)
             \o from[m.end + 1]
  IN from[1]
=============================================================================
