------------------------------- MODULE MCMlex -------------------------------
(* Short pages and expressions in all shapes for the search, and pages of   *)
(* all symbols for the tokens, some of them inside a script.                *)
EXTENDS Mlex

CONSTANTS MaxTags, MaxCut

MCSymbol == {"<", ">", "{", "}", "[", "]", "/", " ", "script", "!--", "--", "a", "b", ".*"}

(* The regular expressions of the instance are one symbol, or none          *)
MCregfind(text, re) ==
  re = <<>> \/ re = <<".*">> \/ \E i \in DOMAIN text : re = <<text[i]>>

UpTo(S, n) == UNION {[1 .. k -> S] : k \in 0 .. n}
Joined(parts, n) == {FlattenSeq(s) : s \in UpTo(parts, n)}

Full  == {s \o <<"<", t, ">">> : s \in {<<>>, <<"a">>}, t \in {"a", "b"}}
Empty == {<<"<", ">">>, <<"a", "<", ">">>}
Pages == Joined(Full \cup Empty, MaxTags - 1) \cup Joined(Full, MaxTags)

Strings == {<<".*">>, <<"a">>, <<"[", ".*", "]">>, <<"[", "a", "]">>}
Tags == {<<"<", ".*", ">">>, <<"<", "a", ">">>, <<"{", ".*", "}">>, <<"{", "a", "}">>}
Expressions == {s \o t : s \in Strings, t \in Tags}

Cuts == UpTo({"<", ">", "/", " ", "script", "!--", "--", "a"}, MaxCut)
InScripts == {<<"<", "script", ">">> \o s \o <<"<", "/", "script", ">", "<", "a", ">">> : s \in Cuts}

MCInput ==
  (Pages \X (Expressions \cup {x \o y : x, y \in Expressions}))
  \cup ((Cuts \cup InScripts) \X {<<".*", "<", "a", ">">>})
=============================================================================
