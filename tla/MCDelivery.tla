----------------------------- MODULE MCDelivery -----------------------------
(* A header, and a body: none, a line that is empty, plain, a single dot,   *)
(* or has a dot at its beginning or its end, two of those dothack and      *)
(* tophack tell apart, or one without an end.  The page's size is short of  *)
(* some messages, that of one of them, or more than all have.              *)
EXTENDS Delivery

CONSTANT x

MCLine   == {<<>>, <<x>>, <<Dot>>, <<Dot, x>>, <<x, Dot>>}
MCPair   == {<<>>, <<Dot>>, <<x, Dot>>}
MCHeader == <<x, x>> \o Crlf \o Crlf
MCMessage ==
  {MCHeader, MCHeader \o <<x>>} \cup {MCHeader \o l \o Crlf : l \in MCLine}
    \cup {MCHeader \o p[1] \o Crlf \o p[2] \o Crlf : p \in MCPair \X MCPair}
MCSize   == {8, 20}
MCChar   == {x}
MCBefore == {<<>>, <<x, x>>}
=============================================================================
