--------------------------- MODULE MCLineReceiver ---------------------------
(* Lines that are empty, short, one character too long, much too long, or   *)
(* have a carriage return inside.                                           *)
EXTENDS LineReceiver

CONSTANTS a, b

MCChar  == {a, b}
MCLine  == {<<>>, <<a, b>>, <<a, b, b>>, <<a, b, b, a, b, b, a>>, <<b, Cr, a>>}
MCShort == {<<a, b>>}
=============================================================================
