-------------------------------- MODULE MCWire --------------------------------
(* Wire for TLC. *)
EXTENDS Wire

\* A command with a character of two bytes and an answer of one line,
\* one with an answer of two lines, and a blank line.
MCTyped == {<<"p", "h1", "h2">>, <<"d">>, <<>>}
=============================================================================
