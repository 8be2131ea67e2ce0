-------------------------------- MODULE Streams --------------------------------
(***************************************************************************)
(* TCP connections between clients and the server: in each direction a     *)
(* stream of units that arrives whole and in order, but in chunks that     *)
(* have nothing to do with what was written at a time.                     *)
(*                                                                         *)
(* A unit to the server is a character of one byte, a byte of a character  *)
(* of two ("h1", "h2"), or "cr" or "lf".  To the client it is the text or  *)
(* the end of a line: <<n, l, "text">>, <<n, l, "end">> for line l of the  *)
(* answer to command n; the welcome is the answer to command 0.            *)
(***************************************************************************)
EXTENDS Integers, Sequences, FiniteSetsExt, SequencesExt

CONSTANT Conn

VARIABLES
  to_server, to_client,
  client_end,   \* none, open, closed: the client's socket
  server_end    \* open, closed: the server's

streamVars == <<to_server, to_client, client_end, server_end>>

StreamsInit ==
  /\ to_server = [k \in Conn |-> <<>>] /\ to_client = [k \in Conn |-> <<>>]
  /\ client_end = [k \in Conn |-> "none"]
  /\ server_end = [k \in Conn |-> "open"]

\* What one recv returns, and what is left of the stream.
Chunk(stream, n) == SubSeq(stream, 1, n)
AfterChunk(stream, n) == SubSeq(stream, n + 1, Len(stream))
=============================================================================
