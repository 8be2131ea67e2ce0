-------------------------------- MODULE Client --------------------------------
(***************************************************************************)
(* The command line client, client.py: one MQClient, its REPL or its       *)
(* single command, on connection Self.                                     *)
(***************************************************************************)
EXTENDS Streams

CONSTANTS
  Self,
  Typed,         \* the commands a user may type, as units
  MaxCommands    \* a bound on their number

\* A command is one line: no end of line is inside it.
ASSUME ClientAssumption ==
  /\ Self \in Conn
  /\ Typed \subseteq Seq(STRING)
  /\ \A command \in Typed : \A i \in 1 .. Len(command) - 1 :
       ~(command[i] = "cr" /\ command[i + 1] = "lf")

VARIABLES
  client,        \* off, waiting (in _recv), ready, closed
  asked,         \* the commands sent
  data,          \* what _recv has received so far
  returned       \* what connect and send have returned, one by one

clientVars == <<client, asked, data, returned>>

ClientTypeOK ==
  /\ client \in {"off", "waiting", "ready", "closed"}
  /\ Range(asked) \subseteq Typed
  /\ Len(returned) <= Len(asked) + 1

ClientInit == client = "off" /\ asked = <<>> /\ data = <<>> /\ returned = <<>>

CRLF == <<"cr", "lf">>

\* What is written to a connection that the server has closed goes nowhere.
Writes(units) ==
  to_server' = IF server_end[Self] = "closed" THEN to_server
               ELSE [to_server EXCEPT ![Self] = @ \o units]

-----------------------------------------------------------------------------
Connect ==
  /\ client = "off"
  /\ client' = "waiting"
  /\ client_end' = [client_end EXCEPT ![Self] = "open"]
  /\ UNCHANGED <<to_server, to_client, server_end, asked, data, returned>>

(* send.  The REPL sends no blank line: a blank can only be the one        *)
(* command of a command line.                                              *)
Send(command) ==
  /\ client = "ready"
  /\ Len(asked) < MaxCommands
  /\ <<>> \in Range(Append(asked, command)) => asked = <<>>
  /\ asked' = Append(asked, command)
  /\ client' = "waiting"
  /\ Writes(command \o CRLF)
  /\ UNCHANGED <<to_client, client_end, server_end, data, returned>>

Complete(units) == \E i \in DOMAIN units : units[i][3] = "end"

(* A deviation: data outlives the call. *)
KeepsData(units) ==
  /\ returned' = Append(returned, units)
  /\ data' = units
  /\ client' = "ready"

(* _recv returns all it has got, once there is an end of line in it.       *)
ReturnData(units) ==
  /\ returned' = Append(returned, units)
  /\ data' = <<>>
  /\ client' = "ready"

(* _recv: more and more chunks, until there is an end of line.             *)
Receive ==
  /\ client = "waiting"
  /\ \E n \in 1 .. Len(to_client[Self]) :
       LET all == data \o Chunk(to_client[Self], n) IN
       /\ to_client' = [to_client EXCEPT ![Self] = AfterChunk(@, n)]
       /\ IF Complete(all)
            THEN ReturnData(all)
            ELSE data' = all /\ UNCHANGED <<client, returned>>
  /\ UNCHANGED <<to_server, client_end, server_end, asked>>

(* The server has closed: _recv returns what it has, perhaps nothing.      *)
ReceiveEnd ==
  /\ client = "waiting"
  /\ to_client[Self] = <<>> /\ server_end[Self] = "closed"
  /\ returned' = Append(returned, data)
  /\ data' = <<>>
  /\ client' = "ready"
  /\ UNCHANGED <<streamVars, asked>>

(* disconnect: by "quit", by the timeout of ten seconds, or because the    *)
(* connection was closed.                                                  *)
Disconnect ==
  /\ client \in {"waiting", "ready"}
  /\ client' = "closed"
  /\ client_end' = [client_end EXCEPT ![Self] = "closed"]
  /\ Writes(<<"q">> \o CRLF)
  /\ UNCHANGED <<to_client, server_end, asked, data, returned>>

ClientStep == Connect \/ Disconnect \/ \E command \in Typed : Send(command)
ReceiveStep == Receive \/ ReceiveEnd
=============================================================================
