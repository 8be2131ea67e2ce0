--------------------------------- MODULE Wire ---------------------------------
(***************************************************************************)
(* Connection and Client composed: one MQClient and other connections,     *)
(* which say nothing and stay, on a server that is stopped at any time.    *)
(***************************************************************************)
EXTENDS Connection, Client

vars == <<streamVars, serverVars, clientVars>>

TypeOK == ConnectionTypeOK /\ ClientTypeOK

Init == StreamsInit /\ ConnectionInit /\ ClientInit

OtherConnects(k) ==
  /\ client_end[k] = "none"
  /\ client_end' = [client_end EXCEPT ![k] = "open"]
  /\ UNCHANGED <<to_server, to_client, server_end, serverVars, clientVars>>

Served == (MainStep \/ Stop \/ \E k \in Conn : HandlerStep(k)) /\ UNCHANGED clientVars

Next ==
  \/ Served
  \/ (ClientStep \/ ReceiveStep) /\ UNCHANGED serverVars
  \/ \E k \in Conn \ {Self} : OtherConnects(k)

Spec == Init /\ [][Next]_vars

(* The client's handler and the main thread run when they can, join comes  *)
(* back after five seconds, and the client reads what has arrived.  The    *)
(* handlers of the others may be stuck; nothing makes a client send, time  *)
(* out or close, or anybody stop the server.                               *)
FairSpec ==
  /\ Spec
  /\ WF_vars(HandlerStep(Self) /\ UNCHANGED clientVars)
  /\ WF_vars(MainStep /\ UNCHANGED clientVars)
  /\ WF_vars(ReceiveStep /\ UNCHANGED serverVars)

-----------------------------------------------------------------------------
\* The commands the client has sent, QUIT included; a blank line is none.
Sent == (IF asked = << <<>> >> THEN <<>> ELSE asked)
          \o (IF client = "closed" THEN << <<"q">> >> ELSE <<>>)

\* What decoding may make of a unit, and of a line.
Becomes(unit, char) ==
  \/ char = unit
  \/ unit = "h1" /\ char \in {"H1", "?"}
  \/ unit = "h2" /\ char \in {"H2", "?"}

Reads(line, command) ==
  Len(line) = Len(command) /\ \A i \in 1 .. Len(command) : Becomes(command[i], line[i])

(* However the stream is cut into chunks, in the middle of a character or  *)
(* of an end of line, the lines executed are those that were sent, in      *)
(* order, but for the characters that were cut; and a handler that waits   *)
(* for more has no complete command left (_handle_client).                 *)
FramingKept ==
  /\ Len(dispatched[Self]) <= Len(Sent)
  /\ \A n \in 1 .. Len(dispatched[Self]) : Reads(dispatched[Self][n], Sent[n])
  /\ handler[Self] = "recv" => LineEnds(buf[Self]) = {}

(* As long as every answer was of one line, send has returned the answer   *)
(* to the command it was called with, whole and nothing else, or what had  *)
(* arrived when the server closed (send, _recv).  With an answer of two    *)
(* lines before it, a command may get the rest of that one.                *)
InStep ==
  \A n \in 1 .. Len(returned) :
    (\A j \in 1 .. n - 1 : LinesOfAnswer(asked[j]) = 1)
      => IF Complete(returned[n])
           THEN returned[n] = Answer(n - 1, 1)
           ELSE server_end[Self] = "closed"

(* A consumer is registered exactly as long as its handler serves it, and  *)
(* when the handler has ended its socket is closed; only the connection    *)
(* accepted last may keep it, and then its client has gone                 *)
(* (_handle_client, _unregister_consumer).                                 *)
RegisteredWhileServed ==
  \A k \in Conn :
    /\ k \in consumers <=> handler[k] \in {"loop", "recv", "split", "leave"}
    /\ handler[k] = "ended" =>
         server_end[k] = "closed" \/ (k = conn /\ client_end[k] = "closed")

(* When the log is closed no handler is running any more, except one that  *)
(* was given five seconds and did not end, or one that was accepted when   *)
(* the signal came and is not in the list (stop).                          *)
OrderlyStop ==
  main = "closed" =>
    \A k \in Conn : handler[k] \in {"none", "ended"} \/ k \in abandoned \/ k = fresh

(* A command is answered, or the connection ends, without the client's     *)
(* timeout having to come to its help; a blank one is not answered         *)
(* (_handle_client, _recv).                                                *)
AnswerArrives ==
  client = "waiting" /\ (asked = <<>> \/ Last(asked) # <<>>) /\ Len(returned) = Len(asked)
    ~> client # "waiting"

(* stop comes to its end, whatever handlers wait for (stop, join).         *)
StopTerminates == main = "joining" ~> main = "exited"
=============================================================================
