------------------------------ MODULE Connection ------------------------------
(***************************************************************************)
(* The server's side of its connections, src/server.py: the accept loop    *)
(* and stop in the main thread (main.py calls stop in it when the accept   *)
(* loop has ended), and one handler thread per connection, from its first  *)
(* recv to the answers.  What a command does is in the other modules; here *)
(* it has an answer of one line or of two (protocol.py).                   *)
(***************************************************************************)
EXTENDS Streams

CONSTANT Nil

ASSUME ConnectionAssumption == Nil \notin Conn

VARIABLES
  main,         \* accept, list (the accepted thread is not listed yet),
                \* joining, closed (the log is), exited
  fresh,        \* the connection whose thread is not listed yet
  conn,         \* the local variable of start: the connection accepted last
  threads,      \* _client_threads
  to_join,      \* those stop has still to join
  abandoned,    \* those stop has given up on after five seconds
  consumers,    \* _consumers
  handler,      \* none, started, loop, recv, split, leave, ended
  buf,          \* the characters received and not yet executed
  dispatched    \* the lines executed

mainVars == <<main, fresh, conn, threads, to_join, abandoned>>
handlerVars == <<consumers, handler, buf, dispatched>>
serverVars == <<mainVars, handlerVars>>

ConnectionTypeOK ==
  /\ main \in {"accept", "list", "joining", "closed", "exited"}
  /\ fresh \in Conn \cup {Nil} /\ conn \in Conn \cup {Nil}
  /\ Range(threads) \subseteq Conn /\ Range(to_join) \subseteq Conn
  /\ abandoned \subseteq Conn /\ consumers \subseteq Conn
  /\ handler \in [Conn -> {"none", "started", "loop", "recv", "split", "leave", "ended"}]
  /\ \A k \in Conn : \A s \in {buf[k]} \cup Range(dispatched[k]) : Range(s) \cap {"h1", "h2"} = {}

ConnectionInit ==
  /\ main = "accept" /\ fresh = Nil /\ conn = Nil /\ threads = <<>> /\ to_join = <<>>
  /\ abandoned = {} /\ consumers = {}
  /\ handler = [k \in Conn |-> "none"]
  /\ buf = [k \in Conn |-> <<>>] /\ dispatched = [k \in Conn |-> <<>>]

-----------------------------------------------------------------------------
Running == main \in {"accept", "list"}
Goes(k, step) == handler' = [handler EXCEPT ![k] = step]

(* Sockets closed, with whatever is still in them unread. *)
Closes(S) ==
  /\ server_end' = [k \in Conn |-> IF k \in S THEN "closed" ELSE server_end[k]]
  /\ to_server' = [k \in Conn |-> IF k \in S THEN <<>> ELSE to_server[k]]

(* start's variable conn is the last name of a socket whose handler ended  *)
(* without closing it: when the name goes, the interpreter closes it.      *)
LetsGo == Closes({k \in Conn : k = conn /\ handler[k] = "ended"})

Accept(k) ==
  /\ main = "accept"
  /\ client_end[k] # "none" /\ handler[k] = "none"
  /\ Goes(k, "started")
  /\ main' = "list" /\ fresh' = k
  /\ LetsGo /\ conn' = k
  /\ UNCHANGED <<to_client, client_end, threads, to_join, abandoned, consumers, buf, dispatched>>

ListThread ==
  /\ main = "list"
  /\ threads' = Append(threads, fresh)
  /\ main' = "accept" /\ fresh' = Nil
  /\ UNCHANGED <<streamVars, conn, to_join, abandoned, handlerVars>>

(* Ctrl-C, wherever it finds the accept loop: start is left, and _running  *)
(* is false.                                                               *)
Stop ==
  /\ Running
  /\ main' = "joining"
  /\ to_join' = threads
  /\ LetsGo /\ conn' = Nil
  /\ UNCHANGED <<to_client, client_end, fresh, threads, abandoned, handlerVars>>

(* Deviations: a join without a timeout, and a loop over half the list.    *)
JoinsForGood ==
  /\ main = "joining" /\ to_join # <<>>
  /\ handler[Head(to_join)] = "ended"
  /\ to_join' = Tail(to_join)
  /\ UNCHANGED <<streamVars, main, fresh, conn, threads, abandoned, handlerVars>>

JoinsEverySecond ==
  /\ main = "joining" /\ to_join # <<>>
  /\ abandoned' = IF handler[Head(to_join)] = "ended" THEN abandoned
                  ELSE abandoned \cup {Head(to_join)}
  /\ to_join' = SubSeq(to_join, 3, Len(to_join))
  /\ UNCHANGED <<streamVars, main, fresh, conn, threads, handlerVars>>

(* join(timeout=5.0) returns when the thread has ended or the time is up.  *)
Join ==
  /\ main = "joining" /\ to_join # <<>>
  /\ abandoned' = IF handler[Head(to_join)] = "ended" THEN abandoned
                  ELSE abandoned \cup {Head(to_join)}
  /\ to_join' = Tail(to_join)
  /\ UNCHANGED <<streamVars, main, fresh, conn, threads, handlerVars>>

CloseLog ==
  /\ main = "joining" /\ to_join = <<>>
  /\ main' = "closed"
  /\ UNCHANGED <<streamVars, fresh, conn, threads, to_join, abandoned, handlerVars>>

(* The handlers are daemon threads: they end with the process, and so do   *)
(* all connections, accepted or not.                                       *)
Exit ==
  /\ main = "closed"
  /\ main' = "exited"
  /\ handler' = [k \in Conn |-> "ended"]
  /\ consumers' = {}
  /\ server_end' = [k \in Conn |-> "closed"]
  /\ to_server' = [k \in Conn |-> <<>>] /\ buf' = to_server'
  /\ UNCHANGED <<to_client, client_end, fresh, conn, threads, to_join, abandoned,
                 dispatched>>

-----------------------------------------------------------------------------
(* The lines of the answer: LIST_TOPICS, LIST_QUEUES and a CONSUME that    *)
(* finds something ("d" here) have their length on a line of its own.      *)
LinesOfAnswer(line) == IF line = <<"d">> THEN 2 ELSE 1

Answer(n, lines) ==
  [i \in 1 .. 2 * lines |-> <<n, (i + 1) \div 2, IF i % 2 = 1 THEN "text" ELSE "end">>]

(* sendall: to a client that has closed it may fail; the attempt to report *)
(* that fails as well and the handler leaves its loop.                     *)
Sends(k, units, next) ==
  \/ /\ to_client' = [to_client EXCEPT ![k] = @ \o units]
     /\ Goes(k, next)
  \/ /\ client_end[k] = "closed"
     /\ Goes(k, "leave")
     /\ UNCHANGED to_client

Welcome(k) ==
  /\ handler[k] = "started"
  /\ consumers' = consumers \cup {k}
  /\ Sends(k, Answer(0, 1), "loop")
  /\ UNCHANGED <<to_server, client_end, server_end, mainVars, buf, dispatched>>

(* The handler looks at _running only here, between two recvs. *)
Loop(k) ==
  /\ handler[k] = "loop"
  /\ Goes(k, IF Running THEN "recv" ELSE "leave")
  /\ UNCHANGED <<streamVars, mainVars, consumers, buf, dispatched>>

LineEnds(s) == {i \in 1 .. Len(s) - 1 : s[i] = "cr" /\ s[i + 1] = "lf"}

(* while "\r\n" in buf: what the handler goes on with. *)
InBuffer(s) == IF LineEnds(s) = {} THEN "loop" ELSE "split"

(* A deviation: bytes taken for characters. *)
Undecoded(bytes) == bytes

(* bytes.decode(errors="replace") of one chunk: a byte that lacks the      *)
(* other half of its character becomes a replacement character.  The       *)
(* character of two bytes that is whole keeps their places: "H1", "H2".    *)
Decoded(bytes) ==
  LET Whole(i) == i \in 1 .. Len(bytes) - 1 /\ bytes[i] = "h1" /\ bytes[i + 1] = "h2"
  IN [i \in DOMAIN bytes |->
        IF Whole(i) THEN "H1" ELSE IF Whole(i - 1) THEN "H2"
        ELSE IF bytes[i] \in {"h1", "h2"} THEN "?" ELSE bytes[i]]

(* A deviation: the rest of the last chunk forgotten. *)
BufferedAnew(k, bytes) == Decoded(bytes)
Buffered(k, bytes) == buf[k] \o Decoded(bytes)

Recv(k) ==
  /\ handler[k] = "recv"
  /\ \E n \in 1 .. Len(to_server[k]) :
       /\ buf' = [buf EXCEPT ![k] = Buffered(k, Chunk(to_server[k], n))]
       /\ to_server' = [to_server EXCEPT ![k] = AfterChunk(@, n)]
  /\ Goes(k, InBuffer(buf'[k]))
  /\ UNCHANGED <<to_client, client_end, server_end, mainVars, consumers, dispatched>>

(* A deviation: an early end that skips the clean-up. *)
EndsUncleaned(k) ==
  /\ handler[k] = "recv"
  /\ client_end[k] = "closed"
  /\ Goes(k, "ended")
  /\ UNCHANGED <<streamVars, mainVars, consumers, buf, dispatched>>

(* The end of the stream, or a reset that takes what was still in it.      *)
RecvEnds(k) ==
  /\ handler[k] = "recv"
  /\ client_end[k] = "closed"
  /\ Goes(k, "leave")
  /\ UNCHANGED <<streamVars, mainVars, consumers, buf, dispatched>>

(* buf.split("\r\n", 1); the first of the two is a deviation, rsplit.      *)
LastEnd(s) == Max(LineEnds(s))
FirstEnd(s) == Min(LineEnds(s))

Line(k) ==
  /\ handler[k] = "split"
  /\ LET e == FirstEnd(buf[k])
         line == SubSeq(buf[k], 1, e - 1)
     IN /\ buf' = [buf EXCEPT ![k] = SubSeq(@, e + 2, Len(@))]
        /\ IF line = <<>>
             THEN Goes(k, InBuffer(buf'[k])) /\ UNCHANGED <<dispatched, to_client>>
             ELSE /\ dispatched' = [dispatched EXCEPT ![k] = Append(@, line)]
                  /\ Sends(k, Answer(Len(dispatched'[k]), LinesOfAnswer(line)), InBuffer(buf'[k]))
  /\ UNCHANGED <<to_server, client_end, server_end, mainVars, consumers>>

(* The finally block: _unregister_consumer takes the consumer out of all   *)
(* tables, and the socket is closed.  For the member of a group that has   *)
(* had a message ("d"), _redeliver_pending_messages then meets the name    *)
(* MessageStatus and raises: conn.close() is not reached, and the socket   *)
(* is closed only because nothing refers to it any more, unless start's    *)
(* conn still does.                                                        *)
Leave(k) ==
  /\ handler[k] = "leave"
  /\ Goes(k, "ended")
  /\ consumers' = consumers \ {k}
  /\ \/ Closes({k}) /\ buf' = [buf EXCEPT ![k] = <<>>]
     \/ /\ k = conn /\ <<"d">> \in Range(dispatched[k])
        /\ UNCHANGED <<server_end, to_server, buf>>
  /\ UNCHANGED <<to_client, client_end, mainVars, dispatched>>

-----------------------------------------------------------------------------
HandlerStep(k) ==
  \/ Welcome(k) \/ Loop(k) \/ Recv(k) \/ RecvEnds(k)
  \/ Line(k) \/ Leave(k)

MainStep == ListThread \/ Join \/ CloseLog \/ Exit \/ \E k \in Conn : Accept(k)
=============================================================================
