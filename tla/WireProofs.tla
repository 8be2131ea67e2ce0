------------------------------ MODULE WireProofs ------------------------------
(* Proofs about Wire, for any number of connections and any commands.       *)
EXTENDS Wire, SequenceTheorems, WellFoundedInduction, TLAPS

LEMMA RangeFacts ==
  /\ Range(<<>>) = {}
  /\ \A s \in Seq(Conn), k \in Conn : Range(Append(s, k)) = Range(s) \cup {k}
  /\ \A s \in Seq(Conn) : s # <<>> =>
       Head(s) \in Conn /\ Tail(s) \in Seq(Conn) /\ Range(s) \subseteq {Head(s)} \cup Range(Tail(s))
<1>1. Range(<<>>) = {}
  BY DEF Range
<1>2. ASSUME NEW s \in Seq(Conn), NEW k \in Conn
      PROVE  Range(Append(s, k)) = Range(s) \cup {k}
  <2>1. /\ DOMAIN Append(s, k) = 1 .. Len(s) + 1 /\ DOMAIN s = 1 .. Len(s) /\ Len(s) \in Nat
        /\ \A i \in 1 .. Len(s) : Append(s, k)[i] = s[i]
        /\ Append(s, k)[Len(s) + 1] = k
    OBVIOUS
  <2>2. 1 .. Len(s) + 1 = (1 .. Len(s)) \cup {Len(s) + 1}
    BY <2>1
  <2> QED
    BY <2>1, <2>2 DEF Range
<1>3. ASSUME NEW s \in Seq(Conn), s # <<>>
      PROVE  Head(s) \in Conn /\ Tail(s) \in Seq(Conn)
               /\ Range(s) \subseteq {Head(s)} \cup Range(Tail(s))
  <2>1. Head(s) \in Conn /\ Tail(s) \in Seq(Conn) /\ Head(s) = s[1]
        /\ Len(s) \in Nat \ {0} /\ DOMAIN s = 1 .. Len(s)
    BY <1>3
  <2>2. DOMAIN Tail(s) = 1 .. Len(s) - 1 /\ \A i \in 1 .. Len(s) - 1 : Tail(s)[i] = s[i + 1]
    BY <1>3
  <2>3. ASSUME NEW i \in DOMAIN s, i # 1
        PROVE  i - 1 \in DOMAIN Tail(s) /\ Tail(s)[i - 1] = s[i]
    BY <2>1, <2>2, <2>3
  <2> QED
    BY <2>1, <2>3 DEF Range
<1> QED
  BY <1>1, <1>2, <1>3

-----------------------------------------------------------------------------
HandlerSteps == {"none", "started", "loop", "recv", "split", "leave", "ended"}

HandlerTypes ==
  /\ handler \in [Conn -> HandlerSteps] /\ consumers \subseteq Conn
  /\ server_end \in [Conn -> {"open", "closed"}]

ThreadTypes ==
  /\ main \in {"accept", "list", "joining", "closed", "exited"}
  /\ threads \in Seq(Conn) /\ to_join \in Seq(Conn)
  /\ main = "list" => fresh \in Conn
  /\ ~Running => conn = Nil

RunsNow(k) == handler[k] \notin {"none", "ended"}

(* OrderlyStop is not inductive: until the log is closed, a running handler *)
(* is one that is still to be listed, to be joined or was given up on.      *)
HandlersKnown ==
  \A k \in Conn : RunsNow(k) =>
    /\ main = "accept" => k \in Range(threads)
    /\ main = "list" => k \in Range(threads) \/ k = fresh
    /\ main = "joining" => k \in Range(to_join) \/ k \in abandoned \/ k = fresh
    /\ main = "closed" => k \in abandoned \/ k = fresh

(* Why a handler leaves: its client has closed, or the server stops.        *)
Leavers ==
  /\ client_end \in [Conn -> {"none", "open", "closed"}]
  /\ client = "off" => client_end[Self] = "none"
  /\ \A k \in Conn : handler[k] = "leave" => client_end[k] = "closed" \/ ~Running

StopInv == HandlerTypes /\ ThreadTypes /\ RegisteredWhileServed /\ HandlersKnown /\ Leavers

LEMMA StopInit == Init => StopInv
BY ClientAssumption
   DEF Init, StreamsInit, ConnectionInit, ClientInit, StopInv, HandlerTypes, HandlerSteps,
       ThreadTypes, RegisteredWhileServed, HandlersKnown, RunsNow, Leavers, Running

(* A handler's steps.                                                       *)
LEMMA HandlerKeeps ==
  ASSUME StopInv, NEW k \in Conn, HandlerStep(k), UNCHANGED clientVars
  PROVE  StopInv'
<1> USE DEF StopInv
<1>1. /\ UNCHANGED mainVars /\ UNCHANGED client_end
      /\ RunsNow(k)
  BY DEF HandlerStep, Welcome, Loop, Recv, RecvEnds, Line, Leave, RunsNow, streamVars
<1>2. PICK step \in HandlerSteps \ {"none", "started"} :
           /\ Goes(k, step)
           /\ step = "leave" => client_end[k] = "closed" \/ ~Running
           /\ \/ /\ step # "ended" /\ UNCHANGED server_end
                 /\ consumers' = consumers \cup {k}
              \/ /\ step = "ended" /\ Closes({k})
                 /\ consumers' = consumers \ {k}
              \/ /\ step = "ended" /\ handler[k] = "leave" /\ k = conn
                 /\ UNCHANGED server_end
                 /\ consumers' = consumers \ {k}
  <2>1. CASE Welcome(k)
    BY <2>1 DEF Welcome, Sends, HandlerSteps
  <2>2. CASE Loop(k)
    <3>1. k \in consumers
      BY <2>2 DEF Loop, RegisteredWhileServed
    <3> QED
      BY <2>2, <3>1 DEF Loop, HandlerSteps, streamVars
  <2>3. CASE Recv(k)
    <3>1. k \in consumers
      BY <2>3 DEF Recv, RegisteredWhileServed
    <3>2. InBuffer(buf'[k]) \in {"loop", "split"}
      BY DEF InBuffer
    <3> QED
      BY <2>3, <3>1, <3>2 DEF Recv, HandlerSteps
  <2>4. CASE RecvEnds(k)
    <3>1. k \in consumers
      BY <2>4 DEF RecvEnds, RegisteredWhileServed
    <3> QED
      BY <2>4, <3>1 DEF RecvEnds, HandlerSteps, streamVars
  <2>5. CASE Line(k)
    <3>1. k \in consumers
      BY <2>5 DEF Line, RegisteredWhileServed
    <3>2. InBuffer(buf'[k]) \in {"loop", "split"}
      BY DEF InBuffer
    <3>3. \/ Goes(k, InBuffer(buf'[k]))
          \/ Goes(k, "leave") /\ client_end[k] = "closed"
      BY <2>5 DEF Line, Sends
    <3>4. UNCHANGED <<server_end, consumers>>
      BY <2>5 DEF Line
    <3>5. CASE Goes(k, InBuffer(buf'[k]))
      BY <3>1, <3>2, <3>4, <3>5 DEF HandlerSteps
    <3>6. CASE Goes(k, "leave") /\ client_end[k] = "closed"
      BY <3>1, <3>4, <3>6 DEF HandlerSteps
    <3> QED
      BY <3>3, <3>5, <3>6
  <2>6. CASE Leave(k)
    BY <2>6 DEF Leave, HandlerSteps
  <2> QED
    BY <2>1, <2>2, <2>3, <2>4, <2>5, <2>6 DEF HandlerStep
<1>3. HandlerTypes' /\ ThreadTypes'
  BY <1>1, <1>2 DEF HandlerTypes, ThreadTypes, Goes, mainVars, Closes, Running
<1>4. RegisteredWhileServed'
  <2>1. CASE step # "ended" /\ UNCHANGED server_end /\ consumers' = consumers \cup {k}
    BY <1>1, <1>2, <2>1
       DEF HandlerTypes, HandlerSteps, RegisteredWhileServed, Goes, mainVars
  <2>2. CASE step = "ended" /\ Closes({k}) /\ consumers' = consumers \ {k}
    BY <1>1, <1>2, <2>2
       DEF HandlerTypes, HandlerSteps, RegisteredWhileServed, Goes, Closes, mainVars
  <2>3. CASE /\ step = "ended" /\ handler[k] = "leave" /\ k = conn
             /\ UNCHANGED server_end /\ consumers' = consumers \ {k}
    <3>1. client_end[k] = "closed"
      BY <2>3, ConnectionAssumption DEF Leavers, ThreadTypes
    <3> QED
      BY <1>1, <1>2, <2>3, <3>1
         DEF HandlerTypes, HandlerSteps, RegisteredWhileServed, Goes, mainVars
  <2> QED
    BY <1>2, <2>1, <2>2, <2>3
<1>5. HandlersKnown'
  <2>1. \A j \in Conn : RunsNow(j)' => RunsNow(j)
    BY <1>1, <1>2 DEF RunsNow, Goes, HandlerTypes
  <2> QED
    BY <1>1, <2>1 DEF HandlersKnown, mainVars
<1>6. Leavers'
  <2>1. UNCHANGED client
    BY DEF clientVars
  <2> QED
    BY <1>1, <1>2, <2>1 DEF Leavers, Goes, HandlerTypes, mainVars, Running
<1> QED
  BY <1>3, <1>4, <1>5, <1>6

(* The main thread's steps.                                                 *)
LEMMA MainKeeps ==
  ASSUME StopInv, MainStep \/ Stop, UNCHANGED clientVars
  PROVE  StopInv'
<1> USE DEF StopInv
<1>0. UNCHANGED client /\ UNCHANGED client_end
  BY DEF clientVars, MainStep, Stop, Accept, ListThread, Join, CloseLog, Exit, streamVars
(* Where conn is let go, the socket of an ended handler is closed.          *)
<1>a. ASSUME LetsGo
      PROVE  /\ server_end' \in [Conn -> {"open", "closed"}]
             /\ \A k \in Conn : handler[k] = "ended" => server_end'[k] = "closed"
  BY <1>a DEF LetsGo, Closes, HandlerTypes, RegisteredWhileServed
<1>1. ASSUME NEW k \in Conn, Accept(k)
      PROVE  StopInv'
  <2>1. HandlerTypes' /\ ThreadTypes'
    BY <1>1, <1>a DEF Accept, Goes, HandlerTypes, HandlerSteps, ThreadTypes, Running
  <2>2. RegisteredWhileServed'
    BY <1>1, <1>a DEF Accept, Goes, HandlerTypes, RegisteredWhileServed
  <2>3. HandlersKnown'
    BY <1>1 DEF Accept, Goes, HandlerTypes, HandlersKnown, RunsNow
  <2>4. Leavers'
    BY <1>0, <1>1 DEF Accept, Goes, HandlerTypes, Leavers, Running
  <2> QED
    BY <2>1, <2>2, <2>3, <2>4
<1>2. CASE ListThread
  <2>1. /\ threads' \in Seq(Conn) /\ Range(threads') = Range(threads) \cup {fresh}
        /\ main = "list" /\ main' = "accept"
        /\ UNCHANGED <<streamVars, conn, to_join, abandoned, handlerVars>>
    BY <1>2, RangeFacts DEF ListThread, ThreadTypes
  <2> QED
    BY <1>0, <2>1 DEF streamVars, handlerVars, HandlerTypes, ThreadTypes, RegisteredWhileServed,
                HandlersKnown, RunsNow, Leavers, Running
<1>3. CASE Stop
  <2>1. HandlerTypes' /\ ThreadTypes'
    BY <1>3, <1>a DEF Stop, Running, handlerVars, HandlerTypes, ThreadTypes
  <2>2. RegisteredWhileServed'
    BY <1>3, <1>a DEF Stop, handlerVars, RegisteredWhileServed
  <2>3. HandlersKnown' /\ Leavers'
    BY <1>0, <1>3 DEF Stop, Running, handlerVars, HandlersKnown, RunsNow, Leavers
  <2> QED
    BY <2>1, <2>2, <2>3
<1>4. CASE Join
  <2>1. /\ to_join' \in Seq(Conn) /\ Range(to_join) \subseteq {Head(to_join)} \cup Range(to_join')
        /\ main = "joining"
        /\ abandoned' = IF handler[Head(to_join)] = "ended" THEN abandoned
                        ELSE abandoned \cup {Head(to_join)}
        /\ UNCHANGED <<streamVars, main, fresh, conn, threads, handlerVars>>
    BY <1>4, RangeFacts DEF Join, ThreadTypes
  <2>2. HandlerTypes' /\ ThreadTypes' /\ RegisteredWhileServed' /\ Leavers'
    BY <1>0, <2>1 DEF streamVars, handlerVars, HandlerTypes, ThreadTypes, RegisteredWhileServed,
                      Leavers, Running
  <2>3. HandlersKnown'
    BY <2>1 DEF handlerVars, HandlersKnown, RunsNow
  <2> QED
    BY <2>2, <2>3
<1>5. CASE CloseLog
  BY <1>0, <1>5, RangeFacts
     DEF CloseLog, streamVars, handlerVars, HandlerTypes, ThreadTypes, RegisteredWhileServed,
         HandlersKnown, RunsNow, Leavers, Running
<1>6. CASE Exit
  BY <1>0, <1>6 DEF Exit, HandlerTypes, HandlerSteps, ThreadTypes, RegisteredWhileServed,
              HandlersKnown, RunsNow, Leavers, Running
<1> QED
  BY <1>1, <1>2, <1>3, <1>4, <1>5, <1>6 DEF MainStep

LEMMA StopStep == StopInv /\ [Next]_vars => StopInv'
<1> SUFFICES ASSUME StopInv, [Next]_vars
             PROVE  StopInv'
  OBVIOUS
<1>1. CASE Served
  BY <1>1, MainKeeps, HandlerKeeps DEF Served
<1>2. ASSUME \/ (ClientStep \/ ReceiveStep) /\ UNCHANGED serverVars
             \/ \E k \in Conn \ {Self} : OtherConnects(k)
             \/ UNCHANGED vars
      PROVE  StopInv'
  <2>1. UNCHANGED serverVars /\ UNCHANGED server_end
    BY <1>2 DEF ClientStep, ReceiveStep, Connect, Disconnect, Send, Receive, ReceiveEnd,
                OtherConnects, vars, streamVars
  <2>2. /\ client_end' \in [Conn -> {"none", "open", "closed"}]
        /\ client' = "off" => client_end'[Self] = "none"
        /\ \A k \in Conn : client_end[k] = "closed" => client_end'[k] = "closed"
    <3>1. CASE Connect \/ Disconnect
      BY <3>1, ClientAssumption DEF Connect, Disconnect, StopInv, Leavers
    <3>2. ASSUME NEW k \in Conn \ {Self}, OtherConnects(k)
          PROVE  <2>2!:
      BY <3>2 DEF OtherConnects, clientVars, StopInv, Leavers
    <3>3. CASE (\E command \in Typed : Send(command)) \/ ReceiveStep \/ UNCHANGED vars
      <4>1. UNCHANGED client_end /\ (client' = "off" => client = "off")
        BY <3>3 DEF Send, ReceiveStep, Receive, ReceiveEnd, ReturnData, vars, streamVars, clientVars
      <4> QED
        BY <4>1 DEF StopInv, Leavers
    <3> QED
      BY <1>2, <3>1, <3>2, <3>3 DEF ClientStep
  <2>3. HandlerTypes' /\ ThreadTypes' /\ HandlersKnown'
    BY <2>1 DEF serverVars, mainVars, handlerVars, StopInv, HandlerTypes, ThreadTypes,
                HandlersKnown, RunsNow, Running
  <2>4. RegisteredWhileServed' /\ Leavers'
    BY <2>1, <2>2 DEF serverVars, mainVars, handlerVars, StopInv, RegisteredWhileServed,
                      Leavers, Running
  <2> QED
    BY <2>3, <2>4 DEF StopInv
<1> QED
  BY <1>1, <1>2 DEF Next

LEMMA StopInvariant == Spec => []StopInv
BY StopInit, StopStep, PTL DEF Spec

-----------------------------------------------------------------------------
(* A consumer is registered exactly while its handler serves it, and the    *)
(* only socket that may outlast its handler is that of the connection       *)
(* accepted last, whose client has closed (_handle_client,                  *)
(* _unregister_consumer).                                                   *)
THEOREM ServedAreRegistered == Spec => []RegisteredWhileServed
BY StopInvariant, PTL DEF StopInv

(* Nobody writes to the log after it is closed but a handler that was given *)
(* up on, and the one that stop could not know of (stop).                   *)
THEOREM StopIsOrderly == Spec => []OrderlyStop
<1>1. StopInv => OrderlyStop
  BY DEF StopInv, HandlersKnown, RunsNow, OrderlyStop
<1> QED
  BY <1>1, StopInvariant, PTL

-----------------------------------------------------------------------------
(* Lines in a stream of units.                                              *)

Unit == (UNION {Range(command) : command \in Typed}) \cup {"cr", "lf", "q", "H1", "H2", "?"}

LineAt(P, at, command) ==
  /\ at + Len(command) + 2 <= Len(P)
  /\ \A i \in 1 .. Len(command) : Becomes(command[i], P[at + i])
  /\ P[at + (Len(command) + 1)] = "cr" /\ P[at + (Len(command) + 2)] = "lf"

(* P is the lines of W after the first done, one behind the other; line n   *)
(* ends where cut[n] says.                                                  *)
Laid(P, W, done, cut) ==
  /\ cut \in [done .. Len(W) -> Nat]
  /\ cut[done] = 0 /\ cut[Len(W)] = Len(P)
  /\ \A m, n \in done .. Len(W) : m <= n => cut[m] <= cut[n]
  /\ \A n \in done + 1 .. Len(W) :
       LineAt(P, cut[n - 1], W[n]) /\ cut[n] = cut[n - 1] + Len(W[n]) + 2

OneLine(command) ==
  \A i \in 1 .. Len(command) - 1 : ~(command[i] = "cr" /\ command[i + 1] = "lf")

(* Every unit of P may have become the one of Q that is so much further on. *)
Kept(P, a, Q, b, n) ==
  \A i \in 1 .. n : \A unit \in Unit : Becomes(unit, P[a + i]) => Becomes(unit, Q[b + i])

LEMMA Units == {"cr", "lf", "q", "H1", "H2", "?"} \subseteq Unit
<1> SUFFICES ASSUME NEW u \in {"cr", "lf", "q", "H1", "H2", "?"}
             PROVE  u \in Unit
  BY Zenon
<1> QED
  BY Zenon DEF Unit

LEMMA DecodedUnits ==
  ASSUME NEW bytes \in Seq(Unit)
  PROVE  /\ Decoded(bytes) \in Seq(Unit) /\ Len(Decoded(bytes)) = Len(bytes)
         /\ \A i \in 1 .. Len(bytes) : Decoded(bytes)[i] \notin {"h1", "h2"}
         /\ \A i \in 1 .. Len(bytes) : \A unit \in Unit :
              Becomes(unit, bytes[i]) => Becomes(unit, Decoded(bytes)[i])
<1>1. DOMAIN bytes = 1 .. Len(bytes) /\ Len(bytes) \in Nat
  OBVIOUS
<1> DEFINE d == Decoded(bytes)
<1>2. DOMAIN d = 1 .. Len(bytes)
  BY <1>1 DEF Decoded
<1>3. ASSUME NEW i \in 1 .. Len(bytes)
      PROVE  /\ d[i] \in Unit /\ d[i] \notin {"h1", "h2"}
             /\ \/ d[i] = bytes[i]
                \/ bytes[i] = "h1" /\ d[i] \in {"H1", "?"}
                \/ bytes[i] = "h2" /\ d[i] \in {"H2", "?"}
  <2>1. bytes[i] \in Unit
    OBVIOUS
  <2>2. i \in Int /\ i - 1 + 1 = i /\ i \in DOMAIN bytes
    BY <1>1
  <2>3. d[i] = IF i \in 1 .. Len(bytes) - 1 /\ bytes[i] = "h1" /\ bytes[i + 1] = "h2" THEN "H1"
               ELSE IF i - 1 \in 1 .. Len(bytes) - 1 /\ bytes[i - 1] = "h1" /\ bytes[i] = "h2"
                 THEN "H2"
               ELSE IF bytes[i] \in {"h1", "h2"} THEN "?" ELSE bytes[i]
    BY <2>2, Zenon DEF Decoded
  <2> HIDE DEF d
  <2>4. \/ bytes[i] = "h1" /\ d[i] = "H1"
        \/ bytes[i] = "h2" /\ d[i] = "H2"
        \/ bytes[i] \in {"h1", "h2"} /\ d[i] = "?"
        \/ bytes[i] # "h1" /\ bytes[i] # "h2" /\ d[i] = bytes[i]
    BY <2>3, Zenon
  <2>5. {"H1", "H2", "?"} \subseteq Unit
    BY Units
  <2>6. d[i] \in Unit
    BY <2>1, <2>4, <2>5, Zenon
  <2>7. d[i] # "h1" /\ d[i] # "h2"
    BY <2>4
  <2>8. \/ d[i] = bytes[i]
        \/ bytes[i] = "h1" /\ d[i] \in {"H1", "?"}
        \/ bytes[i] = "h2" /\ d[i] \in {"H2", "?"}
    BY <2>4, Zenon
  <2> QED
    BY <2>6, <2>7, <2>8, Zenon
<1>4. d \in Seq(Unit) /\ Len(d) = Len(bytes)
  <2>1. d \in [1 .. Len(bytes) -> Unit]
    BY <1>2, <1>3 DEF Decoded
  <2> QED
    BY <1>1, <2>1
<1> QED
  BY <1>3, <1>4 DEF Becomes

LEMMA LineBounds ==
  ASSUME NEW P \in Seq(Unit), NEW at \in Nat, NEW command \in Seq(Unit),
         LineAt(P, at, command), NEW i \in 1 .. Len(command) + 2
  PROVE  at + i \in 1 .. Len(P)
<1>1. at + Len(command) + 2 <= Len(P)
  BY DEF LineAt
<1>2. Len(command) \in Nat /\ Len(P) \in Nat
  OBVIOUS
<1> QED
  BY <1>1, <1>2

LEMMA LineMoved ==
  ASSUME NEW P \in Seq(Unit), NEW Q \in Seq(Unit), NEW a \in Nat, NEW b \in Nat,
         NEW command \in Seq(Unit), LineAt(P, a, command),
         b + Len(command) + 2 <= Len(Q), Kept(P, a, Q, b, Len(command) + 2)
  PROVE  LineAt(Q, b, command)
<1> DEFINE L == Len(command)
<1>1. L \in Nat
  OBVIOUS
<1>2. ASSUME NEW i \in 1 .. L
      PROVE  Becomes(command[i], Q[b + i])
  <2>1. Becomes(command[i], P[a + i])
    BY DEF LineAt
  <2>2. command[i] \in Unit
    BY ElementOfSeq
  <2>3. i \in 1 .. L + 2
    BY <1>1
  <2> QED
    BY <2>1, <2>2, <2>3 DEF Kept
<1>3. Q[b + (L + 1)] = "cr" /\ Q[b + (L + 2)] = "lf"
  <2>1. L + 1 \in 1 .. L + 2 /\ L + 2 \in 1 .. L + 2
    BY <1>1
  <2>2. Becomes("cr", P[a + (L + 1)]) /\ Becomes("lf", P[a + (L + 2)])
    BY DEF LineAt, Becomes
  <2>3. "cr" \in Unit /\ "lf" \in Unit
    BY Units
  <2>4. Becomes("cr", Q[b + (L + 1)]) /\ Becomes("lf", Q[b + (L + 2)])
    BY <2>1, <2>2, <2>3 DEF Kept
  <2> QED
    BY <2>4 DEF Becomes
<1> QED
  BY <1>2, <1>3 DEF LineAt

LEMMA LaidTypes ==
  ASSUME NEW P \in Seq(Unit), NEW W \in Seq(Seq(Unit)),
         NEW done \in Nat, done <= Len(W), NEW cut, Laid(P, W, done, cut),
         NEW n \in done + 1 .. Len(W)
  PROVE  /\ n \in 1 .. Len(W) /\ n - 1 \in done .. Len(W) /\ n \in done .. Len(W)
         /\ W[n] \in Seq(Unit) /\ Len(W[n]) \in Nat /\ Len(P) \in Nat
         /\ cut[n - 1] \in Nat /\ cut[n] \in Nat
         /\ LineAt(P, cut[n - 1], W[n])
         /\ cut[n] = cut[n - 1] + Len(W[n]) + 2
<1>1. Len(W) \in Nat /\ Len(P) \in Nat
  OBVIOUS
<1>2. n \in 1 .. Len(W) /\ n - 1 \in done .. Len(W) /\ n \in done .. Len(W)
  BY <1>1
<1>3. W[n] \in Seq(Unit)
  BY <1>2, ElementOfSeq
<1>4. Len(W[n]) \in Nat
  BY <1>3
<1>5. cut \in [done .. Len(W) -> Nat]
  BY DEF Laid
<1>6. cut[n - 1] \in Nat /\ cut[n] \in Nat
  BY <1>2, <1>5
<1>7. LineAt(P, cut[n - 1], W[n]) /\ cut[n] = cut[n - 1] + Len(W[n]) + 2
  BY DEF Laid
<1> QED
  BY <1>1, <1>2, <1>3, <1>4, <1>6, <1>7

LEMMA LaidLines ==
  ASSUME NEW P \in Seq(Unit), NEW W \in Seq(Seq(Unit)),
         NEW done \in Nat, done <= Len(W), NEW cut, Laid(P, W, done, cut)
  PROVE  \A n \in done + 1 .. Len(W) :
           /\ W[n] \in Seq(Unit) /\ Len(W[n]) \in Nat
           /\ LineAt(P, cut[n - 1], W[n])
           /\ cut[n] = cut[n - 1] + Len(W[n]) + 2
BY LaidTypes

(* Decoding a part of the stream leaves the lines where they are.           *)
LEMMA LaidDecoded ==
  ASSUME NEW P \in Seq(Unit), NEW Q \in Seq(Unit), Len(Q) = Len(P),
         \A i \in 1 .. Len(P) : \A unit \in Unit : Becomes(unit, P[i]) => Becomes(unit, Q[i]),
         NEW W \in Seq(Seq(Unit)), NEW done \in Nat, done <= Len(W),
         NEW cut, Laid(P, W, done, cut)
  PROVE  Laid(Q, W, done, cut)
<1>1. ASSUME NEW n \in done + 1 .. Len(W)
      PROVE  LineAt(Q, cut[n - 1], W[n])
  <2>1. /\ W[n] \in Seq(Unit) /\ cut[n - 1] \in Nat
        /\ LineAt(P, cut[n - 1], W[n])
    BY LaidTypes
  <2>2. cut[n - 1] + Len(W[n]) + 2 <= Len(Q)
    BY <2>1 DEF LineAt
  <2>3. \A i \in 1 .. Len(W[n]) + 2 : cut[n - 1] + i \in 1 .. Len(P)
    BY <2>1, LineBounds
  <2>4. Kept(P, cut[n - 1], Q, cut[n - 1], Len(W[n]) + 2)
    BY <2>3 DEF Kept
  <2>5. ASSUME NEW a \in Nat, NEW w \in Seq(Unit), LineAt(P, a, w),
             a + Len(w) + 2 <= Len(Q), Kept(P, a, Q, a, Len(w) + 2)
        PROVE  LineAt(Q, a, w)
    BY <2>5, LineMoved, Zenon
  <2> QED
    BY <2>1, <2>2, <2>4, <2>5
<1> QED
  BY <1>1 DEF Laid

LEMMA LineAlone ==
  ASSUME NEW command \in Seq(Unit)
  PROVE  /\ command \o CRLF \in Seq(Unit) /\ Len(command \o CRLF) = Len(command) + 2
         /\ LineAt(command \o CRLF, 0, command)
<1>1. CRLF \in Seq(Unit) /\ Len(CRLF) = 2 /\ CRLF[1] = "cr" /\ CRLF[2] = "lf"
  BY Units DEF CRLF
<1>2. Len(command) \in Nat
  OBVIOUS
<1>3. /\ command \o CRLF \in Seq(Unit) /\ Len(command \o CRLF) = Len(command) + Len(CRLF)
      /\ \A i \in 1 .. Len(command) + Len(CRLF) : (command \o CRLF)[i] =
              IF i <= Len(command) THEN command[i] ELSE CRLF[i - Len(command)]
  BY <1>1, ConcatProperties, Zenon
<1>4. ASSUME NEW R, NEW l \in Nat, Len(command) = l, Len(R) = l + 2,
             \A i \in 1 .. l : R[i] = command[i], R[l + 1] = "cr", R[l + 2] = "lf"
      PROVE  LineAt(R, 0, command)
  BY <1>4 DEF LineAt, Becomes
<1>5. /\ Len(command \o CRLF) = Len(command) + 2
      /\ \A i \in 1 .. Len(command) : (command \o CRLF)[i] = command[i]
  BY <1>1, <1>2, <1>3
<1>6. (command \o CRLF)[Len(command) + 1] = "cr" /\ (command \o CRLF)[Len(command) + 2] = "lf"
  <2>1. /\ Len(command) + 1 \in 1 .. Len(command) + 2 /\ ~(Len(command) + 1 <= Len(command))
        /\ Len(command) + 2 \in 1 .. Len(command) + 2 /\ ~(Len(command) + 2 <= Len(command))
        /\ (Len(command) + 1) - Len(command) = 1 /\ (Len(command) + 2) - Len(command) = 2
    BY <1>2
  <2>2. /\ (command \o CRLF)[Len(command) + 1] = CRLF[1]
        /\ (command \o CRLF)[Len(command) + 2] = CRLF[2]
    BY <1>1, <1>3, <2>1
  <2> QED
    BY <1>1, <2>2
<1> QED
  BY <1>2, <1>3, <1>4, <1>5, <1>6

LEMMA LineAppended ==
  ASSUME NEW P \in Seq(Unit), NEW command \in Seq(Unit), NEW R \in Seq(Unit),
         Len(R) = Len(command) + 2, LineAt(R, 0, command)
  PROVE  /\ P \o R \in Seq(Unit) /\ Len(P \o R) = Len(P) + Len(command) + 2
         /\ \A i \in 1 .. Len(P) : (P \o R)[i] = P[i]
         /\ LineAt(P \o R, Len(P), command)
<1>1. Len(command) \in Nat /\ Len(P) \in Nat
  OBVIOUS
<1>2. /\ P \o R \in Seq(Unit) /\ Len(P \o R) = Len(P) + Len(R)
      /\ \A i \in 1 .. Len(P) : (P \o R)[i] = P[i]
      /\ \A i \in 1 .. Len(R) : (P \o R)[Len(P) + i] = R[i]
  OBVIOUS
<1>3. Len(P \o R) = Len(P) + Len(command) + 2
  BY <1>1, <1>2
<1>4. Kept(R, 0, P \o R, Len(P), Len(command) + 2)
  <2>1. ASSUME NEW i \in 1 .. Len(command) + 2
        PROVE  (P \o R)[Len(P) + i] = R[0 + i]
    BY <1>2
  <2> QED
    BY <2>1 DEF Kept
<1>5. LineAt(P \o R, Len(P), command)
  <2>1. 0 \in Nat /\ Len(P) + Len(command) + 2 <= Len(P \o R)
    BY <1>1, <1>3
  <2> QED
    BY <1>1, <1>2, <1>4, <2>1, LineMoved, Zenon
<1> QED
  BY <1>2, <1>3, <1>5

LEMMA LaidAppended ==
  ASSUME NEW P \in Seq(Unit), NEW command \in Seq(Unit),
         NEW W \in Seq(Seq(Unit)), NEW done \in Nat, done <= Len(W),
         NEW cut, Laid(P, W, done, cut)
  PROVE  \E c : Laid(P \o (command \o CRLF), Append(W, command), done, c)
<1> DEFINE Q == P \o (command \o CRLF)
           V == Append(W, command)
           N == Len(W)
           c == [n \in done .. N + 1 |-> IF n = N + 1 THEN Len(Q) ELSE cut[n]]
<1>1. /\ Q \in Seq(Unit) /\ Len(Q) = Len(P) + Len(command) + 2
      /\ \A i \in 1 .. Len(P) : Q[i] = P[i]
      /\ LineAt(Q, Len(P), command)
  BY LineAlone, LineAppended
<1>2. /\ V \in Seq(Seq(Unit)) /\ Len(V) = N + 1 /\ V[N + 1] = command /\ N \in Nat
      /\ \A n \in 1 .. N : V[n] = W[n]
  OBVIOUS
<1>3. cut \in [done .. N -> Nat] /\ cut[done] = 0 /\ cut[N] = Len(P)
  BY DEF Laid
<1>4. Len(P) \in Nat /\ Len(Q) \in Nat /\ Len(command) \in Nat
  BY <1>1
<1> HIDE DEF Q, V
<1>5. /\ c \in [done .. N + 1 -> Nat] /\ c[N + 1] = Len(Q)
      /\ \A n \in done .. N : c[n] = cut[n]
  <2>1. ASSUME NEW n \in done .. N + 1
        PROVE  (IF n = N + 1 THEN Len(Q) ELSE cut[n]) \in Nat
    BY <1>2, <1>3, <1>4
  <2>2. N + 1 \in done .. N + 1 /\ \A n \in done .. N : n \in done .. N + 1 /\ n # N + 1
    BY <1>2
  <2> QED
    BY <2>1, <2>2, Zenon
<1> HIDE DEF c
<1>6. done \in done .. N /\ N \in done .. N
  BY <1>2
<1>7. ASSUME NEW n \in done + 1 .. N
      PROVE  LineAt(Q, c[n - 1], V[n]) /\ c[n] = c[n - 1] + Len(V[n]) + 2
  <2>1. /\ n \in 1 .. N /\ n - 1 \in done .. N /\ n \in done .. N
        /\ W[n] \in Seq(Unit) /\ cut[n - 1] \in Nat
        /\ LineAt(P, cut[n - 1], W[n]) /\ cut[n] = cut[n - 1] + Len(W[n]) + 2
    BY LaidTypes
  <2>2. V[n] = W[n] /\ c[n - 1] = cut[n - 1] /\ c[n] = cut[n]
    BY <1>2, <1>5, <2>1
  <2>3. \A i \in 1 .. Len(W[n]) + 2 : cut[n - 1] + i \in 1 .. Len(P)
    BY <2>1, LineBounds
  <2>4. Kept(P, cut[n - 1], Q, cut[n - 1], Len(W[n]) + 2)
    BY <1>1, <2>3 DEF Kept
  <2>5. cut[n - 1] + Len(W[n]) + 2 <= Len(P)
    BY <2>1 DEF LineAt
  <2>6. cut[n - 1] + Len(W[n]) + 2 <= Len(Q)
    <3>1. PICK e \in Nat : e = cut[n - 1] + Len(W[n]) + 2
      BY <2>1
    <3>2. e <= Len(P)
      BY <2>5, <3>1
    <3>3. e <= Len(Q)
      BY <1>1, <1>4, <3>2
    <3> QED
      BY <3>1, <3>3
  <2>7. ASSUME NEW a \in Nat, NEW w \in Seq(Unit), LineAt(P, a, w),
             a + Len(w) + 2 <= Len(Q), Kept(P, a, Q, a, Len(w) + 2)
        PROVE  LineAt(Q, a, w)
    BY <1>1, <2>7, LineMoved, Zenon
  <2>8. LineAt(Q, cut[n - 1], W[n])
    BY <2>1, <2>4, <2>6, <2>7
  <2> QED
    BY <2>1, <2>2, <2>8
<1>8. LineAt(Q, c[(N + 1) - 1], V[N + 1]) /\ c[N + 1] = c[(N + 1) - 1] + Len(V[N + 1]) + 2
  <2>1. (N + 1) - 1 = N
    BY <1>2
  <2>2. c[N] = Len(P)
    BY <1>3, <1>5, <1>6
  <2> QED
    BY <1>1, <1>2, <1>5, <2>1, <2>2
<1>9. ASSUME NEW n \in done + 1 .. N + 1
      PROVE  LineAt(Q, c[n - 1], V[n]) /\ c[n] = c[n - 1] + Len(V[n]) + 2
  <2>1. CASE n = N + 1
    BY <1>8, <2>1
  <2>2. CASE n # N + 1
    <3>1. n \in done + 1 .. N
      BY <1>2, <2>2
    <3> QED
      BY <1>7, <3>1
  <2> QED
    BY <2>1, <2>2
<1>10. c[done] = 0
  BY <1>3, <1>5, <1>6
<1>11. ASSUME NEW m \in done .. N + 1, NEW n \in done .. N + 1, m <= n
       PROVE  c[m] <= c[n]
  <2>1. \A i, j \in done .. N : i <= j => cut[i] <= cut[j]
    BY DEF Laid
  <2>2. CASE n = N + 1 /\ m # N + 1
    <3>1. m \in done .. N /\ m <= N
      BY <1>2, <2>2
    <3>2. cut[m] <= cut[N] /\ cut[m] \in Nat
      BY <1>3, <1>6, <2>1, <3>1
    <3>3. c[m] = cut[m] /\ c[n] = Len(Q)
      BY <1>5, <2>2, <3>1
    <3>4. Len(P) <= Len(Q)
      BY <1>1, <1>4
    <3> QED
      BY <1>3, <1>4, <3>2, <3>3, <3>4
  <2>3. CASE n # N + 1
    <3>1. m \in done .. N /\ n \in done .. N
      BY <1>2, <1>11, <2>3
    <3> QED
      BY <1>5, <1>11, <2>1, <3>1
  <2>4. CASE n = N + 1 /\ m = N + 1
    BY <1>4, <1>5, <2>4
  <2> QED
    BY <2>2, <2>3, <2>4
<1>12. Laid(Q, V, done, c)
  BY <1>2, <1>5, <1>9, <1>10, <1>11 DEF Laid
<1> QED
  BY <1>12 DEF Q, V

(* Q is P without its first k units. *)
After(Q, P, k) ==
  /\ Q \in Seq(Unit) /\ Len(Q) = Len(P) - k
  /\ \A i \in 1 .. Len(P) - k : Q[i] = P[i + k]

LEMMA EndFound ==
  ASSUME NEW b \in Seq(Unit), NEW P \in Seq(Unit), Len(b) <= Len(P),
         \A i \in 1 .. Len(b) : P[i] = b[i],
         NEW w \in Seq(Unit), NEW l \in Nat, Len(w) = l, OneLine(w), LineAt(P, 0, w),
         LineEnds(b) # {}
  PROVE  l + 2 <= Len(b) /\ FirstEnd(b) = l + 1
<1>1. Len(b) \in Nat
  OBVIOUS
<1>2. /\ \A i \in 1 .. l : Becomes(w[i], P[i])
      /\ P[l + 1] = "cr" /\ P[l + 2] = "lf"
  <2>1. ASSUME NEW i \in Nat
        PROVE  0 + i = i
    OBVIOUS
  <2> QED
    BY <2>1 DEF LineAt
<1>3. ASSUME NEW i \in 1 .. Len(b) - 1, b[i] = "cr", b[i + 1] = "lf"
      PROVE  i \in Nat /\ l + 1 <= i
  <2>0. /\ i \in 1 .. Len(b) /\ i + 1 \in 1 .. Len(b)
        /\ i \in Nat /\ 1 <= i
    BY <1>1
  <2> SUFFICES ASSUME i <= l
               PROVE  FALSE
    BY <2>0
  <2>1. P[i] = "cr" /\ P[i + 1] = "lf"
    BY <1>3, <2>0
  <2>2. i # l
    BY <1>2, <2>1
  <2>3. i \in 1 .. l /\ i + 1 \in 1 .. l /\ i \in 1 .. l - 1
    BY <2>0, <2>2
  <2>4. w[i] = "cr" /\ w[i + 1] = "lf"
    BY <1>2, <2>1, <2>3 DEF Becomes
  <2> QED
    BY <1>3, <2>3, <2>4 DEF OneLine
<1>4. PICK x \in 1 .. Len(b) - 1 : b[x] = "cr" /\ b[x + 1] = "lf"
  BY DEF LineEnds
<1>5. l + 2 <= Len(b) /\ l + 1 \in 1 .. Len(b) - 1 /\ l + 1 \in 1 .. Len(b)
        /\ l + 2 \in 1 .. Len(b) /\ (l + 1) + 1 = l + 2
  <2>1. l + 1 <= x
    BY <1>3, <1>4
  <2> QED
    BY <1>1, <1>4, <2>1
<1>6. l + 1 \in LineEnds(b)
  <2>1. b[l + 1] = "cr" /\ b[(l + 1) + 1] = "lf"
    BY <1>2, <1>5
  <2> QED
    BY <1>5, <2>1 DEF LineEnds
<1>7. \A y \in LineEnds(b) : y \in Nat /\ l + 1 <= y
  BY <1>3 DEF LineEnds
<1>8. FirstEnd(b) \in LineEnds(b) /\ \A y \in LineEnds(b) : FirstEnd(b) <= y
  BY <1>6, <1>7 DEF FirstEnd, Min
<1>9. FirstEnd(b) <= l + 1 /\ l + 1 <= FirstEnd(b) /\ FirstEnd(b) \in Nat
  BY <1>6, <1>7, <1>8
<1> QED
  BY <1>5, <1>9

LEMMA Parts ==
  ASSUME NEW b \in Seq(Unit), NEW l \in Nat, l + 2 <= Len(b)
  PROVE  /\ SubSeq(b, 1, (l + 1) - 1) \in Seq(Unit) /\ Len(SubSeq(b, 1, (l + 1) - 1)) = l
         /\ \A i \in 1 .. l : SubSeq(b, 1, (l + 1) - 1)[i] = b[i]
         /\ After(SubSeq(b, (l + 1) + 2, Len(b)), b, l + 2)
<1>1. Len(b) \in Nat
  OBVIOUS
<1>2. ASSUME NEW m \in Nat, NEW n \in Nat, 1 <= m, m <= n + 1, n <= Len(b)
      PROVE  /\ SubSeq(b, m, n) \in Seq(Unit) /\ Len(SubSeq(b, m, n)) = n - m + 1
             /\ \A i \in 1 .. n - m + 1 : SubSeq(b, m, n)[i] = b[m + i - 1]
  <2>1. \A i \in m .. n : i \in 1 .. Len(b)
    BY <1>1, <1>2
  <2>2. \A i \in m .. n : b[i] \in Unit
    BY <2>1
  <2>3. /\ SubSeq(b, m, n) \in Seq(Unit)
        /\ Len(SubSeq(b, m, n)) = IF m <= n THEN n - m + 1 ELSE 0
        /\ \A i \in 1 .. n - m + 1 : SubSeq(b, m, n)[i] = b[m + i - 1]
    BY <2>2, SubSeqProperties
  <2>4. m <= n \/ n - m + 1 = 0
    BY <1>2
  <2> QED
    BY <2>3, <2>4
<1>3. (l + 1) - 1 = l /\ l <= Len(b) /\ 1 <= l + 1 /\ l - 1 + 1 = l
  BY <1>1
<1>4. /\ SubSeq(b, 1, l) \in Seq(Unit) /\ Len(SubSeq(b, 1, l)) = l
      /\ \A i \in 1 .. l : SubSeq(b, 1, l)[i] = b[1 + i - 1]
  BY <1>2, <1>3
<1>5. \A i \in 1 .. l : 1 + i - 1 = i
  OBVIOUS
<1>6. (l + 1) + 2 \in Nat /\ 1 <= (l + 1) + 2 /\ (l + 1) + 2 <= Len(b) + 1 /\ Len(b) <= Len(b)
        /\ Len(b) - ((l + 1) + 2) + 1 = Len(b) - (l + 2)
  BY <1>1
<1>7. /\ SubSeq(b, (l + 1) + 2, Len(b)) \in Seq(Unit)
      /\ Len(SubSeq(b, (l + 1) + 2, Len(b))) = Len(b) - ((l + 1) + 2) + 1
      /\ \A i \in 1 .. Len(b) - ((l + 1) + 2) + 1 :
           SubSeq(b, (l + 1) + 2, Len(b))[i] = b[((l + 1) + 2) + i - 1]
  BY <1>1, <1>2, <1>6
<1>8. \A i \in 1 .. Len(b) - (l + 2) : ((l + 1) + 2) + i - 1 = i + (l + 2)
  BY <1>1
<1>9. \A i \in 1 .. Len(b) - (l + 2) : SubSeq(b, (l + 1) + 2, Len(b))[i] = b[i + (l + 2)]
  <2>1. ASSUME NEW i \in 1 .. Len(b) - (l + 2)
        PROVE  SubSeq(b, (l + 1) + 2, Len(b))[i] = b[i + (l + 2)]
    <3>1. i \in 1 .. Len(b) - ((l + 1) + 2) + 1
      BY <1>6
    <3>2. SubSeq(b, (l + 1) + 2, Len(b))[i] = b[((l + 1) + 2) + i - 1]
      BY <1>7, <3>1
    <3> QED
      BY <1>8, <3>2
  <2> QED
    BY <2>1
<1> QED
  BY <1>3, <1>4, <1>5, <1>6, <1>7, <1>9 DEF After

LEMMA RestMoved ==
  ASSUME NEW b \in Seq(Unit), NEW r \in Seq(Unit), NEW l \in Nat, l + 2 <= Len(b),
         NEW s \in Seq(Unit), After(s, b, l + 2)
  PROVE  After(s \o r, b \o r, l + 2)
<1>0. Len(s) = Len(b) - (l + 2) /\ \A i \in 1 .. Len(b) - (l + 2) : s[i] = b[i + (l + 2)]
  BY DEF After
<1>1. Len(b) \in Nat /\ Len(r) \in Nat /\ Len(s) \in Nat
  OBVIOUS
<1>2. ASSUME NEW t \in Seq(Unit)
      PROVE  /\ t \o r \in Seq(Unit) /\ Len(t \o r) = Len(t) + Len(r)
             /\ \A i \in 1 .. Len(t) : (t \o r)[i] = t[i]
             /\ \A i \in 1 .. Len(r) : (t \o r)[Len(t) + i] = r[i]
  OBVIOUS
<1> DEFINE P == b \o r
           Q == s \o r
<1>3. /\ P \in Seq(Unit) /\ Len(P) = Len(b) + Len(r)
      /\ \A i \in 1 .. Len(b) : P[i] = b[i]
      /\ \A i \in 1 .. Len(r) : P[Len(b) + i] = r[i]
  BY <1>2
<1>4. /\ Q \in Seq(Unit) /\ Len(Q) = Len(s) + Len(r)
      /\ \A i \in 1 .. Len(s) : Q[i] = s[i]
      /\ \A i \in 1 .. Len(r) : Q[Len(s) + i] = r[i]
  BY <1>2
<1> HIDE DEF P, Q
<1>5. Len(Q) = Len(P) - (l + 2)
  BY <1>0, <1>1, <1>3, <1>4
<1>6. ASSUME NEW i \in 1 .. Len(P) - (l + 2)
      PROVE  Q[i] = P[i + (l + 2)]
  <2>1. CASE i <= Len(s)
    <3>1. i \in 1 .. Len(s) /\ i + (l + 2) \in 1 .. Len(b)
      BY <1>0, <1>1, <2>1
    <3> QED
      BY <1>0, <1>3, <1>4, <3>1
  <2>2. CASE ~(i <= Len(s))
    <3>1. PICK j \in 1 .. Len(r) : i = Len(s) + j /\ i + (l + 2) = Len(b) + j
      <4>1. i - Len(s) \in 1 .. Len(r) /\ i = Len(s) + (i - Len(s))
              /\ i + (l + 2) = Len(b) + (i - Len(s))
        BY <1>0, <1>1, <1>3, <2>2
      <4> QED
        BY <4>1, Zenon
    <3> QED
      BY <1>3, <1>4, <3>1
  <2> QED
    BY <2>1, <2>2
<1> QED
  BY <1>4, <1>5, <1>6 DEF P, Q, After

LEMMA LaidMoved ==
  ASSUME NEW P \in Seq(Unit), NEW Q \in Seq(Unit), NEW l \in Nat, After(Q, P, l + 2),
         NEW W \in Seq(Seq(Unit)), NEW done \in Nat, done <= Len(W), done + 1 <= Len(W),
         NEW cut, Laid(P, W, done, cut), cut[done + 1] = l + 2
  PROVE  \E c : Laid(Q, W, done + 1, c)
<1>1. Len(P) \in Nat /\ Len(Q) \in Nat /\ Len(W) \in Nat /\ Len(Q) = Len(P) - (l + 2)
  BY DEF After
<1> DEFINE c == [n \in done + 1 .. Len(W) |-> cut[n] - (l + 2)]
<1>2. ASSUME NEW n \in done + 1 .. Len(W)
      PROVE  cut[n] \in Nat /\ cut[n] - (l + 2) \in Nat
  <2>1. done + 1 \in done .. Len(W) /\ n \in done .. Len(W) /\ done + 1 <= n
    BY <1>1
  <2>2. cut[done + 1] <= cut[n] /\ cut[n] \in Nat
    BY <2>1 DEF Laid
  <2> QED
    BY <2>2
<1>3. c \in [done + 1 .. Len(W) -> Nat] /\ \A n \in done + 1 .. Len(W) : c[n] = cut[n] - (l + 2)
  BY <1>2
<1> HIDE DEF c
<1>4. c[done + 1] = 0 /\ c[Len(W)] = Len(Q)
  <2>1. done + 1 \in done + 1 .. Len(W) /\ Len(W) \in done + 1 .. Len(W)
    BY <1>1
  <2>2. cut[Len(W)] = Len(P)
    BY DEF Laid
  <2>3. c[done + 1] = (l + 2) - (l + 2) /\ c[Len(W)] = Len(P) - (l + 2)
    BY <1>3, <2>1, <2>2
  <2> QED
    BY <1>1, <2>3
<1>5. ASSUME NEW m \in done + 1 .. Len(W), NEW n \in done + 1 .. Len(W), m <= n
      PROVE  c[m] <= c[n]
  <2>1. m \in done .. Len(W) /\ n \in done .. Len(W)
    BY <1>1
  <2>2. cut[m] <= cut[n]
    BY <1>5, <2>1 DEF Laid
  <2>3. cut[m] \in Nat /\ cut[n] \in Nat /\ c[m] = cut[m] - (l + 2) /\ c[n] = cut[n] - (l + 2)
    BY <1>2, <1>3
  <2>4. ASSUME NEW a \in Nat, NEW d \in Nat, a <= d
        PROVE  a - (l + 2) <= d - (l + 2)
    BY <2>4
  <2> QED
    BY <2>2, <2>3, <2>4
<1>6. ASSUME NEW n \in (done + 1) + 1 .. Len(W)
      PROVE  LineAt(Q, c[n - 1], W[n]) /\ c[n] = c[n - 1] + Len(W[n]) + 2
  <2>1. n \in done + 1 .. Len(W) /\ n - 1 \in done + 1 .. Len(W)
    BY <1>1
  <2>2. /\ W[n] \in Seq(Unit) /\ Len(W[n]) \in Nat
        /\ LineAt(P, cut[n - 1], W[n]) /\ cut[n] = cut[n - 1] + Len(W[n]) + 2
    BY <2>1, LaidLines
  <2>3. /\ c[n - 1] = cut[n - 1] - (l + 2) /\ c[n] = cut[n] - (l + 2)
        /\ cut[n - 1] \in Nat /\ cut[n] \in Nat /\ c[n - 1] \in Nat
    BY <1>2, <1>3, <2>1
  <2>4. ASSUME NEW a \in Nat, NEW v \in Seq(Unit), LineAt(P, a, v), a - (l + 2) \in Nat
        PROVE  LineAt(Q, a - (l + 2), v) /\ (a + Len(v) + 2) - (l + 2) = (a - (l + 2)) + Len(v) + 2
    <3>1. PICK m \in Nat : m = Len(v)
      OBVIOUS
    <3>2. a + m + 2 <= Len(P)
      BY <2>4, <3>1 DEF LineAt
    <3>3. PICK d \in Nat : d = a - (l + 2)
      BY <2>4
    <3>4. d + m + 2 <= Len(Q) /\ (a + m + 2) - (l + 2) = d + m + 2
      BY <1>1, <3>2, <3>3
    <3>5. ASSUME NEW i \in 1 .. m + 2
          PROVE  Q[d + i] = P[a + i]
      <4>1. d + i \in 1 .. Len(P) - (l + 2) /\ (d + i) + (l + 2) = a + i
        BY <1>1, <3>2, <3>3
      <4> QED
        BY <4>1 DEF After
    <3>6. Kept(P, a, Q, d, Len(v) + 2)
      BY <3>1, <3>5 DEF Kept
    <3>7. d + Len(v) + 2 <= Len(Q)
      BY <3>1, <3>4
    <3>8. LineAt(Q, d, v)
      BY <2>4, <3>6, <3>7, LineMoved, Zenon
    <3> QED
      BY <3>1, <3>3, <3>4, <3>8
  <2>5. /\ LineAt(Q, cut[n - 1] - (l + 2), W[n])
        /\ (cut[n - 1] + Len(W[n]) + 2) - (l + 2) = (cut[n - 1] - (l + 2)) + Len(W[n]) + 2
    <3>1. cut[n - 1] - (l + 2) \in Nat
      BY <2>3
    <3> QED
      BY <2>2, <2>3, <2>4, <3>1, Zenon
  <2>6. LineAt(Q, c[n - 1], W[n])
    BY <2>3, <2>5
  <2>7. c[n] = c[n - 1] + Len(W[n]) + 2
    BY <2>2, <2>3, <2>5
  <2> QED
    BY <2>6, <2>7
<1>7. Laid(Q, W, done + 1, c)
  BY <1>3, <1>4, <1>5, <1>6 DEF Laid
<1> QED
  BY <1>7

(* The first end of line in what the handler has received ends the first    *)
(* line that was not executed yet; the others move up.                      *)
LEMMA FirstLine ==
  ASSUME NEW b \in Seq(Unit), NEW r \in Seq(Unit),
         NEW W \in Seq(Seq(Unit)), NEW done \in Nat, done <= Len(W),
         \A n \in 1 .. Len(W) : OneLine(W[n]),
         NEW cut, Laid(b \o r, W, done, cut), LineEnds(b) # {}
  PROVE  /\ done + 1 \in 1 .. Len(W)
         /\ Reads(SubSeq(b, 1, FirstEnd(b) - 1), W[done + 1])
         /\ SubSeq(b, 1, FirstEnd(b) - 1) \in Seq(Unit)
         /\ SubSeq(b, FirstEnd(b) + 2, Len(b)) \in Seq(Unit)
         /\ \E c : Laid(SubSeq(b, FirstEnd(b) + 2, Len(b)) \o r, W, done + 1, c)
<1> DEFINE P == b \o r
<1>1. /\ P \in Seq(Unit) /\ Len(P) = Len(b) + Len(r)
      /\ \A i \in 1 .. Len(b) : P[i] = b[i]
  OBVIOUS
<1>2. Len(b) \in Nat /\ Len(r) \in Nat /\ Len(P) \in Nat /\ Len(W) \in Nat
  BY <1>1
<1> HIDE DEF P
<1>3. Laid(P, W, done, cut)
  BY DEF P
<1>4. Len(b) # 0
  <2>1. PICK x : x \in 1 .. Len(b) - 1
    BY DEF LineEnds
  <2> QED
    BY <1>2, <2>1
<1>5. done + 1 \in 1 .. Len(W) /\ done + 1 \in done + 1 .. Len(W) /\ done + 1 <= Len(W)
  <2>1. cut[done] = 0 /\ cut[Len(W)] = Len(P)
    BY <1>3 DEF Laid
  <2>2. Len(P) # 0
    BY <1>1, <1>2, <1>4
  <2> QED
    BY <1>2, <2>1, <2>2
<1>6. ASSUME NEW n \in done + 1 .. Len(W), n - 1 = done
      PROVE  \E w \in Seq(Unit), l \in Nat :
               /\ w = W[n] /\ l = Len(w) /\ LineAt(P, 0, w) /\ cut[n] = l + 2
  <2>1. /\ W[n] \in Seq(Unit) /\ Len(W[n]) \in Nat
        /\ LineAt(P, cut[n - 1], W[n]) /\ cut[n] = cut[n - 1] + Len(W[n]) + 2
    BY <1>1, <1>3, LaidTypes
  <2>2. cut[n - 1] = 0
    BY <1>3, <1>6 DEF Laid
  <2>3. LineAt(P, 0, W[n])
    BY <2>1, <2>2
  <2>4. cut[n] = 0 + Len(W[n]) + 2
    BY <2>1, <2>2
  <2>5. cut[n] = Len(W[n]) + 2
    BY <2>1, <2>4
  <2> QED
    BY <2>1, <2>3, <2>5
<1>7. PICK w \in Seq(Unit), l \in Nat :
        w = W[done + 1] /\ l = Len(w) /\ LineAt(P, 0, w) /\ cut[done + 1] = l + 2
  <2>1. (done + 1) - 1 = done
    OBVIOUS
  <2> QED
    BY <1>5, <1>6, <2>1
<1>8. OneLine(w)
  BY <1>5, <1>7
<1>9. l + 2 <= Len(b) /\ FirstEnd(b) = l + 1
  <2>1. Len(b) <= Len(P)
    BY <1>1, <1>2
  <2> QED
    <3>1. Len(w) = l /\ LineAt(P, 0, w) /\ P \in Seq(Unit)
            /\ \A i \in 1 .. Len(b) : P[i] = b[i]
      BY <1>1, <1>7
    <3> QED
      BY <1>8, <2>1, <3>1, EndFound, Zenon
<1> DEFINE line == SubSeq(b, 1, (l + 1) - 1)
           rest == SubSeq(b, (l + 1) + 2, Len(b))
<1>10. /\ line \in Seq(Unit) /\ Len(line) = l /\ \A i \in 1 .. l : line[i] = b[i]
       /\ After(rest, b, l + 2)
  BY <1>9, Parts
<1> HIDE DEF line, rest
<1>11. rest \in Seq(Unit) /\ \E c : Laid(rest \o r, W, done + 1, c)
  <2>1. l + 2 <= Len(b) /\ rest \in Seq(Unit)
    BY <1>9, <1>10 DEF After
  <2>2. After(rest \o r, P, l + 2)
    BY <1>10, <2>1, RestMoved DEF P
  <2>3. rest \o r \in Seq(Unit)
    BY <2>2 DEF After
  <2>4. ASSUME NEW Q \in Seq(Unit), After(Q, P, l + 2)
        PROVE  \E c : Laid(Q, W, done + 1, c)
    BY <1>1, <1>3, <1>5, <1>7, <2>4, LaidMoved
  <2> QED
    BY <2>1, <2>2, <2>3, <2>4
<1>12. Reads(line, w)
  <2>1. \A i \in 1 .. l : i \in 1 .. Len(b) /\ 0 + i = i
    BY <1>2, <1>9
  <2>2. \A i \in 1 .. l : Becomes(w[i], P[0 + i])
    BY <1>7 DEF LineAt
  <2>3. \A i \in 1 .. l : Becomes(w[i], line[i])
    BY <1>1, <1>10, <2>1, <2>2
  <2> QED
    BY <1>7, <1>10, <2>3 DEF Reads
<1> QED
  BY <1>5, <1>7, <1>9, <1>10, <1>11, <1>12 DEF line, rest

-----------------------------------------------------------------------------
(* Sequences, chunks and characters.                                        *)

LEMMA Least ==
  ASSUME NEW S, S \subseteq Nat, S # {}
  PROVE  \E x \in S : \A y \in S : x <= y
<1>1. PICK x \in S : \A y \in S : ~(<<y, x>> \in OpToRel(<, Nat))
  BY WFMin, NatLessThanWellFounded, Zenon
<1>2. ASSUME NEW y \in S
      PROVE  x <= y
  <2>1. ~(<<y, x>> \in OpToRel(<, Nat))
    BY <1>1
  <2>2. ~(y < x)
    BY <2>1 DEF OpToRel
  <2> QED
    BY <2>2
<1> QED
  BY <1>2

LEMMA Split ==
  ASSUME NEW S, NEW s \in Seq(S), LineEnds(s) # {}
  PROVE  /\ FirstEnd(s) \in LineEnds(s)
         /\ SubSeq(s, 1, FirstEnd(s) - 1) \in Seq(S)
         /\ SubSeq(s, FirstEnd(s) + 2, Len(s)) \in Seq(S)
<1>1. Len(s) \in Nat
  OBVIOUS
<1>2. LineEnds(s) \subseteq Nat /\ \A e \in LineEnds(s) : e \in 1 .. Len(s)
  BY <1>1 DEF LineEnds
<1>3. FirstEnd(s) \in LineEnds(s)
  BY <1>2, Least DEF FirstEnd, Min
<1>4. PICK e \in 1 .. Len(s) : e = FirstEnd(s)
  BY <1>2, <1>3
<1>5. \A i \in 1 .. e - 1 : s[i] \in S
  BY <1>1
<1>6. \A i \in e + 2 .. Len(s) : s[i] \in S
  BY <1>1
<1>7. SubSeq(s, 1, e - 1) \in Seq(S) /\ SubSeq(s, e + 2, Len(s)) \in Seq(S)
  BY <1>1, <1>5, <1>6, SubSeqProperties
<1> QED
  BY <1>3, <1>4, <1>7

(* What a recv returns and what it leaves.                                  *)
LEMMA Chunks ==
  ASSUME NEW S, NEW s \in Seq(S), NEW n \in 1 .. Len(s)
  PROVE  /\ Chunk(s, n) \in Seq(S) /\ Len(Chunk(s, n)) = n
         /\ \A i \in 1 .. n : Chunk(s, n)[i] = s[i]
         /\ AfterChunk(s, n) \in Seq(S) /\ Len(AfterChunk(s, n)) = Len(s) - n
         /\ \A i \in 1 .. Len(s) - n : AfterChunk(s, n)[i] = s[i + n]
<1>1. Len(s) \in Nat /\ n \in Nat /\ 1 <= n /\ n <= Len(s)
  OBVIOUS
<1>2. \A i \in 1 .. Len(s) : s[i] \in S
  OBVIOUS
<1>3. (\A i \in 1 .. n : s[i] \in S) /\ (\A i \in n + 1 .. Len(s) : s[i] \in S)
  BY <1>1, <1>2
<1>4. /\ SubSeq(s, 1, n) \in Seq(S)
      /\ Len(SubSeq(s, 1, n)) = IF 1 <= n THEN n - 1 + 1 ELSE 0
      /\ \A i \in 1 .. n - 1 + 1 : SubSeq(s, 1, n)[i] = s[1 + i - 1]
  BY <1>1, <1>3, SubSeqProperties
<1>5. n - 1 + 1 = n /\ \A i \in 1 .. n : 1 + i - 1 = i
  BY <1>1
<1>6. /\ SubSeq(s, n + 1, Len(s)) \in Seq(S)
      /\ Len(SubSeq(s, n + 1, Len(s))) = IF n + 1 <= Len(s) THEN Len(s) - (n + 1) + 1 ELSE 0
      /\ \A i \in 1 .. Len(s) - (n + 1) + 1 : SubSeq(s, n + 1, Len(s))[i] = s[(n + 1) + i - 1]
  BY <1>1, <1>3, SubSeqProperties
<1>7. /\ Len(s) - (n + 1) + 1 = Len(s) - n /\ (n + 1 <= Len(s) \/ Len(s) - n = 0)
      /\ \A i \in 1 .. Len(s) - n : (n + 1) + i - 1 = i + n
  BY <1>1
<1>8. Len(SubSeq(s, n + 1, Len(s))) = Len(s) - n
  BY <1>6, <1>7
<1>9. \A i \in 1 .. Len(s) - n : SubSeq(s, n + 1, Len(s))[i] = s[i + n]
  BY <1>6, <1>7
<1>10. \A i \in 1 .. n : SubSeq(s, 1, n)[i] = s[i]
  BY <1>4, <1>5
<1> QED
  BY <1>1, <1>4, <1>5, <1>6, <1>8, <1>9, <1>10 DEF Chunk, AfterChunk

Char == Unit \ {"h1", "h2"}
Part == Nat \X Nat \X {"text", "end"}

LEMMA CharUnit == Seq(Char) \subseteq Seq(Unit) /\ Char \subseteq Unit
BY DEF Char

LEMMA DecodedChars ==
  ASSUME NEW bytes \in Seq(Unit)
  PROVE  Decoded(bytes) \in Seq(Char)
<1> DEFINE d == Decoded(bytes)
<1>1. d \in Seq(Unit) /\ \A i \in 1 .. Len(d) : d[i] \notin {"h1", "h2"}
  <2>1. Decoded(bytes) \in Seq(Unit) /\ Len(Decoded(bytes)) = Len(bytes)
          /\ \A i \in 1 .. Len(bytes) : Decoded(bytes)[i] \notin {"h1", "h2"}
    BY DecodedUnits
  <2> QED
    BY <2>1
<1> HIDE DEF d
<1>2. Len(d) \in Nat /\ \A i \in 1 .. Len(d) : d[i] \in Char
  BY <1>1 DEF Char
<1>3. d = [i \in 1 .. Len(d) |-> d[i]]
  BY <1>1
<1>4. d \in [1 .. Len(d) -> Char]
  BY <1>2, <1>3
<1>5. d \in Seq(Char)
  BY <1>2, <1>4
<1> QED
  BY <1>5 DEF d

LEMMA CommandUnits == Typed \subseteq Seq(Unit) /\ CRLF \in Seq(Unit) /\ <<"q">> \in Seq(Unit)
<1>1. ASSUME NEW command \in Typed
      PROVE  command \in Seq(Unit)
  <2>1. command \in Seq(STRING)
    BY ClientAssumption
  <2>2. Len(command) \in Nat /\ DOMAIN command = 1 .. Len(command)
          /\ command \in [1 .. Len(command) -> STRING]
    BY <2>1
  <2>3. ASSUME NEW i \in 1 .. Len(command)
        PROVE  command[i] \in Unit
    <3>1. command[i] \in Range(command)
      BY <2>2 DEF Range
    <3> QED
      BY <3>1, Zenon DEF Unit
  <2>4. command \in [1 .. Len(command) -> Unit]
    BY <2>2, <2>3
  <2> QED
    BY <2>2, <2>4
<1>2. CRLF \in Seq(Unit) /\ <<"q">> \in Seq(Unit)
  BY Units DEF CRLF
<1> QED
  BY <1>1, <1>2

LEMMA AnswerParts ==
  ASSUME NEW n \in Nat, NEW lines \in {1, 2}
  PROVE  /\ Answer(n, lines) \in Seq(Part)
         /\ lines = 1 => /\ Len(Answer(n, lines)) = 2
                         /\ Answer(n, lines)[1][3] = "text" /\ Answer(n, lines)[2][3] = "end"
<1> DEFINE A == [i \in 1 .. 2 * lines |->
                   <<n, (i + 1) \div 2, IF i % 2 = 1 THEN "text" ELSE "end">>]
<1>1. ASSUME NEW i \in 1 .. 2 * lines
      PROVE  <<n, (i + 1) \div 2, IF i % 2 = 1 THEN "text" ELSE "end">> \in Part
  <2>1. (i + 1) \div 2 \in Nat
    OBVIOUS
  <2> QED
    BY <2>1 DEF Part
<1>2. A \in [1 .. 2 * lines -> Part] /\ 2 * lines \in Nat
  BY <1>1
<1>3. A \in Seq(Part) /\ Len(A) = 2 * lines
  BY <1>2
<1>4. lines = 1 => A[1][3] = "text" /\ A[2][3] = "end"
  OBVIOUS
<1> QED
  BY <1>3, <1>4 DEF Answer

-----------------------------------------------------------------------------
(* What every part of the state may be, and where client and handler are.   *)

StreamTypes ==
  /\ to_server \in [Conn -> Seq(Unit)]
  /\ to_client \in [Conn -> Seq(Part)]
  /\ client_end \in [Conn -> {"none", "open", "closed"}]

ReadTypes ==
  /\ buf \in [Conn -> Seq(Char)]
  /\ dispatched \in [Conn -> Seq(Seq(Char))]

MoreThreadTypes ==
  fresh \in Conn \cup {Nil} /\ conn \in Conn \cup {Nil} /\ abandoned \subseteq Conn

(* Only a handler that goes through its buffer has an end of line in it.    *)
Buffers ==
  \A k \in Conn :
    /\ handler[k] \in {"none", "started", "loop", "recv"} => LineEnds(buf[k]) = {}
    /\ handler[k] = "split" => LineEnds(buf[k]) # {}

Places ==
  \A k \in Conn :
    /\ server_end[k] = "closed" => handler[k] = "ended"
    /\ client_end[k] = "none" => handler[k] \in {"none", "ended"}

ClientTypes ==
  /\ asked \in Seq(Typed) /\ data \in Seq(Part) /\ returned \in Seq(Seq(Part))
  /\ \/ /\ client = "off" /\ client_end[Self] = "none"
        /\ asked = <<>> /\ data = <<>> /\ Len(returned) = 0
     \/ client = "waiting" /\ client_end[Self] = "open" /\ Len(returned) = Len(asked)
     \/ client = "ready" /\ client_end[Self] = "open" /\ Len(returned) = Len(asked) + 1
     \/ client = "closed" /\ Len(returned) <= Len(asked) + 1

WireTypes ==
  StreamTypes /\ ReadTypes /\ MoreThreadTypes /\ Buffers /\ Places /\ ClientTypes

LEMMA WireInit == Init => WireTypes
<1> SUFFICES ASSUME Init
             PROVE  WireTypes
  OBVIOUS
<1> USE DEF Init, StreamsInit, ConnectionInit, ClientInit
<1>1. StreamTypes /\ ReadTypes /\ MoreThreadTypes
  <2>1. \A S : <<>> \in Seq(S)
    OBVIOUS
  <2> QED
    BY <2>1 DEF StreamTypes, ReadTypes, MoreThreadTypes
<1>2. Buffers
  <2>1. LineEnds(<<>>) = {}
    BY DEF LineEnds
  <2> QED
    BY <2>1 DEF Buffers
<1>3. Places
  BY DEF Places
<1>4. ClientTypes
  BY ClientAssumption DEF ClientTypes
<1> QED
  BY <1>1, <1>2, <1>3, <1>4 DEF WireTypes

LEMMA EmptyLine == LineEnds(<<>>) = {}
BY DEF LineEnds

(* The sockets that are closed when they are let go are those of handlers   *)
(* that have ended.                                                         *)
LEMMA LettingGo ==
  ASSUME WireTypes, StopInv, LetsGo
  PROVE  /\ to_server' \in [Conn -> Seq(Unit)]
         /\ server_end' \in [Conn -> {"open", "closed"}]
         /\ \A k \in Conn :
              \/ UNCHANGED <<server_end[k], to_server[k]>>
              \/ handler[k] = "ended" /\ server_end'[k] = "closed"
<1>1. <<>> \in Seq(Unit)
  OBVIOUS
<1> QED
  BY <1>1 DEF LetsGo, Closes, WireTypes, StreamTypes, StopInv, HandlerTypes

(* sendall.                                                                 *)
LEMMA SendsTypes ==
  ASSUME WireTypes, HandlerTypes, NEW k \in Conn, NEW n \in Nat, NEW lines \in {1, 2},
         NEW next, Sends(k, Answer(n, lines), next)
  PROVE  /\ to_client' \in [Conn -> Seq(Part)]
         /\ handler' = [handler EXCEPT ![k] = next] \/ handler' = [handler EXCEPT ![k] = "leave"]
<1>1. to_client \in [Conn -> Seq(Part)]
  BY DEF WireTypes, StreamTypes
<1>2. PICK A \in Seq(Part) : A = Answer(n, lines)
  BY AnswerParts
<1>3. to_client[k] \o A \in Seq(Part)
  BY <1>1, <1>2
<1> QED
  BY <1>1, <1>2, <1>3 DEF Sends, Goes

LEMMA HandlerTyped ==
  ASSUME WireTypes, StopInv, NEW k \in Conn, HandlerStep(k), UNCHANGED clientVars
  PROVE  WireTypes'
<1> USE DEF WireTypes, StopInv
<1>0. /\ handler \in [Conn -> HandlerSteps] /\ server_end \in [Conn -> {"open", "closed"}]
      /\ UNCHANGED mainVars /\ UNCHANGED client_end
      /\ (server_end[k] = "closed" => handler[k] = "ended")
      /\ (client_end[k] = "none" => handler[k] \in {"none", "ended"})
      /\ handler[k] \notin {"none", "ended"}
  <2>1. UNCHANGED mainVars /\ UNCHANGED client_end
    BY DEF HandlerStep, Welcome, Loop, Recv, RecvEnds, Line, Leave, streamVars
  <2>2. handler[k] \notin {"none", "ended"}
    BY DEF HandlerStep, Welcome, Loop, Recv, RecvEnds, Line, Leave
  <2> QED
    BY <2>1, <2>2 DEF HandlerTypes, Places
<1>1. MoreThreadTypes' /\ ClientTypes'
  BY <1>0 DEF MoreThreadTypes, ClientTypes, mainVars, clientVars
<1>2. CASE Welcome(k)
  <2>1. /\ handler[k] = "started"
        /\ UNCHANGED <<to_server, client_end, server_end, mainVars, buf, dispatched>>
        /\ Sends(k, Answer(0, 1), "loop")
    BY <1>2 DEF Welcome
  <2>2. /\ to_client' \in [Conn -> Seq(Part)]
        /\ handler' = [handler EXCEPT ![k] = "loop"] \/ handler' = [handler EXCEPT ![k] = "leave"]
    BY <2>1, SendsTypes
  <2>3. StreamTypes' /\ ReadTypes' /\ Places'
    BY <1>0, <2>1, <2>2 DEF StreamTypes, ReadTypes, Places
  <2>4. Buffers'
    BY <1>0, <2>1, <2>2 DEF Buffers
  <2> QED
    BY <1>1, <2>3, <2>4
<1>3. CASE Loop(k)
  <2>1. StreamTypes' /\ ReadTypes' /\ Places'
    BY <1>0, <1>3 DEF Loop, Goes, StreamTypes, ReadTypes, Places, streamVars
  <2>2. Buffers'
    BY <1>0, <1>3 DEF Loop, Goes, Buffers
  <2> QED
    BY <1>1, <2>1, <2>2
<1>4. CASE Recv(k)
  <2>1. PICK n \in 1 .. Len(to_server[k]) :
           /\ buf' = [buf EXCEPT ![k] = Buffered(k, Chunk(to_server[k], n))]
           /\ to_server' = [to_server EXCEPT ![k] = AfterChunk(@, n)]
    BY <1>4 DEF Recv
  <2>2. Goes(k, InBuffer(buf'[k])) /\ UNCHANGED <<to_client, client_end, server_end, dispatched>>
    BY <1>4 DEF Recv
  <2>3. to_server[k] \in Seq(Unit) /\ buf[k] \in Seq(Char)
    BY DEF StreamTypes, ReadTypes
  <2>4. Chunk(to_server[k], n) \in Seq(Unit) /\ AfterChunk(to_server[k], n) \in Seq(Unit)
    <3>1. ASSUME NEW s \in Seq(Unit), NEW i \in 1 .. Len(s)
          PROVE  Chunk(s, i) \in Seq(Unit) /\ AfterChunk(s, i) \in Seq(Unit)
      BY Chunks
    <3> QED
      BY <2>1, <2>3, <3>1
  <2>5. Buffered(k, Chunk(to_server[k], n)) \in Seq(Char)
    <3>1. PICK d \in Seq(Char) : d = Decoded(Chunk(to_server[k], n))
      BY <2>4, DecodedChars
    <3> QED
      BY <2>3, <3>1 DEF Buffered
  <2>6. StreamTypes' /\ ReadTypes'
    BY <2>1, <2>2, <2>4, <2>5 DEF StreamTypes, ReadTypes
  <2>7. Places'
    BY <1>0, <2>2 DEF Places, Goes, InBuffer
  <2>8. Buffers'
    <3>1. \A j \in Conn : j # k => buf'[j] = buf[j] /\ handler'[j] = handler[j]
      BY <1>0, <2>1, <2>2 DEF Goes, ReadTypes
    <3>2. handler'[k] = InBuffer(buf'[k])
      BY <1>0, <2>2 DEF Goes
    <3> QED
      BY <3>1, <3>2 DEF Buffers, InBuffer
  <2> QED
    BY <1>1, <2>6, <2>7, <2>8
<1>5. CASE RecvEnds(k)
  <2>1. StreamTypes' /\ ReadTypes' /\ Places'
    BY <1>0, <1>5 DEF RecvEnds, Goes, StreamTypes, ReadTypes, Places, streamVars
  <2>2. Buffers'
    BY <1>0, <1>5 DEF RecvEnds, Goes, Buffers
  <2> QED
    BY <1>1, <2>1, <2>2
<1>6. CASE Line(k)
  <2> DEFINE e == FirstEnd(buf[k])
             line == SubSeq(buf[k], 1, e - 1)
             rest == SubSeq(buf[k], e + 2, Len(buf[k]))
  <2>1. /\ handler[k] = "split" /\ buf' = [buf EXCEPT ![k] = rest]
        /\ UNCHANGED <<to_server, client_end, server_end>>
        /\ \/ /\ Goes(k, InBuffer(buf'[k])) /\ UNCHANGED <<dispatched, to_client>>
           \/ /\ dispatched' = [dispatched EXCEPT ![k] = Append(@, line)]
              /\ Sends(k, Answer(Len(dispatched'[k]), LinesOfAnswer(line)), InBuffer(buf'[k]))
    BY <1>6 DEF Line
  <2>2. buf \in [Conn -> Seq(Char)] /\ dispatched \in [Conn -> Seq(Seq(Char))]
    BY DEF ReadTypes
  <2>3. line \in Seq(Char) /\ rest \in Seq(Char)
    <3>1. LineEnds(buf[k]) # {} /\ buf[k] \in Seq(Char)
      BY <2>1, <2>2 DEF Buffers
    <3> QED
      BY <3>1, Split
  <2> HIDE DEF line, rest
  <2>4. buf' \in [Conn -> Seq(Char)]
    BY <2>1, <2>2, <2>3
  <2>5. ASSUME dispatched' = [dispatched EXCEPT ![k] = Append(@, line)]
        PROVE  dispatched' \in [Conn -> Seq(Seq(Char))] /\ Len(dispatched'[k]) \in Nat
    <3>1. Append(dispatched[k], line) \in Seq(Seq(Char))
      BY <2>2, <2>3
    <3>2. dispatched' \in [Conn -> Seq(Seq(Char))]
      BY <2>2, <2>5, <3>1
    <3>3. dispatched'[k] \in Seq(Seq(Char))
      BY <3>2
    <3> QED
      BY <3>2, <3>3
  <2>6. /\ dispatched' \in [Conn -> Seq(Seq(Char))] /\ to_client' \in [Conn -> Seq(Part)]
        /\ \/ handler' = [handler EXCEPT ![k] = InBuffer(buf'[k])]
           \/ handler' = [handler EXCEPT ![k] = "leave"]
    <3>1. CASE Goes(k, InBuffer(buf'[k])) /\ UNCHANGED <<dispatched, to_client>>
      BY <2>2, <3>1 DEF Goes, StreamTypes
    <3>2. CASE /\ dispatched' = [dispatched EXCEPT ![k] = Append(@, line)]
               /\ Sends(k, Answer(Len(dispatched'[k]), LinesOfAnswer(line)), InBuffer(buf'[k]))
      <4>1. dispatched' \in [Conn -> Seq(Seq(Char))] /\ Len(dispatched'[k]) \in Nat
        BY <2>5, <3>2
      <4>2. LinesOfAnswer(line) \in {1, 2}
        BY DEF LinesOfAnswer
      <4>3. PICK n \in Nat, lines \in {1, 2}, next \in {InBuffer(buf'[k])} :
              Sends(k, Answer(n, lines), next)
        BY <3>2, <4>1, <4>2
      <4> QED
        BY <4>1, <4>3, SendsTypes
    <3> QED
      BY <2>1, <3>1, <3>2
  <2>7. StreamTypes' /\ ReadTypes'
    BY <2>1, <2>4, <2>6 DEF StreamTypes, ReadTypes
  <2>8. Places'
    BY <1>0, <2>1, <2>6 DEF Places, InBuffer
  <2>9. Buffers'
    <3>1. \A j \in Conn : j # k => buf'[j] = buf[j] /\ handler'[j] = handler[j]
      BY <1>0, <2>1, <2>2, <2>6
    <3>2. handler'[k] = InBuffer(buf'[k]) \/ handler'[k] = "leave"
      BY <1>0, <2>6
    <3> QED
      BY <3>1, <3>2 DEF Buffers, InBuffer
  <2> QED
    BY <1>1, <2>7, <2>8, <2>9
<1>7. CASE Leave(k)
  <2>0. <<>> \in Seq(Unit) /\ <<>> \in Seq(Char)
    OBVIOUS
  <2>1. StreamTypes' /\ ReadTypes'
    <3>1. UNCHANGED <<to_client, client_end, dispatched>>
      BY <1>7 DEF Leave
    <3>2. CASE Closes({k}) /\ buf' = [buf EXCEPT ![k] = <<>>]
      <4>1. to_server' \in [Conn -> Seq(Unit)]
        BY <2>0, <3>2 DEF Closes, StreamTypes
      <4>2. buf' \in [Conn -> Seq(Char)]
        BY <2>0, <3>2 DEF ReadTypes
      <4> QED
        BY <3>1, <4>1, <4>2 DEF StreamTypes, ReadTypes
    <3>3. CASE UNCHANGED <<to_server, buf>>
      BY <3>1, <3>3 DEF StreamTypes, ReadTypes
    <3> QED
      BY <1>7, <3>2, <3>3 DEF Leave
  <2>2. Places'
    BY <1>0, <1>7 DEF Leave, Closes, Goes, Places
  <2>3. Buffers'
    BY <1>0, <1>7 DEF Leave, Goes, Buffers, ReadTypes
  <2> QED
    BY <1>1, <2>1, <2>2, <2>3
<1> QED
  BY <1>2, <1>3, <1>4, <1>5, <1>6, <1>7 DEF HandlerStep

LEMMA MainTyped ==
  ASSUME WireTypes, StopInv, MainStep \/ Stop, UNCHANGED clientVars
  PROVE  WireTypes'
<1> USE DEF WireTypes, StopInv
<1>0. handler \in [Conn -> HandlerSteps]
  BY DEF HandlerTypes
<1>1. UNCHANGED client_end
  BY DEF MainStep, Stop, Accept, ListThread, Join, CloseLog, Exit, streamVars
<1>2. ClientTypes'
  BY <1>1 DEF ClientTypes, clientVars
<1>3. ASSUME NEW k \in Conn, Accept(k)
      PROVE  WireTypes'
  <2>1. StreamTypes' /\ ReadTypes' /\ MoreThreadTypes'
    BY <1>3, LettingGo DEF Accept, StreamTypes, ReadTypes, MoreThreadTypes
  <2>2. Places'
    <3>1. \A j \in Conn : server_end[j] = "closed" => j # k
      BY <1>3 DEF Accept, Places
    <3> QED
      BY <1>0, <1>3, <3>1, LettingGo DEF Accept, Goes, Places
  <2>3. Buffers'
    BY <1>0, <1>3 DEF Accept, Goes, Buffers
  <2> QED
    BY <1>2, <2>1, <2>2, <2>3
<1>7. CASE Stop
  <2>1. StreamTypes' /\ ReadTypes' /\ MoreThreadTypes'
    BY <1>7, LettingGo DEF Stop, handlerVars, StreamTypes, ReadTypes, MoreThreadTypes
  <2>2. Places' /\ Buffers'
    BY <1>7, LettingGo DEF Stop, handlerVars, Places, Buffers
  <2> QED
    BY <1>2, <2>1, <2>2
<1>4. CASE ListThread \/ CloseLog
  <2>1. UNCHANGED <<streamVars, handlerVars, abandoned, conn>> /\ (UNCHANGED fresh \/ fresh' = Nil)
    BY <1>4 DEF ListThread, CloseLog
  <2> QED
    BY <1>2, <2>1
       DEF StreamTypes, ReadTypes, MoreThreadTypes, Places, Buffers, streamVars, handlerVars
<1>5. CASE Join
  <2>1. /\ UNCHANGED <<streamVars, handlerVars, fresh, conn>>
        /\ abandoned' \subseteq abandoned \cup {Head(to_join)} /\ Head(to_join) \in Conn
    BY <1>5, RangeFacts DEF Join, ThreadTypes
  <2> QED
    BY <1>2, <2>1
       DEF StreamTypes, ReadTypes, MoreThreadTypes, Places, Buffers, streamVars, handlerVars
<1>6. CASE Exit
  <2>1. /\ to_server' = [k \in Conn |-> <<>>] /\ buf' = [k \in Conn |-> <<>>]
        /\ handler' = [k \in Conn |-> "ended"]
        /\ UNCHANGED <<to_client, client_end, fresh, conn, abandoned, dispatched>>
    BY <1>6 DEF Exit
  <2>2. \A S : <<>> \in Seq(S)
    OBVIOUS
  <2>3. StreamTypes' /\ ReadTypes' /\ MoreThreadTypes'
    BY <2>1, <2>2 DEF StreamTypes, ReadTypes, MoreThreadTypes
  <2>4. Places' /\ Buffers'
    BY <2>1 DEF Places, Buffers
  <2> QED
    BY <1>2, <2>3, <2>4
<1> QED
  BY <1>3, <1>4, <1>5, <1>6, <1>7 DEF MainStep

LEMMA WritesTypes ==
  ASSUME WireTypes, NEW command \in Seq(Unit), Writes(command \o CRLF)
  PROVE  to_server' \in [Conn -> Seq(Unit)]
<1>1. to_server \in [Conn -> Seq(Unit)] /\ Self \in Conn
  BY ClientAssumption DEF WireTypes, StreamTypes
<1>2. PICK s \in Seq(Unit) : s = command \o CRLF
  BY LineAlone
<1>3. to_server[Self] \o s \in Seq(Unit)
  BY <1>1, <1>2
<1> QED
  BY <1>1, <1>2, <1>3 DEF Writes

LEMMA ClientTyped ==
  ASSUME WireTypes, StopInv, ClientStep \/ ReceiveStep, UNCHANGED serverVars
  PROVE  WireTypes'
<1> USE DEF WireTypes
<1>0. /\ Self \in Conn /\ asked \in Seq(Typed) /\ data \in Seq(Part) /\ returned \in Seq(Seq(Part))
      /\ client_end \in [Conn -> {"none", "open", "closed"}]
      /\ Len(asked) \in Nat /\ Len(returned) \in Nat
  BY ClientAssumption DEF ClientTypes, StreamTypes
<1>1. UNCHANGED <<handler, buf, dispatched, fresh, conn, abandoned>> /\ UNCHANGED server_end
  BY DEF serverVars, mainVars, handlerVars, ClientStep, ReceiveStep, Connect, Disconnect, Send,
         Receive, ReceiveEnd, streamVars
<1>2. ReadTypes' /\ MoreThreadTypes' /\ Buffers'
  BY <1>1 DEF ReadTypes, MoreThreadTypes, Buffers
<1>3. CASE Connect
  <2>1. StreamTypes'
    BY <1>0, <1>3 DEF Connect, StreamTypes
  <2>2. Places'
    BY <1>0, <1>1, <1>3 DEF Connect, Places, StreamTypes
  <2>3. ClientTypes'
    BY <1>0, <1>3 DEF Connect, ClientTypes
  <2> QED
    BY <1>2, <2>1, <2>2, <2>3
<1>4. ASSUME NEW command \in Typed, Send(command)
      PROVE  WireTypes'
  <2>1. /\ client = "ready" /\ client' = "waiting" /\ asked' = Append(asked, command)
        /\ Writes(command \o CRLF)
        /\ UNCHANGED <<to_client, client_end, server_end, data, returned>>
    BY <1>4 DEF Send
  <2>2. to_server' \in [Conn -> Seq(Unit)]
    BY <2>1, CommandUnits, WritesTypes
  <2>3. asked' \in Seq(Typed) /\ Len(asked') = Len(asked) + 1
    BY <1>0, <2>1
  <2>4. ClientTypes'
    BY <1>0, <2>1, <2>3 DEF ClientTypes
  <2>5. StreamTypes' /\ Places'
    BY <1>1, <2>1, <2>2 DEF StreamTypes, Places
  <2> QED
    BY <1>2, <2>4, <2>5
<1>5. CASE Disconnect
  <2>1. /\ client \in {"waiting", "ready"} /\ client' = "closed"
        /\ client_end' = [client_end EXCEPT ![Self] = "closed"]
        /\ Writes(<<"q">> \o CRLF)
        /\ UNCHANGED <<to_client, server_end, asked, data, returned>>
    BY <1>5 DEF Disconnect
  <2>2. to_server' \in [Conn -> Seq(Unit)]
    BY <2>1, CommandUnits, WritesTypes
  <2>3. ClientTypes'
    BY <1>0, <2>1 DEF ClientTypes
  <2>4. StreamTypes' /\ Places'
    BY <1>0, <1>1, <2>1, <2>2 DEF StreamTypes, Places
  <2> QED
    BY <1>2, <2>3, <2>4
<1>6. CASE Receive
  <2>1. PICK n \in 1 .. Len(to_client[Self]) :
          LET all == data \o Chunk(to_client[Self], n) IN
          /\ to_client' = [to_client EXCEPT ![Self] = AfterChunk(@, n)]
          /\ IF Complete(all)
               THEN ReturnData(all)
               ELSE data' = all /\ UNCHANGED <<client, returned>>
    BY <1>6 DEF Receive
  <2>2. to_client \in [Conn -> Seq(Part)]
    BY DEF StreamTypes
  <2>3. Chunk(to_client[Self], n) \in Seq(Part) /\ AfterChunk(to_client[Self], n) \in Seq(Part)
    <3>1. ASSUME NEW s \in Seq(Part), NEW i \in 1 .. Len(s)
          PROVE  Chunk(s, i) \in Seq(Part) /\ AfterChunk(s, i) \in Seq(Part)
      BY Chunks
    <3> QED
      BY <1>0, <2>1, <2>2, <3>1
  <2>4. PICK all \in Seq(Part) : all = data \o Chunk(to_client[Self], n)
    <3>1. PICK c \in Seq(Part) : c = Chunk(to_client[Self], n)
      BY <2>3
    <3>2. data \o c \in Seq(Part)
      BY <1>0
    <3> QED
      BY <3>1, <3>2
  <2>5. /\ client = "waiting" /\ UNCHANGED <<to_server, client_end, server_end, asked>>
        /\ to_client' = [to_client EXCEPT ![Self] = AfterChunk(@, n)]
        /\ \/ returned' = Append(returned, all) /\ data' = <<>> /\ client' = "ready"
           \/ data' = all /\ UNCHANGED <<client, returned>>
    BY <1>6, <2>1, <2>4 DEF Receive, ReturnData
  <2>6. StreamTypes' /\ Places'
    BY <1>1, <2>2, <2>3, <2>5 DEF StreamTypes, Places
  <2>7. \/ /\ returned' \in Seq(Seq(Part)) /\ Len(returned') = Len(returned) + 1
           /\ data' = <<>> /\ client' = "ready"
        \/ data' = all /\ UNCHANGED <<client, returned>>
    <3>1. ASSUME NEW R \in Seq(Seq(Part))
          PROVE  Append(R, all) \in Seq(Seq(Part)) /\ Len(Append(R, all)) = Len(R) + 1
      OBVIOUS
    <3>2. Append(returned, all) \in Seq(Seq(Part)) /\ Len(Append(returned, all)) = Len(returned) + 1
      BY <1>0, <3>1
    <3> QED
      BY <2>5, <3>2
  <2>8. ClientTypes'
    <3>1. Len(returned) = Len(asked) /\ client_end[Self] = "open"
      BY <2>5 DEF ClientTypes
    <3>2. <<>> \in Seq(Part)
      OBVIOUS
    <3>3. CASE data' = all /\ UNCHANGED <<client, returned>>
      BY <1>0, <2>5, <3>1, <3>3 DEF ClientTypes
    <3>4. CASE returned' \in Seq(Seq(Part)) /\ Len(returned') = Len(returned) + 1
                 /\ data' = <<>> /\ client' = "ready"
      BY <1>0, <2>5, <3>1, <3>2, <3>4 DEF ClientTypes
    <3> QED
      BY <2>7, <3>3, <3>4
  <2> QED
    BY <1>2, <2>6, <2>8
<1>7. CASE ReceiveEnd
  <2>1. /\ client = "waiting" /\ client' = "ready" /\ data' = <<>>
        /\ returned' = Append(returned, data) /\ UNCHANGED <<streamVars, asked>>
    BY <1>7 DEF ReceiveEnd
  <2>2. returned' \in Seq(Seq(Part)) /\ Len(returned') = Len(returned) + 1
    BY <1>0, <2>1
  <2>3. ClientTypes'
    BY <1>0, <2>1, <2>2 DEF ClientTypes, streamVars
  <2>4. StreamTypes' /\ Places'
    BY <1>1, <2>1 DEF StreamTypes, Places, streamVars
  <2> QED
    BY <1>2, <2>3, <2>4
<1> QED
  BY <1>3, <1>4, <1>5, <1>6, <1>7 DEF ClientStep, ReceiveStep

LEMMA WireTyped == WireTypes /\ StopInv /\ [Next]_vars => WireTypes'
<1> SUFFICES ASSUME WireTypes, StopInv, [Next]_vars
             PROVE  WireTypes'
  OBVIOUS
<1>1. CASE Served
  BY <1>1, MainTyped, HandlerTyped DEF Served
<1>2. CASE (ClientStep \/ ReceiveStep) /\ UNCHANGED serverVars
  BY <1>2, ClientTyped
<1>3. ASSUME NEW k \in Conn \ {Self}, OtherConnects(k)
      PROVE  WireTypes'
  <2>1. /\ client_end' = [client_end EXCEPT ![k] = "open"]
        /\ client_end \in [Conn -> {"none", "open", "closed"}] /\ Self \in Conn
        /\ UNCHANGED <<to_server, to_client, server_end, serverVars, clientVars>>
    BY <1>3, ClientAssumption DEF OtherConnects, WireTypes, StreamTypes
  <2>2. StreamTypes' /\ ClientTypes'
    BY <2>1 DEF WireTypes, StreamTypes, ClientTypes, clientVars
  <2>3. ReadTypes' /\ MoreThreadTypes' /\ Buffers' /\ Places'
    BY <2>1
       DEF WireTypes, ReadTypes, MoreThreadTypes, Buffers, Places,
           serverVars, mainVars, handlerVars
  <2> QED
    BY <2>2, <2>3 DEF WireTypes
<1>4. CASE UNCHANGED vars
  BY <1>4 DEF vars, streamVars, serverVars, mainVars, handlerVars, clientVars, WireTypes, StreamTypes,
              ReadTypes, MoreThreadTypes, Buffers, Places, ClientTypes
<1> QED
  BY <1>1, <1>2, <1>3, <1>4 DEF Next

LEMMA TypesHold == StopInv /\ WireTypes => TypeOK
<1> SUFFICES ASSUME StopInv, WireTypes
             PROVE  TypeOK
  OBVIOUS
<1> USE DEF StopInv, WireTypes
<1>1. ASSUME NEW S, NEW s \in Seq(S)
      PROVE  Range(s) \subseteq S
  BY DEF Range
<1>2. ASSUME NEW k \in Conn, NEW s \in {buf[k]} \cup Range(dispatched[k])
      PROVE  Range(s) \cap {"h1", "h2"} = {}
  <2>1. buf[k] \in Seq(Char) /\ dispatched[k] \in Seq(Seq(Char))
    BY DEF ReadTypes
  <2>2. s \in Seq(Char)
    BY <1>1, <2>1
  <2>3. Range(s) \subseteq Char
    BY <1>1, <2>2
  <2> QED
    BY <2>3 DEF Char
<1>3. Range(threads) \subseteq Conn /\ Range(to_join) \subseteq Conn
  BY <1>1 DEF ThreadTypes
<1>4. ConnectionTypeOK
  BY <1>2, <1>3 DEF ConnectionTypeOK, ThreadTypes, HandlerTypes, HandlerSteps, MoreThreadTypes
<1>5. ClientTypeOK
  <2>1. Range(asked) \subseteq Typed
    BY <1>1 DEF ClientTypes
  <2>2. asked \in Seq(Typed) /\ returned \in Seq(Seq(Part))
    BY DEF ClientTypes
  <2>3. Len(asked) \in Nat /\ Len(returned) \in Nat
    BY <2>2
  <2>4. Len(returned) <= Len(asked) + 1 /\ client \in {"off", "waiting", "ready", "closed"}
    BY <2>3 DEF ClientTypes
  <2> QED
    BY <2>1, <2>4 DEF ClientTypeOK
<1> QED
  BY <1>4, <1>5 DEF TypeOK

-----------------------------------------------------------------------------
(* A blank first command is read but not executed.                          *)
Skipped(W) == IF W # <<>> /\ W[1] = <<>> THEN 1 ELSE 0

(* The stream b \o r is the rest of the lines of W when d of them have been *)
(* executed.                                                                *)
InStream(P, W, d) ==
  \E done \in 0 .. Len(W) :
    /\ d = IF done = 0 THEN 0 ELSE done - Skipped(W)
    /\ \E cut : Laid(P, W, done, cut)

(* The lines of D are the first of W, but for the one skipped.              *)
Executed(D, W) ==
  \A n \in 1 .. Len(D) : n + Skipped(W) \in 1 .. Len(W) /\ Reads(D[n], W[n + Skipped(W)])

LEMMA SkippedNat == ASSUME NEW W PROVE Skipped(W) \in {0, 1}
BY DEF Skipped

LEMMA ReceivedInStream ==
  ASSUME NEW b \in Seq(Char), NEW r \in Seq(Unit), NEW n \in 1 .. Len(r),
         NEW W \in Seq(Seq(Unit)), NEW d, InStream(b \o r, W, d)
  PROVE  InStream((b \o Decoded(Chunk(r, n))) \o AfterChunk(r, n), W, d)
<1>1. b \in Seq(Unit) /\ Len(b) \in Nat /\ Len(r) \in Nat /\ n \in Nat /\ n <= Len(r)
  BY CharUnit
<1>2. PICK c \in Seq(Unit) : c = Chunk(r, n)
  BY Chunks
<1>3. PICK a \in Seq(Unit) : a = AfterChunk(r, n)
  BY Chunks
<1>4. /\ Len(c) = n /\ \A i \in 1 .. n : c[i] = r[i]
      /\ Len(a) = Len(r) - n /\ \A i \in 1 .. Len(r) - n : a[i] = r[i + n]
  BY <1>2, <1>3, Chunks
<1>5. PICK u \in Seq(Unit) : u = Decoded(c)
  BY DecodedUnits
<1>6. Len(u) = n /\ \A i \in 1 .. n : \A unit \in Unit : Becomes(unit, r[i]) => Becomes(unit, u[i])
  <2>1. Len(u) = Len(c)
          /\ \A i \in 1 .. Len(c) : \A unit \in Unit : Becomes(unit, c[i]) => Becomes(unit, u[i])
    BY <1>5, DecodedUnits
  <2> QED
    BY <1>4, <2>1
<1> DEFINE P == b \o r
           B == b \o u
           Q == B \o a
<1>0. ASSUME NEW s \in Seq(Unit), NEW t \in Seq(Unit)
      PROVE  /\ s \o t \in Seq(Unit) /\ Len(s \o t) = Len(s) + Len(t)
             /\ \A i \in 1 .. Len(s) : (s \o t)[i] = s[i]
             /\ \A i \in 1 .. Len(t) : (s \o t)[Len(s) + i] = t[i]
  OBVIOUS
<1>7. /\ P \in Seq(Unit) /\ Len(P) = Len(b) + Len(r)
      /\ \A i \in 1 .. Len(b) : P[i] = b[i]
      /\ \A i \in 1 .. Len(r) : P[Len(b) + i] = r[i]
  BY <1>0, <1>1, Zenon
<1>8. /\ B \in Seq(Unit) /\ Len(B) = Len(b) + n
      /\ \A i \in 1 .. Len(b) : B[i] = b[i]
      /\ \A i \in 1 .. n : B[Len(b) + i] = u[i]
  BY <1>0, <1>1, <1>6, Zenon
<1> HIDE DEF B
<1>9. /\ Q \in Seq(Unit) /\ Len(Q) = Len(B) + Len(a)
      /\ \A i \in 1 .. Len(B) : Q[i] = B[i]
      /\ \A i \in 1 .. Len(a) : Q[Len(B) + i] = a[i]
  BY <1>0, <1>8, Zenon
<1> HIDE DEF P, Q
<1>10. Len(Q) = Len(P)
  BY <1>1, <1>4, <1>7, <1>8, <1>9
<1>11. ASSUME NEW i \in 1 .. Len(P), NEW unit \in Unit, Becomes(unit, P[i])
       PROVE  Becomes(unit, Q[i])
  <2>1. CASE i <= Len(b)
    <3>1. i \in 1 .. Len(b) /\ i \in 1 .. Len(B)
      BY <1>1, <1>8, <2>1
    <3>2. Q[i] = P[i]
      BY <1>7, <1>8, <1>9, <3>1
    <3> QED
      BY <1>11, <3>2
  <2>2. CASE Len(b) < i /\ i <= Len(b) + n
    <3>1. PICK j \in 1 .. n : i = Len(b) + j
      <4>1. i - Len(b) \in 1 .. n /\ i = Len(b) + (i - Len(b))
        BY <1>1, <2>2
      <4> QED
        BY <4>1, Zenon
    <3>2. j \in 1 .. Len(r) /\ Len(b) + j \in 1 .. Len(B)
      BY <1>1, <1>8, <3>1
    <3>3. P[i] = r[j] /\ Q[i] = u[j]
      BY <1>7, <1>8, <1>9, <3>1, <3>2
    <3> QED
      BY <1>6, <1>11, <3>1, <3>3
  <2>3. CASE Len(b) + n < i
    <3>1. PICK j \in 1 .. Len(r) - n : i = (Len(b) + n) + j
      <4>1. i - (Len(b) + n) \in 1 .. Len(r) - n /\ i = (Len(b) + n) + (i - (Len(b) + n))
        BY <1>1, <1>7, <2>3
      <4> QED
        BY <4>1, Zenon
    <3>2. j \in 1 .. Len(a) /\ j + n \in 1 .. Len(r) /\ i = Len(b) + (j + n)
      BY <1>1, <1>4, <3>1
    <3>3. P[i] = r[j + n]
      BY <1>7, <3>2
    <3>4. Q[i] = a[j]
      BY <1>8, <1>9, <3>1, <3>2
    <3> QED
      BY <1>4, <1>11, <3>1, <3>3, <3>4
  <2> QED
    BY <1>1, <2>1, <2>2, <2>3
<1>12. ASSUME NEW done \in 0 .. Len(W), NEW cut, Laid(P, W, done, cut)
       PROVE  Laid(Q, W, done, cut)
  <2>1. done \in Nat /\ done <= Len(W)
    OBVIOUS
  <2> QED
    BY <1>7, <1>9, <1>10, <1>11, <1>12, <2>1, LaidDecoded
<1>13. InStream(P, W, d) => InStream(Q, W, d)
  BY <1>12 DEF InStream
<1> QED
  BY <1>2, <1>3, <1>5, <1>13 DEF P, Q, B

LEMMA WrittenInStream ==
  ASSUME NEW b \in Seq(Char), NEW r \in Seq(Unit), NEW command \in Seq(Unit),
         NEW W \in Seq(Seq(Unit)), NEW d, InStream(b \o r, W, d)
  PROVE  InStream(b \o (r \o (command \o CRLF)), Append(W, command), d)
<1>1. b \in Seq(Unit)
  BY CharUnit
<1>2. PICK x \in Seq(Unit) : x = command \o CRLF
  BY LineAlone
<1>3. b \o (r \o x) = (b \o r) \o x /\ b \o r \in Seq(Unit)
  <2>1. ASSUME NEW u \in Seq(Unit), NEW v \in Seq(Unit), NEW w \in Seq(Unit)
        PROVE  u \o (v \o w) = (u \o v) \o w
    <3> DEFINE one == u \o (v \o w)
               other == (u \o v) \o w
    <3>1. one \in Seq(Unit) /\ other \in Seq(Unit)
      OBVIOUS
    <3>2. Len(one) = Len(other)
      OBVIOUS
    <3>3. \A i \in 1 .. Len(one) : one[i] = other[i]
      OBVIOUS
    <3> QED
      BY <3>1, <3>2, <3>3, SeqEqual, Zenon
  <2>2. b \o (r \o x) = (b \o r) \o x
    BY <1>1, <1>2, <2>1, Zenon
  <2>3. b \o r \in Seq(Unit)
    BY <1>1
  <2> QED
    BY <2>2, <2>3
<1>4. PICK done \in 0 .. Len(W) : /\ d = IF done = 0 THEN 0 ELSE done - Skipped(W)
                                  /\ \E cut : Laid(b \o r, W, done, cut)
  BY DEF InStream
<1>5. Len(W) \in Nat /\ done \in Nat /\ done <= Len(W)
  OBVIOUS
<1>6. PICK c : Laid((b \o r) \o x, Append(W, command), done, c)
  BY <1>2, <1>3, <1>4, <1>5, LaidAppended
<1>7. /\ Len(Append(W, command)) = Len(W) + 1
      /\ done # 0 => W # <<>> /\ Append(W, command) # <<>> /\ Append(W, command)[1] = W[1]
  <2>1. /\ Len(Append(W, command)) = Len(W) + 1
        /\ \A i \in 1 .. Len(W) : Append(W, command)[i] = W[i]
    OBVIOUS
  <2>2. ASSUME done # 0
        PROVE  1 \in 1 .. Len(W) /\ Len(W) # 0 /\ Len(W) + 1 # 0
    BY <1>5, <2>2
  <2>3. Len(<<>>) = 0
    OBVIOUS
  <2> QED
    BY <2>1, <2>2, <2>3
<1>8. d = IF done = 0 THEN 0 ELSE done - Skipped(Append(W, command))
  BY <1>4, <1>7 DEF Skipped
<1>9. done \in 0 .. Len(Append(W, command))
  BY <1>5, <1>7
<1>10. InStream((b \o r) \o x, Append(W, command), d)
  BY <1>6, <1>8, <1>9 DEF InStream
<1> QED
  BY <1>2, <1>3, <1>10

(* What the handler does with the first line: it executes it, or skips it.  *)
LEMMA LineInStream ==
  ASSUME NEW b \in Seq(Char), NEW r \in Seq(Unit),
         NEW W \in Seq(Seq(Unit)), \A n \in 1 .. Len(W) : OneLine(W[n]),
         \A n \in 2 .. Len(W) : W[n] # <<>>,
         NEW D \in Seq(Seq(Char)), InStream(b \o r, W, Len(D)), Executed(D, W),
         LineEnds(b) # {},
         NEW line, line = SubSeq(b, 1, FirstEnd(b) - 1),
         NEW rest, rest = SubSeq(b, FirstEnd(b) + 2, Len(b))
  PROVE  /\ line = <<>> => InStream(rest \o r, W, Len(D))
         /\ line # <<>> => InStream(rest \o r, W, Len(D) + 1) /\ Executed(Append(D, line), W)
<1>1. PICK done \in 0 .. Len(W) : /\ Len(D) = IF done = 0 THEN 0 ELSE done - Skipped(W)
                                  /\ \E cut : Laid(b \o r, W, done, cut)
  BY DEF InStream
<1>2. done \in Nat /\ done <= Len(W) /\ Len(W) \in Nat /\ b \in Seq(Unit)
  BY CharUnit
<1>3. PICK cut : Laid(b \o r, W, done, cut)
  BY <1>1
<1>4. /\ done + 1 \in 1 .. Len(W) /\ Reads(line, W[done + 1])
      /\ \E c : Laid(rest \o r, W, done + 1, c)
  BY <1>2, <1>3, FirstLine
<1>5. line \in Seq(Char) /\ rest \in Seq(Char)
  BY Split
<1>6. done + 1 \in 0 .. Len(W) /\ done + 1 # 0 /\ W # <<>>
  BY <1>2, <1>4
<1>7. (line = <<>>) <=> (W[done + 1] = <<>>)
  <2>1. Len(line) = Len(W[done + 1]) /\ W[done + 1] \in Seq(Unit)
    <3>1. W[done + 1] \in Seq(Unit)
      BY <1>4, ElementOfSeq
    <3> QED
      BY <1>4, <3>1 DEF Reads
  <2>2. \A S : \A s \in Seq(S) : s = <<>> <=> Len(s) = 0
    OBVIOUS
  <2> QED
    BY <1>5, <2>1, <2>2
<1>8. CASE line = <<>>
  <2>1. done = 0
    <3>1. done + 1 \notin 2 .. Len(W)
      BY <1>4, <1>7, <1>8
    <3> QED
      BY <1>2, <1>4, <3>1
  <2>2. Skipped(W) = 1
    BY <1>6, <1>7, <1>8, <2>1 DEF Skipped
  <2>3. Len(D) = (done + 1) - Skipped(W)
    BY <1>1, <2>1, <2>2
  <2> QED
    BY <1>4, <1>6, <1>8, <2>3 DEF InStream
<1>9. CASE line # <<>>
  <2>1. done = 0 => Skipped(W) = 0
    BY <1>7, <1>9 DEF Skipped
  <2>2. Skipped(W) \in {0, 1}
    BY SkippedNat
  <2>3. Len(D) \in Nat /\ Len(D) + 1 = (done + 1) - Skipped(W)
    BY <1>1, <1>2, <2>1, <2>2
  <2>4. InStream(rest \o r, W, Len(D) + 1)
    BY <1>4, <1>6, <2>3 DEF InStream
  <2>5. /\ Len(Append(D, line)) = Len(D) + 1 /\ Append(D, line)[Len(D) + 1] = line
        /\ \A n \in 1 .. Len(D) : Append(D, line)[n] = D[n]
    BY <1>5
  <2>6. Len(D) + 1 + Skipped(W) = done + 1
    BY <1>2, <2>2, <2>3
  <2>7. ASSUME NEW n \in 1 .. Len(D) + 1
        PROVE  n + Skipped(W) \in 1 .. Len(W) /\ Reads(Append(D, line)[n], W[n + Skipped(W)])
    <3>1. CASE n = Len(D) + 1
      BY <1>4, <2>5, <2>6, <3>1
    <3>2. CASE n # Len(D) + 1
      <4>1. n \in 1 .. Len(D)
        BY <2>3, <3>2
      <4> QED
        BY <2>5, <4>1 DEF Executed
    <3> QED
      BY <3>1, <3>2
  <2>8. Executed(Append(D, line), W)
    BY <2>5, <2>7 DEF Executed
  <2> QED
    BY <1>9, <2>4, <2>8
<1> QED
  BY <1>8, <1>9

(* All lines written to the server while it listened, or after.             *)
Written == IF client = "closed" THEN Append(asked, <<"q">>) ELSE asked

Framing ==
  /\ \A i \in 1 .. Len(asked) : asked[i] = <<>> => Len(asked) = 1
  /\ Executed(dispatched[Self], Written)
  /\ server_end[Self] = "open" =>
       InStream(buf[Self] \o to_server[Self], Written, Len(dispatched[Self]))

LEMMA Appended ==
  ASSUME NEW S, NEW s \in Seq(S), NEW x \in S
  PROVE  /\ Append(s, x) \in Seq(S) /\ Len(Append(s, x)) = Len(s) + 1
         /\ \A i \in 1 .. Len(s) : Append(s, x)[i] = s[i]
         /\ Append(s, x)[Len(s) + 1] = x
OBVIOUS

LEMMA CommandLines ==
  \A command \in Typed \cup {<<"q">>} : command \in Seq(Unit) /\ OneLine(command)
<1>1. OneLine(<<"q">>)
  BY DEF OneLine
<1> QED
  BY <1>1, CommandUnits, ClientAssumption DEF OneLine

LEMMA WrittenLines ==
  ASSUME WireTypes, Framing
  PROVE  /\ Written \in Seq(Seq(Unit))
         /\ \A n \in 1 .. Len(Written) : OneLine(Written[n])
         /\ \A n \in 2 .. Len(Written) : Written[n] # <<>>
<1>1. asked \in Seq(Typed)
  BY DEF WireTypes, ClientTypes
<1>2. /\ asked \in Seq(Seq(Unit)) /\ Len(asked) \in Nat
      /\ \A n \in 1 .. Len(asked) : asked[n] \in Typed
  BY <1>1, CommandUnits
<1>3. \A n \in 1 .. Len(asked) : OneLine(asked[n])
  BY <1>2, CommandLines
<1>4. \A n \in 2 .. Len(asked) : asked[n] # <<>>
  BY <1>2 DEF Framing
<1>5. CASE client = "closed"
  <2> DEFINE A == Append(asked, <<"q">>)
  <2>1. /\ A \in Seq(Seq(Unit)) /\ Len(A) = Len(asked) + 1
        /\ \A i \in 1 .. Len(asked) : A[i] = asked[i]
        /\ A[Len(asked) + 1] = <<"q">>
    BY <1>2, CommandUnits, Appended
  <2> HIDE DEF A
  <2>2. ASSUME NEW n \in 1 .. Len(A)
        PROVE  n \in 1 .. Len(asked) \/ n = Len(asked) + 1
    BY <1>2, <2>1
  <2>3. <<"q">> # <<>> /\ OneLine(<<"q">>)
    BY CommandLines
  <2>4. \A n \in 1 .. Len(A) : OneLine(A[n])
    BY <1>3, <2>1, <2>2, <2>3
  <2>5. ASSUME NEW n \in 2 .. Len(A)
        PROVE  A[n] # <<>>
    <3>1. n \in 2 .. Len(asked) \/ n = Len(asked) + 1
      BY <1>2, <2>1
    <3>2. \A i \in 2 .. Len(asked) : i \in 1 .. Len(asked)
      OBVIOUS
    <3> QED
      BY <1>4, <2>1, <2>3, <3>1, <3>2
  <2> QED
    BY <1>5, <2>1, <2>4, <2>5 DEF Written, A
<1>6. CASE client # "closed"
  BY <1>2, <1>3, <1>4, <1>6 DEF Written
<1> QED
  BY <1>5, <1>6

LEMMA ExecutedOn ==
  ASSUME NEW D \in Seq(Seq(Char)), NEW W \in Seq(Seq(Unit)), NEW command \in Seq(Unit),
         Executed(D, W)
  PROVE  Executed(D, Append(W, command))
<1> DEFINE A == Append(W, command)
<1>1. /\ A \in Seq(Seq(Unit)) /\ Len(A) = Len(W) + 1 /\ \A i \in 1 .. Len(W) : A[i] = W[i]
      /\ Len(W) \in Nat
  BY Appended
<1> HIDE DEF A
<1>2. ASSUME NEW n \in 1 .. Len(D)
      PROVE  n + Skipped(A) \in 1 .. Len(A) /\ Reads(D[n], A[n + Skipped(A)])
  <2>1. n + Skipped(W) \in 1 .. Len(W) /\ Reads(D[n], W[n + Skipped(W)])
    BY DEF Executed
  <2>2. 1 \in 1 .. Len(W) /\ Len(W) # 0 /\ Len(A) # 0
    <3>1. PICK m \in Nat : m = Len(W)
      BY <1>1
    <3>2. \A i \in 1 .. m : 1 \in 1 .. m /\ m # 0 /\ m + 1 # 0
      OBVIOUS
    <3>3. 1 \in 1 .. m /\ m # 0 /\ m + 1 # 0
      BY <2>1, <3>1, <3>2
    <3> QED
      BY <1>1, <3>1, <3>3
  <2>3. Skipped(A) = Skipped(W)
    <3>1. A # <<>> /\ W # <<>> /\ A[1] = W[1]
      <4>1. Len(<<>>) = 0
        OBVIOUS
      <4> QED
        BY <1>1, <2>2, <4>1
    <3> QED
      BY <3>1, Zenon DEF Skipped
  <2>4. n + Skipped(W) \in 1 .. Len(A)
    BY <1>1, <2>1
  <2> QED
    BY <1>1, <2>1, <2>3, <2>4
<1> QED
  BY <1>2 DEF Executed, A

LEMMA FramingInit == Init => Framing
<1> SUFFICES ASSUME Init
             PROVE  Framing
  OBVIOUS
<1>1. /\ Self \in Conn /\ asked = <<>> /\ client = "off"
      /\ buf[Self] = <<>> /\ to_server[Self] = <<>> /\ dispatched[Self] = <<>>
  BY ClientAssumption DEF Init, StreamsInit, ConnectionInit, ClientInit
<1>2. Written = <<>>
  BY <1>1 DEF Written
<1>3. Executed(<<>>, <<>>)
  BY DEF Executed
<1>4. InStream(<<>> \o <<>>, <<>>, 0)
  <2>1. Laid(<<>>, <<>>, 0, [n \in 0 .. 0 |-> 0])
    BY DEF Laid
  <2>2. <<>> \o <<>> = <<>>
    OBVIOUS
  <2> QED
    BY <2>1, <2>2 DEF InStream
<1> QED
  BY <1>1, <1>2, <1>3, <1>4 DEF Framing

(* A line written to the server: by send, or QUIT.                          *)
LEMMA FramingWritten ==
  ASSUME WireTypes, StopInv, Framing, NEW command \in Seq(Unit), Writes(command \o CRLF),
         Written' = Append(Written, command),
         UNCHANGED <<buf, dispatched, server_end>>
  PROVE  /\ Executed(dispatched[Self], Written)'
         /\ server_end'[Self] = "open" =>
              InStream(buf[Self] \o to_server[Self], Written, Len(dispatched[Self]))'
<1>1. Self \in Conn /\ to_server \in [Conn -> Seq(Unit)] /\ buf \in [Conn -> Seq(Char)]
        /\ dispatched \in [Conn -> Seq(Seq(Char))] /\ Written \in Seq(Seq(Unit))
  BY ClientAssumption, WrittenLines DEF WireTypes, StreamTypes, ReadTypes
<1>2. PICK b \in Seq(Char), r \in Seq(Unit), D \in Seq(Seq(Char)), W \in Seq(Seq(Unit)) :
        b = buf[Self] /\ r = to_server[Self] /\ D = dispatched[Self] /\ W = Written
  BY <1>1
<1>3. Executed(D, W)
  BY <1>2 DEF Framing
<1>4. Executed(D, Append(W, command))
  BY <1>3, ExecutedOn
<1>5. ASSUME server_end'[Self] = "open"
      PROVE  InStream(buf'[Self] \o to_server'[Self], Append(W, command), Len(D))
  <2>1. server_end[Self] # "closed" /\ server_end[Self] = "open"
    BY <1>5
  <2>2. to_server'[Self] = r \o (command \o CRLF)
    BY <1>1, <1>2, <2>1 DEF Writes
  <2>3. InStream(b \o r, W, Len(D))
    BY <1>2, <2>1 DEF Framing
  <2>4. InStream(b \o (r \o (command \o CRLF)), Append(W, command), Len(D))
    BY <2>3, WrittenInStream
  <2> QED
    BY <1>2, <2>2, <2>4
<1> QED
  BY <1>2, <1>4, <1>5

LEMMA FramingRecv ==
  ASSUME WireTypes, Framing, Recv(Self), UNCHANGED clientVars
  PROVE  Framing'
<1>1. PICK n \in 1 .. Len(to_server[Self]) :
         /\ buf' = [buf EXCEPT ![Self] = Buffered(Self, Chunk(to_server[Self], n))]
         /\ to_server' = [to_server EXCEPT ![Self] = AfterChunk(@, n)]
  BY DEF Recv
<1>2. UNCHANGED <<asked, Written, dispatched, server_end>>
  BY DEF Recv, clientVars, Written
<1>3. Self \in Conn /\ to_server \in [Conn -> Seq(Unit)] /\ buf \in [Conn -> Seq(Char)]
        /\ Written \in Seq(Seq(Unit))
  BY ClientAssumption, WrittenLines DEF WireTypes, StreamTypes, ReadTypes
<1>4. PICK b \in Seq(Char), r \in Seq(Unit), W \in Seq(Seq(Unit)),
             d \in {Len(dispatched[Self])} :
        b = buf[Self] /\ r = to_server[Self] /\ W = Written
  BY <1>3
<1>5. n \in 1 .. Len(r)
  BY <1>1, <1>4
<1>6. /\ buf'[Self] = b \o Decoded(Chunk(r, n))
      /\ to_server'[Self] = AfterChunk(r, n)
  BY <1>1, <1>3, <1>4 DEF Buffered
<1>7. InStream(b \o r, W, d) =>
        InStream((b \o Decoded(Chunk(r, n))) \o AfterChunk(r, n), W, d)
  BY <1>5, ReceivedInStream
<1> QED
  BY <1>2, <1>4, <1>6, <1>7 DEF Framing

LEMMA FramingLine ==
  ASSUME WireTypes, StopInv, Framing, Line(Self), UNCHANGED clientVars
  PROVE  Framing'
<1> DEFINE line == SubSeq(buf[Self], 1, FirstEnd(buf[Self]) - 1)
           rest == SubSeq(buf[Self], FirstEnd(buf[Self]) + 2, Len(buf[Self]))
<1>1. /\ handler[Self] = "split" /\ buf' = [buf EXCEPT ![Self] = rest]
      /\ UNCHANGED <<to_server, client_end, server_end>>
      /\ IF line = <<>> THEN UNCHANGED dispatched
         ELSE dispatched' = [dispatched EXCEPT ![Self] = Append(@, line)]
  BY DEF Line
<1>2. UNCHANGED <<asked, Written>>
  BY DEF clientVars, Written
<1>3. Self \in Conn /\ to_server \in [Conn -> Seq(Unit)] /\ buf \in [Conn -> Seq(Char)]
        /\ dispatched \in [Conn -> Seq(Seq(Char))]
        /\ Written \in Seq(Seq(Unit))
        /\ (\A n \in 1 .. Len(Written) : OneLine(Written[n]))
        /\ (\A n \in 2 .. Len(Written) : Written[n] # <<>>)
  BY ClientAssumption, WrittenLines DEF WireTypes, StreamTypes, ReadTypes
<1>4. PICK b \in Seq(Char), r \in Seq(Unit), D \in Seq(Seq(Char)), W \in Seq(Seq(Unit)),
             l \in {line}, s \in {rest} :
        /\ b = buf[Self] /\ r = to_server[Self] /\ D = dispatched[Self] /\ W = Written
  BY <1>3
<1> HIDE DEF line, rest
<1>5. server_end[Self] = "open" /\ LineEnds(b) # {}
  <2>1. server_end[Self] # "closed" /\ server_end[Self] \in {"open", "closed"}
    BY <1>1, <1>3 DEF WireTypes, Places, StopInv, HandlerTypes
  <2> QED
    BY <1>1, <1>3, <1>4, <2>1 DEF WireTypes, Buffers
<1>6. InStream(b \o r, W, Len(D)) /\ Executed(D, W)
  BY <1>4, <1>5 DEF Framing
<1>7. l = SubSeq(b, 1, FirstEnd(b) - 1) /\ s = SubSeq(b, FirstEnd(b) + 2, Len(b))
  BY <1>4 DEF line, rest
<1>8. (\A n \in 1 .. Len(W) : OneLine(W[n])) /\ (\A n \in 2 .. Len(W) : W[n] # <<>>)
  BY <1>3, <1>4
<1>9. /\ l = <<>> => InStream(s \o r, W, Len(D))
      /\ l # <<>> => InStream(s \o r, W, Len(D) + 1) /\ Executed(Append(D, l), W)
  BY <1>5, <1>6, <1>7, <1>8, LineInStream
<1>10. buf'[Self] = s /\ to_server'[Self] = r
  BY <1>1, <1>3, <1>4
<1>11. l \in Seq(Char)
  BY <1>5, <1>7, Split
<1>12. CASE l = <<>>
  <2>1. dispatched'[Self] = D
    BY <1>1, <1>4, <1>12
  <2> QED
    BY <1>2, <1>4, <1>6, <1>9, <1>10, <1>12, <2>1 DEF Framing
<1>13. CASE l # <<>>
  <2>1. dispatched'[Self] = Append(D, l)
    BY <1>1, <1>3, <1>4, <1>13
  <2>2. Len(Append(D, l)) = Len(D) + 1
    BY <1>11
  <2> QED
    BY <1>2, <1>4, <1>9, <1>10, <1>13, <2>1, <2>2 DEF Framing
<1> QED
  BY <1>12, <1>13

LEMMA FramingServed ==
  ASSUME WireTypes, StopInv, Framing, Served
  PROVE  Framing'
<1>0. Self \in Conn /\ handler \in [Conn -> HandlerSteps] /\ UNCHANGED clientVars
        /\ server_end \in [Conn -> {"open", "closed"}]
  BY ClientAssumption DEF StopInv, HandlerTypes, Served
<1>1. UNCHANGED <<asked, Written>>
  BY <1>0 DEF clientVars, Written
<1>2. CASE UNCHANGED <<buf[Self], to_server[Self], dispatched[Self], server_end[Self]>>
  BY <1>1, <1>2 DEF Framing
<1>3. CASE UNCHANGED dispatched[Self] /\ server_end'[Self] = "closed"
  BY <1>1, <1>3 DEF Framing
<1>4. ASSUME NEW k \in Conn, HandlerStep(k)
      PROVE  Framing'
  <2>1. buf \in [Conn -> Seq(Char)] /\ to_server \in [Conn -> Seq(Unit)]
          /\ dispatched \in [Conn -> Seq(Seq(Char))]
    BY DEF WireTypes, StreamTypes, ReadTypes
  <2>2. CASE k # Self
    <3>1. UNCHANGED <<buf[Self], to_server[Self], dispatched[Self], server_end[Self]>>
      BY <1>0, <1>4, <2>1, <2>2
         DEF HandlerStep, Welcome, Loop, Recv, RecvEnds, Line, Leave, Closes, streamVars
    <3> QED
      BY <1>2, <3>1
  <2>3. CASE k = Self
    <3>1. CASE Welcome(k) \/ Loop(k) \/ RecvEnds(k)
      <4>1. UNCHANGED <<buf[Self], to_server[Self], dispatched[Self], server_end[Self]>>
        BY <3>1 DEF Welcome, Loop, RecvEnds, streamVars
      <4> QED
        BY <1>2, <4>1
    <3>2. CASE Leave(k)
      <4>1. \/ UNCHANGED dispatched[Self] /\ server_end'[Self] = "closed"
            \/ UNCHANGED <<buf[Self], to_server[Self], dispatched[Self], server_end[Self]>>
        BY <1>0, <2>3, <3>2 DEF Leave, Closes
      <4> QED
        BY <1>2, <1>3, <4>1
    <3> QED
      BY <1>0, <1>4, <2>3, <3>1, <3>2, FramingRecv, FramingLine DEF HandlerStep
  <2> QED
    BY <2>2, <2>3
<1>5. CASE MainStep \/ Stop
  <2>1. CASE Exit
    BY <1>0, <1>3, <2>1 DEF Exit
  <2>2. CASE ~Exit
    <3>1. CASE ListThread \/ Join \/ CloseLog
      <4>1. UNCHANGED <<buf, to_server, dispatched, server_end>>
        BY <3>1 DEF ListThread, Join, CloseLog, streamVars, handlerVars
      <4> QED
        BY <1>2, <4>1
    <3>2. CASE Stop \/ \E k \in Conn : Accept(k)
      <4>1. LetsGo /\ UNCHANGED <<buf, dispatched>>
        BY <3>2 DEF Stop, Accept, handlerVars
      <4>2. \/ UNCHANGED <<server_end[Self], to_server[Self]>>
            \/ server_end'[Self] = "closed"
        BY <1>0, <4>1, LettingGo
      <4> QED
        BY <1>2, <1>3, <4>1, <4>2
    <3> QED
      BY <1>5, <2>2, <3>1, <3>2 DEF MainStep
  <2> QED
    BY <2>1, <2>2
<1> QED
  BY <1>4, <1>5 DEF Served

LEMMA FramingClient ==
  ASSUME WireTypes, StopInv, Framing, ClientStep \/ ReceiveStep, UNCHANGED serverVars
  PROVE  Framing'
<1>0. asked \in Seq(Typed) /\ UNCHANGED <<buf, dispatched>> /\ UNCHANGED server_end
  BY DEF WireTypes, ClientTypes, serverVars, handlerVars, ClientStep, ReceiveStep, Connect, Disconnect,
         Send, Receive, ReceiveEnd, streamVars
<1>1. CASE Connect \/ ReceiveStep
  <2>1. UNCHANGED <<to_server, asked, Written>>
    BY <1>1 DEF Connect, ReceiveStep, Receive, ReceiveEnd, ReturnData, streamVars, Written
  <2> QED
    BY <1>0, <2>1 DEF Framing
<1>2. ASSUME NEW command \in Typed, Send(command)
      PROVE  Framing'
  <2>1. /\ client = "ready" /\ client' = "waiting" /\ asked' = Append(asked, command)
        /\ <<>> \in Range(asked') => asked = <<>>
        /\ Writes(command \o CRLF)
    BY <1>2 DEF Send
  <2>2. Written' = Append(Written, command)
    BY <2>1 DEF Written
  <2>3. ASSUME NEW i \in 1 .. Len(asked'), asked'[i] = <<>>
        PROVE  Len(asked') = 1
    <3>1. asked' \in Seq(Typed)
      BY <1>0, <2>1
    <3>2. <<>> \in Range(asked')
      BY <2>3, <3>1 DEF Range
    <3> QED
      BY <2>1, <3>2
  <2>4. command \in Seq(Unit)
    BY CommandUnits
  <2> QED
    BY <1>0, <2>1, <2>2, <2>3, <2>4, FramingWritten DEF Framing
<1>3. CASE Disconnect
  <2>1. /\ client # "closed" /\ client' = "closed" /\ UNCHANGED asked
        /\ Writes(<<"q">> \o CRLF)
    BY <1>3 DEF Disconnect
  <2>2. Written' = Append(Written, <<"q">>)
    BY <2>1 DEF Written
  <2>3. <<"q">> \in Seq(Unit)
    BY CommandUnits
  <2>4. \A i \in 1 .. Len(asked') : asked'[i] = <<>> => Len(asked') = 1
    BY <2>1 DEF Framing
  <2> QED
    BY <1>0, <2>1, <2>2, <2>3, <2>4, FramingWritten DEF Framing
<1> QED
  BY <1>1, <1>2, <1>3 DEF ClientStep

LEMMA FramingStep == WireTypes /\ StopInv /\ Framing /\ [Next]_vars => Framing'
<1> SUFFICES ASSUME WireTypes, StopInv, Framing, [Next]_vars
             PROVE  Framing'
  OBVIOUS
<1>1. CASE Served
  BY <1>1, FramingServed
<1>2. CASE (ClientStep \/ ReceiveStep) /\ UNCHANGED serverVars
  BY <1>2, FramingClient
<1>3. ASSUME \/ \E k \in Conn \ {Self} : OtherConnects(k)
             \/ UNCHANGED vars
      PROVE  Framing'
  <2>1. UNCHANGED <<asked, client, buf, dispatched, to_server, server_end>>
    BY <1>3 DEF OtherConnects, vars, serverVars, handlerVars, clientVars, streamVars
  <2> QED
    BY <2>1 DEF Framing, Written
<1> QED
  BY <1>1, <1>2, <1>3 DEF Next

LEMMA FramingHolds == WireTypes /\ Framing => FramingKept
<1> SUFFICES ASSUME WireTypes, Framing
             PROVE  FramingKept
  OBVIOUS
<1>0. Self \in Conn /\ asked \in Seq(Typed) /\ Len(asked) \in Nat
  BY ClientAssumption DEF WireTypes, ClientTypes
<1>1. handler[Self] = "recv" => LineEnds(buf[Self]) = {}
  BY <1>0 DEF WireTypes, Buffers
<1>2. Written = asked \o (IF client = "closed" THEN << <<"q">> >> ELSE <<>>)
  BY <1>0 DEF Written
<1>3. Len(Sent) + Skipped(Written) = Len(Written) /\ Len(Sent) \in Nat
        /\ \A n \in 1 .. Len(Sent) : Sent[n] = Written[n + Skipped(Written)]
  <2>1. CASE asked = << <<>> >>
    <3>1. CASE client = "closed"
      <4>1. /\ <<>> \in Seq(Unit) /\ <<"q">> \in Seq(Unit)
            /\ << <<>> >> \in Seq(Seq(Unit)) /\ Len(<< <<>> >>) = 1 /\ << <<>> >>[1] = <<>>
        BY CommandUnits
      <4>2. Written = Append(<< <<>> >>, <<"q">>)
        BY <2>1, <3>1 DEF Written
      <4>3. Written \in Seq(Seq(Unit)) /\ Len(Written) = 2
              /\ Written[1] = <<>> /\ Written[2] = <<"q">>
        <5>1. ASSUME NEW s \in Seq(Seq(Unit)), Len(s) = 1, NEW x \in Seq(Unit)
              PROVE  /\ Append(s, x) \in Seq(Seq(Unit)) /\ Len(Append(s, x)) = 2
                     /\ Append(s, x)[1] = s[1] /\ Append(s, x)[2] = x
          <6>1. /\ Append(s, x) \in Seq(Seq(Unit)) /\ Len(Append(s, x)) = Len(s) + 1
                /\ \A i \in 1 .. Len(s) : Append(s, x)[i] = s[i]
                /\ Append(s, x)[Len(s) + 1] = x
            BY Appended
          <6>2. Len(s) + 1 = 2 /\ 1 \in 1 .. Len(s)
            BY <5>1
          <6> QED
            BY <6>1, <6>2
        <5>2. PICK s \in Seq(Seq(Unit)), x \in Seq(Unit) :
                s = << <<>> >> /\ Len(s) = 1 /\ s[1] = <<>> /\ x = <<"q">>
          BY <4>1
        <5>3. Written = Append(s, x)
          BY <4>2, <5>2
        <5> QED
          BY <5>1, <5>2, <5>3
      <4>4. Sent = << <<"q">> >>
        <5>1. ASSUME NEW x
              PROVE  <<>> \o <<x>> = <<x>>
          OBVIOUS
        <5> QED
          BY <2>1, <3>1, <5>1, Zenon DEF Sent
      <4>5. Skipped(Written) = 1
        <5>1. Written # <<>>
          BY <4>3
        <5> QED
          BY <4>3, <5>1, Zenon DEF Skipped
      <4> QED
        BY <4>3, <4>4, <4>5
    <3>2. CASE client # "closed"
      <4>1. Written = << <<>> >> /\ Sent = <<>>
        BY <2>1, <3>2 DEF Written, Sent
      <4> QED
        BY <4>1 DEF Skipped
    <3> QED
      BY <3>1, <3>2
  <2>2. CASE asked # << <<>> >>
    <3>1. Sent = Written
      BY <1>2, <2>2 DEF Sent
    <3>2. Skipped(Written) = 0
      <4>1. CASE asked = <<>>
        <5>1. Written = <<>> \/ Written[1] = <<"q">>
          BY <4>1 DEF Written
        <5> QED
          BY <5>1 DEF Skipped
      <4>2. CASE asked # <<>>
        <5>1. 1 \in 1 .. Len(asked) /\ Written[1] = asked[1]
          <6>1. asked \in Seq(Seq(Unit)) /\ <<"q">> \in Seq(Unit)
            BY <1>0, CommandUnits
          <6>2. 1 \in 1 .. Len(asked)
            BY <1>0, <4>2
          <6>3. Append(asked, <<"q">>)[1] = asked[1]
            BY <6>1, <6>2, Appended
          <6> QED
            BY <6>2, <6>3 DEF Written
        <5>2. asked[1] # <<>>
          <6>1. SUFFICES ASSUME asked[1] = <<>>
                         PROVE  FALSE
            OBVIOUS
          <6>2. Len(asked) = 1
            BY <5>1, <6>1 DEF Framing
          <6> QED
            BY <1>0, <2>2, <6>1, <6>2
        <5> QED
          BY <5>1, <5>2 DEF Skipped
      <4> QED
        BY <4>1, <4>2
    <3>3. Written \in Seq(Seq(Unit))
      BY WrittenLines
    <3>4. Len(Written) \in Nat /\ \A n \in 1 .. Len(Written) : n + 0 = n
      BY <3>3
    <3> QED
      BY <3>1, <3>2, <3>4
  <2> QED
    BY <2>1, <2>2
<1>4. ASSUME NEW n \in 1 .. Len(dispatched[Self])
      PROVE  n \in 1 .. Len(Sent) /\ Reads(dispatched[Self][n], Sent[n])
  <2>1. n + Skipped(Written) \in 1 .. Len(Written)
          /\ Reads(dispatched[Self][n], Written[n + Skipped(Written)])
    BY DEF Framing, Executed
  <2>2. n \in 1 .. Len(Sent)
    <3>1. Skipped(Written) \in {0, 1}
      BY SkippedNat
    <3> QED
      BY <1>3, <2>1, <3>1
  <2> QED
    BY <1>3, <2>1, <2>2
<1>5. Len(dispatched[Self]) <= Len(Sent)
  <2>1. Len(dispatched[Self]) \in Nat
    BY <1>0 DEF WireTypes, ReadTypes
  <2>2. Len(dispatched[Self]) = 0 \/ Len(dispatched[Self]) \in 1 .. Len(dispatched[Self])
    BY <2>1
  <2> QED
    BY <1>3, <1>4, <2>1, <2>2
<1> QED
  BY <1>1, <1>4, <1>5 DEF FramingKept

-----------------------------------------------------------------------------
(* What the client has not been given yet of what was sent to it.           *)
Unread == data \o to_client[Self]

OneLined == \A j \in 1 .. Len(asked) : LinesOfAnswer(asked[j]) = 1

Unheard ==
  /\ client = "off" => to_client[Self] = <<>>
  /\ handler[Self] \in {"none", "started"} =>
       /\ to_client[Self] = <<>> /\ dispatched[Self] = <<>>
       /\ client \in {"waiting", "ready"} => client = "waiting" /\ asked = <<>> /\ data = <<>>

(* The answer to the last command is on its way, or the command is.         *)
Answering ==
  OneLined =>
    /\ client = "ready" =>
         /\ Unread = <<>>
         /\ server_end[Self] = "open" => Len(dispatched[Self]) = Len(asked)
    /\ client = "waiting" =>
         \/ /\ Unread = <<>>
            /\ server_end[Self] = "open" /\ handler[Self] \notin {"none", "started"} =>
                 Len(dispatched[Self]) + 1 = Len(asked)
         \/ /\ Unread = Answer(Len(asked), 1)
            /\ server_end[Self] = "open" => Len(dispatched[Self]) = Len(asked)

Answers == Unheard /\ Answering /\ InStep

LEMMA TakeAnswer ==
  ASSUME NEW d \in Seq(Part), NEW c \in Seq(Part), NEW n \in 1 .. Len(c), NEW m \in Nat
  PROVE  /\ (d \o Chunk(c, n)) \o AfterChunk(c, n) = d \o c /\ d \o c # <<>>
         /\ d \o c = Answer(m, 1) /\ Complete(d \o Chunk(c, n)) =>
              d \o Chunk(c, n) = Answer(m, 1) /\ AfterChunk(c, n) = <<>>
<1> DEFINE all == d \o Chunk(c, n)
<1>1. PICK x \in Seq(Part) : x = Chunk(c, n)
  BY Chunks
<1>2. PICK y \in Seq(Part) : y = AfterChunk(c, n)
  BY Chunks
<1>3. /\ Len(x) = n /\ \A i \in 1 .. n : x[i] = c[i]
      /\ Len(y) = Len(c) - n /\ \A i \in 1 .. Len(c) - n : y[i] = c[i + n]
  BY <1>1, <1>2, Chunks
<1>4. Len(c) \in Nat /\ Len(d) \in Nat /\ n \in Nat /\ 1 <= n /\ n <= Len(c)
  OBVIOUS
<1>5. ASSUME NEW s \in Seq(Part), NEW t \in Seq(Part)
      PROVE  /\ s \o t \in Seq(Part) /\ Len(s \o t) = Len(s) + Len(t)
             /\ \A i \in 1 .. Len(s) : (s \o t)[i] = s[i]
             /\ \A i \in 1 .. Len(t) : (s \o t)[Len(s) + i] = t[i]
  OBVIOUS
<1>6. x \o y = c
  <2>1. x \o y \in Seq(Part) /\ Len(x \o y) = Len(c)
    <3>1. x \o y \in Seq(Part) /\ Len(x \o y) = Len(x) + Len(y)
      BY <1>5, Zenon
    <3> QED
      BY <1>3, <1>4, <3>1
  <2>2. ASSUME NEW i \in 1 .. Len(c)
        PROVE  (x \o y)[i] = c[i]
    <3>1. CASE i <= n
      <4>1. i \in 1 .. n
        BY <1>4, <3>1
      <4> QED
        BY <1>3, <1>5, <4>1
    <3>2. CASE ~(i <= n)
      <4>1. PICK j \in 1 .. Len(c) - n : i = n + j /\ i = j + n
        <5>1. i - n \in 1 .. Len(c) - n /\ i = n + (i - n) /\ i = (i - n) + n
          BY <1>4, <3>2
        <5> QED
          BY <5>1, Zenon
      <4>2. (x \o y)[n + j] = y[j]
        BY <1>3, <1>5
      <4> QED
        BY <1>3, <4>1, <4>2
    <3> QED
      BY <3>1, <3>2
  <2> QED
    BY <2>1, <2>2, SeqEqual
<1>7. all \in Seq(Part) /\ all = d \o x
  BY <1>1, <1>5
<1> HIDE DEF all
<1>8. all \o y = d \o c
  <2>1. (d \o x) \o y = d \o (x \o y)
    OBVIOUS
  <2> QED
    BY <1>6, <1>7, <2>1
<1>9. d \o c # <<>>
  <2>1. Len(d \o c) = Len(d) + Len(c)
    BY <1>5, Zenon
  <2>2. Len(d \o c) # 0 /\ Len(<<>>) = 0
    BY <1>4, <2>1
  <2> QED
    BY <2>2
<1>10. ASSUME d \o c = Answer(m, 1), Complete(all)
       PROVE  all = Answer(m, 1) /\ y = <<>>
  <2>1. PICK A \in Seq(Part) : A = Answer(m, 1)
    BY AnswerParts
  <2>2. Len(A) = 2 /\ A[1][3] = "text" /\ A[2][3] = "end"
    BY <2>1, AnswerParts
  <2>3. all \o y = A
    BY <1>8, <1>10, <2>1
  <2>4. Len(all) + Len(y) = 2 /\ \A i \in 1 .. Len(all) : A[i] = all[i]
    <3>1. Len(all \o y) = Len(all) + Len(y) /\ \A i \in 1 .. Len(all) : (all \o y)[i] = all[i]
      BY <1>5, <1>7, Zenon
    <3> QED
      BY <2>2, <2>3, <3>1, Zenon
  <2>5. Len(all) \in Nat /\ Len(y) \in Nat /\ DOMAIN all = 1 .. Len(all)
    BY <1>7
  <2>6. PICK i \in 1 .. Len(all) : all[i][3] = "end"
    BY <1>10, <2>5 DEF Complete
  <2>7. i # 1
    BY <2>2, <2>4, <2>6
  <2>8. Len(y) = 0
    BY <2>4, <2>5, <2>6, <2>7
  <2>9. y = <<>>
    BY <2>8
  <2>10. all \o <<>> = all
    BY <1>7
  <2> QED
    <3>1. all \o y = all
      BY <2>9, <2>10
    <3> QED
      BY <2>1, <2>3, <2>9, <3>1
<1> QED
  BY <1>2, <1>8, <1>9, <1>10 DEF all

LEMMA AnswersInit == Init => Answers
<1> SUFFICES ASSUME Init
             PROVE  Answers
  OBVIOUS
<1>1. Self \in Conn /\ client = "off" /\ returned = <<>>
      /\ to_client[Self] = <<>> /\ dispatched[Self] = <<>>
  BY ClientAssumption DEF Init, StreamsInit, ConnectionInit, ClientInit
<1> QED
  BY <1>1 DEF Answers, Unheard, Answering, InStep

(* What changes neither side of the client's connection.                    *)
LEMMA AnswersAside ==
  ASSUME Answers,
         UNCHANGED <<client, asked, data, returned, to_client[Self], dispatched[Self]>>,
         server_end'[Self] = server_end[Self] \/ server_end'[Self] = "closed",
         \/ handler'[Self] = handler[Self]
         \/ handler[Self] \in {"none", "started"} /\ handler'[Self] \in {"started", "ended"}
         \/ handler[Self] \notin {"none", "started"} /\ handler'[Self] \notin {"none", "started"},
         handler'[Self] = "ended" => server_end'[Self] = "closed" \/ client = "closed"
  PROVE  Answers'
<1>1. Unheard'
  BY DEF Answers, Unheard
<1>2. UNCHANGED Unread /\ UNCHANGED OneLined
  BY DEF Unread, OneLined
<1>3. Answering'
  BY <1>2, Zenon DEF Answers, Answering
<1>4. InStep'
  BY Zenon DEF Answers, InStep
<1> QED
  BY <1>1, <1>3, <1>4 DEF Answers

LEMMA SelfTypes ==
  ASSUME WireTypes, StopInv
  PROVE  /\ Self \in Conn /\ handler[Self] \in HandlerSteps
         /\ to_client \in [Conn -> Seq(Part)] /\ data \in Seq(Part)
         /\ dispatched \in [Conn -> Seq(Seq(Char))] /\ Len(dispatched[Self]) \in Nat
         /\ asked \in Seq(Typed) /\ Len(asked) \in Nat
         /\ returned \in Seq(Seq(Part)) /\ Len(returned) \in Nat
         /\ handler \in [Conn -> HandlerSteps] /\ server_end \in [Conn -> {"open", "closed"}]
<1>1. /\ Self \in Conn /\ to_client \in [Conn -> Seq(Part)] /\ data \in Seq(Part)
      /\ dispatched \in [Conn -> Seq(Seq(Char))] /\ asked \in Seq(Typed)
      /\ returned \in Seq(Seq(Part))
      /\ handler \in [Conn -> HandlerSteps] /\ server_end \in [Conn -> {"open", "closed"}]
  BY ClientAssumption
     DEF WireTypes, StreamTypes, ReadTypes, ClientTypes, StopInv, HandlerTypes
<1>2. dispatched[Self] \in Seq(Seq(Char))
  BY <1>1
<1> QED
  BY <1>1, <1>2

(* sendall does not fail as long as the client has not closed.              *)
LEMMA SendsAnswer ==
  ASSUME WireTypes, StopInv, NEW n \in Nat, NEW lines \in {1, 2}, NEW next,
         Sends(Self, Answer(n, lines), next), client \in {"waiting", "ready"}
  PROVE  handler'[Self] = next /\ to_client'[Self] = to_client[Self] \o Answer(n, lines)
<1>1. client_end[Self] # "closed"
  BY DEF WireTypes, ClientTypes
<1> QED
  BY <1>1, SelfTypes DEF Sends, Goes

LEMMA AnswersWelcome ==
  ASSUME WireTypes, StopInv, Answers, Welcome(Self), UNCHANGED clientVars
  PROVE  Answers'
<1>1. /\ handler[Self] = "started" /\ Sends(Self, Answer(0, 1), "loop")
      /\ UNCHANGED <<server_end, client_end, dispatched>>
      /\ UNCHANGED <<client, asked, data, returned>>
  BY DEF Welcome, clientVars
<1>2. InStep'
  BY <1>1, Zenon DEF Answers, InStep
<1>3. handler'[Self] \notin {"none", "started"}
  BY <1>1, SelfTypes DEF Sends, Goes
<1>4. client # "off"
  BY <1>1, SelfTypes DEF WireTypes, Places, ClientTypes
<1>5. Unheard'
  BY <1>1, <1>3, <1>4 DEF Unheard
<1>6. to_client[Self] = <<>> /\ dispatched[Self] = <<>>
        /\ (client \in {"waiting", "ready"} => client = "waiting" /\ asked = <<>> /\ data = <<>>)
  BY <1>1 DEF Answers, Unheard
<1>7. ASSUME client \in {"waiting", "ready"}
      PROVE  client = "waiting" /\ Unread' = Answer(Len(asked), 1) /\ Len(dispatched[Self]) = Len(asked)
  <2>1. to_client'[Self] = to_client[Self] \o Answer(0, 1)
    BY <1>1, <1>7, SendsAnswer
  <2>2. PICK A \in Seq(Part) : A = Answer(0, 1)
    BY AnswerParts
  <2>3. <<>> \o (<<>> \o A) = A /\ Len(<<>>) = 0
    BY ConcatEmptySeq
  <2> QED
    BY <1>1, <1>6, <1>7, <2>1, <2>2, <2>3 DEF Unread
<1>8. Answering'
  BY <1>1, <1>7 DEF Answering, OneLined
<1> QED
  BY <1>2, <1>5, <1>8 DEF Answers

LEMMA OneLineRead ==
  ASSUME NEW line \in Seq(Char), NEW command \in Seq(Unit), Reads(line, command),
         LinesOfAnswer(command) = 1
  PROVE  LinesOfAnswer(line) = 1
<1> SUFFICES ASSUME line = <<"d">>
             PROVE  FALSE
  BY DEF LinesOfAnswer
<1>1. Len(command) = 1 /\ Becomes(command[1], "d")
  <2>1. Len(line) = 1 /\ line[1] = "d"
    OBVIOUS
  <2>2. Len(command) = 1
    BY <2>1 DEF Reads
  <2>3. 1 \in 1 .. Len(command)
    BY <2>2
  <2> QED
    BY <2>1, <2>2, <2>3 DEF Reads
<1>2. command[1] = "d"
  BY <1>1 DEF Becomes
<1>3. command = <<"d">>
  BY <1>1, <1>2
<1> QED
  BY <1>3 DEF LinesOfAnswer

LEMMA AnswersLine ==
  ASSUME WireTypes, StopInv, Framing, WireTypes', StopInv', FramingKept', Answers, Line(Self),
         UNCHANGED clientVars
  PROVE  Answers'
<1> DEFINE line == SubSeq(buf[Self], 1, FirstEnd(buf[Self]) - 1)
<1>1. /\ handler[Self] = "split" /\ UNCHANGED <<client_end, server_end>>
      /\ UNCHANGED <<client, asked, data, returned>>
      /\ IF line = <<>>
           THEN Goes(Self, InBuffer(buf'[Self])) /\ UNCHANGED <<dispatched, to_client>>
           ELSE /\ dispatched' = [dispatched EXCEPT ![Self] = Append(@, line)]
                /\ Sends(Self, Answer(Len(dispatched'[Self]), LinesOfAnswer(line)), InBuffer(buf'[Self]))
  BY DEF Line, clientVars
<1> HIDE DEF line
<1>2. handler'[Self] \notin {"none", "started", "ended"}
  BY <1>1, SelfTypes DEF Sends, Goes, InBuffer
<1>3. CASE line = <<>>
  BY <1>1, <1>2, <1>3, AnswersAside
<1>4. CASE line # <<>>
  <2>1. InStep'
    BY <1>1, Zenon DEF Answers, InStep
  <2>2. client # "off"
    BY <1>1, SelfTypes DEF WireTypes, Places, ClientTypes
  <2>3. Unheard'
    BY <1>1, <1>2, <2>2 DEF Unheard
  <2>4. PICK D \in Seq(Seq(Char)) : D = dispatched[Self] /\ dispatched'[Self] = Append(D, line)
    BY <1>1, <1>4, SelfTypes
  <2>5. D' = D
    OBVIOUS
  <2>6. line \in Seq(Char)
    <3>1. LineEnds(buf[Self]) # {} /\ buf[Self] \in Seq(Char)
      BY <1>1, SelfTypes DEF WireTypes, Buffers, ReadTypes
    <3> QED
      BY <3>1, Split DEF line
  <2>7. PICK n \in Nat : n = Len(D) + 1 /\ n = Len(dispatched'[Self]) /\ dispatched'[Self][n] = line
    BY <2>4, <2>6
  <2>8. ASSUME client \in {"waiting", "ready"}, OneLined
        PROVE  client = "waiting" /\ Unread' = Answer(Len(asked), 1) /\ n = Len(asked)
    <3>1. FramingKept' /\ client' \in {"waiting", "ready"}
      BY <1>1, <2>8
    <3>2. n <= Len(Sent') /\ Reads(line, Sent'[n])
      <4>1. n \in 1 .. Len(dispatched'[Self])
        BY <2>7
      <4> QED
        BY <2>7, <3>1, <4>1 DEF FramingKept
    <3>3. Sent' = asked
      <4>1. Sent' = IF asked = << <<>> >> THEN <<>> ELSE asked
        <5>1. asked \o <<>> = asked /\ <<>> \o <<>> = <<>>
          BY SelfTypes, ConcatEmptySeq
        <5> QED
          BY <1>1, <3>1, <5>1 DEF Sent
      <4>2. Sent' # <<>>
        BY <2>7, <3>2, SelfTypes
      <4> QED
        BY <4>1, <4>2
    <3>4. server_end[Self] = "open"
      BY <1>1, SelfTypes DEF WireTypes, Places
    <3>5. n = Len(asked) /\ client = "waiting" /\ Unread = <<>>
      <4>1. n <= Len(asked) /\ Len(asked) \in Nat /\ Len(D) \in Nat
        BY <3>2, <3>3, SelfTypes
      <4>2. \/ client = "ready" /\ Len(D) = Len(asked)
            \/ client = "waiting" /\ Unread = <<>> /\ Len(D) + 1 = Len(asked)
            \/ Len(D) = Len(asked)
        BY <1>1, <2>4, <2>8, <3>4 DEF Answers, Answering
      <4> QED
        BY <2>7, <4>1, <4>2
    <3>6. LinesOfAnswer(line) = 1
      <4>1. n \in 1 .. Len(asked)
        BY <2>7, <3>5
      <4>2. asked[n] \in Seq(Unit) /\ LinesOfAnswer(asked[n]) = 1
        BY <2>8, <4>1, SelfTypes, CommandUnits DEF OneLined
      <4> QED
        BY <2>6, <3>2, <3>3, <4>2, OneLineRead
    <3>7. to_client'[Self] = to_client[Self] \o Answer(n, 1)
      BY <1>1, <1>4, <2>7, <2>8, <3>6, SendsAnswer
    <3>8. Unread' = Unread \o Answer(n, 1)
      <4>1. PICK A \in Seq(Part) : A = Answer(n, 1)
        BY AnswerParts
      <4>2. PICK d \in Seq(Part), c \in Seq(Part) : d = data /\ c = to_client[Self]
        BY SelfTypes
      <4>3. d \o (c \o A) = (d \o c) \o A
        OBVIOUS
      <4> QED
        BY <1>1, <3>7, <4>1, <4>2, <4>3 DEF Unread
    <3>9. <<>> \o Answer(n, 1) = Answer(n, 1)
      BY AnswerParts, ConcatEmptySeq
    <3> QED
      BY <3>5, <3>8, <3>9
  <2>9. Answering'
    BY <1>1, <2>7, <2>8 DEF Answering, OneLined
  <2> QED
    BY <2>1, <2>3, <2>9 DEF Answers
<1> QED
  BY <1>3, <1>4

LEMMA AnswersServed ==
  ASSUME WireTypes, StopInv, Framing, WireTypes', StopInv', FramingKept', Answers, Served
  PROVE  Answers'
<1>0. UNCHANGED <<client, asked, data, returned>> /\ UNCHANGED clientVars
        /\ (handler'[Self] = "ended" => server_end'[Self] = "closed" \/ client = "closed")
  <2>1. Self \in Conn
    BY SelfTypes
  <2>2. handler'[Self] = "ended" => server_end'[Self] = "closed" \/ client_end'[Self] = "closed"
    BY <2>1 DEF StopInv, RegisteredWhileServed
  <2>3. client_end'[Self] = "closed" => client' = "closed"
    BY DEF WireTypes, ClientTypes
  <2> QED
    BY <2>2, <2>3 DEF Served, clientVars
<1>1. ASSUME NEW k \in Conn, HandlerStep(k), k # Self
      PROVE  Answers'
  <2>1. UNCHANGED <<to_client[Self], dispatched[Self], handler[Self], server_end[Self]>>
    BY <1>1, SelfTypes
       DEF HandlerStep, Welcome, Loop, Recv, RecvEnds, Line, Leave, Closes, streamVars, Sends, Goes
  <2> QED
    BY <1>0, <2>1, AnswersAside
<1>2. CASE Loop(Self) \/ Recv(Self) \/ RecvEnds(Self)
  <2>1. UNCHANGED <<to_client, dispatched, server_end>>
          /\ handler[Self] \notin {"none", "started"} /\ handler'[Self] \notin {"none", "started"}
    BY <1>2, SelfTypes DEF Loop, Recv, RecvEnds, streamVars, Goes, InBuffer
  <2> QED
    BY <1>0, <2>1, AnswersAside
<1>3. CASE Leave(Self)
  <2>1. /\ UNCHANGED <<to_client, dispatched>>
        /\ UNCHANGED server_end \/ server_end'[Self] = "closed"
        /\ handler[Self] = "leave" /\ handler'[Self] = "ended"
    BY <1>3, SelfTypes DEF Leave, Closes, Goes
  <2> QED
    BY <1>0, <2>1, AnswersAside
<1>4. CASE MainStep \/ Stop
  <2>1. CASE Exit
    <3>1. UNCHANGED <<to_client, dispatched>> /\ server_end'[Self] = "closed"
            /\ handler'[Self] = "ended"
      BY <2>1, SelfTypes DEF Exit
    <3> QED
      BY <1>0, <3>1, AnswersAside
  <2>2. ASSUME NEW k \in Conn, Accept(k)
        PROVE  Answers'
    <3>1. /\ UNCHANGED <<to_client, dispatched>>
          /\ UNCHANGED server_end[Self] \/ server_end'[Self] = "closed"
          /\ handler'[Self] = handler[Self] \/ (handler[Self] = "none" /\ handler'[Self] = "started")
      <4>1. /\ UNCHANGED <<to_client, dispatched>>
            /\ UNCHANGED server_end[Self] \/ server_end'[Self] = "closed"
            /\ handler[k] = "none" /\ handler' = [handler EXCEPT ![k] = "started"]
        BY <2>2, LettingGo, SelfTypes DEF Accept, Goes
      <4>0. handler \in [Conn -> HandlerSteps] /\ Self \in Conn
        BY SelfTypes
      <4>2. CASE k = Self
        <5>1. handler[Self] = "none" /\ handler'[Self] = "started"
          BY <4>1, <4>2, SelfTypes
        <5> QED
          BY <4>1, <5>1
      <4>3. CASE k # Self
        <5>1. handler'[Self] = handler[Self]
          BY <4>0, <4>1, <4>3
        <5> QED
          BY <4>1, <5>1, Zenon
      <4> QED
        BY <4>2, <4>3
    <3> QED
      BY <1>0, <3>1, AnswersAside
  <2>3. CASE ListThread \/ Join \/ CloseLog \/ Stop
    <3>1. /\ UNCHANGED <<to_client, dispatched, handler>>
          /\ UNCHANGED server_end[Self] \/ server_end'[Self] = "closed"
      BY <2>3, LettingGo, SelfTypes
         DEF ListThread, Join, CloseLog, Stop, streamVars, handlerVars
    <3> QED
      BY <1>0, <3>1, AnswersAside
  <2> QED
    BY <1>4, <2>1, <2>2, <2>3 DEF MainStep
<1> QED
  BY <1>0, <1>1, <1>2, <1>3, <1>4, AnswersWelcome, AnswersLine DEF Served, HandlerStep

(* A new member of returned.                                                *)
LEMMA InStepReturned ==
  ASSUME WireTypes, StopInv, Answers, NEW units \in Seq(Part), client = "waiting",
         returned' = Append(returned, units), UNCHANGED <<asked, server_end>>,
         OneLined => IF Complete(units) THEN units = Answer(Len(asked), 1)
                     ELSE server_end[Self] = "closed"
  PROVE  InStep'
<1>1. Len(returned) = Len(asked) /\ Len(asked) \in Nat /\ returned \in Seq(Seq(Part))
  BY SelfTypes DEF WireTypes, ClientTypes
<1>2. /\ Len(returned') = Len(returned) + 1 /\ returned'[Len(returned) + 1] = units
      /\ \A n \in 1 .. Len(returned) : returned'[n] = returned[n]
  BY <1>1, Appended
<1>3. ASSUME NEW n \in 1 .. Len(returned'), \A j \in 1 .. n - 1 : LinesOfAnswer(asked[j]) = 1
      PROVE  IF Complete(returned'[n]) THEN returned'[n] = Answer(n - 1, 1)
             ELSE server_end[Self] = "closed"
  <2>1. CASE n \in 1 .. Len(returned)
    BY <1>2, <1>3, <2>1, Zenon DEF Answers, InStep
  <2>2. CASE n \notin 1 .. Len(returned)
    <3>1. n = Len(returned) + 1 /\ n - 1 = Len(asked)
      BY <1>1, <1>2, <2>2
    <3>2. OneLined
      BY <1>3, <3>1 DEF OneLined
    <3> QED
      BY <1>2, <3>1, <3>2
  <2> QED
    BY <2>1, <2>2
<1> QED
  BY <1>3 DEF InStep

LEMMA AnswersReceive ==
  ASSUME WireTypes, StopInv, Answers, Receive, UNCHANGED serverVars
  PROVE  Answers'
<1>1. PICK n \in 1 .. Len(to_client[Self]) :
        LET all == data \o Chunk(to_client[Self], n) IN
        /\ to_client' = [to_client EXCEPT ![Self] = AfterChunk(@, n)]
        /\ IF Complete(all)
             THEN ReturnData(all)
             ELSE data' = all /\ UNCHANGED <<client, returned>>
  BY DEF Receive
<1>2. PICK d \in Seq(Part), c \in Seq(Part), m \in Nat :
        d = data /\ c = to_client[Self] /\ m = Len(asked)
  BY SelfTypes
<1>3. PICK all \in Seq(Part) : all = d \o Chunk(c, n)
  <2>1. PICK x \in Seq(Part) : x = Chunk(c, n)
    BY <1>1, <1>2, Chunks
  <2>2. d \o x \in Seq(Part)
    OBVIOUS
  <2> QED
    BY <2>1, <2>2
<1>4. /\ client = "waiting" /\ UNCHANGED <<server_end, asked, handler, dispatched>>
      /\ to_client'[Self] = AfterChunk(c, n)
      /\ IF Complete(all)
           THEN returned' = Append(returned, all) /\ data' = <<>> /\ client' = "ready"
           ELSE data' = all /\ UNCHANGED <<client, returned>>
  BY <1>1, <1>2, <1>3, SelfTypes DEF Receive, ReturnData, serverVars, handlerVars
<1>5. /\ all \o AfterChunk(c, n) = d \o c /\ d \o c # <<>>
      /\ d \o c = Answer(m, 1) /\ Complete(all) => all = Answer(m, 1) /\ AfterChunk(c, n) = <<>>
  <2>1. n \in 1 .. Len(c)
    BY <1>1, <1>2
  <2> QED
    <3>1. ASSUME NEW i \in 1 .. Len(c)
          PROVE  /\ (d \o Chunk(c, i)) \o AfterChunk(c, i) = d \o c /\ d \o c # <<>>
                 /\ d \o c = Answer(m, 1) /\ Complete(d \o Chunk(c, i)) =>
                      d \o Chunk(c, i) = Answer(m, 1) /\ AfterChunk(c, i) = <<>>
      BY TakeAnswer, Zenon
    <3> QED
      BY <1>3, <2>1, <3>1, Zenon
<1>6. c # <<>> /\ handler[Self] \notin {"none", "started"}
  <2>1. c # <<>>
    BY <1>1, <1>2
  <2> QED
    BY <1>2, <2>1 DEF Answers, Unheard
<1>7. Unheard'
  BY <1>4, <1>6 DEF Unheard
<1>8. OneLined => /\ d \o c = Answer(m, 1)
                  /\ server_end[Self] = "open" => Len(dispatched[Self]) = m
  BY <1>2, <1>4, <1>5 DEF Answers, Answering, Unread
<1>9. UNCHANGED OneLined
  BY <1>4 DEF OneLined
<1>10. CASE Complete(all)
  <2>1. InStep'
    BY <1>2, <1>4, <1>5, <1>8, <1>10, InStepReturned
  <2>2. OneLined => Unread' = <<>>
    <3>1. <<>> \o <<>> = <<>>
      OBVIOUS
    <3> QED
      BY <1>4, <1>5, <1>8, <1>10, <3>1 DEF Unread
  <2>3. Answering'
    BY <1>2, <1>4, <1>8, <1>9, <1>10, <2>2 DEF Answering
  <2> QED
    BY <1>7, <2>1, <2>3 DEF Answers
<1>11. CASE ~Complete(all)
  <2>1. InStep'
    BY <1>4, <1>11, Zenon DEF Answers, InStep
  <2>2. Unread' = d \o c
    BY <1>4, <1>5, <1>11 DEF Unread
  <2>3. Answering'
    BY <1>2, <1>4, <1>8, <1>9, <1>11, <2>2 DEF Answering
  <2> QED
    BY <1>7, <2>1, <2>3 DEF Answers
<1> QED
  BY <1>10, <1>11

LEMMA AnswersReceiveEnd ==
  ASSUME WireTypes, StopInv, Answers, ReceiveEnd, UNCHANGED serverVars
  PROVE  Answers'
<1>1. /\ client = "waiting" /\ client' = "ready" /\ data' = <<>>
      /\ to_client[Self] = <<>> /\ server_end[Self] = "closed"
      /\ returned' = Append(returned, data)
      /\ UNCHANGED <<to_client, server_end, asked, handler, dispatched>>
  BY DEF ReceiveEnd, streamVars, serverVars, handlerVars
<1>2. handler[Self] = "ended"
  BY <1>1, SelfTypes DEF WireTypes, Places
<1>3. Unheard'
  BY <1>1, <1>2 DEF Unheard
<1>4. Unread = data /\ Unread' = <<>> /\ ~Complete(<<>>)
  <2>1. data \o <<>> = data /\ <<>> \o <<>> = <<>>
    BY SelfTypes, ConcatEmptySeq
  <2>2. ~Complete(<<>>)
    BY DEF Complete
  <2> QED
    BY <1>1, <2>1, <2>2 DEF Unread
<1>5. InStep'
  <2>1. OneLined => IF Complete(data) THEN data = Answer(Len(asked), 1)
                    ELSE server_end[Self] = "closed"
    BY <1>1, <1>4 DEF Answers, Answering
  <2> QED
    BY <1>1, <2>1, SelfTypes, InStepReturned
<1>6. Answering'
  BY <1>1, <1>4 DEF Answering
<1> QED
  BY <1>3, <1>5, <1>6 DEF Answers

LEMMA AnswersClient ==
  ASSUME WireTypes, StopInv, Answers, ClientStep, UNCHANGED serverVars
  PROVE  Answers'
<1>0. UNCHANGED <<to_client, server_end, data, returned, handler, dispatched>>
  BY DEF ClientStep, Connect, Disconnect, Send, serverVars, handlerVars
<1>1. UNCHANGED Unread
  BY <1>0 DEF Unread
<1>2. CASE Connect
  <2>1. client = "off" /\ client' = "waiting" /\ UNCHANGED asked
    BY <1>2 DEF Connect
  <2>2. asked = <<>> /\ data = <<>> /\ to_client[Self] = <<>> /\ handler[Self] \in {"none", "ended"}
    BY <2>1, SelfTypes DEF WireTypes, ClientTypes, Places, Answers, Unheard
  <2>3. Unheard'
    BY <1>0, <2>1, <2>2 DEF Answers, Unheard
  <2>4. InStep'
    BY <1>0, <2>1, Zenon DEF Answers, InStep
  <2>5. Unread = <<>>
    <3>1. <<>> \o <<>> = <<>>
      OBVIOUS
    <3> QED
      BY <2>2, <3>1 DEF Unread
  <2>6. handler[Self] = "ended" => server_end[Self] # "open"
    BY <2>1, SelfTypes DEF StopInv, Leavers, RegisteredWhileServed
  <2>7. Answering'
    BY <1>0, <1>1, <2>1, <2>2, <2>5, <2>6 DEF Answering
  <2> QED
    BY <2>3, <2>4, <2>7 DEF Answers
<1>3. ASSUME NEW command \in Typed, Send(command)
      PROVE  Answers'
  <2>1. client = "ready" /\ client' = "waiting" /\ asked' = Append(asked, command)
    BY <1>3 DEF Send
  <2>2. /\ Len(asked') = Len(asked) + 1
        /\ \A j \in 1 .. Len(asked) : j \in 1 .. Len(asked') /\ asked'[j] = asked[j]
    <3>1. asked \in Seq(Typed) /\ Len(asked) \in Nat
      BY SelfTypes
    <3> QED
      BY <2>1, <3>1
  <2>3. OneLined' => OneLined
    BY <2>2 DEF OneLined
  <2>4. Unheard'
    BY <1>0, <2>1 DEF Answers, Unheard
  <2>5. InStep'
    <3>1. Len(returned) = Len(asked) + 1 /\ Len(asked) \in Nat
      BY <2>1, SelfTypes DEF WireTypes, ClientTypes
    <3>2. ASSUME NEW n \in 1 .. Len(returned), \A j \in 1 .. n - 1 : LinesOfAnswer(asked'[j]) = 1
          PROVE  IF Complete(returned[n]) THEN returned[n] = Answer(n - 1, 1)
                 ELSE server_end[Self] = "closed"
      <4>1. \A j \in 1 .. n - 1 : j \in 1 .. Len(asked)
        BY <3>1
      <4>2. \A j \in 1 .. n - 1 : LinesOfAnswer(asked[j]) = 1
        BY <2>2, <3>2, <4>1
      <4> QED
        BY <4>2, Zenon DEF Answers, InStep
    <3> QED
      BY <1>0, <3>2, Zenon DEF InStep
  <2>6. Answering'
    BY <1>0, <1>1, <2>1, <2>2, <2>3 DEF Answers, Answering
  <2> QED
    BY <2>4, <2>5, <2>6 DEF Answers
<1>4. CASE Disconnect
  <2>1. client \in {"waiting", "ready"} /\ client' = "closed" /\ UNCHANGED asked
    BY <1>4 DEF Disconnect
  <2>2. Unheard'
    BY <1>0, <2>1 DEF Answers, Unheard
  <2>3. InStep'
    BY <1>0, <2>1, Zenon DEF Answers, InStep
  <2> QED
    BY <2>1, <2>2, <2>3 DEF Answers, Answering
<1> QED
  BY <1>2, <1>3, <1>4 DEF ClientStep

LEMMA AnswersStep ==
  WireTypes /\ StopInv /\ Framing /\ WireTypes' /\ StopInv' /\ FramingKept'
    /\ Answers /\ [Next]_vars => Answers'
<1> SUFFICES ASSUME WireTypes, StopInv, Framing, WireTypes', StopInv', FramingKept',
                    Answers, [Next]_vars
             PROVE  Answers'
  OBVIOUS
<1>1. CASE Served
  BY <1>1, AnswersServed
<1>2. CASE (ClientStep \/ ReceiveStep) /\ UNCHANGED serverVars
  BY <1>2, AnswersClient, AnswersReceive, AnswersReceiveEnd DEF ReceiveStep
<1>3. ASSUME \/ \E k \in Conn \ {Self} : OtherConnects(k)
             \/ UNCHANGED vars
      PROVE  Answers'
  <2>1. UNCHANGED <<client, asked, data, returned, to_client, dispatched, server_end, handler>>
    BY <1>3 DEF OtherConnects, vars, serverVars, handlerVars, clientVars, streamVars
  <2>2. handler'[Self] = "ended" => server_end'[Self] = "closed" \/ client = "closed"
    BY <2>1, SelfTypes DEF StopInv, RegisteredWhileServed, WireTypes, ClientTypes
  <2> QED
    BY <2>1, <2>2, AnswersAside
<1> QED
  BY <1>1, <1>2, <1>3 DEF Next

LEMMA WireInvariant == Spec => [](WireTypes /\ StopInv /\ Framing /\ Answers)
<1> QED
  BY WireInit, StopInit, FramingInit, AnswersInit,
     WireTyped, StopStep, FramingStep, FramingHolds, AnswersStep, PTL DEF Spec

(* Whatever arrives in whatever pieces, and whoever stops first: what the   *)
(* handlers and the client hold stays of its kind, no half of a character   *)
(* is taken for a character, and the client is never given more answers     *)
(* than it has asked for (_handle_client, send).                            *)
THEOREM WireTypesStay == Spec => []TypeOK
BY WireInvariant, TypesHold, PTL

(* However the stream is cut, the lines executed are those that were sent,  *)
(* in order, and a handler that waits has no complete line left             *)
(* (_handle_client).                                                        *)
THEOREM FramingStays == Spec => []FramingKept
BY WireInvariant, FramingHolds, PTL

(* As long as every answer was of one line, send returns the answer to its  *)
(* own command, whole, for any number of commands (send, _recv).            *)
THEOREM AnswersStayInStep == Spec => []InStep
<1>1. Answers => InStep
  BY DEF Answers
<1> QED
  BY <1>1, WireInvariant, PTL
=============================================================================
