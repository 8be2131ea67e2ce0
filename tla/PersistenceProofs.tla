-------------------------- MODULE PersistenceProofs --------------------------
(* Proofs about Persistence, for any number of threads, messages and        *)
(* segments, and records of any length.                                     *)
EXTENDS Persistence, SequenceTheorems, FiniteSetTheorems, WellFoundedInduction, TLAPS

LogType == [Segment -> Seq(Record)]

LEMMA RecordFields ==
  ASSUME NEW r \in Record
  PROVE  /\ r.msg \in Msg /\ r.at \in Nat /\ r.bytes \in Nat
         /\ r.bytes <= Length[r.msg] /\ Length[r.msg] \in Nat /\ r.bytes <= MaxLength
BY PersistenceAssumption DEF Record

(* What holds of a log L, an index f, the answers A and the lost X.  Each   *)
(* message is recorded at most once, and only when it was answered, so that *)
(* nobody appends it again; an index entry is the message's only place.     *)
(* Records lie one behind the other.                                        *)
Laid(L) ==
  \A s \in Segment : \A i, j \in DOMAIN L[s] :
    /\ i < j => L[s][i].at + L[s][i].bytes <= L[s][j].at
    /\ j = i + 1 => L[s][j].at = L[s][i].at + L[s][i].bytes

Once(L) ==
  \A s, u \in Segment : \A i \in DOMAIN L[s], j \in DOMAIN L[u] :
    L[s][i].msg = L[u][j].msg => s = u /\ i = j

EachAnswered(L, A) ==
  \A s \in Segment : \A i \in DOMAIN L[s] : A[L[s][i].msg] # "none"

Kept(L, A, X) ==
  \A m \in Msg \ X : A[m] = "ok" =>
    \E s \in Segment : \E i \in DOMAIN L[s] : L[s][i].msg = m /\ Whole(L[s][i])

Right(f, L, A, X) ==
  \A m \in DOMAIN f :
    /\ A[m] # "none"
    /\ \A s \in Segment : \A i \in DOMAIN L[s] :
         L[s][i].msg = m => f[m] = <<s, L[s][i].at>>
    /\ m \notin X =>
         \E s \in Segment : \E i \in DOMAIN L[s] :
           f[m] = <<s, L[s][i].at>> /\ L[s][i].msg = m

IndexType(f, n) ==
  /\ DOMAIN f \subseteq Msg
  /\ f = [m \in DOMAIN f |-> f[m]]
  /\ \A m \in DOMAIN f : f[m] \in Place /\ f[m][1] <= n

Answers == [Msg -> {"none", "ok", "internal"}]

(* Answers are final.                                                       *)
Later(A, B) == \A m \in Msg : A[m] # "none" => B[m] = A[m]

-----------------------------------------------------------------------------
(* A record is added at the end of a segment.                               *)
Added(L, K, s, r) == K = [L EXCEPT ![s] = Append(@, r)]

LEMMA AddedLog ==
  ASSUME NEW L \in LogType, NEW s \in Segment, NEW r \in Record, NEW K, Added(L, K, s, r)
  PROVE  /\ K \in LogType
         /\ \A u \in Segment : u # s => K[u] = L[u]
         /\ Len(L[s]) \in Nat /\ Len(K[s]) = Len(L[s]) + 1
         /\ Len(L[s]) + 1 \in DOMAIN K[s] /\ K[s][Len(L[s]) + 1] = r
         /\ \A u \in Segment : \A i \in DOMAIN L[u] : i \in DOMAIN K[u] /\ K[u][i] = L[u][i]
         /\ \A u \in Segment : \A i \in DOMAIN K[u] :
              i \in DOMAIN L[u] \/ (u = s /\ i = Len(L[s]) + 1)
<1>1. L[s] \in Seq(Record) /\ K[s] = Append(L[s], r)
  BY DEF LogType, Added
<1>2. \A u \in Segment : u # s => K[u] = L[u]
  BY DEF LogType, Added
<1>3. /\ K[s] \in Seq(Record) /\ Len(L[s]) \in Nat /\ Len(K[s]) = Len(L[s]) + 1
      /\ DOMAIN K[s] = 1 .. Len(L[s]) + 1 /\ DOMAIN L[s] = 1 .. Len(L[s])
      /\ \A i \in 1 .. Len(L[s]) : K[s][i] = L[s][i]
      /\ K[s][Len(L[s]) + 1] = r
  BY <1>1
<1>4. K \in LogType
  BY <1>3 DEF LogType, Added
<1> QED
  BY <1>2, <1>3, <1>4

LEMMA SizeType ==
  ASSUME NEW file \in Seq(Record)
  PROVE  /\ Size(file) \in Nat
         /\ Len(file) > 0 => Size(file) = file[Len(file)].at + file[Len(file)].bytes
         /\ Len(file) = 0 => Size(file) = 0
<1>1. CASE file = <<>>
  BY <1>1 DEF Size
<1>2. CASE file # <<>>
  <2>1. Len(file) \in Nat /\ Len(file) > 0 /\ file[Len(file)] \in Record
    BY <1>2
  <2> QED
    BY <1>2, <2>1, RecordFields DEF Size
<1> QED
  BY <1>1, <1>2

(* A record that begins where its file ended.                               *)
LEMMA AddedLaid ==
  ASSUME NEW L \in LogType, NEW s \in Segment, NEW r \in Record, NEW K, Added(L, K, s, r),
         Laid(L), r.at = Size(L[s])
  PROVE  Laid(K) /\ Size(K[s]) = Size(L[s]) + r.bytes
<1>1. /\ K[s] \in Seq(Record) /\ L[s] \in Seq(Record) /\ Len(L[s]) \in Nat
      /\ Len(K[s]) = Len(L[s]) + 1
      /\ K[s][Len(L[s]) + 1] = r
      /\ \A u \in Segment : u # s => K[u] = L[u]
      /\ \A i \in DOMAIN L[s] : i \in DOMAIN K[s] /\ K[s][i] = L[s][i]
      /\ \A i \in DOMAIN K[s] : i \in DOMAIN L[s] \/ i = Len(L[s]) + 1
  BY AddedLog DEF LogType
<1>2. Size(K[s]) = Size(L[s]) + r.bytes
  BY <1>1, SizeType
<1>3. ASSUME NEW i \in DOMAIN L[s]
      PROVE  /\ i \in Nat /\ i <= Len(L[s]) /\ L[s][i].at \in Nat /\ L[s][i].bytes \in Nat
             /\ L[s][i].at + L[s][i].bytes <= r.at
             /\ i = Len(L[s]) => r.at = L[s][i].at + L[s][i].bytes
  <2>1. i \in Nat /\ i >= 1 /\ i <= Len(L[s]) /\ L[s][i] \in Record /\ Len(L[s]) \in DOMAIN L[s]
        /\ L[s][Len(L[s])] \in Record
    BY <1>1
  <2>2. /\ L[s][i].at \in Nat /\ L[s][i].bytes \in Nat
        /\ L[s][Len(L[s])].at \in Nat /\ L[s][Len(L[s])].bytes \in Nat
    BY <2>1, RecordFields
  <2>3. r.at = L[s][Len(L[s])].at + L[s][Len(L[s])].bytes
    BY <1>1, <2>1, SizeType
  <2>4. CASE i = Len(L[s])
    BY <2>1, <2>2, <2>3, <2>4
  <2>5. CASE i # Len(L[s])
    <3>1. i < Len(L[s])
      BY <1>1, <2>1, <2>5
    <3>2. L[s][i].at + L[s][i].bytes <= L[s][Len(L[s])].at
      BY <2>1, <3>1 DEF Laid
    <3> QED
      BY <2>1, <2>2, <2>3, <2>5, <3>2
  <2> QED
    BY <2>4, <2>5
<1>4. ASSUME NEW u \in Segment, NEW i \in DOMAIN K[u], NEW j \in DOMAIN K[u]
      PROVE  /\ i < j => K[u][i].at + K[u][i].bytes <= K[u][j].at
             /\ j = i + 1 => K[u][j].at = K[u][i].at + K[u][i].bytes
  <2>1. CASE u # s
    BY <1>1, <2>1 DEF Laid
  <2>2. CASE u = s /\ i \in DOMAIN L[s] /\ j \in DOMAIN L[s]
    BY <1>1, <2>2 DEF Laid
  <2>3. CASE u = s /\ i \in DOMAIN L[s] /\ j \notin DOMAIN L[s]
    <3>1. j = Len(L[s]) + 1 /\ K[u][j] = r /\ K[u][i] = L[s][i]
      BY <1>1, <2>3
    <3> QED
      BY <1>1, <1>3, <2>3, <3>1
  <2>4. CASE u = s /\ i \notin DOMAIN L[s]
    <3>1. i = Len(L[s]) + 1 /\ j \in Nat /\ j <= Len(L[s]) + 1
      BY <1>1, <2>4
    <3> QED
      BY <1>1, <3>1
  <2> QED
    BY <2>1, <2>2, <2>3, <2>4
<1> QED
  BY <1>2, <1>4 DEF Laid

LEMMA AddedOnce ==
  ASSUME NEW L \in LogType, NEW s \in Segment, NEW r \in Record, NEW K, Added(L, K, s, r),
         NEW A \in Answers, Once(L), EachAnswered(L, A), A[r.msg] = "none"
  PROVE  Once(K)
<1> SUFFICES ASSUME NEW u \in Segment, NEW v \in Segment,
                    NEW i \in DOMAIN K[u], NEW j \in DOMAIN K[v], K[u][i].msg = K[v][j].msg
             PROVE  u = v /\ i = j
  BY DEF Once
<1>1. ASSUME NEW w \in Segment, NEW k \in DOMAIN L[w]
      PROVE  K[w][k] = L[w][k] /\ K[w][k].msg # r.msg
  BY AddedLog DEF EachAnswered
<1>2. CASE i \in DOMAIN L[u] /\ j \in DOMAIN L[v]
  BY <1>1, <1>2 DEF Once
<1>3. CASE i \in DOMAIN L[u] /\ j \notin DOMAIN L[v]
  BY <1>1, <1>3, AddedLog
<1>4. CASE i \notin DOMAIN L[u] /\ j \in DOMAIN L[v]
  BY <1>1, <1>4, AddedLog
<1>5. CASE i \notin DOMAIN L[u] /\ j \notin DOMAIN L[v]
  BY <1>5, AddedLog
<1> QED
  BY <1>2, <1>3, <1>4, <1>5

LEMMA AddedAnswered ==
  ASSUME NEW L \in LogType, NEW s \in Segment, NEW r \in Record, NEW K, Added(L, K, s, r),
         NEW A \in Answers, NEW B \in Answers, Later(A, B), EachAnswered(L, A),
         B[r.msg] # "none"
  PROVE  EachAnswered(K, B)
<1> SUFFICES ASSUME NEW u \in Segment, NEW i \in DOMAIN K[u]
             PROVE  B[K[u][i].msg] # "none"
  BY DEF EachAnswered
<1>1. CASE i \in DOMAIN L[u]
  <2>1. L[u][i] \in Record
    BY <1>1 DEF LogType
  <2> QED
    BY <1>1, <2>1, AddedLog, RecordFields DEF EachAnswered, Later
<1>2. CASE i \notin DOMAIN L[u]
  BY <1>2, AddedLog
<1> QED
  BY <1>1, <1>2

LEMMA AddedKept ==
  ASSUME NEW L \in LogType, NEW s \in Segment, NEW r \in Record, NEW K, Added(L, K, s, r),
         NEW A \in Answers, NEW B \in Answers, NEW X, Kept(L, A, X),
         \A m \in Msg : B[m] = "ok" =>
           A[m] = "ok" \/ (m = r.msg /\ Whole(r))
  PROVE  Kept(K, B, X)
<1> SUFFICES ASSUME NEW m \in Msg \ X, B[m] = "ok"
             PROVE  \E u \in Segment : \E i \in DOMAIN K[u] :
                      K[u][i].msg = m /\ Whole(K[u][i])
  BY DEF Kept
<1>1. CASE A[m] = "ok"
  <2>1. PICK u \in Segment : \E i \in DOMAIN L[u] : L[u][i].msg = m /\ Whole(L[u][i])
    BY <1>1 DEF Kept
  <2> QED
    BY <2>1, AddedLog
<1>2. CASE m = r.msg /\ Whole(r)
  BY <1>2, AddedLog
<1> QED
  BY <1>1, <1>2

(* An index that does not name the new message.                             *)
LEMMA AddedRight ==
  ASSUME NEW L \in LogType, NEW s \in Segment, NEW r \in Record, NEW K, Added(L, K, s, r),
         NEW A \in Answers, NEW B \in Answers, Later(A, B), NEW X, A[r.msg] = "none",
         NEW f, DOMAIN f \subseteq Msg, Right(f, L, A, X)
  PROVE  Right(f, K, B, X)
<1> SUFFICES ASSUME NEW m \in DOMAIN f
             PROVE  /\ B[m] # "none"
                    /\ \A u \in Segment : \A i \in DOMAIN K[u] :
                         K[u][i].msg = m => f[m] = <<u, K[u][i].at>>
                    /\ m \notin X =>
                         \E u \in Segment : \E i \in DOMAIN K[u] :
                           f[m] = <<u, K[u][i].at>> /\ K[u][i].msg = m
  BY DEF Right
<1>1. A[m] # "none" /\ m # r.msg
  BY DEF Right
<1>2. B[m] # "none"
  BY <1>1 DEF Later
<1>3. ASSUME NEW u \in Segment, NEW i \in DOMAIN K[u], K[u][i].msg = m
      PROVE  f[m] = <<u, K[u][i].at>>
  <2>1. i \in DOMAIN L[u] /\ K[u][i] = L[u][i]
    BY <1>1, <1>3, AddedLog
  <2> QED
    BY <1>3, <2>1 DEF Right
<1>4. ASSUME m \notin X
      PROVE  \E u \in Segment : \E i \in DOMAIN K[u] :
               f[m] = <<u, K[u][i].at>> /\ K[u][i].msg = m
  <2>1. PICK u \in Segment : \E i \in DOMAIN L[u] : f[m] = <<u, L[u][i].at>> /\ L[u][i].msg = m
    BY <1>4 DEF Right
  <2>2. PICK i \in DOMAIN L[u] : f[m] = <<u, L[u][i].at>> /\ L[u][i].msg = m
    BY <2>1
  <2>3. i \in DOMAIN K[u] /\ K[u][i] = L[u][i]
    BY AddedLog
  <2> QED
    BY <2>2, <2>3
<1> QED
  BY <1>2, <1>3, <1>4

(* The new record is the only one of its message.                           *)
LEMMA AddedPlace ==
  ASSUME NEW L \in LogType, NEW s \in Segment, NEW r \in Record, NEW K, Added(L, K, s, r),
         NEW A \in Answers, EachAnswered(L, A), A[r.msg] = "none",
         NEW u \in Segment, NEW i \in DOMAIN K[u], K[u][i].msg = r.msg
  PROVE  u = s /\ i = Len(L[s]) + 1
<1>1. i \notin DOMAIN L[u]
  BY AddedLog DEF EachAnswered
<1> QED
  BY <1>1, AddedLog

(* An index with a new entry.                                               *)
LEMMA EnteredRight ==
  ASSUME NEW K, NEW B, NEW X, NEW f, NEW g, NEW m, NEW s \in Segment, NEW k \in DOMAIN K[s],
         Right(f, K, B, X), B[m] # "none", K[s][k].msg = m,
         \A u \in Segment : \A i \in DOMAIN K[u] : K[u][i].msg = m => u = s /\ i = k,
         DOMAIN g = DOMAIN f \cup {m}, g[m] = <<s, K[s][k].at>>,
         \A n \in DOMAIN f : n # m => g[n] = f[n]
  PROVE  Right(g, K, B, X)
BY DEF Right

-----------------------------------------------------------------------------
(* A segment loses its records from n + 1 on; the first of them may remain  *)
(* in part.                                                                 *)
CutAt(L, K, s, n) ==
  \/ K = [L EXCEPT ![s] = SubSeq(@, 1, n)]
  \/ \E k \in 1 .. L[s][n + 1].bytes - 1 :
       K = [L EXCEPT ![s] = Append(SubSeq(@, 1, n), [@[n + 1] EXCEPT !.bytes = k])]

LEMMA CutLog ==
  ASSUME NEW L \in LogType, NEW s \in Segment, NEW n \in 0 .. Len(L[s]) - 1, NEW K,
         CutAt(L, K, s, n)
  PROVE  /\ K \in LogType
         /\ \A u \in Segment : u # s => K[u] = L[u]
         /\ Len(K[s]) \in Nat /\ Len(K[s]) <= Len(L[s]) /\ n <= Len(K[s])
         /\ \A i \in 1 .. n : i \in DOMAIN K[s] /\ K[s][i] = L[s][i]
         /\ \A i \in DOMAIN K[s] :
              /\ i \in DOMAIN L[s] /\ K[s][i].msg = L[s][i].msg /\ K[s][i].at = L[s][i].at
              /\ K[s][i].bytes <= L[s][i].bytes
              /\ Whole(K[s][i]) => K[s][i] = L[s][i]
         /\ Len(K[s]) = n \/ Len(K[s]) = n + 1
<1>1. L[s] \in Seq(Record) /\ Len(L[s]) \in Nat /\ n \in Nat /\ n + 1 \in 1 .. Len(L[s])
  BY DEF LogType
<1>2. \A u \in Segment : u # s => K[u] = L[u]
  BY DEF LogType, CutAt
<1> DEFINE H == SubSeq(L[s], 1, n)
           r(k) == [L[s][n + 1] EXCEPT !.bytes = k]
<1>3. H \in Seq(Record) /\ Len(H) = n /\ DOMAIN H = 1 .. n
  BY <1>1
<1>4. \A i \in 1 .. n : H[i] = L[s][i]
  BY <1>1
<1>5. L[s][n + 1] \in Record
  BY <1>1
<1>6. ASSUME NEW k \in 1 .. L[s][n + 1].bytes - 1
      PROVE  /\ r(k) \in Record /\ r(k).msg = L[s][n + 1].msg /\ r(k).at = L[s][n + 1].at
             /\ r(k).bytes < L[s][n + 1].bytes /\ ~Whole(r(k))
  <2>1. /\ L[s][n + 1].bytes \in Nat /\ Length[L[s][n + 1].msg] \in Nat
        /\ L[s][n + 1].bytes <= Length[L[s][n + 1].msg]
    BY <1>5, RecordFields
  <2>2. k \in 1 .. Length[L[s][n + 1].msg] /\ k < L[s][n + 1].bytes
        /\ k # Length[L[s][n + 1].msg]
    BY <2>1
  <2>3. /\ r(k) \in [msg : Msg, at : Nat, bytes : Nat] /\ r(k).msg = L[s][n + 1].msg
        /\ r(k).at = L[s][n + 1].at /\ r(k).bytes = k
    BY <1>5 DEF Record
  <2> QED
    BY <2>2, <2>3 DEF Record, Whole
<1>7. K[s] = H \/ \E k \in 1 .. L[s][n + 1].bytes - 1 : K[s] = Append(H, r(k))
  BY DEF LogType, CutAt
<1>8. K = [L EXCEPT ![s] = K[s]]
  BY DEF LogType, CutAt
<1> HIDE DEF H, r
<1>9. CASE K[s] = H
  <2>1. K \in LogType
    BY <1>3, <1>8, <1>9 DEF LogType
  <2>2. \A i \in 1 .. n : L[s][i] \in Record /\ L[s][i].bytes \in Nat
    BY <1>1, RecordFields
  <2> QED
    BY <1>1, <1>2, <1>3, <1>4, <1>9, <2>1, <2>2
<1>10. ASSUME NEW k \in 1 .. L[s][n + 1].bytes - 1, K[s] = Append(H, r(k))
       PROVE  /\ K \in LogType
              /\ Len(K[s]) \in Nat /\ Len(K[s]) = n + 1 /\ Len(K[s]) <= Len(L[s])
              /\ \A i \in 1 .. n : i \in DOMAIN K[s] /\ K[s][i] = L[s][i]
              /\ \A i \in DOMAIN K[s] :
                   /\ i \in DOMAIN L[s] /\ K[s][i].msg = L[s][i].msg /\ K[s][i].at = L[s][i].at
                   /\ K[s][i].bytes <= L[s][i].bytes
                   /\ Whole(K[s][i]) => K[s][i] = L[s][i]
  <2>1. /\ K[s] \in Seq(Record) /\ Len(K[s]) = n + 1 /\ DOMAIN K[s] = 1 .. n + 1
        /\ \A i \in 1 .. n : K[s][i] = L[s][i]
        /\ K[s][n + 1] = r(k)
    BY <1>1, <1>3, <1>4, <1>6, <1>10
  <2>2. K \in LogType
    BY <1>8, <2>1 DEF LogType
  <2>3. \A i \in 1 .. n : L[s][i] \in Record /\ L[s][i].bytes \in Nat
    BY <1>1, RecordFields
  <2>4. L[s][n + 1].bytes \in Nat /\ r(k).bytes \in Nat
    BY <1>5, <1>6, RecordFields
  <2> QED
    <3>1. ASSUME NEW i \in DOMAIN K[s]
          PROVE  /\ i \in DOMAIN L[s] /\ K[s][i].msg = L[s][i].msg /\ K[s][i].at = L[s][i].at
                 /\ K[s][i].bytes <= L[s][i].bytes
                 /\ Whole(K[s][i]) => K[s][i] = L[s][i]
      <4>1. CASE i \in 1 .. n
        BY <1>1, <2>1, <2>3, <4>1
      <4>2. CASE i = n + 1
        BY <1>1, <1>6, <2>1, <2>4, <4>2
      <4> QED
        BY <1>1, <2>1, <4>1, <4>2
    <3> QED
      BY <1>1, <2>1, <2>2, <3>1
<1> HIDE DEF H, r
<1> QED
  <2>1. ASSUME NEW k \in 1 .. L[s][n + 1].bytes - 1, K[s] = Append(H, r(k))
        PROVE  /\ K \in LogType
               /\ Len(K[s]) \in Nat /\ Len(K[s]) <= Len(L[s]) /\ n <= Len(K[s])
               /\ Len(K[s]) = n \/ Len(K[s]) = n + 1
               /\ \A i \in 1 .. n : i \in DOMAIN K[s] /\ K[s][i] = L[s][i]
               /\ \A i \in DOMAIN K[s] :
                    /\ i \in DOMAIN L[s] /\ K[s][i].msg = L[s][i].msg /\ K[s][i].at = L[s][i].at
                    /\ K[s][i].bytes <= L[s][i].bytes
                    /\ Whole(K[s][i]) => K[s][i] = L[s][i]
    BY <1>1, <1>10, <2>1
  <2>2. CASE \E k \in 1 .. L[s][n + 1].bytes - 1 : K[s] = Append(H, r(k))
    BY <1>2, <2>1, <2>2
  <2> QED
    BY <1>7, <1>9, <2>2

(* All that remains was there.                                              *)
LEMMA CutKeeps ==
  ASSUME NEW L \in LogType, NEW s \in Segment, NEW n \in 0 .. Len(L[s]) - 1, NEW K,
         CutAt(L, K, s, n), NEW u \in Segment, NEW i \in DOMAIN K[u]
  PROVE  /\ i \in DOMAIN L[u] /\ K[u][i].msg = L[u][i].msg /\ L[u][i].msg \in Msg
         /\ K[u][i].at = L[u][i].at
         /\ Whole(K[u][i]) => K[u][i] = L[u][i]
<1>1. /\ i \in DOMAIN L[u] /\ K[u][i].msg = L[u][i].msg /\ K[u][i].at = L[u][i].at
      /\ Whole(K[u][i]) => K[u][i] = L[u][i]
  BY CutLog
<1>2. L[u][i] \in Record
  BY <1>1 DEF LogType
<1> QED
  BY <1>1, <1>2, RecordFields

LEMMA CutLaid ==
  ASSUME NEW L \in LogType, NEW s \in Segment, NEW n \in 0 .. Len(L[s]) - 1, NEW K,
         CutAt(L, K, s, n), Laid(L)
  PROVE  Laid(K) /\ Size(K[s]) <= Size(L[s])
<1>1. /\ K[s] \in Seq(Record) /\ L[s] \in Seq(Record) /\ Len(L[s]) \in Nat
      /\ Len(K[s]) \in Nat /\ Len(K[s]) <= Len(L[s]) /\ n \in Nat
      /\ Len(K[s]) = n \/ Len(K[s]) = n + 1
      /\ \A u \in Segment : u # s => K[u] = L[u]
      /\ \A i \in 1 .. n : K[s][i] = L[s][i]
      /\ \A i \in DOMAIN K[s] :
           i \in DOMAIN L[s] /\ K[s][i].at = L[s][i].at /\ K[s][i].bytes <= L[s][i].bytes
  <2>1. /\ K \in LogType /\ Len(K[s]) \in Nat /\ Len(K[s]) <= Len(L[s])
        /\ Len(K[s]) = n \/ Len(K[s]) = n + 1
        /\ \A u \in Segment : u # s => K[u] = L[u]
        /\ \A i \in 1 .. n : K[s][i] = L[s][i]
        /\ \A i \in DOMAIN K[s] :
             i \in DOMAIN L[s] /\ K[s][i].at = L[s][i].at /\ K[s][i].bytes <= L[s][i].bytes
    BY CutLog
  <2>2. K[s] \in Seq(Record) /\ L[s] \in Seq(Record) /\ Len(L[s]) \in Nat /\ n \in Nat
    BY <2>1 DEF LogType
  <2> QED
    BY <2>1, <2>2
<1>2. \A i \in DOMAIN L[s] : L[s][i].at \in Nat /\ L[s][i].bytes \in Nat
  BY <1>1, RecordFields
<1>3. \A i \in DOMAIN K[s] : K[s][i].at \in Nat /\ K[s][i].bytes \in Nat
  BY <1>1, RecordFields
<1>4. Size(K[s]) <= Size(L[s])
  <2>1. CASE Len(K[s]) = 0
    BY <1>1, <2>1, SizeType
  <2>2. CASE Len(K[s]) > 0
    <3>0. PICK k, l : k = Len(K[s]) /\ l = Len(L[s])
      OBVIOUS
    <3>1. k \in DOMAIN K[s] /\ k \in DOMAIN L[s] /\ l \in DOMAIN L[s] /\ k <= l
      BY <1>1, <2>2, <3>0
    <3>2. Size(K[s]) = K[s][k].at + K[s][k].bytes /\ Size(L[s]) = L[s][l].at + L[s][l].bytes
      BY <1>1, <2>2, <3>0, SizeType
    <3>3. K[s][k].at + K[s][k].bytes <= L[s][k].at + L[s][k].bytes
      BY <1>1, <1>2, <1>3, <3>1
    <3>4. L[s][k].at + L[s][k].bytes <= L[s][l].at + L[s][l].bytes
      <4>1. CASE k = l
        BY <1>2, <3>1, <4>1
      <4>2. CASE k < l
        <5>1. L[s][k].at + L[s][k].bytes <= L[s][l].at
          BY <3>1, <4>2 DEF Laid
        <5> QED
          BY <1>2, <3>1, <5>1
      <4> QED
        BY <1>1, <3>0, <3>1, <4>1, <4>2
    <3>5. /\ K[s][k].at \in Nat /\ K[s][k].bytes \in Nat /\ L[s][k].at \in Nat
          /\ L[s][k].bytes \in Nat /\ L[s][l].at \in Nat /\ L[s][l].bytes \in Nat
      BY <1>2, <1>3, <3>1
    <3>6. PICK x, y, z : x = K[s][k] /\ y = L[s][k] /\ z = L[s][l]
      OBVIOUS
    <3>7. /\ x.at \in Nat /\ x.bytes \in Nat /\ y.at \in Nat
          /\ y.bytes \in Nat /\ z.at \in Nat /\ z.bytes \in Nat
      BY <3>5, <3>6
    <3>8. x.at + x.bytes <= y.at + y.bytes /\ y.at + y.bytes <= z.at + z.bytes
      BY <3>3, <3>4, <3>6
    <3>9. x.at + x.bytes <= z.at + z.bytes
      BY <3>7, <3>8
    <3> QED
      BY <3>2, <3>6, <3>9
  <2> QED
    BY <1>1, <2>1, <2>2
<1>5. ASSUME NEW u \in Segment, NEW i \in DOMAIN K[u], NEW j \in DOMAIN K[u]
      PROVE  /\ i < j => K[u][i].at + K[u][i].bytes <= K[u][j].at
             /\ j = i + 1 => K[u][j].at = K[u][i].at + K[u][i].bytes
  <2>1. CASE u # s
    BY <1>1, <2>1 DEF Laid
  <2>2. CASE u = s
    <3>1. i \in Nat /\ j \in Nat /\ i >= 1 /\ j <= n + 1 /\ i \in DOMAIN L[s] /\ j \in DOMAIN L[s]
          /\ K[u][j].at = L[s][j].at
      BY <1>1, <2>2
    <3>2. i < j \/ j = i + 1 => K[u][i] = L[s][i]
      BY <1>1, <2>2, <3>1
    <3>3. /\ i < j => L[s][i].at + L[s][i].bytes <= L[s][j].at
          /\ j = i + 1 => L[s][j].at = L[s][i].at + L[s][i].bytes
      BY <3>1 DEF Laid
    <3> QED
      BY <3>1, <3>2, <3>3
  <2> QED
    BY <2>1, <2>2
<1> QED
  BY <1>4, <1>5 DEF Laid

CutOff(L, s, n) == {L[s][j].msg : j \in n + 1 .. Len(L[s])}

(* All that is not lost remains.                                            *)
LEMMA CutSpares ==
  ASSUME NEW L \in LogType, NEW s \in Segment, NEW n \in 0 .. Len(L[s]) - 1, NEW K,
         CutAt(L, K, s, n), NEW u \in Segment, NEW i \in DOMAIN L[u],
         L[u][i].msg \notin CutOff(L, s, n)
  PROVE  i \in DOMAIN K[u] /\ K[u][i] = L[u][i]
<1>1. CASE u # s
  BY <1>1, CutLog
<1>2. CASE u = s
  <2>1. L[s] \in Seq(Record) /\ i \in 1 .. Len(L[s]) /\ n \in Nat
    BY <1>2 DEF LogType
  <2>2. i \in 1 .. n
    BY <1>2, <2>1 DEF CutOff
  <2> QED
    BY <1>2, <2>2, CutLog
<1> QED
  BY <1>1, <1>2

LEMMA CutOnce ==
  ASSUME NEW L \in LogType, NEW s \in Segment, NEW n \in 0 .. Len(L[s]) - 1, NEW K,
         CutAt(L, K, s, n), Once(L)
  PROVE  Once(K)
BY CutKeeps DEF Once

LEMMA CutAnswered ==
  ASSUME NEW L \in LogType, NEW s \in Segment, NEW n \in 0 .. Len(L[s]) - 1, NEW K,
         CutAt(L, K, s, n), NEW A, EachAnswered(L, A)
  PROVE  EachAnswered(K, A)
<1> SUFFICES ASSUME NEW u \in Segment, NEW i \in DOMAIN K[u]
             PROVE  A[K[u][i].msg] # "none"
  BY DEF EachAnswered
<1>1. i \in DOMAIN L[u] /\ K[u][i].msg = L[u][i].msg
  BY CutKeeps
<1> QED
  BY <1>1 DEF EachAnswered

LEMMA CutKept ==
  ASSUME NEW L \in LogType, NEW s \in Segment, NEW n \in 0 .. Len(L[s]) - 1, NEW K,
         CutAt(L, K, s, n), NEW A, NEW X, Kept(L, A, X)
  PROVE  Kept(K, A, X \cup CutOff(L, s, n))
<1> SUFFICES ASSUME NEW m \in Msg \ X, m \notin CutOff(L, s, n), A[m] = "ok"
             PROVE  \E u \in Segment : \E i \in DOMAIN K[u] :
                      K[u][i].msg = m /\ Whole(K[u][i])
  BY DEF Kept
<1>1. PICK u \in Segment : \E i \in DOMAIN L[u] : L[u][i].msg = m /\ Whole(L[u][i])
  BY DEF Kept
<1>2. PICK i \in DOMAIN L[u] : L[u][i].msg = m /\ Whole(L[u][i])
  BY <1>1
<1>3. L[u][i].msg \notin CutOff(L, s, n)
  BY <1>2
<1> QED
  BY <1>2, <1>3, CutSpares

LEMMA CutRight ==
  ASSUME NEW L \in LogType, NEW s \in Segment, NEW n \in 0 .. Len(L[s]) - 1, NEW K,
         CutAt(L, K, s, n), NEW A, NEW X, NEW f, Right(f, L, A, X)
  PROVE  Right(f, K, A, X \cup CutOff(L, s, n))
<1> SUFFICES ASSUME NEW m \in DOMAIN f
             PROVE  /\ A[m] # "none"
                    /\ \A u \in Segment : \A i \in DOMAIN K[u] :
                         K[u][i].msg = m => f[m] = <<u, K[u][i].at>>
                    /\ m \notin X \cup CutOff(L, s, n) =>
                         \E u \in Segment : \E i \in DOMAIN K[u] :
                           f[m] = <<u, K[u][i].at>> /\ K[u][i].msg = m
  BY DEF Right
<1>1. A[m] # "none"
  BY DEF Right
<1>2. ASSUME NEW u \in Segment, NEW i \in DOMAIN K[u], K[u][i].msg = m
      PROVE  f[m] = <<u, K[u][i].at>>
  <2>1. i \in DOMAIN L[u] /\ K[u][i].msg = L[u][i].msg /\ K[u][i].at = L[u][i].at
    BY CutKeeps
  <2> QED
    BY <1>2, <2>1 DEF Right
<1>3. ASSUME m \notin X \cup CutOff(L, s, n)
      PROVE  \E u \in Segment : \E i \in DOMAIN K[u] :
               f[m] = <<u, K[u][i].at>> /\ K[u][i].msg = m
  <2>1. PICK u \in Segment : \E i \in DOMAIN L[u] : f[m] = <<u, L[u][i].at>> /\ L[u][i].msg = m
    BY <1>3 DEF Right
  <2>2. PICK i \in DOMAIN L[u] : f[m] = <<u, L[u][i].at>> /\ L[u][i].msg = m
    BY <2>1
  <2>3. i \in DOMAIN K[u] /\ K[u][i] = L[u][i]
    BY <1>3, <2>2, CutSpares
  <2> QED
    BY <2>2, <2>3
<1> QED
  BY <1>1, <1>2, <1>3

-----------------------------------------------------------------------------
(* The log stays.                                                           *)
LEMMA SameRecords ==
  ASSUME NEW L \in LogType, NEW A \in Answers, NEW B \in Answers, Later(A, B), NEW X,
         \A m \in Msg : B[m] = "ok" => A[m] = "ok",
         EachAnswered(L, A), Kept(L, A, X)
  PROVE  /\ EachAnswered(L, B) /\ Kept(L, B, X)
         /\ \A f : DOMAIN f \subseteq Msg /\ Right(f, L, A, X) => Right(f, L, B, X)
<1>1. ASSUME NEW s \in Segment, NEW i \in DOMAIN L[s]
      PROVE  L[s][i].msg \in Msg
  <2>1. L[s][i] \in Record
    BY DEF LogType
  <2> QED
    BY <2>1 DEF Record
<1>2. EachAnswered(L, B)
  BY <1>1 DEF EachAnswered, Later
<1>3. Kept(L, B, X)
  BY DEF Kept
<1>4. \A f : DOMAIN f \subseteq Msg /\ Right(f, L, A, X) => Right(f, L, B, X)
  BY DEF Right, Later
<1> QED
  BY <1>2, <1>3, <1>4

-----------------------------------------------------------------------------
(* The inductive invariant.                                                 *)
FilesOK ==
  /\ segments \in 0 .. MaxSegments
  /\ log \in LogType
  /\ synced \in [Segment -> Nat]
  /\ \A s \in Segment : synced[s] <= Len(log[s]) /\ (s > segments => log[s] = <<>>)
  /\ IndexType(index, segments) /\ IndexType(index_file, segments)

MemoryOK ==
  /\ server \in {"down", "up", "fsynced", "persisted", "closed"}
  /\ active \in 0 .. segments /\ active_size \in Nat
  /\ handles \subseteq Segment
  /\ registry \subseteq Msg /\ corrupt \subseteq registry
  /\ answer \in Answers /\ lost \subseteq Msg
  /\ server # "down" => active \in Segment /\ active_size >= Size(log[active])

(* A thread that writes has a message to itself that nobody was answered    *)
(* about.                                                                   *)
WritersOK ==
  /\ pc \in [Thread -> {"idle", "write"}]
  /\ cur_m \in [Thread -> Msg \cup {Nil}]
  /\ cur_s \in [Thread -> 0 .. MaxSegments]
  /\ \A t \in Thread : pc[t] = "idle" => cur_m[t] = Nil
  /\ \A t \in Thread : pc[t] = "write" =>
       /\ cur_m[t] \in Msg /\ answer[cur_m[t]] = "none"
       /\ cur_s[t] \in 1 .. segments /\ server # "down"
  /\ \A t, u \in Thread : pc[t] = "write" /\ cur_m[t] = cur_m[u] => t = u

RecordsOK ==
  /\ Laid(log) /\ Once(log) /\ EachAnswered(log, answer) /\ Kept(log, answer, lost)
  /\ Right(index, log, answer, lost) /\ Right(index_file, log, answer, lost)

(* SegmentBounded is not inductive: a thread that has chosen a segment      *)
(* counts as if it had written already, the longest record there is.        *)
Writers(s) == {t \in Thread : pc[t] = "write" /\ cur_s[t] = s}

Weight(S) == Cardinality(S) * MaxLength

RoomLeft(s) == Size(log[s]) + Weight(Writers(s)) <= MaxBytes - 1 + Weight(Thread)

PersistenceInv ==
  /\ FilesOK /\ MemoryOK /\ WritersOK /\ RecordsOK
  /\ \A s \in Segment : RoomLeft(s)

LEMMA Times ==
  ASSUME NEW a \in Nat, NEW b \in Nat, a <= b, NEW c \in Nat
  PROVE  a * c \in Nat /\ a * c <= b * c
OBVIOUS

LEMMA OneLess ==
  ASSUME NEW a \in Int, NEW c \in Nat
  PROVE  (a - 1) * c = (a * c) - c
OBVIOUS

LEMMA ThreadWeight ==
  ASSUME NEW S, S \subseteq Thread
  PROVE  /\ IsFiniteSet(S) /\ Cardinality(S) \in Nat
         /\ Weight(S) \in Nat /\ Weight(Thread) \in Nat /\ Weight(S) <= Weight(Thread)
<1>1. /\ IsFiniteSet(S) /\ Cardinality(S) \in Nat /\ Cardinality(Thread) \in Nat
      /\ Cardinality(S) <= Cardinality(Thread)
  BY PersistenceAssumption, FS_Subset, FS_CardinalityType
<1> QED
  BY <1>1, Times, PersistenceAssumption DEF Weight

LEMMA WritersFinite ==
  ASSUME NEW s
  PROVE  /\ IsFiniteSet(Writers(s)) /\ Cardinality(Writers(s)) \in Nat
         /\ Weight(Writers(s)) \in Nat /\ Weight(Thread) \in Nat
         /\ Weight(Writers(s)) <= Weight(Thread)
<1>1. Writers(s) \subseteq Thread
  BY DEF Writers
<1> QED
  BY <1>1, ThreadWeight

(* A thread that is going to write has room.                                *)
LEMMA OneWrites ==
  ASSUME NEW s, NEW t \in Writers(s)
  PROVE  /\ MaxLength \in Nat /\ Weight(Writers(s)) >= MaxLength
         /\ Weight(Writers(s) \ {t}) = Weight(Writers(s)) - MaxLength
<1>1. /\ Cardinality(Writers(s)) \in Nat /\ MaxLength \in Nat
      /\ Cardinality(Writers(s) \ {t}) = Cardinality(Writers(s)) - 1
  BY WritersFinite, FS_RemoveElement, PersistenceAssumption
<1>2. Weight(Writers(s) \ {t}) = Weight(Writers(s)) - MaxLength
  BY <1>1, OneLess DEF Weight
<1>3. Weight(Writers(s) \ {t}) \in Nat
  <2>1. Writers(s) \ {t} \subseteq Thread
    BY DEF Writers
  <2> QED
    BY <2>1, ThreadWeight
<1> QED
  BY <1>1, <1>2, <1>3, WritersFinite

LEMMA EmptyIndex == DOMAIN Empty = {} /\ \A n : IndexType(Empty, n)
                      /\ \A L, A, X : Right(Empty, L, A, X)
BY DEF Empty, IndexType, Right

LEMMA PersistenceInit == Init => PersistenceInv
<1> SUFFICES ASSUME Init
             PROVE  PersistenceInv
  OBVIOUS
<1>1. \A s \in Segment : /\ log[s] = <<>> /\ DOMAIN log[s] = {} /\ Len(log[s]) = 0
                         /\ Size(log[s]) = 0
  BY DEF Init, Size
<1>2. log \in LogType
  BY DEF Init, LogType
<1>3. FilesOK
  BY <1>1, <1>2, EmptyIndex, PersistenceAssumption DEF Init, FilesOK
<1>4. MemoryOK /\ WritersOK
  BY PersistenceAssumption DEF Init, MemoryOK, WritersOK, Answers
<1>5. RecordsOK
  BY <1>1, EmptyIndex DEF Init, RecordsOK, Laid, Once, EachAnswered, Kept
<1>6. ASSUME NEW s \in Segment
      PROVE  RoomLeft(s)
  <2>1. Writers(s) = {}
    BY DEF Init, Writers
  <2> QED
    <3>1. Weight(Writers(s)) = 0
      BY <2>1, FS_EmptySet, PersistenceAssumption DEF Weight
    <3> QED
      BY <1>1, <3>1, WritersFinite, PersistenceAssumption DEF RoomLeft
<1> QED
  BY <1>3, <1>4, <1>5, <1>6 DEF PersistenceInv

(* Steps that leave the log and what was lost alone.                        *)
LEMMA RecordsStay ==
  ASSUME PersistenceInv, UNCHANGED <<log, lost>>, answer' \in Answers, Later(answer, answer'),
         \A m \in Msg : answer'[m] = "ok" => answer[m] = "ok",
         index' \in {index, index_file, Empty}, index_file' \in {index, index_file, Empty}
  PROVE  RecordsOK'
<1>1. log \in LogType /\ answer \in Answers /\ DOMAIN index \subseteq Msg
      /\ DOMAIN index_file \subseteq Msg
  BY DEF PersistenceInv, FilesOK, MemoryOK, IndexType
<1>2. EachAnswered(log, answer') /\ Kept(log, answer', lost)
  BY <1>1, SameRecords DEF PersistenceInv, RecordsOK
<1>3. Right(index, log, answer', lost) /\ Right(index_file, log, answer', lost)
  BY <1>1, SameRecords DEF PersistenceInv, RecordsOK
<1> QED
  BY <1>2, <1>3, EmptyIndex DEF PersistenceInv, RecordsOK

(* Steps after which no thread writes.                                      *)
LEMMA NobodyWrites ==
  ASSUME PersistenceInv, NEW s \in Segment, \A t \in Thread : pc'[t] = "idle",
         Size(log'[s]) \in Nat,
         Size(log'[s]) <= Size(log[s]) + Weight(Writers(s))
  PROVE  RoomLeft(s)'
<1>1. Writers(s)' = {}
  BY DEF Writers
<1>2. Weight(Writers(s)') = 0
  BY <1>1, FS_EmptySet, PersistenceAssumption DEF Weight
<1>3. Size(log[s]) \in Nat
  BY SizeType DEF PersistenceInv, FilesOK, LogType
<1>4. Weight(Writers(s))' = 0
  BY <1>2 DEF Weight
<1>5. Weight(Thread)' = Weight(Thread)
  BY DEF Weight
<1> QED
  BY <1>3, <1>4, <1>5, WritersFinite, PersistenceAssumption DEF PersistenceInv, RoomLeft

-----------------------------------------------------------------------------
LEMMA AppendStartKeeps ==
  ASSUME PersistenceInv, NEW t \in Thread, NEW m \in Msg, AppendStart(t, m)
  PROVE  PersistenceInv'
<1> USE DEF PersistenceInv
<1>1. /\ server # "down" /\ pc[t] = "idle" /\ answer[m] = "none"
      /\ \A u \in Thread : cur_m[u] # m
      /\ UNCHANGED <<log, synced, index_file, server, index, handles, registry, corrupt, lost>>
  BY DEF AppendStart
<1>2. CASE /\ SegmentFull /\ segments = MaxSegments
           /\ answer' = [answer EXCEPT ![m] = "internal"]
           /\ UNCHANGED <<segments, active, active_size, threadVars>>
  <2>1. FilesOK'
    BY <1>1, <1>2 DEF FilesOK
  <2>2. MemoryOK'
    BY <1>1, <1>2 DEF MemoryOK, Answers
  <2>3. WritersOK'
    BY <1>1, <1>2 DEF WritersOK, MemoryOK, Answers, threadVars
  <2>4. Later(answer, answer') /\ \A n \in Msg : answer'[n] = "ok" => answer[n] = "ok"
    BY <1>1, <1>2 DEF Later, MemoryOK, Answers
  <2>5. RecordsOK'
    BY <1>1, <2>2, <2>4, RecordsStay DEF MemoryOK
  <2>6. \A s \in Segment : RoomLeft(s)'
    BY <1>1, <1>2 DEF RoomLeft, Writers, threadVars
  <2> QED
    BY <2>1, <2>2, <2>3, <2>5, <2>6
<1>3. CASE /\ IF SegmentFull THEN Roll ELSE UNCHANGED <<segments, active, active_size>>
           /\ pc' = [pc EXCEPT ![t] = "write"]
           /\ cur_m' = [cur_m EXCEPT ![t] = m]
           /\ cur_s' = [cur_s EXCEPT ![t] = active']
           /\ UNCHANGED answer
  <2>1. /\ segments \in Nat /\ segments' \in 0 .. MaxSegments /\ segments <= segments'
        /\ active' \in Segment /\ active' \in 1 .. segments' /\ active_size' \in Nat
        /\ log[active'] \in Seq(Record) /\ Size(log[active']) \in Nat
    <3>1. segments \in Nat /\ active \in Nat /\ active \in 1 .. segments
      BY <1>1, PersistenceAssumption DEF FilesOK, MemoryOK, Segment
    <3>2. /\ segments' \in 0 .. MaxSegments /\ segments <= segments'
          /\ active' \in 1 .. segments' /\ active_size' \in Nat
      <4>1. CASE SegmentFull
        BY <1>3, <3>1, <4>1, PersistenceAssumption DEF Roll, FilesOK
      <4>2. CASE ~SegmentFull
        BY <1>3, <3>1, <4>2 DEF FilesOK, MemoryOK
      <4> QED
        BY <4>1, <4>2
    <3>3. active' \in Segment
      BY <3>2, PersistenceAssumption DEF Segment
    <3>4. log[active'] \in Seq(Record)
      BY <3>3 DEF FilesOK, LogType
    <3> QED
      BY <3>1, <3>2, <3>3, <3>4, SizeType
  <2>2. active_size' >= Size(log[active']) /\ Size(log[active']) <= MaxBytes - 1
    <3>1. CASE SegmentFull
      <4>1. active' > segments /\ active_size' = 0
        BY <1>3, <3>1 DEF Roll, FilesOK
      <4>2. log[active'] = <<>>
        BY <2>1, <4>1 DEF FilesOK
      <4> QED
        BY <4>1, <4>2, PersistenceAssumption DEF Size
    <3>2. CASE ~SegmentFull
      BY <1>1, <1>3, <2>1, <3>2, PersistenceAssumption DEF SegmentFull, MemoryOK
    <3> QED
      BY <3>1, <3>2
  <2>3. FilesOK'
    BY <1>1, <2>1 DEF FilesOK, IndexType, Segment, Place
  <2>4. MemoryOK'
    BY <1>1, <1>3, <2>1, <2>2 DEF MemoryOK
  <2>5. WritersOK'
    <3>1. pc' \in [Thread -> {"idle", "write"}] /\ cur_m' \in [Thread -> Msg \cup {Nil}]
          /\ cur_s' \in [Thread -> 0 .. MaxSegments]
      BY <1>3, <2>1 DEF WritersOK, Segment
    <3>2. \A u \in Thread : u # t => UNCHANGED <<pc[u], cur_m[u], cur_s[u]>>
      BY <1>3 DEF WritersOK
    <3>3. pc'[t] = "write" /\ cur_m'[t] = m /\ cur_s'[t] = active'
      BY <1>3 DEF WritersOK
    <3>4. \A u \in Thread : pc'[u] = "write" =>
            /\ cur_m'[u] \in Msg /\ answer'[cur_m'[u]] = "none"
            /\ cur_s'[u] \in 1 .. segments' /\ server' # "down"
      BY <1>1, <1>3, <2>1, <3>2, <3>3 DEF WritersOK
    <3>5. \A u \in Thread : pc'[u] = "idle" => cur_m'[u] = Nil
      BY <3>2, <3>3 DEF WritersOK
    <3>6. \A u, v \in Thread : pc'[u] = "write" /\ cur_m'[u] = cur_m'[v] => u = v
      BY <1>1, <3>2, <3>3 DEF WritersOK
    <3> QED
      BY <3>1, <3>4, <3>5, <3>6 DEF WritersOK
  <2>6. RecordsOK'
    BY <1>1, <1>3 DEF RecordsOK
  <2>7. ASSUME NEW s \in Segment
        PROVE  RoomLeft(s)'
    <3>1. CASE s # active'
      <4>1. Writers(s)' = Writers(s)
        BY <1>1, <1>3, <3>1 DEF Writers, WritersOK
      <4> QED
        BY <1>1, <4>1 DEF RoomLeft, Weight
    <3>2. CASE s = active'
      <4>1. Size(log'[s]) = Size(log[s]) /\ Size(log[s]) <= MaxBytes - 1 /\ Size(log[s]) \in Nat
        BY <1>1, <2>1, <2>2, <3>2
      <4>2. /\ Weight(Writers(s)') <= Weight(Thread) /\ Weight(Writers(s)') \in Nat
            /\ Weight(Thread) \in Nat
        <5>1. Writers(s)' \subseteq Thread
          BY DEF Writers
        <5> QED
          BY <5>1, ThreadWeight
      <4>3. Weight(Writers(s))' = Weight(Writers(s)') /\ Weight(Thread)' = Weight(Thread)
        BY DEF Weight
      <4> QED
        BY <4>1, <4>2, <4>3, PersistenceAssumption DEF RoomLeft
    <3> QED
      BY <3>1, <3>2
  <2> QED
    BY <2>3, <2>4, <2>5, <2>6, <2>7
<1> QED
  BY <1>2, <1>3 DEF AppendStart

-----------------------------------------------------------------------------
(* A record, or the beginning of one, at the end of its file.               *)
LEMMA PartRecord ==
  ASSUME log \in LogType, NEW s \in Segment, NEW m \in Msg, NEW n \in 1 .. Length[m]
  PROVE  /\ Part(s, m, n) \in Record /\ Part(s, m, n).msg = m
         /\ Part(s, m, n).at = Size(log[s]) /\ Size(log[s]) \in Nat
         /\ Part(s, m, n).bytes = n /\ n \in Nat /\ n <= MaxLength /\ MaxLength \in Nat
         /\ Whole(Part(s, m, n)) <=> n = Length[m]
<1>1. Size(log[s]) \in Nat
  BY SizeType DEF LogType
<1>2. n \in Nat /\ n <= MaxLength /\ MaxLength \in Nat
  BY PersistenceAssumption
<1> QED
  BY <1>1, <1>2 DEF Part, Record, Whole

LEMMA LengthType ==
  ASSUME NEW m \in Msg
  PROVE  Length[m] \in 1 .. Length[m] /\ Length[m] \in Nat
BY PersistenceAssumption

(* Steps that add the record of a message nobody was answered about.        *)
LEMMA RecordsGrow ==
  ASSUME PersistenceInv, NEW s \in Segment, NEW r \in Record, Added(log, log', s, r),
         lost' = lost, answer' \in Answers, Later(answer, answer'),
         answer[r.msg] = "none", answer'[r.msg] # "none",
         \A m \in Msg : answer'[m] = "ok" =>
           answer[m] = "ok" \/ (m = r.msg /\ Whole(r)),
         index_file' = index_file,
         r.at = Size(log[s]),
         index' = Empty \/ index' = IndexWith(r.msg, <<s, Size(log[s])>>)
  PROVE  RecordsOK'
<1>1. /\ log \in LogType /\ answer \in Answers /\ r.msg \in Msg
      /\ DOMAIN index \subseteq Msg /\ DOMAIN index_file \subseteq Msg
  BY RecordFields DEF PersistenceInv, FilesOK, MemoryOK, IndexType
<1>2. /\ Once(log) /\ EachAnswered(log, answer) /\ Kept(log, answer, lost)
      /\ Right(index, log, answer, lost) /\ Right(index_file, log, answer, lost)
  BY DEF PersistenceInv, RecordsOK
<1>3. Once(log') /\ Laid(log')
  <2>1. Once(log')
    BY <1>1, <1>2, AddedOnce
  <2>2. Laid(log')
    BY <1>1, AddedLaid DEF PersistenceInv, RecordsOK
  <2> QED
    BY <2>1, <2>2
<1>4. EachAnswered(log', answer')
  BY <1>1, <1>2, AddedAnswered
<1>5. Kept(log', answer', lost')
  BY <1>1, <1>2, AddedKept
<1>6. Right(index_file', log', answer', lost')
  BY <1>1, <1>2, AddedRight
<1>7. Right(index', log', answer', lost')
  <2>1. CASE index' = Empty
    BY <2>1, EmptyIndex
  <2>2. CASE index' = IndexWith(r.msg, <<s, Size(log[s])>>)
    <3> DEFINE k == Len(log[s]) + 1
    <3>1. Right(index, log', answer', lost)
      BY <1>1, <1>2, AddedRight
    <3>2. k \in DOMAIN log'[s] /\ log'[s][k].msg = r.msg /\ log'[s][k].at = Size(log[s])
      BY <1>1, AddedLog
    <3>3. \A u \in Segment : \A i \in DOMAIN log'[u] :
            log'[u][i].msg = r.msg => u = s /\ i = k
      BY <1>1, <1>2, AddedPlace
    <3>4. /\ DOMAIN index' = DOMAIN index \cup {r.msg} /\ index'[r.msg] = <<s, log'[s][k].at>>
          /\ \A n \in DOMAIN index : n # r.msg => index'[n] = index[n]
      BY <2>2, <3>2 DEF IndexWith
    <3> HIDE DEF k
    <3>5. PICK K, B, g, m, f : K = log' /\ B = answer' /\ g = index' /\ m = r.msg /\ f = index
      OBVIOUS
    <3>6. /\ Right(f, K, B, lost) /\ B[m] # "none" /\ k \in DOMAIN K[s] /\ K[s][k].msg = m
          /\ \A u \in Segment : \A i \in DOMAIN K[u] : K[u][i].msg = m => u = s /\ i = k
          /\ DOMAIN g = DOMAIN f \cup {m} /\ g[m] = <<s, K[s][k].at>>
          /\ \A n \in DOMAIN f : n # m => g[n] = f[n]
      BY <3>1, <3>2, <3>3, <3>4, <3>5
    <3>7. Right(g, K, B, lost)
      BY <3>6, EnteredRight
    <3> QED
      BY <3>5, <3>7
  <2> QED
    BY <2>1, <2>2
<1> QED
  BY <1>3, <1>4, <1>5, <1>6, <1>7 DEF RecordsOK

LEMMA LeaveKeeps ==
  ASSUME PersistenceInv, NEW t \in Thread, pc[t] = "write", Leave(t),
         NEW w, w = cur_s[t], answer' \in Answers, UNCHANGED <<segments, server>>,
         \A m \in Msg : m # cur_m[t] => answer'[m] = answer[m]
  PROVE  /\ WritersOK'
         /\ \A s \in Segment : s # w => Writers(s)' = Writers(s)
         /\ w \in Segment
         /\ MaxLength \in Nat /\ Weight(Writers(w)') = Weight(Writers(w)) - MaxLength
<1> USE DEF PersistenceInv
<1>1. \A u \in Thread : u # t => UNCHANGED <<pc[u], cur_m[u], cur_s[u]>>
  BY DEF Leave, WritersOK
<1>2. pc'[t] = "idle" /\ cur_m'[t] = Nil
  BY DEF Leave, WritersOK
<1>3. /\ pc' \in [Thread -> {"idle", "write"}] /\ cur_m' \in [Thread -> Msg \cup {Nil}]
      /\ cur_s' \in [Thread -> 0 .. MaxSegments]
  BY PersistenceAssumption DEF Leave, WritersOK
<1>4. ASSUME NEW u \in Thread, pc'[u] = "write"
      PROVE  /\ cur_m'[u] \in Msg /\ answer'[cur_m'[u]] = "none"
             /\ cur_s'[u] \in 1 .. segments' /\ server' # "down"
  <2>1. u # t /\ pc[u] = "write" /\ cur_m'[u] = cur_m[u] /\ cur_s'[u] = cur_s[u]
    BY <1>1, <1>2, <1>4
  <2>2. cur_m[u] \in Msg /\ cur_m[u] # cur_m[t]
    BY <2>1 DEF WritersOK
  <2> QED
    BY <2>1, <2>2 DEF WritersOK
<1>5. WritersOK'
  BY <1>1, <1>2, <1>3, <1>4, PersistenceAssumption DEF WritersOK
<1>6. \A s \in Segment : s # w => Writers(s)' = Writers(s)
  BY <1>1, <1>2 DEF Writers
<1>7. w \in Segment
  <2>1. cur_s[t] \in 1 .. segments /\ segments \in 0 .. MaxSegments
    BY DEF WritersOK, FilesOK
  <2> QED
    BY <2>1, PersistenceAssumption DEF Segment
<1>8. Writers(w)' = Writers(w) \ {t} /\ t \in Writers(w)
  BY <1>1, <1>2 DEF Writers
<1>9. MaxLength \in Nat /\ Weight(Writers(w) \ {t}) = Weight(Writers(w)) - MaxLength
  BY <1>8, OneWrites
<1> QED
  BY <1>5, <1>6, <1>7, <1>8, <1>9

LEMMA AppendWriteKeeps ==
  ASSUME PersistenceInv, NEW t \in Thread, AppendWrite(t)
  PROVE  PersistenceInv'
<1> USE DEF PersistenceInv
<1> DEFINE m == cur_m[t]
<1>1. PICK w : w = cur_s[t]
  OBVIOUS
<1>2. /\ pc[t] = "write" /\ Leave(t) /\ m \in Msg /\ answer[m] = "none"
      /\ UNCHANGED <<segments, index_file, server, active, registry, corrupt, lost>>
  BY DEF AppendWrite, WritersOK
<1>3. w \in Segment /\ w \in 1 .. segments /\ server # "down"
  <2>1. cur_s[t] \in 1 .. segments /\ segments \in 0 .. MaxSegments /\ server # "down"
    BY <1>2 DEF WritersOK, FilesOK
  <2> QED
    BY <1>1, <2>1, PersistenceAssumption DEF Segment
<1>4. log \in LogType /\ answer \in Answers /\ Len(log[w]) \in Nat /\ Size(log[w]) \in Nat
  BY <1>3, SizeType DEF FilesOK, MemoryOK, LogType
<1>5. CASE /\ answer' = [answer EXCEPT ![m] = "internal"]
           /\ UNCHANGED <<log, synced, handles, active_size, index>>
  <2>1. /\ answer' \in Answers /\ Later(answer, answer')
        /\ \A n \in Msg : answer'[n] = "ok" => answer[n] = "ok"
        /\ \A n \in Msg : n # m => answer'[n] = answer[n]
    BY <1>2, <1>4, <1>5 DEF Answers, Later
  <2>2. /\ WritersOK'
        /\ \A s \in Segment : s # w => Writers(s)' = Writers(s)
        /\ MaxLength \in Nat /\ Weight(Writers(w)') = Weight(Writers(w)) - MaxLength
    BY <1>1, <1>2, <2>1, LeaveKeeps
  <2>3. FilesOK' /\ MemoryOK'
    BY <1>2, <1>5, <2>1 DEF FilesOK, MemoryOK
  <2>4. RecordsOK'
    BY <1>2, <1>5, <2>1, RecordsStay
  <2>5. ASSUME NEW s \in Segment
        PROVE  RoomLeft(s)'
    <3>1. CASE s # w
      BY <1>5, <2>2, <3>1 DEF RoomLeft, Weight
    <3>2. CASE s = w
      <4>1. Weight(Writers(w))' = Weight(Writers(w)') /\ Weight(Thread)' = Weight(Thread)
        BY DEF Weight
      <4> QED
        BY <1>4, <1>5, <2>2, <3>2, <4>1, WritersFinite, PersistenceAssumption DEF RoomLeft
    <3> QED
      BY <3>1, <3>2
  <2> QED
    BY <2>2, <2>3, <2>4, <2>5
<1>6. CASE /\ log' = [log EXCEPT ![w] = Append(@, Part(w, m, Length[m]))]
           /\ synced' \in {synced, [synced EXCEPT ![w] = Len(log[w]) + 1]}
           /\ handles' = handles \cup {w}
           /\ active_size' = active_size + Length[m]
           /\ index' = IndexWith(m, Tell(w))
           /\ answer' = [answer EXCEPT ![m] = "ok"]
  <2>0. PICK r : r = Part(w, m, Length[m])
    OBVIOUS
  <2>1. Added(log, log', w, r)
    BY <1>6, <2>0 DEF Added
  <2>2. /\ answer' \in Answers /\ Later(answer, answer') /\ answer'[m] = "ok"
        /\ \A n \in Msg : n # m => answer'[n] = answer[n]
    BY <1>2, <1>4, <1>6 DEF Answers, Later
  <2>3. /\ r \in Record /\ r.msg = m /\ r.at = Size(log[w]) /\ r.bytes = Length[m]
        /\ Length[m] \in Nat /\ Length[m] <= MaxLength /\ Whole(r)
    BY <1>2, <1>3, <1>4, <2>0, LengthType, PartRecord
  <2>4. index' = IndexWith(m, <<w, Size(log[w])>>)
    BY <1>6 DEF Tell
  <2>5. /\ log' \in LogType /\ Len(log'[w]) = Len(log[w]) + 1
        /\ \A s \in Segment : s # w => log'[s] = log[s]
    BY <1>3, <1>4, <2>1, <2>3, AddedLog
  <2>51. Size(log'[w]) = Size(log[w]) + Length[m]
    BY <1>3, <1>4, <2>1, <2>3, AddedLaid DEF RecordsOK
  <2>6. RecordsOK'
    <3>1. \A n \in Msg : answer'[n] = "ok" => answer[n] = "ok" \/ (n = r.msg /\ Whole(r))
      BY <2>2, <2>3
    <3> HIDE DEF m
    <3> QED
      BY <1>2, <1>3, <2>1, <2>2, <2>3, <2>4, <3>1, RecordsGrow
  <2>7. /\ WritersOK'
        /\ \A s \in Segment : s # w => Writers(s)' = Writers(s)
        /\ MaxLength \in Nat /\ Weight(Writers(w)') = Weight(Writers(w)) - MaxLength
    BY <1>1, <1>2, <2>2, LeaveKeeps
  <2>8. FilesOK'
    <3>1. synced' \in [Segment -> Nat] /\ \A s \in Segment : synced'[s] <= Len(log'[s])
      BY <1>3, <1>4, <1>6, <2>5 DEF FilesOK, LogType
    <3>2. \A s \in Segment : s > segments' => log'[s] = <<>>
      BY <1>2, <1>3, <2>5 DEF FilesOK, Segment
    <3>3. IndexType(index', segments')
      <4>1. index' = [n \in DOMAIN index \cup {m} |->
                       IF n = m THEN <<w, Size(log[w])>> ELSE index[n]]
        BY <2>4 DEF IndexWith
      <4>2. <<w, Size(log[w])>> \in Place /\ w <= segments
        BY <1>3, <1>4 DEF Place, FilesOK
      <4> QED
        BY <1>2, <4>1, <4>2 DEF IndexType, FilesOK
    <3> QED
      BY <1>2, <2>5, <3>1, <3>2, <3>3 DEF FilesOK
  <2>9. MemoryOK'
    <3>1. active \in Segment /\ active_size >= Size(log[active]) /\ active_size \in Nat
      BY <1>3 DEF MemoryOK
    <3>2. Size(log[active]) \in Nat
      BY <1>4, <3>1, SizeType DEF LogType
    <3>3. active_size' >= Size(log'[active])
      <4>1. CASE active = w
        BY <1>6, <2>3, <2>51, <3>1, <3>2, <4>1
      <4>2. CASE active # w
        BY <1>6, <2>3, <2>5, <3>1, <3>2, <4>2
      <4> QED
        BY <4>1, <4>2
    <3>4. handles' \subseteq Segment /\ active_size' \in Nat
      BY <1>3, <1>6, <2>3, <3>1 DEF MemoryOK
    <3> QED
      BY <1>2, <2>2, <3>1, <3>3, <3>4 DEF MemoryOK
  <2>10. ASSUME NEW s \in Segment
         PROVE  RoomLeft(s)'
    <3>1. CASE s # w
      BY <2>5, <2>7, <3>1 DEF RoomLeft, Weight
    <3>2. CASE s = w
      <4>1. Size(log[s]) + Weight(Writers(s)) <= MaxBytes - 1 + Weight(Thread)
        BY DEF RoomLeft
      <4>2. Weight(Writers(s))' = Weight(Writers(s)') /\ Weight(Thread)' = Weight(Thread)
        BY DEF Weight
      <4>3. Size(log'[s]) + Weight(Writers(s)') <= MaxBytes - 1 + Weight(Thread)
        <5>1. Size(log[s]) \in Nat /\ Size(log'[s]) = Size(log[s]) + Length[m]
              /\ Weight(Writers(s)') = Weight(Writers(s)) - MaxLength
          BY <1>4, <2>51, <2>7, <3>2
        <5>2. PICK a, b, c, d : /\ a = Size(log[s]) /\ b = Weight(Writers(s)) /\ c = Length[m]
                                /\ d = Weight(Thread)
          OBVIOUS
        <5>3. a \in Nat /\ b \in Nat /\ c \in Nat /\ d \in Nat /\ c <= MaxLength
              /\ MaxLength \in Nat /\ MaxBytes \in Nat
          BY <1>4, <2>3, <3>2, <5>2, WritersFinite, PersistenceAssumption
        <5>4. a + b <= MaxBytes - 1 + d => (a + c) + (b - MaxLength) <= MaxBytes - 1 + d
          BY <5>3
        <5> QED
          BY <4>1, <5>1, <5>2, <5>4
      <4> QED
        BY <4>2, <4>3 DEF RoomLeft
    <3> QED
      BY <3>1, <3>2
  <2> QED
    BY <2>6, <2>7, <2>8, <2>9, <2>10
<1> QED
  BY <1>1, <1>5, <1>6 DEF AppendWrite

LEMMA CloseKeeps ==
  ASSUME PersistenceInv, CloseFsync \/ ClosePersist \/ CloseFiles
  PROVE  PersistenceInv'
<1> USE DEF PersistenceInv
<1>1. /\ UNCHANGED <<log, segments, active, active_size, index, registry, corrupt>>
      /\ UNCHANGED <<threadVars, answer, lost>>
      /\ server # "down" /\ server' \in {"fsynced", "persisted", "closed"}
      /\ index_file' \in {index, index_file} /\ handles' \subseteq Segment
      /\ \/ UNCHANGED synced
         \/ synced' = [s \in Segment |-> IF s \in handles THEN Len(log[s]) ELSE synced[s]]
  BY DEF CloseFsync, ClosePersist, CloseFiles, diskVars, MemoryOK
<1>2. FilesOK'
  <2>1. synced' \in [Segment -> Nat] /\ \A s \in Segment : synced'[s] <= Len(log[s])
    <3>1. \A s \in Segment : Len(log[s]) \in Nat
      BY DEF FilesOK, LogType
    <3>2. CASE UNCHANGED synced
      BY <1>1, <3>2 DEF FilesOK
    <3>3. CASE synced' = [s \in Segment |-> IF s \in handles THEN Len(log[s]) ELSE synced[s]]
      BY <1>1, <3>1, <3>3 DEF FilesOK
    <3> QED
      BY <1>1, <3>2, <3>3
  <2> QED
    BY <1>1, <2>1 DEF FilesOK
<1>3. MemoryOK' /\ WritersOK'
  BY <1>1 DEF MemoryOK, WritersOK, threadVars
<1>4. RecordsOK'
  BY <1>1 DEF RecordsOK
<1>5. \A s \in Segment : RoomLeft(s)'
  BY <1>1 DEF RoomLeft, Writers, threadVars
<1> QED
  BY <1>2, <1>3, <1>4, <1>5

-----------------------------------------------------------------------------
(* The process is gone; files were changed before.                          *)
LEMMA GoneKeeps ==
  ASSUME PersistenceInv, Gone, log' \in LogType, UNCHANGED <<segments, synced>>,
         \A s \in Segment : /\ synced[s] <= Len(log'[s]) /\ (s > segments => log'[s] = <<>>)
                           /\ Size(log'[s]) <= Size(log[s]) + Weight(Writers(s)),
         index_file' \in {index_file, Empty}, answer' \in Answers, lost' \subseteq Msg,
         RecordsOK'
  PROVE  PersistenceInv'
<1> USE DEF PersistenceInv
<1>1. FilesOK'
  BY EmptyIndex DEF Gone, FilesOK
<1>2. MemoryOK' /\ WritersOK'
  BY PersistenceAssumption DEF Gone, MemoryOK, WritersOK, FilesOK
<1>3. ASSUME NEW s \in Segment
      PROVE  RoomLeft(s)'
  <2>1. Size(log'[s]) \in Nat
    BY SizeType DEF LogType
  <2> QED
    BY <2>1, NobodyWrites DEF Gone
<1> QED
  BY <1>1, <1>2, <1>3

(* The answers after the end of the process.                                *)
LEMMA EndAnswers ==
  ASSUME PersistenceInv,
         answer' = [m \in Msg |-> IF \E t \in Thread : cur_m[t] = m THEN "internal" ELSE answer[m]]
  PROVE  /\ answer' \in Answers /\ Later(answer, answer')
         /\ \A m \in Msg : answer'[m] = "ok" => answer[m] = "ok"
<1>1. \A t \in Thread : cur_m[t] \in Msg => answer[cur_m[t]] = "none"
  BY PersistenceAssumption DEF PersistenceInv, WritersOK
<1> QED
  BY <1>1 DEF PersistenceInv, MemoryOK, Answers, Later

LEMMA ProcessEndsKeeps ==
  ASSUME PersistenceInv, ProcessEnds
  PROVE  PersistenceInv'
<1> USE DEF PersistenceInv
<1>1. /\ Gone /\ UNCHANGED <<segments, synced, index_file, lost>>
      /\ answer' \in Answers /\ Later(answer, answer')
      /\ \A m \in Msg : answer'[m] = "ok" => answer[m] = "ok"
  BY EndAnswers DEF ProcessEnds
<1>2. index' = Empty /\ lost' \subseteq Msg /\ log \in LogType
  BY <1>1 DEF Gone, MemoryOK, FilesOK
<1>3. CASE UNCHANGED log
  <2>1. RecordsOK'
    BY <1>1, <1>2, <1>3, RecordsStay
  <2>2. \A s \in Segment : Size(log'[s]) <= Size(log[s]) + Weight(Writers(s))
    BY <1>2, <1>3, SizeType, WritersFinite DEF LogType
  <2> QED
    BY <1>1, <1>2, <1>3, <2>1, <2>2, GoneKeeps DEF FilesOK
<1>4. ASSUME NEW t \in Thread, pc[t] = "write", NEW n \in 1 .. Length[cur_m[t]],
             log' = [log EXCEPT ![cur_s[t]] = Append(@, Part(cur_s[t], cur_m[t], n))]
      PROVE  PersistenceInv'
  <2>1. PICK w, m, r : w = cur_s[t] /\ m = cur_m[t] /\ r = Part(w, m, n)
    OBVIOUS
  <2>2. m \in Msg /\ answer[m] = "none" /\ w \in 1 .. segments /\ segments \in 0 .. MaxSegments
    BY <1>4, <2>1 DEF WritersOK, FilesOK
  <2>3. w \in Segment /\ w <= segments
    BY <2>2, PersistenceAssumption DEF Segment
  <2>31. /\ r \in Record /\ r.msg = m /\ r.at = Size(log[w]) /\ r.bytes = n
         /\ n \in Nat /\ n <= MaxLength
    BY <1>2, <1>4, <2>1, <2>2, <2>3, PartRecord
  <2>4. Added(log, log', w, r)
    BY <1>4, <2>1 DEF Added
  <2>5. answer'[m] = "internal"
    BY <2>1, <2>2 DEF ProcessEnds
  <2>6. RecordsOK'
    BY <1>1, <1>2, <2>2, <2>3, <2>31, <2>4, <2>5, RecordsGrow
  <2>7. /\ log' \in LogType /\ Len(log'[w]) = Len(log[w]) + 1
        /\ \A s \in Segment : s # w => log'[s] = log[s]
    BY <1>2, <2>3, <2>31, <2>4, AddedLog
  <2>71. Size(log'[w]) = Size(log[w]) + n
    BY <1>2, <2>3, <2>31, <2>4, AddedLaid DEF RecordsOK
  <2>8. MaxLength \in Nat /\ Weight(Writers(w)) >= MaxLength
    <3>1. t \in Writers(w)
      BY <1>4, <2>1 DEF Writers
    <3> QED
      BY <3>1, OneWrites
  <2>9. ASSUME NEW s \in Segment
        PROVE  /\ synced[s] <= Len(log'[s]) /\ (s > segments => log'[s] = <<>>)
               /\ Size(log'[s]) <= Size(log[s]) + Weight(Writers(s))
    <3>1. Len(log[s]) \in Nat /\ synced[s] \in Nat /\ synced[s] <= Len(log[s])
          /\ (s > segments => log[s] = <<>>) /\ Size(log[s]) \in Nat
      BY <1>2, SizeType DEF LogType, FilesOK
    <3>2. CASE s = w
      <4>1. Size(log'[s]) <= Size(log[s]) + Weight(Writers(s))
        BY <2>31, <2>71, <2>8, <3>1, <3>2, WritersFinite
      <4> QED
        BY <2>2, <2>3, <2>7, <3>1, <3>2, <4>1
    <3>3. CASE s # w
      BY <2>7, <3>1, <3>3, WritersFinite
    <3> QED
      BY <3>2, <3>3
  <2> QED
    BY <1>1, <1>2, <2>6, <2>7, <2>9, GoneKeeps
<1> QED
  BY <1>3, <1>4 DEF ProcessEnds

LEMMA PowerLossKeeps ==
  ASSUME PersistenceInv, PowerLoss
  PROVE  PersistenceInv'
<1> USE DEF PersistenceInv
<1>1. /\ Gone /\ UNCHANGED <<segments, synced>> /\ index_file' \in {index_file, Empty}
      /\ answer' \in Answers /\ Later(answer, answer')
      /\ \A m \in Msg : answer'[m] = "ok" => answer[m] = "ok"
  BY EndAnswers DEF PowerLoss
<1>2. /\ index' = Empty /\ log \in LogType /\ answer \in Answers /\ lost \subseteq Msg
      /\ DOMAIN index_file \subseteq Msg
  BY <1>1 DEF Gone, FilesOK, MemoryOK, IndexType
<1>3. CASE UNCHANGED <<log, lost>>
  <2>1. RecordsOK'
    BY <1>1, <1>2, <1>3, RecordsStay
  <2>2. \A s \in Segment : Size(log'[s]) <= Size(log[s]) + Weight(Writers(s))
    BY <1>2, <1>3, SizeType, WritersFinite DEF LogType
  <2> QED
    BY <1>1, <1>2, <1>3, <2>1, <2>2, GoneKeeps DEF FilesOK
<1>4. ASSUME NEW s \in Segment, NEW n \in synced[s] .. Len(log[s]) - 1,
             CutAt(log, log', s, n),
             lost' = lost \cup CutOff(log, s, n)
      PROVE  PersistenceInv'
  <2>1. synced[s] \in Nat /\ log[s] \in Seq(Record) /\ n \in 0 .. Len(log[s]) - 1
    BY <1>2, <1>4 DEF FilesOK, LogType
  <2>2. /\ log' \in LogType /\ \A u \in Segment : u # s => log'[u] = log[u]
        /\ Len(log'[s]) \in Nat /\ Len(log'[s]) <= Len(log[s]) /\ n <= Len(log'[s])
    BY <1>2, <1>4, <2>1, CutLog
  <2>21. Laid(log') /\ Size(log'[s]) <= Size(log[s])
    BY <1>2, <1>4, <2>1, CutLaid DEF RecordsOK
  <2>3. lost' \subseteq Msg
    <3>1. \A i \in n + 1 .. Len(log[s]) : log[s][i] \in Record
      BY <2>1
    <3> QED
      BY <1>2, <1>4, <3>1, RecordFields DEF CutOff
  <2>4. RecordsOK'
    <3>1. /\ Once(log') /\ EachAnswered(log', answer) /\ Kept(log', answer, lost')
          /\ Right(index_file, log', answer, lost')
      <4>1. /\ Once(log) /\ EachAnswered(log, answer) /\ Kept(log, answer, lost)
            /\ Right(index_file, log, answer, lost)
        BY DEF RecordsOK
      <4>2. Once(log') /\ EachAnswered(log', answer)
        BY <1>2, <1>4, <2>1, <4>1, CutOnce, CutAnswered
      <4>3. Kept(log', answer, lost')
        BY <1>2, <1>4, <2>1, <4>1, CutKept
      <4>4. Right(index_file, log', answer, lost')
        BY <1>2, <1>4, <2>1, <4>1, CutRight
      <4> QED
        BY <4>2, <4>3, <4>4
    <3>2. /\ EachAnswered(log', answer') /\ Kept(log', answer', lost')
          /\ Right(index_file, log', answer', lost')
      BY <1>1, <1>2, <2>2, <3>1, SameRecords
    <3> QED
      BY <1>1, <1>2, <2>21, <3>1, <3>2, EmptyIndex DEF RecordsOK
  <2>5. ASSUME NEW u \in Segment
        PROVE  /\ synced[u] <= Len(log'[u]) /\ (u > segments => log'[u] = <<>>)
               /\ Size(log'[u]) <= Size(log[u]) + Weight(Writers(u))
    <3>1. Len(log[u]) \in Nat /\ synced[u] \in Nat /\ synced[u] <= Len(log[u])
          /\ (u > segments => log[u] = <<>>) /\ Size(log[u]) \in Nat /\ Size(log'[u]) \in Nat
      BY <1>2, <2>2, SizeType DEF LogType, FilesOK
    <3>2. CASE u = s
      <4>1. log[u] # <<>>
        BY <2>1, <3>2
      <4>2. Weight(Writers(u)) \in Nat /\ n >= synced[u]
        BY <1>4, <2>1, <3>2, WritersFinite
      <4>3. Size(log'[u]) <= Size(log[u]) + Weight(Writers(u))
        BY <2>21, <3>1, <3>2, <4>2
      <4> QED
        BY <2>1, <2>2, <3>1, <3>2, <4>1, <4>2, <4>3
    <3>3. CASE u # s
      BY <2>2, <3>1, <3>3, WritersFinite
    <3> QED
      BY <3>2, <3>3
  <2> QED
    BY <1>1, <2>2, <2>3, <2>4, <2>5, GoneKeeps
<1> QED
  BY <1>3, <1>4 DEF PowerLoss, CutAt, CutOff

-----------------------------------------------------------------------------
(* A place in the log.                                                      *)
LEMMA AtPlace ==
  ASSUME FilesOK, NEW p \in Places
  PROVE  \E s \in Segment : \E i \in DOMAIN log[s] :
           /\ p = <<s, i>> /\ p[1] = s /\ p[2] = i /\ RecordAt(p) = log[s][i]
           /\ RecordAt(p) \in Record /\ RecordAt(p).msg \in Msg
           /\ <<p[1], RecordAt(p).at>> \in Place /\ p[1] <= segments
<1>1. PICK s \in Segment : \E i \in DOMAIN log[s] : p = <<s, i>>
  BY DEF Places
<1>2. PICK i \in DOMAIN log[s] : p = <<s, i>>
  BY <1>1
<1>3. log[s] \in Seq(Record) /\ i \in 1 .. Len(log[s])
  BY DEF FilesOK, LogType
<1>4. log[s][i] \in Record /\ log[s] # <<>>
  BY <1>3
<1>5. log[s][i].msg \in Msg /\ log[s][i].at \in Nat
  BY <1>4, RecordFields
<1>6. s <= segments
  BY <1>4, PersistenceAssumption DEF FilesOK, Segment
<1>7. p[1] = s /\ p[2] = i /\ RecordAt(p) = log[s][i]
  BY <1>2 DEF RecordAt
<1> QED
  BY <1>2, <1>4, <1>5, <1>6, <1>7 DEF Place

(* What recover has found it has read from the log.                         *)
LEMMA StartReads ==
  ASSUME PersistenceInv, Start
  PROVE  \E S, decoded, found \in SUBSET Places :
           /\ found \subseteq S
           /\ IF index_file # Empty THEN S = Indexed ELSE Scanned(S, decoded)
           /\ \A p \in S : Whole(RecordAt(p)) => p \in found
           /\ registry' = {RecordAt(p).msg : p \in found}
           /\ registry' \subseteq Msg /\ corrupt' \subseteq registry'
           /\ index' = IF index_file # Empty THEN index_file ELSE IndexOf(found)
<1>1. PICK decoded \in SUBSET Decodable, S \in SUBSET Places :
        /\ IF index_file # Empty THEN S = Indexed ELSE Scanned(S, decoded)
        /\ \E odd \in SUBSET (S \cap decoded) :
             LET found == {p \in S : Whole(RecordAt(p))} \cup odd
             IN /\ registry' = {RecordAt(p).msg : p \in found}
                /\ corrupt' = {RecordAt(p).msg : p \in odd}
                /\ index' = IF index_file # Empty THEN index_file ELSE IndexOf(found)
  BY Zenon DEF Start
<1>2. PICK odd \in SUBSET (S \cap decoded) :
        LET found == {p \in S : Whole(RecordAt(p))} \cup odd
        IN /\ registry' = {RecordAt(p).msg : p \in found}
           /\ corrupt' = {RecordAt(p).msg : p \in odd}
           /\ index' = IF index_file # Empty THEN index_file ELSE IndexOf(found)
  BY <1>1, Zenon
<1> DEFINE found == {p \in S : Whole(RecordAt(p))} \cup odd
<1>3. /\ found \in SUBSET Places /\ found \subseteq S /\ odd \subseteq found
      /\ \A p \in S : Whole(RecordAt(p)) => p \in found
  BY <1>2
<1>4. decoded \in SUBSET Places
  BY <1>1 DEF Decodable
<1>5. /\ registry' = {RecordAt(p).msg : p \in found}
      /\ corrupt' = {RecordAt(p).msg : p \in odd}
      /\ index' = IF index_file # Empty THEN index_file ELSE IndexOf(found)
  BY <1>2
<1> HIDE DEF found
<1>6. registry' \subseteq Msg
  <2>1. \A p \in Places : RecordAt(p).msg \in Msg
    BY AtPlace DEF PersistenceInv
  <2> QED
    BY <1>1, <1>3, <1>5, <2>1
<1>7. corrupt' \subseteq registry'
  BY <1>3, <1>5
<1> QED
  BY <1>1, <1>3, <1>4, <1>5, <1>6, <1>7, Zenon

(* The index that a scan leads to.                                          *)
LEMMA ScannedIndex ==
  ASSUME PersistenceInv, NEW found, found \subseteq Places
  PROVE  /\ DOMAIN IndexOf(found) = {RecordAt(p).msg : p \in found}
         /\ IndexType(IndexOf(found), segments)
         /\ Right(IndexOf(found), log, answer, lost)
<1> DEFINE the(m) == CHOOSE q \in found : RecordAt(q).msg = m
           f == [m \in {RecordAt(p).msg : p \in found} |-> <<the(m)[1], RecordAt(the(m)).at>>]
<1>1. IndexOf(found) = f
  BY DEF IndexOf
<1>2. FilesOK /\ Once(log) /\ EachAnswered(log, answer)
  BY DEF PersistenceInv, RecordsOK
<1>3. ASSUME NEW m \in {RecordAt(p).msg : p \in found}
      PROVE  the(m) \in found /\ RecordAt(the(m)).msg = m
  <2>1. \E p \in found : RecordAt(p).msg = m
    OBVIOUS
  <2> QED
    BY <2>1
<1> HIDE DEF the
<1>4. /\ DOMAIN f = {RecordAt(p).msg : p \in found} /\ f = [m \in DOMAIN f |-> f[m]]
      /\ \A m \in DOMAIN f : f[m] = <<the(m)[1], RecordAt(the(m)).at>>
  <2>1. DOMAIN f = {RecordAt(p).msg : p \in found}
    OBVIOUS
  <2>2. \A m \in {RecordAt(p).msg : p \in found} : f[m] = <<the(m)[1], RecordAt(the(m)).at>>
    BY Zenon
  <2>3. f = [m \in {RecordAt(p).msg : p \in found} |-> f[m]]
    BY <2>2, Zenon
  <2> QED
    BY <2>1, <2>2, <2>3, Zenon
<1> HIDE DEF f
<1>5. ASSUME NEW m \in DOMAIN f
      PROVE  /\ m \in Msg /\ f[m] \in Place /\ f[m][1] <= segments
             /\ \E s \in Segment : \E i \in DOMAIN log[s] :
                  f[m] = <<s, log[s][i].at>> /\ log[s][i].msg = m
  <2>1. PICK p \in Places : p = the(m) /\ RecordAt(p).msg = m
    BY <1>3, <1>4
  <2>2. f[m] = <<p[1], RecordAt(p).at>>
    BY <1>4, <2>1
  <2>3. PICK s \in Segment : \E i \in DOMAIN log[s] :
           /\ p[1] = s /\ RecordAt(p) = log[s][i] /\ RecordAt(p).msg \in Msg
           /\ <<p[1], RecordAt(p).at>> \in Place /\ p[1] <= segments
    BY <1>2, AtPlace
  <2> QED
    BY <2>1, <2>2, <2>3
<1>6. IndexType(f, segments)
  BY <1>4, <1>5 DEF IndexType
<1>7. Right(f, log, answer, lost)
  <2> SUFFICES ASSUME NEW m \in DOMAIN f
               PROVE  /\ answer[m] # "none"
                      /\ \A u \in Segment : \A j \in DOMAIN log[u] :
                           log[u][j].msg = m => f[m] = <<u, log[u][j].at>>
                      /\ \E s \in Segment : \E i \in DOMAIN log[s] :
                           f[m] = <<s, log[s][i].at>> /\ log[s][i].msg = m
    BY DEF Right
  <2>1. PICK s \in Segment : \E i \in DOMAIN log[s] :
          f[m] = <<s, log[s][i].at>> /\ log[s][i].msg = m
    BY <1>5
  <2>2. PICK i \in DOMAIN log[s] : f[m] = <<s, log[s][i].at>> /\ log[s][i].msg = m
    BY <2>1
  <2>3. answer[m] # "none"
    BY <1>2, <2>2 DEF EachAnswered
  <2>4. \A u \in Segment : \A j \in DOMAIN log[u] : log[u][j].msg = m => u = s /\ j = i
    BY <1>2, <2>2 DEF Once
  <2> QED
    BY <2>2, <2>3, <2>4
<1> QED
  BY <1>1, <1>4, <1>6, <1>7

LEMMA StartKeeps ==
  ASSUME PersistenceInv, Start
  PROVE  PersistenceInv'
<1> USE DEF PersistenceInv
<1>1. /\ server = "down" /\ server' = "up"
      /\ segments' = IF segments = 0 THEN 1 ELSE segments
      /\ active' = segments' /\ active_size' = Size(log[segments'])
      /\ UNCHANGED <<log, synced, index_file, handles, threadVars, answer, lost>>
  BY DEF Start
<1>2. /\ segments' \in Nat /\ segments' <= MaxSegments /\ segments' >= 1 /\ segments <= segments'
      /\ segments \in Nat
  BY <1>1, PersistenceAssumption DEF FilesOK
<1>3. segments' \in Segment /\ active_size' \in Nat
  <2>1. segments' \in Segment
    BY <1>2, PersistenceAssumption DEF Segment
  <2> QED
    BY <1>1, <2>1, SizeType DEF FilesOK, LogType
<1>4. /\ IndexType(index', segments) /\ Right(index', log, answer, lost)
      /\ registry' \subseteq Msg /\ corrupt' \subseteq registry'
  <2>1. PICK S, decoded, found \in SUBSET Places :
           /\ registry' \subseteq Msg /\ corrupt' \subseteq registry'
           /\ index' = IF index_file # Empty THEN index_file ELSE IndexOf(found)
    BY StartReads, Zenon
  <2>2. CASE index_file # Empty
    BY <2>1, <2>2 DEF FilesOK, RecordsOK
  <2>3. CASE index_file = Empty
    <3>1. found \subseteq Places /\ index' = IndexOf(found)
      BY <2>1, <2>3
    <3> QED
      BY <2>1, <3>1, ScannedIndex
  <2> QED
    BY <2>2, <2>3
<1>5. \A f : IndexType(f, segments) => IndexType(f, segments')
  BY <1>2 DEF IndexType, Place, Segment
<1>6. FilesOK'
  <2>1. \A s \in Segment : s > segments' => log'[s] = <<>>
    BY <1>1, <1>2, PersistenceAssumption DEF FilesOK, Segment
  <2> QED
    BY <1>1, <1>2, <1>4, <1>5, <2>1, PersistenceAssumption DEF FilesOK
<1>7. MemoryOK'
  BY <1>1, <1>2, <1>3, <1>4 DEF MemoryOK
<1>8. WritersOK'
  BY <1>1 DEF WritersOK, threadVars
<1>9. RecordsOK'
  BY <1>1, <1>4 DEF RecordsOK
<1>10. \A s \in Segment : RoomLeft(s)'
  BY <1>1 DEF RoomLeft, Writers, threadVars
<1> QED
  BY <1>6, <1>7, <1>8, <1>9, <1>10

LEMMA PersistenceStep == PersistenceInv /\ [Next]_vars => PersistenceInv'
<1> SUFFICES ASSUME PersistenceInv, [Next]_vars
             PROVE  PersistenceInv'
  OBVIOUS
<1>1. CASE UNCHANGED vars
  <2>1. FilesOK' /\ MemoryOK' /\ WritersOK' /\ RecordsOK'
    BY <1>1 DEF vars, diskVars, memoryVars, threadVars, PersistenceInv, FilesOK, MemoryOK,
                WritersOK, RecordsOK
  <2>2. \A s \in Segment : RoomLeft(s)'
    BY <1>1 DEF vars, diskVars, threadVars, PersistenceInv, RoomLeft, Writers
  <2> QED
    BY <2>1, <2>2 DEF PersistenceInv
<1> QED
  BY <1>1, AppendStartKeeps, AppendWriteKeeps, CloseKeeps, ProcessEndsKeeps, PowerLossKeeps,
     StartKeeps DEF Next

LEMMA PersistenceInvariant == Spec => []PersistenceInv
BY PersistenceInit, PersistenceStep, PTL DEF Spec

-----------------------------------------------------------------------------
(* Type correctness; an index names only segments that were created, and    *)
(* only records that were written are called synced.                        *)
THEOREM PersistenceTypes == Spec => []TypeOK
<1>1. PersistenceInv => TypeOK
  <2> SUFFICES ASSUME PersistenceInv
               PROVE  TypeOK
    OBVIOUS
  <2> USE DEF PersistenceInv
  <2>1. ASSUME NEW s \in Segment
        PROVE  /\ \A i \in DOMAIN log[s] : log[s][i] \in Record
               /\ synced[s] \in 0 .. Len(log[s])
               /\ s > segments => log[s] = <<>>
    <3>1. Len(log[s]) \in Nat
      BY DEF FilesOK, LogType
    <3>2. \A i \in DOMAIN log[s] : log[s][i] \in Record
      BY DEF FilesOK, LogType
    <3>3. synced[s] \in 0 .. Len(log[s]) /\ (s > segments => log[s] = <<>>)
      BY <3>1 DEF FilesOK
    <3> QED
      BY <3>2, <3>3
  <2>2. \A f \in {index, index_file} :
          DOMAIN f \subseteq Msg /\ \A m \in DOMAIN f : f[m] \in Place /\ f[m][1] <= segments
    BY DEF FilesOK, IndexType
  <2> QED
    BY <2>1, <2>2 DEF TypeOK, FilesOK, MemoryOK, WritersOK, Answers
<1> QED
  BY <1>1, PersistenceInvariant, PTL

(* What was answered +OK is in the log exactly once and whole, unless the   *)
(* machine failed before it was synced: however many threads append, roll   *)
(* segments and are killed (append).                                        *)
THEOREM AnsweredStayLogged == Spec => []AnsweredLogged
<1>1. PersistenceInv => AnsweredLogged
  <2> SUFFICES ASSUME PersistenceInv, NEW m \in Msg \ lost, answer[m] = "ok"
               PROVE  \E p \in Places : \A q \in Places :
                        RecordAt(q).msg = m /\ Whole(RecordAt(q)) <=> q = p
    BY DEF AnsweredLogged
  <2>1. Once(log) /\ Kept(log, answer, lost) /\ FilesOK
    BY DEF PersistenceInv, RecordsOK
  <2>2. PICK s \in Segment : \E i \in DOMAIN log[s] : log[s][i].msg = m /\ Whole(log[s][i])
    BY <2>1 DEF Kept
  <2>3. PICK i \in DOMAIN log[s] : log[s][i].msg = m /\ Whole(log[s][i])
    BY <2>2
  <2>4. <<s, i>> \in Places
    BY DEF Places
  <2>5. ASSUME NEW q \in Places
        PROVE  RecordAt(q).msg = m /\ Whole(RecordAt(q)) <=> q = <<s, i>>
    <3>1. PICK u \in Segment : \E j \in DOMAIN log[u] : q = <<u, j>> /\ RecordAt(q) = log[u][j]
      BY <2>1, AtPlace
    <3>2. PICK j \in DOMAIN log[u] : q = <<u, j>> /\ RecordAt(q) = log[u][j]
      BY <3>1
    <3>3. log[u][j].msg = m => u = s /\ j = i
      BY <2>1, <2>3 DEF Once
    <3> QED
      BY <2>3, <3>2, <3>3
  <2> QED
    BY <2>4, <2>5
<1> QED
  BY <1>1, PersistenceInvariant, PTL

(* The index, and index.json, lead to the messages they name, unless these  *)
(* are lost (append, persist, recover).                                     *)
THEOREM IndexLeadsToMessage == Spec => []IndexFindsMessage
<1>1. PersistenceInv => IndexFindsMessage
  <2> SUFFICES ASSUME PersistenceInv, NEW f \in {index, index_file}, NEW m \in DOMAIN f \ lost
               PROVE  \E p \in Places : f[m] = <<p[1], RecordAt(p).at>> /\ RecordAt(p).msg = m
    BY DEF IndexFindsMessage
  <2>1. Right(f, log, answer, lost)
    BY DEF PersistenceInv, RecordsOK
  <2>2. PICK s \in Segment : \E i \in DOMAIN log[s] :
          f[m] = <<s, log[s][i].at>> /\ log[s][i].msg = m
    BY <2>1 DEF Right
  <2>3. PICK i \in DOMAIN log[s] : f[m] = <<s, log[s][i].at>> /\ log[s][i].msg = m
    BY <2>2
  <2>4. <<s, i>> \in Places
    BY DEF Places
  <2>5. <<s, i>>[1] = s /\ RecordAt(<<s, i>>) = log[s][i]
    BY DEF RecordAt
  <2> QED
    BY <2>3, <2>4, <2>5
<1> QED
  BY <1>1, PersistenceInvariant, PTL

(* For any number of threads and any lengths of records a segment is longer *)
(* than its limit by less than the longest record for each thread, in bytes *)
(* (get_active_segment).                                                    *)
THEOREM SegmentsStayBounded == Spec => []SegmentBounded
<1>1. PersistenceInv => SegmentBounded
  <2> SUFFICES ASSUME PersistenceInv, NEW s \in Segment
               PROVE  Size(log[s]) < MaxBytes + Weight(Thread)
    BY DEF SegmentBounded, Weight
  <2>1. Size(log[s]) \in Nat
    BY SizeType DEF PersistenceInv, FilesOK, LogType
  <2> QED
    BY <2>1, WritersFinite, PersistenceAssumption DEF PersistenceInv, RoomLeft
<1> QED
  BY <1>1, PersistenceInvariant, PTL

-----------------------------------------------------------------------------
LEMMA WriterPart ==
  ASSUME PersistenceInv, NEW t \in Thread, pc[t] = "write"
  PROVE  /\ cur_s[t] \in Segment /\ cur_m[t] \in Msg /\ server # "down"
         /\ Length[cur_m[t]] \in 1 .. Length[cur_m[t]]
         /\ \A n \in 1 .. Length[cur_m[t]] : Part(cur_s[t], cur_m[t], n) \in Record
<1>1. cur_s[t] \in 1 .. segments /\ segments \in 0 .. MaxSegments /\ cur_m[t] \in Msg
      /\ server # "down" /\ log \in LogType
  BY DEF PersistenceInv, WritersOK, FilesOK
<1>2. cur_s[t] \in Segment
  BY <1>1, PersistenceAssumption DEF Segment
<1> QED
  BY <1>1, <1>2, LengthType, PartRecord

LEMMA SyncedStays ==
  ASSUME PersistenceInv, [Next]_vars, NEW s \in Segment, NEW i \in 1 .. synced[s]
  PROVE  i \in DOMAIN log'[s] /\ log'[s][i] = log[s][i]
<1> USE DEF PersistenceInv
<1>1. log \in LogType /\ log[s] \in Seq(Record) /\ synced[s] \in Nat /\ synced[s] <= Len(log[s])
  BY DEF FilesOK, LogType
<1>2. i \in DOMAIN log[s]
  BY <1>1
<1>3. CASE UNCHANGED log
  BY <1>2, <1>3
<1>4. ASSUME NEW w \in Segment, NEW r \in Record, Added(log, log', w, r)
      PROVE  i \in DOMAIN log'[s] /\ log'[s][i] = log[s][i]
  BY <1>1, <1>2, <1>4, AddedLog
<1>5. ASSUME NEW t \in Thread, pc[t] = "write"
      PROVE  /\ cur_s[t] \in Segment /\ Length[cur_m[t]] \in 1 .. Length[cur_m[t]]
             /\ \A n \in 1 .. Length[cur_m[t]] : Part(cur_s[t], cur_m[t], n) \in Record
  BY <1>1, <1>5, WriterPart
<1>6. ASSUME NEW t \in Thread, AppendWrite(t), ~UNCHANGED log
      PROVE  i \in DOMAIN log'[s] /\ log'[s][i] = log[s][i]
  <2>1. pc[t] = "write" /\ Added(log, log', cur_s[t], Part(cur_s[t], cur_m[t], Length[cur_m[t]]))
    BY <1>6 DEF AppendWrite, Added
  <2> QED
    BY <1>4, <1>5, <2>1
<1>7. ASSUME ProcessEnds, ~UNCHANGED log
      PROVE  i \in DOMAIN log'[s] /\ log'[s][i] = log[s][i]
  <2>1. PICK t \in Thread :
          pc[t] = "write" /\ \E n \in 1 .. Length[cur_m[t]] :
                               Added(log, log', cur_s[t], Part(cur_s[t], cur_m[t], n))
    BY <1>7 DEF ProcessEnds, Added
  <2> QED
    BY <1>4, <1>5, <2>1
<1>8. ASSUME PowerLoss, ~UNCHANGED log
      PROVE  i \in DOMAIN log'[s] /\ log'[s][i] = log[s][i]
  <2>1. PICK u \in Segment : \E n \in synced[u] .. Len(log[u]) - 1 : CutAt(log, log', u, n)
    BY <1>8 DEF PowerLoss, CutAt
  <2>2. PICK n \in synced[u] .. Len(log[u]) - 1 : CutAt(log, log', u, n)
    BY <2>1
  <2>3. log[u] \in Seq(Record) /\ synced[u] \in Nat
    BY DEF FilesOK, LogType
  <2>4. n \in 0 .. Len(log[u]) - 1 /\ n >= synced[u]
    BY <2>3
  <2>5. CASE s = u
    <3>1. i \in 1 .. n
      BY <1>1, <2>3, <2>4, <2>5
    <3>2. \A j \in 1 .. n : j \in DOMAIN log'[u] /\ log'[u][j] = log[u][j]
      <4>1. log \in LogType /\ n \in 0 .. Len(log[u]) - 1 /\ CutAt(log, log', u, n)
        BY <1>1, <2>2, <2>4
      <4>2. PICK K : K = log'
        OBVIOUS
      <4>3. \A j \in 1 .. n : j \in DOMAIN K[u] /\ K[u][j] = log[u][j]
        BY <4>1, <4>2, CutLog
      <4> QED
        BY <4>2, <4>3
    <3> QED
      BY <2>5, <3>1, <3>2
  <2>6. CASE s # u
    BY <1>1, <1>2, <2>2, <2>4, <2>6, CutLog
  <2> QED
    BY <2>5, <2>6
<1> QED
  <2>1. \A t \in Thread, m \in Msg : AppendStart(t, m) => UNCHANGED log
    BY DEF AppendStart
  <2>2. Start \/ CloseFsync \/ ClosePersist \/ CloseFiles \/ UNCHANGED vars => UNCHANGED log
    BY DEF Start, CloseFsync, ClosePersist, CloseFiles, vars, diskVars
  <2>3. \/ UNCHANGED log
        \/ \E t \in Thread : AppendWrite(t)
        \/ ProcessEnds \/ PowerLoss
    BY <2>1, <2>2 DEF Next
  <2> QED
    BY <1>3, <1>6, <1>7, <1>8, <2>3

(* Nothing the server or the machine does changes or moves a record that    *)
(* was synced (append, fsync, recover).                                     *)
THEOREM SyncedForGood == Spec => SyncedIsFinal
<1>1. PersistenceInv /\ [Next]_vars =>
        [\A s \in Segment : \A i \in 1 .. synced[s] :
           i \in DOMAIN log'[s] /\ log'[s][i] = log[s][i]]_vars
  BY SyncedStays
<1> QED
  BY <1>1, PersistenceInvariant, PTL DEF Spec, SyncedIsFinal

-----------------------------------------------------------------------------
(* The refinement.                                                          *)
WholeIn(L) ==
  {m \in Msg : \E s \in Segment : \E i \in DOMAIN L[s] : L[s][i].msg = m /\ Whole(L[s][i])}
TornIn(L) ==
  {m \in Msg : \E s \in Segment : \E i \in DOMAIN L[s] : L[s][i].msg = m /\ ~Whole(L[s][i])}

LEMMA RecordedIs ==
  /\ Recorded(TRUE) = WholeIn(log) /\ Recorded(FALSE) = TornIn(log)
  /\ Recorded(TRUE)' = WholeIn(log') /\ Recorded(FALSE)' = TornIn(log')
BY DEF Recorded, WholeIn, TornIn, Whole

LEMMA AddedIn ==
  ASSUME NEW L \in LogType, NEW s \in Segment, NEW r \in Record, NEW K, Added(L, K, s, r)
  PROVE  /\ WholeIn(K) = WholeIn(L) \cup {m \in {r.msg} : Whole(r)}
         /\ TornIn(K) = TornIn(L) \cup {m \in {r.msg} : ~Whole(r)}
<1>1. r.msg \in Msg
  BY RecordFields
<1>2. ASSUME NEW u \in Segment, NEW i \in DOMAIN K[u]
      PROVE  \/ i \in DOMAIN L[u] /\ K[u][i] = L[u][i]
             \/ K[u][i] = r
  BY AddedLog
<1>3. ASSUME NEW u \in Segment, NEW i \in DOMAIN L[u]
      PROVE  i \in DOMAIN K[u] /\ K[u][i] = L[u][i]
  BY AddedLog
<1>4. \E i \in DOMAIN K[s] : K[s][i] = r
  BY AddedLog
<1>5. \A m \in WholeIn(K) : m \in WholeIn(L) \/ (m = r.msg /\ Whole(r))
  BY <1>2 DEF WholeIn
<1>6. \A m \in TornIn(K) : m \in TornIn(L) \/ (m = r.msg /\ ~Whole(r))
  BY <1>2 DEF TornIn
<1>7. WholeIn(L) \subseteq WholeIn(K) /\ (Whole(r) => r.msg \in WholeIn(K))
  BY <1>1, <1>3, <1>4 DEF WholeIn
<1>8. TornIn(L) \subseteq TornIn(K) /\ (~Whole(r) => r.msg \in TornIn(K))
  BY <1>1, <1>3, <1>4 DEF TornIn
<1> QED
  BY <1>5, <1>6, <1>7, <1>8

LEMMA CutIn ==
  ASSUME NEW L \in LogType, NEW s \in Segment, NEW n \in 0 .. Len(L[s]) - 1, NEW K,
         CutAt(L, K, s, n)
  PROVE  WholeIn(K) \subseteq WholeIn(L) /\ TornIn(K) \subseteq WholeIn(L) \cup TornIn(L)
<1>1. ASSUME NEW u \in Segment, NEW i \in DOMAIN K[u]
      PROVE  /\ i \in DOMAIN L[u] /\ K[u][i].msg = L[u][i].msg
             /\ Whole(K[u][i]) => K[u][i] = L[u][i]
  BY CutKeeps
<1>2. WholeIn(K) \subseteq WholeIn(L)
  BY <1>1 DEF WholeIn
<1>3. TornIn(K) \subseteq WholeIn(L) \cup TornIn(L)
  BY <1>1 DEF WholeIn, TornIn
<1> QED
  BY <1>2, <1>3

(* What is read is recorded.                                                *)
LEMMA ReadIsRecorded ==
  ASSUME FilesOK, NEW p \in Places
  PROVE  /\ RecordAt(p).msg \in WholeIn(log) \cup TornIn(log)
         /\ ~Whole(RecordAt(p)) => RecordAt(p).msg \in TornIn(log)
<1>1. PICK s \in Segment : \E i \in DOMAIN log[s] :
        RecordAt(p) = log[s][i] /\ RecordAt(p).msg \in Msg
  BY AtPlace
<1>2. PICK i \in DOMAIN log[s] : RecordAt(p) = log[s][i] /\ RecordAt(p).msg \in Msg
  BY <1>1
<1>3. log[s][i].msg \in Msg /\ RecordAt(p) = log[s][i]
  BY <1>2
<1>4. ~Whole(log[s][i]) => log[s][i].msg \in TornIn(log)
  BY <1>3 DEF TornIn
<1>5. Whole(log[s][i]) => log[s][i].msg \in WholeIn(log)
  BY <1>3 DEF WholeIn
<1> QED
  BY <1>3, <1>4, <1>5

LEMMA EmptyOrNot ==
  ASSUME FilesOK
  PROVE  index_file = Empty <=> DOMAIN index_file = {}
BY DEF FilesOK, IndexType, Empty

(* recover from index.json returns all the messages it names that have a    *)
(* whole record.                                                            *)
LEMMA IndexRecovers ==
  ASSUME PersistenceInv, NEW found, \A p \in Indexed : Whole(RecordAt(p)) => p \in found
  PROVE  DOMAIN index_file \cap WholeIn(log) \subseteq {RecordAt(p).msg : p \in found}
<1> SUFFICES ASSUME NEW m \in DOMAIN index_file, m \in WholeIn(log)
             PROVE  m \in {RecordAt(p).msg : p \in found}
  OBVIOUS
<1>1. PICK s \in Segment : \E i \in DOMAIN log[s] : log[s][i].msg = m /\ Whole(log[s][i])
  BY DEF WholeIn
<1>2. PICK i \in DOMAIN log[s] : log[s][i].msg = m /\ Whole(log[s][i])
  BY <1>1
<1>3. PICK p : p = <<s, i>>
  OBVIOUS
<1>4. p \in Places /\ p[1] = s /\ RecordAt(p) = log[s][i]
  BY <1>3 DEF Places, RecordAt
<1>5. index_file[m] = <<p[1], RecordAt(p).at>>
  BY <1>2, <1>4 DEF PersistenceInv, RecordsOK, Right
<1>6. p \in Indexed
  BY <1>4, <1>5 DEF Indexed
<1> QED
  BY <1>2, <1>4, <1>6

LEMMA LeastOf ==
  ASSUME NEW S, S \subseteq Nat, S # {}
  PROVE  \E x \in S : \A y \in S : x <= y
<1>1. PICK x \in S : \A y \in S : ~(<<y, x>> \in OpToRel(<, Nat))
  BY WFMin, NatLessThanWellFounded, Zenon
<1>2. ASSUME NEW y \in S
      PROVE  x <= y
  <2>1. ~(<<y, x>> \in OpToRel(<, Nat))
    BY <1>1
  <2>2. ~(y < x)
    BY <2>1 DEF OpToRel
  <2> QED
    BY <2>2
<1> QED
  BY <1>2

(* A scan that meets no torn record reads every record: one that it did not *)
(* read would have one before it that it did.                               *)
LEMMA ScanRecovers ==
  ASSUME PersistenceInv, TornIn(log) = {}, NEW S \in SUBSET Places, NEW decoded,
         Scanned(S, decoded)
  PROVE  S = Places
<1> SUFFICES ASSUME NEW s \in Segment, NEW k \in DOMAIN log[s], <<s, k>> \notin S
             PROVE  FALSE
  BY DEF Places
<1>1. /\ FilesOK /\ Laid(log) /\ log[s] \in Seq(Record)
      /\ Len(log[s]) \in Nat /\ DOMAIN log[s] = 1 .. Len(log[s])
  BY DEF PersistenceInv, RecordsOK, FilesOK, LogType
<1> DEFINE missed == {j \in DOMAIN log[s] : <<s, j>> \notin S}
<1>2. missed \subseteq Nat /\ missed # {}
  BY <1>1
<1>3. PICK i \in missed : \A y \in missed : i <= y
  BY <1>2, LeastOf, Zenon
<1>4. i \in DOMAIN log[s] /\ <<s, i>> \notin S /\ i \in Nat /\ i >= 1 /\ i <= Len(log[s])
  BY <1>1
<1>5. <<s, i>> \in Places /\ ~ComesTo(<<s, i>>, S, decoded)
  BY <1>4 DEF Places, Scanned
<1>6. i # 1
  BY <1>5 DEF ComesTo
<1>7. PICK j : j = i - 1
  OBVIOUS
<1>8. j \in DOMAIN log[s] /\ i = j + 1 /\ ~(i <= j)
  BY <1>1, <1>4, <1>6, <1>7
<1>9. <<s, j>> \in S
  BY <1>3, <1>8
<1>10. PICK q, p : q = <<s, j>> /\ p = <<s, i>>
  OBVIOUS
<1>11. /\ q \in S /\ q[1] = s /\ p[1] = s /\ RecordAt(q) = log[s][j] /\ RecordAt(p) = log[s][i]
       /\ q \in Places
  BY <1>9, <1>10 DEF RecordAt
<1>12. Whole(RecordAt(q))
  BY <1>1, <1>11, ReadIsRecorded
<1>13. RecordAt(p).at = RecordAt(q).at + RecordAt(q).bytes
  BY <1>1, <1>4, <1>8, <1>11 DEF Laid
<1>14. RecordAt(q).at + Length[RecordAt(q).msg] = RecordAt(p).at
  BY <1>12, <1>13 DEF Whole
<1>15. ComesTo(p, S, decoded)
  BY <1>11, <1>12, <1>14 DEF ComesTo
<1> QED
  BY <1>5, <1>10, <1>15

LEMMA StartImplements ==
  ASSUME PersistenceInv, Start
  PROVE  Log!LogStart
<1>1. /\ server = "down" /\ server' = "up" /\ UNCHANGED <<log, index_file>> /\ FilesOK
  BY DEF Start, PersistenceInv
<1>2. /\ Recorded(TRUE) = WholeIn(log) /\ Recorded(FALSE) = TornIn(log)
      /\ Recorded(TRUE)' = WholeIn(log) /\ Recorded(FALSE)' = TornIn(log)
  BY <1>1, RecordedIs
<1>3. PICK S, decoded, found \in SUBSET Places :
        /\ found \subseteq S
        /\ IF index_file # Empty THEN S = Indexed ELSE Scanned(S, decoded)
        /\ \A p \in S : Whole(RecordAt(p)) => p \in found
        /\ registry' = {RecordAt(p).msg : p \in found}
        /\ index' = IF index_file # Empty THEN index_file ELSE IndexOf(found)
  BY StartReads, Zenon
<1>4. registry' \subseteq WholeIn(log) \cup TornIn(log)
  <2>1. \A p \in Places : RecordAt(p).msg \in WholeIn(log) \cup TornIn(log)
    BY <1>1, ReadIsRecorded
  <2> QED
    BY <1>3, <2>1
<1>5. CASE index_file # Empty
  <2>1. DOMAIN index_file # {} /\ index' = index_file /\ S = Indexed
    BY <1>1, <1>3, <1>5, EmptyOrNot
  <2>2. DOMAIN index_file \cap WholeIn(log) \subseteq registry'
    BY <1>3, <2>1, IndexRecovers
  <2>3. registry' \in Log!Recoverable
    BY <1>2, <1>4, <2>1, <2>2 DEF Log!Recoverable
  <2> QED
    BY <1>1, <1>2, <2>1, <2>3 DEF Log!LogStart
<1>6. CASE index_file = Empty
  <2>1. DOMAIN index_file = {} /\ index' = IndexOf(found) /\ Scanned(S, decoded)
    BY <1>1, <1>3, <1>6, EmptyOrNot
  <2>2. DOMAIN index' = registry'
    <3>1. found \subseteq Places
      OBVIOUS
    <3> QED
      BY <1>3, <2>1, <3>1, ScannedIndex
  <2>3. ASSUME TornIn(log) = {}
        PROVE  registry' = WholeIn(log)
    <3>1. S = Places
      BY <2>1, <2>3, ScanRecovers
    <3>2. \A p \in Places : Whole(RecordAt(p))
      BY <1>1, <2>3, ReadIsRecorded
    <3>3. ASSUME NEW m \in WholeIn(log)
          PROVE  m \in registry'
      <4>1. PICK s \in Segment : \E i \in DOMAIN log[s] : log[s][i].msg = m
        BY DEF WholeIn
      <4>2. PICK i \in DOMAIN log[s] : log[s][i].msg = m
        BY <4>1
      <4>3. PICK p : p = <<s, i>>
        OBVIOUS
      <4>4. p \in Places /\ RecordAt(p) = log[s][i]
        BY <4>3 DEF Places, RecordAt
      <4> QED
        BY <1>3, <3>1, <3>2, <4>2, <4>4
    <3> QED
      BY <1>4, <2>3, <3>3
  <2>4. registry' \in Log!Recoverable
    BY <1>2, <1>4, <2>1, <2>3 DEF Log!Recoverable
  <2> QED
    BY <1>1, <1>2, <2>1, <2>2, <2>4 DEF Log!LogStart
<1> QED
  BY <1>5, <1>6

LEMMA AppendImplements ==
  ASSUME PersistenceInv, NEW t \in Thread, AppendWrite(t)
  PROVE  Log!LogNext \/ UNCHANGED Log!logVars
<1>1. pc[t] = "write" /\ UNCHANGED <<server, index_file, registry>> /\ log \in LogType
  BY DEF AppendWrite, PersistenceInv, FilesOK
<1>2. CASE UNCHANGED <<log, index>>
  BY <1>1, <1>2 DEF Log!logVars, Recorded
<1>3. CASE /\ log' = [log EXCEPT ![cur_s[t]] = Append(@, Part(cur_s[t], cur_m[t], Length[cur_m[t]]))]
           /\ index' = IndexWith(cur_m[t], Tell(cur_s[t]))
  <2>1. PICK s, m, r : s = cur_s[t] /\ m = cur_m[t] /\ r = Part(s, m, Length[m])
    OBVIOUS
  <2>2. s \in Segment /\ m \in Msg /\ server # "down" /\ Added(log, log', s, r)
    BY <1>1, <1>3, <2>1, WriterPart DEF Added
  <2>3. r \in Record /\ r.msg = m /\ Whole(r)
    BY <1>1, <2>1, <2>2, LengthType, PartRecord
  <2>4. WholeIn(log') = WholeIn(log) \cup {m} /\ TornIn(log') = TornIn(log)
    <3>1. /\ WholeIn(log') = WholeIn(log) \cup {x \in {m} : Whole(r)}
          /\ TornIn(log') = TornIn(log) \cup {x \in {m} : ~Whole(r)}
      BY <1>1, <2>2, <2>3, AddedIn
    <3> QED
      BY <2>3, <3>1
  <2>5. Recorded(TRUE)' = Recorded(TRUE) \cup {m} /\ Recorded(FALSE)' = Recorded(FALSE)
    BY <2>4, RecordedIs
  <2>6. DOMAIN index' = DOMAIN index \cup {m}
    BY <1>3, <2>1 DEF IndexWith
  <2>7. Log!LogAppend(m)
    BY <1>1, <2>2, <2>5, <2>6 DEF Log!LogAppend
  <2> QED
    BY <2>2, <2>7 DEF Log!LogNext
<1> QED
  BY <1>2, <1>3 DEF AppendWrite

LEMMA EndImplements ==
  ASSUME PersistenceInv, ProcessEnds
  PROVE  Log!LogEnd(Msg)
<1>1. /\ server # "down" /\ server' = "down" /\ DOMAIN index' = {} /\ registry' = {}
      /\ UNCHANGED index_file /\ log \in LogType
  BY EmptyIndex DEF ProcessEnds, Gone, PersistenceInv, FilesOK
<1>2. CASE UNCHANGED log
  BY <1>1, <1>2 DEF Log!LogEnd, Log!Forgotten, Recorded
<1>3. ASSUME NEW t \in Thread, pc[t] = "write", NEW n \in 1 .. Length[cur_m[t]],
             log' = [log EXCEPT ![cur_s[t]] = Append(@, Part(cur_s[t], cur_m[t], n))]
      PROVE  Log!LogEnd(Msg)
  <2>1. PICK s, m, r : s = cur_s[t] /\ m = cur_m[t] /\ r = Part(s, m, n)
    OBVIOUS
  <2>2. s \in Segment /\ m \in Msg /\ Added(log, log', s, r)
    BY <1>3, <2>1, WriterPart DEF Added
  <2>3. r \in Record /\ r.msg = m
    BY <1>1, <1>3, <2>1, <2>2, PartRecord
  <2>4. /\ WholeIn(log') = WholeIn(log) \cup {x \in {m} : Whole(r)}
        /\ TornIn(log') = TornIn(log) \cup {x \in {m} : ~Whole(r)}
    BY <1>1, <2>2, <2>3, AddedIn
  <2>5. CASE Whole(r)
    <3>1. Recorded(TRUE)' = Recorded(TRUE) \cup {m} /\ Recorded(FALSE)' = Recorded(FALSE)
      BY <2>4, <2>5, RecordedIs
    <3> QED
      BY <1>1, <2>2, <3>1 DEF Log!LogEnd, Log!Forgotten
  <2>6. CASE ~Whole(r)
    <3>1. Recorded(FALSE)' = Recorded(FALSE) \cup {m} /\ Recorded(TRUE)' = Recorded(TRUE)
      BY <2>4, <2>6, RecordedIs
    <3> QED
      BY <1>1, <2>2, <3>1 DEF Log!LogEnd, Log!Forgotten
  <2> QED
    BY <2>5, <2>6
<1> QED
  BY <1>2, <1>3 DEF ProcessEnds

LEMMA FailImplements ==
  ASSUME PersistenceInv, PowerLoss
  PROVE  Log!LogFail
<1>1. /\ server' = "down" /\ DOMAIN index' = {} /\ registry' = {} /\ log \in LogType
      /\ DOMAIN index_file' \in {DOMAIN index_file, {}}
  BY EmptyIndex DEF PowerLoss, Gone, PersistenceInv, FilesOK
<1>2. /\ Recorded(TRUE)' \subseteq Recorded(TRUE)
      /\ Recorded(FALSE)' \subseteq Recorded(TRUE) \cup Recorded(FALSE)
  <2>1. CASE UNCHANGED log
    BY <2>1 DEF Recorded
  <2>2. ASSUME NEW s \in Segment, NEW n \in synced[s] .. Len(log[s]) - 1, CutAt(log, log', s, n)
        PROVE  /\ Recorded(TRUE)' \subseteq Recorded(TRUE)
               /\ Recorded(FALSE)' \subseteq Recorded(TRUE) \cup Recorded(FALSE)
    <3>1. synced[s] \in Nat /\ Len(log[s]) \in Nat
      BY DEF PersistenceInv, FilesOK, LogType
    <3>2. n \in 0 .. Len(log[s]) - 1
      BY <3>1
    <3>3. /\ WholeIn(log') \subseteq WholeIn(log)
          /\ TornIn(log') \subseteq WholeIn(log) \cup TornIn(log)
      BY <1>1, <2>2, <3>2, CutIn
    <3> QED
      BY <3>3, RecordedIs
  <2> QED
    BY <2>1, <2>2 DEF PowerLoss, CutAt
<1> QED
  BY <1>1, <1>2 DEF Log!LogFail, Log!Forgotten

LEMMA StepImplements == PersistenceInv /\ [Next]_vars => [Log!LogNext]_(Log!logVars)
<1> SUFFICES ASSUME PersistenceInv, [Next]_vars
             PROVE  Log!LogNext \/ UNCHANGED Log!logVars
  OBVIOUS
<1>1. ASSUME NEW t \in Thread, NEW m \in Msg, AppendStart(t, m)
      PROVE  UNCHANGED Log!logVars
  BY <1>1 DEF AppendStart, Log!logVars, Recorded
<1>2. ASSUME CloseFsync \/ CloseFiles
      PROVE  UNCHANGED Log!logVars
  BY <1>2 DEF CloseFsync, CloseFiles, diskVars, Log!logVars, Recorded
<1>3. ASSUME ClosePersist
      PROVE  Log!LogSave
  BY <1>3 DEF ClosePersist, Log!LogSave, Recorded
<1>4. ASSUME UNCHANGED vars
      PROVE  UNCHANGED Log!logVars
  BY <1>4 DEF vars, diskVars, memoryVars, Log!logVars, Recorded
<1>5. Log!LogSave \/ Log!LogEnd(Msg) \/ Log!LogFail \/ Log!LogStart => Log!LogNext
  BY DEF Log!LogNext
<1> QED
  BY <1>1, <1>2, <1>3, <1>4, <1>5, StartImplements, AppendImplements, EndImplements,
     FailImplements DEF Next

(* Segments, positions, threads and files amount to the log that the rest   *)
(* of the server relies on: append adds, close saves, the end of a process  *)
(* or of the machine takes no more than it may, and recover returns what it *)
(* must (PersistenceLayer).                                                 *)
THEOREM LogImplemented == Spec => ImplementsLog
<1>1. Init => Log!LogInit
  BY EmptyIndex DEF Init, Log!LogInit, Recorded
<1> QED
  BY <1>1, StepImplements, PersistenceInvariant, PTL DEF Spec, ImplementsLog, Log!LogSpec
=============================================================================
