----------------------------- MODULE Persistence -----------------------------
(***************************************************************************)
(* The log of src/persistence.py and the server's use of it: handler       *)
(* threads append the messages of SEND and PUBLISH, stop closes the log,   *)
(* start recovers it.  The server may be killed at any time, and the       *)
(* machine may fail and lose what has not been synced.                     *)
(*                                                                         *)
(* A segment file is a sequence of records, each with the offset where it  *)
(* begins and the number of its bytes that are there: fewer than its       *)
(* length when the end of a process or of the machine has cut it short.    *)
(* The list of segments in memory is that of the files, 1 .. segments:     *)
(* nothing deletes a segment (cleanup_segments is not called).             *)
(***************************************************************************)
EXTENDS Integers, Sequences, FiniteSets

CONSTANTS
  Thread, Msg,
  Length,       \* Length[m]: the bytes of the record of m
  MaxLength,    \* those of the longest record there can be
  MaxBytes,     \* max_segment_size
  MaxSegments,  \* max_segments
  Nil

ASSUME PersistenceAssumption ==
  /\ MaxLength \in Nat /\ Length \in [Msg -> 1 .. MaxLength]
  /\ MaxBytes \in Nat \ {0} /\ MaxSegments \in Nat \ {0}
  /\ Nil \notin Msg
  /\ IsFiniteSet(Thread)

Segment == 1 .. MaxSegments

VARIABLES
  \* on disk
  log,          \* log[s]: the records of segment s
  segments,     \* the number of segment files
  synced,       \* synced[s]: how many records of s are sure to be on the disk
  index_file,   \* index.json; empty as long as there is none
  \* in memory
  server,       \* down, up, and the steps of close: fsynced, persisted, closed
  active, active_size,
  index,        \* IndexManager._index: id -> its segment and offset
  handles,      \* the segments with a cached file handle
  registry,     \* the messages start has given to the router
  corrupt,      \* those among them whose body is not the one sent
  pc, cur_m, cur_s,   \* the threads in append, their variables msg, segment
  \* what clients have been told
  answer,
  lost          \* the messages a failure of the machine has taken

diskVars == <<log, segments, synced, index_file>>
memoryVars == <<server, active, active_size, index, handles, registry, corrupt>>
threadVars == <<pc, cur_m, cur_s>>
vars == <<diskVars, memoryVars, threadVars, answer, lost>>

Place == Segment \X Nat
Empty == [m \in {} |-> Nil]

Record == {r \in [msg : Msg, at : Nat, bytes : Nat] : r.bytes \in 1 .. Length[r.msg]}
Whole(r) == r.bytes = Length[r.msg]

(* The size of a segment file. *)
Size(file) ==
  IF file = <<>> THEN 0 ELSE file[Len(file)].at + file[Len(file)].bytes

(* n bytes of the record of m, at the end of segment s. *)
Part(s, m, n) == [msg |-> m, at |-> Size(log[s]), bytes |-> n]

(* Every variable stays in its type; an index never needs a segment that   *)
(* was not created.                                                        *)
TypeOK ==
  /\ segments \in 0 .. MaxSegments
  /\ \A s \in Segment :
       /\ \A i \in DOMAIN log[s] : log[s][i] \in Record
       /\ synced[s] \in 0 .. Len(log[s])
       /\ s > segments => log[s] = <<>>
  /\ \A f \in {index, index_file} :
       DOMAIN f \subseteq Msg /\ \A m \in DOMAIN f : f[m] \in Place /\ f[m][1] <= segments
  /\ server \in {"down", "up", "fsynced", "persisted", "closed"}
  /\ active \in 0 .. segments /\ active_size \in Nat
  /\ handles \subseteq Segment
  /\ registry \subseteq Msg /\ corrupt \subseteq registry
  /\ pc \in [Thread -> {"idle", "write"}]
  /\ \A t \in Thread : pc[t] = "write" => cur_m[t] \in Msg /\ cur_s[t] \in 1 .. segments
  /\ answer \in [Msg -> {"none", "ok", "internal"}]
  /\ lost \subseteq Msg

Init ==
  /\ log = [s \in Segment |-> <<>>] /\ segments = 0
  /\ synced = [s \in Segment |-> 0]
  /\ index_file = Empty
  /\ server = "down"
  /\ active = 0 /\ active_size = 0
  /\ index = Empty /\ handles = {} /\ registry = {} /\ corrupt = {}
  /\ pc = [t \in Thread |-> "idle"]
  /\ cur_m = [t \in Thread |-> Nil]
  /\ cur_s = [t \in Thread |-> 0]
  /\ answer = [m \in Msg |-> "none"]
  /\ lost = {}

-----------------------------------------------------------------------------
Leave(t) ==
  /\ pc' = [pc EXCEPT ![t] = "idle"]
  /\ cur_m' = [cur_m EXCEPT ![t] = Nil]
  /\ cur_s' = [cur_s EXCEPT ![t] = 0]

(* A deviation: the new segment not entered in the list.                   *)
RollsUncounted ==
  /\ segments < MaxSegments
  /\ active' = segments + 1
  /\ active_size' = 0
  /\ UNCHANGED segments

(* _roll_segment, which raises when there are too many. *)
Roll ==
  /\ segments < MaxSegments
  /\ segments' = segments + 1
  /\ active' = segments'
  /\ active_size' = 0

(* A deviation: the limit taken for the last legal size. *)
FullBeyondLimit == active_size > MaxBytes
SegmentFull == active_size >= MaxBytes

(* append chooses the segment before it takes the write lock.  Handler     *)
(* threads go on while stop closes the log, and after that.                *)
AppendStart(t, m) ==
  /\ server # "down"
  /\ pc[t] = "idle"
  /\ answer[m] = "none" /\ \A u \in Thread : cur_m[u] # m
  /\ \/ /\ IF SegmentFull THEN Roll ELSE UNCHANGED <<segments, active, active_size>>
        /\ pc' = [pc EXCEPT ![t] = "write"]
        /\ cur_m' = [cur_m EXCEPT ![t] = m]
        /\ cur_s' = [cur_s EXCEPT ![t] = active']
        /\ UNCHANGED answer
     \/ /\ SegmentFull /\ segments = MaxSegments
        /\ answer' = [answer EXCEPT ![m] = "internal"]
        /\ UNCHANGED <<segments, active, active_size, threadVars>>
  /\ UNCHANGED <<log, synced, index_file, server, index, handles, registry, corrupt, lost>>

(* A deviation: the offset asked for when the record is written. *)
TellsLate(s) == <<s, Size(log'[s])>>
Tell(s) == <<s, Size(log[s])>>

IndexWith(m, place) ==
  [n \in DOMAIN index \cup {m} |-> IF n = m THEN place ELSE index[n]]

(* A deviation: a segment file opened for writing instead of appending.    *)
OpensTruncating(t) ==
  /\ pc[t] = "write"
  /\ LET s == cur_s[t]  m == cur_m[t] IN
     /\ log' = [log EXCEPT ![s] =
                   IF s \in handles THEN Append(@, Part(s, m, Length[m]))
                     ELSE <<[msg |-> m, at |-> 0, bytes |-> Length[m]]>>]
     /\ handles' = handles \cup {s}
     /\ active_size' = active_size + Length[m]
     /\ index' = IndexWith(m, <<s, log'[s][Len(log'[s])].at>>)
     /\ answer' = [answer EXCEPT ![m] = "ok"]
  /\ Leave(t)
  /\ UNCHANGED <<synced, segments, index_file, server, active, registry, corrupt, lost>>

(* The region of the write lock, and the answer; syncing is due or not.    *)
(* The error is a full disk, found before anything is written, or a file   *)
(* that stop is closing.                                                   *)
AppendWrite(t) ==
  /\ pc[t] = "write"
  /\ LET s == cur_s[t]  m == cur_m[t] IN
     \/ /\ log' = [log EXCEPT ![s] = Append(@, Part(s, m, Length[m]))]
        /\ synced' \in {synced, [synced EXCEPT ![s] = Len(log[s]) + 1]}
        /\ handles' = handles \cup {s}
        /\ active_size' = active_size + Length[m]
        /\ index' = IndexWith(m, Tell(s))
        /\ answer' = [answer EXCEPT ![m] = "ok"]
     \/ /\ answer' = [answer EXCEPT ![m] = "internal"]
        /\ UNCHANGED <<log, synced, handles, active_size, index>>
  /\ Leave(t)
  /\ UNCHANGED <<segments, index_file, server, active, registry, corrupt, lost>>

-----------------------------------------------------------------------------
(* stop: close syncs the open files, saves the index and closes the files. *)
CloseFsync ==
  /\ server = "up"
  /\ server' = "fsynced"
  /\ synced' = [s \in Segment |-> IF s \in handles THEN Len(log[s]) ELSE synced[s]]
  /\ UNCHANGED <<log, segments, index_file, active, active_size, index, handles,
                 registry, corrupt, threadVars, answer, lost>>

ClosePersist ==
  /\ server = "fsynced"
  /\ server' = "persisted"
  /\ index_file' = index
  /\ UNCHANGED <<log, segments, synced, active, active_size, index, handles,
                 registry, corrupt, threadVars, answer, lost>>

CloseFiles ==
  /\ server = "persisted"
  /\ server' = "closed"
  /\ handles' = {}
  /\ UNCHANGED <<diskVars, active, active_size, index, registry, corrupt,
                 threadVars, answer, lost>>

(* The process ends: memory is gone. *)
Gone ==
  /\ server' = "down"
  /\ active' = 0 /\ active_size' = 0
  /\ index' = Empty /\ handles' = {} /\ registry' = {} /\ corrupt' = {}
  /\ pc' = [t \in Thread |-> "idle"]
  /\ cur_m' = [t \in Thread |-> Nil]
  /\ cur_s' = [t \in Thread |-> 0]

(* After stop, or killed; a record that was being written may be in its    *)
(* file, with its end or without.  The other threads write nothing; to all *)
(* of them the SEND has failed.                                            *)
ProcessEnds ==
  /\ server # "down"
  /\ \/ UNCHANGED log
     \/ \E t \in Thread :
          /\ pc[t] = "write"
          /\ \E n \in 1 .. Length[cur_m[t]] :
               log' = [log EXCEPT ![cur_s[t]] = Append(@, Part(cur_s[t], cur_m[t], n))]
  /\ answer' = [m \in Msg |-> IF \E t \in Thread : cur_m[t] = m THEN "internal" ELSE answer[m]]
  /\ Gone
  /\ UNCHANGED <<segments, synced, index_file, lost>>

(* The machine loses the end of one segment, from a record after the       *)
(* synced ones on, and that record may remain in part.  An index.json that *)
(* was saved, but not synced, may be damaged; recover then goes on as      *)
(* without one.                                                            *)
PowerLoss ==
  /\ \/ \E s \in Segment : \E n \in synced[s] .. Len(log[s]) - 1 :
          /\ \/ log' = [log EXCEPT ![s] = SubSeq(@, 1, n)]
             \/ \E k \in 1 .. log[s][n + 1].bytes - 1 :
                  log' = [log EXCEPT ![s] =
                            Append(SubSeq(@, 1, n), [@[n + 1] EXCEPT !.bytes = k])]
          /\ lost' = lost \cup {log[s][i].msg : i \in n + 1 .. Len(log[s])}
     \/ UNCHANGED <<log, lost>>
  /\ index_file' \in {index_file, Empty}
  /\ answer' = [m \in Msg |-> IF \E t \in Thread : cur_m[t] = m THEN "internal" ELSE answer[m]]
  /\ Gone
  /\ UNCHANGED <<segments, synced>>

-----------------------------------------------------------------------------
Places == UNION {{<<s, i>> : i \in DOMAIN log[s]} : s \in Segment}
RecordAt(p) == log[p[1]][p[2]]

(* A torn record at the end of its file cannot be decoded.  One with       *)
(* others behind it may be, its body filled up with the bytes that follow. *)
Decodable == {p \in Places : ~Whole(RecordAt(p)) /\ p[2] < Len(log[p[1]])}

(* The scan has come to p: at the beginning of a file, or from a record    *)
(* that it could decode, by the length that this record begins with.       *)
(* Where no record begins it ends, as at one that it cannot decode.        *)
ComesTo(p, S, decoded) ==
  \/ p[2] = 1
  \/ \E q \in S :
       /\ Whole(RecordAt(q)) \/ q \in decoded
       /\ q[1] = p[1]
       /\ RecordAt(q).at + Length[RecordAt(q).msg] = RecordAt(p).at

(* A deviation: only the last segment is scanned. *)
ReadsLast(S, decoded) ==
  \A p \in Places : p \in S <=> p[1] = segments /\ ComesTo(p, S, decoded)

(* The scan reads the records S. *)
Scanned(S, decoded) == \A p \in Places : p \in S <=> ComesTo(p, S, decoded)

(* The records that index.json names: those that begin where it says, be   *)
(* they of that message or of one written there after a failure.  Where    *)
(* none begins any more, read_at finds nothing.                            *)
Indexed ==
  {p \in Places :
     \E m \in DOMAIN index_file : index_file[m] = <<p[1], RecordAt(p).at>>}

(* IndexManager's entries for the records found. *)
IndexOf(found) ==
  [m \in {RecordAt(p).msg : p \in found} |->
     LET p == CHOOSE q \in found : RecordAt(q).msg = m IN <<p[1], RecordAt(p).at>>]

(* SegmentManager's constructor goes on with the last segment, or creates  *)
(* the first.  recover reads the messages that index.json names, if it     *)
(* names any; only otherwise it scans the segments.  A torn record is read *)
(* with the bytes that follow it: recover may skip it, take what it gets   *)
(* for a message, or, in the first case only, fail on bytes that are no    *)
(* text; start then ends with everything as it was, which is no step here. *)
Start ==
  /\ server = "down"
  /\ server' = "up"
  /\ segments' = IF segments = 0 THEN 1 ELSE segments
  /\ active' = segments'
  /\ active_size' = Size(log[segments'])
  /\ \E decoded \in SUBSET Decodable, S \in SUBSET Places :
       /\ IF index_file # Empty THEN S = Indexed ELSE Scanned(S, decoded)
       /\ \E odd \in SUBSET (S \cap decoded) :
            LET found == {p \in S : Whole(RecordAt(p))} \cup odd
            IN /\ registry' = {RecordAt(p).msg : p \in found}
               /\ corrupt' = {RecordAt(p).msg : p \in odd}
               /\ index' = IF index_file # Empty THEN index_file ELSE IndexOf(found)
  /\ UNCHANGED <<log, synced, index_file, handles, threadVars, answer, lost>>

-----------------------------------------------------------------------------
Next ==
  \/ Start
  \/ \E t \in Thread : AppendWrite(t) \/ \E m \in Msg : AppendStart(t, m)
  \/ CloseFsync \/ ClosePersist \/ CloseFiles
  \/ ProcessEnds \/ PowerLoss

Spec == Init /\ [][Next]_vars

-----------------------------------------------------------------------------
(* A message whose SEND was answered +OK is in the log, once and whole,    *)
(* however segments were rolled and processes ended; only a failure of the *)
(* machine may take it (append).                                           *)
AnsweredLogged ==
  \A m \in Msg \ lost : answer[m] = "ok" =>
    \E p \in Places : \A q \in Places :
      RecordAt(q).msg = m /\ Whole(RecordAt(q)) <=> q = p

(* What the index says of a message the disk has kept is where that        *)
(* message is, in memory and in index.json, also when other records have   *)
(* been lost and written again (append, persist, recover).                 *)
IndexFindsMessage ==
  \A f \in {index, index_file} : \A m \in DOMAIN f \ lost :
    \E p \in Places : f[m] = <<p[1], RecordAt(p).at>> /\ RecordAt(p).msg = m

(* A segment passes its size by no more than one record for each thread    *)
(* that chose it before it was full (get_active_segment outside the write  *)
(* lock, and before the length of the record is looked at).                *)
SegmentBounded ==
  \A s \in Segment : Size(log[s]) < MaxBytes + Cardinality(Thread) * MaxLength

(* What has been synced stays as it is, through failures of the machine,   *)
(* restarts and later appends.                                             *)
SyncedIsFinal ==
  [][\A s \in Segment : \A i \in 1 .. synced[s] :
       i \in DOMAIN log'[s] /\ log'[s][i] = log[s][i]]_vars

-----------------------------------------------------------------------------
(* The log, seen by the server that uses it, is MessageLog.                *)
Recorded(whole) ==
  {m \in Msg : \E s \in Segment : \E i \in DOMAIN log[s] :
                 log[s][i].msg = m /\ Whole(log[s][i]) = whole}

Log == INSTANCE MessageLog WITH
  up <- server # "down",
  logged <- Recorded(TRUE),
  torn <- Recorded(FALSE),
  saved <- DOMAIN index_file,
  known <- DOMAIN index,
  recovered <- registry

(* Whatever threads, rolls, kills and failures do, segments, offsets and   *)
(* files amount to the sets of messages that MessageLog speaks of; above   *)
(* all, recovery returns all that index.json names and the disk has kept,  *)
(* or, without it and without a torn record, everything (append, close,    *)
(* recover).                                                               *)
ImplementsLog == Log!LogSpec
=============================================================================
