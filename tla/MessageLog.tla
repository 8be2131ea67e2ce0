------------------------------ MODULE MessageLog ------------------------------
(***************************************************************************)
(* What the server can expect of src/persistence.py, as sets of messages:  *)
(* no segments, positions, threads or files.  Persistence implements this  *)
(* specification; Restart puts it under the broker.                        *)
(*                                                                         *)
(* It promises little: a start that finds an index.json goes by it alone,  *)
(* and a record that was cut short may hide others from the scan.          *)
(***************************************************************************)
CONSTANT Msg

VARIABLES
  up,         \* the process runs
  logged,     \* the messages with a whole record in some segment
  torn,       \* those with a record that was cut short
  saved,      \* the ids in index.json
  known,      \* the ids in IndexManager._index
  recovered   \* the messages recover has returned to this process

logVars == <<up, logged, torn, saved, known, recovered>>

LogTypeOK ==
  /\ up \in BOOLEAN
  /\ logged \subseteq Msg /\ torn \subseteq Msg /\ saved \subseteq Msg
  /\ known \subseteq Msg /\ recovered \subseteq Msg

LogInit ==
  /\ up = FALSE
  /\ logged = {} /\ torn = {} /\ saved = {} /\ known = {} /\ recovered = {}

(* append. *)
LogAppend(m) ==
  /\ up
  /\ logged' = logged \cup {m}
  /\ known' = known \cup {m}
  /\ UNCHANGED <<up, torn, saved, recovered>>

(* The part of close that outlives the process. *)
LogSave ==
  /\ up
  /\ saved' = known
  /\ UNCHANGED <<up, logged, torn, known, recovered>>

Forgotten == up' = FALSE /\ known' = {} /\ recovered' = {}

(* The process ends, with one of the appends that are under way done,      *)
(* half done or not begun.                                                 *)
LogEnd(writing) ==
  /\ up
  /\ Forgotten
  /\ \/ UNCHANGED <<logged, torn>>
     \/ \E m \in writing : logged' = logged \cup {m} /\ UNCHANGED torn
     \/ \E m \in writing : torn' = torn \cup {m} /\ UNCHANGED logged
  /\ UNCHANGED saved

(* The machine fails: what was not synced may go, or remain in part.       *)
LogFail ==
  /\ Forgotten
  /\ logged' \in SUBSET logged
  /\ torn' \in SUBSET (logged \cup torn)
  /\ saved' \in {saved, {}}

(* What recover may return. *)
Recoverable ==
  IF saved # {}
    THEN {R \in SUBSET (logged \cup torn) : saved \cap logged \subseteq R}
    ELSE {R \in SUBSET (logged \cup torn) : torn = {} => R = logged}

LogStart ==
  /\ ~up
  /\ up' = TRUE
  /\ recovered' \in Recoverable
  /\ known' = IF saved # {} THEN saved ELSE recovered'
  /\ UNCHANGED <<logged, torn, saved>>

LogNext ==
  \/ \E m \in Msg : LogAppend(m)
  \/ LogSave \/ LogEnd(Msg) \/ LogFail \/ LogStart

LogSpec == LogInit /\ [][LogNext]_logVars
=============================================================================
