----------------------------- MODULE DurableStores -----------------------------
(***************************************************************************)
(* The stores that outlive their process: the tables of UC-08, a JSON file *)
(* each (jsonfile.py), the mode file of UC-05 (json_session_mode.py) and   *)
(* the SQLite database of UC-01 (db.py, sqlite_repository.py).             *)
(*                                                                         *)
(* A JSON file is written whole, to a temporary file that then takes its   *)
(* place.  UC-08 locks the read and the write of a save each by itself,    *)
(* UC-05 both together, and a statement of SQLite is a transaction.  The   *)
(* process may be killed at any moment and started again; the machine      *)
(* stays up.  The tables do not touch one another: a behaviour is of one.  *)
(* A row is told by the saves it comes from, numbered as they began.       *)
(***************************************************************************)
EXTENDS Naturals

CONSTANTS Savers, Rows,
          MaxSaves,   \* bound
          Half,       \* a file that was not written to its end
          NoRow

VARIABLES table, disk, saves,
          saver, saving,   \* where each save is, and what it holds
          kept             \* the saves that returned

durable_vars == <<table, disk, saves, saver, saving, kept>>

JsonTable == {"streaks", "badges", "weekly_summaries", "freeze_offers", "processed_interactions"}
Table == JsonTable \cup {"session_modes", "coaching_sessions"}

\* The save that created the row, and the one whose value it has.
Row == [first : Nat \ {0}, last : Nat \ {0}]
File == [Rows -> Row \cup {NoRow}]

DurableConstants == MaxSaves \in Nat /\ NoRow \notin Row /\ Half \notin File

NoFile == [r \in Rows |-> NoRow]
NoSave == [row |-> NoRow, n |-> 0, file |-> NoFile, alone |-> TRUE]

DurableTypeOK ==
  /\ table \in Table /\ disk \in File \cup {Half} /\ saves \in 0..MaxSaves
  /\ saver \in [Savers -> {"idle", "read", "write", "replace"}]
  /\ \A w \in Savers : saving[w].file \in File /\ saving[w].n \in 0..saves
  /\ kept \subseteq [row : Rows, n : 1..saves, alone : BOOLEAN]

DurableInit ==
  /\ table \in Table /\ disk = NoFile /\ saves = 0
  /\ saver = [w \in Savers |-> "idle"] /\ saving = [w \in Savers |-> NoSave] /\ kept = {}

-----------------------------------------------------------------------------

\* award and mark_processed leave a row that is there; the others give it a new
\* value: an offer in its place in the list, a mode with its first owner.
Saved(file, row, n) ==
  [file EXCEPT ![row] = IF @ = NoRow THEN [first |-> n, last |-> n]
                        ELSE IF table \in {"badges", "processed_interactions"} THEN @
                        ELSE [@ EXCEPT !.last = n]]

Goto(w, label) == saver' = [saver EXCEPT ![w] = label]

\* A save that raises: RepositoryWriteFailed, ProviderUnavailable, sqlite3.Error.
Raise(w) == Goto(w, "idle") /\ saving' = [saving EXCEPT ![w] = NoSave] /\ UNCHANGED <<disk, kept>>

\* A save that returns.
Return(w) ==
  /\ Goto(w, "idle") /\ saving' = [saving EXCEPT ![w] = NoSave]
  /\ kept' = kept \cup {[row |-> saving[w].row, n |-> saving[w].n, alone |-> saving[w].alone]}

BeginSave(w, row) ==
  LET busy == {x \in Savers \ {w} : saver[x] # "idle"}
  IN /\ saver[w] = "idle" /\ saves < MaxSaves
     /\ saves' = saves + 1
     /\ Goto(w, "read")
     /\ saving' = [x \in Savers |->
          CASE x = w -> [NoSave EXCEPT !.row = row, !.n = saves + 1, !.alone = busy = {}]
            [] x \in busy -> [saving[x] EXCEPT !.alone = FALSE]
            [] OTHER -> saving[x]]
     /\ UNCHANGED <<table, disk, kept>>

\* read.  UC-05 keeps its lock from here to the end of the save; mark_processed
\* returns when there is nothing to add.
ReadFile(w) ==
  /\ saver[w] = "read" /\ table # "coaching_sessions"
  /\ table = "session_modes" => \A x \in Savers : saver[x] \in {"idle", "read"}
  /\ \/ Raise(w)
     \/ /\ disk # Half
        /\ IF table = "processed_interactions" /\ disk[saving[w].row] # NoRow
           THEN Return(w) /\ UNCHANGED disk
           ELSE /\ Goto(w, "write")
                /\ saving' = [saving EXCEPT ![w].file = disk]
                /\ UNCHANGED <<disk, kept>>
  /\ UNCHANGED <<table, saves>>

\* write, of the temporary file: one at a time.
WriteTemporary(w) ==
  /\ saver[w] = "write" /\ \A x \in Savers : saver[x] # "replace"
  /\ \/ Raise(w)
     \/ Goto(w, "replace") /\ UNCHANGED <<disk, saving, kept>>
  /\ UNCHANGED <<table, saves>>

\* os.replace.
Replace(w) ==
  /\ saver[w] = "replace"
  /\ \/ Raise(w)
     \/ Return(w) /\ disk' = Saved(saving[w].file, saving[w].row, saving[w].n)
  /\ UNCHANGED <<table, saves>>

\* create, update and append_event: Database.execute, with its commit.
Execute(w) ==
  /\ saver[w] = "read" /\ table = "coaching_sessions"
  /\ \/ Raise(w)
     \/ Return(w) /\ disk' = Saved(disk, saving[w].row, saving[w].n)
  /\ UNCHANGED <<table, saves>>

\* The process is killed and started again.
Restart ==
  /\ \E w \in Savers : saver[w] # "idle"
  /\ saver' = [w \in Savers |-> "idle"] /\ saving' = [w \in Savers |-> NoSave]
  /\ UNCHANGED <<table, disk, saves, kept>>

DurableNext ==
  \/ \E w \in Savers : \/ \E row \in Rows : BeginSave(w, row)
                       \/ ReadFile(w) \/ WriteTemporary(w) \/ Replace(w) \/ Execute(w)
  \/ Restart

DurableSpec == DurableInit /\ [][DurableNext]_durable_vars

-----------------------------------------------------------------------------

\* What was saved stays saved, whenever the process is killed and whatever
\* fails: a store can always be read, and the row of a save that returned is
\* there, with that save's value or a later one's, or for a badge and an
\* interaction that was processed an earlier one's.  For the tables of UC-08
\* only of a save that no other overlapped: two that did may both have read the
\* file before either wrote it, and the row of one, whoever's, is gone.
SavedStaysSaved ==
  /\ disk # Half
  /\ \A s \in kept :
       /\ s.alone \/ table \notin JsonTable => disk[s.row] # NoRow
       /\ s.alone => /\ disk[s.row].first <= s.n
                     /\ table \in {"badges", "processed_interactions"} \/ s.n <= disk[s.row].last

=============================================================================
