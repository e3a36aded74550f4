------------------------------ MODULE Captures ------------------------------
(***************************************************************************)
(* The store of detection captures, the frames an operator reviews and     *)
(* exports as training data (server/app/services/detection_capture.py).    *)
(*                                                                         *)
(* A capture is an image file and a row of the database, and the two are   *)
(* never changed in one step: create writes the file and inserts the row,  *)
(* a deletion commits the row's removal and unlinks the file afterwards.   *)
(* The hourly clean-up reads every row at once and then deletes row by row *)
(* from what it read, while operators review, delete and create.  The      *)
(* process may stop between any two of these steps.                        *)
(*                                                                         *)
(* Files are named by the order they were written in and all have size 1.  *)
(***************************************************************************)
EXTENDS Integers, Sequences, FiniteSets, SequencesExt

CONSTANTS
  MaxFiles,     \* bound: files written in a behaviour
  MaxReviews,   \* bound: review operations in a behaviour
  MaxNotes,     \* bound: annotations of one capture
  Budget        \* system.max_detection_mb, in files

VARIABLES
  rows,       \* the table: id -> [name, notes, status, old]
  files,      \* the images in the directory
  nextId,     \* the id AUTOINCREMENT gives next
  made,       \* the number of files written so far
  writing,    \* written by a create that has not inserted its row
  unlinking,  \* of a deleted row, not unlinked yet
  prune,      \* the clean-up: its phase, the rows it has still to visit and those
              \* it kept, the total it counts, the file it waits for; read is
              \* the history of what it read
  reviews,    \* the review operations so far
  strays      \* history: what a stop left without a row

vars == <<rows, files, nextId, made, writing, unlinking, prune, reviews, strays>>

Statuses == {"unreviewed", "training", "rejected"}
NoteStatuses == {"unreviewed", "accepted", "rejected"}
Note == [source : {"model", "manual"}, status : NoteStatuses]
Row == [name : 1..MaxFiles, notes : BoundedSeq(Note, MaxNotes), status : Statuses, old : BOOLEAN]

NoPrune == [phase |-> "idle", todo |-> <<>>, kept |-> <<>>, total |-> 0, busy |-> {}, read |-> {}]

Init ==
  /\ rows = <<>> /\ files = {} /\ nextId = 1 /\ made = 0
  /\ writing = {} /\ unlinking = {} /\ prune = NoPrune
  /\ reviews = 0 /\ strays = {}

---------------------------------------------------------------------------
(* create *)

\* The JPEG is on the disk, the row is not in the table.
WriteFile ==
  /\ made < MaxFiles
  /\ made' = made + 1
  /\ files' = files \cup {made'}
  /\ writing' = writing \cup {made'}
  /\ UNCHANGED <<rows, nextId, unlinking, prune, reviews, strays>>

\* sqlite_autoincrement: an id is never given twice.
SlipReusesIds(gone) == IF DOMAIN gone = {} THEN 1 ELSE 1 + (CHOOSE i \in DOMAIN gone : \A j \in DOMAIN gone : j <= i)
NewId(gone) == nextId

Insert ==
  \E n \in writing, notes \in {<<>>, <<[source |-> "model", status |-> "unreviewed"]>>} :
    LET id == NewId(rows)
        row == [name |-> n, notes |-> notes, status |-> "unreviewed", old |-> FALSE]
    IN /\ rows' = [i \in DOMAIN rows \cup {id} |-> IF i = id THEN row ELSE rows[i]]
       /\ nextId' = id + 1
       /\ writing' = writing \ {n}
       /\ UNCHANGED <<files, made, unlinking, prune, reviews, strays>>

\* The insert raised: the file is unlinked and the error goes to the caller.
Withdrawn(n) == files \ {n}

InsertFails ==
  \E n \in writing :
    /\ files' = Withdrawn(n)
    /\ writing' = writing \ {n}
    /\ UNCHANGED <<rows, nextId, made, unlinking, prune, reviews, strays>>

---------------------------------------------------------------------------
(* review *)

Marked(notes, from, to) ==
  [k \in DOMAIN notes |-> IF notes[k].status \in from THEN [notes[k] EXCEPT !.status = to] ELSE notes[k]]

\* _sync_capture_review
Synced(row) ==
  LET seen == {row.notes[k].status : k \in DOMAIN row.notes}
  IN [row EXCEPT !.status = CASE seen = {} \/ "unreviewed" \in seen -> "unreviewed"
                              [] "unreviewed" \notin seen /\ "accepted" \in seen -> "training"
                              [] OTHER -> "rejected"]

\* One review operation on row id.
Review(id, row) ==
  /\ reviews < MaxReviews
  /\ reviews' = reviews + 1
  /\ rows' = [rows EXCEPT ![id] = row]
  /\ UNCHANGED <<files, nextId, made, writing, unlinking, prune, strays>>

\* The annotations after the whole capture was marked with a status.
Remarked(notes, status) == IF status = "training" THEN notes ELSE Marked(notes, NoteStatuses, status)

UpdateReview ==
  \E id \in DOMAIN rows, status \in Statuses :
    Review(id, [rows[id] EXCEPT !.status = status, !.notes = Remarked(rows[id].notes, status)])

ReviewAnnotation ==
  \E id \in DOMAIN rows, status \in NoteStatuses :
    \E k \in DOMAIN rows[id].notes : Review(id, Synced([rows[id] EXCEPT !.notes[k].status = status]))

AddAnnotation ==
  \E id \in DOMAIN rows :
    /\ Len(rows[id].notes) < MaxNotes
    /\ Review(id, Synced([rows[id] EXCEPT !.notes = Append(@, [source |-> "manual", status |-> "accepted"])]))

\* Only a box drawn by hand can be removed.
DeleteAnnotation ==
  \E id \in DOMAIN rows :
    \E k \in DOMAIN rows[id].notes :
      /\ rows[id].notes[k].source = "manual"
      /\ Review(id, Synced([rows[id] EXCEPT !.notes = RemoveAt(@, k)]))

RejectUnreviewed ==
  \E id \in DOMAIN rows :
    Review(id, Synced([rows[id] EXCEPT !.notes = Marked(@, {"unreviewed"}, "rejected")]))

\* bulk_review: every chosen capture in one transaction.
BulkReject ==
  \E ids \in SUBSET DOMAIN rows :
    /\ ids # {} /\ reviews < MaxReviews
    /\ reviews' = reviews + 1
    /\ rows' = [i \in DOMAIN rows |->
                 IF i \in ids
                 THEN [rows[i] EXCEPT !.status = "rejected", !.notes = Marked(@, NoteStatuses, "rejected")]
                 ELSE rows[i]]
    /\ UNCHANGED <<files, nextId, made, writing, unlinking, prune, strays>>

---------------------------------------------------------------------------
(* deletion: the rows in one transaction, the files afterwards *)

Names(ids) == {rows[i].name : i \in ids}

\* The transaction that deletes these rows.

Drop(ids) ==
  /\ rows' = [i \in DOMAIN rows \ ids |-> rows[i]]
  /\ unlinking' = unlinking \cup Names(ids)
  /\ UNCHANGED files

\* delete and bulk_review("delete").
Delete ==
  \E ids \in SUBSET DOMAIN rows :
    /\ ids # {}
    /\ Drop(ids)
    /\ UNCHANGED <<nextId, made, writing, prune, reviews, strays>>

Unlink ==
  \E n \in unlinking :
    /\ files' = files \ {n}
    /\ unlinking' = unlinking \ {n}
    /\ UNCHANGED <<rows, nextId, made, writing, prune, reviews, strays>>

---------------------------------------------------------------------------
(* prune *)

Read(id) == [id |-> id, name |-> rows[id].name, status |-> rows[id].status, old |-> rows[id].old]

\* Every row, by rising id: the one such order.
Orders(ids) == {f \in [1..Cardinality(ids) -> ids] : \A j, k \in DOMAIN f : j < k => f[j] < f[k]}
Snapshots == {[k \in DOMAIN f |-> Read(f[k])] : f \in Orders(DOMAIN rows)}

PruneBegin ==
  /\ prune.phase = "idle"
  /\ \E all \in Snapshots : prune' = [NoPrune EXCEPT !.phase = "old", !.todo = all, !.read = ToSet(all)]
  /\ UNCHANGED <<rows, files, nextId, made, writing, unlinking, reviews, strays>>

\* delete takes the row that has this id now, whatever the clean-up read of
\* it, and answers no when there is none.  Its unlink is awaited.
PruneDelete(ids) ==
  /\ IF ids = {} THEN UNCHANGED <<rows, files, unlinking>> ELSE Drop(ids)
  /\ UNCHANGED <<nextId, made, writing, reviews, strays>>

\* The clean-up is at the head of its list and none of its files waits.
At(phase) == prune.phase = phase /\ prune.busy \cap unlinking = {}

\* The rows the clean-up may delete.
Removable(r) == r.status # "training"

\* The first pass deletes what is past its retention; what it did not delete
\* goes into the list of the second pass.
PruneOld ==
  /\ At("old") /\ prune.todo # <<>>
  /\ LET r == Head(prune.todo)
         ids == {i \in DOMAIN rows : i = r.id /\ Removable(r) /\ r.old}
     IN /\ PruneDelete(ids)
        /\ prune' = [prune EXCEPT !.todo = Tail(@), !.busy = Names(ids),
                                  !.kept = IF ids = {} THEN Append(@, r) ELSE @]

PruneMeasure ==
  /\ At("old") /\ prune.todo = <<>>
  /\ prune' = [prune EXCEPT !.phase = "room", !.todo = prune.kept,
                            !.total = Cardinality({r \in ToSet(prune.kept) : r.name \in files})]
  /\ PruneDelete({})

\* The total after row r: only a deletion lowers it.
Remaining(total, r, gone) == IF gone /\ r.name \in files THEN total - 1 ELSE total

PruneRoom ==
  /\ At("room") /\ prune.todo # <<>> /\ prune.total > Budget
  /\ LET r == Head(prune.todo)
         ids == {i \in DOMAIN rows : i = r.id /\ Removable(r)}
     IN /\ PruneDelete(ids)
        /\ prune' = [prune EXCEPT !.todo = Tail(@), !.busy = Names(ids),
                                  !.total = Remaining(@, r, ids # {})]

PruneDone ==
  /\ At("room") /\ (prune.todo = <<>> \/ prune.total <= Budget)
  /\ prune' = [prune EXCEPT !.phase = "done"]
  /\ PruneDelete({})

PruneEnd ==
  /\ prune.phase = "done"
  /\ prune' = NoPrune
  /\ PruneDelete({})

---------------------------------------------------------------------------
\* The retention time passes for a capture.
Age ==
  \E id \in DOMAIN rows :
    /\ ~rows[id].old
    /\ rows' = [rows EXCEPT ![id].old = TRUE]
    /\ UNCHANGED <<files, nextId, made, writing, unlinking, prune, reviews, strays>>

\* The process stops and starts: what was under way is forgotten.
Crash ==
  /\ writing # {} \/ unlinking # {} \/ prune # NoPrune
  /\ strays' = strays \cup ((writing \cup unlinking) \cap files)
  /\ writing' = {} /\ unlinking' = {} /\ prune' = NoPrune
  /\ UNCHANGED <<rows, files, nextId, made, reviews>>

Prune == PruneBegin \/ PruneOld \/ PruneMeasure \/ PruneRoom \/ PruneDone \/ PruneEnd

Next ==
  \/ WriteFile \/ Insert \/ InsertFails
  \/ UpdateReview \/ ReviewAnnotation \/ AddAnnotation \/ DeleteAnnotation
  \/ RejectUnreviewed \/ BulkReject
  \/ Delete \/ Unlink \/ Prune \/ Age \/ Crash

Spec == Init /\ [][Next]_vars

---------------------------------------------------------------------------
(* Properties *)

\* Every row is a capture with an id already given, and no file is unknown.
TypeOK ==
  /\ DOMAIN rows \subseteq 1..nextId - 1 /\ \A i \in DOMAIN rows : rows[i] \in Row
  /\ files \cup writing \cup unlinking \cup strays \subseteq 1..made /\ made \in 0..MaxFiles
  /\ prune.phase \in {"idle", "old", "room", "done"} /\ prune.total \in 0..MaxFiles
  /\ prune.busy \subseteq {r.name : r \in prune.read} /\ reviews \in 0..MaxReviews

\* A row never names a missing image, through failed inserts, deletions and
\* stops at any point (create, delete: the row is last in and first out).
RowHasFile == Names(DOMAIN rows) \subseteq files

\* An image without a row is about to get one, about to go, or was left by a
\* stop of the process; no failure of the database leaves one (create).
FilesTracked == files \subseteq Names(DOMAIN rows) \cup writing \cup unlinking \cup strays

\* A capture marked rejected, an empty example for the training, shows no
\* box somebody accepted or nobody looked at, whatever reviews came before
\* (update_review, _sync_capture_review, bulk_review).
RejectedIsNegative ==
  \A i \in DOMAIN rows : rows[i].status = "rejected" =>
    \A k \in DOMAIN rows[i].notes : rows[i].notes[k].status = "rejected"

\* The clean-up deletes only captures it has read, and read as not selected,
\* even when operators delete and create captures while it works (prune
\* keeps ids across awaits; models.py: ids are never used again).
DeletesWhatItRead ==
  [][ (prune.phase \in {"old", "room"} /\ prune' # prune /\ prune'.phase # "idle")
      => Names(DOMAIN rows) \ {rows'[i].name : i \in DOMAIN rows'}
           \subseteq {r.name : r \in {s \in prune.read : s.status # "training"}} ]_vars

\* When the clean-up ends, what is left of the captures it read fits the
\* budget or is all selected for training (prune, second pass).
BudgetMet ==
  prune.phase = "done" =>
    LET left == {r \in prune.read : r.name \in Names(DOMAIN rows)}
    IN Cardinality(left) <= Budget \/ \A r \in left : r.status = "training"

\* All that holds.
Kept ==
  [](TypeOK /\ RowHasFile /\ FilesTracked /\ RejectedIsNegative /\ BudgetMet) /\ DeletesWhatItRead

\* What the docstring of prune says, "preserving training selections": a
\* capture that is selected when the clean-up reaches it stays.  The code
\* looks at the status it read before the first deletion.
SelectionsKept ==
  [][ (prune.phase \in {"old", "room"} /\ prune' # prune /\ prune'.phase # "idle")
      => \A i \in DOMAIN rows \ DOMAIN rows' : rows[i].status # "training" ]_vars

=============================================================================
