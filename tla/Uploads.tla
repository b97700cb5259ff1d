------------------------------- MODULE Uploads -------------------------------
(***************************************************************************)
(* FilesService: documents uploaded against a student, against a lesson or *)
(* to a tutor's library, with their bytes in a store the database knows    *)
(* nothing of.  Each upload is its own row id, and the three kinds differ  *)
(* only in the parent row they hang from, so an upload of any of them is   *)
(* the same five steps: check, create the row, save the bytes, confirm.    *)
(*                                                                         *)
(* storageKey is unique over all schools, and every row is created with    *)
(* the same placeholder key: one unconfirmed row is all there can be.      *)
(***************************************************************************)
EXTENDS Integers, FiniteSets, FiniteSetsExt

CONSTANTS
  Files,     \* row ids, one for each upload attempted
  Parents,   \* students and lessons
  Library,   \* the parent of material in a tutor's own library
  Schools,
  ParentOf, SchoolOf, SizeOf,   \* what each upload is for, and how big
  Quota,     \* maxSchoolBytes
  Removers   \* removals that may be in flight together

ASSUME UploadsAssumption ==
  /\ IsFiniteSet(Files)
  /\ Library \notin Parents
  /\ ParentOf \in [Files -> Parents \cup {Library}]
  /\ SchoolOf \in [Files -> Schools]
  /\ SizeOf \in [Files -> Nat \ {0}]
  /\ Quota \in Nat

VARIABLES
  alive,    \* the students and lessons there are
  row,      \* file -> "none", "pending" (the placeholder key), "stored", "deleted"
  bytes,    \* the files whose bytes are in the store, under keyFor's key
  pc,       \* file -> where its upload stands
  removal,  \* remover -> the removal it is carrying out
  overlapped, \* history: schools where two uploads overlapped from check to row
  failed,   \* history: uploads whose save failed or whose process died
  leaked    \* history: files whose row was deleted with nothing to delete the bytes

vars == <<alive, row, bytes, pc, removal, overlapped, failed, leaked>>

Idle == [phase |-> "idle"]

\* A removal has found the row, and then deleted it, with the key it first saw.
Removal == {Idle} \cup
  [phase : {"found", "rowGone"}, file : Files, key : {"pending", "stored"}]

Init ==
  /\ alive = Parents
  /\ row = [f \in Files |-> "none"]
  /\ bytes = {}
  /\ pc = [f \in Files |-> "start"]
  /\ removal = [r \in Removers |-> Idle]
  /\ overlapped = {}
  /\ failed = {}
  /\ leaked = {}

Exists(f)    == row[f] \in {"pending", "stored"}
Reachable(f) == ParentOf[f] \in alive \cup {Library}

\* The aggregate counts every row of the school, unconfirmed ones included.
StoredBy(sc) ==
  MapThenSumSet(LAMBDA f : SizeOf[f], {f \in Files : SchoolOf[f] = sc /\ Exists(f)})

-----------------------------------------------------------------------------
(* An upload.  One refused before its row exists leaves no trace.            *)

\* Mutant: the incoming file is left out of the sum.
CheckOldFilesOnly(f) ==
  /\ pc[f] = "start"
  /\ Reachable(f)
  /\ StoredBy(SchoolOf[f]) <= Quota
  /\ pc' = [pc EXCEPT ![f] = "checked"]
  /\ overlapped' = overlapped \cup
       {sc \in {SchoolOf[f]} :
          \E g \in Files \ {f} : SchoolOf[g] = sc /\ pc[g] = "checked"}
  /\ UNCHANGED <<alive, row, bytes, removal, failed, leaked>>

\* The parent is reachable and the school has room for this file as well.
Check(f) ==
  /\ pc[f] = "start"
  /\ Reachable(f)
  /\ StoredBy(SchoolOf[f]) + SizeOf[f] <= Quota
  /\ pc' = [pc EXCEPT ![f] = "checked"]
  /\ overlapped' = overlapped \cup
       {sc \in {SchoolOf[f]} :
          \E g \in Files \ {f} : SchoolOf[g] = sc /\ pc[g] = "checked"}
  /\ UNCHANGED <<alive, row, bytes, removal, failed, leaked>>

CreateRow(f) ==
  /\ pc[f] = "checked"
  /\ Reachable(f)
  /\ \A g \in Files : row[g] # "pending"
  /\ row' = [row EXCEPT ![f] = "pending"]
  /\ pc' = [pc EXCEPT ![f] = "created"]
  /\ UNCHANGED <<alive, bytes, removal, overlapped, failed, leaked>>

\* P2002 while another row holds the placeholder; a foreign key for a lost parent.
CreateFails(f) ==
  /\ pc[f] = "checked"
  /\ ~Reachable(f) \/ \E g \in Files : row[g] = "pending"
  /\ pc' = [pc EXCEPT ![f] = "over"]
  /\ UNCHANGED <<alive, row, bytes, removal, overlapped, failed, leaked>>

SaveBytes(f) ==
  /\ pc[f] = "created"
  /\ bytes' = bytes \cup {f}
  /\ pc' = [pc EXCEPT ![f] = "saved"]
  /\ UNCHANGED <<alive, row, removal, overlapped, failed, leaked>>

\* A write to the store may fail with some of the bytes there.
SaveFails(f) ==
  /\ pc[f] = "created"
  /\ \/ UNCHANGED bytes
     \/ bytes' = bytes \cup {f}
  /\ pc' = [pc EXCEPT ![f] = "over"]
  /\ failed' = failed \cup {f}
  /\ UNCHANGED <<alive, row, removal, overlapped, leaked>>

\* Mutant: uploadedAt is set but the placeholder key is left in place.
ConfirmKeepingKey(f) ==
  /\ pc[f] = "saved"
  /\ pc' = [pc EXCEPT ![f] = "over"]
  /\ UNCHANGED <<alive, row, bytes, removal, overlapped, failed, leaked>>

\* Mutant: an upsert, which brings back a row deleted meanwhile.
ConfirmUpserting(f) ==
  /\ pc[f] = "saved"
  /\ row' = [row EXCEPT ![f] = "stored"]
  /\ pc' = [pc EXCEPT ![f] = "over"]
  /\ UNCHANGED <<alive, bytes, removal, overlapped, failed, leaked>>

\* The row may have been deleted meanwhile: P2025, with the bytes already saved.
Confirm(f) ==
  /\ pc[f] = "saved"
  /\ row' = [row EXCEPT ![f] = IF Exists(f) THEN "stored" ELSE @]
  /\ pc' = [pc EXCEPT ![f] = "over"]
  /\ UNCHANGED <<alive, bytes, removal, overlapped, failed, leaked>>

-----------------------------------------------------------------------------
(* A removal: find the file, delete its row, delete its bytes.               *)

\* Mutant: a row another request has deleted is found all the same.
FindDeleted(r, f) ==
  /\ removal[r] = Idle
  /\ removal' = [removal EXCEPT ![r] =
                   [phase |-> "found", file |-> f, key |-> row[f]]]
  /\ UNCHANGED <<alive, row, bytes, pc, overlapped, failed, leaked>>

FindForRemoval(r, f) ==
  /\ removal[r] = Idle
  /\ Exists(f)
  /\ removal' = [removal EXCEPT ![r] =
                   [phase |-> "found", file |-> f, key |-> row[f]]]
  /\ UNCHANGED <<alive, row, bytes, pc, overlapped, failed, leaked>>

DeleteRow(r) ==
  /\ removal[r].phase = "found"
  /\ Exists(removal[r].file)
  /\ row' = [row EXCEPT ![removal[r].file] = "deleted"]
  /\ removal' = [removal EXCEPT ![r].phase = "rowGone"]
  /\ leaked' = IF removal[r].key = "pending"
               THEN leaked \cup {removal[r].file} ELSE leaked
  /\ UNCHANGED <<alive, bytes, pc, overlapped, failed>>

\* Somebody else removed it first: P2025.
RowAlreadyGone(r) ==
  /\ removal[r].phase = "found"
  /\ ~Exists(removal[r].file)
  /\ removal' = [removal EXCEPT ![r] = Idle]
  /\ UNCHANGED <<alive, row, bytes, pc, overlapped, failed, leaked>>

\* Mutant: only the row is deleted.
DeleteNothing(r) ==
  /\ removal[r].phase = "rowGone"
  /\ removal' = [removal EXCEPT ![r] = Idle]
  /\ UNCHANGED <<alive, row, bytes, pc, overlapped, failed, leaked>>

\* The key is the one first read: a placeholder names no bytes.
DeleteBytes(r) ==
  /\ removal[r].phase = "rowGone"
  /\ bytes' = IF removal[r].key = "stored"
              THEN bytes \ {removal[r].file} ELSE bytes
  /\ removal' = [removal EXCEPT ![r] = Idle]
  /\ UNCHANGED <<alive, row, pc, overlapped, failed, leaked>>

\* A failure to delete the bytes is logged and swallowed.
DeleteBytesFails(r) ==
  /\ removal[r].phase = "rowGone"
  /\ removal' = [removal EXCEPT ![r] = Idle]
  /\ leaked' = leaked \cup {removal[r].file}
  /\ UNCHANGED <<alive, row, bytes, pc, overlapped, failed>>

-----------------------------------------------------------------------------
(* What happens around them.                                                 *)

\* A student or lesson is deleted, and its file rows with it; never the bytes.
RemoveParent(p) ==
  /\ p \in alive
  /\ alive' = alive \ {p}
  /\ row' = [f \in Files |->
               IF ParentOf[f] = p /\ Exists(f) THEN "deleted" ELSE row[f]]
  /\ leaked' = leaked \cup {f \in Files : ParentOf[f] = p /\ Exists(f)}
  /\ UNCHANGED <<bytes, pc, removal, overlapped, failed>>

InFlight == {f \in Files : pc[f] \in {"checked", "created", "saved"}}

\* The process dies: every request in flight is lost where it stands.
Crash ==
  /\ pc' = [f \in Files |-> IF f \in InFlight THEN "over" ELSE pc[f]]
  /\ removal' = [r \in Removers |-> Idle]
  /\ failed' = failed \cup InFlight
  /\ leaked' = leaked \cup
       {removal[r].file : r \in {q \in Removers : removal[q].phase = "rowGone"}}
  /\ UNCHANGED <<alive, row, bytes, overlapped>>

Step(f) ==
  \/ CreateRow(f)
  \/ CreateFails(f)
  \/ SaveBytes(f)
  \/ Confirm(f)

Next ==
  \/ \E f \in Files : Check(f) \/ Step(f) \/ SaveFails(f)
  \/ \E r \in Removers, f \in Files : FindForRemoval(r, f)
  \/ \E r \in Removers :
       DeleteRow(r) \/ RowAlreadyGone(r) \/ DeleteBytes(r) \/ DeleteBytesFails(r)
  \/ \E p \in Parents : RemoveParent(p)
  \/ Crash

\* A request that is let run takes its next step.
Fairness == \A f \in Files : WF_vars(Step(f))

Spec == Init /\ [][Next]_vars /\ Fairness

-----------------------------------------------------------------------------
(* What is checked.                                                          *)

\* Rows, requests and removals have the shape the schema and the code give them.
TypeOK ==
  /\ alive \subseteq Parents
  /\ row \in [Files -> {"none", "pending", "stored", "deleted"}]
  /\ bytes \subseteq Files
  /\ pc \in [Files -> {"start", "checked", "created", "saved", "over"}]
  /\ removal \in [Removers -> Removal]
  /\ overlapped \subseteq Schools
  /\ failed \subseteq Files
  /\ leaked \subseteq Files

\* The limit is a limit for a school whose uploads never overlapped between the sum
\* and the row: no failure, crash or removal makes the sum wrong
\* (files.service.ts:211-212).
WithinQuotaUnlessOverlapped ==
  \A sc \in Schools \ overlapped : StoredBy(sc) <= Quota

\* Bytes nothing in the database knows about come only from a deletion: one that
\* overtook the upload, cascaded from a parent, or could not delete the bytes.
\* No failed upload leaves any (files.service.ts:78-82).
OrphansExplained ==
  \A f \in bytes : ~Exists(f) =>
    \/ f \in leaked
    \/ \E r \in Removers :
         removal[r].phase = "rowGone" /\ removal[r].file = f

\* What anybody can make of a file: a confirmed row without its bytes is a file
\* that is listed and cannot be opened.
Life ==
  [f \in Files |->
     IF row[f] = "stored"
     THEN IF f \in bytes THEN "shown" ELSE "unreadable"
     ELSE IF row[f] = "deleted" \/ ~Reachable(f) THEN "withdrawn" ELSE "unseen"]

Promise == INSTANCE Shelf WITH life <- Life

\* A file comes within reach in one step, whole and under its parent, and once it
\* is gone it is gone, whatever uploads and removals are still under way
\* (files.service.ts:78-82, 182-188).
ShelfSpec == Promise!Spec

\* The one placeholder is given back, so that others can upload, unless the save
\* failed or the process died while a row held it.
PlaceholderReleased ==
  \A f \in Files : row[f] = "pending" ~> row[f] # "pending" \/ f \in failed
=============================================================================
