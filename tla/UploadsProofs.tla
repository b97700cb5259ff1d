---------------------------- MODULE UploadsProofs -----------------------------
(***************************************************************************)
(* Proofs about Uploads, for any files of any size, parents, schools,      *)
(* quota and number of removals under way: a confirmed row has its bytes   *)
(* and its parent, bytes without a row come only from a deletion, and the  *)
(* quota holds in a school whose uploads do not overlap.  Last, that all   *)
(* of it together implements Shelf.                                        *)
(***************************************************************************)
EXTENDS Uploads, SumFacts

\* How far an upload has come says what row and bytes it has left behind.
UploadsFit ==
  \A f \in Files :
    /\ pc[f] \in {"start", "checked"} => row[f] = "none"
    /\ row[f] = "stored" => pc[f] = "over"
    /\ pc[f] = "saved" => f \in bytes \/ row[f] = "deleted"
    /\ pc[f] \in {"created", "saved"} =>
         row[f] = "pending" \/ (row[f] = "deleted" /\ f \in leaked)
    /\ f \in bytes => row[f] # "none"

\* A removal past its first statement deleted the row, and one that saw the
\* placeholder key leaks whatever is saved.
RemovalsFit ==
  \A r \in Removers : removal[r] # Idle =>
    LET gone == removal[r] IN
    /\ gone.key = "stored" => pc[gone.file] = "over"
    /\ gone.phase = "rowGone" => row[gone.file] = "deleted"
    /\ gone.phase = "rowGone" /\ gone.key = "pending" => gone.file \in leaked

Checked(sc) == {f \in Files : pc[f] = "checked" /\ SchoolOf[f] = sc}

\* Between the sum and the row, one upload at a time, and it still fits.
CheckedFit ==
  \A sc \in Schools \ overlapped :
    /\ \A f, g \in Checked(sc) : f = g
    /\ \A f \in Checked(sc) : StoredBy(sc) + SizeOf[f] <= Quota

\* A confirmed row can be opened: its bytes are there, whatever is being removed
\* beside it (files.service.ts:182-188).
ConfirmedHasBytes == \A f \in Files : row[f] = "stored" => f \in bytes

\* A row hangs from a student or lesson that is there, whatever was deleted while
\* its upload was under way.
RowHasParent == \A f \in Files : Exists(f) => Reachable(f)

IInv ==
  /\ TypeOK
  /\ UploadsFit
  /\ RemovalsFit
  /\ CheckedFit
  /\ ConfirmedHasBytes
  /\ WithinQuotaUnlessOverlapped
  /\ OrphansExplained
  /\ RowHasParent

-----------------------------------------------------------------------------
(* The sum.                                                                  *)

FilesOf(sc) == {f \in Files : SchoolOf[f] = sc /\ Exists(f)}

LEMMA StoredByIs ==
  /\ \A sc \in Schools : StoredBy(sc) = Total(SizeOf, FilesOf(sc))
  /\ \A sc \in Schools : StoredBy(sc)' = Total(SizeOf, FilesOf(sc)')
<1>1. ASSUME NEW sc \in Schools
      PROVE  StoredBy(sc) = Total(SizeOf, FilesOf(sc))
  BY DEF StoredBy, Total, FilesOf, MapThenSumSet, MapThenFoldSet
<1>2. ASSUME NEW sc \in Schools
      PROVE  StoredBy(sc)' = Total(SizeOf, FilesOf(sc)')
  BY DEF StoredBy, Total, FilesOf, MapThenSumSet, MapThenFoldSet
<1> QED BY <1>1, <1>2

LEMMA Sizes ==
  /\ IsFiniteSet(Files)
  /\ SizeOf \in [Files -> Nat]
  /\ \A f \in Files : SizeOf[f] \in Nat /\ SchoolOf[f] \in Schools
  /\ Quota \in Nat
  /\ \A sc \in Schools : StoredBy(sc) \in Nat /\ StoredBy(sc)' \in Nat
<1>1. /\ IsFiniteSet(Files)
      /\ SizeOf \in [Files -> Nat]
      /\ \A f \in Files : SizeOf[f] \in Nat /\ SchoolOf[f] \in Schools
      /\ Quota \in Nat
  BY UploadsAssumption DEF UploadsAssumption
<1>2. ASSUME NEW sc \in Schools
      PROVE  StoredBy(sc) \in Nat /\ StoredBy(sc)' \in Nat
  <2>1. FilesOf(sc) \in SUBSET Files /\ FilesOf(sc)' \in SUBSET Files
    BY DEF FilesOf
  <2> QED BY <1>1, <2>1, StoredByIs, TotalNat
<1> QED BY <1>1, <1>2

\* Rows that go leave no less room.
LEMMA StoredShrinks ==
  ASSUME \A f \in Files : Exists(f)' => Exists(f), NEW sc \in Schools
  PROVE  StoredBy(sc)' <= StoredBy(sc)
<1>1. FilesOf(sc) \in SUBSET Files /\ FilesOf(sc)' \in SUBSET FilesOf(sc)
  BY DEF FilesOf
<1> QED BY <1>1, Sizes, StoredByIs, TotalGrows

\* A step that starts no upload and adds no row cannot break the quota.
LEMMA QuotaKept ==
  ASSUME CheckedFit, WithinQuotaUnlessOverlapped,
         \A f \in Files : Exists(f)' => Exists(f),
         \A f \in Files : pc'[f] = "checked" => pc[f] = "checked",
         overlapped' = overlapped
  PROVE  (CheckedFit /\ WithinQuotaUnlessOverlapped)'
<1>1. \A sc \in Schools : Checked(sc)' \subseteq Checked(sc)
  BY DEF Checked
<1>2. \A sc \in Schools : StoredBy(sc)' <= StoredBy(sc)
  BY StoredShrinks
<1>3. \A sc \in Schools : \A f \in Checked(sc) : SizeOf[f] \in Nat
  BY Sizes DEF Checked
<1>4. CheckedFit'
  <2> SUFFICES ASSUME NEW sc \in Schools \ overlapped
               PROVE  /\ \A f, g \in Checked(sc)' : f = g
                      /\ \A f \in Checked(sc)' : StoredBy(sc)' + SizeOf[f] <= Quota
    BY DEF CheckedFit
  <2>1. \A f, g \in Checked(sc)' : f = g
    BY <1>1 DEF CheckedFit
  <2>2. ASSUME NEW f \in Checked(sc)'
        PROVE  StoredBy(sc)' + SizeOf[f] <= Quota
    <3>1. f \in Checked(sc) /\ SizeOf[f] \in Nat
      BY <1>1, <1>3
    <3>2. StoredBy(sc) + SizeOf[f] <= Quota
      BY <3>1 DEF CheckedFit
    <3> QED BY <1>2, <3>1, <3>2, Sizes
  <2> QED BY <2>1, <2>2
<1>5. WithinQuotaUnlessOverlapped'
  <2> SUFFICES ASSUME NEW sc \in Schools \ overlapped
               PROVE  StoredBy(sc)' <= Quota
    BY DEF WithinQuotaUnlessOverlapped
  <2>1. StoredBy(sc) <= Quota
    BY DEF WithinQuotaUnlessOverlapped
  <2> QED BY <1>2, <2>1, Sizes
<1> QED BY <1>4, <1>5

LEMMA CheckKeepsQuota ==
  ASSUME IInv, NEW f \in Files, Check(f)
  PROVE  (CheckedFit /\ WithinQuotaUnlessOverlapped)'
<1> USE DEF IInv
<1>1. \A sc \in Schools : StoredBy(sc)' = StoredBy(sc)
  <2>1. \A sc \in Schools : FilesOf(sc)' = FilesOf(sc)
    BY DEF Check, FilesOf, Exists
  <2> QED BY <2>1, StoredByIs
<1>2. overlapped \subseteq overlapped'
  BY DEF Check
<1>3. WithinQuotaUnlessOverlapped'
  BY <1>1, <1>2 DEF WithinQuotaUnlessOverlapped
<1>4. CheckedFit'
  <2> SUFFICES ASSUME NEW sc \in Schools \ overlapped'
               PROVE  /\ \A g, h \in Checked(sc)' : g = h
                      /\ \A g \in Checked(sc)' : StoredBy(sc)' + SizeOf[g] <= Quota
    BY DEF CheckedFit
  <2>1. CASE SchoolOf[f] # sc
    <3>1. Checked(sc)' \subseteq Checked(sc)
      BY <2>1 DEF Check, Checked, TypeOK
    <3> QED BY <1>1, <1>2, <3>1 DEF CheckedFit
  <2>2. CASE SchoolOf[f] = sc
    <3>1. \A g \in Files \ {f} : ~ (SchoolOf[g] = sc /\ pc[g] = "checked")
      BY <2>2 DEF Check
    <3>2. Checked(sc)' \subseteq {f}
      BY <3>1 DEF Check, Checked, TypeOK
    <3>3. StoredBy(sc) + SizeOf[f] <= Quota
      BY <2>2 DEF Check
    <3> QED BY <1>1, <3>2, <3>3
  <2> QED BY <2>1, <2>2
<1> QED BY <1>3, <1>4

\* The row takes the room the check had left for it, and nobody else's.
LEMMA CreateRowKeepsQuota ==
  ASSUME IInv, NEW f \in Files, CreateRow(f)
  PROVE  (CheckedFit /\ WithinQuotaUnlessOverlapped)'
<1> USE DEF IInv
<1>1. /\ pc[f] = "checked" /\ row[f] = "none" /\ ~Exists(f) /\ Exists(f)'
      /\ \A g \in Files \ {f} : Exists(g)' = Exists(g)
      /\ overlapped' = overlapped
      /\ \A g \in Files : pc'[g] = "checked" => pc[g] = "checked" /\ g # f
  BY DEF CreateRow, UploadsFit, Exists, TypeOK
<1>2. \A sc \in Schools : Checked(sc)' \subseteq Checked(sc) \ {f}
  BY <1>1 DEF Checked
<1>3. ASSUME NEW sc \in Schools, sc # SchoolOf[f]
      PROVE  StoredBy(sc)' = StoredBy(sc)
  <2>1. FilesOf(sc)' = FilesOf(sc)
    BY <1>1, <1>3 DEF FilesOf
  <2> QED BY <2>1, StoredByIs
<1>4. StoredBy(SchoolOf[f])' = StoredBy(SchoolOf[f]) + SizeOf[f]
  <2> DEFINE before == FilesOf(SchoolOf[f])
             after == FilesOf(SchoolOf[f])'
  <2>1. before = after \ {f} /\ f \in after /\ after \in SUBSET Files
    BY <1>1 DEF FilesOf
  <2>2. Total(SizeOf, after) = SizeOf[f] + Total(SizeOf, after \ {f})
    BY <2>1, Sizes, TotalWithout
  <2>3. /\ Total(SizeOf, after) = StoredBy(SchoolOf[f])'
        /\ Total(SizeOf, before) = StoredBy(SchoolOf[f])
    BY Sizes, StoredByIs
  <2> HIDE DEF before, after
  <2> QED BY <2>1, <2>2, <2>3, Sizes
<1>5. ASSUME NEW sc \in Schools \ overlapped
      PROVE  /\ \A g, h \in Checked(sc)' : g = h
             /\ \A g \in Checked(sc)' : StoredBy(sc)' + SizeOf[g] <= Quota
             /\ StoredBy(sc)' <= Quota
  <2>1. CASE sc # SchoolOf[f]
    BY <1>2, <1>3, <2>1 DEF CheckedFit, WithinQuotaUnlessOverlapped
  <2>2. CASE sc = SchoolOf[f]
    <3>1. f \in Checked(sc)
      BY <1>1, <2>2 DEF Checked
    <3>2. Checked(sc)' = {}
      BY <1>2, <3>1 DEF CheckedFit
    <3>3. StoredBy(sc) + SizeOf[f] <= Quota
      BY <3>1 DEF CheckedFit
    <3> QED BY <1>4, <2>2, <3>2, <3>3
  <2> QED BY <2>1, <2>2
<1> QED BY <1>1, <1>5 DEF CheckedFit, WithinQuotaUnlessOverlapped

-----------------------------------------------------------------------------
(* The steps of an upload.                                                   *)

LEMMA CheckKeeps ==
  ASSUME IInv, NEW f \in Files, Check(f)
  PROVE  IInv'
<1> USE DEF IInv
<1>1. (CheckedFit /\ WithinQuotaUnlessOverlapped)'
  BY CheckKeepsQuota
<1>2. /\ pc[f] = "start" /\ pc' = [pc EXCEPT ![f] = "checked"]
      /\ overlapped' \subseteq Schools
      /\ UNCHANGED <<alive, row, bytes, removal, failed, leaked>>
  BY Sizes DEF Check, TypeOK
<1>3. TypeOK' /\ UploadsFit'
  BY <1>2 DEF TypeOK, UploadsFit
<1>4. RemovalsFit'
  <2>1. \A g \in Files : pc[g] = "over" => pc'[g] = "over"
    BY <1>2 DEF TypeOK
  <2> QED BY <1>2, <2>1 DEF RemovalsFit, TypeOK, Removal
<1>5. (ConfirmedHasBytes /\ OrphansExplained /\ RowHasParent)'
  BY <1>2 DEF ConfirmedHasBytes, OrphansExplained, RowHasParent, Exists, Reachable
<1> QED BY <1>1, <1>3, <1>4, <1>5

LEMMA CreateRowKeeps ==
  ASSUME IInv, NEW f \in Files, CreateRow(f)
  PROVE  IInv'
<1> USE DEF IInv
<1>1. (CheckedFit /\ WithinQuotaUnlessOverlapped)'
  BY CreateRowKeepsQuota
<1>2. /\ pc[f] = "checked" /\ row[f] = "none" /\ Reachable(f) /\ f \notin bytes
      /\ pc' = [pc EXCEPT ![f] = "created"]
      /\ row' = [row EXCEPT ![f] = "pending"]
      /\ UNCHANGED <<alive, bytes, removal, overlapped, failed, leaked>>
  BY DEF CreateRow, UploadsFit
<1>3. TypeOK' /\ UploadsFit'
  BY <1>2 DEF TypeOK, UploadsFit
<1>4. RemovalsFit'
  <2>1. \A g \in Files : /\ pc[g] = "over" => pc'[g] = "over"
                         /\ row[g] = "deleted" => row'[g] = "deleted"
    BY <1>2 DEF TypeOK
  <2> QED BY <1>2, <2>1 DEF RemovalsFit, TypeOK, Removal
<1>5. (ConfirmedHasBytes /\ OrphansExplained /\ RowHasParent)'
  BY <1>2 DEF ConfirmedHasBytes, OrphansExplained, RowHasParent, Exists, Reachable, TypeOK
<1> QED BY <1>1, <1>3, <1>4, <1>5

LEMMA CreateFailsKeeps ==
  ASSUME IInv, NEW f \in Files, CreateFails(f)
  PROVE  IInv'
<1> USE DEF IInv
<1>1. /\ pc[f] = "checked" /\ pc' = [pc EXCEPT ![f] = "over"]
      /\ UNCHANGED <<alive, row, bytes, removal, overlapped, failed, leaked>>
  BY DEF CreateFails
<1>2. TypeOK' /\ UploadsFit'
  BY <1>1 DEF TypeOK, UploadsFit
<1>3. RemovalsFit'
  <2>1. \A g \in Files : pc[g] = "over" => pc'[g] = "over"
    BY <1>1 DEF TypeOK
  <2> QED BY <1>1, <2>1 DEF RemovalsFit, TypeOK, Removal
<1>4. (CheckedFit /\ WithinQuotaUnlessOverlapped)'
  BY <1>1, QuotaKept DEF Exists, TypeOK
<1>5. (ConfirmedHasBytes /\ OrphansExplained /\ RowHasParent)'
  BY <1>1 DEF ConfirmedHasBytes, OrphansExplained, RowHasParent, Exists, Reachable
<1> QED BY <1>2, <1>3, <1>4, <1>5

\* Bytes are saved for a row that is there, or was deleted and leaks them.
LEMMA SaveKeeps ==
  ASSUME IInv, NEW f \in Files, SaveBytes(f) \/ SaveFails(f)
  PROVE  IInv'
<1> USE DEF IInv
<1>1. /\ pc[f] = "created" /\ (row[f] = "pending" \/ f \in leaked) /\ row[f] # "none"
      /\ \/ pc' = [pc EXCEPT ![f] = "saved"] /\ bytes' = bytes \cup {f}
         \/ pc' = [pc EXCEPT ![f] = "over"] /\ bytes' \in {bytes, bytes \cup {f}}
      /\ failed' \subseteq Files
      /\ UNCHANGED <<alive, row, removal, overlapped, leaked>>
  BY DEF SaveBytes, SaveFails, UploadsFit, TypeOK
<1>2. TypeOK' /\ UploadsFit'
  BY <1>1 DEF TypeOK, UploadsFit
<1>3. RemovalsFit'
  <2>1. \A g \in Files : pc[g] = "over" => pc'[g] = "over"
    BY <1>1 DEF TypeOK
  <2> QED BY <1>1, <2>1 DEF RemovalsFit, TypeOK, Removal
<1>4. (CheckedFit /\ WithinQuotaUnlessOverlapped)'
  BY <1>1, QuotaKept DEF Exists, TypeOK
<1>5. (ConfirmedHasBytes /\ OrphansExplained /\ RowHasParent)'
  BY <1>1 DEF ConfirmedHasBytes, OrphansExplained, RowHasParent, Exists, Reachable
<1> QED BY <1>2, <1>3, <1>4, <1>5

LEMMA ConfirmKeeps ==
  ASSUME IInv, NEW f \in Files, Confirm(f)
  PROVE  IInv'
<1> USE DEF IInv
<1>1. /\ pc[f] = "saved" /\ (f \in bytes \/ row[f] = "deleted") /\ row[f] # "none"
      /\ pc' = [pc EXCEPT ![f] = "over"]
      /\ row' = [row EXCEPT ![f] = IF Exists(f) THEN "stored" ELSE row[f]]
      /\ UNCHANGED <<alive, bytes, removal, overlapped, failed, leaked>>
  BY DEF Confirm, UploadsFit
<1>2. \A g \in Files :
        /\ Exists(g)' <=> Exists(g)
        /\ row[g] = "deleted" => row'[g] = "deleted"
        /\ row'[g] = "none" => row[g] = "none"
        /\ pc[g] = "over" => pc'[g] = "over"
        /\ row'[g] = "stored" => g \in bytes \/ row[g] = "stored"
  BY <1>1 DEF Exists, TypeOK
<1>3. TypeOK' /\ UploadsFit'
  BY <1>1, <1>2 DEF TypeOK, UploadsFit, Exists
<1>4. RemovalsFit'
  BY <1>1, <1>2 DEF RemovalsFit, TypeOK, Removal
<1>5. (CheckedFit /\ WithinQuotaUnlessOverlapped)'
  BY <1>1, <1>2, QuotaKept DEF TypeOK
<1>6. ConfirmedHasBytes'
  BY <1>1, <1>2 DEF ConfirmedHasBytes
<1>7. (OrphansExplained /\ RowHasParent)'
  BY <1>1, <1>2 DEF OrphansExplained, RowHasParent, Reachable, TypeOK
<1> QED BY <1>3, <1>4, <1>5, <1>6, <1>7

-----------------------------------------------------------------------------
(* The steps of a removal.                                                   *)

\* Any removal but an idle one names a file and the key it saw.
LEMMA Removing ==
  ASSUME TypeOK, NEW r \in Removers, removal[r].phase # "idle"
  PROVE  /\ removal[r] # Idle
         /\ removal[r] \in [phase : {"found", "rowGone"}, file : Files, key : {"pending", "stored"}]
         /\ removal[r].file \in Files
BY DEF TypeOK, Removal, Idle

LEMMA FindForRemovalKeeps ==
  ASSUME IInv, NEW r \in Removers, NEW f \in Files, FindForRemoval(r, f)
  PROVE  IInv'
<1> USE DEF IInv
<1> DEFINE found == [phase |-> "found", file |-> f, key |-> row[f]]
<1>1. /\ Exists(f) /\ row[f] \in {"pending", "stored"}
      /\ removal[r] = Idle
      /\ removal' = [removal EXCEPT ![r] = found]
      /\ UNCHANGED <<alive, row, bytes, pc, overlapped, failed, leaked>>
  BY DEF FindForRemoval, Exists
<1>2. found \in Removal
  BY <1>1 DEF Removal
<1>3. TypeOK' /\ UploadsFit'
  BY <1>1, <1>2 DEF TypeOK, UploadsFit
<1>4. RemovalsFit'
  <2>1. row[f] = "stored" => pc[f] = "over"
    BY DEF UploadsFit
  <2>2. \A q \in Removers \ {r} : removal'[q] = removal[q]
    BY <1>1 DEF TypeOK
  <2>3. removal'[r] = found
    BY <1>1 DEF TypeOK
  <2> QED BY <1>1, <2>1, <2>2, <2>3 DEF RemovalsFit
<1>5. (CheckedFit /\ WithinQuotaUnlessOverlapped)'
  BY <1>1, QuotaKept DEF Exists
<1>6. (ConfirmedHasBytes /\ RowHasParent)'
  BY <1>1 DEF ConfirmedHasBytes, RowHasParent, Exists, Reachable
<1>7. OrphansExplained'
  <2>1. removal[r].phase # "rowGone"
    BY <1>1 DEF Idle
  <2>2. \A q \in Removers : removal[q].phase = "rowGone" => removal'[q] = removal[q]
    BY <1>1, <2>1 DEF TypeOK
  <2> QED BY <1>1, <2>2 DEF OrphansExplained, Exists
<1> QED BY <1>3, <1>4, <1>5, <1>6, <1>7

LEMMA DeleteRowKeeps ==
  ASSUME IInv, NEW r \in Removers, DeleteRow(r)
  PROVE  IInv'
<1> USE DEF IInv
<1> DEFINE f == removal[r].file
           gone == [removal[r] EXCEPT !.phase = "rowGone"]
<1>1. /\ removal[r].phase = "found" /\ removal[r] # Idle /\ f \in Files
      /\ removal[r] \in [phase : {"found", "rowGone"}, file : Files, key : {"pending", "stored"}]
  BY Removing DEF DeleteRow
<1>2. /\ Exists(f)
      /\ row' = [row EXCEPT ![f] = "deleted"]
      /\ removal' = [removal EXCEPT ![r] = gone]
      /\ leaked' = IF removal[r].key = "pending" THEN leaked \cup {f} ELSE leaked
      /\ UNCHANGED <<alive, bytes, pc, overlapped, failed>>
  BY DEF DeleteRow
<1>3. /\ gone \in [phase : {"found", "rowGone"}, file : Files, key : {"pending", "stored"}]
      /\ gone.phase = "rowGone" /\ gone.file = f /\ gone.key = removal[r].key
  BY <1>1
<1>4. /\ row' \in [Files -> {"none", "pending", "stored", "deleted"}]
      /\ row'[f] = "deleted"
      /\ \A g \in Files \ {f} : row'[g] = row[g]
      /\ removal' \in [Removers -> Removal]
      /\ removal'[r] = gone
      /\ \A q \in Removers \ {r} : removal'[q] = removal[q]
  BY <1>1, <1>2, <1>3 DEF TypeOK, Removal
<1> HIDE DEF gone
<1>5. removal[r].key = "stored" => pc[f] = "over"
  BY <1>1 DEF RemovalsFit
<1>6. removal[r].key \in {"pending", "stored"}
  BY <1>1
<1> HIDE DEF f
<1>7. TypeOK'
  BY <1>1, <1>2, <1>4 DEF TypeOK
<1>8. UploadsFit'
  BY <1>1, <1>2, <1>4, <1>5, <1>6 DEF UploadsFit, Exists
<1>9. RemovalsFit'
  <2> SUFFICES ASSUME NEW q \in Removers, removal'[q] # Idle
               PROVE  /\ removal'[q].key = "stored" => pc[removal'[q].file] = "over"
                      /\ removal'[q].phase = "rowGone" => row'[removal'[q].file] = "deleted"
                      /\ removal'[q].phase = "rowGone" /\ removal'[q].key = "pending" =>
                           removal'[q].file \in leaked'
    BY <1>2 DEF RemovalsFit
  <2>1. CASE q = r
    BY <1>2, <1>3, <1>4, <1>5, <2>1
  <2>2. CASE q # r
    <3>1. removal'[q] = removal[q] /\ removal[q].file \in Files
      BY <1>4, <2>2 DEF TypeOK, Removal
    <3>2. row[removal[q].file] = "deleted" => row'[removal[q].file] = "deleted"
      BY <1>4, <3>1
    <3> QED BY <1>2, <3>1, <3>2 DEF RemovalsFit
  <2> QED BY <2>1, <2>2
<1>10. \A g \in Files : Exists(g)' => Exists(g) /\ g # f
  BY <1>2, <1>4 DEF Exists
<1>11. (CheckedFit /\ WithinQuotaUnlessOverlapped)'
  BY <1>2, <1>10, QuotaKept
<1>12. (ConfirmedHasBytes /\ RowHasParent)'
  BY <1>1, <1>2, <1>4, <1>10 DEF ConfirmedHasBytes, RowHasParent, Reachable
<1>13. OrphansExplained'
  <2> SUFFICES ASSUME NEW g \in bytes, ~Exists(g)'
               PROVE  \/ g \in leaked'
                      \/ \E q \in Removers :
                           removal'[q].phase = "rowGone" /\ removal'[q].file = g
    BY <1>2 DEF OrphansExplained
  <2>1. CASE g = f
    BY <1>3, <1>4, <2>1
  <2>2. CASE g # f
    <3>1. g \in Files /\ ~Exists(g)
      BY <1>4, <2>2 DEF Exists, TypeOK
    <3>2. \A q \in Removers : removal[q].phase = "rowGone" => removal'[q] = removal[q]
      BY <1>1, <1>4
    <3> QED BY <1>2, <3>1, <3>2 DEF OrphansExplained
  <2> QED BY <2>1, <2>2
<1> QED BY <1>7, <1>8, <1>9, <1>11, <1>12, <1>13

\* A removal that ends takes nothing with it that the bytes still answer to.
LEMMA RemovalEnds ==
  ASSUME IInv, NEW r \in Removers,
         removal[r].phase \in {"found", "rowGone"},
         removal' = [removal EXCEPT ![r] = Idle],
         leaked \subseteq leaked', leaked' \subseteq Files, bytes' \subseteq bytes,
         bytes \ bytes' \subseteq {f \in Files : row[f] = "deleted"},
         removal[r].phase = "rowGone" =>
           removal[r].file \notin bytes' \/ removal[r].file \in leaked',
         UNCHANGED <<alive, row, pc, overlapped, failed>>
  PROVE  IInv'
<1> USE DEF IInv
<1>1. /\ removal'[r] = Idle
      /\ \A q \in Removers \ {r} : removal'[q] = removal[q]
  BY DEF TypeOK
<1>2. TypeOK' /\ UploadsFit'
  <2>1. removal' \in [Removers -> Removal]
    BY DEF TypeOK, Removal
  <2>2. TypeOK'
    BY <2>1 DEF TypeOK
  <2> QED BY <2>2 DEF UploadsFit, TypeOK
<1>3. RemovalsFit'
  BY <1>1 DEF RemovalsFit
<1>4. (CheckedFit /\ WithinQuotaUnlessOverlapped)'
  BY QuotaKept DEF Exists
<1>5. (ConfirmedHasBytes /\ RowHasParent)'
  BY DEF ConfirmedHasBytes, RowHasParent, Exists, Reachable
<1>6. OrphansExplained'
  BY <1>1 DEF OrphansExplained, Exists, TypeOK
<1> QED BY <1>2, <1>3, <1>4, <1>5, <1>6

LEMMA RemovalEndsKeep ==
  ASSUME IInv, NEW r \in Removers,
         RowAlreadyGone(r) \/ DeleteBytes(r) \/ DeleteBytesFails(r)
  PROVE  IInv'
<1> USE DEF IInv
<1>1. /\ removal[r] # Idle /\ removal[r].file \in Files
      /\ removal[r] \in [phase : {"found", "rowGone"}, file : Files, key : {"pending", "stored"}]
  BY Removing DEF RowAlreadyGone, DeleteBytes, DeleteBytesFails
<1>2. CASE RowAlreadyGone(r)
  BY <1>2, RemovalEnds DEF RowAlreadyGone, TypeOK
<1>3. CASE DeleteBytes(r)
  <2>1. /\ row[removal[r].file] = "deleted"
        /\ removal[r].key = "pending" => removal[r].file \in leaked
        /\ removal[r].key \in {"pending", "stored"}
    BY <1>1, <1>3 DEF DeleteBytes, RemovalsFit
  <2>2. /\ bytes' \subseteq bytes
        /\ bytes \ bytes' \subseteq {removal[r].file}
        /\ removal[r].file \notin bytes' \/ removal[r].file \in leaked
    BY <1>3, <2>1 DEF DeleteBytes
  <2> QED BY <1>1, <1>3, <2>1, <2>2, RemovalEnds DEF DeleteBytes, TypeOK
<1>4. CASE DeleteBytesFails(r)
  BY <1>1, <1>4, RemovalEnds DEF DeleteBytesFails, TypeOK
<1> QED BY <1>2, <1>3, <1>4

-----------------------------------------------------------------------------
(* What happens around them.                                                 *)

LEMMA RemoveParentKeeps ==
  ASSUME IInv, NEW p \in Parents, RemoveParent(p)
  PROVE  IInv'
<1> USE DEF IInv
<1> DEFINE doomed == {f \in Files : ParentOf[f] = p /\ Exists(f)}
<1>1. /\ alive' = alive \ {p}
      /\ row' = [f \in Files |-> IF ParentOf[f] = p /\ Exists(f) THEN "deleted" ELSE row[f]]
      /\ leaked' = leaked \cup doomed
      /\ UNCHANGED <<bytes, pc, removal, overlapped, failed>>
  BY DEF RemoveParent
<1>2. /\ row' \in [Files -> {"none", "pending", "stored", "deleted"}]
      /\ \A f \in doomed : row'[f] = "deleted"
      /\ \A f \in Files \ doomed : row'[f] = row[f]
      /\ doomed \subseteq Files
      /\ \A f \in doomed : row[f] \in {"pending", "stored"}
      /\ \A f \in Files : ParentOf[f] = p => ~Exists(f)'
  BY <1>1 DEF TypeOK, Exists
<1>3. \A f \in Files : Exists(f)' => Exists(f) /\ f \notin doomed /\ ParentOf[f] # p
  BY <1>2 DEF Exists
<1>4. \A f \in Files : Exists(f) => Exists(f)' \/ f \in doomed
  BY <1>2 DEF Exists
<1> HIDE DEF doomed
<1>5. TypeOK'
  BY <1>1, <1>2 DEF TypeOK
<1>6. UploadsFit'
  BY <1>1, <1>2 DEF UploadsFit
<1>7. RemovalsFit'
  <2>1. \A r \in Removers : removal[r] # Idle => removal[r].file \in Files
    BY DEF TypeOK, Removal
  <2>2. \A f \in Files : row[f] = "deleted" => row'[f] = "deleted"
    BY <1>2
  <2> QED BY <1>1, <2>1, <2>2 DEF RemovalsFit
<1>8. (CheckedFit /\ WithinQuotaUnlessOverlapped)'
  BY <1>1, <1>3, QuotaKept
<1>9. (ConfirmedHasBytes /\ RowHasParent)'
  BY <1>1, <1>2, <1>3 DEF ConfirmedHasBytes, RowHasParent, Reachable
<1>10. OrphansExplained'
  BY <1>1, <1>4 DEF OrphansExplained, TypeOK
<1> QED BY <1>5, <1>6, <1>7, <1>8, <1>9, <1>10

LEMMA CrashKeeps ==
  ASSUME IInv, Crash
  PROVE  IInv'
<1> USE DEF IInv
<1> DEFINE lost == {removal[r].file : r \in {q \in Removers : removal[q].phase = "rowGone"}}
<1>1. /\ pc' = [f \in Files |-> IF f \in InFlight THEN "over" ELSE pc[f]]
      /\ removal' = [r \in Removers |-> Idle]
      /\ failed' = failed \cup InFlight
      /\ leaked' = leaked \cup lost
      /\ UNCHANGED <<alive, row, bytes, overlapped>>
  BY DEF Crash
<1>2. lost \subseteq Files /\ InFlight \subseteq Files
  BY Removing DEF InFlight
<1>3. \A f \in Files : pc'[f] = pc[f] \/ pc'[f] = "over"
  BY <1>1
<1>4. pc' \in [Files -> {"start", "checked", "created", "saved", "over"}]
  BY <1>1 DEF TypeOK
<1>5. TypeOK'
  BY <1>1, <1>2, <1>4 DEF TypeOK, Removal
<1>6. UploadsFit'
  BY <1>1, <1>3 DEF UploadsFit
<1>7. RemovalsFit'
  BY <1>1 DEF RemovalsFit
<1>8. (CheckedFit /\ WithinQuotaUnlessOverlapped)'
  BY <1>1, <1>3, QuotaKept DEF Exists
<1>9. (ConfirmedHasBytes /\ RowHasParent)'
  BY <1>1 DEF ConfirmedHasBytes, RowHasParent, Exists, Reachable
<1>10. OrphansExplained'
  BY <1>1 DEF OrphansExplained, Exists
<1> QED BY <1>5, <1>6, <1>7, <1>8, <1>9, <1>10

-----------------------------------------------------------------------------
(* The invariant, and what follows from it.                                  *)

LEMMA InitFits == Init => IInv
<1> SUFFICES ASSUME Init
             PROVE  IInv
  OBVIOUS
<1>1. TypeOK /\ UploadsFit /\ RemovalsFit
  BY DEF Init, TypeOK, UploadsFit, RemovalsFit, Removal
<1>2. \A sc \in Schools : StoredBy(sc) = 0 /\ Checked(sc) = {}
  <2>1. \A sc \in Schools : FilesOf(sc) = {} /\ Checked(sc) = {}
    BY DEF Init, FilesOf, Exists, Checked
  <2>2. Total(SizeOf, {}) = 0
    BY FS_EmptySet, TotalByPick
  <2> QED BY <2>1, <2>2, StoredByIs
<1>3. CheckedFit /\ WithinQuotaUnlessOverlapped
  BY <1>2, Sizes DEF CheckedFit, WithinQuotaUnlessOverlapped
<1>4. ConfirmedHasBytes /\ OrphansExplained /\ RowHasParent
  BY DEF Init, ConfirmedHasBytes, OrphansExplained, RowHasParent, Exists
<1> QED BY <1>1, <1>3, <1>4 DEF IInv

LEMMA StutterKeeps ==
  ASSUME IInv, UNCHANGED vars
  PROVE  IInv'
<1> USE DEF IInv, vars
<1>1. (TypeOK /\ UploadsFit /\ RemovalsFit)'
  BY DEF TypeOK, UploadsFit, RemovalsFit
<1>2. (CheckedFit /\ WithinQuotaUnlessOverlapped)'
  BY QuotaKept DEF Exists
<1>3. (ConfirmedHasBytes /\ OrphansExplained /\ RowHasParent)'
  BY DEF ConfirmedHasBytes, OrphansExplained, RowHasParent, Exists, Reachable
<1> QED BY <1>1, <1>2, <1>3

\* Every reachable state satisfies the inductive invariant.
THEOREM InductiveInvariant == Spec => []IInv
<1>1. IInv /\ [Next]_vars => IInv'
  <2> SUFFICES ASSUME IInv, [Next]_vars
               PROVE  IInv'
    OBVIOUS
  <2>1. CASE \E f \in Files : Check(f) \/ Step(f) \/ SaveFails(f)
    BY <2>1, CheckKeeps, CreateRowKeeps, CreateFailsKeeps, SaveKeeps, ConfirmKeeps DEF Step
  <2>2. CASE \E r \in Removers, f \in Files : FindForRemoval(r, f)
    BY <2>2, FindForRemovalKeeps
  <2>3. CASE \E r \in Removers :
               DeleteRow(r) \/ RowAlreadyGone(r) \/ DeleteBytes(r) \/ DeleteBytesFails(r)
    BY <2>3, DeleteRowKeeps, RemovalEndsKeep
  <2>4. CASE \E p \in Parents : RemoveParent(p)
    BY <2>4, RemoveParentKeeps
  <2>5. CASE Crash
    BY <2>5, CrashKeeps
  <2>6. CASE UNCHANGED vars
    BY <2>6, StutterKeeps
  <2> QED BY <2>1, <2>2, <2>3, <2>4, <2>5, <2>6 DEF Next
<1> QED BY <1>1, InitFits, PTL DEF Spec

\* Rows, requests and removals keep the shape the schema and the code give them.
THEOREM TypeCorrect == Spec => []TypeOK
BY InductiveInvariant, PTL DEF IInv

\* A row that says its upload is complete can be opened, however many uploads
\* and removals run beside it and wherever the process dies.
THEOREM ConfirmedCanBeOpened == Spec => []ConfirmedHasBytes
BY InductiveInvariant, PTL DEF IInv

\* The quota holds in every school whose uploads never overlapped between the
\* sum over its rows and the new row.
THEOREM QuotaHolds == Spec => []WithinQuotaUnlessOverlapped
BY InductiveInvariant, PTL DEF IInv

\* Bytes no row names were left by a deletion, never by a failed upload.
THEOREM OrphansOnlyFromDeletion == Spec => []OrphansExplained
BY InductiveInvariant, PTL DEF IInv

\* A row's student or lesson is there, whatever was deleted during its upload.
THEOREM RowsHaveParents == Spec => []RowHasParent
BY InductiveInvariant, PTL DEF IInv

-----------------------------------------------------------------------------
(* Uploads implements Shelf.                                                 *)

LEMMA LifeOf ==
  ASSUME NEW f \in Files
  PROVE  /\ Life[f] = IF row[f] = "stored"
                      THEN IF f \in bytes THEN "shown" ELSE "unreadable"
                      ELSE IF row[f] = "deleted" \/ ~Reachable(f)
                           THEN "withdrawn" ELSE "unseen"
         /\ Life'[f] = IF row'[f] = "stored"
                       THEN IF f \in bytes' THEN "shown" ELSE "unreadable"
                       ELSE IF row'[f] = "deleted" \/ ~Reachable(f)'
                            THEN "withdrawn" ELSE "unseen"
BY DEF Life

\* A step that leaves the parents alone and changes what can be made of at most
\* one file is that file's step.
LEMMA OneFile ==
  ASSUME NEW f \in Files, alive' = alive,
         \A g \in Files \ {f} : Life'[g] = Life[g],
         \/ Life'[f] = Life[f]
         \/ Life[f] = "unseen" /\ Life'[f] = "shown"
         \/ Life[f] # "withdrawn" /\ Life'[f] = "withdrawn"
  PROVE  [Promise!Next]_<<alive, Life>>
<1>1. Life' = [Life EXCEPT ![f] = Life'[f]]
  <2>1. Life = [g \in Files |-> Life[g]] /\ Life' = [g \in Files |-> Life'[g]]
    BY DEF Life
  <2> QED BY <2>1
<1>2. CASE Life'[f] = Life[f]
  <2>1. Life = [g \in Files |-> Life[g]] /\ Life' = [g \in Files |-> Life'[g]]
    BY DEF Life
  <2> QED BY <1>2, <2>1
<1>3. CASE Life[f] = "unseen" /\ Life'[f] = "shown"
  <2>1. Promise!Show(f)
    BY <1>1, <1>3 DEF Promise!Show
  <2> QED BY <2>1 DEF Promise!Next
<1>4. CASE Life[f] # "withdrawn" /\ Life'[f] = "withdrawn"
  <2>1. Promise!Withdraw(f)
    BY <1>1, <1>4 DEF Promise!Withdraw
  <2> QED BY <2>1 DEF Promise!Next
<1> QED BY <1>2, <1>3, <1>4

\* Nobody can tell a step that touches neither rows nor parents, nor the bytes of
\* a confirmed row.
LEMMA OutOfSight ==
  ASSUME alive' = alive, row' = row,
         \A f \in Files : row[f] = "stored" => (f \in bytes <=> f \in bytes')
  PROVE  [Promise!Next]_<<alive, Life>>
BY DEF Life, Reachable

\* A row is created for a parent that is there, out of anybody's reach as yet.
LEMMA CreatedOutOfSight ==
  ASSUME IInv, NEW f \in Files, CreateRow(f)
  PROVE  [Promise!Next]_<<alive, Life>>
<1> USE DEF IInv
<1>1. /\ row[f] = "none" /\ row'[f] = "pending"
      /\ \A g \in Files \ {f} : row'[g] = row[g]
      /\ bytes' = bytes /\ alive' = alive
  BY DEF CreateRow, UploadsFit, TypeOK
<1>2. \A g \in Files : Reachable(g)' <=> Reachable(g)
  BY <1>1 DEF Reachable
<1>3. \A g \in Files : Life'[g] = Life[g]
  BY <1>1, <1>2, LifeOf
<1> QED BY <1>1, <1>3, OneFile

\* The confirmation shows the file, if nobody deleted its row meanwhile.
LEMMA ConfirmShows ==
  ASSUME IInv, NEW f \in Files, Confirm(f)
  PROVE  [Promise!Next]_<<alive, Life>>
<1> USE DEF IInv
<1>1. /\ pc[f] = "saved" /\ row[f] \in {"pending", "deleted"}
      /\ f \in bytes \/ row[f] = "deleted"
      /\ row'[f] = IF row[f] = "deleted" THEN "deleted" ELSE "stored"
      /\ \A g \in Files \ {f} : row'[g] = row[g]
      /\ bytes' = bytes /\ alive' = alive
  BY DEF Confirm, UploadsFit, Exists, TypeOK
<1>2. \A g \in Files : Reachable(g)' <=> Reachable(g)
  BY <1>1 DEF Reachable
<1>3. \A g \in Files \ {f} : Life'[g] = Life[g]
  BY <1>1, <1>2, LifeOf
<1>4. CASE row[f] = "deleted"
  <2>1. Life'[f] = Life[f]
    BY <1>1, <1>2, <1>4, LifeOf
  <2> QED BY <1>1, <1>3, <2>1, OneFile
<1>5. CASE row[f] = "pending"
  <2>1. Reachable(f) /\ f \in bytes
    BY <1>1, <1>5 DEF RowHasParent, Exists
  <2>2. Life[f] = "unseen" /\ Life'[f] = "shown"
    BY <1>1, <1>5, <2>1, LifeOf
  <2> QED BY <1>1, <1>3, <2>2, OneFile
<1> QED BY <1>1, <1>4, <1>5

\* Deleting the row is what withdraws the file.
LEMMA DeletedWithdraws ==
  ASSUME IInv, NEW r \in Removers, DeleteRow(r)
  PROVE  [Promise!Next]_<<alive, Life>>
<1> USE DEF IInv
<1> DEFINE f == removal[r].file
<1>1. f \in Files
  BY Removing DEF DeleteRow
<1>2. /\ Exists(f) /\ row'[f] = "deleted"
      /\ \A g \in Files \ {f} : row'[g] = row[g]
      /\ bytes' = bytes /\ alive' = alive
  BY <1>1 DEF DeleteRow, TypeOK
<1> HIDE DEF f
<1>3. Reachable(f) /\ \A g \in Files : Reachable(g)' <=> Reachable(g)
  BY <1>1, <1>2 DEF Reachable, RowHasParent
<1>4. \A g \in Files \ {f} : Life'[g] = Life[g]
  BY <1>2, <1>3, LifeOf
<1>5. Life[f] # "withdrawn" /\ Life'[f] = "withdrawn"
  BY <1>1, <1>2, <1>3, LifeOf DEF Exists
<1> QED BY <1>1, <1>2, <1>4, <1>5, OneFile

\* Bytes go only once their row has gone.
LEMMA BytesGoUnseen ==
  ASSUME IInv, NEW r \in Removers, DeleteBytes(r)
  PROVE  [Promise!Next]_<<alive, Life>>
<1> USE DEF IInv
<1>1. row[removal[r].file] = "deleted"
  BY Removing DEF DeleteBytes, RemovalsFit
<1>2. alive' = alive /\ row' = row /\ bytes' \subseteq bytes
      /\ bytes \ bytes' \subseteq {removal[r].file}
  BY DEF DeleteBytes
<1> QED BY <1>1, <1>2, OutOfSight

\* A parent takes every file of its own out of reach, and no other.
LEMMA ParentWithdraws ==
  ASSUME IInv, NEW p \in Parents, RemoveParent(p)
  PROVE  [Promise!Next]_<<alive, Life>>
<1> USE DEF IInv
<1>1. /\ p \in alive /\ alive' = alive \ {p} /\ bytes' = bytes
      /\ \A f \in Files : row'[f] = IF ParentOf[f] = p /\ Exists(f)
                                    THEN "deleted" ELSE row[f]
  BY DEF RemoveParent
<1>2. p # Library
  BY UploadsAssumption DEF UploadsAssumption
<1>3. ASSUME NEW f \in Files, ParentOf[f] = p
      PROVE  Life'[f] = "withdrawn"
  <2>1. ~Reachable(f)' /\ row'[f] # "stored"
    BY <1>1, <1>2, <1>3 DEF Reachable, Exists
  <2> QED BY <2>1, LifeOf
<1>4. ASSUME NEW f \in Files, ParentOf[f] # p
      PROVE  Life'[f] = Life[f]
  <2>1. row'[f] = row[f] /\ (Reachable(f)' <=> Reachable(f))
    BY <1>1, <1>4 DEF Reachable
  <2> QED BY <1>1, <2>1, LifeOf
<1>5. Life' = [f \in Files |->
                 IF f \in Promise!BelongsTo(p) THEN "withdrawn" ELSE Life[f]]
  <2>1. Life' = [f \in Files |-> Life'[f]]
    BY DEF Life
  <2> QED BY <1>3, <1>4, <2>1 DEF Promise!BelongsTo
<1> QED BY <1>1, <1>5 DEF Promise!Next, Promise!RemoveParent

LEMMA StepsOfShelf ==
  ASSUME IInv, [Next]_vars
  PROVE  [Promise!Next]_<<alive, Life>>
<1>1. ASSUME NEW f \in Files,
             Check(f) \/ CreateFails(f) \/ SaveBytes(f) \/ SaveFails(f)
      PROVE  [Promise!Next]_<<alive, Life>>
  <2>1. pc[f] = "created" => row[f] # "stored"
    BY DEF IInv, UploadsFit
  <2>2. /\ alive' = alive /\ row' = row
        /\ \A g \in Files \ {f} : g \in bytes <=> g \in bytes'
        /\ row[f] = "stored" => (f \in bytes <=> f \in bytes')
    BY <1>1, <2>1 DEF Check, CreateFails, SaveBytes, SaveFails
  <2> QED BY <2>2, OutOfSight
<1>2. ASSUME NEW f \in Files, CreateRow(f) \/ Confirm(f)
      PROVE  [Promise!Next]_<<alive, Life>>
  BY <1>2, CreatedOutOfSight, ConfirmShows
<1>3. ASSUME NEW r \in Removers, NEW f \in Files, FindForRemoval(r, f)
      PROVE  [Promise!Next]_<<alive, Life>>
  BY <1>3, OutOfSight DEF FindForRemoval
<1>4. ASSUME NEW r \in Removers,
             DeleteRow(r) \/ RowAlreadyGone(r) \/ DeleteBytes(r) \/ DeleteBytesFails(r)
      PROVE  [Promise!Next]_<<alive, Life>>
  <2>1. CASE RowAlreadyGone(r) \/ DeleteBytesFails(r)
    BY <2>1, OutOfSight DEF RowAlreadyGone, DeleteBytesFails
  <2> QED BY <1>4, <2>1, DeletedWithdraws, BytesGoUnseen
<1>5. ASSUME Crash \/ UNCHANGED vars
      PROVE  [Promise!Next]_<<alive, Life>>
  BY <1>5, OutOfSight DEF Crash, vars
<1> QED BY <1>1, <1>2, <1>3, <1>4, <1>5, ParentWithdraws DEF Next, Step

\* However uploads, removals, cascades, failures and crashes interleave, a file is
\* shown once, whole and under its parent, and withdrawn once and for good.
THEOREM ImplementsShelf == Spec => ShelfSpec
<1>1. Init => Promise!Init
  <2> SUFFICES ASSUME Init
               PROVE  Promise!Init
    OBVIOUS
  <2>1. \A f \in Files : Reachable(f)
    BY UploadsAssumption DEF UploadsAssumption, Init, Reachable
  <2>2. Life = [f \in Files |-> "unseen"]
    BY <2>1 DEF Init, Life
  <2> QED BY <2>2 DEF Init, Promise!Init
<1>2. IInv /\ [Next]_vars => [Promise!Next]_<<alive, Life>>
  BY StepsOfShelf
<1> QED BY <1>1, <1>2, InductiveInvariant, PTL DEF Spec, ShelfSpec, Promise!Spec
=============================================================================
