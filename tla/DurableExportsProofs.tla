------------------------ MODULE DurableExportsProofs ------------------------
(***************************************************************************)
(* For any number of exports, accounts, workers and cleanup passes, any    *)
(* quotas and any number of late calls: what is over stays over            *)
(* (DurableExports.WhatIsOverStaysOver), and the registry agrees with the  *)
(* storage (DurableExports.RowsMatchObjects, in the second half).          *)
(*                                                                         *)
(* The first is about single rows, and so is its proof.  A row that        *)
(* is removed, claimed by a cleanup or waits for the end of its tombstone  *)
(* has an outcome that is not "ready": without that, the last cleanup of a *)
(* row could delete one that is still offered.  Every procedure keeps this *)
(* and takes each row to one it may become (Keeps); every action applies   *)
(* one procedure, or leaves the rows alone.                                *)
(***************************************************************************)
EXTENDS DurableExports, TLAPS

Lives(r) == r.status \notin {"none", "gone"}
RowOK(r) ==
  /\ r \in Row
  /\ r.removed \/ r.claimed \/ r.tomb # "none" => r.status \in {"cancelled", "error"}

Drained(r) == Lives(r) => ~r.executing /\ r.objectDeleted

\* What the transactions may make of a row; gated: its account is being deleted.
Becomes(r, s, gated) ==
  /\ r.status \in {"error", "cancelled"} => s.status \in {"error", "cancelled", "gone"}
  /\ r.status = "ready" => s.status \in {"ready", "cancelled"}
  /\ Lives(r) /\ ~r.alive => ~s.alive
  /\ gated /\ Drained(r) => Drained(s)

RowsOK == row \in [Exports -> Row] /\ \A x \in Exports : RowOK(row[x])

\* The rows that a step may leave.
Keeps(new) ==
  /\ new \in [Exports -> Row]
  /\ \A x \in Exports : RowOK(new[x]) /\ Becomes(row[x], new[x], OwnerOf[x] \in gate)

\* A call that is executed late is one that was made.
LateOK ==
  \A call \in late :
    call[1] = "delete" \/ (call[1] \in {"tick", "start"} \cup Outcome /\ call[2] \in Exports)

\* The inductive invariant.
RowInv == RowsOK /\ LateOK

-----------------------------------------------------------------------------
(* Single rows.                                                            *)

\* A row has its fields, of their types.
LEMMA FieldsOfRow ==
  ASSUME NEW r \in Row
  PROVE  /\ r.status \in Status /\ r.executing \in BOOLEAN /\ r.alive \in BOOLEAN
         /\ r.expired \in BOOLEAN /\ r.removed \in BOOLEAN /\ r.objectDeleted \in BOOLEAN
         /\ r.token \in Tokens \cup {"none"} /\ r.claimed \in BOOLEAN
         /\ r.tomb \in {"none", "set", "late", "over"}
  BY DEF Row

\* The updates of the procedures leave a row.
LEMMA UpdatedRow ==
  ASSUME NEW r \in Row, NEW x \in Status, NEW b \in BOOLEAN
  PROVE  /\ [r EXCEPT !.status = x] \in Row
         /\ [r EXCEPT !.status = x, !.executing = b] \in Row
         /\ [r EXCEPT !.executing = b, !.status = x] \in Row
         /\ [r EXCEPT !.status = x, !.removed = b] \in Row
<1>1. [r EXCEPT !.status = x] \in Row
  BY DEF Row
<1>2. [r EXCEPT !.status = x, !.executing = b] \in Row
  BY DEF Row
<1>3. [r EXCEPT !.executing = b, !.status = x] \in Row
  BY DEF Row
<1>4. [r EXCEPT !.status = x, !.removed = b] \in Row
  BY DEF Row
<1> QED
  BY <1>1, <1>2, <1>3, <1>4

\* Marking a row as removed or not, as it was.
LEMMA RemovedAsBefore ==
  ASSUME NEW r \in Row
  PROVE  [r EXCEPT !.status = "cancelled"] = [r EXCEPT !.status = "cancelled", !.removed = @ \/ FALSE]
<1>1. r.removed \in BOOLEAN /\ (r.removed \/ FALSE) = r.removed
  BY FieldsOfRow
<1>2. [r EXCEPT !.status = "cancelled"] = [r EXCEPT !.status = "cancelled", !.removed = r.removed]
  BY DEF Row
<1> QED
  BY <1>1, <1>2

\* The row of an export that was just asked for, and of one that is gone.
LEMMA BlankIsRow ==
  ASSUME NEW a \in BOOLEAN, NEW s \in Status
  PROVE  RowOK([Blank EXCEPT !.status = s, !.alive = a])
  BY DEF RowOK, Row, Blank

\* A row that is left alone.
LEMMA RowStays ==
  ASSUME NEW r, RowOK(r), NEW gated
  PROVE  Becomes(r, r, gated)
  BY DEF Becomes, RowOK

\* Rows that are left alone are kept.
LEMMA RowsStay ==
  ASSUME RowsOK
  PROVE  Keeps(row)
  BY RowStays DEF RowsOK, Keeps

\* Rows of which one changed are kept if that one is.
LEMMA OneRow ==
  ASSUME RowsOK, NEW e \in Exports, NEW s,
         RowOK(s), Becomes(row[e], s, OwnerOf[e] \in gate)
  PROVE  Keeps([row EXCEPT ![e] = s])
<1> DEFINE new == [row EXCEPT ![e] = s]
<1>1. new \in [Exports -> Row]
  BY DEF RowsOK, RowOK
<1>2. ASSUME NEW x \in Exports
      PROVE  RowOK(new[x]) /\ Becomes(row[x], new[x], OwnerOf[x] \in gate)
  <2>1. CASE x = e
    BY <2>1 DEF RowsOK
  <2>2. CASE x # e
    <3>1. new[x] = row[x]
      BY <2>2 DEF RowsOK
    <3> QED
      BY <3>1, RowStays DEF RowsOK
  <2> QED
    BY <2>1, <2>2
<1> QED
  BY <1>1, <1>2 DEF Keeps

-----------------------------------------------------------------------------
(* The procedures.                                                         *)

\* dbchat_export_create: an account behind the gate gets no new row.
LEMMA CreateKeeps ==
  ASSUME RowsOK, NEW e \in Exports, MayCreate(e)
  PROVE  Keeps(Created(e))
<1> DEFINE s == [Blank EXCEPT !.status = "queued", !.alive = TRUE]
<1>1. RowOK(s)
  BY BlankIsRow DEF Status, Open
<1>2. Becomes(row[e], s, OwnerOf[e] \in gate)
  BY DEF MayCreate, Becomes, Lives, Blank
<1> QED
  BY <1>1, <1>2, OneRow DEF Created

\* dbchat_export_tick: revives nothing, and starts nothing behind the gate.
LEMMA TickKeeps ==
  ASSUME RowsOK, NEW e \in Exports, NEW start \in BOOLEAN
  PROVE  Keeps(Ticked(e, start))
<1> DEFINE r == row[e]
           over == r.expired \/ OwnerOf[e] \in gate
           starts == start /\ r.status = "queued" /\ ~over /\ SlotFree(e)
           s == [r EXCEPT !.status = IF over THEN "cancelled" ELSE IF starts THEN "running" ELSE @,
                          !.executing = @ \/ starts]
<1>1. CASE ~r.alive \/ r.status \notin Open \cup {"cancelled"}
  BY <1>1, RowsStay DEF Ticked
<1>2. CASE ~(~r.alive \/ r.status \notin Open \cup {"cancelled"})
  <2>0. RowOK(r) /\ r \in Row
    BY DEF RowsOK, RowOK
  <2>1. Ticked(e, start) = [row EXCEPT ![e] = s]
    BY <1>2 DEF Ticked, RowsOK
  <2> DEFINE status == IF over THEN "cancelled" ELSE IF starts THEN "running" ELSE r.status
             executing == r.executing \/ starts
  <2>2. status \in Status /\ executing \in BOOLEAN
    BY <2>0, FieldsOfRow DEF Status, Open, Outcome
  <2>3. s = [r EXCEPT !.status = status, !.executing = executing]
    OBVIOUS
  <2>4. /\ s \in Row /\ s.status = status /\ s.executing = executing /\ s.alive = r.alive
        /\ s.objectDeleted = r.objectDeleted /\ s.removed = r.removed /\ s.claimed = r.claimed
        /\ s.tomb = r.tomb
    <3> HIDE DEF status, executing, s, r
    <3> QED
      BY <2>0, <2>2, <2>3, FieldsOfRow DEF Row
  <2> HIDE DEF s
  <2>5. RowOK(s)
    BY <2>0, <2>4 DEF RowOK
  <2>6. Becomes(r, s, OwnerOf[e] \in gate)
    BY <1>2, <2>4 DEF Becomes, Drained, Lives, Open
  <2> QED
    BY <2>1, <2>5, <2>6, OneRow
<1> QED
  BY <1>1, <1>2

\* dbchat_export_finish: the first outcome holds.
LEMMA FinishKeeps ==
  ASSUME RowsOK, NEW e \in Exports, NEW outcome \in Outcome
  PROVE  Keeps(Finished(e, outcome))
<1> DEFINE r == row[e]
           told == IF r.status = "cancelled" THEN r.status ELSE outcome
           s == [r EXCEPT !.executing = FALSE, !.status = told]
<1>1. CASE FinishRaises(e, outcome) \/ r.status \in {"ready", "error"}
  BY <1>1, RowsStay DEF Finished
<1>2. CASE ~(FinishRaises(e, outcome) \/ r.status \in {"ready", "error"})
  <2>0. RowOK(r) /\ r \in Row
    BY DEF RowsOK, RowOK
  <2>1. Finished(e, outcome) = [row EXCEPT ![e] = s]
    BY <1>2 DEF Finished, RowsOK
  <2>2. s \in Row
    <3>1. told \in Status
      BY <2>0, FieldsOfRow DEF Status
    <3> HIDE DEF told
    <3> QED
      BY <2>0, <3>1, UpdatedRow
  <2>3. RowOK(s)
    BY <1>2, <2>0, <2>2, FieldsOfRow DEF RowOK, Row
  <2>4. Becomes(r, s, OwnerOf[e] \in gate)
    BY <1>2, <2>0, FieldsOfRow DEF Becomes, Drained, Lives, Row, FinishRaises, Exists
  <2> HIDE DEF s
  <2> QED
    BY <2>1, <2>3, <2>4, OneRow
<1> QED
  BY <1>1, <1>2

\* A row that dbchat_export_cancel or dbchat_export_stop_worker marks.
LEMMA CancelledRow ==
  ASSUME NEW r, RowOK(r), Lives(r), NEW remove \in BOOLEAN, NEW gated,
         NEW s, s = [r EXCEPT !.status = "cancelled", !.removed = @ \/ remove]
  PROVE  RowOK(s) /\ Becomes(r, s, gated)
<1>1. s \in Row
  <2>1. r \in Row /\ (r.removed \/ remove) \in BOOLEAN
    BY FieldsOfRow DEF RowOK
  <2>2. "cancelled" \in Status
    BY DEF Status, Outcome
  <2> QED
    BY <2>1, <2>2, UpdatedRow
<1>2. RowOK(s)
  BY <1>1, FieldsOfRow DEF RowOK, Row
<1>3. Becomes(r, s, gated)
  BY FieldsOfRow DEF RowOK, Becomes, Drained, Lives, Row
<1> QED
  BY <1>2, <1>3

\* dbchat_export_cancel.
LEMMA CancelKeeps ==
  ASSUME RowsOK, NEW S, NEW remove \in BOOLEAN
  PROVE  Keeps(CancelRows(S, remove))
<1> DEFINE new == CancelRows(S, remove)
<1>1. ASSUME NEW x \in Exports
      PROVE  RowOK(new[x]) /\ Becomes(row[x], new[x], OwnerOf[x] \in gate)
  <2>0. RowOK(row[x])
    BY DEF RowsOK
  <2>1. CASE x \in S /\ Exists(x)
    <3>1. new[x] = [row[x] EXCEPT !.status = "cancelled", !.removed = @ \/ remove]
      BY <2>1 DEF CancelRows
    <3>2. Lives(row[x])
      BY <2>1 DEF Exists, Lives
    <3> HIDE DEF new
    <3> QED
      BY <2>0, <3>1, <3>2, CancelledRow
  <2>2. CASE ~(x \in S /\ Exists(x))
    BY <2>0, <2>2, RowStays DEF CancelRows
  <2> QED
    BY <2>1, <2>2
<1>2. new \in [Exports -> Row]
  <2>1. new = [x \in Exports |-> new[x]]
    BY DEF CancelRows
  <2> HIDE DEF new
  <2> QED
    BY <1>1, <2>1 DEF RowOK
<1> QED
  BY <1>1, <1>2 DEF Keeps

\* dbchat_export_stop_worker.
LEMMA StopKeeps ==
  ASSUME RowsOK, NEW w
  PROVE  Keeps(StopWorkerRows(w))
<1> DEFINE new == StopWorkerRows(w)
<1>1. ASSUME NEW x \in Exports
      PROVE  RowOK(new[x]) /\ Becomes(row[x], new[x], OwnerOf[x] \in gate)
  <2>0. RowOK(row[x]) /\ row[x] \in Row
    BY DEF RowsOK, RowOK
  <2>1. CASE WorkerOf[x] = w /\ row[x].status \in Open
    <3>1. new[x] = [row[x] EXCEPT !.status = "cancelled"]
      BY <2>1 DEF StopWorkerRows
    <3>2. Lives(row[x])
      BY <2>1 DEF Open, Lives
    <3>3. new[x] = [row[x] EXCEPT !.status = "cancelled", !.removed = @ \/ FALSE]
      <4> HIDE DEF new
      <4> QED
        BY <2>0, <3>1, RemovedAsBefore
    <3> HIDE DEF new
    <3> QED
      BY <2>0, <3>2, <3>3, CancelledRow
  <2>2. CASE ~(WorkerOf[x] = w /\ row[x].status \in Open)
    BY <2>0, <2>2, RowStays DEF StopWorkerRows
  <2> QED
    BY <2>1, <2>2
<1>2. new \in [Exports -> Row]
  <2>1. new = [x \in Exports |-> new[x]]
    BY DEF StopWorkerRows
  <2> HIDE DEF new
  <2> QED
    BY <1>1, <2>1 DEF RowOK
<1> QED
  BY <1>1, <1>2 DEF Keeps

\* A row under the two updates at the head of dbchat_export_cleanup_claim: one that
\* is claimed afterwards is not offered.
LEMMA SweptRow ==
  ASSUME NEW r, RowOK(r), NEW gated
  PROVE  LET s == Outdated(Interrupted(r))
         IN  /\ RowOK(s) /\ Becomes(r, s, gated)
             /\ MayClean(s) => s.status \in {"cancelled", "error"}
             /\ r.status \in {"error", "cancelled"} => s.status \in {"error", "cancelled"}
<1> DEFINE i == Interrupted(r)
           s == Outdated(i)
<1>0. r \in Row
  BY DEF RowOK
<1>1. i \in Row
  <2>1. "error" \in Status
    BY DEF Status, Outcome
  <2> QED
    BY <1>0, <2>1, UpdatedRow DEF Interrupted
<1>2. /\ RowOK(i) /\ i.alive = r.alive /\ i.objectDeleted = r.objectDeleted
      /\ i.status \in {r.status, "error"} /\ (i.status # r.status => r.status \in Open \cup {"cancelled"})
      /\ i.executing => r.executing
  BY <1>0, <1>1, FieldsOfRow DEF RowOK, Interrupted, Row, Open
<1> HIDE DEF i
<1>3. s \in Row
  BY <1>1, FieldsOfRow DEF Outdated, Row, Status, Outcome
<1>4. /\ RowOK(s) /\ s.alive = i.alive /\ s.objectDeleted = i.objectDeleted /\ s.executing = i.executing
      /\ s.status \in {i.status, "cancelled"} /\ (s.status # i.status => i.status \in Open \cup {"ready"})
      /\ s.expired => s.status \notin Open \cup {"ready"}
  BY <1>1, <1>2, <1>3, FieldsOfRow DEF RowOK, Outdated, Row, Open
<1> HIDE DEF s
<1>5. Becomes(r, s, gated)
  BY <1>0, <1>2, <1>4, FieldsOfRow DEF Becomes, Drained, Lives, Open
<1>6. MayClean(s) => s.status \in {"cancelled", "error"}
  BY <1>3, <1>4, FieldsOfRow DEF MayClean, RowOK, Status, Outcome
<1>7. r.status \in {"error", "cancelled"} => s.status \in {"error", "cancelled"}
  BY <1>2, <1>4 DEF Open
<1> QED
  BY <1>4, <1>5, <1>6, <1>7 DEF s, i

\* The two updates alone.
LEMMA SweepKeeps ==
  ASSUME RowsOK
  PROVE  Keeps(Swept)
<1>1. ASSUME NEW x \in Exports
      PROVE  RowOK(Swept[x]) /\ Becomes(row[x], Swept[x], OwnerOf[x] \in gate)
  BY SweptRow DEF RowsOK, Swept
<1>2. Swept \in [Exports -> Row]
  <2>1. Swept = [x \in Exports |-> Swept[x]]
    BY DEF Swept
  <2> QED
    BY <1>1, <2>1 DEF RowOK
<1> QED
  BY <1>1, <1>2 DEF Keeps

\* dbchat_export_cleanup_claim.
LEMMA ClaimKeeps ==
  ASSUME RowsOK, NEW e \in Exports, NEW t \in Tokens, MayClean(Swept[e])
  PROVE  Keeps([Swept EXCEPT ![e].token = t, ![e].claimed = TRUE])
<1> DEFINE r == Swept[e]
           s == [r EXCEPT !.token = t, !.claimed = TRUE]
           new == [Swept EXCEPT ![e] = s]
<1>0. Keeps(Swept)
  BY SweepKeeps
<1>1. Swept \in [Exports -> Row] /\ RowOK(r) /\ r \in Row /\ Becomes(row[e], r, OwnerOf[e] \in gate)
  BY <1>0 DEF Keeps, RowOK
<1>2. r.status \in {"cancelled", "error"}
  BY SweptRow DEF RowsOK, Swept
<1>3. [Swept EXCEPT ![e].token = t, ![e].claimed = TRUE] = new
  BY <1>1
<1>4. s \in Row /\ s.status = r.status /\ s.alive = r.alive
      /\ s.executing = r.executing /\ s.objectDeleted = r.objectDeleted
  BY <1>1, FieldsOfRow DEF Row
<1> HIDE DEF r, s
<1>5. RowOK(s)
  BY <1>2, <1>4 DEF RowOK
<1>6. Becomes(row[e], s, OwnerOf[e] \in gate)
  BY <1>1, <1>4 DEF Becomes, Drained, Lives
<1>7. ASSUME NEW x \in Exports
      PROVE  RowOK(new[x]) /\ Becomes(row[x], new[x], OwnerOf[x] \in gate)
  <2>1. CASE x = e
    BY <1>1, <1>5, <1>6, <2>1
  <2>2. CASE x # e
    BY <1>0, <1>1, <2>2 DEF Keeps
  <2> QED
    BY <2>1, <2>2
<1>8. new \in [Exports -> Row]
  BY <1>1, <1>4
<1> QED
  BY <1>3, <1>7, <1>8 DEF Keeps

\* dbchat_export_cleanup_finish: only a claimed row, which is not offered, goes.
LEMMA CleanupKeeps ==
  ASSUME RowsOK, NEW e, NEW t
  PROVE  Keeps(Cleaned(e, t))
<1> DEFINE r == row[e]
           gone == [Blank EXCEPT !.status = "gone"]
<1>1. CASE r.token # t \/ ~r.claimed
  BY <1>1, RowsStay DEF Cleaned
<1>2. CASE e \notin Exports
  <2>1. Cleaned(e, t) = row
    BY <1>2 DEF Cleaned, RowsOK
  <2> QED
    BY <2>1, RowsStay
<1>3. CASE e \in Exports /\ r.token = t /\ r.claimed
  <2>0. RowOK(r) /\ r \in Row /\ r.status \in {"cancelled", "error"}
    BY <1>3 DEF RowsOK, RowOK
  <2>1. CASE r.tomb = "over"
    <3>1. Cleaned(e, t) = [row EXCEPT ![e] = gone]
      BY <1>3, <2>1 DEF Cleaned
    <3>2. RowOK(gone)
      BY DEF RowOK, Row, Blank, Status
    <3>3. Becomes(r, gone, OwnerOf[e] \in gate)
      BY <2>0 DEF Becomes, Drained, Lives, Blank
    <3> QED
      BY <1>3, <3>1, <3>2, <3>3, OneRow
  <2>2. CASE r.tomb # "over"
    <3> DEFINE tomb == IF r.tomb = "none" /\ (r.expired \/ r.removed) THEN "set" ELSE r.tomb
               s == [r EXCEPT !.objectDeleted = TRUE, !.token = "none", !.claimed = FALSE,
                              !.tomb = tomb]
    <3>1. Cleaned(e, t) = [row EXCEPT ![e] = s]
      BY <1>3, <2>2 DEF Cleaned
    <3>2. tomb \in {"none", "set", "late", "over"}
      BY <2>0, FieldsOfRow
    <3>3. /\ s \in Row /\ s.status = r.status /\ s.alive = r.alive
          /\ s.executing = r.executing /\ s.objectDeleted
      <4> HIDE DEF tomb, r
      <4> QED
        BY <2>0, <3>2, FieldsOfRow DEF Row
    <3> HIDE DEF s
    <3>4. RowOK(s)
      BY <2>0, <3>3 DEF RowOK
    <3>5. Becomes(r, s, OwnerOf[e] \in gate)
      BY <2>0, <3>3 DEF Becomes, Drained, Lives
    <3> QED
      BY <1>3, <3>1, <3>4, <3>5, OneRow
  <2> QED
    BY <2>1, <2>2
<1> QED
  BY <1>1, <1>2, <1>3

-----------------------------------------------------------------------------
(* The steps.                                                              *)

\* A call that fails may be executed later.
LEMMA FailedIsLate ==
  ASSUME LateOK, NEW op, NEW e, Failed(<<op, e>>),
         op = "delete" \/ (op \in {"tick", "start"} \cup Outcome /\ e \in Exports)
  PROVE  LateOK'
<1>1. late' = late \/ late' = late \cup {<<op, e>>}
  BY DEF Failed
<1>2. <<op, e>>[1] = op /\ <<op, e>>[2] = e
  OBVIOUS
<1>3. ASSUME NEW call \in late'
      PROVE  call[1] = "delete" \/ (call[1] \in {"tick", "start"} \cup Outcome /\ call[2] \in Exports)
  BY <1>1, <1>2, <1>3 DEF LateOK
<1> QED
  BY <1>3 DEF LateOK

\* A term that ends takes one row to what it may become.
LEMMA TermEnds ==
  ASSUME RowInv, NEW e \in Exports,
         LeaseEnds(e) \/ Expire(e) \/ ClaimEnds(e) \/ NoMoreUploads(e) \/ TombstoneEnds(e)
  PROVE  Keeps(row') /\ UNCHANGED late
<1>0. RowsOK /\ RowOK(row[e]) /\ row[e] \in Row
  BY DEF RowInv, RowsOK, RowOK
<1>1. ASSUME NEW s, Pass(e, s), s \in Row, s.status = row[e].status, s.executing = row[e].executing,
             s.objectDeleted = row[e].objectDeleted, s.removed = row[e].removed,
             s.claimed => row[e].claimed, s.alive => row[e].alive,
             s.tomb # "none" => row[e].tomb # "none"
      PROVE  Keeps(row') /\ UNCHANGED late
  <2>1. RowOK(s)
    BY <1>0, <1>1 DEF RowOK
  <2>2. Becomes(row[e], s, OwnerOf[e] \in gate)
    BY <1>0, <1>1 DEF Becomes, Drained, Lives
  <2>3. row' = [row EXCEPT ![e] = s]
    BY <1>1 DEF Pass
  <2>4. Keeps([row EXCEPT ![e] = s])
    BY <1>0, <2>1, <2>2, OneRow
  <2> QED
    BY <1>1, <2>3, <2>4 DEF Pass
<1>2. CASE LeaseEnds(e)
  <2> DEFINE s == [row[e] EXCEPT !.alive = FALSE]
  <2>1. /\ s \in Row /\ s.status = row[e].status /\ s.executing = row[e].executing
        /\ s.objectDeleted = row[e].objectDeleted /\ s.removed = row[e].removed
        /\ s.claimed = row[e].claimed /\ ~s.alive /\ s.tomb = row[e].tomb
    BY <1>0, FieldsOfRow DEF Row
  <2>2. Pass(e, s)
    BY <1>2 DEF LeaseEnds
  <2> HIDE DEF s
  <2> QED
    BY <1>1, <2>1, <2>2
<1>3. CASE Expire(e)
  <2> DEFINE s == [row[e] EXCEPT !.expired = TRUE]
  <2>1. /\ s \in Row /\ s.status = row[e].status /\ s.executing = row[e].executing
        /\ s.objectDeleted = row[e].objectDeleted /\ s.removed = row[e].removed
        /\ s.claimed = row[e].claimed /\ s.alive = row[e].alive /\ s.tomb = row[e].tomb
    BY <1>0, FieldsOfRow DEF Row
  <2>2. Pass(e, s)
    BY <1>3 DEF Expire
  <2> HIDE DEF s
  <2> QED
    BY <1>1, <2>1, <2>2
<1>4. CASE ClaimEnds(e)
  <2> DEFINE s == [row[e] EXCEPT !.claimed = FALSE]
  <2>1. /\ s \in Row /\ s.status = row[e].status /\ s.executing = row[e].executing
        /\ s.objectDeleted = row[e].objectDeleted /\ s.removed = row[e].removed
        /\ ~s.claimed /\ s.alive = row[e].alive /\ s.tomb = row[e].tomb
    BY <1>0, FieldsOfRow DEF Row
  <2>2. Pass(e, s)
    BY <1>4 DEF ClaimEnds
  <2> HIDE DEF s
  <2> QED
    BY <1>1, <2>1, <2>2
<1>5. CASE NoMoreUploads(e) \/ TombstoneEnds(e)
  <2>1. PICK tomb \in {"late", "over"} : Pass(e, [row[e] EXCEPT !.tomb = tomb]) /\ row[e].tomb # "none"
    BY <1>5 DEF NoMoreUploads, TombstoneEnds
  <2> DEFINE s == [row[e] EXCEPT !.tomb = tomb]
  <2>2. /\ s \in Row /\ s.status = row[e].status /\ s.executing = row[e].executing
        /\ s.objectDeleted = row[e].objectDeleted /\ s.removed = row[e].removed
        /\ s.claimed = row[e].claimed /\ s.alive = row[e].alive
    BY <1>0, <2>1, FieldsOfRow DEF Row
  <2>3. Pass(e, s)
    BY <2>1
  <2> HIDE DEF s
  <2> QED
    BY <1>1, <2>1, <2>2, <2>3
<1> QED
  BY <1>2, <1>3, <1>4, <1>5

\* A step of a run applies a tick or a finish, or no procedure.
LEMMA RunKeeps ==
  ASSUME RowInv, NEW e \in Exports, RunStep(e)
  PROVE  Keeps(row') /\ LateOK'
<1>0. RowsOK /\ LateOK /\ Keeps(row)
  BY RowsStay DEF RowInv
<1>1. UNCHANGED late => LateOK'
  BY <1>0 DEF LateOK
<1>2. CASE Enter(e) \/ Work(e) \/ Uploaded(e) \/ UploadFails(e)
  BY <1>0, <1>1, <1>2 DEF Enter, Work, Uploaded, UploadFails, rows
<1>3. CASE Check(e)
  BY <1>0, <1>1, <1>3, TickKeeps DEF Check
<1>4. CASE CheckFails(e)
  <2>1. \/ row' = Ticked(e, FALSE) /\ UNCHANGED late
        \/ UNCHANGED row /\ Failed(<<"tick", e>>)
    BY <1>4 DEF CheckFails
  <2>2. Keeps(row')
    BY <1>0, <2>1, TickKeeps
  <2>3. LateOK'
    BY <1>0, <1>1, <2>1, FailedIsLate
  <2> QED
    BY <2>2, <2>3
<1>5. CASE Publish(e)
  BY <1>0, <1>1, <1>5, FinishKeeps DEF Publish, Outcome
<1>6. CASE PublishFails(e)
  <2>1. \/ row' = Finished(e, "ready") /\ UNCHANGED late
        \/ UNCHANGED row /\ Failed(<<"ready", e>>)
    BY <1>6 DEF PublishFails
  <2>2. Keeps(row')
    BY <1>0, <2>1, FinishKeeps DEF Outcome
  <2>3. LateOK'
    BY <1>0, <1>1, <2>1, FailedIsLate DEF Outcome
  <2> QED
    BY <2>2, <2>3
<1>7. CASE Fail(e)
  <2>1. PICK s \in {"cancelled", "error"} :
          \/ row' = Finished(e, s) /\ UNCHANGED late
          \/ UNCHANGED row /\ Failed(<<s, e>>)
    BY <1>7 DEF Fail
  <2>2. Keeps(row')
    BY <1>0, <2>1, FinishKeeps DEF Outcome
  <2>3. LateOK'
    BY <1>0, <1>1, <2>1, FailedIsLate DEF Outcome
  <2> QED
    BY <2>2, <2>3
<1> QED
  BY <1>2, <1>3, <1>4, <1>5, <1>6, <1>7 DEF RunStep

\* A step of the poll applies a tick or a finish.
LEMMA PollKeeps ==
  ASSUME RowInv, NEW e \in Exports, Poll(e) \/ PollAborted(e)
  PROVE  Keeps(row') /\ LateOK'
<1>0. RowsOK /\ LateOK /\ Keeps(row)
  BY RowsStay DEF RowInv
<1>1. UNCHANGED late => LateOK'
  BY <1>0 DEF LateOK
<1>2. CASE Poll(e)
  <2>1. row' = Ticked(e, stage[e] = "listed" /\ WorkerOf[e] \notin closed) /\ UNCHANGED late
    BY <1>2 DEF Poll
  <2>2. (stage[e] = "listed" /\ WorkerOf[e] \notin closed) \in BOOLEAN
    OBVIOUS
  <2>3. Keeps(Ticked(e, stage[e] = "listed" /\ WorkerOf[e] \notin closed))
    BY <1>0, <2>2, TickKeeps
  <2> QED
    BY <1>1, <2>1, <2>3
<1>3. CASE PollAborted(e)
  <2>1. \/ row' = Finished(e, "cancelled") /\ UNCHANGED late
        \/ UNCHANGED row /\ Failed(<<"cancelled", e>>)
    BY <1>3 DEF PollAborted
  <2>2. Keeps(row')
    BY <1>0, <2>1, FinishKeeps DEF Outcome
  <2>3. LateOK'
    BY <1>0, <1>1, <2>1, FailedIsLate DEF Outcome
  <2> QED
    BY <2>2, <2>3
<1> QED
  BY <1>2, <1>3

\* A heartbeat that fails may have been executed, or be executed later.
LEMMA FailedPollKeeps ==
  ASSUME RowInv, NEW w, PollFails(w)
  PROVE  Keeps(row') /\ LateOK'
<1>0. RowsOK /\ LateOK /\ Keeps(row)
  BY RowsStay DEF RowInv
<1>1. UNCHANGED late => LateOK'
  BY <1>0 DEF LateOK
<1>2. PICK e \in Exports, start \in BOOLEAN :
        \/ row' = Ticked(e, start) /\ UNCHANGED late
        \/ UNCHANGED row /\ Failed(<<IF start THEN "start" ELSE "tick", e>>)
  BY DEF PollFails
<1>3. Keeps(row')
  BY <1>0, <1>2, TickKeeps
<1>4. PICK op \in {"tick", "start"} : op = IF start THEN "start" ELSE "tick"
  OBVIOUS
<1>5. LateOK'
  BY <1>0, <1>1, <1>2, <1>4, FailedIsLate
<1> QED
  BY <1>3, <1>5

\* What is executed after its caller gave up is one of the procedures.
LEMMA LateCallKeeps ==
  ASSUME RowInv, NEW call \in late, ExecuteLate(call)
  PROVE  Keeps(row') /\ LateOK'
<1>0. RowsOK /\ LateOK /\ Keeps(row)
  BY RowsStay DEF RowInv
<1>1. LateOK'
  BY <1>0 DEF LateOK, ExecuteLate
<1>2. /\ call[1] = "delete" \/ (call[1] \in {"tick", "start"} \cup Outcome /\ call[2] \in Exports)
  BY <1>0 DEF LateOK
<1>3. row' = CASE call[1] = "tick" -> Ticked(call[2], FALSE)
               [] call[1] = "start" -> Ticked(call[2], TRUE)
               [] call[1] = "delete" -> row
               [] OTHER -> Finished(call[2], call[1])
  BY DEF ExecuteLate
<1>4. CASE call[1] = "delete"
  BY <1>0, <1>1, <1>3, <1>4
<1>5. CASE call[1] = "tick" /\ call[2] \in Exports
  BY <1>0, <1>1, <1>3, <1>5, TickKeeps
<1>6. CASE call[1] = "start" /\ call[2] \in Exports
  BY <1>0, <1>1, <1>3, <1>6, TickKeeps
<1>7. CASE call[1] \in Outcome /\ call[2] \in Exports
  <2>1. row' = Finished(call[2], call[1])
    BY <1>3, <1>7 DEF Outcome
  <2>2. Keeps(Finished(call[2], call[1]))
    BY <1>0, <1>7, FinishKeeps
  <2> QED
    BY <1>1, <2>1, <2>2
<1> QED
  BY <1>1, <1>2, <1>4, <1>5, <1>6, <1>7

\* Every step keeps the rows, and what is late.
LEMMA StepKeeps ==
  ASSUME RowInv, [Next]_vars
  PROVE  Keeps(row') /\ LateOK'
<1>0. RowsOK /\ LateOK /\ Keeps(row)
  BY RowsStay DEF RowInv
<1>1. UNCHANGED late => LateOK'
  BY <1>0 DEF LateOK
<1>2. CASE UNCHANGED vars
  BY <1>0, <1>1, <1>2 DEF vars
<1>3. ASSUME NEW e \in Exports, Start(e)
      PROVE  Keeps(row') /\ LateOK'
  BY <1>0, <1>1, <1>3, CreateKeeps DEF Start
<1>4. ASSUME NEW e \in Exports, Poll(e) \/ PollAborted(e)
      PROVE  Keeps(row') /\ LateOK'
  BY <1>4, PollKeeps
<1>5. ASSUME NEW e \in Exports, RunStep(e)
      PROVE  Keeps(row') /\ LateOK'
  BY <1>5, RunKeeps
<1>6. ASSUME NEW e \in Exports, TimeOut(e) \/ Land(e) \/ Vanish(e)
      PROVE  Keeps(row') /\ LateOK'
  BY <1>0, <1>1, <1>6 DEF TimeOut, Land, Vanish, rows
<1>7. ASSUME NEW e \in Exports,
             LeaseEnds(e) \/ Expire(e) \/ ClaimEnds(e) \/ NoMoreUploads(e) \/ TombstoneEnds(e)
      PROVE  Keeps(row') /\ LateOK'
  BY <1>1, <1>7, TermEnds
<1>8. ASSUME NEW e \in Exports, NEW remove \in BOOLEAN, NEW w \in Workers, Cancel(e, remove, w)
      PROVE  Keeps(row') /\ LateOK'
  BY <1>0, <1>1, <1>8, CancelKeeps DEF Cancel
<1>9. ASSUME NEW e \in Exports, NEW t \in Tokens, Claim(t, e)
      PROVE  Keeps(row') /\ LateOK'
  BY <1>0, <1>1, <1>9, ClaimKeeps DEF Claim
<1>10. ASSUME NEW o \in Owners, BeginDeletion(o)
       PROVE  Keeps(row') /\ LateOK'
  BY <1>0, <1>1, <1>10 DEF BeginDeletion
<1>11. ASSUME NEW o \in Owners, NEW w \in Workers, CancelOwner(o, w)
       PROVE  Keeps(row') /\ LateOK'
  BY <1>0, <1>1, <1>11, CancelKeeps DEF CancelOwner
<1>12. ASSUME NEW w \in Workers, PollFails(w)
       PROVE  Keeps(row') /\ LateOK'
  BY <1>12, FailedPollKeeps
<1>13. ASSUME NEW w \in Workers, Close(w) \/ Crash(w)
       PROVE  Keeps(row') /\ LateOK'
  BY <1>0, <1>1, <1>13, StopKeeps DEF Close, Crash, rows
<1>14. CASE Sweep
  BY <1>0, <1>1, <1>14, SweepKeeps DEF Sweep
<1>15. ASSUME NEW t \in Tokens, Delete(t) \/ GiveUp(t)
       PROVE  Keeps(row') /\ LateOK'
  BY <1>0, <1>1, <1>15 DEF Delete, GiveUp, rows
<1>16. ASSUME NEW t \in Tokens, DeleteFails(t)
       PROVE  Keeps(row') /\ LateOK'
  BY <1>0, <1>16, FailedIsLate DEF DeleteFails, rows
<1>17. ASSUME NEW t \in Tokens, EndCleanup(t)
       PROVE  Keeps(row') /\ LateOK'
  BY <1>0, <1>1, <1>17, CleanupKeeps DEF EndCleanup
<1>18. ASSUME NEW call \in late, ExecuteLate(call)
       PROVE  Keeps(row') /\ LateOK'
  BY <1>18, LateCallKeeps
<1> QED
  BY <1>2, <1>3, <1>4, <1>5, <1>6, <1>7, <1>8, <1>9, <1>10, <1>11, <1>12, <1>13, <1>14,
     <1>15, <1>16, <1>17, <1>18 DEF Next

-----------------------------------------------------------------------------
(* The theorems.                                                           *)

\* The inductive invariant: a row that is removed, claimed or waits for its end
\* is not offered for download (dbchat_export_cleanup_claim and _finish).
THEOREM RowInvHolds == Spec => []RowInv
<1>1. Init => RowInv
  BY DEF Init, RowInv, RowsOK, LateOK, RowOK, Row, Blank, Status
<1>2. RowInv /\ [Next]_vars => RowInv'
  BY StepKeeps DEF RowInv, RowsOK, Keeps
<1> QED
  BY <1>1, <1>2, PTL DEF Spec

\* No outcome of an export changes but to "cancelled" or by its end, no lease is
\* revived, and an account whose deletion found its exports drained keeps them so
\* (dbchat_export_tick, _finish, _cancel, _create and the cleanup).
THEOREM WhatIsOver == Spec => WhatIsOverStaysOver
<1> DEFINE Final ==
      \A e \in Exports :
        /\ row[e].status \in {"error", "cancelled"} => row'[e].status \in {"error", "cancelled", "gone"}
        /\ row[e].status = "ready" => row'[e].status \in {"ready", "cancelled"}
        /\ Exists(e) /\ ~row[e].alive => ~row'[e].alive
           Stays == \A o \in gate : OwnerDrained(o) => OwnerDrained(o)'
<1>1. RowInv /\ [Next]_vars => [Final]_vars
  <2> SUFFICES ASSUME RowInv, [Next]_vars PROVE Final
    OBVIOUS
  <2>1. Keeps(row')
    BY StepKeeps
  <2> QED
    BY <2>1 DEF Keeps, Becomes, Exists, Lives
<1>2. RowInv /\ [Next]_vars => [Stays]_vars
  <2> SUFFICES ASSUME RowInv, [Next]_vars, NEW o \in gate, OwnerDrained(o)
               PROVE  OwnerDrained(o)'
    OBVIOUS
  <2>1. Keeps(row')
    BY StepKeeps
  <2>2. ASSUME NEW x \in ExportsOf(o)
        PROVE  Drained(row'[x])
    <3>1. x \in Exports /\ OwnerOf[x] \in gate
      BY DEF ExportsOf
    <3>2. Drained(row[x])
      BY DEF OwnerDrained, Exists, Drained, Lives
    <3> QED
      BY <2>1, <3>1, <3>2 DEF Keeps, Becomes
  <2> QED
    BY <2>2 DEF OwnerDrained, Exists, Drained, Lives, ExportsOf
<1>3. RowInv /\ RowInv' /\ [Next]_vars => [Final]_vars /\ [Stays]_vars
  BY <1>1, <1>2
<1> QED
  BY <1>1, <1>2, RowInvHolds, PTL
     DEF Spec, WhatIsOverStaysOver, OutcomeIsFinal, DrainedExportsStayDrained

-----------------------------------------------------------------------------
(* The registry and the storage (DurableExports.RowsMatchObjects).         *)
(*                                                                         *)
(* What is invariant of one export: a DELETE is on its way only to a row   *)
(* that will never be offered; a run that has uploaded has its object      *)
(* until then; and from the moment no upload can land any more, a cleanup  *)
(* that has deleted the object may drop the row.                           *)

Dead == {"error", "cancelled", "gone"}

DeleteComes(e) ==
  <<"delete", e>> \in late \/ \E t \in Tokens : pass[t].at = "deleting" /\ pass[t].export = e
ReadyComes(e) == stage[e] = "publishing" \/ <<"ready", e>> \in late \/ row[e].status = "ready"

\* Nobody has heard of an export that was not created.
Unheard(e) ==
  /\ stage[e] = "idle" /\ e \notin stored \cup upload
  /\ \A call \in late : call[2] # e
  /\ \A t \in Tokens : pass[t].export = e => pass[t].at = "idle"

Matched(e) ==
  /\ row[e].status = "none" => Unheard(e)
  /\ row[e].status = "gone" => e \notin stored \cup upload
  /\ row[e].tomb \in {"late", "over"} => e \notin upload
  /\ row[e].tomb \in {"late", "over"} /\ row[e].claimed =>
       \A t \in Tokens : pass[t].at = "ending" /\ pass[t].export = e /\ row[e].token = t => e \notin stored
  /\ DeleteComes(e) => row[e].status \in Dead
  /\ row[e].status \notin Dead /\ stage[e] = "uploading" => e \in upload \cup stored
  /\ row[e].status \notin Dead /\ ReadyComes(e) => e \in stored

OtherTypes ==
  /\ stored \subseteq Exports /\ upload \subseteq Exports /\ gate \subseteq Owners
  /\ pass \in [Tokens -> [at : {"idle", "deleting", "ending"}, export : Exports \cup {"none"}]]
  /\ \A t \in Tokens : pass[t].at # "idle" => pass[t].export \in Exports
  /\ stage \in [Exports -> Stage]
  /\ aborted \in [Exports -> BOOLEAN]
  /\ up \subseteq Workers /\ closed \subseteq Workers
  /\ late \subseteq LateCall

\* The inductive invariant.
MatchInv == RowInv /\ OtherTypes /\ \A x \in Exports : Matched(x)

\* What a step may do to the row of x.
RowMoves(x) ==
  /\ row'[x].status = "none" => row[x].status = "none"
  /\ row'[x].status = "gone" => row[x].status = "gone" \/ x \notin stored' \cup upload'
  /\ row[x].status \in Dead => row'[x].status \in Dead
  /\ row'[x].status = "ready" => row[x].status = "ready" \/ x \in stored
  /\ row'[x].claimed =>
       \/ row[x].claimed /\ row'[x].token = row[x].token
       \/ \A t \in Tokens : row'[x].token = t => pass'[t].at \in {"idle", "deleting"}
  /\ row'[x].tomb \in {"late", "over"} =>
       row[x].tomb \in {"late", "over"} \/ (x \notin upload /\ ~row'[x].claimed)

\* What a step may do to the rest: to the worker of x, to its object,
StageMoves(x) ==
  /\ stage'[x] # "idle" => stage[x] # "idle" \/ row'[x].status # "none"
  /\ stage'[x] = "uploading" => stage[x] = "uploading" \/ x \in upload'
  /\ stage'[x] = "publishing" => stage[x] = "publishing" \/ x \in stored \/ row[x].status \in Dead
StoreMoves(x) ==
  /\ x \in upload' => x \in upload \/ row'[x].status = "running"
  /\ x \in upload /\ x \notin upload' => stage'[x] # "uploading" \/ x \in stored'
  /\ x \in stored' => x \in stored \cup upload
  /\ x \in stored /\ x \notin stored' => row[x].status \in Dead
\* to the calls that may still be executed,
LateMoves(x) ==
  \A call \in late' : call[2] = x =>
    \/ call \in late
    \/ /\ row[x].status # "none"
       /\ call[1] = "delete" => DeleteComes(x)
       /\ call[1] = "ready" => x \in stored \/ row[x].status \in Dead
\* and to the cleanups.
PassMoves(x) ==
  \A t \in Tokens : pass'[t].at # "idle" /\ pass'[t].export = x =>
    \/ pass'[t] = pass[t]
    \/ pass'[t].at = "ending" /\ pass[t].at = "deleting" /\ pass[t].export = x /\ x \notin stored'
    \/ pass'[t].at = "deleting" /\ row'[x].status \in Dead
Moves(x) == RowMoves(x) /\ StageMoves(x) /\ StoreMoves(x) /\ LateMoves(x) /\ PassMoves(x)

\* What moves in these ways stays matched.
LEMMA MovesKeep ==
  ASSUME NEW x \in Exports, Matched(x), Moves(x), RowOK(row'[x])
  PROVE  Matched(x)'
<1> USE DEF Moves
<1>1. (row[x].status = "none" => Unheard(x))'
  <2> SUFFICES ASSUME row'[x].status = "none" PROVE Unheard(x)'
    OBVIOUS
  <2>1. row[x].status = "none" /\ Unheard(x)
    BY DEF RowMoves, Matched
  <2>2. stage'[x] = "idle" /\ x \notin stored' \cup upload'
    BY <2>1 DEF StageMoves, StoreMoves, LateMoves, PassMoves, Unheard
  <2>3. \A call \in late' : call[2] # x
    BY <2>1 DEF StageMoves, StoreMoves, LateMoves, PassMoves, Unheard
  <2>4. \A t \in Tokens : pass'[t].export = x => pass'[t].at = "idle"
    BY <2>1 DEF StageMoves, StoreMoves, LateMoves, PassMoves, Unheard, Dead
  <2> QED
    BY <2>2, <2>3, <2>4 DEF Unheard
<1>2. (row[x].status = "gone" => x \notin stored \cup upload)'
  BY DEF RowMoves, StageMoves, StoreMoves, LateMoves, PassMoves, Matched
<1>3. (row[x].tomb \in {"late", "over"} => x \notin upload)'
  BY DEF RowMoves, StageMoves, StoreMoves, LateMoves, PassMoves, Matched, RowOK
<1>4. ASSUME row'[x].tomb \in {"late", "over"}, row'[x].claimed,
             NEW t \in Tokens, pass'[t].at = "ending", pass'[t].export = x, row'[x].token = t
      PROVE  x \notin stored'
  <2>1. row[x].tomb \in {"late", "over"} /\ row[x].claimed /\ row[x].token = t /\ x \notin upload
    BY <1>4 DEF RowMoves, Matched
  <2>2. CASE pass'[t] = pass[t]
    BY <1>4, <2>1, <2>2 DEF Matched, StageMoves, StoreMoves, LateMoves, PassMoves
  <2>3. CASE pass'[t] # pass[t]
    BY <1>4, <2>3 DEF StageMoves, StoreMoves, LateMoves, PassMoves
  <2> QED
    BY <2>2, <2>3
<1>5. (DeleteComes(x) => row[x].status \in Dead)'
  <2> SUFFICES ASSUME DeleteComes(x)' PROVE row'[x].status \in Dead
    OBVIOUS
  <2>1. CASE <<"delete", x>> \in late'
    <3>1. DeleteComes(x)
      BY <2>1 DEF StageMoves, StoreMoves, LateMoves, PassMoves, DeleteComes
    <3> QED
      BY <3>1 DEF Matched, RowMoves
  <2>2. ASSUME NEW t \in Tokens, pass'[t].at = "deleting", pass'[t].export = x
        PROVE  row'[x].status \in Dead
    <3>1. CASE pass'[t] = pass[t]
      BY <2>2, <3>1 DEF Matched, RowMoves, DeleteComes
    <3>2. CASE pass'[t] # pass[t]
      BY <2>2, <3>2 DEF StageMoves, StoreMoves, LateMoves, PassMoves
    <3> QED
      BY <3>1, <3>2
  <2> QED
    BY <2>1, <2>2 DEF DeleteComes
<1>6. ASSUME row'[x].status \notin Dead
      PROVE  /\ row[x].status \notin Dead
             /\ x \in stored => x \in stored'
             /\ x \in upload => x \in upload' \/ stage'[x] # "uploading" \/ x \in stored'
  BY <1>6 DEF RowMoves, StageMoves, StoreMoves, LateMoves, PassMoves
<1>7. (row[x].status \notin Dead /\ stage[x] = "uploading" => x \in upload \cup stored)'
  BY <1>6 DEF StageMoves, StoreMoves, LateMoves, PassMoves, Matched
<1>8. (row[x].status \notin Dead /\ ReadyComes(x) => x \in stored)'
  <2> SUFFICES ASSUME row'[x].status \notin Dead, ReadyComes(x)' PROVE x \in stored
    BY <1>6
  <2>1. CASE stage'[x] = "publishing"
    BY <1>6, <2>1 DEF StageMoves, StoreMoves, LateMoves, PassMoves, Matched, ReadyComes
  <2>2. CASE <<"ready", x>> \in late'
    BY <1>6, <2>2 DEF StageMoves, StoreMoves, LateMoves, PassMoves, Matched, ReadyComes
  <2>3. CASE row'[x].status = "ready"
    BY <1>6, <2>3 DEF RowMoves, Matched, ReadyComes
  <2> QED
    BY <2>1, <2>2, <2>3 DEF ReadyComes
<1> QED
  BY <1>1, <1>2, <1>3, <1>4, <1>5, <1>7, <1>8 DEF Matched

-----------------------------------------------------------------------------
(* What the procedures do to claims, tombstones and offers.                *)

\* A row that is not claimed, entombed, created or dropped; offers: it may be published.
OrdinaryRow(r, s, offers) ==
  /\ s.status = "none" => r.status = "none"
  /\ s.status = "gone" <=> r.status = "gone"
  /\ s.status = "ready" => r.status = "ready" \/ offers
  /\ s.claimed => r.claimed /\ s.token = r.token
  /\ s.tomb \in {"late", "over"} => r.tomb \in {"late", "over"}

\* S: the exports that the procedure may publish.
Ordinary(new, S) == \A x \in Exports : OrdinaryRow(row[x], new[x], x \in S)

\* Rows that are left alone.
LEMMA OrdinaryStay == ASSUME NEW S PROVE Ordinary(row, S)
  BY DEF Ordinary, OrdinaryRow

\* A row whose outcome, execution or terms change, and the others left alone.
LEMMA OrdinaryOne ==
  ASSUME row \in [Exports -> Row], NEW e \in Exports, NEW s, NEW S, OrdinaryRow(row[e], s, e \in S)
  PROVE  Ordinary([row EXCEPT ![e] = s], S)
<1> SUFFICES ASSUME NEW x \in Exports
             PROVE  OrdinaryRow(row[x], [row EXCEPT ![e] = s][x], x \in S)
  BY DEF Ordinary
<1>1. CASE x = e
  BY <1>1
<1>2. CASE x # e
  <2>1. [row EXCEPT ![e] = s][x] = row[x]
    BY <1>2
  <2> QED
    BY <2>1, OrdinaryStay DEF Ordinary
<1> QED
  BY <1>1, <1>2

\* dbchat_export_tick.
LEMMA TickOrdinary ==
  ASSUME RowsOK, NEW e \in Exports, NEW start \in BOOLEAN
  PROVE  Ordinary(Ticked(e, start), {})
<1> DEFINE r == row[e]
           over == r.expired \/ OwnerOf[e] \in gate
           starts == start /\ r.status = "queued" /\ ~over /\ SlotFree(e)
           status == IF over THEN "cancelled" ELSE IF starts THEN "running" ELSE r.status
           executing == r.executing \/ starts
           s == [r EXCEPT !.status = status, !.executing = executing]
<1>0. r \in Row /\ row \in [Exports -> Row]
  BY DEF RowsOK
<1>1. CASE ~r.alive \/ r.status \notin Open \cup {"cancelled"}
  BY <1>1, OrdinaryStay DEF Ticked
<1>2. CASE ~(~r.alive \/ r.status \notin Open \cup {"cancelled"})
  <2>1. Ticked(e, start) = [row EXCEPT ![e] = s]
    BY <1>2 DEF Ticked, RowsOK
  <2>2. /\ status \in {"cancelled", "running", r.status} /\ r.status \in Open \cup {"cancelled"}
    BY <1>2
  <2>3. s.status = status /\ s.claimed = r.claimed /\ s.token = r.token /\ s.tomb = r.tomb
    <3> HIDE DEF status, executing, r
    <3> QED
      BY <1>0, FieldsOfRow DEF Row
  <2> HIDE DEF s, status
  <2>4. OrdinaryRow(r, s, e \in {})
    BY <2>2, <2>3 DEF OrdinaryRow, Open
  <2> QED
    BY <1>0, <2>1, <2>4, OrdinaryOne
<1> QED
  BY <1>1, <1>2

\* dbchat_export_finish.
LEMMA FinishOrdinary ==
  ASSUME RowsOK, NEW e \in Exports, NEW outcome \in Outcome
  PROVE  Ordinary(Finished(e, outcome), IF outcome = "ready" THEN {e} ELSE {})
<1> DEFINE r == row[e]
           S == IF outcome = "ready" THEN {e} ELSE {}
           status == IF r.status = "cancelled" THEN r.status ELSE outcome
           s == [r EXCEPT !.executing = FALSE, !.status = status]
<1>0. r \in Row /\ row \in [Exports -> Row]
  BY DEF RowsOK
<1>1. CASE FinishRaises(e, outcome) \/ r.status \in {"ready", "error"}
  BY <1>1, OrdinaryStay DEF Finished
<1>2. CASE ~(FinishRaises(e, outcome) \/ r.status \in {"ready", "error"})
  <2>1. Finished(e, outcome) = [row EXCEPT ![e] = s]
    BY <1>2 DEF Finished, RowsOK
  <2>2. s.status = status /\ s.claimed = r.claimed /\ s.token = r.token /\ s.tomb = r.tomb
    <3> HIDE DEF status, r
    <3> QED
      BY <1>0, FieldsOfRow DEF Row
  <2>3. r.status \notin {"none", "gone"} /\ status \in {r.status, outcome}
    BY <1>2 DEF FinishRaises, Exists
  <2>4. status = "ready" => r.status = "ready" \/ e \in S
    BY <2>3
  <2> HIDE DEF s, status, S
  <2>5. OrdinaryRow(r, s, e \in S)
    BY <2>2, <2>3, <2>4 DEF OrdinaryRow, Outcome
  <2>6. Ordinary(Finished(e, outcome), S)
    BY <1>0, <2>1, <2>5, OrdinaryOne
  <2> QED
    BY <2>6 DEF S
<1> QED
  BY <1>1, <1>2

\* dbchat_export_cancel.
LEMMA CancelOrdinary ==
  ASSUME RowsOK, NEW S, NEW remove \in BOOLEAN
  PROVE  Ordinary(CancelRows(S, remove), {})
<1> SUFFICES ASSUME NEW x \in Exports
             PROVE  OrdinaryRow(row[x], CancelRows(S, remove)[x], x \in {})
  BY DEF Ordinary
<1>0. row[x] \in Row
  BY DEF RowsOK
<1>1. CASE x \in S /\ Exists(x)
  <2> DEFINE removed == row[x].removed \/ remove
             s == [row[x] EXCEPT !.status = "cancelled", !.removed = removed]
  <2>1. CancelRows(S, remove)[x] = s
    BY <1>1 DEF CancelRows
  <2>2. s.status = "cancelled" /\ s.claimed = row[x].claimed /\ s.token = row[x].token /\ s.tomb = row[x].tomb
    <3> HIDE DEF removed
    <3> QED
      BY <1>0, FieldsOfRow DEF Row
  <2> HIDE DEF s
  <2>3. row[x].status \notin {"none", "gone"}
    BY <1>1 DEF Exists
  <2> QED
    BY <2>1, <2>2, <2>3 DEF OrdinaryRow
<1>2. CASE ~(x \in S /\ Exists(x))
  <2>1. CancelRows(S, remove)[x] = row[x]
    BY <1>2 DEF CancelRows
  <2> QED
    BY <2>1, OrdinaryStay DEF Ordinary
<1> QED
  BY <1>1, <1>2

\* dbchat_export_stop_worker.
LEMMA StopOrdinary ==
  ASSUME RowsOK, NEW w
  PROVE  Ordinary(StopWorkerRows(w), {})
<1> SUFFICES ASSUME NEW x \in Exports
             PROVE  OrdinaryRow(row[x], StopWorkerRows(w)[x], x \in {})
  BY DEF Ordinary
<1>0. row[x] \in Row
  BY DEF RowsOK
<1>1. CASE WorkerOf[x] = w /\ row[x].status \in Open
  <2> DEFINE s == [row[x] EXCEPT !.status = "cancelled"]
  <2>1. StopWorkerRows(w)[x] = s
    BY <1>1 DEF StopWorkerRows
  <2>2. s.status = "cancelled" /\ s.claimed = row[x].claimed /\ s.token = row[x].token /\ s.tomb = row[x].tomb
    BY <1>0, FieldsOfRow DEF Row
  <2> HIDE DEF s
  <2> QED
    BY <1>1, <2>1, <2>2 DEF OrdinaryRow, Open
<1>2. CASE ~(WorkerOf[x] = w /\ row[x].status \in Open)
  <2>1. StopWorkerRows(w)[x] = row[x]
    BY <1>2 DEF StopWorkerRows
  <2> QED
    BY <2>1, OrdinaryStay DEF Ordinary
<1> QED
  BY <1>1, <1>2

\* The two updates of the cleanup.
LEMMA SweptOrdinary ==
  ASSUME RowsOK
  PROVE  Ordinary(Swept, {})
<1> SUFFICES ASSUME NEW x \in Exports
             PROVE  OrdinaryRow(row[x], Swept[x], x \in {})
  BY DEF Ordinary
<1> DEFINE r == row[x]
           i == Interrupted(r)
           s == Outdated(i)
<1>0. r \in Row /\ Swept[x] = s
  BY DEF RowsOK, Swept
<1>1. i \in Row
  <2>1. "error" \in Status
    BY DEF Status, Outcome
  <2> QED
    BY <1>0, <2>1, UpdatedRow DEF Interrupted
<1>2. /\ i.claimed = r.claimed /\ i.token = r.token /\ i.tomb = r.tomb
      /\ i.status = r.status \/ (i.status = "error" /\ r.status \in Open \cup {"cancelled"})
  BY <1>0, <1>1, FieldsOfRow DEF Interrupted, Row
<1> HIDE DEF i
<1>3. /\ s.claimed = i.claimed /\ s.token = i.token /\ s.tomb = i.tomb
      /\ s.status = i.status \/ (s.status = "cancelled" /\ i.status \in Open \cup {"ready"})
  BY <1>1, FieldsOfRow DEF Outdated, Row
<1> HIDE DEF s
<1> QED
  BY <1>0, <1>2, <1>3 DEF OrdinaryRow, Open

\* What such a procedure leaves moves as a step may move it.
LEMMA OrdinaryMoves ==
  ASSUME RowsOK, Keeps(row'), NEW S, Ordinary(row', S), NEW x \in Exports,
         x \in S => x \in stored \/ row[x].status \in Dead
  PROVE  RowMoves(x)
<1>1. RowOK(row[x]) /\ OrdinaryRow(row[x], row'[x], x \in S) /\ Becomes(row[x], row'[x], OwnerOf[x] \in gate)
  BY DEF RowsOK, Ordinary, Keeps
<1>2. row[x].status \in Dead => row'[x].status \in Dead
  BY <1>1 DEF Becomes, OrdinaryRow, Dead
<1>3. row'[x].status = "ready" => row[x].status = "ready" \/ x \in stored
  BY <1>1, <1>2 DEF OrdinaryRow, Dead
<1> QED
  BY <1>1, <1>2, <1>3 DEF OrdinaryRow, RowMoves

-----------------------------------------------------------------------------
(* The steps keep the registry and the storage in agreement.               *)

\* The exports stay matched if each moves as it may.
LEMMA AllMatched ==
  ASSUME MatchInv, Keeps(row'), \A x \in Exports : Moves(x)
  PROVE  \A x \in Exports : Matched(x)'
  BY MovesKeep DEF MatchInv, Keeps

\* The rest stays as it is.
LEMMA RestStays ==
  ASSUME NEW x, UNCHANGED <<stored, upload, pass, stage, late>>
  PROVE  StageMoves(x) /\ StoreMoves(x) /\ LateMoves(x) /\ PassMoves(x)
  BY DEF StageMoves, StoreMoves, LateMoves, PassMoves

\* Nothing more may still be executed.
LEMMA LateStays ==
  ASSUME NEW x, late' \subseteq late
  PROVE  LateMoves(x)
  BY DEF LateMoves

\* No cleanup claims a row.
LEMMA PassesStay ==
  ASSUME NEW x, \A t \in Tokens : pass'[t] = pass[t] \/ pass'[t] = NoPass
  PROVE  PassMoves(x)
  BY DEF PassMoves, NoPass

\* A call about e other than DELETE fails.
LEMMA FailedMoves ==
  ASSUME NEW op, NEW e, Failed(<<op, e>>), op # "delete", row[e].status # "none",
         op = "ready" => e \in stored \/ row[e].status \in Dead, NEW x
  PROVE  LateMoves(x)
<1>1. late' \subseteq late \cup {<<op, e>>}
  BY DEF Failed
<1>2. <<op, e>>[1] = op /\ <<op, e>>[2] = e
  OBVIOUS
<1> QED
  BY <1>1, <1>2 DEF LateMoves

\* The types of what fails.
LEMMA FailedTypes ==
  ASSUME OtherTypes, NEW op, NEW e \in Exports, Failed(<<op, e>>),
         op \in {"tick", "start", "delete"} \cup Outcome
  PROVE  late' \subseteq LateCall
<1>1. late' \subseteq late \cup {<<op, e>>}
  BY DEF Failed
<1>2. <<op, e>> \in LateCall
  BY DEF LateCall
<1> QED
  BY <1>1, <1>2 DEF OtherTypes

\* An export that some worker holds exists or existed.
LEMMA HeldExists ==
  ASSUME MatchInv, NEW e \in Exports, stage[e] # "idle"
  PROVE  row[e].status # "none"
  BY DEF MatchInv, Matched, Unheard

\* Rows alone: the terms that end, but for the tombstone.
LEMMA TermsMatch ==
  ASSUME MatchInv, NEW e \in Exports, LeaseEnds(e) \/ Expire(e) \/ ClaimEnds(e), NEW x \in Exports
  PROVE  Moves(x)
<1>0. RowsOK /\ row[e] \in Row /\ row \in [Exports -> Row] /\ Keeps(row')
  BY TermEnds DEF MatchInv, RowInv, RowsOK
<1>1. PICK s :
        /\ row' = [row EXCEPT ![e] = s] /\ UNCHANGED <<stored, upload, pass, stage, late>>
        /\ s.status = row[e].status /\ s.token = row[e].token /\ s.tomb = row[e].tomb
        /\ s.claimed => row[e].claimed
  <2>1. CASE LeaseEnds(e)
    <3> DEFINE s == [row[e] EXCEPT !.alive = FALSE]
    <3>1. s.status = row[e].status /\ s.token = row[e].token /\ s.tomb = row[e].tomb /\ s.claimed = row[e].claimed
      BY <1>0, FieldsOfRow DEF Row
    <3> QED
      BY <2>1, <3>1 DEF LeaseEnds, Pass, worker
  <2>2. CASE Expire(e)
    <3> DEFINE s == [row[e] EXCEPT !.expired = TRUE]
    <3>1. s.status = row[e].status /\ s.token = row[e].token /\ s.tomb = row[e].tomb /\ s.claimed = row[e].claimed
      BY <1>0, FieldsOfRow DEF Row
    <3> QED
      BY <2>2, <3>1 DEF Expire, Pass, worker
  <2>3. CASE ClaimEnds(e)
    <3> DEFINE s == [row[e] EXCEPT !.claimed = FALSE]
    <3>1. s.status = row[e].status /\ s.token = row[e].token /\ s.tomb = row[e].tomb /\ ~s.claimed
      BY <1>0, FieldsOfRow DEF Row
    <3> QED
      BY <2>3, <3>1 DEF ClaimEnds, Pass, worker
  <2> QED
    BY <2>1, <2>2, <2>3
<1>2. OrdinaryRow(row[e], s, e \in {})
  BY <1>1 DEF OrdinaryRow
<1>3. Ordinary(row', {})
  BY <1>0, <1>1, <1>2, OrdinaryOne
<1>4. RowMoves(x)
  BY <1>0, <1>3, OrdinaryMoves
<1> QED
  BY <1>1, <1>4, RestStays DEF Moves

\* The tombstone: no upload can land any more, nor does one, from then on.
LEMMA TombMatch ==
  ASSUME MatchInv, NEW e \in Exports, NoMoreUploads(e) \/ TombstoneEnds(e), NEW x \in Exports
  PROVE  Moves(x)
<1>0. RowsOK /\ row[e] \in Row /\ row \in [Exports -> Row] /\ Keeps(row')
  BY TermEnds DEF MatchInv, RowInv, RowsOK
<1>1. PICK tomb \in {"late", "over"} :
        /\ Pass(e, [row[e] EXCEPT !.tomb = tomb])
        /\ row[e].tomb = "late" \/ (e \notin upload /\ ~row[e].claimed)
  BY DEF NoMoreUploads, TombstoneEnds
<1> DEFINE s == [row[e] EXCEPT !.tomb = tomb]
<1>2. s.status = row[e].status /\ s.token = row[e].token /\ s.tomb = tomb /\ s.claimed = row[e].claimed
  BY <1>0, FieldsOfRow DEF Row
<1>3. row' = [row EXCEPT ![e] = s] /\ UNCHANGED <<stored, upload, pass, stage, late>>
  BY <1>1 DEF Pass, worker
<1> HIDE DEF s
<1>4. RowMoves(x)
  <2>1. CASE x = e
    <3>1. row'[x] = s
      BY <1>0, <1>3, <2>1
    <3> QED
      BY <1>1, <1>2, <1>3, <2>1, <3>1 DEF RowMoves, MatchInv, Matched
  <2>2. CASE x # e
    <3>1. row'[x] = row[x]
      BY <1>0, <1>3, <2>2
    <3> QED
      BY <1>3, <3>1 DEF RowMoves, MatchInv, Matched
  <2> QED
    BY <2>1, <2>2
<1> QED
  BY <1>3, <1>4, RestStays DEF Moves

\* dbchat_export_create.
LEMMA StartMatch ==
  ASSUME MatchInv, NEW e \in Exports, Start(e), NEW x \in Exports
  PROVE  Moves(x)
<1> DEFINE s == [Blank EXCEPT !.status = "queued", !.alive = TRUE]
<1>0. RowsOK /\ row \in [Exports -> Row] /\ row[e].status = "none"
  BY DEF MatchInv, RowInv, RowsOK, Start, MayCreate
<1>1. row' = [row EXCEPT ![e] = s] /\ UNCHANGED <<stored, upload, pass, late>>
  BY DEF Start, Created
<1>2. s.status = "queued" /\ ~s.claimed /\ s.tomb = "none"
  BY DEF Blank
<1> HIDE DEF s
<1>3. RowMoves(x)
  <2>1. CASE x = e
    BY <1>0, <1>1, <1>2, <2>1 DEF RowMoves, Dead
  <2>2. CASE x # e
    BY <1>0, <1>1, <2>2 DEF RowMoves
  <2> QED
    BY <2>1, <2>2
<1>4. StageMoves(x)
  <2>1. CASE x = e
    <3>1. row'[x].status # "none"
      BY <1>0, <1>1, <1>2, <2>1
    <3>2. stage'[x] \in {stage[x], "listed"}
      BY <2>1 DEF Start, MatchInv, OtherTypes
    <3> QED
      BY <3>1, <3>2 DEF StageMoves
  <2>2. CASE x # e
    <3>1. stage'[x] = stage[x]
      BY <2>2 DEF Start, MatchInv, OtherTypes
    <3> QED
      BY <3>1 DEF StageMoves
  <2> QED
    BY <2>1, <2>2
<1>5. StoreMoves(x) /\ LateMoves(x) /\ PassMoves(x)
  BY <1>1 DEF StoreMoves, LateMoves, PassMoves
<1> QED
  BY <1>3, <1>4, <1>5 DEF Moves

\* The worker of e goes on, but not to an upload or a publication.
LEMMA StageQuiet ==
  ASSUME OtherTypes, NEW e \in Exports, NEW s \in Stage \ {"uploading", "publishing"},
         s # "idle" => stage[e] # "idle", stage' = stage \/ stage' = [stage EXCEPT ![e] = s],
         UNCHANGED <<stored, upload>>, NEW x \in Exports
  PROVE  StageMoves(x) /\ StoreMoves(x)
<1>1. stage'[x] = stage[x] \/ (x = e /\ stage'[x] = s)
  BY DEF OtherTypes
<1> QED
  BY <1>1 DEF StageMoves, StoreMoves

\* The poll.
LEMMA PollMatch ==
  ASSUME MatchInv, NEW e \in Exports, Poll(e) \/ PollAborted(e), NEW x \in Exports
  PROVE  Moves(x)
<1>0. RowsOK /\ OtherTypes /\ Keeps(row') /\ stage[e] # "idle" /\ row[e].status # "none"
  <2>1. Keeps(row')
    BY PollKeeps DEF MatchInv
  <2>2. stage[e] # "idle"
    BY DEF Poll, PollAborted
  <2> QED
    BY <2>1, <2>2, HeldExists DEF MatchInv, RowInv
<1>1. CASE Poll(e)
  <2>1. /\ row' = Ticked(e, stage[e] = "listed" /\ WorkerOf[e] \notin closed)
        /\ UNCHANGED <<stored, upload, pass, late>>
    BY <1>1 DEF Poll
  <2>2. PICK s \in {"idle", "entering"} : stage' = stage \/ stage' = [stage EXCEPT ![e] = s]
    BY <1>1 DEF Poll, Leave, Move
  <2>3. (stage[e] = "listed" /\ WorkerOf[e] \notin closed) \in BOOLEAN
    OBVIOUS
  <2>4. Ordinary(row', {})
    BY <1>0, <2>1, <2>3, TickOrdinary
  <2>5. RowMoves(x)
    BY <1>0, <2>4, OrdinaryMoves
  <2>6. StageMoves(x) /\ StoreMoves(x)
    BY <1>0, <2>1, <2>2, StageQuiet DEF Stage
  <2>7. LateMoves(x) /\ PassMoves(x)
    BY <2>1 DEF LateMoves, PassMoves
  <2> QED
    BY <2>5, <2>6, <2>7 DEF Moves
<1>2. CASE PollAborted(e)
  <2>1. /\ \/ row' = Finished(e, "cancelled") /\ UNCHANGED late
           \/ UNCHANGED row /\ Failed(<<"cancelled", e>>)
        /\ stage' = [stage EXCEPT ![e] = "idle"] /\ UNCHANGED <<stored, upload, pass>>
    BY <1>2 DEF PollAborted, Leave
  <2>2. Ordinary(row', {})
    BY <1>0, <2>1, FinishOrdinary, OrdinaryStay DEF Outcome
  <2>3. RowMoves(x)
    BY <1>0, <2>2, OrdinaryMoves
  <2>4. StageMoves(x) /\ StoreMoves(x)
    BY <1>0, <2>1, StageQuiet DEF Stage
  <2>5. LateMoves(x)
    BY <1>0, <2>1, LateStays, FailedMoves
  <2>6. PassMoves(x)
    BY <2>1 DEF PassMoves
  <2> QED
    BY <2>3, <2>4, <2>5, <2>6 DEF Moves
<1> QED
  BY <1>1, <1>2

\* The poll that fails.
LEMMA FailedPollMatch ==
  ASSUME MatchInv, NEW w, PollFails(w), NEW x \in Exports
  PROVE  Moves(x)
<1>0. RowsOK /\ OtherTypes /\ Keeps(row')
  BY FailedPollKeeps DEF MatchInv, RowInv
<1>1. PICK e \in Exports, start \in BOOLEAN :
        /\ stage[e] # "idle"
        /\ \/ row' = Ticked(e, start) /\ UNCHANGED late
           \/ UNCHANGED row /\ Failed(<<IF start THEN "start" ELSE "tick", e>>)
  BY DEF PollFails
<1>2. row[e].status # "none"
  BY <1>1, HeldExists
<1>3. PICK op \in {"tick", "start"} : op = IF start THEN "start" ELSE "tick"
  OBVIOUS
<1>4. Ordinary(row', {})
  BY <1>0, <1>1, TickOrdinary, OrdinaryStay
<1>5. RowMoves(x)
  BY <1>0, <1>4, OrdinaryMoves
<1>6. LateMoves(x)
  <2>1. UNCHANGED late \/ Failed(<<op, e>>)
    BY <1>1, <1>3
  <2> QED
    BY <1>2, <2>1, LateStays, FailedMoves
<1>7. StageMoves(x) /\ StoreMoves(x) /\ PassMoves(x)
  BY DEF PollFails, StageMoves, StoreMoves, PassMoves
<1> QED
  BY <1>5, <1>6, <1>7 DEF Moves

\* The awaits of execute.
LEMMA RunMatch ==
  ASSUME MatchInv, NEW e \in Exports, RunStep(e), NEW x \in Exports
  PROVE  Moves(x)
<1>0. RowsOK /\ OtherTypes /\ Matched(e) /\ Keeps(row') /\ stage[e] # "idle" /\ row[e].status # "none"
  <2>1. stage[e] # "idle"
    BY DEF RunStep, Enter, Work, Check, CheckFails, Uploaded, UploadFails, Publish, PublishFails, Fail
  <2> QED
    BY <2>1, HeldExists, RunKeeps DEF MatchInv, RowInv
<1>1. UNCHANGED pass
  BY DEF RunStep, Enter, Work, Check, CheckFails, Uploaded, UploadFails, Publish, PublishFails, Fail
<1>2. PassMoves(x)
  BY <1>1 DEF PassMoves
<1>3. UNCHANGED row => RowMoves(x)
  BY <1>0, OrdinaryStay, OrdinaryMoves
<1>4. UNCHANGED late => LateMoves(x)
  BY LateStays
<1>5. ASSUME NEW s \in {"failing", "working", "checking", "idle"}, UNCHANGED <<stored, upload>>,
             stage' = [stage EXCEPT ![e] = s]
      PROVE  StageMoves(x) /\ StoreMoves(x)
  BY <1>0, <1>5, StageQuiet DEF Stage
<1>6. CASE Enter(e) \/ Work(e)
  <2>1. PICK s \in {"failing", "working", "checking"} :
          stage' = [stage EXCEPT ![e] = s] /\ UNCHANGED <<row, stored, upload, late>>
    BY <1>6 DEF Enter, Work, Move, rows
  <2> QED
    BY <1>2, <1>3, <1>4, <1>5, <2>1 DEF Moves
<1>7. CASE Check(e)
  <2>1. row' = Ticked(e, FALSE) /\ UNCHANGED <<stored, late>>
    BY <1>7 DEF Check
  <2>2. Ordinary(row', {})
    BY <1>0, <2>1, TickOrdinary
  <2>3. RowMoves(x)
    BY <1>0, <2>2, OrdinaryMoves
  <2>4. CASE UNCHANGED upload /\ stage' = [stage EXCEPT ![e] = "failing"]
    BY <1>2, <1>4, <1>5, <2>1, <2>3, <2>4 DEF Moves
  <2>5. CASE row'[e].status = "running" /\ upload' = upload \cup {e} /\ stage' = [stage EXCEPT ![e] = "uploading"]
    <3>1. stage'[x] = IF x = e THEN "uploading" ELSE stage[x]
      BY <1>0, <2>5 DEF OtherTypes
    <3>2. StageMoves(x)
      BY <1>0, <2>5, <3>1 DEF StageMoves
    <3>3. StoreMoves(x)
      <4>1. stored' = stored /\ (x \in upload' <=> x \in upload \/ x = e)
        BY <2>1, <2>5
      <4>2. x = e => row'[x].status = "running"
        BY <2>5
      <4> QED
        BY <4>1, <4>2 DEF StoreMoves
    <3> QED
      BY <1>2, <1>4, <2>1, <2>3, <3>2, <3>3 DEF Moves
  <2> QED
    BY <1>7, <2>4, <2>5 DEF Check, Move
<1>8. CASE CheckFails(e)
  <2>1. /\ \/ row' = Ticked(e, FALSE) /\ UNCHANGED late
           \/ UNCHANGED row /\ Failed(<<"tick", e>>)
        /\ stage' = [stage EXCEPT ![e] = "failing"] /\ UNCHANGED <<stored, upload>>
    BY <1>8 DEF CheckFails, Move
  <2>2. Ordinary(row', {})
    BY <1>0, <2>1, TickOrdinary, OrdinaryStay
  <2>3. RowMoves(x)
    BY <1>0, <2>2, OrdinaryMoves
  <2>4. LateMoves(x)
    BY <1>0, <1>4, <2>1, FailedMoves
  <2> QED
    BY <1>2, <1>5, <2>1, <2>3, <2>4 DEF Moves
<1>9. CASE Uploaded(e)
  <2>1. PICK s \in {"failing", "publishing"} :
          stage' = [stage EXCEPT ![e] = s] /\ UNCHANGED <<row, stored, upload, late>>
    BY <1>9 DEF Uploaded, Move, rows
  <2>2. e \in stored \/ row[e].status \in Dead
    BY <1>0, <1>9 DEF Uploaded, Matched
  <2>3. stage'[x] = IF x = e THEN s ELSE stage[x]
    BY <1>0, <2>1 DEF OtherTypes
  <2>4. StageMoves(x) /\ StoreMoves(x)
    BY <1>0, <2>1, <2>2, <2>3 DEF StageMoves, StoreMoves
  <2> QED
    BY <1>2, <1>3, <1>4, <2>1, <2>4 DEF Moves
<1>10. CASE UploadFails(e)
  <2>1. /\ stage' = [stage EXCEPT ![e] = "failing"] /\ upload' \in {upload, upload \ {e}}
        /\ UNCHANGED <<row, stored, late>>
    BY <1>10 DEF UploadFails, Move, rows
  <2>2. stage'[x] = IF x = e THEN "failing" ELSE stage[x]
    BY <1>0, <2>1 DEF OtherTypes
  <2>3. StageMoves(x) /\ StoreMoves(x)
    BY <1>0, <2>1, <2>2 DEF StageMoves, StoreMoves
  <2> QED
    BY <1>2, <1>3, <1>4, <2>1, <2>3 DEF Moves
<1>11. CASE Publish(e) \/ PublishFails(e)
  <2>1. /\ \/ row' = Finished(e, "ready") /\ UNCHANGED late
           \/ UNCHANGED row /\ Failed(<<"ready", e>>)
        /\ UNCHANGED <<stored, upload>> /\ stage[e] = "publishing"
    BY <1>11 DEF Publish, PublishFails
  <2>2. PICK s \in {"failing", "idle"} : stage' = [stage EXCEPT ![e] = s]
    BY <1>11 DEF Publish, PublishFails, Move, Leave
  <2>3. e \in stored \/ row[e].status \in Dead
    BY <1>0, <2>1 DEF Matched, ReadyComes
  <2>4. Ordinary(row', {e})
    BY <1>0, <2>1, FinishOrdinary, OrdinaryStay DEF Outcome
  <2>5. RowMoves(x)
    BY <1>0, <2>3, <2>4, OrdinaryMoves
  <2>6. LateMoves(x)
    BY <1>0, <1>4, <2>1, <2>3, FailedMoves
  <2> QED
    BY <1>2, <1>5, <2>1, <2>2, <2>5, <2>6 DEF Moves
<1>12. CASE Fail(e)
  <2>1. PICK s \in {"cancelled", "error"} :
          \/ row' = Finished(e, s) /\ UNCHANGED late
          \/ UNCHANGED row /\ Failed(<<s, e>>)
    BY <1>12 DEF Fail
  <2>2. stage' = [stage EXCEPT ![e] = "idle"] /\ UNCHANGED <<stored, upload>>
    BY <1>12 DEF Fail, Leave
  <2>3. Ordinary(row', {})
    BY <1>0, <2>1, FinishOrdinary, OrdinaryStay DEF Outcome
  <2>4. RowMoves(x)
    BY <1>0, <2>3, OrdinaryMoves
  <2>5. LateMoves(x)
    BY <1>0, <1>4, <2>1, FailedMoves
  <2> QED
    BY <1>2, <1>5, <2>2, <2>4, <2>5 DEF Moves
<1> QED
  BY <1>6, <1>7, <1>8, <1>9, <1>10, <1>11, <1>12 DEF RunStep

\* Users, account deletion, shutdown, crash, time: rows are cancelled, runs aborted.
LEMMA CancelMatch ==
  ASSUME MatchInv, NEW x \in Exports, NEW e \in Exports, NEW o, NEW w,
         \/ \E remove \in BOOLEAN : Cancel(e, remove, w)
         \/ CancelOwner(o, w) \/ BeginDeletion(o) \/ Close(w) \/ TimeOut(e) \/ Sweep
  PROVE  Moves(x)
<1>0. RowsOK /\ OtherTypes
  BY DEF MatchInv, RowInv
<1>1. UNCHANGED <<stored, upload, pass, stage, late>>
  BY DEF Cancel, CancelOwner, BeginDeletion, Close, TimeOut, Sweep, worker
<1>2. \/ row' = row
      \/ \E S \in SUBSET Exports, remove \in BOOLEAN : row' = CancelRows(S, remove)
      \/ row' = StopWorkerRows(w)
      \/ row' = Swept
  <2>1. ExportsOf(o) \in SUBSET Exports /\ {e} \in SUBSET Exports
    BY DEF ExportsOf
  <2> QED
    BY <2>1 DEF Cancel, CancelOwner, BeginDeletion, Close, TimeOut, Sweep, rows
<1>3. Keeps(row') /\ Ordinary(row', {})
  BY <1>0, <1>2, RowsStay, CancelKeeps, StopKeeps, SweepKeeps,
     OrdinaryStay, CancelOrdinary, StopOrdinary, SweptOrdinary
<1>4. RowMoves(x)
  BY <1>0, <1>3, OrdinaryMoves
<1> QED
  BY <1>1, <1>4, RestStays DEF Moves

\* A crash forgets the runs of a worker.
LEMMA CrashMatch ==
  ASSUME MatchInv, NEW w, Crash(w), NEW x \in Exports
  PROVE  Moves(x)
<1>0. RowsOK /\ OtherTypes
  BY DEF MatchInv, RowInv
<1>1. UNCHANGED <<row, stored, upload, pass, late>> /\ stage'[x] \in {"idle", stage[x]}
  BY DEF Crash, rows
<1>2. RowMoves(x)
  BY <1>0, <1>1, RowsStay, OrdinaryStay, OrdinaryMoves
<1>3. StageMoves(x) /\ StoreMoves(x) /\ LateMoves(x) /\ PassMoves(x)
  BY <1>1 DEF StageMoves, StoreMoves, LateMoves, PassMoves
<1> QED
  BY <1>2, <1>3 DEF Moves

\* Storage: an upload lands, or comes to nothing.
LEMMA StorageMatch ==
  ASSUME MatchInv, NEW e \in Exports, Land(e) \/ Vanish(e), NEW x \in Exports
  PROVE  Moves(x)
<1>0. RowsOK /\ OtherTypes /\ Matched(e)
  BY DEF MatchInv, RowInv
<1>1. UNCHANGED <<row, pass, stage, late>>
  BY DEF Land, Vanish, rows, worker
<1>2. RowMoves(x)
  BY <1>0, <1>1, RowsStay, OrdinaryStay, OrdinaryMoves
<1>3. StageMoves(x) /\ LateMoves(x) /\ PassMoves(x)
  <2>1. stage'[x] = stage[x]
    BY <1>1
  <2> QED
    BY <1>1, <2>1 DEF StageMoves, LateMoves, PassMoves
<1>4. StoreMoves(x)
  BY <1>1 DEF StoreMoves, Land, Vanish
<1> QED
  BY <1>2, <1>3, <1>4 DEF Moves

\* dbchat_export_cleanup_claim: what is claimed is not offered, nor ever will be.
LEMMA ClaimMatch ==
  ASSUME MatchInv, NEW e \in Exports, NEW t \in Tokens, Claim(t, e), NEW x \in Exports
  PROVE  Moves(x)
<1>0. RowsOK /\ OtherTypes /\ Swept \in [Exports -> Row] /\ Ordinary(Swept, {})
  BY SweepKeeps, SweptOrdinary DEF MatchInv, RowInv, Keeps
<1> DEFINE r == Swept[e]
           s == [r EXCEPT !.token = t, !.claimed = TRUE]
<1>1. row' = [Swept EXCEPT ![e] = s]
  BY <1>0 DEF Claim
<1>2. s.status = r.status /\ s.token = t /\ s.tomb = r.tomb
  BY <1>0, FieldsOfRow DEF Row
<1>3. r.status \in {"cancelled", "error"}
  BY <1>0, SweptRow DEF RowsOK, Swept, Claim
<1>4. UNCHANGED <<stored, upload, stage, late>> /\ pass[t] = NoPass
      /\ pass' \in {pass, [pass EXCEPT ![t] = [at |-> "deleting", export |-> e]]}
  BY DEF Claim, worker, Fresh
<1>5. pass'[t].at \in {"idle", "deleting"}
  BY <1>0, <1>4 DEF OtherTypes, NoPass
<1> HIDE DEF s, r
<1>6. RowMoves(x)
  <2>1. CASE x = e
    <3>1. row'[x] = s
      BY <1>0, <1>1, <2>1
    <3>2. OrdinaryRow(row[e], r, e \in {})
      BY <1>0 DEF Ordinary, r
    <3> QED
      BY <1>2, <1>3, <1>5, <2>1, <3>1, <3>2 DEF RowMoves, OrdinaryRow, Dead
  <2>2. CASE x # e
    <3>1. row'[x] = Swept[x]
      BY <1>0, <1>1, <2>2
    <3>2. Becomes(row[x], row'[x], OwnerOf[x] \in gate)
      BY <1>0, <3>1, SweepKeeps DEF Keeps
    <3>3. OrdinaryRow(row[x], row'[x], x \in {})
      BY <1>0, <3>1 DEF Ordinary
    <3> QED
      BY <3>2, <3>3 DEF RowMoves, OrdinaryRow, Becomes, Dead
  <2> QED
    BY <2>1, <2>2
<1>7. PassMoves(x)
  <2>1. row'[e].status \in Dead
    BY <1>0, <1>1, <1>2, <1>3 DEF Dead
  <2>2. ASSUME NEW u \in Tokens, pass'[u].at # "idle", pass'[u].export = x, pass'[u] # pass[u]
        PROVE  pass'[u].at = "deleting" /\ row'[x].status \in Dead
    <3>1. u = t /\ pass'[u] = [at |-> "deleting", export |-> e]
      BY <1>0, <1>4, <2>2 DEF OtherTypes
    <3> QED
      BY <2>1, <2>2, <3>1
  <2> QED
    BY <2>2 DEF PassMoves
<1>8. StageMoves(x) /\ StoreMoves(x) /\ LateMoves(x)
  BY <1>4 DEF StageMoves, StoreMoves, LateMoves
<1> QED
  BY <1>6, <1>7, <1>8 DEF Moves

\* The DELETE of a cleanup, answered or given up; and a cleanup that is given up.
LEMMA DeleteMatch ==
  ASSUME MatchInv, NEW t \in Tokens, Delete(t) \/ DeleteFails(t) \/ GiveUp(t), NEW x \in Exports
  PROVE  Moves(x)
<1>0. RowsOK /\ OtherTypes /\ Matched(x)
  BY DEF MatchInv, RowInv
<1>1. UNCHANGED <<row, upload, stage>>
  BY DEF Delete, DeleteFails, GiveUp, rows, worker
<1>2. RowMoves(x) /\ StageMoves(x)
  <2>1. RowMoves(x)
    BY <1>0, <1>1, RowsStay, OrdinaryStay, OrdinaryMoves
  <2>2. stage'[x] = stage[x]
    BY <1>1
  <2> QED
    BY <2>1, <2>2 DEF StageMoves
<1>3. CASE Delete(t)
  <2>1. /\ pass[t].at = "deleting" /\ stored' = stored \ {pass[t].export} /\ UNCHANGED late
        /\ pass' = [pass EXCEPT ![t].at = "ending"]
    BY <1>3 DEF Delete
  <2>2. pass'[t].at = "ending" /\ pass'[t].export = pass[t].export
        /\ \A u \in Tokens \ {t} : pass'[u] = pass[u]
    BY <1>0, <2>1 DEF OtherTypes
  <2>3. PassMoves(x)
    BY <2>1, <2>2 DEF PassMoves
  <2>4. StoreMoves(x)
    BY <1>0, <1>1, <2>1 DEF StoreMoves, Matched, DeleteComes
  <2> QED
    BY <1>2, <2>1, <2>3, <2>4, LateStays DEF Moves
<1>4. CASE DeleteFails(t)
  <2>1. /\ pass[t].at = "deleting" /\ pass[t].export \in Exports /\ UNCHANGED stored
        /\ pass' = [pass EXCEPT ![t] = NoPass] /\ Failed(<<"delete", pass[t].export>>)
    BY <1>0, <1>4 DEF DeleteFails, OtherTypes
  <2>2. PassMoves(x)
    BY <1>0, <2>1, PassesStay DEF OtherTypes
  <2>3. LateMoves(x)
    <3>1. late' \subseteq late \cup {<<"delete", pass[t].export>>}
      BY <2>1 DEF Failed
    <3>2. pass[t].export = x => DeleteComes(x) /\ row[x].status # "none"
      BY <1>0, <2>1 DEF DeleteComes, Matched, Dead
    <3>3. ASSUME NEW call \in late', call[2] = x, call \notin late
          PROVE  call[1] = "delete" /\ pass[t].export = x
      BY <3>1, <3>3
    <3> QED
      BY <3>2, <3>3 DEF LateMoves
  <2>4. StoreMoves(x)
    BY <1>1, <2>1 DEF StoreMoves
  <2> QED
    BY <1>2, <2>2, <2>3, <2>4 DEF Moves
<1>5. CASE GiveUp(t)
  <2>1. pass' = [pass EXCEPT ![t] = NoPass] /\ UNCHANGED <<stored, late>>
    BY <1>5 DEF GiveUp
  <2>2. PassMoves(x)
    BY <1>0, <2>1, PassesStay DEF OtherTypes
  <2>3. StoreMoves(x) /\ LateMoves(x)
    BY <1>1, <2>1 DEF StoreMoves, LateMoves
  <2> QED
    BY <1>2, <2>2, <2>3 DEF Moves
<1> QED
  BY <1>3, <1>4, <1>5

\* dbchat_export_cleanup_finish: a row is dropped when its object is gone for good.
LEMMA EndCleanupMatch ==
  ASSUME MatchInv, NEW t \in Tokens, EndCleanup(t), NEW x \in Exports
  PROVE  Moves(x)
<1> DEFINE e == pass[t].export
           r == row[e]
<1>0. /\ RowsOK /\ OtherTypes /\ row \in [Exports -> Row] /\ e \in Exports /\ Matched(e)
      /\ pass[t].at = "ending" /\ r \in Row
  BY DEF MatchInv, RowInv, RowsOK, EndCleanup, OtherTypes
<1>1. row' = Cleaned(e, t) /\ pass' = [pass EXCEPT ![t] = NoPass] /\ UNCHANGED <<stored, upload, stage, late>>
  BY DEF EndCleanup, worker
<1>2. PassMoves(x)
  BY <1>0, <1>1, PassesStay DEF OtherTypes
<1>3. StageMoves(x) /\ StoreMoves(x) /\ LateMoves(x)
  <2>1. stage'[x] = stage[x]
    BY <1>1
  <2> QED
    BY <1>1, <2>1 DEF StageMoves, StoreMoves, LateMoves
<1>4. UNCHANGED row => RowMoves(x)
  BY <1>0, RowsStay, OrdinaryStay, OrdinaryMoves
<1>5. ASSUME NEW s, row' = [row EXCEPT ![e] = s], RowMoves(e)
      PROVE  RowMoves(x)
  <2>1. CASE x = e
    BY <1>5, <2>1
  <2>2. CASE x # e
    <3>1. row'[x] = row[x]
      BY <1>0, <1>5, <2>2
    <3> QED
      BY <3>1 DEF RowMoves
  <2> QED
    BY <2>1, <2>2
<1>6. CASE r.token # t \/ ~r.claimed
  BY <1>1, <1>2, <1>3, <1>4, <1>6 DEF Cleaned, Moves
<1>7. CASE r.token = t /\ r.claimed /\ r.tomb = "over"
  <2> DEFINE gone == [Blank EXCEPT !.status = "gone"]
  <2>1. row' = [row EXCEPT ![e] = gone]
    BY <1>1, <1>7 DEF Cleaned
  <2>2. row'[e].status = "gone" /\ ~row'[e].claimed /\ row'[e].tomb = "none"
    BY <1>0, <2>1 DEF Blank
  <2>3. e \notin stored \cup upload
    BY <1>0, <1>7 DEF Matched
  <2>4. RowMoves(e)
    BY <1>1, <2>2, <2>3 DEF RowMoves, Dead
  <2> QED
    BY <1>2, <1>3, <1>5, <2>1, <2>4 DEF Moves
<1>8. CASE r.token = t /\ r.claimed /\ r.tomb # "over"
  <2> DEFINE tomb == IF r.tomb = "none" /\ (r.expired \/ r.removed) THEN "set" ELSE r.tomb
             s == [r EXCEPT !.objectDeleted = TRUE, !.token = "none", !.claimed = FALSE, !.tomb = tomb]
  <2>1. row' = [row EXCEPT ![e] = s]
    BY <1>1, <1>8 DEF Cleaned
  <2>2. s.status = r.status /\ ~s.claimed /\ s.tomb = tomb
    <3> HIDE DEF tomb, r
    <3> QED
      BY <1>0, FieldsOfRow DEF Row
  <2>3. tomb \in {"set", r.tomb}
    OBVIOUS
  <2> HIDE DEF s, tomb
  <2>4. row'[e] = s
    BY <1>0, <2>1
  <2>5. RowMoves(e)
    BY <2>2, <2>3, <2>4 DEF RowMoves
  <2> QED
    BY <1>2, <1>3, <1>5, <2>1, <2>5 DEF Moves
<1> QED
  BY <1>6, <1>7, <1>8

\* What is executed after its caller gave up finds the row that its caller knew, or
\* one that is dead.
LEMMA LateCallMatch ==
  ASSUME MatchInv, NEW call \in late, ExecuteLate(call), NEW x \in Exports
  PROVE  Moves(x)
<1>0. RowsOK /\ OtherTypes /\ Keeps(row') /\ Matched(x)
  BY LateCallKeeps DEF MatchInv, RowInv
<1>1. UNCHANGED <<upload, pass, stage>> /\ late' \subseteq late
  BY DEF ExecuteLate, worker
<1>2. StageMoves(x) /\ LateMoves(x) /\ PassMoves(x)
  <2>1. stage'[x] = stage[x]
    BY <1>1
  <2> QED
    BY <1>1, <2>1, LateStays DEF StageMoves, PassMoves
<1>3. PICK op \in {"tick", "start", "delete"} \cup Outcome, e \in Exports : call = <<op, e>>
  <2>1. call \in LateCall
    BY <1>0 DEF OtherTypes
  <2>2. /\ call = <<call[1], call[2]>> /\ call[2] \in Exports
        /\ call[1] \in {"tick", "start", "delete"} \cup Outcome
    BY <2>1 DEF LateCall
  <2> QED
    BY <2>2
<1>4. /\ row' = CASE op = "tick" -> Ticked(e, FALSE)
                  [] op = "start" -> Ticked(e, TRUE)
                  [] op = "delete" -> row
                  [] OTHER -> Finished(e, op)
      /\ stored' = IF op = "delete" THEN stored \ {e} ELSE stored
  BY <1>3 DEF ExecuteLate
<1>5. CASE op \in {"tick", "start"}
  <2>1. row' \in {Ticked(e, FALSE), Ticked(e, TRUE)} /\ UNCHANGED stored
    BY <1>4, <1>5
  <2>2. Ordinary(row', {})
    BY <1>0, <2>1, TickOrdinary
  <2>3. RowMoves(x)
    BY <1>0, <2>2, OrdinaryMoves
  <2>4. StoreMoves(x)
    BY <1>1, <2>1 DEF StoreMoves
  <2> QED
    BY <1>2, <2>3, <2>4 DEF Moves
<1>6. CASE op \in Outcome
  <2> DEFINE S == IF op = "ready" THEN {e} ELSE {}
  <2>1. row' = Finished(e, op) /\ UNCHANGED stored
    BY <1>4, <1>6 DEF Outcome
  <2>2. Ordinary(row', S)
    BY <1>0, <1>6, <2>1, FinishOrdinary
  <2>3. x \in S => x \in stored \/ row[x].status \in Dead
    BY <1>0, <1>3 DEF Matched, ReadyComes
  <2> HIDE DEF S
  <2>4. RowMoves(x)
    BY <1>0, <2>2, <2>3, OrdinaryMoves
  <2>5. StoreMoves(x)
    BY <1>1, <2>1 DEF StoreMoves
  <2> QED
    BY <1>2, <2>4, <2>5 DEF Moves
<1>7. CASE op = "delete"
  <2>1. UNCHANGED row /\ stored' = stored \ {e}
    BY <1>4, <1>7
  <2>2. RowMoves(x)
    BY <1>0, <2>1, OrdinaryStay, OrdinaryMoves
  <2>3. x = e => row[x].status \in Dead
    BY <1>0, <1>3, <1>7 DEF Matched, DeleteComes
  <2>4. StoreMoves(x)
    BY <1>1, <2>1, <2>3 DEF StoreMoves
  <2> QED
    BY <1>2, <2>2, <2>4 DEF Moves
<1> QED
  BY <1>5, <1>6, <1>7

\* The types of everything but the rows.
LEMMA TypesKeep ==
  ASSUME MatchInv, [Next]_vars
  PROVE  OtherTypes'
<1>0. OtherTypes
  BY DEF MatchInv
<1>1. CASE UNCHANGED vars
  BY <1>0, <1>1 DEF vars, OtherTypes
<1>2. ASSUME NEW e \in Exports, Start(e) \/ Poll(e) \/ PollAborted(e) \/ TimeOut(e)
      PROVE  OtherTypes'
  <2>1. UNCHANGED <<stored, upload, gate, pass, up, closed>>
    BY <1>2 DEF Start, Poll, PollAborted, TimeOut, rows
  <2>2. stage' \in [Exports -> Stage] /\ aborted' \in [Exports -> BOOLEAN]
    BY <1>0, <1>2 DEF OtherTypes, Start, Poll, PollAborted, TimeOut, Leave, Move, Stage
  <2>3. late' \subseteq LateCall
    <3>1. UNCHANGED late \/ Failed(<<"cancelled", e>>)
      BY <1>2 DEF Start, Poll, PollAborted, TimeOut
    <3> QED
      BY <1>0, <3>1, FailedTypes DEF OtherTypes, Outcome
  <2> QED
    BY <1>0, <2>1, <2>2, <2>3 DEF OtherTypes
<1>3. ASSUME NEW e \in Exports, RunStep(e)
      PROVE  OtherTypes'
  <2>1. UNCHANGED <<stored, gate, pass, up, closed>>
    BY <1>3 DEF RunStep, Enter, Work, Check, CheckFails, Uploaded, UploadFails, Publish, PublishFails, Fail, rows
  <2>2. upload' \subseteq Exports
    BY <1>0, <1>3 DEF OtherTypes, RunStep, Enter, Work, Check, CheckFails, Uploaded, UploadFails, Publish, PublishFails, Fail
  <2>3. stage' \in [Exports -> Stage] /\ aborted' \in [Exports -> BOOLEAN]
    <3>1. PICK s \in Stage : stage' = [stage EXCEPT ![e] = s]
      BY <1>3 DEF RunStep, Enter, Work, Check, CheckFails, Uploaded, UploadFails, Publish, PublishFails, Fail,
                  Leave, Move, Stage
    <3>2. UNCHANGED aborted \/ aborted' = [aborted EXCEPT ![e] = FALSE]
      BY <1>3 DEF RunStep, Enter, Work, Check, CheckFails, Uploaded, UploadFails, Publish, PublishFails, Fail,
                  Leave, Move
    <3> QED
      BY <1>0, <3>1, <3>2 DEF OtherTypes
  <2>4. late' \subseteq LateCall
    <3>1. \/ UNCHANGED late
          \/ \E op \in {"tick", "ready", "cancelled", "error"} : Failed(<<op, e>>)
      BY <1>3 DEF RunStep, Enter, Work, Check, CheckFails, Uploaded, UploadFails, Publish, PublishFails, Fail
    <3> QED
      BY <1>0, <3>1, FailedTypes DEF OtherTypes, Outcome
  <2> QED
    BY <1>0, <2>1, <2>2, <2>3, <2>4 DEF OtherTypes
<1>4. ASSUME NEW e \in Exports,
             Land(e) \/ Vanish(e) \/ LeaseEnds(e) \/ Expire(e) \/ ClaimEnds(e)
               \/ NoMoreUploads(e) \/ TombstoneEnds(e)
      PROVE  OtherTypes'
  BY <1>0, <1>4 DEF OtherTypes, Land, Vanish, LeaseEnds, Expire, ClaimEnds, NoMoreUploads, TombstoneEnds,
                    Pass, rows, worker
<1>5. ASSUME NEW e \in Exports, NEW remove \in BOOLEAN, NEW w \in Workers, Cancel(e, remove, w)
      PROVE  OtherTypes'
  <2>1. aborted' \in [Exports -> BOOLEAN]
    BY <1>0, <1>5 DEF OtherTypes, Cancel
  <2> QED
    BY <1>0, <1>5, <2>1 DEF OtherTypes, Cancel
<1>6. ASSUME NEW e \in Exports, NEW t \in Tokens, Claim(t, e)
      PROVE  OtherTypes'
  <2>1. UNCHANGED <<stored, upload, gate, stage, aborted, up, closed, late>>
        /\ pass' \in {pass, [pass EXCEPT ![t] = [at |-> "deleting", export |-> e]]}
    BY <1>6 DEF Claim, worker
  <2>2. /\ pass' \in [Tokens -> [at : {"idle", "deleting", "ending"}, export : Exports \cup {"none"}]]
        /\ \A u \in Tokens : pass'[u].at # "idle" => pass'[u].export \in Exports
    BY <1>0, <2>1 DEF OtherTypes
  <2> QED
    BY <1>0, <2>1, <2>2 DEF OtherTypes
<1>7. ASSUME NEW o \in Owners, BeginDeletion(o) \/ \E w \in Workers : CancelOwner(o, w)
      PROVE  OtherTypes'
  <2>1. UNCHANGED <<stored, upload, pass, stage, up, closed, late>> /\ gate' \subseteq Owners
    BY <1>0, <1>7 DEF OtherTypes, BeginDeletion, CancelOwner
  <2>2. aborted' \in [Exports -> BOOLEAN]
    BY <1>0, <1>7 DEF OtherTypes, BeginDeletion, CancelOwner
  <2> QED
    BY <1>0, <2>1, <2>2 DEF OtherTypes
<1>8. ASSUME NEW w \in Workers, PollFails(w)
      PROVE  OtherTypes'
  <2>1. UNCHANGED <<stored, upload, gate, pass, stage, up, closed>>
    BY <1>8 DEF PollFails
  <2>2. aborted' \in [Exports -> BOOLEAN]
    BY <1>0, <1>8 DEF OtherTypes, PollFails
  <2>3. PICK e \in Exports, op \in {"start", "tick"} : UNCHANGED late \/ Failed(<<op, e>>)
    <3>1. PICK e \in Exports, start \in BOOLEAN :
            UNCHANGED late \/ Failed(<<IF start THEN "start" ELSE "tick", e>>)
      BY <1>8 DEF PollFails
    <3> QED
      BY <3>1
  <2>4. late' \subseteq LateCall
    BY <1>0, <2>3, FailedTypes DEF OtherTypes
  <2> QED
    BY <1>0, <2>1, <2>2, <2>4 DEF OtherTypes
<1>9. ASSUME NEW w \in Workers, Close(w) \/ Crash(w)
      PROVE  OtherTypes'
  <2>1. UNCHANGED <<stored, upload, gate, pass, late>> /\ up' \subseteq Workers /\ closed' \subseteq Workers
    BY <1>0, <1>9 DEF OtherTypes, Close, Crash, rows
  <2>2. aborted' \in [Exports -> BOOLEAN]
    BY <1>0, <1>9 DEF OtherTypes, Close, Crash
  <2>3. stage' \in [Exports -> Stage]
    BY <1>0, <1>9 DEF OtherTypes, Close, Crash, Stage
  <2> QED
    BY <1>0, <2>1, <2>2, <2>3 DEF OtherTypes
<1>10. CASE Sweep
  BY <1>0, <1>10 DEF OtherTypes, Sweep, worker
<1>11. ASSUME NEW t \in Tokens, Delete(t) \/ DeleteFails(t) \/ EndCleanup(t) \/ GiveUp(t)
       PROVE  OtherTypes'
  <2>1. UNCHANGED <<upload, gate, stage, aborted, up, closed>> /\ stored' \subseteq stored
    BY <1>11 DEF Delete, DeleteFails, EndCleanup, GiveUp, rows, worker
  <2>2. \/ pass' = [pass EXCEPT ![t] = NoPass]
        \/ pass[t].at # "idle" /\ pass' = [pass EXCEPT ![t].at = "ending"]
    BY <1>11 DEF Delete, DeleteFails, EndCleanup, GiveUp
  <2>3. /\ pass' \in [Tokens -> [at : {"idle", "deleting", "ending"}, export : Exports \cup {"none"}]]
        /\ \A u \in Tokens : pass'[u].at # "idle" => pass'[u].export \in Exports
    BY <1>0, <2>2 DEF OtherTypes, NoPass
  <2>4. late' \subseteq LateCall
    <3>1. UNCHANGED late \/ (pass[t].export \in Exports /\ Failed(<<"delete", pass[t].export>>))
      BY <1>0, <1>11 DEF OtherTypes, Delete, DeleteFails, EndCleanup, GiveUp
    <3> QED
      BY <1>0, <3>1, FailedTypes DEF OtherTypes
  <2> QED
    BY <1>0, <2>1, <2>3, <2>4 DEF OtherTypes
<1>12. ASSUME NEW call \in late, ExecuteLate(call)
       PROVE  OtherTypes'
  <2>1. UNCHANGED <<upload, gate, pass, stage, aborted, up, closed>> /\ stored' \subseteq stored /\ late' \subseteq late
    BY <1>12 DEF ExecuteLate, worker
  <2> QED
    BY <1>0, <2>1 DEF OtherTypes
<1> QED
  BY <1>1, <1>2, <1>3, <1>4, <1>5, <1>6, <1>7, <1>8, <1>9, <1>10, <1>11, <1>12 DEF Next

\* Every export moves as a step may move it.
LEMMA StepMoves ==
  ASSUME MatchInv, [Next]_vars, NEW x \in Exports
  PROVE  Moves(x)
<1>1. CASE UNCHANGED vars
  <2>1. UNCHANGED <<row, stored, upload, pass, stage, late>>
    BY <1>1 DEF vars
  <2>2. RowMoves(x)
    BY <2>1, RowsStay, OrdinaryStay, OrdinaryMoves DEF MatchInv, RowInv
  <2> QED
    BY <2>1, <2>2, RestStays DEF Moves
<1>2. CASE Next
  BY <1>2, StartMatch, PollMatch, FailedPollMatch, RunMatch, TermsMatch, TombMatch, CancelMatch, CrashMatch,
     StorageMatch, ClaimMatch, DeleteMatch, EndCleanupMatch, LateCallMatch DEF Next
<1> QED
  BY <1>1, <1>2

\* The inductive invariant of the registry and the storage.
THEOREM MatchInvHolds == Spec => []MatchInv
<1>1. Init => MatchInv
  <2> SUFFICES ASSUME Init PROVE MatchInv
    OBVIOUS
  <2>1. RowInv
    BY DEF Init, RowInv, RowsOK, LateOK, RowOK, Row, Blank, Status
  <2>2. OtherTypes
    BY DEF Init, OtherTypes, NoPass, Stage
  <2>3. ASSUME NEW x \in Exports
        PROVE  Matched(x)
    BY DEF Init, Matched, Unheard, DeleteComes, ReadyComes, NoPass, Blank
  <2> QED
    BY <2>1, <2>2, <2>3 DEF MatchInv
<1>2. MatchInv /\ [Next]_vars => MatchInv'
  <2> SUFFICES ASSUME MatchInv, [Next]_vars PROVE MatchInv'
    OBVIOUS
  <2>1. Keeps(row') /\ LateOK'
    BY StepKeeps DEF MatchInv
  <2>2. RowInv'
    BY <2>1 DEF RowInv, RowsOK, Keeps
  <2>3. OtherTypes'
    BY TypesKeep
  <2>4. \A x \in Exports : Matched(x)'
    BY <2>1, StepMoves, AllMatched
  <2> QED
    BY <2>2, <2>3, <2>4 DEF MatchInv
<1> QED
  BY <1>1, <1>2, PTL DEF Spec

\* A download that is offered is in storage, and whatever is in storage, or may still
\* land there, has its row: no late DELETE, lost answer, expired claim or crash leaves
\* an object nobody would ever remove, or offers one that is gone.
THEOREM RegistryMatchesStorage == Spec => []RowsMatchObjects
<1>1. MatchInv => RowsMatchObjects
  <2> SUFFICES ASSUME MatchInv PROVE RowsMatchObjects
    OBVIOUS
  <2>1. TypeOK
    BY DEF MatchInv, RowInv, RowsOK, OtherTypes, TypeOK
  <2>2. ReadyIsStored
    BY DEF MatchInv, Matched, ReadyComes, ReadyIsStored, Dead
  <2>3. ObjectsHaveRows
    BY DEF MatchInv, Matched, Unheard, ObjectsHaveRows, Exists, OtherTypes
  <2> QED
    BY <2>1, <2>2, <2>3 DEF RowsMatchObjects
<1> QED
  BY <1>1, MatchInvHolds, PTL
=============================================================================
