--------------------------- MODULE AssetLifecycleProofs ---------------------------
(***************************************************************************)
(* For any files, connections and workers, any file limit and any number   *)
(* of faults: an account is erased after its work has ended                *)
(* (AssetLifecycle.ErasedAfterWork), and a file in use stays until then    *)
(* (AssetLifecycle.FilesAreSafe).                                          *)
(*                                                                         *)
(* Neither property is inductive.  The first needs what each step of a     *)
(* maintenance pass relies on, while other workers take the deletion over  *)
(* (Erasure); the second, that what may still be removed, by any pass or   *)
(* late DELETE, is a row that waits for its deletion, and that a row comes *)
(* to be attached from "pending" only, with its object stored (FileSafe).  *)
(* Every action is shown to move the state in a few ways only (StepOK),    *)
(* and those ways keep the invariant (ErasureKept, FileKept).              *)
(***************************************************************************)
EXTENDS AssetLifecycle, TLAPS

\* The erasure: what has begun to be erased works no more and accepts no upload.
Early == job.phase \in {"none", "waiting"}
Late == job.phase \in {"auth", "complete"}

Erasure ==
  /\ \A w \in Workers :
       /\ pass[w].at \in {"hooks", "storage", "sweep", "auth", "erase", "complete"} => ~Active
       /\ pass[w].at \in {"storage", "sweep", "auth"} => ~work
       /\ pass[w].at \in {"sweep", "auth"} => ~Early
       /\ pass[w].at = "hooks" /\ pass[w].ok => Late
       /\ pass[w].at \in {"erase", "complete"} => Late
  /\ "account" \in late \/ ~profile => Late
  /\ ~Early => ~work
  /\ Late => \A a \in Assets : ~LiveUpload(a)

\* A DELETE of the object of a may still be executed.
RemovalComes(a) == a \in late \/ \E w \in Workers : a \in pass[w].todo

\* A file before its account is swept.
FileSafe(a) ==
  /\ Used(a) => asset[a].state = "attached" /\ a \in stored
  /\ RemovalComes(a) => asset[a].state \in {"deleting", "deleted"}
  /\ upload[a] = "idle" => asset[a].state = "none" /\ a \notin stored \cup landing
  /\ asset[a].state = "pending" \/ (asset[a].state = "uploading" /\ upload[a] = "completing") => a \in stored

\* The inductive invariant.
AssetInv == TypeOK /\ Erasure /\ (Early => \A a \in Assets : FileSafe(a))

\* The phases of a deletion only go on.
JobMoves ==
  /\ Active' => Active
  /\ Early' => Early
  /\ Late => Late'
  /\ ~Early' => ~Early \/ \E w \in Workers : pass[w].at = "storage"
  /\ Late' => Late \/ \A a \in Assets : ~LiveUpload(a)'

\* Work starts, and the user goes, only at the steps that may do it.
UserMoves ==
  /\ work' => work \/ Active
  /\ "account" \in late' \/ ~profile' =>
       "account" \in late \/ ~profile \/ \E w \in Workers : pass[w].at = "erase"

\* Nothing is uploaded behind the gate.
LiveMoves == \A a \in Assets : LiveUpload(a)' => LiveUpload(a) \/ Active

\* What the next step of a maintenance pass relies on.
PassMoves(w) ==
  \/ pass'[w].at = pass[w].at /\ pass'[w].ok = pass[w].ok
  \/ pass'[w].at \in {"idle", "claim", "assets", "finish", "retry"}
  \/ pass'[w].at = "hooks" /\ ~Active /\ (pass'[w].ok => Late)
  \/ pass'[w].at = "storage" /\ pass[w].at = "hooks" /\ ~work
  \/ pass'[w].at = "sweep" /\ ~work /\ ~Active /\ ~Early'
  \/ pass'[w].at = "auth" /\ pass[w].at = "sweep"
  \/ pass'[w].at = "erase" /\ Late'
  \/ pass'[w].at = "complete" /\ pass[w].at = "erase"

ErasureMoves == JobMoves /\ UserMoves /\ LiveMoves /\ \A w \in Workers : PassMoves(w)

\* What a step may do to a file before its account is swept: to its row,
StateMoves(a) ==
  LET r == asset[a].state
      s == asset'[a].state
  IN  /\ r = "none" /\ a \notin stored /\ upload'[a] = "idle" => s = "none"
      /\ s = "uploading" => r = "uploading" \/ upload[a] = "idle"
      /\ s = "pending" => r = "pending" \/ (r = "uploading" /\ upload[a] = "completing")
      /\ Used(a)' => (Used(a) /\ s = r) \/ (s = "attached" /\ r = "pending")
      /\ r \in {"deleting", "deleted"} => s \in {"deleting", "deleted"}
\* to its upload and its object,
UploadMoves(a) ==
  /\ upload'[a] = "idle" => upload[a] = "idle"
  /\ upload'[a] = "completing" => upload[a] = "completing" \/ a \in stored'
  /\ a \in stored' => a \in stored \/ upload[a] = "storing" \/ a \in landing
  /\ a \in landing' => a \in landing \/ upload[a] # "idle"
\* and to what may still remove it.
RemovalMoves(a) ==
  /\ a \in stored /\ a \notin stored' => RemovalComes(a)
  /\ RemovalComes(a)' => RemovalComes(a) \/ asset'[a].state = "deleting"
FileMoves(a) == StateMoves(a) /\ UploadMoves(a) /\ RemovalMoves(a)

\* An erasure that moves so stays in order.
LEMMA ErasureKept ==
  ASSUME Erasure, ErasureMoves
  PROVE  Erasure'
<1> USE DEF ErasureMoves
<1>1. ~Early' => ~work'
  BY DEF Erasure, JobMoves, UserMoves, Active, Early
<1>2. ASSUME NEW w \in Workers
      PROVE  /\ pass'[w].at \in {"hooks", "storage", "sweep", "auth", "erase", "complete"} => ~Active'
             /\ pass'[w].at \in {"storage", "sweep", "auth"} => ~work'
             /\ pass'[w].at \in {"sweep", "auth"} => ~Early'
             /\ pass'[w].at = "hooks" /\ pass'[w].ok => Late'
             /\ pass'[w].at \in {"erase", "complete"} => Late'
  <2>1. PassMoves(w)
    OBVIOUS
  <2>2. Late' => ~Active'
    BY DEF Late, Active
  <2>3. /\ pass[w].at \in {"hooks", "storage", "sweep", "auth", "erase", "complete"} => ~Active
        /\ pass[w].at \in {"storage", "sweep", "auth"} => ~work
        /\ pass[w].at \in {"sweep", "auth"} => ~Early
        /\ pass[w].at = "hooks" /\ pass[w].ok => Late
        /\ pass[w].at \in {"erase", "complete"} => Late
    BY DEF Erasure
  <2>4. /\ Active' => Active
        /\ Early' => Early
        /\ Late => Late'
        /\ work' => work \/ Active
    BY DEF JobMoves, UserMoves
  <2> QED
    BY <2>1, <2>2, <2>3, <2>4 DEF PassMoves
<1>3. "account" \in late' \/ ~profile' => Late'
  BY DEF Erasure, UserMoves, JobMoves
<1>4. Late' => \A a \in Assets : ~LiveUpload(a)'
  <2>1. CASE Late
    BY <2>1 DEF Erasure, LiveMoves, Late, Active
  <2>2. CASE ~Late
    BY <2>2 DEF JobMoves
  <2> QED
    BY <2>1, <2>2
<1> QED
  BY <1>1, <1>2, <1>3, <1>4 DEF Erasure

\* A file that moves so stays safe.
LEMMA FileKept ==
  ASSUME NEW a \in Assets, FileSafe(a), FileMoves(a)
  PROVE  FileSafe(a)'
<1> DEFINE r == asset[a].state
           s == asset'[a].state
<1>1. /\ Used(a) => r = "attached" /\ a \in stored
      /\ RemovalComes(a) => r \in {"deleting", "deleted"}
      /\ upload[a] = "idle" => r = "none" /\ a \notin stored \cup landing
      /\ r = "pending" \/ (r = "uploading" /\ upload[a] = "completing") => a \in stored
  BY DEF FileSafe
<1>2. /\ r = "none" /\ a \notin stored /\ upload'[a] = "idle" => s = "none"
      /\ s = "uploading" => r = "uploading" \/ upload[a] = "idle"
      /\ s = "pending" => r = "pending" \/ (r = "uploading" /\ upload[a] = "completing")
      /\ Used(a)' => (Used(a) /\ s = r) \/ (s = "attached" /\ r = "pending")
      /\ r \in {"deleting", "deleted"} => s \in {"deleting", "deleted"}
  BY DEF FileMoves, StateMoves
<1>3. UploadMoves(a) /\ RemovalMoves(a)
  BY DEF FileMoves
<1> HIDE DEF r, s
<1>4. Used(a)' => s = "attached" /\ a \in stored'
  BY <1>1, <1>2, <1>3 DEF RemovalMoves
<1>5. RemovalComes(a)' => s \in {"deleting", "deleted"}
  BY <1>1, <1>2, <1>3 DEF RemovalMoves, s
<1>6. upload'[a] = "idle" => s = "none" /\ a \notin stored' \cup landing'
  BY <1>1, <1>2, <1>3 DEF UploadMoves
<1>7. s = "pending" \/ (s = "uploading" /\ upload'[a] = "completing") => a \in stored'
  BY <1>1, <1>2, <1>3 DEF UploadMoves, RemovalMoves
<1> QED
  BY <1>4, <1>5, <1>6, <1>7 DEF FileSafe, s

-----------------------------------------------------------------------------
(* The registry's procedures.                                              *)

Gone == {"deleting", "deleted"}

\* A row has its fields, of their types.
LEMMA FieldsOfRow ==
  ASSUME NEW r \in Row
  PROVE  r.state \in State /\ r.lapsed \in BOOLEAN /\ r.token \in Workers \cup {"none"} /\ r.leased \in BOOLEAN
  BY DEF Row

\* dbchat_connection_asset_guard: a file that is taken is attached, one that is let
\* go will be deleted, and no other row changes.
LEMMA GuardedRows ==
  ASSUME TypeOK, NEW next \in [Conns -> Assets \cup {"none"}]
  PROVE  /\ Guarded(next) \in [Assets -> Row]
         /\ \A a \in Assets :
              LET s == Guarded(next)[a]
              IN  /\ \/ /\ \E c \in Conns : next[c] = a /\ conn[c] # a
                        /\ s.state = "attached"
                     \/ /\ \A c \in Conns : next[c] = a => conn[c] = a
                        /\ \/ Used(a) /\ (\A c \in Conns : next[c] # a) /\ s.state = "deleting"
                           \/ s = asset[a]
<1>1. ASSUME NEW a \in Assets
      PROVE  LET s == Guarded(next)[a]
             IN  /\ s \in Row
                 /\ \/ /\ \E c \in Conns : next[c] = a /\ conn[c] # a
                       /\ s.state = "attached"
                    \/ /\ \A c \in Conns : next[c] = a => conn[c] = a
                       /\ \/ Used(a) /\ (\A c \in Conns : next[c] # a) /\ s.state = "deleting"
                          \/ s = asset[a]
  <2> DEFINE s == Guarded(next)[a]
             Taken == {next[c] : c \in {d \in Conns : next[d] # conn[d]}}
  <2>0. asset[a] \in Row
    BY DEF TypeOK
  <2>1. CASE a \in Taken
    <3>1. PICK c \in Conns : next[c] = a /\ conn[c] # a
      BY <2>1
    <3>2. s = [asset[a] EXCEPT !.state = "attached", !.lapsed = FALSE]
      BY <2>1 DEF Guarded
    <3>3. s \in Row /\ s.state = "attached"
      BY <2>0, <3>2 DEF Row, State
    <3> QED
      BY <3>1, <3>3
  <2>2. CASE a \notin Taken
    <3>1. \A c \in Conns : next[c] = a => conn[c] = a
      BY <2>2
    <3>2. CASE Used(a) /\ (\A c \in Conns : next[c] # a) /\ asset[a].state # "deleted"
      <4>1. s = [asset[a] EXCEPT !.state = "deleting"]
        BY <2>2, <3>2 DEF Guarded, Used
      <4>2. s \in Row /\ s.state = "deleting"
        BY <2>0, <4>1 DEF Row, State
      <4> QED
        BY <3>1, <3>2, <4>2
    <3>3. CASE ~(Used(a) /\ (\A c \in Conns : next[c] # a) /\ asset[a].state # "deleted")
      <4>1. s = asset[a]
        BY <2>2, <3>3 DEF Guarded, Used
      <4> QED
        BY <2>0, <3>1, <4>1
    <3> QED
      BY <3>2, <3>3
  <2> QED
    BY <2>1, <2>2
<1>2. Guarded(next) = [a \in Assets |-> Guarded(next)[a]]
  BY DEF Guarded
<1> QED
  BY <1>1, <1>2

\* A file that no connection takes is not attached by the guard, and nothing is
\* uploaded by it.
LEMMA GuardedUploads ==
  ASSUME TypeOK, NEW next \in [Conns -> Assets \cup {"none"}], asset' = Guarded(next)
  PROVE  LiveMoves
<1> SUFFICES ASSUME NEW a \in Assets, LiveUpload(a)' PROVE LiveUpload(a)
  BY DEF LiveMoves
<1>1. asset'[a] = asset[a]
  BY GuardedRows DEF LiveUpload
<1> QED
  BY <1>1 DEF LiveUpload

\* dbchat_claim_asset_cleanup: what is claimed is not in use.
LEMMA ClaimedRows ==
  ASSUME TypeOK, NEW w \in Workers
  PROVE  /\ ClaimedBy(w) \in [Assets -> Row]
         /\ \A a \in Assets :
              \/ a \in Claimable /\ ClaimedBy(w)[a].state = "deleting"
              \/ a \notin Claimable /\ Removable(a) /\ Used(a) /\ ClaimedBy(w)[a].state = "attached"
              \/ a \notin Claimable /\ ClaimedBy(w)[a] = asset[a]
<1>1. ASSUME NEW a \in Assets
      PROVE  /\ ClaimedBy(w)[a] \in Row
             /\ \/ a \in Claimable /\ ClaimedBy(w)[a].state = "deleting"
                \/ a \notin Claimable /\ Removable(a) /\ Used(a) /\ ClaimedBy(w)[a].state = "attached"
                \/ a \notin Claimable /\ ClaimedBy(w)[a] = asset[a]
  <2>0. asset[a] \in Row
    BY DEF TypeOK
  <2>1. CASE a \in Claimable
    <3> DEFINE s == [asset[a] EXCEPT !.state = "deleting", !.token = w, !.leased = TRUE]
    <3>1. ClaimedBy(w)[a] = s
      BY <2>1 DEF ClaimedBy
    <3>2. s \in Row /\ s.state = "deleting"
      BY <2>0 DEF Row, State
    <3> QED
      BY <2>1, <3>1, <3>2
  <2>2. CASE a \notin Claimable /\ Removable(a) /\ Used(a)
    <3> DEFINE s == [asset[a] EXCEPT !.state = "attached", !.lapsed = FALSE, !.token = "none", !.leased = FALSE]
    <3>1. ClaimedBy(w)[a] = s
      BY <2>2 DEF ClaimedBy
    <3>2. s \in Row /\ s.state = "attached"
      BY <2>0 DEF Row, State
    <3> QED
      BY <2>2, <3>1, <3>2
  <2>3. CASE a \notin Claimable /\ ~(Removable(a) /\ Used(a))
    BY <2>0, <2>3 DEF ClaimedBy
  <2> QED
    BY <2>1, <2>2, <2>3
<1>2. ClaimedBy(w) = [a \in Assets |-> ClaimedBy(w)[a]]
  BY DEF ClaimedBy
<1> QED
  BY <1>1, <1>2

\* dbchat_finish_asset_cleanup touches only a row that waits for its deletion.
LEMMA FinishedRows ==
  ASSUME TypeOK, NEW w \in Workers, NEW f \in Assets \cup {"none"}, NEW ok \in BOOLEAN
  PROVE  /\ Finished(w, f, ok) \in [Assets -> Row]
         /\ \A a \in Assets :
              \/ Finished(w, f, ok)[a] = asset[a]
              \/ asset[a].state = "deleting" /\ Finished(w, f, ok)[a].state \in Gone
<1>1. CASE asset[f].token # w \/ ~asset[f].leased \/ asset[f].state # "deleting"
  BY <1>1 DEF Finished, TypeOK
<1>2. CASE f \notin Assets
  <2>1. Finished(w, f, ok) = asset
    BY <1>2 DEF Finished, TypeOK
  <2> QED
    BY <2>1 DEF TypeOK
<1>3. CASE f \in Assets /\ ~(asset[f].token # w \/ ~asset[f].leased \/ asset[f].state # "deleting")
  <2> DEFINE state == IF ok THEN "deleted" ELSE "deleting"
             s == [asset[f] EXCEPT !.state = state, !.token = "none", !.leased = FALSE]
  <2>1. Finished(w, f, ok) = [asset EXCEPT ![f] = s]
    BY <1>3 DEF Finished, TypeOK
  <2>2. state \in Gone /\ state \in State
    BY DEF Gone, State
  <2>3. s \in Row /\ s.state = state
    <3>1. asset[f] \in Row
      BY <1>3 DEF TypeOK
    <3> HIDE DEF state
    <3> QED
      BY <2>2, <3>1 DEF Row
  <2> HIDE DEF s, state
  <2>4. [asset EXCEPT ![f] = s] \in [Assets -> Row]
    BY <2>3 DEF TypeOK
  <2>5. ASSUME NEW a \in Assets
        PROVE  [asset EXCEPT ![f] = s][a] = IF a = f THEN s ELSE asset[a]
    BY DEF TypeOK
  <2> QED
    BY <1>3, <2>1, <2>2, <2>3, <2>4, <2>5
<1> QED
  BY <1>1, <1>2, <1>3

-----------------------------------------------------------------------------
(* The steps.                                                              *)

\* What is shown of each step.
StepOK == TypeOK' /\ ErasureMoves /\ (Early' => \A a \in Assets : FileMoves(a))

\* A step that is neither of the erasure nor of a cleanup.
LEMMA QuietStep ==
  ASSUME UNCHANGED <<profile, work, job, pass>>, "account" \in late' => "account" \in late
  PROVE  JobMoves /\ UserMoves /\ \A w \in Workers : PassMoves(w)
  BY DEF JobMoves, UserMoves, PassMoves, Active, Early, Late

\* Registry rows that are left alone.
LEMMA RowsStill ==
  ASSUME UNCHANGED <<asset, conn>>
  PROVE  LiveMoves /\ \A a \in Assets : StateMoves(a)
  BY DEF LiveMoves, LiveUpload, StateMoves, Used

\* The same of one file whose row does not change.
LEMMA RowStill ==
  ASSUME NEW a \in Assets, asset'[a] = asset[a], UNCHANGED conn
  PROVE  StateMoves(a)
  BY DEF StateMoves, Used

\* Cleanups and DELETE calls that are left alone.
LEMMA RemovalStill ==
  ASSUME NEW a \in Assets, UNCHANGED <<late, pass>>, stored \subseteq stored'
  PROVE  RemovalMoves(a)
  BY DEF RemovalMoves, RemovalComes

\* Uploads that are left alone.
LEMMA UploadStill ==
  ASSUME NEW a \in Assets, UNCHANGED <<upload, landing>>, stored' \subseteq stored
  PROVE  UploadMoves(a)
  BY DEF UploadMoves

\* The handler of POST /sqlite-files, and its terms.
LEMMA UploadOK ==
  ASSUME AssetInv, NEW f \in Assets, UploadStep(f)
  PROVE  StepOK
<1> USE DEF UploadStep
<1>0. TypeOK /\ (Early => \A a \in Assets : FileSafe(a)) /\ asset[f] \in Row
  BY DEF AssetInv, TypeOK
<1>1. UNCHANGED <<late, conn, profile, work, job, pass, up>>
  BY DEF BeginUpload, Store, StoreFails, Land, CompleteUpload, UploadLapses, FileUnchanged
<1>2. JobMoves /\ UserMoves /\ \A w \in Workers : PassMoves(w)
  BY <1>1, QuietStep
<1>3. Early' <=> Early
  BY <1>1 DEF Early
<1>4. faults' \in 0..MaxFaults
  BY <1>0, AssetAssumption
     DEF TypeOK, BeginUpload, Store, StoreFails, Land, CompleteUpload, UploadLapses, Fault
<1>5. CASE BeginUpload(f)
  <2>1. /\ asset' = [asset EXCEPT ![f].state = "uploading"] /\ upload[f] = "idle" /\ Active
        /\ upload' \in {[upload EXCEPT ![f] = "storing"], [upload EXCEPT ![f] = "failed"]}
        /\ UNCHANGED <<stored, landing>>
    BY <1>5 DEF BeginUpload, FileUnchanged, MayBegin
  <2>2. TypeOK'
    <3>1. asset' \in [Assets -> Row]
      BY <1>0, <2>1 DEF TypeOK, Row, State
    <3>2. upload' \in [Assets -> {"idle", "storing", "completing", "done", "failed"}]
      BY <1>0, <2>1 DEF TypeOK
    <3> QED
      BY <1>0, <1>1, <1>4, <2>1, <3>1, <3>2 DEF TypeOK
  <2>3. LiveMoves
    BY <2>1 DEF LiveMoves
  <2>4. Early
    BY <2>1 DEF Early, Active
  <2>5. ASSUME NEW a \in Assets
        PROVE  FileMoves(a)
    <3>1. RemovalMoves(a)
      BY <1>1, <2>1, RemovalStill
    <3>2. UploadMoves(a)
      BY <1>0, <2>1 DEF UploadMoves, TypeOK
    <3>3. CASE a # f
      <4>1. asset'[a] = asset[a]
        BY <1>0, <2>1, <3>3 DEF TypeOK
      <4> QED
        BY <1>1, <3>1, <3>2, <4>1, RowStill DEF FileMoves
    <3>4. CASE a = f
      <4>1. asset'[a].state = "uploading" /\ upload'[a] # "idle"
        BY <1>0, <2>1, <3>4 DEF TypeOK, Row
      <4>2. asset[a].state = "none" /\ ~Used(a)
        BY <1>0, <2>1, <2>4, <3>4 DEF FileSafe
      <4>3. ~Used(a)'
        BY <1>1, <4>2 DEF Used
      <4> QED
        BY <2>1, <3>1, <3>2, <3>4, <4>1, <4>2, <4>3 DEF FileMoves, StateMoves
    <3> QED
      BY <3>3, <3>4
  <2> QED
    BY <1>2, <2>2, <2>3, <2>5 DEF StepOK, ErasureMoves
<1>6. CASE Store(f) \/ StoreFails(f) \/ Land(f)
  <2>1. /\ UNCHANGED asset /\ stored \subseteq stored' /\ stored' \subseteq stored \cup {f}
        /\ landing' \subseteq landing \cup {f}
    BY <1>6 DEF Store, StoreFails, Land, FileUnchanged
  <2>4. UNCHANGED upload \/ \E s \in {"completing", "failed"} : upload' = [upload EXCEPT ![f] = s]
    BY <1>6 DEF Store, StoreFails, Land
  <2>2. TypeOK'
    <3>1. upload' \in [Assets -> {"idle", "storing", "completing", "done", "failed"}]
      BY <1>0, <2>4 DEF TypeOK
    <3> QED
      BY <1>0, <1>1, <1>4, <2>1, <3>1 DEF TypeOK
  <2>3. ASSUME NEW a \in Assets
        PROVE  FileMoves(a)
    <3>1. UploadMoves(a)
      <4>1. CASE Store(f)
        BY <1>0, <4>1 DEF UploadMoves, TypeOK, Store, FileUnchanged
      <4>2. CASE StoreFails(f)
        BY <1>0, <4>2 DEF UploadMoves, TypeOK, StoreFails
      <4>3. CASE Land(f)
        BY <1>0, <4>3 DEF UploadMoves, TypeOK, Land
      <4> QED
        BY <1>6, <4>1, <4>2, <4>3
    <3> QED
      BY <1>1, <2>1, <3>1, RowsStill, RemovalStill DEF FileMoves
  <2> QED
    BY <1>1, <1>2, <2>1, <2>2, <2>3, RowsStill DEF StepOK, ErasureMoves
<1>7. CASE CompleteUpload(f)
  <2>1. CASE Active /\ LiveUpload(f)
    <3>1. /\ asset' = [asset EXCEPT ![f].state = "pending"] /\ upload[f] = "completing"
          /\ upload' \in {[upload EXCEPT ![f] = "done"], [upload EXCEPT ![f] = "failed"]}
          /\ UNCHANGED <<stored, landing>>
      BY <1>7, <2>1 DEF CompleteUpload, FileUnchanged
    <3>2. TypeOK'
      <4>1. asset' \in [Assets -> Row]
        BY <1>0, <3>1 DEF TypeOK, Row, State
      <4>2. upload' \in [Assets -> {"idle", "storing", "completing", "done", "failed"}]
        BY <1>0, <3>1 DEF TypeOK
      <4> QED
        BY <1>0, <1>1, <1>4, <3>1, <4>1, <4>2 DEF TypeOK
    <3>3. LiveMoves
      BY <2>1 DEF LiveMoves
    <3>4. ASSUME NEW a \in Assets, Early
          PROVE  FileMoves(a)
      <4>1. RemovalMoves(a)
        BY <1>1, <3>1, RemovalStill
      <4>2. UploadMoves(a)
        BY <1>0, <3>1 DEF UploadMoves, TypeOK
      <4>3. CASE a # f
        <5>1. asset'[a] = asset[a]
          BY <1>0, <3>1, <4>3 DEF TypeOK
        <5> QED
          BY <1>1, <4>1, <4>2, <5>1, RowStill DEF FileMoves
      <4>4. CASE a = f
        <5>1. asset'[a].state = "pending" /\ asset[a].state = "uploading"
          BY <1>0, <2>1, <3>1, <4>4 DEF TypeOK, Row, LiveUpload
        <5>2. ~Used(a)
          BY <1>0, <3>4, <5>1 DEF FileSafe
        <5>3. ~Used(a)'
          BY <1>1, <5>2 DEF Used
        <5> QED
          BY <3>1, <4>1, <4>2, <4>4, <5>1, <5>3 DEF FileMoves, StateMoves
      <4> QED
        BY <4>3, <4>4
    <3> QED
      BY <1>2, <1>3, <3>2, <3>3, <3>4 DEF StepOK, ErasureMoves
  <2>2. CASE ~(Active /\ LiveUpload(f))
    <3>1. upload' = [upload EXCEPT ![f] = "failed"] /\ UNCHANGED <<asset, stored, landing>>
      BY <1>7, <2>2 DEF CompleteUpload, FileUnchanged
    <3>2. TypeOK'
      <4>1. upload' \in [Assets -> {"idle", "storing", "completing", "done", "failed"}]
        BY <1>0, <3>1 DEF TypeOK
      <4> QED
        BY <1>0, <1>1, <1>4, <3>1, <4>1 DEF TypeOK
    <3>3. \A a \in Assets : UploadMoves(a)
      BY <1>0, <3>1 DEF UploadMoves, TypeOK
    <3> QED
      BY <1>1, <1>2, <3>1, <3>2, <3>3, RowsStill, RemovalStill DEF FileMoves, StepOK, ErasureMoves
  <2> QED
    BY <2>1, <2>2
<1>8. CASE UploadLapses(f)
  <2>1. asset' = [asset EXCEPT ![f].lapsed = TRUE] /\ UNCHANGED <<stored, landing, upload>>
    BY <1>8 DEF UploadLapses, FileUnchanged
  <2>2. TypeOK'
    <3>1. asset' \in [Assets -> Row]
      BY <1>0, <2>1 DEF TypeOK, Row
    <3> QED
      BY <1>0, <1>1, <1>4, <2>1, <3>1 DEF TypeOK
  <2>3. \A a \in Assets : asset'[a].state = asset[a].state /\ (~asset'[a].lapsed => ~asset[a].lapsed)
    BY <1>0, <2>1 DEF TypeOK, Row
  <2>4. LiveMoves
    BY <2>3 DEF LiveMoves, LiveUpload
  <2>5. ASSUME NEW a \in Assets
        PROVE  FileMoves(a)
    <3>1. StateMoves(a)
      BY <1>1, <2>3 DEF StateMoves, Used
    <3> QED
      BY <1>1, <2>1, <3>1, RemovalStill, UploadStill DEF FileMoves
  <2> QED
    BY <1>2, <2>2, <2>4, <2>5 DEF StepOK, ErasureMoves
<1> QED
  BY <1>5, <1>6, <1>7, <1>8

\* What a change of the connections' files does to a file.
LEMMA GuardedState ==
  ASSUME TypeOK, NEW next \in [Conns -> Assets \cup {"none"}], conn' = next, asset' = Guarded(next),
         NEW a \in Assets, FileSafe(a), UNCHANGED upload,
         (\E c \in Conns : next[c] = a /\ conn[c] # a) => asset[a].state = "pending"
  PROVE  StateMoves(a)
<1> DEFINE r == asset[a].state
           s == asset'[a].state
<1>1. Used(a) => r = "attached"
  BY DEF FileSafe
<1>2. Used(a)' <=> \E c \in Conns : next[c] = a
  BY DEF Used
<1>3. CASE \E c \in Conns : next[c] = a /\ conn[c] # a
  <2>1. s = "attached" /\ r = "pending"
    BY <1>3, GuardedRows
  <2> QED
    BY <2>1 DEF StateMoves
<1>4. CASE \A c \in Conns : next[c] = a => conn[c] = a
  <2>1. Used(a)' => Used(a)
    BY <1>2, <1>4 DEF Used
  <2>2. \/ Used(a) /\ ~Used(a)' /\ s = "deleting"
        \/ s = r
    BY <1>2, <1>4, GuardedRows
  <2> QED
    BY <1>1, <2>1, <2>2 DEF StateMoves
<1> QED
  BY <1>3, <1>4

\* The routes under /connections.
LEMMA ConnectionOK ==
  ASSUME AssetInv, NEW c \in Conns, Detach(c) \/ \E a \in Assets : Attach(c, a)
  PROVE  StepOK
<1>0. TypeOK /\ (Early => \A a \in Assets : FileSafe(a))
  BY DEF AssetInv
<1>1. PICK f \in Assets \cup {"none"} :
        /\ conn' = [conn EXCEPT ![c] = f] /\ asset' = Guarded(conn')
        /\ f \in Assets => asset[f].state = "pending"
  <2>1. CASE Detach(c)
    BY <2>1, AssetAssumption DEF Detach
  <2>2. CASE \E a \in Assets : Attach(c, a)
    BY <2>2 DEF Attach, MayAttach
  <2> QED
    BY <2>1, <2>2
<1>2. UNCHANGED <<stored, landing, late, upload, profile, work, job, pass, up, faults>>
  BY DEF Detach, Attach
<1>3. conn' \in [Conns -> Assets \cup {"none"}]
  BY <1>0, <1>1 DEF TypeOK
<1>4. TypeOK'
  BY <1>0, <1>1, <1>2, <1>3, GuardedRows DEF TypeOK
<1>5. LiveMoves
  BY <1>0, <1>1, <1>3, GuardedUploads
<1>6. ASSUME NEW a \in Assets, Early'
      PROVE  FileMoves(a)
  <2>1. FileSafe(a)
    BY <1>0, <1>2, <1>6 DEF Early
  <2>2. ASSUME NEW d \in Conns, conn'[d] = a, conn[d] # a
        PROVE  asset[a].state = "pending"
    BY <1>0, <1>1, <2>2 DEF TypeOK
  <2>3. StateMoves(a)
    BY <1>0, <1>1, <1>2, <1>3, <2>1, <2>2, GuardedState
  <2> QED
    BY <1>2, <2>3, RemovalStill, UploadStill DEF FileMoves
<1> QED
  BY <1>2, <1>4, <1>5, <1>6, QuietStep DEF StepOK, ErasureMoves

\* The account's work, the gate, and the end of a claim of the deletion.
LEMMA AccountOK ==
  ASSUME AssetInv, WorkStarts \/ WorkEnds \/ DeleteAccount \/ DeletionLapses
  PROVE  StepOK
<1>0. TypeOK
  BY DEF AssetInv
<1>1. UNCHANGED <<asset, stored, landing, late, conn, upload, profile, pass, up>>
  BY DEF WorkStarts, WorkEnds, DeleteAccount, DeletionLapses
<1>2. job' \in [phase : Phase, token : Workers \cup {"none"}, leased : BOOLEAN] /\ work' \in BOOLEAN
  BY <1>0 DEF TypeOK, WorkStarts, WorkEnds, DeleteAccount, DeletionLapses, Phase
<1>6. job'.phase = job.phase \/ (job.phase = "none" /\ job'.phase = "waiting")
  BY <1>0 DEF TypeOK, WorkStarts, WorkEnds, DeleteAccount, DeletionLapses, Active
<1>7. work' => work \/ Active
  BY DEF WorkStarts, WorkEnds, DeleteAccount, DeletionLapses
<1>3. faults' \in 0..MaxFaults
  BY <1>0, AssetAssumption DEF TypeOK, WorkStarts, WorkEnds, DeleteAccount, DeletionLapses, Fault
<1>4. TypeOK'
  BY <1>0, <1>1, <1>2, <1>3 DEF TypeOK
<1>5. JobMoves /\ UserMoves /\ \A w \in Workers : PassMoves(w)
  BY <1>1, <1>6, <1>7 DEF JobMoves, UserMoves, PassMoves, Active, Early, Late
<1> QED
  BY <1>1, <1>4, <1>5, RowsStill, RemovalStill, UploadStill DEF StepOK, ErasureMoves, FileMoves

\* The end of a claim of a file.
LEMMA CleanupLapsesOK ==
  ASSUME AssetInv, NEW f \in Assets, CleanupLapses(f)
  PROVE  StepOK
<1>0. TypeOK /\ asset[f] \in Row
  BY DEF AssetInv, TypeOK
<1>1. /\ asset' = [asset EXCEPT ![f].leased = FALSE]
      /\ UNCHANGED <<stored, upload, landing, late, conn, profile, work, job, pass, up>>
  BY DEF CleanupLapses, FileUnchanged
<1>2. faults' \in 0..MaxFaults
  BY <1>0, AssetAssumption DEF TypeOK, CleanupLapses, Fault
<1>3. asset' \in [Assets -> Row]
  BY <1>0, <1>1 DEF TypeOK, Row
<1>4. \A a \in Assets : asset'[a].state = asset[a].state /\ asset'[a].lapsed = asset[a].lapsed
  BY <1>0, <1>1 DEF TypeOK, Row
<1>5. LiveMoves
  BY <1>4 DEF LiveMoves, LiveUpload
<1>6. \A a \in Assets : StateMoves(a)
  BY <1>1, <1>4 DEF StateMoves, Used
<1>7. TypeOK'
  BY <1>0, <1>1, <1>2, <1>3 DEF TypeOK
<1> QED
  BY <1>1, <1>5, <1>6, <1>7, QuietStep, RemovalStill, UploadStill DEF StepOK, ErasureMoves, FileMoves

\* The user goes: only when the account's own files were swept.
LEMMA ErasedFacts ==
  ASSUME TypeOK, Erased
  PROVE  /\ conn' \in [Conns -> Assets \cup {"none"}] /\ asset' \in [Assets -> Row]
         /\ profile' = FALSE /\ LiveMoves
<1>1. conn' = [c \in Conns |-> "none"] /\ asset' = Guarded(conn') /\ profile' = FALSE
  BY DEF Erased
<1>2. conn' \in [Conns -> Assets \cup {"none"}]
  BY <1>1
<1> QED
  BY <1>1, <1>2, GuardedRows, GuardedUploads

\* A DELETE that executes after its caller gave up.
LEMMA LateDeleteOK ==
  ASSUME AssetInv, LateDelete
  PROVE  StepOK
<1>0. TypeOK /\ Erasure
  BY DEF AssetInv
<1>1. UNCHANGED <<landing, upload, work, job, pass, up, faults>>
  BY DEF LateDelete
<1>2. CASE \E a \in late \ {"account"} :
             /\ late' = late \ {a} /\ stored' = stored \ {a}
             /\ UNCHANGED <<asset, conn, profile>>
  <2>1. PICK f \in late \ {"account"} :
             /\ late' = late \ {f} /\ stored' = stored \ {f}
             /\ UNCHANGED <<asset, conn, profile>>
    BY <1>2
  <2>2. TypeOK'
    BY <1>0, <1>1, <2>1 DEF TypeOK
  <2>3. ASSUME NEW a \in Assets
        PROVE  RemovalMoves(a)
    BY <1>1, <2>1 DEF RemovalMoves, RemovalComes
  <2> QED
    BY <1>1, <2>1, <2>2, <2>3, QuietStep, RowsStill, UploadStill DEF StepOK, ErasureMoves, FileMoves
<1>3. CASE "account" \in late /\ late' = late \ {"account"} /\ Erased /\ UNCHANGED stored
  <2>1. TypeOK'
    BY <1>0, <1>1, <1>3, ErasedFacts DEF TypeOK
  <2>2. ~Early'
    BY <1>0, <1>1, <1>3 DEF Erasure, Late, Early
  <2>3. JobMoves /\ UserMoves /\ \A w \in Workers : PassMoves(w)
    BY <1>1, <1>3 DEF JobMoves, UserMoves, PassMoves, Active, Early, Late
  <2> QED
    BY <1>0, <1>3, <2>1, <2>2, <2>3, ErasedFacts DEF StepOK, ErasureMoves
<1> QED
  BY <1>2, <1>3 DEF LateDelete

\* A worker stops.
LEMMA CrashOK ==
  ASSUME AssetInv, NEW w \in Workers, Crash(w)
  PROVE  StepOK
<1>0. TypeOK
  BY DEF AssetInv
<1>1. /\ UNCHANGED <<asset, stored, late, conn, profile, work, job>> /\ up' = up \ {w}
      /\ pass' = [pass EXCEPT ![w] = NoPass]
  BY DEF Crash, End
<1>2. faults' \in 0..MaxFaults
  BY <1>0, AssetAssumption DEF TypeOK, Crash, Fault
<1>3. /\ upload' \in [Assets -> {"idle", "storing", "completing", "done", "failed"}]
      /\ landing' \subseteq Assets
      /\ \A a \in Assets : UploadMoves(a)
  <2>1. /\ upload' = [a \in Assets |-> IF a \in Uploading(w) THEN "failed" ELSE upload[a]]
        /\ landing' \in {landing, landing \cup {a \in Uploading(w) : upload[a] = "storing"}}
    BY DEF Crash
  <2>2. Uploading(w) \subseteq Assets
    BY DEF Uploading
  <2> QED
    BY <1>0, <1>1, <2>1, <2>2 DEF TypeOK, UploadMoves
<1>4. pass' \in [Workers -> [at : Step, todo : SUBSET Assets, file : Assets \cup {"none"}, ok : BOOLEAN]]
  BY <1>0, <1>1 DEF TypeOK, NoPass, Step
<1>5. TypeOK'
  BY <1>0, <1>1, <1>2, <1>3, <1>4 DEF TypeOK
<1>6. ASSUME NEW v \in Workers
      PROVE  pass'[v] = pass[v] \/ (pass'[v].at = "idle" /\ pass'[v].todo = {})
  BY <1>0, <1>1 DEF TypeOK, NoPass
<1>7. JobMoves /\ UserMoves /\ \A v \in Workers : PassMoves(v)
  BY <1>1, <1>6 DEF JobMoves, UserMoves, PassMoves, Active, Early, Late
<1>8. \A a \in Assets : RemovalMoves(a)
  BY <1>1, <1>6 DEF RemovalMoves, RemovalComes
<1> QED
  BY <1>1, <1>3, <1>5, <1>7, <1>8, RowsStill DEF StepOK, ErasureMoves, FileMoves

\* A pass goes on to a step, or ends; no other pass is touched.
PassType == [at : Step, todo : SUBSET Assets, file : Assets \cup {"none"}, ok : BOOLEAN]
LEMMA GoFacts ==
  ASSUME TypeOK, NEW w \in Workers, NEW s \in Step, Go(w, s)
  PROVE  /\ pass' \in [Workers -> PassType]
         /\ pass'[w].at = s /\ pass'[w].ok = pass[w].ok /\ pass'[w].todo = pass[w].todo
         /\ \A v \in Workers \ {w} : pass'[v] = pass[v]
<1>1. pass \in [Workers -> PassType]
  BY DEF TypeOK, PassType
<1> QED
  BY <1>1 DEF Go, PassType

LEMMA EndFacts ==
  ASSUME TypeOK, NEW w \in Workers, End(w)
  PROVE  /\ pass' \in [Workers -> PassType]
         /\ pass'[w].at = "idle" /\ pass'[w].todo = {}
         /\ \A v \in Workers \ {w} : pass'[v] = pass[v]
<1>1. pass \in [Workers -> PassType]
  BY DEF TypeOK, PassType
<1>2. NoPass \in PassType
  BY DEF NoPass, PassType, Step
<1>3. pass' = [pass EXCEPT ![w] = NoPass]
  BY DEF End
<1>4. pass'[w] = NoPass /\ pass' \in [Workers -> PassType] /\ \A v \in Workers \ {w} : pass'[v] = pass[v]
  BY <1>1, <1>2, <1>3
<1> QED
  BY <1>4 DEF NoPass

\* The other passes go on as they are.
LEMMA OnePass ==
  ASSUME NEW w \in Workers, \A v \in Workers \ {w} : pass'[v] = pass[v], PassMoves(w)
  PROVE  \A v \in Workers : PassMoves(v)
  BY DEF PassMoves

\* Nothing more is to be removed.
LEMMA FewerRemovals ==
  ASSUME NEW a \in Assets, late' \subseteq late \cup {"account"}, stored \subseteq stored',
         \A v \in Workers : pass'[v].todo \subseteq pass[v].todo
  PROVE  RemovalMoves(a)
<1>1. a # "account"
  BY AssetAssumption
<1> QED
  BY <1>1 DEF RemovalMoves, RemovalComes

\* What every step of a pass leaves alone, and its bound.
LEMMA PassStepFrame ==
  ASSUME TypeOK, NEW w \in Workers, PassStep(w)
  PROVE  UNCHANGED <<landing, upload, up, work>> /\ faults' \in 0..MaxFaults
<1>1. UNCHANGED <<landing, upload, up, work>>
  BY DEF PassStep, PassUnchanged, Discover, Claim, Remove, Finish, ClaimDeletion, Hooks, AnnounceStorage,
         AnnounceAuth, AnnounceComplete, Announce, Sweep, Erase, Retry
<1>2. UNCHANGED faults \/ Fault
  BY DEF PassStep, Discover, Claim, Remove, Finish, ClaimDeletion, Hooks, AnnounceStorage,
         AnnounceAuth, AnnounceComplete, Announce, Sweep, Erase, Retry
<1>3. faults' \in 0..MaxFaults
  BY <1>2, AssetAssumption DEF TypeOK, Fault
<1> QED
  BY <1>1, <1>3

\* dbchat_discover_sqlite_orphans: a file of which an upload may still come is none.
LEMMA DiscoverOK ==
  ASSUME AssetInv, NEW w \in Workers, Discover(w)
  PROVE  StepOK
<1>0. TypeOK
  BY DEF AssetInv
<1>1. /\ UNCHANGED <<stored, late, conn, profile, work, job, faults, landing, upload, up>>
      /\ Go(w, "claim")
  BY DEF Discover, PassUnchanged
<1>2. ASSUME NEW a \in Assets
      PROVE  /\ asset'[a] \in Row
             /\ \/ asset'[a] = asset[a]
                \/ asset[a].state = "none" /\ a \in stored /\ ~Used(a) /\ asset'[a].state = "deleting"
  <2>0. asset[a] \in Row
    BY <1>0 DEF TypeOK
  <2>1. CASE asset[a].state = "none" /\ a \in stored /\ ~Used(a)
    <3> DEFINE s == [asset[a] EXCEPT !.state = "deleting"]
    <3>1. asset'[a] = s
      BY <2>1 DEF Discover
    <3>2. s \in Row /\ s.state = "deleting"
      BY <2>0 DEF Row, State
    <3> QED
      BY <2>1, <3>1, <3>2
  <2>2. CASE ~(asset[a].state = "none" /\ a \in stored /\ ~Used(a))
    BY <2>0, <2>2 DEF Discover
  <2> QED
    BY <2>1, <2>2
<1>3. asset' \in [Assets -> Row]
  <2>1. asset' = [a \in Assets |-> asset'[a]]
    BY DEF Discover
  <2> QED
    BY <1>2, <2>1
<1>4. "claim" \in Step
  BY DEF Step
<1>5. /\ pass' \in [Workers -> PassType] /\ pass'[w].at = "claim" /\ pass'[w].todo = pass[w].todo
      /\ \A v \in Workers \ {w} : pass'[v] = pass[v]
  BY <1>0, <1>1, <1>4, GoFacts
<1>6. TypeOK'
  BY <1>0, <1>1, <1>3, <1>5 DEF TypeOK, PassType
<1>7. \A v \in Workers : PassMoves(v)
  BY <1>5, OnePass DEF PassMoves
<1>8. JobMoves /\ UserMoves
  BY <1>1 DEF JobMoves, UserMoves, Active, Early, Late
<1>9. LiveMoves
  BY <1>2 DEF LiveMoves, LiveUpload
<1>10. ASSUME NEW a \in Assets
       PROVE  FileMoves(a)
  <2>1. RemovalMoves(a)
    BY <1>1, <1>5, FewerRemovals
  <2>2. StateMoves(a)
    <3>1. Used(a)' <=> Used(a)
      BY <1>1 DEF Used
    <3> QED
      BY <1>2, <3>1 DEF StateMoves
  <2> QED
    BY <1>1, <2>1, <2>2, UploadStill DEF FileMoves
<1> QED
  BY <1>6, <1>7, <1>8, <1>9, <1>10 DEF StepOK, ErasureMoves

\* dbchat_claim_asset_cleanup: what it hands out waits for its deletion.
LEMMA ClaimOK ==
  ASSUME AssetInv, NEW w \in Workers, Claim(w)
  PROVE  StepOK
<1>0. TypeOK /\ (Early => \A a \in Assets : FileSafe(a))
  BY DEF AssetInv
<1>1. UNCHANGED <<stored, late, conn, profile, work, job, landing, upload, up>>
  BY DEF Claim, PassUnchanged
<1>2. faults' \in 0..MaxFaults
  BY <1>0, PassStepFrame DEF PassStep
<1>3. asset' = asset \/ asset' = ClaimedBy(w)
  BY DEF Claim
<1>4. asset' \in [Assets -> Row]
  BY <1>0, <1>3, ClaimedRows DEF TypeOK
<1>5. /\ pass' \in [Workers -> PassType] /\ pass'[w].at \in {"idle", "assets"}
      /\ \A v \in Workers \ {w} : pass'[v] = pass[v]
      /\ \A a \in Assets : a \in pass'[w].todo => a \in pass[w].todo \/ asset'[a].state = "deleting"
  <2>1. CASE asset' = ClaimedBy(w) /\ pass' = [pass EXCEPT ![w].at = "assets", ![w].todo = Claimable]
    <3>1. Claimable \in SUBSET Assets /\ "assets" \in Step
      BY DEF Claimable, Step
    <3>2. pass \in [Workers -> PassType]
      BY <1>0 DEF TypeOK, PassType
    <3>3. /\ pass' \in [Workers -> PassType] /\ pass'[w].at = "assets" /\ pass'[w].todo = Claimable
          /\ \A v \in Workers \ {w} : pass'[v] = pass[v]
      BY <2>1, <3>1, <3>2 DEF PassType
    <3> QED
      BY <1>0, <2>1, <3>3, ClaimedRows
  <2>2. CASE Go(w, "assets")
    <3>1. "assets" \in Step
      BY DEF Step
    <3> QED
      BY <1>0, <2>2, <3>1, GoFacts
  <2>3. CASE End(w)
    BY <1>0, <2>3, EndFacts
  <2> QED
    BY <2>1, <2>2, <2>3 DEF Claim
<1>6. TypeOK'
  BY <1>0, <1>1, <1>2, <1>4, <1>5 DEF TypeOK, PassType
<1>7. \A v \in Workers : PassMoves(v)
  BY <1>5, OnePass DEF PassMoves
<1>8. JobMoves /\ UserMoves
  BY <1>1 DEF JobMoves, UserMoves, Active, Early, Late
<1>9. LiveMoves
  BY <1>0, <1>3, ClaimedRows DEF LiveMoves, LiveUpload
<1>10. ASSUME NEW a \in Assets, Early'
       PROVE  FileMoves(a)
  <2>0. FileSafe(a)
    BY <1>0, <1>1, <1>10 DEF Early
  <2>1. RemovalMoves(a)
    BY <1>1, <1>5 DEF RemovalMoves, RemovalComes
  <2>2. StateMoves(a)
    <3>1. Used(a)' <=> Used(a)
      BY <1>1 DEF Used
    <3>2. Used(a) => ~Removable(a) /\ a \notin Claimable
      BY <2>0 DEF FileSafe, Removable, Claimable
    <3>3. a \in Claimable => asset[a].state # "none"
      BY DEF Claimable, Removable
    <3>4. asset'[a] = asset[a] \/ (a \in Claimable /\ asset'[a].state = "deleting")
      BY <1>0, <1>3, <3>2, ClaimedRows
    <3> QED
      BY <3>1, <3>2, <3>3, <3>4 DEF StateMoves
  <2> QED
    BY <1>1, <2>1, <2>2, UploadStill DEF FileMoves
<1> QED
  BY <1>6, <1>7, <1>8, <1>9, <1>10 DEF StepOK, ErasureMoves

\* storage.remove, of a file the pass was handed.
LEMMA RemoveOK ==
  ASSUME AssetInv, NEW w \in Workers, Remove(w)
  PROVE  StepOK
<1>0. TypeOK
  BY DEF AssetInv
<1>1. UNCHANGED <<asset, conn, profile, work, job, landing, upload, up>>
  BY DEF Remove, PassUnchanged
<1>2. faults' \in 0..MaxFaults
  BY <1>0, PassStepFrame DEF PassStep
<1>3. PICK f \in pass[w].todo, ok \in BOOLEAN :
        /\ pass' = [pass EXCEPT ![w].at = "finish", ![w].file = f, ![w].ok = ok]
        /\ stored' \in {stored, stored \ {f}} /\ late' \in {late, late \cup {f}}
  BY DEF Remove
<1>4. f \in Assets /\ f # "account"
  BY <1>0, AssetAssumption DEF TypeOK
<1>5. /\ pass' \in [Workers -> PassType] /\ pass'[w].at = "finish" /\ pass'[w].todo = pass[w].todo
      /\ \A v \in Workers \ {w} : pass'[v] = pass[v]
  <2>1. pass \in [Workers -> PassType]
    BY <1>0 DEF TypeOK, PassType
  <2>2. pass[w] \in PassType /\ "finish" \in Step
    BY <2>1 DEF Step
  <2>3. [pass[w] EXCEPT !.at = "finish", !.file = f, !.ok = ok] \in PassType
    BY <1>3, <1>4, <2>2 DEF PassType
  <2>4. pass' = [pass EXCEPT ![w] = [pass[w] EXCEPT !.at = "finish", !.file = f, !.ok = ok]]
    BY <1>3, <2>1
  <2>5. pass'[w] = [pass[w] EXCEPT !.at = "finish", !.file = f, !.ok = ok]
        /\ \A v \in Workers \ {w} : pass'[v] = pass[v]
    BY <2>1, <2>4
  <2>6. pass'[w].at = "finish" /\ pass'[w].todo = pass[w].todo
    BY <2>2, <2>5 DEF PassType
  <2> QED
    BY <2>1, <2>3, <2>4, <2>5, <2>6
<1>6. TypeOK'
  BY <1>0, <1>1, <1>2, <1>3, <1>4, <1>5 DEF TypeOK, PassType
<1>7. \A v \in Workers : PassMoves(v)
  BY <1>5, OnePass DEF PassMoves
<1>8. JobMoves /\ UserMoves
  BY <1>1, <1>3, <1>4 DEF JobMoves, UserMoves, Active, Early, Late
<1>9. ASSUME NEW a \in Assets
      PROVE  RemovalMoves(a)
  <2>1. RemovalComes(f)
    BY <1>3 DEF RemovalComes
  <2>2. RemovalComes(a)' => RemovalComes(a) \/ a = f
    BY <1>3, <1>5 DEF RemovalComes
  <2> QED
    BY <1>3, <2>1, <2>2 DEF RemovalMoves
<1>10. \A a \in Assets : UploadMoves(a)
  BY <1>1, <1>3, UploadStill
<1> QED
  BY <1>1, <1>6, <1>7, <1>8, <1>9, <1>10, RowsStill DEF StepOK, ErasureMoves, FileMoves

\* dbchat_finish_asset_cleanup.
LEMMA FinishOK ==
  ASSUME AssetInv, NEW w \in Workers, Finish(w)
  PROVE  StepOK
<1>0. TypeOK /\ (Early => \A a \in Assets : FileSafe(a))
  BY DEF AssetInv
<1> DEFINE f == pass[w].file
           ok == pass[w].ok
<1>1. UNCHANGED <<stored, late, conn, profile, work, job, landing, upload, up>>
  BY DEF Finish, PassUnchanged
<1>2. faults' \in 0..MaxFaults
  BY <1>0, PassStepFrame DEF PassStep
<1>3. f \in Assets \cup {"none"} /\ ok \in BOOLEAN
  BY <1>0 DEF TypeOK
<1>4. asset' = asset \/ asset' = Finished(w, f, ok)
  BY DEF Finish
<1>5. /\ asset' \in [Assets -> Row]
      /\ \A a \in Assets : asset'[a] = asset[a] \/ (asset[a].state = "deleting" /\ asset'[a].state \in Gone)
  <2>1. CASE asset' = asset
    BY <1>0, <2>1 DEF TypeOK
  <2>2. CASE asset' = Finished(w, f, ok)
    <3> HIDE DEF f, ok
    <3> QED
      BY <1>0, <1>3, <2>2, FinishedRows
  <2> QED
    BY <1>4, <2>1, <2>2
<1>6. /\ pass' \in [Workers -> PassType] /\ pass'[w].at \in {"assets", "idle"}
      /\ pass'[w].todo \subseteq pass[w].todo
      /\ \A v \in Workers \ {w} : pass'[v] = pass[v]
  <2>1. CASE pass' = [pass EXCEPT ![w].at = "assets", ![w].todo = @ \ {f}, ![w].file = "none", ![w].ok = FALSE]
    <3>1. pass \in [Workers -> PassType]
      BY <1>0 DEF TypeOK, PassType
    <3>2. PICK todo \in SUBSET Assets : todo = pass[w].todo \ {f}
      BY <3>1 DEF PassType
    <3>3. pass' = [pass EXCEPT ![w] = [pass[w] EXCEPT !.at = "assets", !.todo = todo, !.file = "none", !.ok = FALSE]]
      BY <2>1, <3>1, <3>2 DEF PassType
    <3>4. pass[w] \in PassType
      BY <3>1
    <3>5. PICK p : p = [pass[w] EXCEPT !.at = "assets", !.todo = todo, !.file = "none", !.ok = FALSE]
      OBVIOUS
    <3>6. p \in PassType /\ p.at = "assets" /\ p.todo = todo
      BY <3>4, <3>5 DEF PassType, Step
    <3> QED
      BY <3>1, <3>2, <3>3, <3>5, <3>6
  <2>2. CASE End(w)
    BY <1>0, <2>2, EndFacts
  <2> QED
    BY <2>1, <2>2 DEF Finish
<1>7. TypeOK'
  BY <1>0, <1>1, <1>2, <1>5, <1>6 DEF TypeOK, PassType
<1>8. \A v \in Workers : PassMoves(v)
  BY <1>6, OnePass DEF PassMoves
<1>9. JobMoves /\ UserMoves
  BY <1>1 DEF JobMoves, UserMoves, Active, Early, Late
<1>10. LiveMoves
  BY <1>5 DEF LiveMoves, LiveUpload, Gone
<1>11. ASSUME NEW a \in Assets, Early'
       PROVE  FileMoves(a)
  <2>0. FileSafe(a)
    BY <1>0, <1>1, <1>11 DEF Early
  <2>1. RemovalMoves(a)
    BY <1>1, <1>6, FewerRemovals
  <2>2. StateMoves(a)
    <3>1. Used(a)' <=> Used(a)
      BY <1>1 DEF Used
    <3>2. asset'[a] = asset[a] \/ (asset[a].state = "deleting" /\ ~Used(a) /\ asset'[a].state \in Gone)
      BY <1>5, <2>0 DEF FileSafe
    <3> QED
      BY <3>1, <3>2 DEF StateMoves, Gone
  <2> QED
    BY <1>1, <2>1, <2>2, UploadStill DEF FileMoves
<1> QED
  BY <1>7, <1>8, <1>9, <1>10, <1>11 DEF StepOK, ErasureMoves

\* dbchat_claim_account_deletions: a row that was committed, and the phase it had.
LEMMA ClaimDeletionOK ==
  ASSUME AssetInv, NEW w \in Workers, ClaimDeletion(w)
  PROVE  StepOK
<1>0. TypeOK
  BY DEF AssetInv
<1>1. UNCHANGED <<asset, stored, late, conn, profile, work, faults, landing, upload, up>>
  BY DEF ClaimDeletion, PassUnchanged
<1>2. CASE DeletionClaimable
  <2> DEFINE ok == job.phase = "auth"
  <2>1. /\ job' = [job EXCEPT !.token = w, !.leased = TRUE]
        /\ pass' = [pass EXCEPT ![w].at = "hooks", ![w].ok = ok]
    BY <1>2 DEF ClaimDeletion
  <2>2. job'.phase = job.phase /\ job' \in [phase : Phase, token : Workers \cup {"none"}, leased : BOOLEAN]
    BY <1>0, <2>1 DEF TypeOK
  <2>3. ok \in BOOLEAN /\ ok => Late
    BY DEF Late
  <2>4. /\ pass' \in [Workers -> PassType] /\ pass'[w].at = "hooks" /\ pass'[w].ok = ok
        /\ pass'[w].todo = pass[w].todo /\ \A v \in Workers \ {w} : pass'[v] = pass[v]
    <3>1. pass \in [Workers -> PassType]
      BY <1>0 DEF TypeOK, PassType
    <3>2. ok \in BOOLEAN
      OBVIOUS
    <3> HIDE DEF ok
    <3> QED
      BY <2>1, <3>1, <3>2 DEF PassType, Step
  <2>5. TypeOK'
    BY <1>0, <1>1, <2>2, <2>4 DEF TypeOK, PassType
  <2>6. ~Active
    BY <1>2 DEF DeletionClaimable, Active
  <2>7. PassMoves(w)
    BY <2>4, <2>6 DEF PassMoves, Late
  <2>8. JobMoves /\ UserMoves
    BY <1>1, <2>2 DEF JobMoves, UserMoves, Active, Early, Late
  <2>9. \A a \in Assets : RemovalMoves(a)
    BY <1>1, <2>4, FewerRemovals
  <2> QED
    BY <1>1, <2>4, <2>5, <2>7, <2>8, <2>9, OnePass, RowsStill, UploadStill DEF StepOK, ErasureMoves, FileMoves
<1>3. CASE ~DeletionClaimable
  <2>1. End(w) /\ UNCHANGED job
    BY <1>3 DEF ClaimDeletion
  <2>2. /\ pass' \in [Workers -> PassType] /\ pass'[w].at = "idle" /\ pass'[w].todo = {}
        /\ \A v \in Workers \ {w} : pass'[v] = pass[v]
    BY <1>0, <2>1, EndFacts
  <2>3. TypeOK'
    BY <1>0, <1>1, <2>1, <2>2 DEF TypeOK, PassType
  <2>4. PassMoves(w)
    BY <2>2 DEF PassMoves
  <2>5. JobMoves /\ UserMoves
    BY <1>1, <2>1 DEF JobMoves, UserMoves, Active, Early, Late
  <2>6. \A a \in Assets : RemovalMoves(a)
    BY <1>1, <2>2, FewerRemovals
  <2> QED
    BY <1>1, <2>2, <2>3, <2>4, <2>5, <2>6, OnePass, RowsStill, UploadStill DEF StepOK, ErasureMoves, FileMoves
<1> QED
  BY <1>2, <1>3

\* The hooks: the erasure goes on when the account's work has ended.
LEMMA HooksOK ==
  ASSUME AssetInv, NEW w \in Workers, Hooks(w)
  PROVE  StepOK
<1>0. TypeOK /\ Erasure
  BY DEF AssetInv
<1>1. UNCHANGED <<asset, stored, late, conn, profile, work, job, landing, upload, up>> /\ pass[w].at = "hooks"
  BY DEF Hooks, PassUnchanged, At
<1>2. faults' \in 0..MaxFaults
  BY <1>0, PassStepFrame DEF PassStep
<1>3. PICK s \in {"storage", "sweep", "retry"} :
        /\ Go(w, s)
        /\ s = "retry" \/ (~work /\ (s = "sweep" => pass[w].ok))
  BY DEF Hooks
<1>4. /\ pass' \in [Workers -> PassType] /\ pass'[w].at = s /\ pass'[w].todo = pass[w].todo
      /\ \A v \in Workers \ {w} : pass'[v] = pass[v]
  BY <1>0, <1>3, GoFacts DEF Step
<1>5. TypeOK'
  BY <1>0, <1>1, <1>2, <1>4 DEF TypeOK, PassType
<1>6. s = "sweep" => ~Early' /\ ~Active
  BY <1>0, <1>1, <1>3 DEF Erasure, Early, Late, Active
<1>7. PassMoves(w)
  BY <1>1, <1>3, <1>4, <1>6 DEF PassMoves
<1>8. JobMoves /\ UserMoves
  BY <1>1 DEF JobMoves, UserMoves, Active, Early, Late
<1>9. \A a \in Assets : RemovalMoves(a)
  BY <1>1, <1>4, FewerRemovals
<1> QED
  BY <1>1, <1>4, <1>5, <1>7, <1>8, <1>9, OnePass, RowsStill, UploadStill DEF StepOK, ErasureMoves, FileMoves

\* advance: the phases follow each other, and "auth" waits for the last upload.
LEMMA AnnounceOK ==
  ASSUME AssetInv, NEW w \in Workers, AnnounceStorage(w) \/ AnnounceAuth(w) \/ AnnounceComplete(w)
  PROVE  StepOK
<1>0. TypeOK /\ Erasure
  BY DEF AssetInv
<1>1. PICK next \in {"storage", "auth", "complete"}, after \in {"sweep", "erase", "idle"} :
        /\ Announce(w, next, after)
        /\ <<next, after>> \in {<<"storage", "sweep">>, <<"auth", "erase">>, <<"complete", "idle">>}
  BY DEF AnnounceStorage, AnnounceAuth, AnnounceComplete
<1>2. UNCHANGED <<stored, late, conn, profile, work, landing, upload, up>> /\ pass[w].at = next
  BY <1>1 DEF Announce, PassUnchanged, At
<1>3. faults' \in 0..MaxFaults
  BY <1>0, PassStepFrame DEF PassStep
<1>4. PICK s \in {after, "retry"} : IF s = "idle" THEN End(w) ELSE Go(w, s)
  BY <1>1 DEF Announce
<1>5. /\ pass' \in [Workers -> PassType] /\ pass'[w].at = s /\ pass'[w].todo \subseteq pass[w].todo
      /\ \A v \in Workers \ {w} : pass'[v] = pass[v]
  <2>1. s \in Step
    BY DEF Step
  <2> QED
    BY <1>0, <1>4, <2>1, GoFacts, EndFacts
<1>6. \A a \in Assets : UploadMoves(a) /\ RemovalMoves(a)
  BY <1>2, <1>5, FewerRemovals, UploadStill
<1>7. CASE Advances(w, next) /\ Advance(w, next)
  <2>1. /\ job.phase \in {"waiting", "storage", "auth"} /\ \A a \in Assets : ~LiveUpload(a)
        /\ next = "storage" => job.phase \in {"waiting", "storage"}
        /\ next = "auth" => job.phase \in {"storage", "auth"}
        /\ next = "complete" => job.phase = "auth"
    BY <1>1, <1>7 DEF Advances
  <2>2. /\ job'.phase = next
        /\ job' \in [phase : Phase, token : Workers \cup {"none"}, leased : BOOLEAN]
    <3>1. next \in Phase
      BY DEF Phase
    <3> QED
      BY <1>7, <3>1 DEF Advance
  <2>3. ASSUME NEW a \in Assets
        PROVE  asset'[a] \in Row /\ ~LiveUpload(a)'
    <3>0. asset[a] \in Row /\ ~LiveUpload(a)
      BY <1>0, <2>1 DEF TypeOK
    <3>1. CASE next # "complete" \/ asset[a].state = "none"
      BY <1>7, <3>0, <3>1 DEF Advance, LiveUpload
    <3>2. CASE ~(next # "complete" \/ asset[a].state = "none")
      <4> DEFINE r == [asset[a] EXCEPT !.state = "deleted", !.token = "none", !.leased = FALSE]
      <4>1. asset'[a] = r
        BY <1>7, <3>2 DEF Advance
      <4>2. r \in Row /\ r.state = "deleted"
        BY <3>0 DEF Row, State
      <4> QED
        BY <4>1, <4>2 DEF LiveUpload
    <3> QED
      BY <3>1, <3>2
  <2>4. asset' \in [Assets -> Row]
    <3>1. asset' = asset \/ asset' = [a \in Assets |-> asset'[a]]
      BY <1>7 DEF Advance
    <3> QED
      BY <1>0, <2>3, <3>1 DEF TypeOK
  <2>5. TypeOK'
    BY <1>0, <1>2, <1>3, <1>5, <2>2, <2>4 DEF TypeOK, PassType
  <2>6. ~Early' /\ ~Active
    BY <2>1, <2>2 DEF Early, Active
  <2>7. LiveMoves
    BY <2>3 DEF LiveMoves
  <2>8. JobMoves
    <3>1. ~Early' => ~Early \/ \E v \in Workers : pass[v].at = "storage"
      BY <1>2, <2>1 DEF Early
    <3>2. Late' => \A a \in Assets : ~LiveUpload(a)'
      BY <2>3
    <3>3. (Active' => Active) /\ (Early' => Early) /\ (Late => Late')
      BY <2>1, <2>2 DEF Active, Early, Late
    <3> QED
      BY <3>1, <3>2, <3>3 DEF JobMoves
  <2>9. UserMoves
    BY <1>2 DEF UserMoves
  <2>10. PassMoves(w)
    <3>1. s = "sweep" => ~work
      BY <1>0, <1>1, <1>2, <1>4 DEF Erasure
    <3>2. s = "erase" => Late'
      BY <1>1, <1>4, <2>2 DEF Late
    <3> QED
      BY <1>1, <1>4, <1>5, <2>6, <3>1, <3>2 DEF PassMoves
  <2> QED
    BY <1>5, <2>5, <2>6, <2>7, <2>8, <2>9, <2>10, OnePass DEF StepOK, ErasureMoves
<1>8. CASE UNCHANGED <<job, asset>> /\ Go(w, "retry")
  <2>1. /\ pass' \in [Workers -> PassType] /\ pass'[w].at = "retry"
        /\ \A v \in Workers \ {w} : pass'[v] = pass[v]
    BY <1>0, <1>8, GoFacts DEF Step
  <2>2. TypeOK'
    BY <1>0, <1>2, <1>3, <1>8, <2>1 DEF TypeOK, PassType
  <2>3. PassMoves(w)
    BY <2>1 DEF PassMoves
  <2>4. JobMoves /\ UserMoves
    BY <1>2, <1>8 DEF JobMoves, UserMoves, Active, Early, Late
  <2> QED
    BY <1>2, <1>6, <1>8, <2>1, <2>2, <2>3, <2>4, OnePass, RowsStill DEF StepOK, ErasureMoves, FileMoves
<1> QED
  BY <1>1, <1>7, <1>8 DEF Announce

\* storage.removeOwner, at a time when no connection is served any more.
LEMMA SweepOK ==
  ASSUME AssetInv, NEW w \in Workers, Sweep(w)
  PROVE  StepOK
<1>0. TypeOK /\ Erasure
  BY DEF AssetInv
<1>1. UNCHANGED <<asset, late, conn, profile, work, job, landing, upload, up>> /\ pass[w].at = "sweep"
      /\ stored' \in {stored, {}}
  BY DEF Sweep, PassUnchanged, At
<1>2. faults' \in 0..MaxFaults
  BY <1>0, PassStepFrame DEF PassStep
<1>3. ~Early'
  BY <1>0, <1>1 DEF Erasure, Early
<1>4. UNCHANGED pass \/ \E s \in {"auth", "retry"} : Go(w, s)
  BY DEF Sweep
<1>5. /\ pass' \in [Workers -> PassType] /\ PassMoves(w)
      /\ \A v \in Workers \ {w} : pass'[v] = pass[v]
  <2>1. CASE UNCHANGED pass
    BY <1>0, <2>1 DEF TypeOK, PassType, PassMoves
  <2>2. ASSUME NEW s \in {"auth", "retry"}, Go(w, s)
        PROVE  /\ pass' \in [Workers -> PassType] /\ PassMoves(w)
               /\ \A v \in Workers \ {w} : pass'[v] = pass[v]
    BY <1>0, <1>1, <2>2, GoFacts DEF Step, PassMoves
  <2> QED
    BY <1>4, <2>1, <2>2
<1>6. TypeOK'
  BY <1>0, <1>1, <1>2, <1>5 DEF TypeOK, PassType
<1>7. JobMoves /\ UserMoves
  BY <1>1 DEF JobMoves, UserMoves, Active, Early, Late
<1> QED
  BY <1>1, <1>3, <1>5, <1>6, <1>7, OnePass, RowsStill DEF StepOK, ErasureMoves

\* deleteSupabaseAuthUser.
LEMMA EraseOK ==
  ASSUME AssetInv, NEW w \in Workers, Erase(w)
  PROVE  StepOK
<1>0. TypeOK /\ Erasure
  BY DEF AssetInv
<1>1. UNCHANGED <<stored, work, job, landing, upload, up>> /\ pass[w].at = "erase"
  BY DEF Erase, PassUnchanged, At
<1>2. faults' \in 0..MaxFaults
  BY <1>0, PassStepFrame DEF PassStep
<1>3. ~Early'
  BY <1>0, <1>1 DEF Erasure, Early, Late
<1>4. PICK s \in {"complete", "retry"} : Go(w, s)
  BY DEF Erase
<1>5. /\ pass' \in [Workers -> PassType] /\ pass'[w].at = s
      /\ \A v \in Workers \ {w} : pass'[v] = pass[v]
  BY <1>0, <1>4, GoFacts DEF Step
<1>6. PassMoves(w)
  BY <1>1, <1>5 DEF PassMoves
<1>7. /\ conn' \in [Conns -> Assets \cup {"none"}] /\ asset' \in [Assets -> Row]
      /\ profile' \in BOOLEAN /\ LiveMoves
  <2>1. CASE Erased
    BY <1>0, <2>1, ErasedFacts
  <2>2. CASE UNCHANGED <<profile, conn, asset>>
    BY <1>0, <2>2, RowsStill DEF TypeOK
  <2> QED
    BY <2>1, <2>2 DEF Erase
<1>8. late' \subseteq Assets \cup {"account"}
  BY <1>0 DEF TypeOK, Erase
<1>9. TypeOK'
  BY <1>0, <1>1, <1>2, <1>5, <1>7, <1>8 DEF TypeOK, PassType
<1>10. JobMoves /\ UserMoves
  BY <1>1 DEF JobMoves, UserMoves, Active, Early, Late
<1> QED
  BY <1>3, <1>5, <1>6, <1>7, <1>9, <1>10, OnePass DEF StepOK, ErasureMoves

\* dbchat_retry_account_deletion gives the claim back.
LEMMA RetryOK ==
  ASSUME AssetInv, NEW w \in Workers, Retry(w)
  PROVE  StepOK
<1>0. TypeOK
  BY DEF AssetInv
<1>1. UNCHANGED <<asset, stored, late, conn, profile, work, landing, upload, up>> /\ End(w)
  BY DEF Retry, PassUnchanged
<1>2. faults' \in 0..MaxFaults
  BY <1>0, PassStepFrame DEF PassStep
<1>3. /\ job'.phase = job.phase
      /\ job' \in [phase : Phase, token : Workers \cup {"none"}, leased : BOOLEAN]
  BY <1>0 DEF TypeOK, Retry
<1>4. /\ pass' \in [Workers -> PassType] /\ pass'[w].at = "idle" /\ pass'[w].todo = {}
      /\ \A v \in Workers \ {w} : pass'[v] = pass[v]
  BY <1>0, <1>1, EndFacts
<1>5. TypeOK'
  BY <1>0, <1>1, <1>2, <1>3, <1>4 DEF TypeOK, PassType
<1>6. PassMoves(w)
  BY <1>4 DEF PassMoves
<1>7. JobMoves /\ UserMoves
  BY <1>1, <1>3 DEF JobMoves, UserMoves, Active, Early, Late
<1>8. \A a \in Assets : RemovalMoves(a)
  BY <1>1, <1>4, FewerRemovals
<1> QED
  BY <1>1, <1>4, <1>5, <1>6, <1>7, <1>8, OnePass, RowsStill, UploadStill DEF StepOK, ErasureMoves, FileMoves

\* Every step.
LEMMA EveryStepOK ==
  ASSUME AssetInv, [Next]_vars
  PROVE  StepOK
<1>1. CASE UNCHANGED vars
  <2>1. UNCHANGED <<asset, stored, landing, late, conn, upload, profile, work, job, pass, up, faults>>
    BY <1>1 DEF vars
  <2>2. TypeOK'
    BY <2>1 DEF AssetInv, TypeOK
  <2> QED
    BY <2>1, <2>2, QuietStep, RowsStill, RemovalStill, UploadStill DEF StepOK, ErasureMoves, FileMoves
<1>2. ASSUME NEW w \in Workers, PassStep(w)
      PROVE  StepOK
  BY <1>2, DiscoverOK, ClaimOK, RemoveOK, FinishOK, ClaimDeletionOK, HooksOK, AnnounceOK, SweepOK, EraseOK,
     RetryOK DEF PassStep
<1>3. CASE Next
  BY <1>2, <1>3, UploadOK, CleanupLapsesOK, ConnectionOK, AccountOK, LateDeleteOK, CrashOK DEF Next
<1> QED
  BY <1>1, <1>3

-----------------------------------------------------------------------------
(* The theorems.                                                           *)

\* The inductive invariant.
THEOREM AssetInvHolds == Spec => []AssetInv
<1>1. Init => AssetInv
  <2> SUFFICES ASSUME Init PROVE AssetInv
    OBVIOUS
  <2>1. PICK shared \in SUBSET Old :
          /\ asset = [a \in Assets |-> IF a \in shared THEN [NoRow EXCEPT !.state = "attached"] ELSE NoRow]
          /\ conn \in [Conns -> shared \cup {"none"}]
          /\ stored = Old
          /\ upload = [a \in Assets |-> IF a \in Old THEN "failed" ELSE "idle"]
          /\ landing = {} /\ late = {}
          /\ profile = TRUE /\ work = FALSE
          /\ job = [phase |-> "none", token |-> "none", leased |-> FALSE]
          /\ pass = [w \in Workers |-> NoPass]
          /\ up = Workers /\ faults = 0
    BY DEF Init
  <2>2. Old \subseteq Assets /\ MaxFaults \in Nat /\ "none" \notin Assets
    BY AssetAssumption
  <2>3. TypeOK
    <3>1. asset \in [Assets -> Row]
      BY <2>1 DEF NoRow, Row, State
    <3>2. conn \in [Conns -> Assets \cup {"none"}]
      BY <2>1, <2>2
    <3>3. pass \in [Workers -> [at : Step, todo : SUBSET Assets, file : Assets \cup {"none"}, ok : BOOLEAN]]
      BY <2>1 DEF NoPass, Step
    <3>4. job \in [phase : Phase, token : Workers \cup {"none"}, leased : BOOLEAN]
      BY <2>1 DEF Phase
    <3>5. upload \in [Assets -> {"idle", "storing", "completing", "done", "failed"}]
      BY <2>1
    <3>6. faults \in 0..MaxFaults
      BY <2>1, <2>2
    <3> QED
      BY <2>1, <2>2, <3>1, <3>2, <3>3, <3>4, <3>5, <3>6 DEF TypeOK
  <2>4. Erasure
    BY <2>1 DEF Erasure, NoPass, Active, Early, Late
  <2>5. ASSUME NEW a \in Assets
        PROVE  FileSafe(a)
    <3>1. ~RemovalComes(a)
      BY <2>1 DEF RemovalComes, NoPass
    <3>2. CASE a \in shared
      <4>1. asset[a].state = "attached" /\ a \in stored /\ upload[a] = "failed"
        BY <2>1, <3>2 DEF NoRow
      <4> QED
        BY <3>1, <4>1 DEF FileSafe
    <3>3. CASE a \notin shared
      <4>1. asset[a].state = "none" /\ (a \in stored => upload[a] = "failed") /\ landing = {}
        BY <2>1, <3>3 DEF NoRow
      <4>2. ~Used(a)
        BY <2>1, <2>2, <3>3 DEF Used
      <4> QED
        BY <2>1, <3>1, <4>1, <4>2 DEF FileSafe
    <3> QED
      BY <3>2, <3>3
  <2> QED
    BY <2>3, <2>4, <2>5 DEF AssetInv
<1>2. AssetInv /\ [Next]_vars => AssetInv'
  <2> SUFFICES ASSUME AssetInv, [Next]_vars PROVE AssetInv'
    OBVIOUS
  <2>1. TypeOK' /\ ErasureMoves /\ (Early' => \A a \in Assets : FileMoves(a))
    BY EveryStepOK DEF StepOK
  <2>2. Erasure'
    BY <2>1, ErasureKept DEF AssetInv
  <2>3. ASSUME Early', NEW a \in Assets
        PROVE  FileSafe(a)'
    BY <2>1, <2>3, FileKept DEF AssetInv, ErasureMoves, JobMoves
  <2> QED
    BY <2>1, <2>2, <2>3 DEF AssetInv
<1> QED
  BY <1>1, <1>2, PTL DEF Spec

\* The Auth user is deleted only when the account's turns and exports have ended and
\* none of its uploads can complete: the phases of the deletion are announced in order,
\* by a worker whose hooks found nothing running, and "auth" only with no upload open.
THEOREM UsersAreErasedAfterWork == Spec => []ErasedAfterWork
<1>1. AssetInv => ErasedAfterWork
  BY DEF AssetInv, Erasure, ErasedAfterWork, Early, Late, Active
<1> QED
  BY <1>1, AssetInvHolds, PTL

\* A file in use stays registered and stored until its account is swept: whatever was
\* handed out for removal, or may still be removed by a late DELETE, waits for its
\* deletion, and such a row is never attached again.
THEOREM AttachedFilesAreSafe == Spec => []FilesAreSafe
<1>1. AssetInv => FilesAreSafe
  <2> SUFFICES ASSUME AssetInv PROVE FilesAreSafe
    OBVIOUS
  <2>1. ASSUME Early, NEW c \in Conns, conn[c] # "none"
        PROVE  asset[conn[c]].state = "attached" /\ conn[c] \in stored
    <3>1. conn[c] \in Assets
      BY <2>1 DEF AssetInv, TypeOK
    <3>2. Used(conn[c]) /\ FileSafe(conn[c])
      BY <2>1, <3>1 DEF AssetInv, Used
    <3> QED
      BY <3>2 DEF FileSafe
  <2> QED
    BY <2>1 DEF AssetInv, FilesAreSafe, AttachedFilesStay, Early
<1> QED
  BY <1>1, AssetInvHolds, PTL
===================================================================================
