---------------------------- MODULE AssetLifecycle ----------------------------
(***************************************************************************)
(* Uploaded SQLite files and the erasure of an account: the tables         *)
(* dbchat_sqlite_assets and dbchat_account_deletions                       *)
(* (supabase/migrations/202610030004_asset_lifecycle.sql), the private     *)
(* bucket (src/server/supabaseSqliteStorage.ts), the routes that upload,   *)
(* attach and delete, and SupabaseAssetLifecycle.reconcile                 *)
(* (src/server/assetLifecycle.ts), run by every worker's maintenance.      *)
(*                                                                         *)
(* One account: procedures lock by owner, quotas are counted by owner and  *)
(* objects are listed by owner, so accounts meet only in the batches of a  *)
(* pass.  A procedure is one transaction, hence one step.  Clocks appear   *)
(* as the moment at which a term is over; next_attempt_at only spaces the  *)
(* attempts and is left out.  A token is named by the worker that drew it: *)
(* a worker runs one pass at a time.                                       *)
(***************************************************************************)
EXTENDS Naturals, FiniteSets

CONSTANTS
  Assets,      \* uploaded files: a row, and an object of the same key
  Conns,       \* saved connections
  Workers,
  UploadedBy,  \* the worker that handles each upload
  Old,         \* files from before the registry: shared by connections, or orphans
  FileLimit,   \* files an account may keep (retained_sqlite_bytes, all of one size)
  Mortal,      \* bound of this model: the workers that may crash
  MaxFaults    \* bound of this model: crashes, calls that fail, leases lost by their holder

ASSUME AssetAssumption ==
  /\ UploadedBy \in [Assets -> Workers]
  /\ Old \subseteq Assets /\ Mortal \subseteq Workers
  /\ FileLimit \in Nat /\ MaxFaults \in Nat
  /\ IsFiniteSet(Assets)
  /\ "none" \notin Assets /\ "none" \notin Workers /\ "account" \notin Assets

VARIABLES
  asset,    \* the registry: [state, lapsed, token, leased]
  stored,   \* the objects in the bucket
  landing,  \* uploads whose caller gave up and that storage may still commit
  late,     \* DELETE calls whose caller gave up and that may still execute
  conn,     \* the file each connection refers to
  upload,   \* where the handler of POST /sqlite-files stands
  profile,  \* the Auth user and its profile exist
  work,     \* the account has turns or exports that have not ended
  job,      \* the row of dbchat_account_deletions: [phase, token, leased]
  pass,     \* what each worker's maintenance does next: [at, todo, ok]
  up,       \* the workers that run
  faults    \* counts towards MaxFaults

vars == <<asset, stored, landing, late, conn, upload, profile, work, job, pass, up, faults>>

State == {"none", "uploading", "pending", "attached", "deleting", "deleted"}
Phase == {"none", "waiting", "storage", "auth", "complete"}
Step == {"idle", "claim", "assets", "finish", "jobs", "hooks",
         "storage", "sweep", "auth", "erase", "complete", "retry"}
Row == [state : State, lapsed : BOOLEAN, token : Workers \cup {"none"}, leased : BOOLEAN]

TypeOK ==
  /\ asset \in [Assets -> Row]
  /\ stored \subseteq Assets /\ landing \subseteq Assets
  /\ late \subseteq Assets \cup {"account"}
  /\ conn \in [Conns -> Assets \cup {"none"}]
  /\ upload \in [Assets -> {"idle", "storing", "completing", "done", "failed"}]
  /\ profile \in BOOLEAN /\ work \in BOOLEAN
  /\ job \in [phase : Phase, token : Workers \cup {"none"}, leased : BOOLEAN]
  /\ pass \in [Workers -> [at : Step, todo : SUBSET Assets, file : Assets \cup {"none"}, ok : BOOLEAN]]
  /\ up \subseteq Workers
  /\ faults \in 0..MaxFaults

NoRow == [state |-> "none", lapsed |-> FALSE, token |-> "none", leased |-> FALSE]
NoPass == [at |-> "idle", todo |-> {}, file |-> "none", ok |-> FALSE]

\* A file from before the registry is attached, perhaps by several connections,
\* or an object that nothing refers to.
Init ==
  \E shared \in SUBSET Old :
    /\ Cardinality(shared) <= 1
    /\ asset = [a \in Assets |-> IF a \in shared THEN [NoRow EXCEPT !.state = "attached"] ELSE NoRow]
    /\ conn \in [Conns -> shared \cup {"none"}]
    /\ shared \subseteq {conn[c] : c \in Conns}
    /\ stored = Old
    /\ upload = [a \in Assets |-> IF a \in Old THEN "failed" ELSE "idle"]
    /\ landing = {} /\ late = {}
    /\ profile = TRUE /\ work = FALSE
    /\ job = [phase |-> "none", token |-> "none", leased |-> FALSE]
    /\ pass = [w \in Workers |-> NoPass]
    /\ up = Workers /\ faults = 0

Active == job.phase = "none"          \* dbchat_assert_account_active
Used(a) == \E c \in Conns : conn[c] = a
Fault == faults < MaxFaults /\ faults' = faults + 1

-----------------------------------------------------------------------------
(* The registry.                                                           *)

Kept == {a \in Assets : asset[a].state \notin {"none", "deleted"}}
LiveUpload(a) == asset[a].state = "uploading" /\ ~asset[a].lapsed

\* Mutant of Guarded: the file a connection lets go is removed though another uses it.
GuardedAlone(next) ==
  LET Changed == {c \in Conns : next[c] # conn[c]}
  IN [a \in Assets |->
        IF \E c \in Changed : next[c] = a
        THEN [asset[a] EXCEPT !.state = "attached", !.lapsed = FALSE]
        ELSE IF \E c \in Changed : conn[c] = a
        THEN [asset[a] EXCEPT !.state = "deleting"]
        ELSE asset[a]]

\* dbchat_connection_asset_guard: what a change of the files that connections
\* refer to, from conn to next, does to the rows.
Guarded(next) ==
  LET UsedBy(f, a) == \E c \in Conns : f[c] = a
      Taken == {next[c] : c \in {d \in Conns : next[d] # conn[d]}}
  IN [a \in Assets |->
        IF a \in Taken THEN [asset[a] EXCEPT !.state = "attached", !.lapsed = FALSE]
        ELSE IF UsedBy(conn, a) /\ ~UsedBy(next, a) /\ asset[a].state # "deleted"
        THEN [asset[a] EXCEPT !.state = "deleting"]
        ELSE asset[a]]

\* A file is attached once: a pending upload that is in time.
MayAttach(c, a) ==
  /\ Active /\ conn[c] # a
  /\ asset[a].state = "pending" /\ ~asset[a].lapsed
  /\ ~Used(a)

\* dbchat_claim_asset_cleanup
Removable(a) ==
  LET r == asset[a]
  IN /\ ~r.leased
     /\ \/ r.state \in {"uploading", "pending"} /\ r.lapsed
        \/ r.state = "deleting"
        \/ r.state = "deleted" /\ a \in stored
Claimable == {a \in Assets : Removable(a) /\ ~Used(a)}

ClaimedBy(w) ==
  [a \in Assets |->
     IF a \in Claimable
     THEN [asset[a] EXCEPT !.state = "deleting", !.token = w, !.leased = TRUE]
     ELSE IF Removable(a) /\ Used(a)
     THEN [asset[a] EXCEPT !.state = "attached", !.lapsed = FALSE, !.token = "none", !.leased = FALSE]
     ELSE asset[a]]

\* dbchat_finish_asset_cleanup
Finished(w, a, succeeded) ==
  IF asset[a].token # w \/ ~asset[a].leased \/ asset[a].state # "deleting" THEN asset
  ELSE [asset EXCEPT ![a].state = IF succeeded THEN "deleted" ELSE "deleting",
                     ![a].token = "none", ![a].leased = FALSE]

-----------------------------------------------------------------------------
(* The account's erasure.                                                  *)

\* dbchat_advance_account_deletion accepts next.
Advances(w, next) ==
  /\ job.token = w /\ job.leased
  /\ \A a \in Assets : ~LiveUpload(a)
  /\ next = "storage" => job.phase \in {"waiting", "storage"}
  /\ next = "auth" => job.phase \in {"storage", "auth"}
  /\ next = "complete" => job.phase = "auth" /\ ~profile /\ stored = {}

\* What an accepted call changes.
Advance(w, next) ==
  /\ job' = [phase |-> next, token |-> IF next = "complete" THEN "none" ELSE w,
             leased |-> next # "complete"]
  /\ asset' = IF next = "complete"
              THEN [a \in Assets |-> IF asset[a].state = "none" THEN asset[a]
                                     ELSE [asset[a] EXCEPT !.state = "deleted", !.token = "none", !.leased = FALSE]]
              ELSE asset

\* deleteSupabaseAuthUser, once Auth commits: the profile goes, and by cascade its connections.
Erased ==
  /\ profile' = FALSE
  /\ conn' = [c \in Conns |-> "none"]
  /\ asset' = Guarded(conn')

-----------------------------------------------------------------------------
(* POST /sqlite-files: register, store, complete.                          *)

Uploading(w) == {a \in Assets : UploadedBy[a] = w /\ upload[a] \in {"storing", "completing"}}
FileUnchanged == UNCHANGED <<landing, late, conn, profile, work, job, pass, up>>

MayBegin(a) ==
  /\ Active /\ profile
  /\ Cardinality(Kept) < FileLimit

\* The reply to dbchat_begin_sqlite_upload may be lost: the row stays, unused.
BeginUpload(a) ==
  /\ upload[a] = "idle" /\ UploadedBy[a] \in up
  /\ Uploading(UploadedBy[a]) = {}
  /\ MayBegin(a)
  /\ asset' = [asset EXCEPT ![a].state = "uploading"]
  /\ \/ upload' = [upload EXCEPT ![a] = "storing"] /\ UNCHANGED faults
     \/ upload' = [upload EXCEPT ![a] = "failed"] /\ Fault
  /\ UNCHANGED stored /\ FileUnchanged

Store(a) ==
  /\ upload[a] = "storing" /\ UploadedBy[a] \in up
  /\ stored' = stored \cup {a}
  /\ upload' = [upload EXCEPT ![a] = "completing"]
  /\ UNCHANGED <<asset, faults>> /\ FileUnchanged

\* The request fails, and storage may commit it all the same.
StoreFails(a) ==
  /\ upload[a] = "storing" /\ Fault
  /\ upload' = [upload EXCEPT ![a] = "failed"]
  /\ landing' \in {landing, landing \cup {a}}
  /\ UNCHANGED <<asset, stored, late, conn, profile, work, job, pass, up>>

Land(a) ==
  /\ a \in landing
  /\ landing' = landing \ {a}
  /\ stored' \in {stored, stored \cup {a}}
  /\ UNCHANGED <<asset, late, conn, upload, profile, work, job, pass, up, faults>>

\* dbchat_complete_sqlite_upload; its reply may be lost.
CompleteUpload(a) ==
  /\ upload[a] = "completing" /\ UploadedBy[a] \in up
  /\ IF Active /\ LiveUpload(a)
     THEN /\ asset' = [asset EXCEPT ![a].state = "pending"]
          /\ \/ upload' = [upload EXCEPT ![a] = "done"] /\ UNCHANGED faults
             \/ upload' = [upload EXCEPT ![a] = "failed"] /\ Fault
     ELSE /\ upload' = [upload EXCEPT ![a] = "failed"]
          /\ UNCHANGED <<asset, faults>>
  /\ UNCHANGED stored /\ FileUnchanged

\* The two minutes of an upload, and the hour of a file nobody attaches.
UploadLapses(a) ==
  /\ asset[a].state \in {"uploading", "pending"} /\ ~asset[a].lapsed
  /\ asset' = [asset EXCEPT ![a].lapsed = TRUE]
  /\ UNCHANGED <<stored, upload, faults>> /\ FileUnchanged

-----------------------------------------------------------------------------
(* The routes under /connections, and the account's own work.              *)

\* POST and PATCH with sqliteUploadId: the client has the id from an answered upload.
Attach(c, a) ==
  /\ profile /\ upload[a] = "done" /\ MayAttach(c, a)
  /\ conn' = [conn EXCEPT ![c] = a]
  /\ asset' = Guarded(conn')
  /\ UNCHANGED <<stored, landing, late, upload, profile, work, job, pass, up, faults>>

\* DELETE, and PATCH to another kind of database; only a deletion passes the gate.
Detach(c) ==
  /\ conn[c] # "none"
  /\ conn' = [conn EXCEPT ![c] = "none"]
  /\ asset' = Guarded(conn')
  /\ UNCHANGED <<stored, landing, late, upload, profile, work, job, pass, up, faults>>

\* Turns and exports: TurnStore and DurableExports show that the gate stops new ones.
WorkStarts ==
  /\ Active /\ profile /\ ~work
  /\ work' = TRUE
  /\ UNCHANGED <<asset, stored, landing, late, conn, upload, profile, job, pass, up, faults>>

WorkEnds ==
  /\ work /\ work' = FALSE
  /\ UNCHANGED <<asset, stored, landing, late, conn, upload, profile, job, pass, up, faults>>

\* DELETE /account: the durable gate; the worker's maintenance does the rest.
DeleteAccount ==
  /\ profile /\ Active
  /\ job' = [job EXCEPT !.phase = "waiting"]
  /\ UNCHANGED <<asset, stored, landing, late, conn, upload, profile, work, pass, up, faults>>

-----------------------------------------------------------------------------
(* A maintenance pass of worker w: maintainUploadsAndUsage and reconcile.  *)

At(w, s) == w \in up /\ pass[w].at = s
Go(w, s) == pass' = [pass EXCEPT ![w].at = s]
End(w) == pass' = [pass EXCEPT ![w] = NoPass]
PassUnchanged == UNCHANGED <<landing, upload, up>>

\* startMaintenance, and dbchat_discover_sqlite_orphans.
Discover(w) ==
  /\ At(w, "idle") /\ Go(w, "claim")
  /\ asset' = [a \in Assets |->
                 IF asset[a].state = "none" /\ a \in stored /\ ~Used(a)
                 THEN [asset[a] EXCEPT !.state = "deleting"] ELSE asset[a]]
  /\ UNCHANGED <<stored, late, conn, profile, work, job, faults>> /\ PassUnchanged

\* The owner's lock is only tried: when it is taken, nothing is claimed.  When the
\* reply is lost, the rows stay leased and the pass is over.
Claim(w) ==
  /\ At(w, "claim")
  /\ \/ /\ asset' = ClaimedBy(w)
        /\ pass' = [pass EXCEPT ![w].at = "assets", ![w].todo = Claimable]
        /\ UNCHANGED faults
     \/ Fault /\ Go(w, "assets") /\ UNCHANGED asset
     \/ Fault /\ End(w) /\ asset' = ClaimedBy(w)
  /\ UNCHANGED <<stored, late, conn, profile, work, job>> /\ PassUnchanged

\* storage.remove.  A call that fails may have removed the object, or do it later.
Remove(w) ==
  /\ At(w, "assets") /\ pass[w].todo # {}
  /\ \E a \in pass[w].todo :
       /\ \/ /\ stored' = stored \ {a}
             /\ pass' = [pass EXCEPT ![w].at = "finish", ![w].file = a, ![w].ok = TRUE]
             /\ UNCHANGED <<late, faults>>
          \/ /\ Fault
             /\ pass' = [pass EXCEPT ![w].at = "finish", ![w].file = a, ![w].ok = FALSE]
             /\ \/ stored' \in {stored, stored \ {a}} /\ UNCHANGED late
                \/ late' = late \cup {a} /\ UNCHANGED stored
  /\ UNCHANGED <<asset, conn, profile, work, job>> /\ PassUnchanged

\* dbchat_finish_asset_cleanup; an error ends the whole pass.
Finish(w) ==
  /\ At(w, "finish")
  /\ LET a == pass[w].file
     IN \/ /\ asset' = Finished(w, a, pass[w].ok)
           /\ pass' = [pass EXCEPT ![w].at = "assets", ![w].todo = @ \ {a},
                                   ![w].file = "none", ![w].ok = FALSE]
           /\ UNCHANGED faults
        \/ Fault /\ End(w) /\ asset' \in {asset, Finished(w, a, pass[w].ok)}
  /\ UNCHANGED <<stored, late, conn, profile, work, job>> /\ PassUnchanged

\* Mutant of DeletionClaimable: a claim is given back, never taken over.
DeletionUnclaimed == job.phase \notin {"none", "complete"} /\ job.token = "none"

DeletionClaimable == job.phase \notin {"none", "complete"} /\ ~job.leased

\* dbchat_claim_account_deletions
ClaimDeletion(w) ==
  /\ At(w, "assets") /\ pass[w].todo = {}
  /\ IF DeletionClaimable
     THEN /\ job' = [job EXCEPT !.token = w, !.leased = TRUE]
          \* job.phase as it was claimed decides whether the storage phase is announced.
          /\ pass' = [pass EXCEPT ![w].at = "hooks", ![w].ok = job.phase = "auth"]
     ELSE End(w) /\ UNCHANGED job
  /\ UNCHANGED <<asset, stored, late, conn, profile, work, faults>> /\ PassUnchanged

\* Mutant of Hooks: the account's work is not waited for.
HooksEager(w) ==
  /\ At(w, "hooks")
  /\ \/ Go(w, IF pass[w].ok THEN "sweep" ELSE "storage") /\ UNCHANGED faults
     \/ Fault /\ Go(w, "retry")
  /\ UNCHANGED <<asset, stored, late, conn, profile, work, job>> /\ PassUnchanged

\* onAccountDeleting and cancelExports.
Hooks(w) ==
  /\ At(w, "hooks")
  /\ \/ /\ ~work /\ Uploading(w) = {}
        /\ Go(w, IF pass[w].ok THEN "sweep" ELSE "storage")
        /\ UNCHANGED faults
     \/ (work \/ Uploading(w) # {}) /\ Go(w, "retry") /\ UNCHANGED faults
     \/ Fault /\ Go(w, "retry")
  /\ UNCHANGED <<asset, stored, late, conn, profile, work, job>> /\ PassUnchanged

\* advance(next), then the step after it; an error leads to a retry whether or
\* not the call took effect.
Announce(w, next, after) ==
  /\ At(w, next)
  /\ \/ /\ Advances(w, next) /\ Advance(w, next)
        /\ \/ (IF after = "idle" THEN End(w) ELSE Go(w, after)) /\ UNCHANGED faults
           \/ Fault /\ Go(w, "retry")
     \/ ~Advances(w, next) /\ Go(w, "retry") /\ UNCHANGED <<job, asset, faults>>
     \/ Fault /\ Go(w, "retry") /\ UNCHANGED <<job, asset>>
  /\ UNCHANGED <<stored, late, conn, profile, work>> /\ PassUnchanged

AnnounceStorage(w) == Announce(w, "storage", "sweep")
AnnounceAuth(w) == Announce(w, "auth", "erase")
AnnounceComplete(w) == Announce(w, "complete", "idle")

\* storage.removeOwner: the first page again and again, until the list is empty.
Sweep(w) ==
  /\ At(w, "sweep")
  /\ \/ stored # {} /\ stored' = {} /\ UNCHANGED <<pass, faults>>
     \/ stored = {} /\ Go(w, "auth") /\ UNCHANGED <<stored, faults>>
     \/ Fault /\ Go(w, "retry") /\ UNCHANGED stored
  /\ UNCHANGED <<asset, late, conn, profile, work, job>> /\ PassUnchanged

\* An error may hide a deletion; a later attempt finds the user absent.
Erase(w) ==
  /\ At(w, "erase")
  /\ \/ Erased /\ Go(w, "complete") /\ UNCHANGED <<late, faults>>
     \/ Fault /\ Go(w, "retry") /\ Erased /\ UNCHANGED late
     \/ Fault /\ Go(w, "retry") /\ late' \in {late, late \cup {"account"}}
        /\ UNCHANGED <<profile, conn, asset>>
  /\ UNCHANGED <<stored, work, job>> /\ PassUnchanged

Retry(w) ==
  /\ At(w, "retry") /\ End(w)
  /\ \/ /\ job' = IF job.token = w /\ job.leased
                  THEN [job EXCEPT !.token = "none", !.leased = FALSE] ELSE job
        /\ UNCHANGED faults
     \/ Fault /\ UNCHANGED job
  /\ UNCHANGED <<asset, stored, late, conn, profile, work>> /\ PassUnchanged

\* A DELETE executes after its caller gave up.
LateDelete ==
  /\ UNCHANGED <<landing, upload, work, job, pass, up, faults>>
  /\ \/ \E a \in late \ {"account"} :
          /\ late' = late \ {a} /\ stored' = stored \ {a}
          /\ UNCHANGED <<asset, conn, profile>>
     \/ /\ "account" \in late /\ late' = late \ {"account"}
        /\ Erased /\ UNCHANGED stored

\* The two minutes of a claim.
CleanupLapses(a) ==
  /\ asset[a].leased
  /\ asset' = [asset EXCEPT ![a].leased = FALSE]
  /\ IF asset[a].token \in up /\ a \in pass[asset[a].token].todo THEN Fault ELSE UNCHANGED faults
  /\ UNCHANGED <<stored, upload>> /\ FileUnchanged

DeletionLapses ==
  /\ job.leased
  /\ job' = [job EXCEPT !.leased = FALSE]
  /\ IF job.token \in up /\ pass[job.token].at \notin {"idle", "claim", "assets", "finish"}
     THEN Fault ELSE UNCHANGED faults
  /\ UNCHANGED <<asset, stored, landing, late, conn, upload, profile, work, pass, up>>

\* A worker stops: its pass ends, and the uploads it was handling.
Crash(w) ==
  /\ w \in up \cap Mortal /\ Fault
  /\ up' = up \ {w}
  /\ End(w)
  /\ upload' = [a \in Assets |-> IF a \in Uploading(w) THEN "failed" ELSE upload[a]]
  /\ landing' \in {landing, landing \cup {a \in Uploading(w) : upload[a] = "storing"}}
  /\ UNCHANGED <<asset, stored, late, conn, profile, work, job>>

-----------------------------------------------------------------------------
UploadStep(a) == BeginUpload(a) \/ Store(a) \/ StoreFails(a) \/ Land(a) \/ CompleteUpload(a) \/ UploadLapses(a)
PassStep(w) ==
  \/ Discover(w) \/ Claim(w) \/ Remove(w) \/ Finish(w) \/ ClaimDeletion(w) \/ Hooks(w)
  \/ AnnounceStorage(w) \/ Sweep(w) \/ AnnounceAuth(w) \/ Erase(w) \/ AnnounceComplete(w) \/ Retry(w)

Next ==
  \/ \E a \in Assets : UploadStep(a) \/ CleanupLapses(a)
  \/ \E c \in Conns : Detach(c) \/ \E a \in Assets : Attach(c, a)
  \/ WorkStarts \/ WorkEnds \/ DeleteAccount \/ LateDelete \/ DeletionLapses
  \/ \E w \in Workers : PassStep(w) \/ Crash(w)

Spec == Init /\ [][Next]_vars

\* The maintenance timer of a worker runs as long as the worker; a request ends
\* by its own timeout, a term by the clock; what the gate stops comes to an end.
FairSpec ==
  /\ Spec
  /\ \A w \in Workers : WF_vars(PassStep(w))
  /\ \A a \in Assets :
       /\ WF_vars(Store(a)) /\ WF_vars(CompleteUpload(a)) /\ WF_vars(Land(a))
       /\ WF_vars(UploadLapses(a)) /\ WF_vars(CleanupLapses(a))
  /\ WF_vars(DeletionLapses) /\ WF_vars(LateDelete)
  /\ WF_vars(WorkEnds /\ ~Active)

-----------------------------------------------------------------------------
(* Properties.                                                             *)

\* Until the account's own files are swept, the file of a saved connection is
\* registered as attached and its object is there: no cleanup pass, late DELETE
\* or other connection's release removes a file in use.
\* (claim_asset_cleanup, connection_asset_guard, storage.remove)
AttachedFilesStay ==
  job.phase \in {"none", "waiting"} =>
    \A c \in Conns : conn[c] # "none" => asset[conn[c]].state = "attached" /\ conn[c] \in stored

\* The Auth user is deleted only when nothing of the account runs any more and
\* none of its uploads can complete.  (reconcile and its hooks)
ErasedAfterWork ==
  ~profile => ~work /\ ~Active /\ \A a \in Assets : ~LiveUpload(a)

\* An account whose deletion is committed ends with no user, no object and no
\* connection, for good, whatever fails on the way and however late uploads land.
AccountsAreErased ==
  job.phase # "none" ~> [](job.phase = "complete" /\ ~profile /\ stored = {})

\* A stored file that nothing refers to is removed or attached in the end: the
\* remains of failed, abandoned and late uploads, released files, orphans.
UnusedFilesVanish ==
  \A a \in Assets : (a \in stored /\ ~Used(a)) ~> (a \notin stored \/ Used(a))

\* Files that are attached are there, and the types hold.
FilesAreSafe == TypeOK /\ AttachedFilesStay

\* Cleanup comes to its end: of accounts and of single files.
CleanupEnds == AccountsAreErased /\ UnusedFilesVanish
=============================================================================
