---------------------------- MODULE LocalUploads ----------------------------
(***************************************************************************)
(* SQLite files on a server that keeps them in a directory of its own      *)
(* (sqliteUploadDir, src/server/server.ts): uploads, the connections they  *)
(* are attached to, and the maintenance that removes what nobody used.     *)
(* One account; a crash, which forgets the uploads and leaves their files, *)
(* is not modelled.                                                        *)
(***************************************************************************)
EXTENDS Naturals, FiniteSets

CONSTANTS
  MaxUploads,   \* bound of this model on the uploads,
  Aging,        \* and those that get old in it
  Connections, Requests,
  None, Gone

VARIABLES
  made,      \* how many uploads there were; ids are random and told apart by their order
  files,     \* what is in the directory
  upload,    \* the map sqliteUploads: claimed, and age: 1 is an hour to the millisecond
  path,      \* databasePath of each connection: None before and Gone after it
  request,   \* POST, PATCH and DELETE of connections, by step
  sweep,     \* the upload the maintenance is at, by step
  loose,     \* history: files that no upload and no connection leads to any more
  voided     \* history: files whose connection was left while their upload, after a
             \* save that attached it and threw, can still be chosen

Uploads == 1 .. MaxUploads

vars == <<made, files, upload, path, request, sweep, loose, voided>>

Idle == [step |-> "idle", connection |-> None, upload |-> None, previous |-> None]
Rest == [step |-> "idle", upload |-> None, referenced |-> FALSE]

Init ==
  /\ made = 0 /\ files = {} /\ upload = [u \in Uploads |-> None]
  /\ path = [c \in Connections |-> None]
  /\ request = [r \in Requests |-> Idle] /\ sweep = Rest /\ loose = {} /\ voided = {}

Referenced(u) == \E c \in Connections : path[c] = u
Goes(r, step) == request' = [request EXCEPT ![r].step = step]
Ends(r) == request' = [request EXCEPT ![r] = Idle]
Free(u) == [upload EXCEPT ![u] = IF @ = None THEN None ELSE [@ EXCEPT !.claimed = FALSE]]
Claimed(u) == [upload EXCEPT ![u].claimed = TRUE]

-----------------------------------------------------------------------------
(* POST /sqlite-files.                                                     *)

\* A write that fails leaves what it wrote.
Store(u) ==
  /\ u = made + 1 /\ made' = u
  /\ files' = files \cup {u}
  /\ \/ upload' = [upload EXCEPT ![u] = [claimed |-> FALSE, age |-> 0]] /\ UNCHANGED loose
     \/ loose' = loose \cup {u} /\ UNCHANGED upload
  /\ UNCHANGED <<path, request, sweep, voided>>

Age(u) ==
  /\ u \in Aging /\ upload[u] # None /\ upload[u].age < 2 /\ upload' = [upload EXCEPT ![u].age = @ + 1]
  /\ UNCHANGED <<made, files, path, request, sweep, loose, voided>>

-----------------------------------------------------------------------------
(* POST and PATCH of a connection with an upload.                          *)

\* The handler has read the connection that is to change, if any;
\* claimSqliteUpload, up to its await.
Claim(r, c, u) ==
  /\ request[r] = Idle /\ path[c] # Gone
  /\ upload[u] # None /\ ~upload[u].claimed /\ upload[u].age <= 1
  /\ upload' = Claimed(u)
  /\ request' = [request EXCEPT ![r] =
       [step |-> "check", connection |-> c, upload |-> u, previous |-> path[c]]]
  /\ UNCHANGED <<made, files, path, sweep, loose, voided>>

\* An earlier save may have attached it although it was answered with an error.
\* The store is in memory: a read that began later does not end earlier.
Check(r) ==
  LET u == request[r].upload
  IN  /\ request[r].step = "check" /\ ~(sweep.step = "read" /\ sweep.upload = u)
      /\ IF Referenced(u)
         THEN upload' = [upload EXCEPT ![u] = None] /\ Ends(r)
         ELSE Goes(r, "save") /\ UNCHANGED upload
      /\ UNCHANGED <<made, files, path, sweep, loose, voided>>

\* What a connection led to before, unless the handler is about to remove it.
Forgotten(r, c) == {path[c]} \cap (Uploads \ {request[r].previous})

StillChosen(c) == {v \in {path[c]} \cap Uploads : upload[v] # None}

\* A patch of a connection that is gone, and an upload that became too old, are
\* refused; saveUsers may throw after memory changed.
Save(r) ==
  LET c == request[r].connection
      u == request[r].upload
      there == path[c] # Gone /\ (request[r].previous # None => path[c] # None)
  IN  /\ request[r].step = "save"
      /\ \/ upload' = Free(u) /\ Ends(r) /\ UNCHANGED <<path, loose, voided>>
         \/ /\ there /\ (request[r].previous = None => path[c] = None)
            /\ upload[u] # None /\ upload[u].age <= 1
            /\ path' = [path EXCEPT ![c] = u] /\ voided' = voided \cup StillChosen(c)
            /\ \/ Goes(r, "remove") /\ loose' = loose \cup Forgotten(r, c) /\ UNCHANGED upload
               \/ /\ upload' = Free(u) /\ Ends(r)
                  /\ loose' = loose \cup ({path[c]} \cap Uploads)
      /\ UNCHANGED <<made, files, sweep>>

\* removeSqliteConnection of what the connection led to, then finishSqliteUpload.
Remove(r) ==
  LET old == request[r].previous
      u == request[r].upload
  IN  /\ request[r].step = "remove"
      /\ \/ files' = files \ {old} /\ loose' = loose \ {old}
         \/ UNCHANGED files /\ loose' = loose \cup ({old} \cap files)
      /\ upload' = IF u = None THEN upload ELSE [upload EXCEPT ![u] = None]
      /\ Ends(r)
      /\ UNCHANGED <<made, path, sweep, voided>>

-----------------------------------------------------------------------------
(* DELETE of a connection.                                                 *)

OpenDelete(r, c) ==
  /\ request[r] = Idle /\ path[c] \in Uploads
  /\ request' = [request EXCEPT ![r] =
       [step |-> "delete", connection |-> c, upload |-> None, previous |-> path[c]]]
  /\ UNCHANGED <<made, files, upload, path, sweep, loose, voided>>

Delete(r) ==
  LET c == request[r].connection
  IN  /\ request[r].step = "delete"
      /\ IF path[c] = Gone THEN Ends(r) /\ UNCHANGED <<path, loose, voided>>
         ELSE /\ path' = [path EXCEPT ![c] = Gone] /\ voided' = voided \cup StillChosen(c)
              /\ \/ Goes(r, "remove") /\ loose' = loose \cup Forgotten(r, c)
                 \/ Ends(r) /\ loose' = loose \cup {path[c]}
      /\ UNCHANGED <<made, files, upload, sweep>>

-----------------------------------------------------------------------------
(* maintainUploadsAndUsage, one upload after the other.                    *)

Look(u) ==
  /\ sweep = Rest /\ upload[u] # None /\ ~upload[u].claimed /\ upload[u].age >= 1
  /\ sweep' = [step |-> "read", upload |-> u, referenced |-> Referenced(u)]
  /\ UNCHANGED <<made, files, upload, path, request, loose, voided>>

\* Mutant of Unclaimed: the upload is as it was before the connections were read.
UnclaimedBefore(u) == upload[u] # None

Unclaimed(u) == upload[u] # None /\ ~upload[u].claimed

Take ==
  /\ sweep.step = "read"
  /\ IF Unclaimed(sweep.upload)
     THEN sweep' = [sweep EXCEPT !.step = "remove"] /\ upload' = Claimed(sweep.upload)
     ELSE sweep' = Rest /\ UNCHANGED upload
  /\ UNCHANGED <<made, files, path, request, loose, voided>>

Swept ==
  /\ sweep.step = "remove" /\ sweep' = Rest
  /\ \/ /\ files' = IF sweep.referenced THEN files ELSE files \ {sweep.upload}
        /\ upload' = [upload EXCEPT ![sweep.upload] = None]
     \/ UNCHANGED files /\ upload' = Free(sweep.upload)
  /\ UNCHANGED <<made, path, request, loose, voided>>

Next ==
  \/ \E u \in Uploads : Store(u) \/ Age(u) \/ Look(u)
  \/ \E r \in Requests :
       \/ \E c \in Connections : OpenDelete(r, c) \/ \E u \in Uploads : Claim(r, c, u)
       \/ Check(r) \/ Save(r) \/ Remove(r) \/ Delete(r)
  \/ Take \/ Swept

Spec == Init /\ [][Next]_vars

-----------------------------------------------------------------------------
(* Properties.                                                             *)

Leaving == {request[r].previous : r \in {q \in Requests : request[q].step = "remove"}}

\* Whatever requests and the maintenance meet, the file of a connection is in the
\* directory and is no other connection's; an upload that can still be chosen has
\* its file, unless a save of it threw, was in memory, and the connection it had
\* made was deleted; and a file that neither a connection nor an upload leads to is being
\* removed, or lost by a failed write, by an error after a save, or by a handler
\* that had read the connection before another one changed it.
UploadsAreSafe ==
  /\ \A c \in Connections : path[c] \in Uploads =>
       path[c] \in files \cup voided /\ \A d \in Connections \ {c} : path[d] # path[c]
  /\ \A u \in Uploads : upload[u] # None /\ ~upload[u].claimed => u \in files \cup voided
  /\ files \subseteq {u \in Uploads : upload[u] # None \/ Referenced(u)} \cup Leaving \cup loose
==============================================================================
