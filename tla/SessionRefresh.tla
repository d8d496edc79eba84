---------------------------- MODULE SessionRefresh ----------------------------
(***************************************************************************)
(* One signed-in session in Supabase: SupabaseAccountStore.session and     *)
(* refreshSession (src/server/supabaseAccountStore.ts).  The row of        *)
(* dbchat_sessions holds the provider's tokens; the provider takes a       *)
(* refresh token once and gives the next.  The column refresh_lock_until   *)
(* keeps two workers from presenting the same token, the map refreshes     *)
(* two requests of one worker.                                             *)
(*                                                                         *)
(* Every request may fail with or without being carried out.  The ends of  *)
(* the session itself are those of LocalAccounts; here somebody just       *)
(* leaves.                                                                 *)
(***************************************************************************)
EXTENDS Naturals

CONSTANTS
  Workers,
  None,       \* nobody, no reading
  MaxTokens   \* bound of this model on the tokens issued

VARIABLES
  row,      \* there, token, fresh: the access token lasts for another minute; lock
  current,  \* the refresh token that the provider takes
  reading,  \* each worker: the token of a row it found in need of a refresh
  work,     \* each worker: its refresh, in step, with the token it holds
  left,     \* history: the viewer logged out
  upset     \* history: a token that was issued was not saved, or a lock ended
            \* before the work under it, by time or by another worker's failure

vars == <<row, current, reading, work, left, upset>>

Idle == [step |-> "idle", token |-> None]

\* acceptTokens, at the login.
Init ==
  /\ row = [there |-> TRUE, token |-> 1, fresh |-> TRUE, lock |-> None]
  /\ current = 1
  /\ reading = [w \in Workers |-> None]
  /\ work = [w \in Workers |-> Idle]
  /\ left = FALSE /\ upset = FALSE

Goes(w, step, token) == work' = [work EXCEPT ![w] = [step |-> step, token |-> token]]
Ends(w) == work' = [work EXCEPT ![w] = Idle]
Unlocked == [row EXCEPT !.lock = None]
Saved(token) == IF row.there THEN [there |-> TRUE, token |-> token, fresh |-> TRUE, lock |-> None] ELSE row

\* session: a request reads the row; those that find a refresh under way share it.
Read(w) ==
  /\ row.there /\ ~row.fresh
  /\ reading' = [reading EXCEPT ![w] = row.token]
  /\ UNCHANGED <<row, current, work, left, upset>>

Leased(w) == row.token

\* A lock that is answered is refreshed under; without one the worker polls the row.
Lease(w) ==
  /\ reading[w] # None /\ work[w] = Idle
  /\ reading' = [reading EXCEPT ![w] = None]
  /\ IF row.there /\ row.lock = None
     THEN row' = [row EXCEPT !.lock = w] /\ Goes(w, "ask", Leased(w))
     ELSE Goes(w, "wait", None) /\ UNCHANGED row
  /\ UNCHANGED <<current, left, upset>>

LeaseLost(w) ==
  /\ reading[w] # None /\ work[w] = Idle
  /\ reading' = [reading EXCEPT ![w] = None]
  /\ row.there /\ row.lock = None /\ row' = [row EXCEPT !.lock = w]
  /\ UNCHANGED <<current, work, left, upset>>

\* The row is fresh, is gone, or two seconds are over.
StopWaiting(w) ==
  /\ work[w].step = "wait"
  /\ Ends(w)
  /\ UNCHANGED <<row, current, reading, left, upset>>

-----------------------------------------------------------------------------
(* Under the lock.                                                         *)

Ask(w) ==
  /\ work[w].step = "ask" /\ current < MaxTokens
  /\ IF work[w].token = current
     THEN current' = current + 1 /\ Goes(w, "save", current + 1)
     ELSE Goes(w, "refused", None) /\ UNCHANGED current
  /\ UNCHANGED <<row, reading, left, upset>>

AskLost(w) ==
  /\ work[w].step = "ask" /\ current < MaxTokens
  /\ Goes(w, "failed", None)
  /\ \/ UNCHANGED <<current, upset>>
     \/ work[w].token = current /\ current' = current + 1 /\ upset' = TRUE
  /\ UNCHANGED <<row, reading, left>>

Save(w) ==
  /\ work[w].step = "save"
  /\ row' = Saved(work[w].token) /\ Ends(w)
  /\ UNCHANGED <<current, reading, left, upset>>

SaveLost(w) ==
  /\ work[w].step = "save"
  /\ Goes(w, "failed", None)
  /\ \/ row' = Saved(work[w].token) /\ UNCHANGED upset
     \/ UNCHANGED row /\ upset' = TRUE
  /\ UNCHANGED <<current, reading, left>>

\* 400, 401 and 403 end the session; after any other error the lock is given up,
\* whoever holds it by then, or that fails too.
Refused(w) ==
  /\ work[w].step = "refused"
  /\ row' = [row EXCEPT !.there = FALSE] /\ Ends(w)
  /\ UNCHANGED <<current, reading, left, upset>>

GiveUp(w) ==
  /\ work[w].step = "failed"
  /\ row' \in {row, Unlocked} /\ Ends(w)
  /\ upset' = (upset \/ (row' # row /\ row.lock \notin {None, w}))
  /\ UNCHANGED <<current, reading, left>>

-----------------------------------------------------------------------------
(* Time, crashes and the viewer.                                           *)

\* refresh_lock_until has passed; two requests may take 15 s each of its 20 s.
LockExpires ==
  /\ row.lock # None
  /\ row' = Unlocked
  /\ upset' = (upset \/ work[row.lock].step \in {"ask", "save", "refused", "failed"})
  /\ UNCHANGED <<current, reading, work, left>>

Crash(w) ==
  /\ Ends(w) /\ reading' = [reading EXCEPT ![w] = None]
  /\ upset' = (upset \/ work[w].step = "save")
  /\ UNCHANGED <<row, current, left>>

Age ==
  /\ row.fresh /\ row' = [row EXCEPT !.fresh = FALSE]
  /\ UNCHANGED <<current, reading, work, left, upset>>

\* revokeSession.
Leave ==
  /\ row.there /\ row' = [row EXCEPT !.there = FALSE] /\ left' = TRUE
  /\ UNCHANGED <<current, reading, work, upset>>

Next ==
  \/ LockExpires \/ Age \/ Leave
  \/ \E w \in Workers :
       \/ Read(w) \/ Lease(w) \/ LeaseLost(w) \/ StopWaiting(w) \/ Crash(w)
       \/ Ask(w) \/ AskLost(w) \/ Save(w) \/ SaveLost(w) \/ Refused(w) \/ GiveUp(w)

Spec == Init /\ [][Next]_vars

-----------------------------------------------------------------------------
(* Properties.                                                             *)

\* A viewer who does not log out stays signed in, whichever workers find the
\* access token old at the same time, with readings of any age, and whichever
\* of their requests fail: nobody presents a token twice, and the row keeps the
\* token that the provider takes next.  Not so once a token was issued and not
\* saved, or a lock ended under a refresh: it outlasted the lock, or a worker
\* whose save went through without an answer gave up the lock of the next one.
StaysSignedIn ==
  ~upset =>
    /\ row.there \/ left
    /\ (\A w \in Workers : work[w].step # "save") => row.token = current \/ left
==============================================================================
