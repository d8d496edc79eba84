------------------------------ MODULE MCViewing ------------------------------
(***************************************************************************)
(* What a browser tab follows: the event stream of a turn (Viewing), or a  *)
(* download in an answer (Downloads).  The two share nothing, so a         *)
(* behaviour is one of one of them, chosen first; the other rests.         *)
(***************************************************************************)
EXTENDS Viewing

CONSTANTS w1, w2, s1, s2, r1, r2

VARIABLES
  part,
  job, block, poll, call, clicks, lapses, visits    \* Downloads

downloadVars == <<job, block, poll, call, clicks, lapses, visits>>

\* Two clicks at a time, one lost answer, one visit elsewhere.
Download == INSTANCE Downloads WITH
  Calls <- {r1, r2}, MaxClicks <- 2, MaxLapses <- 1, MaxVisits <- 1

-----------------------------------------------------------------------------

\* A turn that is over and a tab that has seen it; a block of a chat that is
\* closed: nothing that is fair can happen of them.
Over ==
  /\ kept = FALSE
  /\ turn = [events |-> 0, saved |-> 0, status |-> "complete", told |-> TRUE,
             runs |-> FALSE, exists |-> TRUE]
  /\ worker = [w \in Workers |-> "up"]
  /\ stream = [s \in Streams |-> Vacant]
  /\ owned = [w \in Workers |-> 0]
  /\ tab = [at |-> "done", on |-> None, last |-> 0, cursor |-> 0, shown |-> <<>>,
            tries |-> 0, returned |-> FALSE]
  /\ upsets = 0

Elsewhere ==
  /\ job = [status |-> "cancelled", runs |-> "no", there |-> FALSE]
  /\ block = [Download!Fresh EXCEPT !.mounted = FALSE] /\ poll = Download!Off
  /\ call = [c \in {r1, r2} |-> Download!Free] /\ clicks = 0 /\ lapses = 0 /\ visits = 0

PartsInit ==
  /\ part \in {"viewing", "download"}
  /\ IF part = "viewing" THEN Init ELSE Over
  /\ IF part = "download" THEN Download!Init ELSE Elsewhere

PartsNext ==
  /\ \/ part = "viewing" /\ Next /\ UNCHANGED downloadVars
     \/ part = "download" /\ Download!Next /\ UNCHANGED vars
  /\ UNCHANGED part

PartsSpec ==
  /\ PartsInit /\ [][PartsNext]_<<part, vars, downloadVars>>
  /\ Fairness /\ Download!Fairness

-----------------------------------------------------------------------------
(* The properties of the parts; those of the streams are Viewing's.        *)

\* A tab that follows a saved turn comes to its end (Viewing.ViewerSettles), and
\* a download in an answer comes to show what became of its job
\* (Downloads.DownloadSettles).
ViewersSettle == ViewerSettles /\ Download!DownloadSettles
==============================================================================
