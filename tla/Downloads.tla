------------------------------ MODULE Downloads ------------------------------
(***************************************************************************)
(* A download in an answer (DownloadBlock, src/web/contentBlocks.tsx) and  *)
(* the export job it is about, over the routes of /exports/:id in          *)
(* src/server/server.ts and the jobs of exports/exportJobs.ts: the block   *)
(* polls, and its user cancels and removes, while answers overtake each    *)
(* other or get lost.                                                      *)
(***************************************************************************)
EXTENDS Naturals

CONSTANTS
  Calls,       \* clicks under way at the same time
  MaxClicks, MaxLapses, MaxVisits,  \* bounds of this model
  None

VARIABLES
  job,      \* status, execution, and whether get still finds it
  block,    \* status and dismissed; mounted; what the last setStatus went by
  poll,     \* "asked", "answered", "timer", "off"
  call,     \* POST cancel and DELETE
  clicks, lapses, visits

vars == <<job, block, poll, call, clicks, lapses, visits>>

Pending == {"queued", "running"}
Fresh == [status |-> "queued", by |-> "start", dismissed |-> FALSE, mounted |-> TRUE]
Asked == [step |-> "asked", answer |-> None]
Off == [step |-> "off", answer |-> None]
Free == [step |-> "free", kind |-> None, answer |-> None, mine |-> FALSE]

Init ==
  /\ job = [status |-> "queued", runs |-> "no", there |-> TRUE]
  /\ block = Fresh /\ poll = Asked
  /\ call = [c \in Calls |-> Free] /\ clicks = 0 /\ lapses = 0 /\ visits = 0

Answer == IF job.there THEN job.status ELSE None

-----------------------------------------------------------------------------
(* The job.                                                                *)

JobStarts ==
  /\ job.status = "queued" /\ job' = [job EXCEPT !.status = "running", !.runs = "runs"]
  /\ UNCHANGED <<block, poll, call, clicks, lapses, visits>>

\* The last look at the signal, before stat.
JobPasses ==
  /\ job.status = "running" /\ job.runs = "runs" /\ job' = [job EXCEPT !.runs = "past"]
  /\ UNCHANGED <<block, poll, call, clicks, lapses, visits>>

JobReady ==
  /\ job.runs = "past" /\ job' = [job EXCEPT !.status = "ready", !.runs = "no"]
  /\ UNCHANGED <<block, poll, call, clicks, lapses, visits>>

JobFails ==
  /\ job.runs # "no"
  /\ job' = [job EXCEPT !.runs = "no", !.status = IF @ = "cancelled" THEN @ ELSE "error"]
  /\ UNCHANGED <<block, poll, call, clicks, lapses, visits>>

\* The job expires, or its chat is deleted.
Expire ==
  /\ job.there /\ job' = [job EXCEPT !.there = FALSE]
  /\ UNCHANGED <<block, poll, call, clicks, lapses, visits>>

-----------------------------------------------------------------------------
(* The status.                                                             *)

\* setStatus; an answer that was out of date when it arrived is marked.
Show(status, by) == block' = [block EXCEPT !.status = status, !.by = by]
By(answer) == IF answer = job.status \/ ~job.there THEN "answer" ELSE "overtaken"

AnswerPoll ==
  /\ poll.step = "asked" /\ poll' = [step |-> "answered", answer |-> Answer]
  /\ UNCHANGED <<job, block, call, clicks, lapses, visits>>

\* Mutant of Again: a job that waits for its turn is not asked after again.
AgainOnceRunning(answer) == answer = "running"

Again(answer) == answer \in Pending

Receive ==
  /\ poll.step = "answered"
  /\ IF poll.answer = None THEN Show("error", "gone") /\ poll' = Off
     ELSE /\ Show(poll.answer, By(poll.answer))
          /\ poll' = IF Again(poll.answer) THEN [step |-> "timer", answer |-> None] ELSE Off
  /\ UNCHANGED <<job, call, clicks, lapses, visits>>

\* After it nothing asks again.
PollLost ==
  /\ poll.step \in {"asked", "answered"} /\ lapses < MaxLapses /\ lapses' = lapses + 1
  /\ Show("error", "failure") /\ poll' = Off
  /\ UNCHANGED <<job, call, clicks, visits>>

Timer ==
  /\ poll.step = "timer" /\ poll' = Asked
  /\ UNCHANGED <<job, block, call, clicks, lapses, visits>>

-----------------------------------------------------------------------------
(* The buttons.                                                            *)

Click(c, kind) ==
  /\ call[c] = Free /\ clicks < MaxClicks /\ clicks' = clicks + 1
  /\ block.mounted /\ ~block.dismissed
  /\ kind = IF block.status \in Pending THEN "cancel" ELSE "remove"
  /\ call' = [call EXCEPT ![c] = [step |-> "sent", kind |-> kind, answer |-> None, mine |-> TRUE]]
  /\ UNCHANGED <<job, block, poll, lapses, visits>>

To(c, step, answer) == call' = [call EXCEPT ![c].step = step, ![c].answer = answer]

\* The route finds the job, and asks for its chat.
Find(c) ==
  /\ call[c].step = "sent"
  /\ IF job.there THEN To(c, "found", None) ELSE To(c, "refused", None)
  /\ UNCHANGED <<job, block, poll, clicks, lapses, visits>>

\* A click made in a block that is gone stops the job behind the back of one that
\* asks no more.
Behind(c) == ~call[c].mine /\ poll.step = "off"

\* cancel, of a job in whatever status; of one that is over meanwhile, nothing.
Cancel(c) ==
  /\ call[c].step = "found"
  /\ IF job.there
     THEN /\ job' = [job EXCEPT !.status = "cancelled"] /\ To(c, "stopped", None)
          /\ block' = IF Behind(c) THEN [block EXCEPT !.by = "overtaken"] ELSE block
     ELSE UNCHANGED <<job, block>> /\ To(c, "answered", "cancelled")
  /\ UNCHANGED <<poll, clicks, lapses, visits>>

\* After job.done.
Respond(c) ==
  /\ call[c].step = "stopped" /\ job.runs = "no" /\ To(c, "answered", job.status)
  /\ job' = IF call[c].kind = "remove" THEN [job EXCEPT !.there = FALSE] ELSE job
  /\ UNCHANGED <<block, poll, clicks, lapses, visits>>

\* What comes back to a block that is not there any more is nothing to it.
Return(c) ==
  /\ call[c].step \in {"answered", "refused"} /\ call' = [call EXCEPT ![c] = Free]
  /\ CASE ~call[c].mine -> UNCHANGED block
       [] call[c].step = "refused" ->
            IF call[c].kind = "cancel" THEN Show("error", "gone") ELSE UNCHANGED block
       [] call[c].kind = "cancel" -> Show(call[c].answer, By(call[c].answer))
       [] OTHER -> block' = [block EXCEPT !.dismissed = TRUE]
  /\ UNCHANGED <<job, poll, clicks, lapses, visits>>

\* The request, or its answer, gets lost.
CallLost(c) ==
  /\ call[c].step \in {"sent", "answered"} /\ call[c].mine
  /\ lapses < MaxLapses /\ lapses' = lapses + 1
  /\ call' = [call EXCEPT ![c] = Free]
  /\ IF call[c].kind = "cancel" THEN Show("error", "failure") ELSE UNCHANGED block
  /\ UNCHANGED <<job, poll, clicks, visits>>

-----------------------------------------------------------------------------
(* The chat is left, and opened again.                                     *)

Leave ==
  /\ block.mounted /\ visits < MaxVisits /\ visits' = visits + 1
  /\ block' = [Fresh EXCEPT !.mounted = FALSE] /\ poll' = Off
  /\ call' = [c \in Calls |-> [call[c] EXCEPT !.mine = FALSE]]
  /\ UNCHANGED <<job, clicks, lapses>>

Open ==
  /\ ~block.mounted /\ block' = Fresh /\ poll' = Asked
  /\ UNCHANGED <<job, call, clicks, lapses, visits>>

Next ==
  \/ JobStarts \/ JobPasses \/ JobReady \/ JobFails \/ Expire
  \/ AnswerPoll \/ Receive \/ PollLost \/ Timer
  \/ \E c \in Calls :
       \/ \E kind \in {"cancel", "remove"} : Click(c, kind)
       \/ Find(c) \/ Cancel(c) \/ Respond(c) \/ Return(c) \/ CallLost(c)
  \/ Leave \/ Open

\* Jobs have a time limit, the server answers, the browser's timers go off.
Fairness ==
  /\ WF_vars(JobStarts \/ JobPasses \/ JobReady \/ JobFails)
  /\ WF_vars(AnswerPoll) /\ WF_vars(Receive) /\ WF_vars(Timer)
  /\ \A c \in Calls : WF_vars(Find(c)) /\ WF_vars(Cancel(c)) /\ WF_vars(Respond(c)) /\ WF_vars(Return(c))

Spec == Init /\ [][Next]_vars /\ Fairness

-----------------------------------------------------------------------------
(* Properties.                                                             *)

Settled ==
  block.mounted =>
    /\ block.status \notin Pending
    /\ block.by = "answer" /\ job.there =>
         block.status = job.status \/ <<block.status, job.status>> = <<"cancelled", "ready">>

\* A download does not show "Preparing" for ever, and in the end shows what became
\* of the job, unless the last thing it heard was a failure or an answer that another
\* one had overtaken, or a job already cancelled became ready after all.
DownloadSettles == <>[]Settled
==============================================================================
