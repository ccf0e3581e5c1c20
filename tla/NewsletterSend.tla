--------------------------- MODULE NewsletterSend ---------------------------
(***************************************************************************)
(* Sending one newsletter: the send job and its queue of recipients        *)
(* (src/src/db/newsletter-send-jobs.ts), the worker that drains it         *)
(* (runSendTick in src/src/newsletter/send-worker.ts) and the admin who    *)
(* starts, pauses, resumes and cancels it (src/src/routes/admin.ts).       *)
(*                                                                         *)
(* Several workers tick at once: one on each server's timer, and one that  *)
(* the admin's request starts.  A tick is a sequence of SQL statements and *)
(* calls to the email provider, and each of them is a step.  There is no   *)
(* clock: a row has the time since it was claimed, as far as it matters.   *)
(***************************************************************************)
EXTENDS Integers, Sequences, FiniteSets, FiniteSetsExt

CONSTANTS
  Workers,       \* the ticks that may run at once
  Recipients,    \* the queue's rows, named by their ids (numbers)
  OldFailures,   \* the rows an earlier version of the worker gave up on for want of capacity
  MaxAttempts,   \* MAX_ATTEMPTS
  PerTick,       \* how many the throttle lets one tick send
  CapOn,         \* how many may go on the send's first day, second, ... and ever after (0: no cap)
  Grace,         \* a row claimed longer ago than this is taken back (graceMinutes)
  MaxBatch,      \* how long a tick may be busy with the rows it claimed
  MaxCrashes, MaxDefers, MaxAdmin   \* bounds of the model, not of the code

ASSUME WorkersAssumption == Workers # {} /\ IsFiniteSet(Workers)
ASSUME RecipientsAssumption ==
  Recipients \subseteq Nat \ {0} /\ IsFiniteSet(Recipients) /\ OldFailures \subseteq Recipients
\* The cap never falls from one day to the next, and a send that has one has one every day (dailyCapFor,
\* as long as nobody deploys another NEWSLETTER_DAILY_SEND_CAP while the send runs).
ASSUME PacingAssumption ==
  /\ MaxAttempts \in Nat \ {0} /\ PerTick \in Nat
  /\ CapOn \in Seq(Nat) /\ CapOn # <<>>
  /\ \A d, e \in DOMAIN CapOn : d <= e => CapOn[d] <= CapOn[e] /\ (CapOn[d] = 0 => CapOn[e] = 0)
\* A tick is done with its rows before they are taken back.  Nothing in the code sees to it: the
\* comment on reclaimStalledRecipients has it that the grace period is generous enough.
ASSUME BatchAssumption == MaxBatch <= Grace
ASSUME BoundsAssumption == {Grace, MaxBatch, MaxCrashes, MaxDefers, MaxAdmin} \subseteq Nat

VARIABLES
  job,          \* the job's status
  due,          \* its scheduled time has come
  day,          \* which day of the send it is (0: not started)
  (* the queue, column by column *)
  status, attempts,
  age,          \* how long ago the row was claimed, up to Grace + 1
  lastError,    \* what the last error on it was: about the provider (defer) or the recipient (count)
  sentToday,     \* the rows whose sent_at is since midnight
  (* the newsletter's delivery summary, and the admin's request that queued it *)
  summary, request,
  worker,       \* what each tick is at
  (* counters that bound the model, and history for the properties *)
  crashes, defers, changes,
  copies,       \* how often the provider took this recipient's newsletter
  refused,      \* how often it refused it for good
  lost,         \* how often what became of a try was lost here
  skipped       \* how often a tick let go of the row without trying it

jobVars     == <<job, due, day>>
queueVars   == <<status, attempts, age, lastError, sentToday>>
summaryVars == <<summary, request>>
boundVars   == <<crashes, defers, changes>>
historyVars == <<copies, refused, lost, skipped>>
vars == <<jobVars, queueVars, summaryVars, worker, boundVars, historyVars>>

Steps == {"idle", "list", "run", "allow", "claim", "look", "revive", "send",
          "mark", "refused", "deferred", "finish", "summary", "only"}

\* Its batch (the rows not dealt with yet), the row at hand (in batch), what it may claim, the given up
\* it listed, the day its tick began, and how long it has held the batch.
Worker == [step : Steps, batch : SUBSET Recipients, row : Recipients \cup {0}, allowance : Nat,
           givenUp : SUBSET Recipients, today : Nat, held : Nat]
Idle == [step |-> "idle", batch |-> {}, row |-> 0, allowance |-> 0, givenUp |-> {}, today |-> 0, held |-> 0]

TypeOK ==
  /\ job \in {"none", "queued", "running", "paused", "done", "cancelled"}
  /\ due \in BOOLEAN /\ day \in 0..Len(CapOn)
  /\ status \in [Recipients -> {"none", "pending", "sending", "sent", "failed"}]
  /\ attempts \in [Recipients -> Nat]
  /\ age \in [Recipients -> 0..(Grace + 1)]
  /\ lastError \in [Recipients -> {"none", "defer", "count"}]
  /\ sentToday \subseteq Recipients
  /\ summary \in {"none", "zero", "true"} /\ request \in {"create", "stamp", "done"}
  /\ worker \in [Workers -> Worker]
  /\ \A w \in Workers : worker[w].row # 0 => worker[w].row \in worker[w].batch
  /\ {crashes, defers, changes} \subseteq Nat
  /\ {copies, refused, lost, skipped} \subseteq [Recipients -> Nat]

\* A new send; or one queued before the worker told a provider that is full from a recipient that is
\* no good, with the rows given up on by then (which were passed over, as the history has it).
Init ==
  /\ \E old \in {{}, OldFailures} :
       /\ job = IF old = {} THEN "none" ELSE "running"
       /\ day = IF old = {} THEN 0 ELSE 1
       /\ status = [r \in Recipients |->
            IF old = {} THEN "none" ELSE IF r \in old THEN "failed" ELSE "pending"]
       /\ attempts = [r \in Recipients |-> IF r \in old THEN MaxAttempts ELSE 0]
       /\ lastError = [r \in Recipients |-> IF r \in old THEN "defer" ELSE "none"]
       /\ summary = IF old = {} THEN "none" ELSE "zero"
       /\ request = IF old = {} THEN "create" ELSE "done"
       /\ skipped = [r \in Recipients |-> IF r \in old THEN MaxAttempts ELSE 0]
  /\ due \in BOOLEAN
  /\ age = [r \in Recipients |-> 0] /\ sentToday = {}
  /\ worker = [w \in Workers |-> Idle]
  /\ crashes = 0 /\ defers = 0 /\ changes = 0
  /\ copies = [r \in Recipients |-> 0] /\ refused = [r \in Recipients |-> 0]
  /\ lost = [r \in Recipients |-> 0]

Goto(w, step) == worker' = [worker EXCEPT ![w].step = step]
EndTick(w) == worker' = [worker EXCEPT ![w] = Idle]
Fault == crashes < MaxCrashes /\ crashes' = crashes + 1 /\ UNCHANGED <<defers, changes>>
Add(f, S) == [r \in Recipients |-> IF r \in S THEN f[r] + 1 ELSE f[r]]
Rows(s) == {r \in Recipients : status[r] = s}

----------------------------------------------------------------------------
(* The admin                                                               *)

\* postAdminSendNewsletter: the job and all its rows, in one transaction.
CreateSendJob ==
  /\ request = "create"
  /\ job' = "queued"
  /\ status' = [r \in Recipients |-> "pending"]
  /\ request' = "stamp"
  /\ UNCHANGED <<due, day, attempts, age, lastError, sentToday, summary, worker, boundVars, historyVars>>

\* Then a summary of noughts, which the worker is to replace.
StampSummary ==
  /\ request = "stamp"
  /\ summary' = "zero"
  /\ request' = "done"
  /\ UNCHANGED <<jobVars, queueVars, worker, boundVars, historyVars>>

\* setJobStatus: pause, resume or cancel, while the job is live.
SetJobStatus(s) ==
  /\ changes < MaxAdmin /\ changes' = changes + 1
  /\ job \in {"queued", "running", "paused"}
  /\ job' = s
  /\ UNCHANGED <<due, day, queueVars, summaryVars, worker, crashes, defers, historyVars>>

----------------------------------------------------------------------------
(* A tick                                                                  *)

StalledNone == {}   \* mutant: a row taken by a tick that died stays taken
StalledAtOnce == Rows("sending")   \* mutant: rows still being sent are taken back too
Stalled == {r \in Rows("sending") : age[r] > Grace}

\* reclaimStalledRecipients: rows claimed too long ago go back in the queue (or the query fails).
Sweep(w) ==
  /\ worker[w].step = "idle"
  /\ \/ /\ status' = [r \in Recipients |-> IF r \in Stalled THEN "pending" ELSE status[r]]
        /\ UNCHANGED boundVars
     \/ Fault /\ UNCHANGED status
  /\ worker' = [worker EXCEPT ![w].step = "list", ![w].today = Max({1, day})]
  /\ UNCHANGED <<jobVars, attempts, age, lastError, sentToday, summaryVars, historyVars>>

\* listRunnableJobs: the job is live and due; its pending count is read with it.
ListJobs(w) ==
  /\ worker[w].step = "list"
  /\ IF job \in {"queued", "running"} /\ due
       THEN Goto(w, IF Rows("pending") \cup Rows("sending") = {} THEN "only" ELSE "run")
       ELSE EndTick(w)
  /\ UNCHANGED <<jobVars, queueVars, summaryVars, boundVars, historyVars>>

MayRunAny == TRUE   \* mutant: whatever became of the job since it was listed
MayRun == job \in {"queued", "running"}

\* markJobRunning: if it is still live; the tick goes on either way.
MarkJobRunning(w) ==
  /\ worker[w].step = "run"
  /\ IF MayRun THEN job' = "running" /\ day' = Max({1, day}) ELSE UNCHANGED <<job, day>>
  /\ Goto(w, "allow")
  /\ UNCHANGED <<due, queueVars, summaryVars, boundVars, historyVars>>

\* sentTodayCount: what counts towards the day's cap.
SentToday == {r \in sentToday : status[r] = "sent"}

\* tickAllowance: the throttle, and what is left of today's cap.
TickAllowanceBlind(cap) == IF cap = 0 THEN PerTick ELSE Min({PerTick, cap})   \* mutant: each tick has the whole cap
TickAllowance(cap) ==
  IF cap = 0 THEN PerTick ELSE Min({PerTick, Max({0, cap - Cardinality(SentToday)})})

Allow(w) ==
  /\ worker[w].step = "allow"
  /\ LET n == TickAllowance(CapOn[worker[w].today])
     IN IF n = 0 THEN EndTick(w)
        ELSE worker' = [worker EXCEPT ![w].step = "claim", ![w].allowance = n]
  /\ UNCHANGED <<jobVars, queueVars, summaryVars, boundVars, historyVars>>

\* The first n pending rows, by id.
FirstPending(n) ==
  {r \in Rows("pending") : Cardinality({s \in Rows("pending") : s < r}) < n}

\* claimRecipients: each row to one tick only, and an attempt of it spent.
ClaimRecipients(w) ==
  /\ worker[w].step = "claim"
  /\ LET batch == FirstPending(worker[w].allowance)
     IN /\ status' = [r \in Recipients |-> IF r \in batch THEN "sending" ELSE status[r]]
        /\ attempts' = Add(attempts, batch)
        /\ age' = [r \in Recipients |-> IF r \in batch THEN 0 ELSE age[r]]
        /\ worker' = [worker EXCEPT ![w].step = IF batch = {} THEN "only" ELSE "look",
                                   ![w].batch = batch, ![w].allowance = 0]
  /\ UNCHANGED <<jobVars, lastError, sentToday, summaryVars, boundVars, historyVars>>

\* listGivenUpRecipients: those given up on for a reason that was never about them.
ListGivenUp(w) ==
  /\ worker[w].step = "look"
  /\ LET S == {r \in Rows("failed") : lastError[r] = "defer"}
     IN worker' = [worker EXCEPT ![w].step = IF S = {} THEN "send" ELSE "revive", ![w].givenUp = S]
  /\ UNCHANGED <<jobVars, queueVars, summaryVars, boundVars, historyVars>>

\* Those of them still given up on: one may have been sent since.
Revivable(w) == worker[w].givenUp \cap Rows("failed")

\* reviveRecipients: back in the queue with all their attempts (or the query fails).
ReviveRecipients(w) ==
  /\ worker[w].step = "revive"
  /\ \/ /\ status' = [r \in Recipients |-> IF r \in Revivable(w) THEN "pending" ELSE status[r]]
        /\ attempts' = [r \in Recipients |-> IF r \in Revivable(w) THEN 0 ELSE attempts[r]]
        /\ UNCHANGED boundVars
     \/ Fault /\ UNCHANGED <<status, attempts>>
  /\ worker' = [worker EXCEPT ![w].step = "send", ![w].givenUp = {}]
  /\ UNCHANGED <<jobVars, age, lastError, sentToday, summaryVars, historyVars>>

\* sendNewsletter: the provider takes it, refuses it, or has no capacity; or it takes it, and the
\* answer is lost (which reads as the network's fault: not now).
Send(w, r) ==
  /\ worker[w].step = "send" /\ r \in worker[w].batch
  /\ \/ /\ worker' = [worker EXCEPT ![w].step = "mark", ![w].row = r]
        /\ copies' = Add(copies, {r})
        /\ UNCHANGED <<boundVars, refused, lost>>
     \/ /\ worker' = [worker EXCEPT ![w].step = "refused", ![w].row = r]
        /\ refused' = Add(refused, {r})
        /\ UNCHANGED <<boundVars, copies, lost>>
     \/ /\ defers < MaxDefers /\ defers' = defers + 1
        /\ worker' = [worker EXCEPT ![w].step = "deferred", ![w].row = r]
        /\ UNCHANGED <<crashes, changes, copies, refused, lost>>
     \/ /\ Fault
        /\ worker' = [worker EXCEPT ![w].step = "deferred", ![w].row = r]
        /\ copies' = Add(copies, {r}) /\ lost' = Add(lost, {r})
        /\ UNCHANGED refused
  /\ UNCHANGED <<jobVars, queueVars, summaryVars, skipped>>

NextRow(w) ==
  LET rest == worker[w].batch \ {worker[w].row}
  IN worker' = [worker EXCEPT ![w].step = IF rest = {} THEN "finish" ELSE "send",
                              ![w].batch = rest, ![w].row = 0]

\* markRecipientSent; if it fails, the error is taken for the provider's.
MarkRecipientSent(w) ==
  /\ worker[w].step = "mark"
  /\ LET r == worker[w].row
     IN \/ /\ status' = [status EXCEPT ![r] = "sent"]
           /\ sentToday' = sentToday \cup {r}
           /\ NextRow(w)
           /\ UNCHANGED <<boundVars, lost>>
        \/ /\ Fault
           /\ lost' = Add(lost, {r})
           /\ Goto(w, "refused") \/ Goto(w, "deferred")
           /\ UNCHANGED <<status, sentToday>>
  /\ UNCHANGED <<jobVars, attempts, age, lastError, summaryVars, copies, refused, skipped>>

\* markRecipientFailed: back in the queue, or given up on once its attempts are spent.
MarkRecipientFailed(w) ==
  /\ worker[w].step = "refused"
  /\ LET r == worker[w].row
     IN /\ status' = [status EXCEPT ![r] = IF attempts[r] >= MaxAttempts THEN "failed" ELSE "pending"]
        /\ lastError' = [lastError EXCEPT ![r] = "count"]
  /\ NextRow(w)
  /\ UNCHANGED <<jobVars, attempts, age, sentToday, summaryVars, boundVars, historyVars>>

RefundNone(r) == attempts[r]   \* mutant: a provider that is full costs the recipient an attempt
Refund(r) == Max({0, attempts[r] - 1})

\* deferRecipient: back in the queue with the attempt refunded, and the tick ends at once: the rest
\* of its batch is left as it was claimed, until it is swept.
DeferRecipient(w) ==
  /\ worker[w].step = "deferred"
  /\ LET r == worker[w].row
     IN /\ status' = [status EXCEPT ![r] = "pending"]
        /\ attempts' = [attempts EXCEPT ![r] = Refund(r)]
        /\ lastError' = [lastError EXCEPT ![r] = "defer"]
        /\ skipped' = Add(skipped, worker[w].batch \ {r})
  /\ EndTick(w)
  /\ UNCHANGED <<jobVars, age, sentToday, summaryVars, boundVars, copies, refused, lost>>

\* finishJobIfDrained: running, and nothing left to send.
Drained == job = "running" /\ Rows("pending") \cup Rows("sending") = {}
FinishJob == IF Drained THEN job' = "done" ELSE UNCHANGED job

\* At the end of a batch: the tick that finishes the job goes on to write the real summary.
FinishTick(w) ==
  /\ worker[w].step = "finish"
  /\ FinishJob
  /\ IF Drained THEN Goto(w, "summary") ELSE EndTick(w)
  /\ UNCHANGED <<due, day, queueVars, summaryVars, boundVars, historyVars>>

WriteSummary(w) ==
  /\ worker[w].step = "summary"
  /\ summary' = "true"
  /\ EndTick(w)
  /\ UNCHANGED <<jobVars, queueVars, request, boundVars, historyVars>>

\* With nothing to send: the job is finished, and that is all.
FinishOnly(w) ==
  /\ worker[w].step = "only"
  /\ FinishJob
  /\ EndTick(w)
  /\ UNCHANGED <<due, day, queueVars, summaryVars, boundVars, historyVars>>

\* A query fails or the server dies: the tick goes no further, and its rows stay claimed.
Crash(w) ==
  /\ worker[w].step # "idle"
  /\ Fault
  /\ EndTick(w)
  /\ LET r == worker[w].row
     IN /\ lost' = IF worker[w].step = "mark" THEN Add(lost, {r}) ELSE lost
        /\ skipped' = Add(skipped, worker[w].batch \ (IF worker[w].step = "deferred" THEN {} ELSE {r}))
  /\ UNCHANGED <<jobVars, queueVars, summaryVars, copies, refused>>

----------------------------------------------------------------------------
(* Time                                                                    *)

Busy(w) == worker[w].batch # {}

\* Some time passes; a tick is busy with a batch for no longer than its time.
TimePasses ==
  /\ \A w \in Workers : Busy(w) => worker[w].held < MaxBatch
  /\ age' = [r \in Recipients |-> IF status[r] = "sending" THEN Min({Grace + 1, age[r] + 1}) ELSE age[r]]
  /\ worker' = [w \in Workers |-> IF Busy(w) THEN [worker[w] EXCEPT !.held = @ + 1] ELSE worker[w]]
  /\ UNCHANGED <<jobVars, status, attempts, lastError, sentToday, summaryVars, boundVars, historyVars>>

NextDayUncapped == day + 1   \* mutant: the cap grows without end
NextDay == Min({Len(CapOn), day + 1})

\* Midnight, UTC.
Midnight ==
  /\ sentToday' = {}
  /\ day' = IF day = 0 THEN 0 ELSE NextDay
  /\ UNCHANGED <<job, due, status, attempts, age, lastError, summaryVars, worker, boundVars, historyVars>>

\* The scheduled time comes.
ComesDue ==
  /\ ~due /\ due' = TRUE
  /\ UNCHANGED <<job, day, queueVars, summaryVars, worker, boundVars, historyVars>>

----------------------------------------------------------------------------
TickStep(w) ==
  \/ Sweep(w) \/ ListJobs(w) \/ MarkJobRunning(w) \/ Allow(w) \/ ClaimRecipients(w)
  \/ ListGivenUp(w) \/ ReviveRecipients(w)
  \/ \E r \in Recipients : Send(w, r)
  \/ MarkRecipientSent(w) \/ MarkRecipientFailed(w) \/ DeferRecipient(w)
  \/ FinishTick(w) \/ WriteSummary(w) \/ FinishOnly(w)

Next ==
  \/ CreateSendJob \/ StampSummary
  \/ \E s \in {"paused", "running", "cancelled"} : SetJobStatus(s)
  \/ \E w \in Workers : TickStep(w) \/ Crash(w)
  \/ TimePasses \/ Midnight \/ ComesDue

Spec == Init /\ [][Next]_vars

\* The timer goes on ticking, on every server; time passes; the scheduled time comes.
FairSpec ==
  /\ Spec
  /\ \A w \in Workers : WF_vars(TickStep(w))
  /\ WF_vars(TimePasses) /\ WF_vars(Midnight) /\ WF_vars(ComesDue)
  /\ WF_vars(CreateSendJob)
----------------------------------------------------------------------------
(* What sending promises                                                   *)

\* Nobody is sent a newsletter twice, but for an answer or an outcome that was lost: however many
\* ticks run at once, rows are swept, revived or deferred (claimRecipients' comment).
SentOnce == \A r \in DOMAIN copies : copies[r] <= 1 + lost[r]

\* Nobody is given up on who was not refused, lost or passed over MAX_ATTEMPTS times: a provider
\* that is full costs the recipient it was full for no attempt (deferRecipient).
GivenUpExplained ==
  \A r \in Rows("failed") : refused[r] + lost[r] + skipped[r] >= MaxAttempts

\* The day's cap is passed by no more than one tick's worth for each further tick at once: each
\* counts what was sent before it claims.
CapHolds ==
  LET cap == CapOn[Max({1, day})]
  IN cap > 0 => Cardinality(SentToday) <= cap + (Cardinality(Workers) - 1) * PerTick

\* A send that has ended or was cancelled never starts again, whatever tick had listed it before:
\* "a finished or cancelled one is terminal" (setJobStatus), and markJobRunning looks again.
TerminalStays == [][(job \in {"done", "cancelled"}) => job' = job]_vars

\* A send that is neither left paused nor cancelled ends, whatever ticks died on the way: "a crash
\* mid-send loses nothing" (the head of send-worker.ts), everyone sent to or given up on.
SendEnds == <>[](job \notin {"paused", "cancelled"}) => <>(job = "done")

\* "A send that fails is put back in the queue, but only THREE times" (send-failure.ts): nobody is
\* given up on before the provider has refused them that often, when nothing crashed.
GivenUpRefused == \A r \in Rows("failed") : refused[r] >= MaxAttempts
=============================================================================
