------------------------ MODULE NewsletterSend_proofs ------------------------
(***************************************************************************)
(* Proofs about NewsletterSend, for any number of workers and recipients:  *)
(* type correctness, that nobody is sent a newsletter twice, that nobody   *)
(* is given up on too early, that the day's cap holds but for a tick's     *)
(* worth of each further worker, and that a send that has ended never      *)
(* starts again.                                                           *)
(***************************************************************************)
EXTENDS NewsletterSend, SumTheorems, TLAPS

----------------------------------------------------------------------------
(* The invariant                                                           *)

InHand == {"look", "revive", "send", "mark", "refused", "deferred"}
AtRow  == {"mark", "refused", "deferred"}
Before == {"idle", "list", "run", "allow", "claim"}

\* What a tick holds at each of its steps: its rows from the claim to the last of them, one of them
\* while it is at it, and what it may claim between the two; it never knows more days than there were.
MaxDay == Max({1, day})
Fits(k, m) ==
  /\ k.batch # {} => k.step \in InHand
  /\ k.step \in AtRow => k.row \in k.batch
  /\ k.row # 0 => k.step \in AtRow
  /\ k.step \in Before => k.held = 0
  /\ k.allowance # 0 => k.step = "claim"
  /\ k.today <= m /\ (k.step # "idle" => k.today # 0)
StepsHere == \A w \in Workers : Fits(worker[w], MaxDay)

\* The rows a tick holds are claimed, for no longer than it has held them, and by no other.
BatchesHere ==
  \A w \in Workers : \A r \in worker[w].batch :
    /\ status[r] = "sending" /\ age[r] <= worker[w].held /\ worker[w].held <= MaxBatch
    /\ \A v \in Workers : v # w => r \notin worker[v].batch

\* Before the job is made there is no queue.
Unqueued == request = "create" => \A r \in Recipients : status[r] = "none"

\* A copy more than were lost is known here, or about to be.
Taken(r) == status[r] = "sent" \/ \E w \in Workers : worker[w].step = "mark" /\ worker[w].row = r
CopiesHere ==
  \A r \in Recipients : copies[r] <= lost[r] + 1 /\ (copies[r] <= lost[r] \/ Taken(r))

\* Every attempt of a row not sent is accounted for, but the one being made.
Tries(r)  == refused[r] + lost[r] + skipped[r]
Trying(r) == \E w \in Workers : r \in worker[w].batch /\ (worker[w].step = "refused" => worker[w].row # r)
AttemptsHere ==
  \A r \in Recipients : status[r] # "sent" =>
     attempts[r] <= Tries(r) + 1 /\ (attempts[r] <= Tries(r) \/ Trying(r))

IInv ==
  /\ TypeOK /\ StepsHere /\ BatchesHere /\ Unqueued /\ CopiesHere /\ AttemptsHere

----------------------------------------------------------------------------
(* What every step needs to know                                           *)

LEMMA Constants ==
  /\ Idle \in Worker /\ Idle.step = "idle" /\ Idle.batch = {} /\ Idle.row = 0 /\ Idle.allowance = 0
  /\ Idle.today = 0 /\ Idle.held = 0
  /\ \A r \in Recipients : r \in Nat /\ r # 0
  /\ Grace \in Nat /\ MaxBatch \in Nat /\ MaxBatch <= Grace /\ MaxAttempts \in Nat /\ MaxAttempts # 0
  /\ PerTick \in Nat /\ Len(CapOn) \in Nat /\ Len(CapOn) >= 1 /\ DOMAIN CapOn = 1..Len(CapOn)
  /\ \A d \in DOMAIN CapOn : CapOn[d] \in Nat
<1>1. Idle \in Worker
  BY DEF Idle, Worker, Steps
<1>2. Len(CapOn) \in Nat /\ Len(CapOn) # 0 /\ DOMAIN CapOn = 1..Len(CapOn) /\ \A d \in DOMAIN CapOn : CapOn[d] \in Nat
  BY PacingAssumption
<1> QED
  BY <1>1, <1>2, RecipientsAssumption, PacingAssumption, BatchAssumption, BoundsAssumption DEF Idle

LEMMA MaxDayIs ==
  ASSUME NEW d \in 0..Len(CapOn)
  PROVE  Max({1, d}) \in 1..Len(CapOn) /\ d <= Max({1, d}) /\ Max({1, d}) \in {1, d}
BY Constants, MaxOfTwo

LEMMA TypeFacts ==
  ASSUME TypeOK
  PROVE  /\ \A w \in Workers :
              /\ worker[w] \in Worker /\ worker[w].step \in Steps /\ worker[w].batch \subseteq Recipients
              /\ worker[w].row \in Recipients \cup {0} /\ worker[w].allowance \in Nat
              /\ worker[w].today \in Nat /\ worker[w].held \in Nat
         /\ \A r \in Recipients :
              /\ attempts[r] \in Nat /\ age[r] \in Nat /\ copies[r] \in Nat /\ refused[r] \in Nat
              /\ lost[r] \in Nat /\ skipped[r] \in Nat /\ Tries(r) \in Nat
              /\ status[r] \in {"none", "pending", "sending", "sent", "failed"}
         /\ day \in 0..Len(CapOn) /\ MaxDay \in 1..Len(CapOn) /\ MaxDay \in Nat
         /\ {crashes, defers, changes} \subseteq Nat
<1>1. \A w \in Workers : worker[w] \in Worker
  BY DEF TypeOK
<1>2. \A w \in Workers :
        /\ worker[w].step \in Steps /\ worker[w].batch \subseteq Recipients
        /\ worker[w].row \in Recipients \cup {0} /\ worker[w].allowance \in Nat
        /\ worker[w].today \in Nat /\ worker[w].held \in Nat
  BY <1>1 DEF Worker
<1>3. \A r \in Recipients :
        /\ attempts[r] \in Nat /\ copies[r] \in Nat /\ refused[r] \in Nat
        /\ lost[r] \in Nat /\ skipped[r] \in Nat
        /\ status[r] \in {"none", "pending", "sending", "sent", "failed"}
  BY DEF TypeOK
<1>4. \A r \in Recipients : age[r] \in Nat
  BY Constants DEF TypeOK
<1>5. day \in 0..Len(CapOn) /\ {crashes, defers, changes} \subseteq Nat
  BY DEF TypeOK
<1>6. MaxDay \in 1..Len(CapOn)
  BY <1>5, MaxDayIs DEF MaxDay
<1>7. \A r \in Recipients : Tries(r) \in Nat
  BY <1>3 DEF Tries
<1>8. MaxDay \in Nat
  BY <1>6, Constants
<1> QED
  BY <1>1, <1>2, <1>3, <1>4, <1>5, <1>6, <1>7, <1>8

DayCounts == MaxDay \in Nat
LEMMA DayIs == TypeOK => DayCounts
BY TypeFacts DEF DayCounts

LEMMA AddIs ==
  ASSUME NEW f \in [Recipients -> Nat], NEW S
  PROVE  /\ Add(f, S) \in [Recipients -> Nat]
         /\ \A r \in Recipients : Add(f, S)[r] = IF r \in S THEN f[r] + 1 ELSE f[r]
BY DEF Add

LEMMA InitIInv == Init => IInv
<1> SUFFICES ASSUME Init PROVE IInv
  OBVIOUS
<1>1. PICK old \in {{}, OldFailures} :
        /\ status = [r \in Recipients |-> IF old = {} THEN "none" ELSE IF r \in old THEN "failed" ELSE "pending"]
        /\ attempts = [r \in Recipients |-> IF r \in old THEN MaxAttempts ELSE 0]
        /\ skipped = [r \in Recipients |-> IF r \in old THEN MaxAttempts ELSE 0]
        /\ lastError = [r \in Recipients |-> IF r \in old THEN "defer" ELSE "none"]
        /\ job = IF old = {} THEN "none" ELSE "running"
        /\ day = IF old = {} THEN 0 ELSE 1
        /\ summary = IF old = {} THEN "none" ELSE "zero"
        /\ request = IF old = {} THEN "create" ELSE "done"
  BY DEF Init
<1>2. /\ due \in BOOLEAN /\ age = [r \in Recipients |-> 0] /\ sentToday = {}
      /\ worker = [w \in Workers |-> Idle] /\ crashes = 0 /\ defers = 0 /\ changes = 0
      /\ copies = [r \in Recipients |-> 0] /\ refused = [r \in Recipients |-> 0]
      /\ lost = [r \in Recipients |-> 0]
  BY DEF Init
<1>3. TypeOK
  <2>1. day \in 0..Len(CapOn) /\ attempts \in [Recipients -> Nat] /\ skipped \in [Recipients -> Nat]
    BY <1>1, Constants
  <2>2. worker \in [Workers -> Worker] /\ \A w \in Workers : worker[w].row = 0
    BY <1>2, Constants
  <2>3. age \in [Recipients -> 0..(Grace + 1)]
    BY <1>2, Constants
  <2>4. /\ job \in {"none", "queued", "running", "paused", "done", "cancelled"}
        /\ status \in [Recipients -> {"none", "pending", "sending", "sent", "failed"}]
        /\ lastError \in [Recipients -> {"none", "defer", "count"}]
        /\ summary \in {"none", "zero", "true"} /\ request \in {"create", "stamp", "done"}
    BY <1>1
  <2> QED
    BY <1>2, <2>1, <2>2, <2>3, <2>4 DEF TypeOK
<1>4. \A w \in Workers : worker[w] = Idle
  BY <1>2
<1>5. MaxDay \in Nat
  BY <1>3, TypeFacts
<1>6. StepsHere /\ BatchesHere
  BY <1>4, <1>5, Constants DEF StepsHere, Fits, BatchesHere, InHand, AtRow, Before, MaxDay
<1>7. Unqueued
  BY <1>1 DEF Unqueued
<1>8. CopiesHere
  BY <1>2 DEF CopiesHere
<1>9. AttemptsHere
  <2> SUFFICES ASSUME NEW r \in Recipients PROVE attempts[r] <= Tries(r) /\ attempts[r] <= Tries(r) + 1
    BY DEF AttemptsHere
  <2>1. attempts[r] = skipped[r] /\ refused[r] = 0 /\ lost[r] = 0 /\ skipped[r] \in Nat
    BY <1>1, <1>2, <1>3, TypeFacts
  <2> QED
    BY <2>1 DEF Tries
<1> QED
  BY <1>3, <1>6, <1>7, <1>8, <1>9 DEF IInv

----------------------------------------------------------------------------
(* Steps that only move a tick, or rows that no tick holds                 *)

\* One tick moves, the others do not.
Moves(w, new) == worker' = [worker EXCEPT ![w] = new]

LEMMA MovesIs ==
  ASSUME TypeOK, NEW w \in Workers, NEW new \in Worker, Moves(w, new)
  PROVE  /\ worker' \in [Workers -> Worker] /\ worker'[w] = new
         /\ \A v \in Workers : v # w => worker'[v] = worker[v]
BY DEF TypeOK, Moves

LEMMA MovesType ==
  ASSUME TypeOK, NEW w \in Workers, NEW new \in Worker, Moves(w, new), new.row # 0 => new.row \in new.batch
  PROVE  /\ worker' \in [Workers -> Worker]
         /\ \A v \in Workers : worker'[v].row # 0 => worker'[v].row \in worker'[v].batch
<1>1. /\ worker' \in [Workers -> Worker] /\ worker'[w] = new
      /\ \A v \in Workers : v # w => worker'[v] = worker[v]
  BY MovesIs
<1>2. \A v \in Workers : worker[v].row # 0 => worker[v].row \in worker[v].batch
  BY DEF TypeOK
<1>3. ASSUME NEW v \in Workers PROVE worker'[v].row # 0 => worker'[v].row \in worker'[v].batch
  BY <1>1, <1>2
<1> QED
  BY <1>1, <1>3

LEMMA StepsKept ==
  ASSUME TypeOK, StepsHere, NEW w \in Workers, NEW new \in Worker, Moves(w, new),
         Fits(new, MaxDay'), MaxDay <= MaxDay', MaxDay' \in Nat
  PROVE  StepsHere'
<1>1. worker'[w] = new /\ \A v \in Workers : v # w => worker'[v] = worker[v]
  BY MovesIs
<1>2. ASSUME NEW v \in Workers, v # w PROVE Fits(worker'[v], MaxDay')
  <2>1. Fits(worker[v], MaxDay) /\ worker[v].today \in Nat /\ MaxDay \in Nat
    BY TypeFacts DEF StepsHere
  <2>2. worker[v].today <= MaxDay'
    BY <2>1 DEF Fits
  <2> QED
    BY <1>1, <1>2, <2>1, <2>2 DEF Fits
<1> QED
  BY <1>1, <1>2 DEF StepsHere

LEMMA BatchesKept ==
  ASSUME TypeOK, BatchesHere, NEW w \in Workers, NEW new \in Worker, Moves(w, new),
         new.batch \subseteq worker[w].batch, new.batch # {} => new.held = worker[w].held,
         \A r \in new.batch : status'[r] = status[r] /\ age'[r] = age[r],
         \A v \in Workers : v # w => \A r \in worker[v].batch : status'[r] = status[r] /\ age'[r] = age[r]
  PROVE  BatchesHere'
<1>1. worker'[w] = new /\ \A v \in Workers : v # w => worker'[v] = worker[v]
  BY MovesIs
<1>2. \A v \in Workers : \A r \in worker'[v].batch :
        /\ r \in worker[v].batch /\ worker'[v].held = worker[v].held
        /\ status'[r] = status[r] /\ age'[r] = age[r]
  BY <1>1
<1> QED
  BY <1>2 DEF BatchesHere

\* What is sent or given up on stays so for the counts, and what is at hand stays at hand.
LEMMA CopiesKept ==
  ASSUME TypeOK, CopiesHere, copies' = copies, lost' = lost, \A r \in Recipients : Taken(r) => Taken(r)'
  PROVE  CopiesHere'
BY DEF CopiesHere

LEMMA TakenKept ==
  ASSUME TypeOK, NEW w \in Workers, NEW new \in Worker, Moves(w, new), worker[w].step # "mark",
         \A r \in Recipients : status[r] = "sent" => status'[r] = "sent"
  PROVE  \A r \in Recipients : Taken(r) => Taken(r)'
<1> SUFFICES ASSUME NEW r \in Recipients, Taken(r) PROVE Taken(r)'
  OBVIOUS
<1>1. \A v \in Workers : v # w => worker'[v] = worker[v]
  BY MovesIs
<1> QED
  BY <1>1 DEF Taken

LEMMA TryingKept ==
  ASSUME TypeOK, NEW w \in Workers, NEW new \in Worker, Moves(w, new), NEW r \in Recipients, Trying(r),
         r \in worker[w].batch =>
           (worker[w].step = "refused" /\ worker[w].row = r) \/ (r \in new.batch /\ (new.step = "refused" => new.row # r))
  PROVE  Trying(r)'
<1>1. worker'[w] = new /\ \A v \in Workers : v # w => worker'[v] = worker[v]
  BY MovesIs
<1>2. PICK v \in Workers : r \in worker[v].batch /\ (worker[v].step = "refused" => worker[v].row # r)
  BY DEF Trying
<1> QED
  BY <1>1, <1>2 DEF Trying

\* Rows that no tick holds may be taken back or put back in the queue.
RowsMove ==
  \A r \in Recipients :
    /\ age'[r] = age[r] /\ attempts'[r] <= attempts[r]
    /\ \/ status'[r] = status[r]
       \/ /\ status[r] \notin {"sent", "none"} /\ status'[r] \notin {"sent", "none"}
          /\ \A v \in Workers : r \notin worker[v].batch

LEMMA QuietStep ==
  ASSUME IInv, TypeOK', NEW w \in Workers, NEW new \in Worker, Moves(w, new),
         new.batch = worker[w].batch, new.batch # {} => new.held = worker[w].held,
         worker[w].step \notin AtRow, new.step \notin AtRow,
         Fits(new, MaxDay'), MaxDay <= MaxDay', RowsMove,
         request' = request \/ request' # "create",
         UNCHANGED <<copies, refused, lost, skipped>>
  PROVE  IInv'
<1>1. TypeOK /\ StepsHere /\ BatchesHere /\ Unqueued /\ CopiesHere /\ AttemptsHere
  BY DEF IInv
<1>2. \A v \in Workers : worker[v].batch \subseteq Recipients
  BY <1>1, TypeFacts
<1>3. MaxDay' \in Nat
  <2>1. DayCounts'
    BY DayIs, PTL
  <2> QED
    BY <2>1 DEF DayCounts
<1>4. StepsHere'
  BY <1>1, <1>3, StepsKept
<1>5. BatchesHere'
  BY <1>1, <1>2, BatchesKept DEF RowsMove
<1>6. Unqueued'
  BY <1>1 DEF Unqueued, RowsMove
<1>7. CopiesHere'
  <2>1. \A r \in Recipients : status[r] = "sent" => status'[r] = "sent"
    BY DEF RowsMove
  <2>2. \A r \in Recipients : Taken(r) => Taken(r)'
    BY <1>1, <2>1, TakenKept DEF AtRow
  <2> QED
    BY <1>1, <2>2, CopiesKept
<1>8. AttemptsHere'
  <2> SUFFICES ASSUME NEW r \in Recipients, status'[r] # "sent"
               PROVE  attempts'[r] <= Tries(r)' + 1 /\ (attempts'[r] <= Tries(r)' \/ Trying(r)')
    BY DEF AttemptsHere
  <2>1. status[r] # "sent" /\ attempts'[r] <= attempts[r] /\ Tries(r)' = Tries(r)
    BY DEF RowsMove, Tries
  <2>2. Trying(r) => Trying(r)'
    BY <1>1, TryingKept DEF AtRow
  <2>3. attempts[r] \in Nat /\ Tries(r) \in Nat /\ attempts'[r] \in Nat
    BY <1>1, TypeFacts DEF TypeOK
  <2>4. attempts[r] <= Tries(r) + 1 /\ (attempts[r] <= Tries(r) \/ Trying(r))
    BY <1>1, <2>1 DEF AttemptsHere
  <2> QED
    BY <2>1, <2>2, <2>3, <2>4
<1> QED
  BY <1>4, <1>5, <1>6, <1>7, <1>8 DEF IInv

LEMMA BeforeIs ==
  ASSUME IInv, NEW w \in Workers
  PROVE  /\ TypeOK /\ worker[w] \in Worker /\ Fits(worker[w], MaxDay) /\ MaxDay \in Nat /\ MaxDay # 0
         /\ MaxDay \in 1..Len(CapOn)
         /\ worker[w].step \notin InHand => worker[w].batch = {}
         /\ worker[w].step \notin AtRow => worker[w].row = 0
         /\ worker[w].batch \subseteq Recipients
<1>1. TypeOK /\ Fits(worker[w], MaxDay)
  BY DEF IInv, StepsHere
<1>2. worker[w] \in Worker /\ MaxDay \in Nat /\ MaxDay \in 1..Len(CapOn) /\ worker[w].batch \subseteq Recipients
  BY <1>1, TypeFacts
<1> QED
  BY <1>1, <1>2, Constants DEF Fits

\* A row that a tick holds is not taken back: the grace period is longer than a batch.
LEMMA StalledIs == ASSUME IInv, NEW w \in Workers PROVE Stalled \cap worker[w].batch = {}
<1> SUFFICES ASSUME NEW r \in worker[w].batch, age[r] > Grace PROVE FALSE
  BY DEF Stalled
<1>1. age[r] <= worker[w].held /\ worker[w].held <= MaxBatch
  BY DEF IInv, BatchesHere
<1>2. age[r] \in Nat /\ worker[w].held \in Nat
  BY BeforeIs, TypeFacts
<1> QED
  BY <1>1, <1>2, Constants

LEMMA SweepIInv == ASSUME IInv, NEW w \in Workers, Sweep(w) PROVE IInv'
<1> DEFINE new == [worker[w] EXCEPT !.step = "list", !.today = MaxDay]
<1>1. /\ worker[w].step = "idle" /\ Moves(w, new)
      /\ status' \in {status, [r \in Recipients |-> IF r \in Stalled THEN "pending" ELSE status[r]]}
      /\ UNCHANGED <<job, due, day, attempts, age, lastError, sentToday, summary, request, copies, refused, lost, skipped>>
      /\ {crashes', defers', changes'} \subseteq {crashes, defers, changes, crashes + 1}
  BY DEF Sweep, Fault, Moves, MaxDay, jobVars, summaryVars, historyVars, boundVars
<1>2. /\ TypeOK /\ worker[w] \in Worker /\ Fits(worker[w], MaxDay) /\ MaxDay \in Nat /\ MaxDay # 0
      /\ worker[w].batch = {} /\ worker[w].row = 0 /\ MaxDay' = MaxDay
  BY <1>1, BeforeIs DEF InHand, AtRow, MaxDay
<1>3. /\ new \in Worker /\ new.step = "list" /\ new.batch = {} /\ new.row = 0
      /\ new.allowance = worker[w].allowance /\ new.today = MaxDay /\ new.held = worker[w].held
  BY <1>2 DEF Worker, Steps
<1> HIDE DEF new
<1>4. Fits(new, MaxDay')
  BY <1>1, <1>2, <1>3 DEF Fits, InHand, AtRow, Before
<1>5. RowsMove
  <2> SUFFICES ASSUME NEW r \in Recipients
               PROVE  \/ status'[r] = status[r]
                      \/ /\ status[r] = "sending" /\ status'[r] = "pending"
                         /\ \A v \in Workers : r \notin worker[v].batch
    BY <1>1, <1>2, TypeFacts DEF RowsMove
  <2>1. r \in Stalled => status[r] = "sending" /\ \A v \in Workers : r \notin worker[v].batch
    BY StalledIs DEF Stalled, Rows
  <2> QED
    BY <1>1, <2>1
<1>6. TypeOK'
  <2>1. status' \in [Recipients -> {"none", "pending", "sending", "sent", "failed"}]
    BY <1>1, <1>2 DEF TypeOK
  <2>2. {crashes', defers', changes'} \subseteq Nat
    BY <1>1, <1>2 DEF TypeOK
  <2>3. worker' \in [Workers -> Worker] /\ \A v \in Workers : worker'[v].row # 0 => worker'[v].row \in worker'[v].batch
    BY <1>1, <1>2, <1>3, MovesType
  <2> QED
    BY <1>1, <1>2, <2>1, <2>2, <2>3 DEF TypeOK
<1>7. /\ worker[w].step \notin AtRow /\ new.step \notin AtRow /\ MaxDay <= MaxDay' /\ request' = request
      /\ Moves(w, new) /\ new \in Worker /\ new.batch = worker[w].batch /\ new.batch = {}
      /\ UNCHANGED <<copies, refused, lost, skipped>>
  BY <1>1, <1>2, <1>3 DEF AtRow
<1> QED
  BY <1>4, <1>5, <1>6, <1>7, QuietStep

\* A tick that moves on with nothing in hand, and touches the job at most.
LEMMA EmptyHanded ==
  ASSUME IInv, NEW w \in Workers, NEW new \in Worker, Moves(w, new),
         worker[w].step \notin InHand, new.step \notin InHand, new.batch = {}, new.row = 0,
         new.held = worker[w].held \/ (new.step = "idle" /\ new.held = 0),
         new.step \in Before => worker[w].step \in Before \/ new.held = 0,
         new.allowance # 0 => new.step = "claim",
         new.today = worker[w].today \/ new.today = 0,
         new.step # "idle" => new.today # 0,
         job' \in {"none", "queued", "running", "paused", "done", "cancelled"},
         day' = day \/ day' = MaxDay, summary' \in {summary, "true"}, request' = request, due' = due,
         UNCHANGED <<queueVars, boundVars, historyVars>>
  PROVE  IInv'
<1>1. /\ TypeOK /\ worker[w] \in Worker /\ Fits(worker[w], MaxDay) /\ MaxDay \in Nat /\ MaxDay # 0
      /\ worker[w].batch = {} /\ worker[w].row = 0 /\ MaxDay \in 1..Len(CapOn) /\ day \in 0..Len(CapOn)
  BY BeforeIs, TypeFacts DEF InHand, AtRow
<1>2. MaxDay' = MaxDay
  <2>1. MaxDay = Max({1, day}) /\ MaxDay' = Max({1, day'})
    BY DEF MaxDay
  <2>2. Max({1, MaxDay}) \in {1, MaxDay} /\ 1 <= Max({1, MaxDay}) /\ MaxDay <= Max({1, MaxDay})
    BY <1>1, MaxOfTwo
  <2>3. CASE day' = MaxDay
    BY <1>1, <2>1, <2>2, <2>3
  <2>4. CASE day' = day
    BY <2>1, <2>4
  <2> QED
    BY <2>3, <2>4
<1>3. Fits(new, MaxDay')
  BY <1>1, <1>2 DEF Fits, InHand, AtRow, Before
<1>4. RowsMove
  BY <1>1, TypeFacts DEF RowsMove, queueVars
<1>5. TypeOK'
  <2>1. worker' \in [Workers -> Worker] /\ \A v \in Workers : worker'[v].row # 0 => worker'[v].row \in worker'[v].batch
    BY <1>1, MovesType
  <2>2. day' \in 0..Len(CapOn)
    BY <1>1
  <2> QED
    BY <1>1, <2>1, <2>2 DEF TypeOK, queueVars, boundVars, historyVars
<1>6. UNCHANGED <<copies, refused, lost, skipped>>
  BY DEF historyVars
<1>7. MaxDay <= MaxDay' /\ worker[w].step \notin AtRow /\ new.step \notin AtRow
  BY <1>1, <1>2 DEF AtRow, InHand
<1> QED
  BY <1>1, <1>3, <1>4, <1>5, <1>6, <1>7, QuietStep

LEMMA EndsIs == ASSUME NEW w, EndTick(w) PROVE Moves(w, Idle)
BY DEF EndTick, Moves

LEMMA GotoIs ==
  ASSUME TypeOK, NEW w \in Workers, NEW s \in Steps, Goto(w, s)
  PROVE  \E new \in Worker :
           /\ Moves(w, new) /\ new.step = s /\ new.batch = worker[w].batch /\ new.row = worker[w].row
           /\ new.allowance = worker[w].allowance /\ new.today = worker[w].today /\ new.held = worker[w].held
<1> DEFINE new == [worker[w] EXCEPT !.step = s]
<1>1. worker[w] \in Worker /\ Moves(w, new)
  BY TypeFacts DEF Goto, Moves
<1>2. /\ new \in Worker /\ new.step = s /\ new.batch = worker[w].batch /\ new.row = worker[w].row
      /\ new.allowance = worker[w].allowance /\ new.today = worker[w].today /\ new.held = worker[w].held
  BY <1>1 DEF Worker
<1> HIDE DEF new
<1> QED
  BY <1>1, <1>2

\* The ends of ticks with nothing in hand.
LEMMA EmptyEnd ==
  ASSUME IInv, NEW w \in Workers, worker[w].step \notin InHand, EndTick(w),
         job' \in {"none", "queued", "running", "paused", "done", "cancelled"},
         day' = day \/ day' = MaxDay, summary' \in {summary, "true"}, request' = request, due' = due,
         UNCHANGED <<queueVars, boundVars, historyVars>>
  PROVE  IInv'
<1>1. Moves(w, Idle)
  BY EndsIs
<1>2. Idle.step \notin InHand /\ Idle.step = "idle"
  BY Constants DEF InHand
<1> QED
  BY <1>1, <1>2, Constants, EmptyHanded

LEMMA EmptyGoto ==
  ASSUME IInv, NEW w \in Workers, worker[w].step \notin InHand, worker[w].step # "idle", NEW s \in Steps, Goto(w, s),
         s \notin InHand, s # "idle", s \in Before => worker[w].step \in Before, worker[w].step # "claim",
         job' \in {"none", "queued", "running", "paused", "done", "cancelled"},
         day' = day \/ day' = MaxDay, summary' \in {summary, "true"}, request' = request, due' = due,
         UNCHANGED <<queueVars, boundVars, historyVars>>
  PROVE  IInv'
<1>1. PICK new \in Worker :
        /\ Moves(w, new) /\ new.step = s /\ new.batch = worker[w].batch /\ new.row = worker[w].row
        /\ new.allowance = worker[w].allowance /\ new.today = worker[w].today /\ new.held = worker[w].held
  BY BeforeIs, GotoIs
<1>2. Fits(worker[w], MaxDay) /\ worker[w].batch = {} /\ worker[w].row = 0
  BY BeforeIs DEF InHand, AtRow
<1>3. worker[w].allowance = 0 /\ worker[w].today # 0
  BY <1>2 DEF Fits
<1> QED
  BY <1>1, <1>2, <1>3, EmptyHanded

Statuses == {"none", "queued", "running", "paused", "done", "cancelled"}

LEMMA JobType == IInv => job \in Statuses
BY DEF IInv, TypeOK, Statuses

LEMMA ListJobsIInv == ASSUME IInv, NEW w \in Workers, ListJobs(w) PROVE IInv'
<1>1. /\ worker[w].step = "list" /\ UNCHANGED <<jobVars, queueVars, summaryVars, boundVars, historyVars>>
      /\ EndTick(w) \/ Goto(w, "only") \/ Goto(w, "run")
  BY DEF ListJobs
<1>2. job' \in Statuses /\ UNCHANGED <<day, due, summary, request, queueVars, boundVars, historyVars>>
  BY <1>1, JobType DEF jobVars, summaryVars
<1>3. worker[w].step \notin InHand /\ worker[w].step # "idle" /\ worker[w].step # "claim" /\ worker[w].step \in Before
  BY <1>1 DEF InHand, Before
<1>4. \A s \in {"only", "run"} : s \in Steps /\ s \notin InHand /\ s # "idle"
  BY DEF Steps, InHand
<1>5. CASE EndTick(w)
  BY <1>2, <1>3, <1>5, EmptyEnd DEF Statuses
<1>6. ASSUME NEW s \in {"only", "run"}, Goto(w, s) PROVE IInv'
  BY <1>2, <1>3, <1>4, <1>6, EmptyGoto DEF Statuses
<1> QED
  BY <1>1, <1>5, <1>6

LEMMA MarkJobRunningIInv == ASSUME IInv, NEW w \in Workers, MarkJobRunning(w) PROVE IInv'
<1>1. /\ worker[w].step = "run" /\ Goto(w, "allow")
      /\ (job' = "running" /\ day' = MaxDay) \/ UNCHANGED <<job, day>>
      /\ UNCHANGED <<due, queueVars, summaryVars, boundVars, historyVars>>
  BY DEF MarkJobRunning, MaxDay
<1>2. /\ job' \in Statuses /\ UNCHANGED <<due, summary, request, queueVars, boundVars, historyVars>>
      /\ day' = day \/ day' = MaxDay
  BY <1>1, JobType DEF summaryVars, Statuses
<1>3. /\ worker[w].step \notin InHand /\ worker[w].step # "idle" /\ worker[w].step # "claim" /\ worker[w].step \in Before
      /\ "allow" \in Steps /\ "allow" \notin InHand
  BY <1>1 DEF InHand, Before, Steps
<1> QED
  BY <1>1, <1>2, <1>3, EmptyGoto DEF Statuses

LEMMA MinOf == ASSUME NEW a \in Nat, NEW b \in Nat PROVE Min({a, b}) \in Nat
BY MinOfTwo

LEMMA SentTodayIs ==
  ASSUME TypeOK
  PROVE  SentToday \subseteq Recipients /\ IsFiniteSet(SentToday) /\ Cardinality(SentToday) \in Nat
<1>1. SentToday \subseteq Recipients
  BY DEF TypeOK, SentToday
<1> QED
  BY <1>1, RecipientsAssumption, FS_Subset, FS_CardinalityType

\* What a tick may claim: no more than the throttle lets it, or than the cap leaves.
LEMMA AllowanceIs ==
  ASSUME TypeOK, NEW cap \in Nat
  PROVE  /\ TickAllowance(cap) \in Nat /\ TickAllowance(cap) <= PerTick
         /\ cap > 0 => TickAllowance(cap) = 0 \/ TickAllowance(cap) + Cardinality(SentToday) <= cap
<1> DEFINE n    == Cardinality(SentToday)
           rest == Max({0, cap - n})
<1>1. n \in Nat
  BY SentTodayIs
<1>2. TickAllowance(cap) = IF cap = 0 THEN PerTick ELSE Min({PerTick, rest})
  BY DEF TickAllowance
<1>3. rest \in Nat /\ (rest = 0 \/ rest = cap - n)
  <2>1. CASE cap >= n
    <3>1. cap - n \in Nat
      BY <1>1, <2>1
    <3> DEFINE m == cap - n
    <3> HIDE DEF m, n
    <3>2. m \in Nat => Max({0, m}) \in {0, m} /\ Max({0, m}) \in Nat
      BY MaxOfTwo
    <3> QED
      BY <3>1, <3>2 DEF m
  <2>2. CASE cap < n
    <3> DEFINE m == cap - n
    <3>1. m \in Int /\ m < 0
      BY <1>1, <2>2
    <3> HIDE DEF m
    <3>2. \E x \in {0, m} : \A y \in {0, m} : x >= y
      BY <3>1
    <3>3. Max({0, m}) \in {0, m} /\ Max({0, m}) >= 0
      BY <3>1, <3>2 DEF Max
    <3>4. Max({0, m}) = 0
      BY <3>1, <3>3
    <3> QED
      BY <3>4 DEF m
  <2> QED
    BY <1>1, <2>1, <2>2
<1> HIDE DEF rest
<1>4. Min({PerTick, rest}) \in {PerTick, rest} /\ Min({PerTick, rest}) <= PerTick /\ Min({PerTick, rest}) <= rest
  BY <1>3, Constants, MinOfTwo
<1>5. PerTick \in Nat
  BY Constants
<1> QED
  BY <1>1, <1>2, <1>3, <1>4, <1>5

LEMMA AllowIs ==
  ASSUME IInv, NEW w \in Workers, Allow(w)
  PROVE  /\ worker[w].step = "allow" /\ worker[w].today \in DOMAIN CapOn /\ worker[w].today <= MaxDay
         /\ worker[w].batch = {} /\ worker[w].allowance = 0
         /\ UNCHANGED <<jobVars, queueVars, summaryVars, boundVars, historyVars>>
         /\ LET n == TickAllowance(CapOn[worker[w].today])
            IN \/ EndTick(w)
               \/ \E new \in Worker :
                    /\ Moves(w, new) /\ new.step = "claim" /\ new.batch = {} /\ new.row = 0 /\ new.allowance = n
                    /\ new.today = worker[w].today /\ new.held = worker[w].held /\ n # 0
<1> DEFINE n   == TickAllowance(CapOn[worker[w].today])
           new == [worker[w] EXCEPT !.step = "claim", !.allowance = n]
<1>1. /\ worker[w].step = "allow" /\ UNCHANGED <<jobVars, queueVars, summaryVars, boundVars, historyVars>>
      /\ EndTick(w) \/ (n # 0 /\ Moves(w, new))
  BY DEF Allow, Moves
<1>2. /\ TypeOK /\ worker[w] \in Worker /\ Fits(worker[w], MaxDay) /\ worker[w].batch = {} /\ worker[w].row = 0
      /\ MaxDay \in 1..Len(CapOn)
  BY <1>1, BeforeIs DEF InHand, AtRow
<1>3. worker[w].today \in DOMAIN CapOn /\ worker[w].today <= MaxDay /\ worker[w].allowance = 0
  <2>1. worker[w].today \in Nat /\ worker[w].today # 0 /\ worker[w].today <= MaxDay /\ worker[w].allowance = 0
    BY <1>1, <1>2, TypeFacts DEF Fits
  <2> QED
    BY <1>2, <2>1, Constants
<1>4. n \in Nat
  <2>1. CapOn[worker[w].today] \in Nat
    BY <1>3, Constants
  <2> QED
    BY <1>2, <2>1, AllowanceIs
<1>5. /\ new \in Worker /\ new.step = "claim" /\ new.batch = {} /\ new.row = 0 /\ new.allowance = n
      /\ new.today = worker[w].today /\ new.held = worker[w].held
  BY <1>2, <1>4 DEF Worker, Steps
<1> HIDE DEF new
<1> QED
  BY <1>1, <1>2, <1>3, <1>5

LEMMA AllowIInv == ASSUME IInv, NEW w \in Workers, Allow(w) PROVE IInv'
<1>1. /\ worker[w].step = "allow" /\ worker[w].today \in DOMAIN CapOn
      /\ UNCHANGED <<jobVars, queueVars, summaryVars, boundVars, historyVars>>
  BY AllowIs
<1>2. job' \in Statuses /\ UNCHANGED <<day, due, summary, request, queueVars, boundVars, historyVars>>
  BY <1>1, JobType DEF jobVars, summaryVars
<1>3. worker[w].step \notin InHand /\ worker[w].step \in Before /\ worker[w].today # 0 /\ "claim" \notin InHand
  BY <1>1, Constants DEF InHand, Before
<1>4. CASE EndTick(w)
  BY <1>2, <1>3, <1>4, EmptyEnd DEF Statuses
<1>5. CASE ~EndTick(w)
  <2>1. PICK new \in Worker :
          /\ Moves(w, new) /\ new.step = "claim" /\ new.batch = {} /\ new.row = 0
          /\ new.today = worker[w].today /\ new.held = worker[w].held
    BY <1>5, AllowIs
  <2> QED
    BY <1>2, <1>3, <2>1, EmptyHanded DEF Statuses
<1> QED
  BY <1>4, <1>5

LEMMA FinishTypes == ASSUME IInv, FinishJob PROVE job' \in Statuses
BY JobType DEF FinishJob, Statuses

LEMMA FinishTickIInv == ASSUME IInv, NEW w \in Workers, FinishTick(w) PROVE IInv'
<1>1. /\ worker[w].step = "finish" /\ FinishJob
      /\ EndTick(w) \/ Goto(w, "summary")
      /\ UNCHANGED <<due, day, queueVars, summaryVars, boundVars, historyVars>>
  BY DEF FinishTick
<1>2. job' \in Statuses /\ UNCHANGED <<day, due, summary, request, queueVars, boundVars, historyVars>>
  BY <1>1, FinishTypes DEF summaryVars
<1>3. /\ worker[w].step \notin InHand /\ worker[w].step # "idle" /\ worker[w].step # "claim"
      /\ "summary" \in Steps /\ "summary" \notin InHand /\ "summary" \notin Before
  BY <1>1 DEF InHand, Before, Steps
<1>4. CASE EndTick(w)
  BY <1>2, <1>3, <1>4, EmptyEnd DEF Statuses
<1>5. CASE Goto(w, "summary")
  BY <1>2, <1>3, <1>5, EmptyGoto DEF Statuses
<1> QED
  BY <1>1, <1>4, <1>5

LEMMA WriteSummaryIInv == ASSUME IInv, NEW w \in Workers, WriteSummary(w) PROVE IInv'
<1>1. /\ worker[w].step = "summary" /\ EndTick(w) /\ summary' = "true"
      /\ UNCHANGED <<jobVars, queueVars, request, boundVars, historyVars>>
  BY DEF WriteSummary
<1>2. job' \in Statuses /\ UNCHANGED <<day, due, request, queueVars, boundVars, historyVars>>
  BY <1>1, JobType DEF jobVars
<1>3. worker[w].step \notin InHand
  BY <1>1 DEF InHand
<1> QED
  BY <1>1, <1>2, <1>3, EmptyEnd DEF Statuses

LEMMA FinishOnlyIInv == ASSUME IInv, NEW w \in Workers, FinishOnly(w) PROVE IInv'
<1>1. /\ worker[w].step = "only" /\ EndTick(w) /\ FinishJob
      /\ UNCHANGED <<due, day, queueVars, summaryVars, boundVars, historyVars>>
  BY DEF FinishOnly
<1>2. job' \in Statuses /\ UNCHANGED <<day, due, summary, request, queueVars, boundVars, historyVars>>
  BY <1>1, FinishTypes DEF summaryVars
<1>3. worker[w].step \notin InHand
  BY <1>1 DEF InHand
<1> QED
  BY <1>1, <1>2, <1>3, EmptyEnd DEF Statuses


\* What a tick was to give up on, and may try again.
LEMMA RevivableIs ==
  ASSUME IInv, NEW w \in Workers, NEW r \in Revivable(w)
  PROVE  r \in Recipients /\ status[r] = "failed" /\ \A v \in Workers : r \notin worker[v].batch
<1>1. r \in Recipients /\ status[r] = "failed"
  BY DEF Revivable, Rows
<1>2. \A v \in Workers : \A s \in worker[v].batch : status[s] = "sending"
  BY DEF IInv, BatchesHere
<1> QED
  BY <1>1, <1>2

LEMMA ListGivenUpIInv == ASSUME IInv, NEW w \in Workers, ListGivenUp(w) PROVE IInv'
<1> DEFINE S   == {r \in Rows("failed") : lastError[r] = "defer"}
           new == [worker[w] EXCEPT !.step = IF S = {} THEN "send" ELSE "revive", !.givenUp = S]
<1>1. /\ worker[w].step = "look" /\ Moves(w, new)
      /\ UNCHANGED <<jobVars, queueVars, summaryVars, boundVars, historyVars>>
  BY DEF ListGivenUp, Moves
<1>2. /\ TypeOK /\ worker[w] \in Worker /\ Fits(worker[w], MaxDay) /\ MaxDay \in Nat /\ worker[w].row = 0
  BY <1>1, BeforeIs DEF AtRow
<1>3. S \subseteq Recipients
  BY DEF Rows
<1> HIDE DEF S
<1>4. /\ new \in Worker /\ new.step \in {"send", "revive"} /\ new.batch = worker[w].batch /\ new.row = 0
      /\ new.allowance = worker[w].allowance /\ new.today = worker[w].today /\ new.held = worker[w].held
  BY <1>2, <1>3 DEF Worker, Steps
<1> HIDE DEF new
<1>5. MaxDay' = MaxDay
  BY <1>1 DEF MaxDay, jobVars
<1>6. Fits(new, MaxDay')
  BY <1>1, <1>2, <1>4, <1>5 DEF Fits, InHand, AtRow, Before
<1>7. RowsMove
  BY <1>1, <1>2, TypeFacts DEF RowsMove, queueVars
<1>8. TypeOK'
  <2>1. worker' \in [Workers -> Worker] /\ \A v \in Workers : worker'[v].row # 0 => worker'[v].row \in worker'[v].batch
    BY <1>1, <1>2, <1>4, MovesType
  <2> QED
    BY <1>1, <1>2, <2>1 DEF TypeOK, jobVars, queueVars, summaryVars, boundVars, historyVars
<1>9. /\ worker[w].step \notin AtRow /\ new.step \notin AtRow /\ MaxDay <= MaxDay' /\ request' = request
      /\ UNCHANGED <<copies, refused, lost, skipped>>
  BY <1>1, <1>2, <1>4, <1>5 DEF AtRow, summaryVars, historyVars
<1> QED
  BY <1>1, <1>4, <1>6, <1>7, <1>8, <1>9, QuietStep

LEMMA ReviveRecipientsIInv == ASSUME IInv, NEW w \in Workers, ReviveRecipients(w) PROVE IInv'
<1> DEFINE new == [worker[w] EXCEPT !.step = "send", !.givenUp = {}]
<1>1. /\ worker[w].step = "revive" /\ Moves(w, new)
      /\ \/ /\ status' = [r \in Recipients |-> IF r \in Revivable(w) THEN "pending" ELSE status[r]]
            /\ attempts' = [r \in Recipients |-> IF r \in Revivable(w) THEN 0 ELSE attempts[r]]
         \/ UNCHANGED <<status, attempts>>
      /\ UNCHANGED <<job, due, day, age, lastError, sentToday, summary, request, copies, refused, lost, skipped>>
      /\ {crashes', defers', changes'} \subseteq {crashes, defers, changes, crashes + 1}
  BY DEF ReviveRecipients, Fault, Moves, jobVars, summaryVars, historyVars, boundVars
<1>2. /\ TypeOK /\ worker[w] \in Worker /\ Fits(worker[w], MaxDay) /\ MaxDay \in Nat /\ worker[w].row = 0
  BY <1>1, BeforeIs DEF AtRow
<1>3. /\ new \in Worker /\ new.step = "send" /\ new.batch = worker[w].batch /\ new.row = 0
      /\ new.allowance = worker[w].allowance /\ new.today = worker[w].today /\ new.held = worker[w].held
  BY <1>2 DEF Worker, Steps
<1> HIDE DEF new
<1>4. MaxDay' = MaxDay
  BY <1>1 DEF MaxDay
<1>5. Fits(new, MaxDay')
  BY <1>1, <1>2, <1>3, <1>4 DEF Fits, InHand, AtRow, Before
<1>6. RowsMove
  <2> SUFFICES ASSUME NEW r \in Recipients
               PROVE  /\ age'[r] = age[r] /\ attempts'[r] <= attempts[r]
                      /\ \/ status'[r] = status[r]
                         \/ /\ status[r] = "failed" /\ status'[r] = "pending"
                            /\ \A v \in Workers : r \notin worker[v].batch
    BY DEF RowsMove
  <2>1. r \in Revivable(w) => status[r] = "failed" /\ \A v \in Workers : r \notin worker[v].batch
    BY RevivableIs
  <2>2. attempts[r] \in Nat /\ age'[r] = age[r]
    BY <1>1, <1>2, TypeFacts
  <2> QED
    BY <1>1, <2>1, <2>2
<1>7. TypeOK'
  <2>1. status' \in [Recipients -> {"none", "pending", "sending", "sent", "failed"}]
    <3>1. status \in [Recipients -> {"none", "pending", "sending", "sent", "failed"}]
      BY <1>2 DEF TypeOK
    <3> QED
      BY <1>1, <3>1
  <2>4. attempts' \in [Recipients -> Nat]
    <3>1. attempts \in [Recipients -> Nat]
      BY <1>2 DEF TypeOK
    <3> QED
      BY <1>1, <3>1
  <2>2. {crashes', defers', changes'} \subseteq Nat
    BY <1>1, <1>2 DEF TypeOK
  <2>3. worker' \in [Workers -> Worker] /\ \A v \in Workers : worker'[v].row # 0 => worker'[v].row \in worker'[v].batch
    BY <1>1, <1>2, <1>3, MovesType
  <2> QED
    BY <1>1, <1>2, <2>1, <2>2, <2>3, <2>4 DEF TypeOK
<1>8. /\ worker[w].step \notin AtRow /\ new.step \notin AtRow /\ MaxDay <= MaxDay' /\ request' = request
      /\ UNCHANGED <<copies, refused, lost, skipped>>
  BY <1>1, <1>2, <1>3, <1>4 DEF AtRow
<1> QED
  BY <1>1, <1>3, <1>5, <1>6, <1>7, <1>8, QuietStep

----------------------------------------------------------------------------
(* The claim                                                               *)

LEMMA ClaimIs ==
  ASSUME IInv, NEW w \in Workers, ClaimRecipients(w)
  PROVE  LET F == FirstPending(worker[w].allowance)
         IN /\ worker[w].step = "claim" /\ worker[w].batch = {} /\ worker[w].row = 0 /\ worker[w].held = 0
            /\ F \subseteq Recipients
            /\ \A r \in F : status[r] = "pending" /\ \A v \in Workers : r \notin worker[v].batch
            /\ status' = [r \in Recipients |-> IF r \in F THEN "sending" ELSE status[r]]
            /\ attempts' = [r \in Recipients |-> IF r \in F THEN attempts[r] + 1 ELSE attempts[r]]
            /\ age' = [r \in Recipients |-> IF r \in F THEN 0 ELSE age[r]]
            /\ UNCHANGED <<job, due, day, lastError, sentToday, summary, request, boundVars, historyVars>>
            /\ \E new \in Worker :
                 /\ Moves(w, new) /\ new.step = (IF F = {} THEN "only" ELSE "look") /\ new.batch = F
                 /\ new.row = 0 /\ new.allowance = 0 /\ new.today = worker[w].today /\ new.held = 0
<1> DEFINE F   == FirstPending(worker[w].allowance)
           new == [worker[w] EXCEPT !.step = IF F = {} THEN "only" ELSE "look", !.batch = F, !.allowance = 0]
<1>1. /\ worker[w].step = "claim" /\ Moves(w, new)
      /\ status' = [r \in Recipients |-> IF r \in F THEN "sending" ELSE status[r]]
      /\ attempts' = [r \in Recipients |-> IF r \in F THEN attempts[r] + 1 ELSE attempts[r]]
      /\ age' = [r \in Recipients |-> IF r \in F THEN 0 ELSE age[r]]
      /\ UNCHANGED <<job, due, day, lastError, sentToday, summary, request, boundVars, historyVars>>
  BY DEF ClaimRecipients, Moves, Add, jobVars, summaryVars
<1>2. F \subseteq Recipients /\ \A r \in F : status[r] = "pending"
  BY DEF FirstPending, Rows
<1>3. worker[w] \in Worker /\ worker[w].batch = {} /\ worker[w].row = 0 /\ worker[w].held = 0
  BY <1>1, BeforeIs DEF Fits, InHand, AtRow, Before
<1>4. \A v \in Workers : \A s \in worker[v].batch : status[s] = "sending"
  BY DEF IInv, BatchesHere
<1> HIDE DEF F
<1>5. /\ new \in Worker /\ new.step = (IF F = {} THEN "only" ELSE "look") /\ new.batch = F
      /\ new.row = 0 /\ new.allowance = 0 /\ new.today = worker[w].today /\ new.held = 0
  BY <1>2, <1>3 DEF Worker, Steps
<1> HIDE DEF new
<1> QED
  BY <1>1, <1>2, <1>3, <1>4, <1>5 DEF F

LEMMA ClaimRecipientsIInv == ASSUME IInv, NEW w \in Workers, ClaimRecipients(w) PROVE IInv'
<1> DEFINE F == FirstPending(worker[w].allowance)
<1>1. /\ worker[w].step = "claim" /\ worker[w].batch = {} /\ F \subseteq Recipients
      /\ \A r \in F : status[r] = "pending" /\ \A v \in Workers : r \notin worker[v].batch
      /\ status' = [r \in Recipients |-> IF r \in F THEN "sending" ELSE status[r]]
      /\ attempts' = [r \in Recipients |-> IF r \in F THEN attempts[r] + 1 ELSE attempts[r]]
      /\ age' = [r \in Recipients |-> IF r \in F THEN 0 ELSE age[r]]
      /\ UNCHANGED <<job, due, day, lastError, sentToday, summary, request, boundVars, historyVars>>
  BY ClaimIs
<1>2. PICK new \in Worker :
        /\ Moves(w, new) /\ new.step = (IF F = {} THEN "only" ELSE "look") /\ new.batch = F
        /\ new.row = 0 /\ new.allowance = 0 /\ new.today = worker[w].today /\ new.held = 0
  BY ClaimIs
<1> HIDE DEF F
<1>3. /\ TypeOK /\ StepsHere /\ BatchesHere /\ Unqueued /\ CopiesHere /\ AttemptsHere
      /\ Fits(worker[w], MaxDay) /\ MaxDay \in Nat /\ MaxDay' = MaxDay
  BY <1>1, BeforeIs DEF IInv, MaxDay
<1>4. worker'[w] = new /\ \A v \in Workers : v # w => worker'[v] = worker[v]
  BY <1>2, <1>3, MovesIs
<1>5. TypeOK'
  <2>1. worker' \in [Workers -> Worker] /\ \A v \in Workers : worker'[v].row # 0 => worker'[v].row \in worker'[v].batch
    BY <1>2, <1>3, MovesType
  <2>2. /\ status' \in [Recipients -> {"none", "pending", "sending", "sent", "failed"}]
        /\ attempts' \in [Recipients -> Nat]
    BY <1>1, <1>3 DEF TypeOK
  <2>3. age' \in [Recipients -> 0..(Grace + 1)]
    BY <1>1, <1>3, Constants DEF TypeOK
  <2> QED
    BY <1>1, <1>3, <2>1, <2>2, <2>3 DEF TypeOK, boundVars, historyVars
<1>6. StepsHere'
  <2>1. new.today <= MaxDay' /\ new.today # 0
    BY <1>1, <1>2, <1>3 DEF Fits
  <2>2. Fits(new, MaxDay')
    BY <1>2, <2>1 DEF Fits, InHand, AtRow, Before
  <2> QED
    BY <1>2, <1>3, <2>2, StepsKept
<1>7. BatchesHere'
  <2> SUFFICES ASSUME NEW v \in Workers, NEW r \in worker'[v].batch
               PROVE  /\ status'[r] = "sending" /\ age'[r] <= worker'[v].held /\ worker'[v].held <= MaxBatch
                      /\ \A u \in Workers : u # v => r \notin worker'[u].batch
    BY DEF BatchesHere
  <2>1. CASE v = w
    <3>1. r \in F /\ worker'[v].held = 0 /\ r \in Recipients
      BY <1>1, <1>2, <1>4, <2>1
    <3> QED
      BY <1>1, <1>4, <2>1, <3>1, Constants
  <2>2. CASE v # w
    <3>1. r \in worker[v].batch /\ r \in Recipients /\ r \notin F /\ worker'[v].held = worker[v].held
      BY <1>1, <1>3, <1>4, <2>2, TypeFacts
    <3>2. /\ status[r] = "sending" /\ age[r] <= worker[v].held /\ worker[v].held <= MaxBatch
          /\ \A u \in Workers : u # v => r \notin worker[u].batch
      BY <1>3, <3>1 DEF BatchesHere
    <3> QED
      BY <1>1, <1>2, <1>4, <3>1, <3>2
  <2> QED
    BY <2>1, <2>2
<1>8. Unqueued'
  BY <1>1, <1>3 DEF Unqueued
<1>9. CopiesHere'
  <2>1. \A r \in Recipients : status[r] = "sent" => status'[r] = "sent"
    BY <1>1
  <2>2. \A r \in Recipients : Taken(r) => Taken(r)'
    BY <1>1, <1>2, <1>3, <2>1, TakenKept
  <2> QED
    BY <1>1, <1>3, <2>2, CopiesKept DEF historyVars
<1>10. AttemptsHere'
  <2> SUFFICES ASSUME NEW r \in Recipients, status'[r] # "sent"
               PROVE  attempts'[r] <= Tries(r)' + 1 /\ (attempts'[r] <= Tries(r)' \/ Trying(r)')
    BY DEF AttemptsHere
  <2>1. Tries(r)' = Tries(r) /\ Tries(r) \in Nat /\ attempts[r] \in Nat /\ status[r] # "sent"
    BY <1>1, <1>3, TypeFacts DEF Tries, historyVars
  <2>2. attempts[r] <= Tries(r) + 1 /\ (attempts[r] <= Tries(r) \/ Trying(r))
    BY <1>3, <2>1 DEF AttemptsHere
  <2>3. CASE r \in F
    <3>1. ~ Trying(r)
      BY <1>1, <2>3 DEF Trying
    <3>2. Trying(r)'
      BY <1>2, <1>4, <2>3 DEF Trying
    <3>3. attempts'[r] = attempts[r] + 1
      BY <1>1, <2>3
    <3> QED
      BY <2>1, <2>2, <3>1, <3>2, <3>3
  <2>4. CASE r \notin F
    <3>1. Trying(r) => Trying(r)'
      BY <1>1, <1>2, <1>3, TryingKept
    <3> QED
      BY <1>1, <2>1, <2>2, <2>4, <3>1
  <2> QED
    BY <2>3, <2>4
<1> QED
  BY <1>5, <1>6, <1>7, <1>8, <1>9, <1>10 DEF IInv

----------------------------------------------------------------------------
(* The rows of a batch, one by one                                         *)

\* What is known of the rows a tick holds, and of the one it is at.
LEMMA HeldIs ==
  ASSUME IInv, NEW w \in Workers, NEW r \in worker[w].batch
  PROVE  /\ r \in Recipients /\ status[r] = "sending" /\ \A v \in Workers : v # w => r \notin worker[v].batch
         /\ \A v \in Workers : v # w => worker[v].row # r
<1>1. r \in Recipients /\ TypeOK
  BY BeforeIs
<1>2. status[r] = "sending" /\ \A v \in Workers : v # w => r \notin worker[v].batch
  BY DEF IInv, BatchesHere
<1>3. \A v \in Workers : worker[v].row # 0 => worker[v].row \in worker[v].batch
  BY <1>1 DEF TypeOK
<1>4. r # 0
  BY <1>1, Constants
<1> QED
  BY <1>1, <1>2, <1>3, <1>4

LEMMA RowIs ==
  ASSUME IInv, NEW w \in Workers, worker[w].step \in AtRow
  PROVE  /\ worker[w].row \in worker[w].batch /\ worker[w].row \in Recipients /\ status[worker[w].row] = "sending"
         /\ worker[w].step \in InHand /\ worker[w].row # 0
<1>1. worker[w].row \in worker[w].batch
  BY BeforeIs DEF Fits
<1> QED
  BY <1>1, HeldIs, Constants DEF AtRow, InHand

\* A tick with rows in hand deals with some of them, or only turns to one.
LEMMA HandStep ==
  ASSUME IInv, NEW w \in Workers, NEW new \in Worker, Moves(w, new), worker[w].step \in InHand,
         new.batch \subseteq worker[w].batch,
         new.held = worker[w].held \/ new.batch = {},
         Fits(new, MaxDay), day' = day, request' = request, age' = age,
         \A r \in Recipients : status'[r] = status[r] \/ r \in worker[w].batch \ new.batch
  PROVE  StepsHere' /\ BatchesHere' /\ Unqueued'
<1>1. TypeOK /\ StepsHere /\ BatchesHere /\ Unqueued /\ MaxDay \in Nat /\ MaxDay' = MaxDay
  BY BeforeIs DEF IInv, MaxDay
<1>2. StepsHere'
  BY <1>1, StepsKept
<1>3. BatchesHere'
  <2>1. \A r \in new.batch : status'[r] = status[r] /\ age'[r] = age[r]
    BY BeforeIs
  <2>2. \A v \in Workers : v # w => \A r \in worker[v].batch : status'[r] = status[r] /\ age'[r] = age[r]
    BY HeldIs
  <2>3. new.batch # {} => new.held = worker[w].held
    OBVIOUS
  <2> QED
    BY <1>1, <2>1, <2>2, <2>3, BatchesKept
<1>4. Unqueued'
  BY <1>1, HeldIs DEF Unqueued
<1> QED
  BY <1>2, <1>3, <1>4

LEMMA HandType ==
  ASSUME IInv, NEW w \in Workers, NEW new \in Worker, Moves(w, new), new.row # 0 => new.row \in new.batch,
         status' \in [Recipients -> {"none", "pending", "sending", "sent", "failed"}],
         attempts' \in [Recipients -> Nat], lastError' \in [Recipients -> {"none", "defer", "count"}],
         sentToday' \subseteq Recipients,
         {copies', refused', lost', skipped'} \subseteq [Recipients -> Nat],
         {crashes', defers', changes'} \subseteq {crashes, defers, changes, crashes + 1, defers + 1},
         UNCHANGED <<job, due, day, age, summary, request>>
  PROVE  TypeOK'
<1>1. TypeOK
  BY DEF IInv
<1>2. worker' \in [Workers -> Worker] /\ \A v \in Workers : worker'[v].row # 0 => worker'[v].row \in worker'[v].batch
  BY <1>1, MovesType
<1>3. {crashes', defers', changes'} \subseteq Nat
  BY <1>1 DEF TypeOK
<1> QED
  BY <1>1, <1>2, <1>3 DEF TypeOK

\* The provider answers, or its answer is lost.
LEMMA SendIs ==
  ASSUME IInv, NEW w \in Workers, NEW r \in Recipients, Send(w, r)
  PROVE  /\ worker[w].step = "send" /\ r \in worker[w].batch
         /\ UNCHANGED <<jobVars, queueVars, summaryVars, skipped>>
         /\ {crashes', defers', changes'} \subseteq {crashes, defers, changes, crashes + 1, defers + 1}
         /\ \E new \in Worker :
              /\ Moves(w, new) /\ new.batch = worker[w].batch /\ new.row = r /\ new.allowance = worker[w].allowance
              /\ new.today = worker[w].today /\ new.held = worker[w].held
              /\ \/ new.step = "mark" /\ copies' = Add(copies, {r}) /\ UNCHANGED <<refused, lost>>
                 \/ new.step = "refused" /\ refused' = Add(refused, {r}) /\ UNCHANGED <<copies, lost>>
                 \/ new.step = "deferred" /\ UNCHANGED <<copies, refused, lost>>
                 \/ new.step = "deferred" /\ copies' = Add(copies, {r}) /\ lost' = Add(lost, {r}) /\ refused' = refused
<1> DEFINE To(s) == [worker[w] EXCEPT !.step = s, !.row = r]
<1>1. /\ worker[w].step = "send" /\ r \in worker[w].batch
      /\ UNCHANGED <<jobVars, queueVars, summaryVars, skipped>>
      /\ {crashes', defers', changes'} \subseteq {crashes, defers, changes, crashes + 1, defers + 1}
      /\ \/ Moves(w, To("mark")) /\ copies' = Add(copies, {r}) /\ UNCHANGED <<refused, lost>>
         \/ Moves(w, To("refused")) /\ refused' = Add(refused, {r}) /\ UNCHANGED <<copies, lost>>
         \/ Moves(w, To("deferred")) /\ UNCHANGED <<copies, refused, lost>>
         \/ Moves(w, To("deferred")) /\ copies' = Add(copies, {r}) /\ lost' = Add(lost, {r}) /\ refused' = refused
  BY DEF Send, Moves, Fault, boundVars
<1>2. worker[w] \in Worker
  BY BeforeIs
<1>3. \A s \in {"mark", "refused", "deferred"} :
        /\ To(s) \in Worker /\ To(s).step = s /\ To(s).batch = worker[w].batch /\ To(s).row = r
        /\ To(s).allowance = worker[w].allowance /\ To(s).today = worker[w].today /\ To(s).held = worker[w].held
  BY <1>2 DEF Worker, Steps
<1> HIDE DEF To
<1>4. "mark" \in {"mark", "refused", "deferred"} /\ "refused" \in {"mark", "refused", "deferred"} /\ "deferred" \in {"mark", "refused", "deferred"}
  OBVIOUS
<1> QED
  BY <1>1, <1>3, <1>4

LEMMA SendIInv == ASSUME IInv, NEW w \in Workers, NEW r \in Recipients, Send(w, r) PROVE IInv'
<1>1. /\ worker[w].step = "send" /\ r \in worker[w].batch
      /\ UNCHANGED <<jobVars, queueVars, summaryVars, skipped>>
      /\ {crashes', defers', changes'} \subseteq {crashes, defers, changes, crashes + 1, defers + 1}
  BY SendIs
<1>2. PICK new \in Worker :
        /\ Moves(w, new) /\ new.batch = worker[w].batch /\ new.row = r /\ new.allowance = worker[w].allowance
        /\ new.today = worker[w].today /\ new.held = worker[w].held
        /\ \/ new.step = "mark" /\ copies' = Add(copies, {r}) /\ UNCHANGED <<refused, lost>>
           \/ new.step = "refused" /\ refused' = Add(refused, {r}) /\ UNCHANGED <<copies, lost>>
           \/ new.step = "deferred" /\ UNCHANGED <<copies, refused, lost>>
           \/ new.step = "deferred" /\ copies' = Add(copies, {r}) /\ lost' = Add(lost, {r}) /\ refused' = refused
  BY SendIs
<1>3. /\ TypeOK /\ CopiesHere /\ AttemptsHere /\ Fits(worker[w], MaxDay) /\ worker[w].step \in InHand
      /\ status[r] = "sending" /\ \A v \in Workers : v # w => r \notin worker[v].batch /\ worker[v].row # r
  BY <1>1, BeforeIs, HeldIs DEF IInv, InHand
<1>4. worker'[w] = new /\ \A v \in Workers : v # w => worker'[v] = worker[v]
  BY <1>2, <1>3, MovesIs
<1>5. \A s \in Recipients :
        /\ copies[s] \in Nat /\ lost[s] \in Nat /\ refused[s] \in Nat /\ skipped[s] \in Nat
        /\ attempts[s] \in Nat /\ Tries(s) \in Nat
  BY <1>3, TypeFacts
<1>6. /\ {copies, refused, lost, skipped} \subseteq [Recipients -> Nat]
      /\ {copies', refused', lost', skipped'} \subseteq [Recipients -> Nat]
  <2>1. {copies, refused, lost, skipped} \subseteq [Recipients -> Nat]
    BY <1>3 DEF TypeOK
  <2> QED
    BY <1>1, <1>2, <2>1, AddIs
<1>7. TypeOK'
  BY <1>1, <1>2, <1>3, <1>6, HandType DEF TypeOK, jobVars, queueVars, summaryVars
<1>8. StepsHere' /\ BatchesHere' /\ Unqueued'
  <2>1. Fits(new, MaxDay)
    BY <1>1, <1>2, <1>3 DEF Fits, InHand, AtRow, Before
  <2> QED
    BY <1>1, <1>2, <1>3, <2>1, HandStep DEF jobVars, queueVars, summaryVars
<1>9. ASSUME NEW s \in Recipients
      PROVE  /\ copies'[s] = copies[s] /\ lost'[s] = lost[s] /\ refused'[s] = refused[s] /\ skipped'[s] = skipped[s]
             \/ /\ s = r /\ skipped'[s] = skipped[s]
                /\ \/ new.step = "mark" /\ copies'[s] = copies[s] + 1 /\ lost'[s] = lost[s] /\ refused'[s] = refused[s]
                   \/ new.step = "refused" /\ copies'[s] = copies[s] /\ lost'[s] = lost[s] /\ refused'[s] = refused[s] + 1
                   \/ new.step = "deferred" /\ copies'[s] = copies[s] /\ lost'[s] = lost[s] /\ refused'[s] = refused[s]
                   \/ new.step = "deferred" /\ copies'[s] = copies[s] + 1 /\ lost'[s] = lost[s] + 1 /\ refused'[s] = refused[s]
  <2>1. copies \in [Recipients -> Nat] /\ lost \in [Recipients -> Nat] /\ refused \in [Recipients -> Nat] /\ skipped' = skipped
    BY <1>1, <1>6
  <2>2. /\ Add(copies, {r})[s] = (IF s = r THEN copies[s] + 1 ELSE copies[s])
        /\ Add(lost, {r})[s] = (IF s = r THEN lost[s] + 1 ELSE lost[s])
        /\ Add(refused, {r})[s] = (IF s = r THEN refused[s] + 1 ELSE refused[s])
    BY <2>1, AddIs
  <2> QED
    BY <1>2, <2>1, <2>2
<1>10. CopiesHere'
  <2> SUFFICES ASSUME NEW s \in Recipients
               PROVE  copies'[s] <= lost'[s] + 1 /\ (copies'[s] <= lost'[s] \/ Taken(s)')
    BY DEF CopiesHere
  <2>1. copies[s] <= lost[s] + 1 /\ (copies[s] <= lost[s] \/ Taken(s))
    BY <1>3 DEF CopiesHere
  <2>2. Taken(s) => Taken(s)'
    BY <1>1, <1>2, <1>3, TakenKept DEF queueVars
  <2>3. s = r => ~ Taken(s)
    BY <1>1, <1>3 DEF Taken
  <2>4. s = r /\ new.step = "mark" => Taken(s)'
    BY <1>2, <1>4 DEF Taken
  <2> QED
    BY <1>5, <1>9, <2>1, <2>2, <2>3, <2>4
<1>11. AttemptsHere'
  <2> SUFFICES ASSUME NEW s \in Recipients, status[s] # "sent"
               PROVE  attempts[s] <= Tries(s)' + 1 /\ (attempts[s] <= Tries(s)' \/ Trying(s)')
    BY <1>1 DEF AttemptsHere, queueVars
  <2>1. attempts[s] <= Tries(s) + 1 /\ (attempts[s] <= Tries(s) \/ Trying(s))
    BY <1>3 DEF AttemptsHere
  <2>2. s # r \/ new.step # "refused" => (Trying(s) => Trying(s)')
    <3>1. (s # r \/ new.step # "refused") => (s \in worker[w].batch => s \in new.batch /\ (new.step = "refused" => new.row # s))
      BY <1>2
    <3> QED
      BY <1>2, <1>3, <3>1, TryingKept
  <2>3. Tries(s)' >= Tries(s) /\ (s = r /\ new.step = "refused" => Tries(s)' >= Tries(s) + 1) /\ Tries(s)' \in Nat
    <3>1. Tries(s) = refused[s] + lost[s] + skipped[s] /\ Tries(s)' = refused'[s] + lost'[s] + skipped'[s]
      BY DEF Tries
    <3>2. /\ lost'[s] >= lost[s] /\ lost'[s] \in Nat /\ skipped'[s] = skipped[s]
          /\ refused'[s] \in Nat /\ refused'[s] >= refused[s]
          /\ s = r /\ new.step = "refused" => refused'[s] = refused[s] + 1
      <4>1. s = r /\ new.step = "refused" => refused'[s] = refused[s] + 1
        BY <1>2, <1>6, AddIs
      <4> QED
        BY <1>5, <1>9, <4>1
    <3> QED
      BY <1>5, <3>1, <3>2
  <2>4. s = r /\ new.step = "refused" => attempts[s] <= Tries(s)'
    BY <1>5, <2>1, <2>3
  <2> QED
    BY <1>5, <2>1, <2>2, <2>3, <2>4
<1> QED
  BY <1>7, <1>8, <1>10, <1>11 DEF IInv

\* On to the next row, or to the end of the batch.
LEMMA NextRowIs ==
  ASSUME IInv, NEW w \in Workers, worker[w].step \in AtRow, NextRow(w)
  PROVE  \E new \in Worker :
           /\ Moves(w, new) /\ new.step \in {"finish", "send"} /\ new.batch = worker[w].batch \ {worker[w].row}
           /\ new.step = "finish" => new.batch = {}
           /\ new.row = 0 /\ new.allowance = worker[w].allowance
           /\ new.today = worker[w].today /\ new.held = worker[w].held
           /\ Fits(new, MaxDay)
<1> DEFINE rest == worker[w].batch \ {worker[w].row}
           new  == [worker[w] EXCEPT !.step = IF rest = {} THEN "finish" ELSE "send", !.batch = rest, !.row = 0]
<1>1. Moves(w, new)
  BY DEF NextRow, Moves
<1>2. worker[w] \in Worker /\ Fits(worker[w], MaxDay) /\ rest \subseteq Recipients
  BY BeforeIs
<1> HIDE DEF rest
<1>3. /\ new \in Worker /\ new.step = (IF rest = {} THEN "finish" ELSE "send") /\ new.batch = rest
      /\ new.row = 0 /\ new.allowance = worker[w].allowance
      /\ new.today = worker[w].today /\ new.held = worker[w].held
  BY <1>2 DEF Worker, Steps
<1> HIDE DEF new
<1>4. Fits(new, MaxDay)
  BY <1>2, <1>3 DEF Fits, AtRow, InHand, Before
<1> QED
  BY <1>1, <1>3, <1>4 DEF rest

LEMMA MarkRecipientSentIInv == ASSUME IInv, NEW w \in Workers, MarkRecipientSent(w) PROVE IInv'
<1> DEFINE r == worker[w].row
<1>1. /\ worker[w].step = "mark"
      /\ UNCHANGED <<job, due, day, attempts, age, lastError, summary, request, copies, refused, skipped>>
      /\ \/ status' = [status EXCEPT ![r] = "sent"] /\ sentToday' = sentToday \cup {r} /\ NextRow(w) /\ lost' = lost
            /\ UNCHANGED boundVars
         \/ lost' = Add(lost, {r}) /\ (Goto(w, "refused") \/ Goto(w, "deferred")) /\ UNCHANGED <<status, sentToday>>
            /\ Fault
  BY DEF MarkRecipientSent, jobVars, summaryVars
<1>2. {crashes', defers', changes'} \subseteq {crashes, defers, changes, crashes + 1, defers + 1}
  BY <1>1 DEF boundVars, Fault
<1>3. /\ TypeOK /\ CopiesHere /\ AttemptsHere /\ Fits(worker[w], MaxDay) /\ worker[w].step \in InHand
      /\ worker[w].step \in AtRow
      /\ r \in Recipients /\ r \in worker[w].batch /\ status[r] = "sending" /\ r # 0
  BY <1>1, BeforeIs, RowIs DEF IInv, InHand, AtRow
<1>4. \A v \in Workers : v # w => r \notin worker[v].batch /\ worker[v].row # r
  BY <1>3, HeldIs
<1>5. \A s \in Recipients :
        /\ copies[s] \in Nat /\ lost[s] \in Nat /\ refused[s] \in Nat /\ skipped[s] \in Nat
        /\ attempts[s] \in Nat /\ Tries(s) \in Nat
  BY <1>3, TypeFacts
<1>6. /\ {copies, refused, lost, skipped} \subseteq [Recipients -> Nat] /\ attempts \in [Recipients -> Nat]
      /\ lastError \in [Recipients -> {"none", "defer", "count"}]
      /\ status \in [Recipients -> {"none", "pending", "sending", "sent", "failed"}] /\ sentToday \subseteq Recipients
  BY <1>3 DEF TypeOK
<1> HIDE DEF r
<1>7. CASE status' = [status EXCEPT ![r] = "sent"] /\ sentToday' = sentToday \cup {r} /\ NextRow(w) /\ lost' = lost
  <2>1. PICK new \in Worker :
          /\ Moves(w, new) /\ new.step \in {"finish", "send"} /\ new.batch = worker[w].batch \ {r}
          /\ new.row = 0 /\ new.held = worker[w].held /\ Fits(new, MaxDay)
    BY <1>3, <1>7, NextRowIs DEF r
  <2>2. worker'[w] = new /\ \A v \in Workers : v # w => worker'[v] = worker[v]
    BY <1>3, <2>1, MovesIs
  <2>3. /\ status' \in [Recipients -> {"none", "pending", "sending", "sent", "failed"}]
        /\ status'[r] = "sent" /\ \A s \in Recipients : s # r => status'[s] = status[s]
    BY <1>3, <1>6, <1>7
  <2>4. sentToday' \subseteq Recipients
    BY <1>3, <1>6, <1>7
  <2>5. /\ {copies', refused', lost', skipped'} \subseteq [Recipients -> Nat] /\ attempts' \in [Recipients -> Nat]
        /\ lastError' \in [Recipients -> {"none", "defer", "count"}]
    BY <1>1, <1>6, <1>7
  <2>6. TypeOK'
    BY <1>1, <1>2, <2>1, <2>3, <2>4, <2>5, HandType
  <2>7. StepsHere' /\ BatchesHere' /\ Unqueued'
    BY <1>1, <1>3, <2>1, <2>3, HandStep
  <2>8. CopiesHere'
    <3> SUFFICES ASSUME NEW s \in Recipients, Taken(s) PROVE Taken(s)'
      BY <1>1, <1>3, <1>7, CopiesKept
    <3>1. CASE s = r
      BY <2>3, <3>1 DEF Taken
    <3>2. CASE s # r /\ status[s] = "sent"
      BY <2>3, <3>2 DEF Taken
    <3>3. CASE s # r /\ status[s] # "sent"
      <4>1. PICK v \in Workers : worker[v].step = "mark" /\ worker[v].row = s
        BY <3>3 DEF Taken
      <4>2. v # w
        BY <3>3, <4>1 DEF r
      <4> QED
        BY <2>2, <4>1, <4>2 DEF Taken
    <3> QED
      BY <3>1, <3>2, <3>3
  <2>9. AttemptsHere'
    <3> SUFFICES ASSUME NEW s \in Recipients, status'[s] # "sent"
                 PROVE  attempts[s] <= Tries(s) + 1 /\ (attempts[s] <= Tries(s) \/ Trying(s)')
      BY <1>1, <1>7 DEF AttemptsHere, Tries
    <3>1. s # r /\ status[s] # "sent"
      BY <2>3
    <3>2. Trying(s) => Trying(s)'
      BY <1>3, <2>1, <3>1, TryingKept
    <3> QED
      BY <1>3, <3>1, <3>2 DEF AttemptsHere
  <2> QED
    BY <2>6, <2>7, <2>8, <2>9 DEF IInv
<1>8. CASE lost' = Add(lost, {r}) /\ (Goto(w, "refused") \/ Goto(w, "deferred")) /\ UNCHANGED <<status, sentToday>>
  <2>1. PICK new \in Worker :
          /\ Moves(w, new) /\ new.step \in {"refused", "deferred"} /\ new.batch = worker[w].batch
          /\ new.row = r /\ new.allowance = worker[w].allowance
          /\ new.today = worker[w].today /\ new.held = worker[w].held
    <3>1. "refused" \in Steps /\ "deferred" \in Steps
      BY DEF Steps
    <3>2. ASSUME NEW s \in {"refused", "deferred"}, Goto(w, s)
          PROVE  \E new \in Worker :
                   /\ Moves(w, new) /\ new.step = s /\ new.batch = worker[w].batch /\ new.row = worker[w].row
                   /\ new.allowance = worker[w].allowance /\ new.today = worker[w].today /\ new.held = worker[w].held
      BY <1>3, <3>1, <3>2, GotoIs
    <3> QED
      BY <1>8, <3>2 DEF r
  <2>2. worker'[w] = new /\ \A v \in Workers : v # w => worker'[v] = worker[v]
    BY <1>3, <2>1, MovesIs
  <2>3. /\ lost' \in [Recipients -> Nat] /\ \A s \in Recipients : lost'[s] = IF s = r THEN lost[s] + 1 ELSE lost[s]
    <3>1. lost \in [Recipients -> Nat]
      BY <1>6
    <3> QED
      BY <1>8, <3>1, AddIs
  <2>4. /\ {copies', refused', lost', skipped'} \subseteq [Recipients -> Nat] /\ attempts' \in [Recipients -> Nat]
        /\ lastError' \in [Recipients -> {"none", "defer", "count"}]
        /\ status' \in [Recipients -> {"none", "pending", "sending", "sent", "failed"}] /\ sentToday' \subseteq Recipients
    BY <1>1, <1>6, <1>8, <2>3
  <2>5. TypeOK'
    BY <1>1, <1>2, <1>3, <2>1, <2>4, HandType
  <2>6. Fits(new, MaxDay)
    BY <1>1, <1>3, <2>1 DEF Fits, InHand, AtRow, Before
  <2>7. StepsHere' /\ BatchesHere' /\ Unqueued'
    BY <1>1, <1>3, <1>8, <2>1, <2>6, HandStep
  <2>8. CopiesHere'
    <3> SUFFICES ASSUME NEW s \in Recipients
                 PROVE  copies'[s] <= lost'[s] + 1 /\ (copies'[s] <= lost'[s] \/ Taken(s)')
      BY DEF CopiesHere
    <3>1. copies[s] <= lost[s] + 1 /\ (copies[s] <= lost[s] \/ Taken(s)) /\ copies'[s] = copies[s]
      BY <1>1, <1>3 DEF CopiesHere
    <3>2. s # r /\ Taken(s) => Taken(s)'
      <4> SUFFICES ASSUME s # r, Taken(s) PROVE Taken(s)'
        OBVIOUS
      <4>1. CASE status[s] = "sent"
        BY <1>8, <4>1 DEF Taken
      <4>2. CASE status[s] # "sent"
        <5>1. PICK v \in Workers : worker[v].step = "mark" /\ worker[v].row = s
          BY <4>2 DEF Taken
        <5>2. v # w
          BY <5>1 DEF r
        <5> QED
          BY <2>2, <5>1, <5>2 DEF Taken
      <4> QED
        BY <4>1, <4>2
    <3> QED
      BY <1>5, <2>3, <3>1, <3>2
  <2>9. AttemptsHere'
    <3> SUFFICES ASSUME NEW s \in Recipients, status[s] # "sent"
                 PROVE  attempts[s] <= Tries(s)' + 1 /\ (attempts[s] <= Tries(s)' \/ Trying(s)')
      BY <1>1, <1>8 DEF AttemptsHere
    <3>1. attempts[s] <= Tries(s) + 1 /\ (attempts[s] <= Tries(s) \/ Trying(s))
      BY <1>3 DEF AttemptsHere
    <3>2. Tries(s)' = (IF s = r THEN Tries(s) + 1 ELSE Tries(s))
      BY <1>1, <1>5, <2>3 DEF Tries
    <3>3. s # r => (Trying(s) => Trying(s)')
      <4>1. s # r => (s \in worker[w].batch => s \in new.batch /\ (new.step = "refused" => new.row # s))
        BY <2>1
      <4> QED
        BY <1>3, <2>1, <4>1, TryingKept
    <3> QED
      BY <1>5, <3>1, <3>2, <3>3
  <2> QED
    BY <2>5, <2>7, <2>8, <2>9 DEF IInv
<1> QED
  BY <1>1, <1>7, <1>8

\* The attempt at a row that was refused is among those counted.
LEMMA RefusedIs ==
  ASSUME IInv, NEW w \in Workers, worker[w].step = "refused"
  PROVE  attempts[worker[w].row] <= Tries(worker[w].row)
<1> DEFINE r == worker[w].row
<1>1. r \in worker[w].batch /\ r \in Recipients /\ status[r] = "sending"
  BY RowIs DEF AtRow
<1>2. ~ Trying(r)
  BY <1>1, HeldIs DEF Trying
<1> QED
  BY <1>1, <1>2 DEF IInv, AttemptsHere

LEMMA MarkRecipientFailedIInv == ASSUME IInv, NEW w \in Workers, MarkRecipientFailed(w) PROVE IInv'
<1> DEFINE r == worker[w].row
           x == IF attempts[r] >= MaxAttempts THEN "failed" ELSE "pending"
<1>1. /\ worker[w].step = "refused" /\ NextRow(w)
      /\ UNCHANGED <<job, due, day, attempts, age, sentToday, summary, request, copies, refused, lost, skipped>>
      /\ UNCHANGED boundVars
      /\ status' = [status EXCEPT ![r] = x] /\ lastError' = [lastError EXCEPT ![r] = "count"]
  BY DEF MarkRecipientFailed, jobVars, summaryVars, historyVars
<1>2. {crashes', defers', changes'} \subseteq {crashes, defers, changes, crashes + 1, defers + 1}
  BY <1>1 DEF boundVars
<1>3. /\ TypeOK /\ CopiesHere /\ AttemptsHere /\ worker[w].step \in InHand /\ worker[w].step \in AtRow
      /\ r \in Recipients /\ r \in worker[w].batch /\ status[r] = "sending"
  BY <1>1, RowIs DEF IInv, InHand, AtRow
<1>4. x \in {"failed", "pending"}
  OBVIOUS
<1>5. PICK new \in Worker :
        /\ Moves(w, new) /\ new.step \in {"finish", "send"} /\ new.batch = worker[w].batch \ {r}
        /\ new.row = 0 /\ new.held = worker[w].held /\ Fits(new, MaxDay)
  BY <1>1, <1>3, NextRowIs
<1> HIDE DEF x
<1>6. /\ {copies, refused, lost, skipped} \subseteq [Recipients -> Nat] /\ attempts \in [Recipients -> Nat]
      /\ lastError \in [Recipients -> {"none", "defer", "count"}]
      /\ status \in [Recipients -> {"none", "pending", "sending", "sent", "failed"}] /\ sentToday \subseteq Recipients
  BY <1>3 DEF TypeOK
<1>7. /\ status' \in [Recipients -> {"none", "pending", "sending", "sent", "failed"}]
      /\ status'[r] = x /\ \A s \in Recipients : s # r => status'[s] = status[s]
  BY <1>1, <1>3, <1>4, <1>6
<1>8. lastError' \in [Recipients -> {"none", "defer", "count"}]
  BY <1>1, <1>6
<1>9. /\ {copies', refused', lost', skipped'} \subseteq [Recipients -> Nat] /\ attempts' \in [Recipients -> Nat]
      /\ sentToday' \subseteq Recipients
  BY <1>1, <1>6
<1> HIDE DEF r
<1>10. TypeOK'
  BY <1>1, <1>2, <1>5, <1>7, <1>8, <1>9, HandType
<1>11. StepsHere' /\ BatchesHere' /\ Unqueued'
  BY <1>1, <1>3, <1>5, <1>7, HandStep
<1>12. CopiesHere'
  <2>1. \A s \in Recipients : status[s] = "sent" => status'[s] = "sent"
    BY <1>3, <1>7
  <2>2. \A s \in Recipients : Taken(s) => Taken(s)'
    BY <1>1, <1>3, <1>5, <2>1, TakenKept
  <2> QED
    BY <1>1, <1>3, <2>2, CopiesKept
<1>13. AttemptsHere'
  <2> SUFFICES ASSUME NEW s \in Recipients, status'[s] # "sent"
               PROVE  attempts[s] <= Tries(s) + 1 /\ (attempts[s] <= Tries(s) \/ Trying(s)')
    BY <1>1 DEF AttemptsHere, Tries
  <2>1. status[s] # "sent"
    BY <1>3, <1>7
  <2>2. Trying(s) => Trying(s)'
    <3>1. s \in worker[w].batch => worker[w].row = s \/ (s \in new.batch /\ new.step # "refused")
      BY <1>5 DEF r
    <3> QED
      BY <1>1, <1>3, <1>5, <3>1, TryingKept
  <2> QED
    BY <1>3, <2>1, <2>2 DEF AttemptsHere
<1> QED
  BY <1>10, <1>11, <1>12, <1>13 DEF IInv

\* A tick that ends with rows in hand: it lets go of them, and each has its attempt accounted for.
LEMMA LetGo ==
  ASSUME IInv, NEW w \in Workers, EndTick(w), TypeOK',
         day' = day, request' = request, age' = age, copies' = copies, refused' = refused,
         \A r \in Recipients : status'[r] = status[r] \/ (r \in worker[w].batch /\ status'[r] # "sent"),
         \A r \in Recipients : lost'[r] >= lost[r] /\ skipped'[r] >= skipped[r] /\ attempts'[r] <= attempts[r],
         worker[w].step = "mark" => lost'[worker[w].row] = lost[worker[w].row] + 1,
         \A r \in worker[w].batch : attempts'[r] <= refused[r] + lost'[r] + skipped'[r]
  PROVE  IInv'
<1>1. /\ TypeOK /\ StepsHere /\ CopiesHere /\ AttemptsHere /\ Unqueued /\ BatchesHere /\ MaxDay \in Nat /\ MaxDay' = MaxDay
  BY BeforeIs DEF IInv, MaxDay
<1>2. Moves(w, Idle) /\ Idle.batch = {} /\ Idle \in Worker
  BY EndsIs, Constants
<1>3. worker'[w] = Idle /\ \A v \in Workers : v # w => worker'[v] = worker[v]
  BY <1>1, <1>2, MovesIs
<1>4. \A s \in Recipients :
        /\ copies[s] \in Nat /\ lost[s] \in Nat /\ refused[s] \in Nat /\ skipped[s] \in Nat
        /\ attempts[s] \in Nat /\ Tries(s) \in Nat
  BY <1>1, TypeFacts
<1>5. \A s \in Recipients : lost'[s] \in Nat /\ skipped'[s] \in Nat /\ attempts'[s] \in Nat
  BY DEF TypeOK
<1>6. StepsHere'
  <2>1. Fits(Idle, MaxDay')
    BY <1>1, Constants DEF Fits, InHand, AtRow, Before
  <2> QED
    BY <1>1, <1>2, <2>1, StepsKept
<1>7. BatchesHere'
  <2>1. \A v \in Workers : v # w => \A r \in worker[v].batch : status'[r] = status[r] /\ age'[r] = age[r]
    BY HeldIs
  <2> QED
    BY <1>1, <1>2, <2>1, BatchesKept
<1>8. Unqueued'
  BY <1>1, HeldIs DEF Unqueued
<1>9. CopiesHere'
  <2> SUFFICES ASSUME NEW s \in Recipients
               PROVE  copies[s] <= lost'[s] + 1 /\ (copies[s] <= lost'[s] \/ Taken(s)')
    BY DEF CopiesHere
  <2>1. copies[s] <= lost[s] + 1 /\ (copies[s] <= lost[s] \/ Taken(s))
    BY <1>1 DEF CopiesHere
  <2>2. Taken(s) => Taken(s)' \/ lost'[s] = lost[s] + 1
    <3>1. CASE status[s] = "sent"
      <4>1. status'[s] = "sent"
        BY <3>1, HeldIs
      <4> QED
        BY <4>1 DEF Taken
    <3>2. ASSUME NEW v \in Workers, worker[v].step = "mark", worker[v].row = s
          PROVE  Taken(s)' \/ lost'[s] = lost[s] + 1
      BY <1>3, <3>2 DEF Taken
    <3> QED
      BY <3>1, <3>2 DEF Taken
  <2> QED
    BY <1>4, <1>5, <2>1, <2>2
<1>10. AttemptsHere'
  <2> SUFFICES ASSUME NEW s \in Recipients, status'[s] # "sent"
               PROVE  attempts'[s] <= Tries(s)' + 1 /\ (attempts'[s] <= Tries(s)' \/ Trying(s)')
    BY DEF AttemptsHere
  <2>1. Tries(s)' = refused[s] + lost'[s] + skipped'[s] /\ Tries(s) = refused[s] + lost[s] + skipped[s]
    BY DEF Tries
  <2>2. Tries(s)' \in Nat /\ Tries(s) <= Tries(s)'
    BY <1>4, <1>5, <2>1
  <2>3. CASE s \in worker[w].batch
    BY <1>5, <2>1, <2>2, <2>3
  <2>4. CASE s \notin worker[w].batch
    <3>1. status[s] # "sent"
      BY <2>4
    <3>2. attempts[s] <= Tries(s) + 1 /\ (attempts[s] <= Tries(s) \/ Trying(s))
      BY <1>1, <3>1 DEF AttemptsHere
    <3>3. Trying(s) => Trying(s)'
      BY <1>1, <1>2, <2>4, TryingKept
    <3> QED
      BY <1>4, <1>5, <2>2, <3>2, <3>3
  <2> QED
    BY <2>3, <2>4
<1> QED
  BY <1>6, <1>7, <1>8, <1>9, <1>10 DEF IInv

LEMMA DeferRecipientIInv == ASSUME IInv, NEW w \in Workers, DeferRecipient(w) PROVE IInv'
<1> DEFINE r    == worker[w].row
           rest == worker[w].batch \ {r}
           n    == Refund(r)
<1>1. /\ worker[w].step = "deferred" /\ EndTick(w)
      /\ UNCHANGED <<job, due, day, age, sentToday, summary, request, copies, refused, lost>>
      /\ UNCHANGED boundVars
      /\ status' = [status EXCEPT ![r] = "pending"] /\ lastError' = [lastError EXCEPT ![r] = "defer"]
      /\ attempts' = [attempts EXCEPT ![r] = n] /\ skipped' = Add(skipped, rest)
  BY DEF DeferRecipient, jobVars, summaryVars
<1>2. {crashes', defers', changes'} \subseteq {crashes, defers, changes, crashes + 1, defers + 1}
  BY <1>1 DEF boundVars
<1>3. /\ TypeOK /\ AttemptsHere /\ r \in Recipients /\ r \in worker[w].batch /\ status[r] = "sending"
      /\ worker[w].batch \subseteq Recipients
  BY <1>1, BeforeIs, RowIs DEF IInv, AtRow
<1>4. /\ {copies, refused, lost, skipped} \subseteq [Recipients -> Nat] /\ attempts \in [Recipients -> Nat]
      /\ lastError \in [Recipients -> {"none", "defer", "count"}]
      /\ status \in [Recipients -> {"none", "pending", "sending", "sent", "failed"}] /\ sentToday \subseteq Recipients
  BY <1>3 DEF TypeOK
<1>5. n \in Nat /\ n <= attempts[r] /\ (n = 0 \/ n = attempts[r] - 1)
  <2>1. attempts[r] \in Nat
    BY <1>3, <1>4
  <2>2. CASE attempts[r] = 0
    <3>1. Max({0, 0 - 1}) = 0
      <4>1. 0 \in {0, 0 - 1} /\ \A y \in {0, 0 - 1} : 0 >= y
        OBVIOUS
      <4>2. Max({0, 0 - 1}) \in {0, 0 - 1} /\ \A y \in {0, 0 - 1} : Max({0, 0 - 1}) >= y
        BY <4>1 DEF Max
      <4> QED
        BY <4>2
    <3> QED
      BY <2>2, <3>1 DEF Refund
  <2>3. CASE attempts[r] # 0
    <3> DEFINE m == attempts[r] - 1
    <3>1. m \in Nat /\ m < attempts[r]
      BY <2>1, <2>3
    <3>2. n = Max({0, m})
      BY DEF Refund
    <3> HIDE DEF m, n
    <3>3. n \in {0, m} /\ n >= 0 /\ n \in Nat
      BY <3>1, <3>2, MaxOfTwo
    <3> QED
      BY <2>1, <3>1, <3>3 DEF m
  <2> QED
    BY <2>2, <2>3
<1> HIDE DEF n
<1>6. attempts' \in [Recipients -> Nat] /\ attempts'[r] = n /\ \A s \in Recipients : s # r => attempts'[s] = attempts[s]
  BY <1>1, <1>3, <1>4, <1>5
<1>7. /\ status' \in [Recipients -> {"none", "pending", "sending", "sent", "failed"}]
      /\ status'[r] = "pending" /\ \A s \in Recipients : s # r => status'[s] = status[s]
  BY <1>1, <1>3, <1>4
<1>8. skipped' \in [Recipients -> Nat] /\ \A s \in Recipients : skipped'[s] = IF s \in rest THEN skipped[s] + 1 ELSE skipped[s]
  <2>1. skipped \in [Recipients -> Nat]
    BY <1>4
  <2> QED
    BY <1>1, <2>1, AddIs
<1>9. lastError' \in [Recipients -> {"none", "defer", "count"}]
  BY <1>1, <1>4
<1>10. {copies', refused', lost', skipped'} \subseteq [Recipients -> Nat] /\ sentToday' \subseteq Recipients
  BY <1>1, <1>4, <1>8
<1>11. \A s \in Recipients :
        /\ copies[s] \in Nat /\ lost[s] \in Nat /\ refused[s] \in Nat /\ skipped[s] \in Nat
        /\ attempts[s] \in Nat /\ Tries(s) \in Nat
  BY <1>3, TypeFacts
<1> HIDE DEF r
<1>12. TypeOK'
  BY <1>1, <1>2, <1>6, <1>7, <1>9, <1>10, EndsIs, Constants, HandType
<1>13. ASSUME NEW s \in worker[w].batch
       PROVE  attempts'[s] <= refused[s] + lost'[s] + skipped'[s]
  <2>1. s \in Recipients /\ status[s] = "sending"
    BY HeldIs
  <2>2. attempts[s] <= Tries(s) + 1 /\ Tries(s) = refused[s] + lost[s] + skipped[s] /\ lost'[s] = lost[s]
    BY <1>1, <1>3, <2>1 DEF AttemptsHere, Tries
  <2>3. CASE s = r
    BY <1>5, <1>6, <1>8, <1>11, <2>1, <2>2, <2>3
  <2>4. CASE s # r
    <3>1. attempts'[s] = attempts[s] /\ skipped'[s] = skipped[s] + 1
      BY <1>6, <1>8, <2>1, <2>4
    <3> QED
      BY <1>11, <2>1, <2>2, <3>1
  <2> QED
    BY <2>3, <2>4
<1>14. ASSUME NEW s \in Recipients PROVE lost'[s] >= lost[s] /\ skipped'[s] >= skipped[s] /\ attempts'[s] <= attempts[s]
  <2>1. lost'[s] = lost[s] /\ (skipped'[s] = skipped[s] \/ skipped'[s] = skipped[s] + 1)
    BY <1>1, <1>8
  <2>2. attempts'[s] <= attempts[s]
    BY <1>5, <1>6, <1>11
  <2> QED
    BY <1>11, <2>1, <2>2
<1>15. \A s \in Recipients : status'[s] = status[s] \/ (s \in worker[w].batch /\ status'[s] # "sent")
  BY <1>3, <1>7
<1> QED
  BY <1>1, <1>12, <1>13, <1>14, <1>15, LetGo

LEMMA CrashIInv == ASSUME IInv, NEW w \in Workers, Crash(w) PROVE IInv'
<1> DEFINE r    == worker[w].row
           rest == worker[w].batch \ (IF worker[w].step = "deferred" THEN {} ELSE {r})
<1>1. /\ EndTick(w) /\ lost' = (IF worker[w].step = "mark" THEN Add(lost, {r}) ELSE lost) /\ skipped' = Add(skipped, rest)
      /\ UNCHANGED <<job, due, day, status, attempts, age, lastError, sentToday, summary, request, copies, refused>>
      /\ Fault
  BY DEF Crash, jobVars, queueVars, summaryVars
<1>2. {crashes', defers', changes'} \subseteq {crashes, defers, changes, crashes + 1, defers + 1}
  BY <1>1 DEF Fault
<1>3. TypeOK /\ AttemptsHere /\ worker[w].batch \subseteq Recipients /\ Fits(worker[w], MaxDay) /\ r \in Recipients \cup {0}
  BY BeforeIs, TypeFacts DEF IInv
<1>4. {copies, refused, lost, skipped} \subseteq [Recipients -> Nat]
  BY <1>3 DEF TypeOK
<1>5. skipped' \in [Recipients -> Nat] /\ \A s \in Recipients : skipped'[s] = IF s \in rest THEN skipped[s] + 1 ELSE skipped[s]
  <2>1. skipped \in [Recipients -> Nat]
    BY <1>4
  <2> QED
    BY <1>1, <2>1, AddIs
<1>6. /\ lost' \in [Recipients -> Nat]
      /\ \A s \in Recipients : lost'[s] = IF worker[w].step = "mark" /\ s = r THEN lost[s] + 1 ELSE lost[s]
  <2>1. lost \in [Recipients -> Nat]
    BY <1>4
  <2> QED
    BY <1>1, <2>1, AddIs
<1>7. \A s \in Recipients :
        /\ copies[s] \in Nat /\ lost[s] \in Nat /\ refused[s] \in Nat /\ skipped[s] \in Nat
        /\ attempts[s] \in Nat /\ Tries(s) \in Nat
  BY <1>3, TypeFacts
<1>8. {copies', refused', lost', skipped'} \subseteq [Recipients -> Nat]
  BY <1>1, <1>4, <1>5, <1>6
<1>9. TypeOK'
  BY <1>1, <1>2, <1>3, <1>8, EndsIs, Constants, HandType DEF TypeOK
<1>10. worker[w].step = "mark" => r \in Recipients /\ lost'[r] = lost[r] + 1
  BY <1>6, RowIs DEF AtRow
<1>11. ASSUME NEW s \in worker[w].batch
       PROVE  attempts'[s] <= refused[s] + lost'[s] + skipped'[s]
  <2>1. s \in Recipients /\ status[s] = "sending" /\ s # 0
    BY HeldIs, Constants
  <2>2. attempts[s] <= Tries(s) + 1 /\ Tries(s) = refused[s] + lost[s] + skipped[s] /\ attempts' = attempts
    BY <1>1, <1>3, <2>1 DEF AttemptsHere, Tries
  <2>3. lost'[s] >= lost[s] /\ skipped'[s] >= skipped[s] /\ lost'[s] \in Nat /\ skipped'[s] \in Nat
    BY <1>5, <1>6, <1>7, <2>1
  <2>4. CASE s \in rest
    <3>1. skipped'[s] = skipped[s] + 1
      BY <1>5, <2>1, <2>4
    <3> QED
      BY <1>7, <2>1, <2>2, <2>3, <3>1
  <2>5. CASE s \notin rest /\ worker[w].step = "mark"
    <3>1. s = r
      BY <2>5
    <3>2. lost'[s] = lost[s] + 1
      BY <1>10, <2>5, <3>1
    <3> QED
      BY <1>7, <2>1, <2>2, <2>3, <3>2
  <2>6. CASE s \notin rest /\ worker[w].step # "mark"
    <3>1. s = r /\ worker[w].step \in AtRow /\ worker[w].step # "deferred"
      BY <1>3, <2>1, <2>6 DEF Fits
    <3>2. worker[w].step = "refused"
      BY <2>6, <3>1 DEF AtRow
    <3>3. attempts[s] <= Tries(s)
      BY <3>1, <3>2, RefusedIs
    <3> QED
      BY <1>7, <2>1, <2>2, <2>3, <3>3
  <2> QED
    BY <2>4, <2>5, <2>6
<1>12. ASSUME NEW s \in Recipients PROVE lost'[s] >= lost[s] /\ skipped'[s] >= skipped[s] /\ attempts'[s] <= attempts[s]
  <2>1. /\ lost'[s] = lost[s] \/ lost'[s] = lost[s] + 1
        /\ skipped'[s] = skipped[s] \/ skipped'[s] = skipped[s] + 1
    BY <1>5, <1>6
  <2>2. attempts'[s] = attempts[s]
    BY <1>1
  <2> QED
    BY <1>7, <2>1, <2>2
<1>13. \A s \in Recipients : status'[s] = status[s] \/ (s \in worker[w].batch /\ status'[s] # "sent")
  BY <1>1
<1> QED
  BY <1>1, <1>9, <1>10, <1>11, <1>12, <1>13, LetGo

----------------------------------------------------------------------------
(* The admin, and time                                                     *)

\* A step that leaves the ticks and the queue as they are.
LEMMA Aside ==
  ASSUME IInv, TypeOK', UNCHANGED <<worker, status, attempts, age, historyVars>>, MaxDay <= MaxDay', MaxDay' \in Nat,
         request' = request \/ request' # "create"
  PROVE  IInv'
<1>1. /\ TypeOK /\ StepsHere /\ BatchesHere /\ Unqueued /\ CopiesHere /\ AttemptsHere
      /\ MaxDay \in Nat /\ \A w \in Workers : worker[w].today \in Nat
  BY TypeFacts DEF IInv
<1>2. StepsHere'
  <2> SUFFICES ASSUME NEW w \in Workers PROVE Fits(worker[w], MaxDay')
    BY DEF StepsHere
  <2>1. Fits(worker[w], MaxDay) /\ worker[w].today \in Nat
    BY <1>1 DEF StepsHere
  <2>2. worker[w].today <= MaxDay'
    BY <1>1, <2>1 DEF Fits
  <2> QED
    BY <2>1, <2>2 DEF Fits
<1>3. BatchesHere'
  BY <1>1 DEF BatchesHere
<1>4. Unqueued'
  BY <1>1 DEF Unqueued
<1>5. CopiesHere' /\ AttemptsHere'
  BY <1>1 DEF CopiesHere, AttemptsHere, Taken, Trying, Tries, historyVars
<1> QED
  BY <1>2, <1>3, <1>4, <1>5 DEF IInv

LEMMA CreateSendJobIInv == ASSUME IInv, CreateSendJob PROVE IInv'
<1>1. /\ request = "create" /\ job' = "queued" /\ request' = "stamp"
      /\ status' = [r \in Recipients |-> "pending"]
      /\ UNCHANGED <<due, day, attempts, age, lastError, sentToday, summary, worker, crashes, defers, changes>>
      /\ UNCHANGED <<copies, refused, lost, skipped>>
  BY DEF CreateSendJob, summaryVars, boundVars, historyVars
<1>2. /\ TypeOK /\ StepsHere /\ BatchesHere /\ CopiesHere /\ AttemptsHere /\ MaxDay' = MaxDay
      /\ \A r \in Recipients : status[r] = "none"
  BY <1>1 DEF IInv, Unqueued, MaxDay
<1>3. TypeOK'
  BY <1>1, <1>2 DEF TypeOK
<1>4. \A w \in Workers : worker[w].batch = {}
  BY <1>2, HeldIs
<1>5. StepsHere'
  BY <1>1, <1>2 DEF StepsHere
<1>6. BatchesHere' /\ Unqueued'
  BY <1>1, <1>4 DEF BatchesHere, Unqueued
<1>7. CopiesHere' /\ AttemptsHere'
  BY <1>1, <1>2 DEF CopiesHere, AttemptsHere, Taken, Trying, Tries
<1> QED
  BY <1>3, <1>5, <1>6, <1>7 DEF IInv

LEMMA StampSummaryIInv == ASSUME IInv, StampSummary PROVE IInv'
<1>1. TypeOK /\ MaxDay' = MaxDay /\ MaxDay \in Nat
  BY TypeFacts DEF IInv, StampSummary, MaxDay, jobVars
<1>2. TypeOK'
  BY <1>1 DEF StampSummary, TypeOK, jobVars, queueVars, boundVars, historyVars
<1> QED
  BY <1>1, <1>2, Aside DEF StampSummary, queueVars

LEMMA SetJobStatusIInv ==
  ASSUME IInv, NEW s \in {"paused", "running", "cancelled"}, SetJobStatus(s)
  PROVE  IInv'
<1>1. TypeOK /\ MaxDay' = MaxDay /\ MaxDay \in Nat
  BY TypeFacts DEF IInv, SetJobStatus, MaxDay
<1>2. TypeOK'
  <2>1. changes' \in Nat
    BY <1>1 DEF SetJobStatus, TypeOK
  <2> QED
    BY <1>1, <2>1 DEF SetJobStatus, TypeOK, queueVars, summaryVars, historyVars
<1> QED
  BY <1>1, <1>2, Aside DEF SetJobStatus, queueVars, summaryVars

LEMMA ComesDueIInv == ASSUME IInv, ComesDue PROVE IInv'
<1>1. TypeOK /\ MaxDay' = MaxDay /\ MaxDay \in Nat
  BY TypeFacts DEF IInv, ComesDue, MaxDay
<1>2. TypeOK'
  BY <1>1 DEF ComesDue, TypeOK, queueVars, summaryVars, boundVars, historyVars
<1> QED
  BY <1>1, <1>2, Aside DEF ComesDue, queueVars, summaryVars

\* The day of a send goes forward, as far as there are caps for.
LEMMA NextDayIs ==
  ASSUME TypeOK, Midnight
  PROVE  day' \in 0..Len(CapOn) /\ MaxDay <= MaxDay' /\ MaxDay' \in Nat /\ MaxDay' \in 1..Len(CapOn)
<1>1. day \in 0..Len(CapOn) /\ Len(CapOn) \in Nat
  BY TypeFacts, Constants
<1>2. CASE day = 0
  BY <1>1, <1>2, MaxDayIs DEF Midnight, MaxDay
<1>3. CASE day # 0
  <2> DEFINE d == day + 1
  <2>1. d \in Nat /\ day' = Min({Len(CapOn), d}) /\ day \in Nat
    BY <1>1, <1>3 DEF Midnight, NextDay
  <2> HIDE DEF d
  <2>2. day' \in {Len(CapOn), d} /\ day' <= Len(CapOn) /\ day' <= d
    BY <1>1, <2>1, MinOfTwo
  <2>3. day' \in 0..Len(CapOn) /\ day <= day'
    BY <1>1, <2>1, <2>2 DEF d
  <2>4. /\ Max({1, day}) \in {1, day} /\ Max({1, day'}) \in 1..Len(CapOn)
        /\ 1 <= Max({1, day'}) /\ day' <= Max({1, day'})
    BY <1>1, <2>3, MaxDayIs
  <2>5. Max({1, day}) <= Max({1, day'})
    BY <1>1, <2>1, <2>3, <2>4
  <2> QED
    BY <1>1, <2>3, <2>4, <2>5 DEF MaxDay
<1> QED
  BY <1>2, <1>3

LEMMA MidnightIInv == ASSUME IInv, Midnight PROVE IInv'
<1>1. TypeOK
  BY DEF IInv
<1>2. TypeOK'
  BY <1>1, NextDayIs DEF Midnight, TypeOK, summaryVars, boundVars, historyVars
<1> QED
  BY <1>1, <1>2, NextDayIs, Aside DEF Midnight, summaryVars

\* Rows age as long as they are held, and no longer.
LEMMA TimePassesIInv == ASSUME IInv, TimePasses PROVE IInv'
<1>1. /\ \A w \in Workers : Busy(w) => worker[w].held < MaxBatch
      /\ age' = [r \in Recipients |-> IF status[r] = "sending" THEN Min({Grace + 1, age[r] + 1}) ELSE age[r]]
      /\ worker' = [w \in Workers |-> IF Busy(w) THEN [worker[w] EXCEPT !.held = @ + 1] ELSE worker[w]]
      /\ UNCHANGED <<job, due, day, status, attempts, lastError, sentToday, summary, request, crashes, defers, changes>>
      /\ UNCHANGED <<copies, refused, lost, skipped>>
  BY DEF TimePasses, jobVars, summaryVars, boundVars, historyVars
<1>2. /\ TypeOK /\ StepsHere /\ BatchesHere /\ Unqueued /\ CopiesHere /\ AttemptsHere
      /\ MaxDay' = MaxDay
  BY <1>1 DEF IInv, MaxDay
<1>3. ASSUME NEW w \in Workers
      PROVE  /\ worker'[w] \in Worker /\ worker'[w].step = worker[w].step /\ worker'[w].batch = worker[w].batch
             /\ worker'[w].row = worker[w].row /\ worker'[w].allowance = worker[w].allowance
             /\ worker'[w].today = worker[w].today
             /\ worker'[w].held = IF worker[w].batch # {} THEN worker[w].held + 1 ELSE worker[w].held
  <2>1. worker[w] \in Worker
    BY <1>2, TypeFacts
  <2> DEFINE new == [worker[w] EXCEPT !.held = @ + 1]
  <2>2. worker'[w] = IF worker[w].batch # {} THEN new ELSE worker[w]
    BY <1>1 DEF Busy
  <2>3. /\ new \in Worker /\ new.step = worker[w].step /\ new.batch = worker[w].batch /\ new.row = worker[w].row
        /\ new.allowance = worker[w].allowance /\ new.today = worker[w].today /\ new.held = worker[w].held + 1
    BY <2>1 DEF Worker
  <2> HIDE DEF new
  <2> QED
    BY <2>1, <2>2, <2>3
<1>4. ASSUME NEW r \in Recipients
      PROVE  age'[r] \in 0..(Grace + 1) /\ age'[r] <= age[r] + 1
  <2> DEFINE a == age[r] + 1
             g == Grace + 1
  <2>1. a \in Nat /\ g \in Nat /\ age[r] \in 0..g /\ age[r] \in Nat
    BY <1>2, Constants, TypeFacts DEF TypeOK
  <2>2. age'[r] = IF status[r] = "sending" THEN Min({g, a}) ELSE age[r]
    BY <1>1
  <2> HIDE DEF g, a
  <2>3. Min({g, a}) \in {g, a} /\ Min({g, a}) <= g /\ Min({g, a}) <= a
    BY <2>1, MinOfTwo
  <2>4. Min({g, a}) \in 0..g /\ age[r] <= a
    BY <2>1, <2>3 DEF a
  <2> QED
    BY <2>1, <2>2, <2>3, <2>4 DEF a, g
<1>5. TypeOK'
  <2>1. worker' \in [Workers -> Worker]
    BY <1>1, <1>3
  <2>2. \A w \in Workers : worker'[w].row # 0 => worker'[w].row \in worker'[w].batch
    BY <1>2, <1>3 DEF TypeOK
  <2>3. age' \in [Recipients -> 0..(Grace + 1)]
    BY <1>1, <1>4
  <2> QED
    BY <1>1, <1>2, <2>1, <2>2, <2>3 DEF TypeOK
<1>6. StepsHere'
  <2> SUFFICES ASSUME NEW w \in Workers PROVE Fits(worker'[w], MaxDay)
    BY <1>2 DEF StepsHere
  <2>1. Fits(worker[w], MaxDay)
    BY <1>2 DEF StepsHere
  <2>2. worker[w].step \in Before => worker'[w].held = 0
    BY <1>3, <2>1 DEF Fits, Before, InHand
  <2> QED
    BY <1>3, <2>1, <2>2 DEF Fits
<1>7. BatchesHere'
  <2>4. \A v \in Workers : worker'[v].batch = worker[v].batch
    BY <1>3
  <2>5. status' = status
    BY <1>1
  <2> SUFFICES ASSUME NEW w \in Workers, NEW r \in worker[w].batch
               PROVE  /\ status[r] = "sending" /\ age'[r] <= worker'[w].held /\ worker'[w].held <= MaxBatch
                      /\ \A v \in Workers : v # w => r \notin worker[v].batch
    BY <2>4, <2>5 DEF BatchesHere
  <2>1. /\ status[r] = "sending" /\ age[r] <= worker[w].held
        /\ \A v \in Workers : v # w => r \notin worker[v].batch
    BY <1>2 DEF BatchesHere
  <2>2. worker'[w].held = worker[w].held + 1 /\ worker[w].held < MaxBatch /\ worker[w].held \in Nat /\ MaxBatch \in Nat
    BY <1>1, <1>2, <1>3, TypeFacts, Constants DEF Busy
  <2>3. r \in Recipients /\ age[r] \in Nat /\ age'[r] \in Nat /\ age'[r] <= age[r] + 1
    BY <1>2, <1>4, TypeFacts, Constants
  <2> QED
    BY <2>1, <2>2, <2>3
<1>8. Unqueued'
  BY <1>1, <1>2 DEF Unqueued
<1>9. CopiesHere' /\ AttemptsHere'
  <2>1. \A r \in Recipients : (Taken(r) => Taken(r)') /\ (Trying(r) => Trying(r)') /\ Tries(r)' = Tries(r)
    BY <1>1, <1>3 DEF Taken, Trying, Tries
  <2> QED
    BY <1>1, <1>2, <2>1 DEF CopiesHere, AttemptsHere
<1> QED
  BY <1>5, <1>6, <1>7, <1>8, <1>9 DEF IInv

----------------------------------------------------------------------------
LEMMA NextIInv == IInv /\ [Next]_vars => IInv'
<1> SUFFICES ASSUME IInv, [Next]_vars PROVE IInv'
  OBVIOUS
<1>1. ASSUME NEW w \in Workers, TickStep(w) PROVE IInv'
  BY <1>1, SweepIInv, ListJobsIInv, MarkJobRunningIInv, AllowIInv, ClaimRecipientsIInv, ListGivenUpIInv,
     ReviveRecipientsIInv, SendIInv, MarkRecipientSentIInv, MarkRecipientFailedIInv, DeferRecipientIInv,
     FinishTickIInv, WriteSummaryIInv, FinishOnlyIInv DEF TickStep
<1>2. CASE vars' = vars
  <2>1. UNCHANGED <<job, due, day, status, attempts, age, lastError, sentToday, summary, request, worker>>
    BY <1>2 DEF vars, jobVars, queueVars, summaryVars
  <2>2. UNCHANGED <<crashes, defers, changes, copies, refused, lost, skipped>>
    BY <1>2 DEF vars, boundVars, historyVars
  <2>3. TypeOK' /\ MaxDay' = MaxDay /\ MaxDay \in Nat
    BY <2>1, <2>2, TypeFacts DEF IInv, TypeOK, MaxDay
  <2> QED
    BY <2>1, <2>2, <2>3, Aside DEF historyVars
<1> QED
  BY <1>1, <1>2, CreateSendJobIInv, StampSummaryIInv, SetJobStatusIInv, CrashIInv, TimePassesIInv,
     MidnightIInv, ComesDueIInv DEF Next

\* In every state a tick holds only rows claimed by it alone and not long ago, and every copy and every
\* attempt is accounted for.
THEOREM AlwaysIInv == Spec => []IInv
BY InitIInv, NextIInv, PTL DEF Spec

\* The queue, the ticks and the counts are always of their types.
THEOREM TypeCorrect == Spec => []TypeOK
<1>1. IInv => TypeOK
  BY DEF IInv
<1> QED
  BY <1>1, AlwaysIInv, PTL

\* Nobody is sent a newsletter twice, but for an answer or an outcome that was lost: whatever the ticks,
\* sweeps, revivals and crashes (claimRecipients, sendNewsletter, markRecipientSent).
THEOREM SentAtMostOnce == Spec => []SentOnce
<1>1. IInv => SentOnce
  <2> SUFFICES ASSUME IInv, NEW r \in Recipients PROVE copies[r] <= 1 + lost[r]
    BY DEF SentOnce, IInv, TypeOK
  <2>1. copies[r] <= lost[r] + 1 /\ lost[r] \in Nat
    BY TypeFacts DEF IInv, CopiesHere
  <2> QED
    BY <2>1
<1> QED
  BY <1>1, AlwaysIInv, PTL

----------------------------------------------------------------------------
(* Nobody is given up on too early                                         *)

\* A count grows by one for some of the rows, or stays.
Grows(f, g) == g = f \/ \E S \in SUBSET Recipients : g = Add(f, S)

LEMMA GrowsIs ==
  ASSUME NEW f \in [Recipients -> Nat], NEW g, Grows(f, g), NEW r \in Recipients
  PROVE  g[r] \in Nat /\ g[r] >= f[r]
BY AddIs DEF Grows

CountsGrow == Grows(refused, refused') /\ Grows(lost, lost') /\ Grows(skipped, skipped')

LEMMA TickCountsGrow ==
  ASSUME IInv, NEW w \in Workers, TickStep(w) \/ Crash(w)
  PROVE  CountsGrow
<1>1. worker[w].batch \subseteq Recipients
  BY BeforeIs
<1>2. CASE historyVars' = historyVars
  BY <1>2 DEF historyVars, CountsGrow, Grows
<1>3. ASSUME NEW r \in Recipients, Send(w, r) PROVE CountsGrow
  <2>1. /\ refused' = refused \/ refused' = Add(refused, {r})
        /\ lost' = lost \/ lost' = Add(lost, {r})
        /\ skipped' = skipped
    BY <1>3, SendIs
  <2> QED
    BY <2>1 DEF CountsGrow, Grows
<1>4. CASE MarkRecipientSent(w)
  <2>1. worker[w].row \in Recipients
    BY <1>4, RowIs DEF MarkRecipientSent, AtRow
  <2> QED
    BY <1>4, <2>1 DEF MarkRecipientSent, CountsGrow, Grows
<1>5. CASE DeferRecipient(w)
  BY <1>1, <1>5 DEF DeferRecipient, CountsGrow, Grows
<1>6. CASE Crash(w)
  <2>1. worker[w].step = "mark" => worker[w].row \in Recipients
    BY RowIs DEF AtRow
  <2> DEFINE rest == worker[w].batch \ (IF worker[w].step = "deferred" THEN {} ELSE {worker[w].row})
  <2>2. /\ lost' = (IF worker[w].step = "mark" THEN Add(lost, {worker[w].row}) ELSE lost)
        /\ skipped' = Add(skipped, rest) /\ refused' = refused
    BY <1>6 DEF Crash
  <2>3. rest \in SUBSET Recipients
    BY <1>1
  <2> HIDE DEF rest
  <2>4. Grows(skipped, skipped') /\ Grows(refused, refused')
    BY <2>2, <2>3 DEF Grows
  <2>5. Grows(lost, lost')
    BY <2>1, <2>2 DEF Grows
  <2> QED
    BY <2>4, <2>5 DEF CountsGrow
<1>7. CASE \/ Sweep(w) \/ ListJobs(w) \/ MarkJobRunning(w) \/ Allow(w) \/ ClaimRecipients(w)
           \/ ListGivenUp(w) \/ ReviveRecipients(w) \/ MarkRecipientFailed(w)
           \/ FinishTick(w) \/ WriteSummary(w) \/ FinishOnly(w)
  <2>1. historyVars' = historyVars
    BY <1>7 DEF Sweep, ListJobs, MarkJobRunning, Allow, ClaimRecipients, ListGivenUp, ReviveRecipients,
                MarkRecipientFailed, FinishTick, WriteSummary, FinishOnly
  <2> QED
    BY <1>2, <2>1
<1> QED
  BY <1>3, <1>4, <1>5, <1>6, <1>7 DEF TickStep

\* The only step that gives up on a row is the one that finds its attempts spent.
LEMMA TickGivesUp ==
  ASSUME IInv, NEW w \in Workers, TickStep(w) \/ Crash(w), NEW r \in Recipients,
         status'[r] = "failed", status[r] # "failed"
  PROVE  Tries(r) >= MaxAttempts
<1>1. MarkRecipientFailed(w)
  <2>1. CASE Sweep(w) \/ ReviveRecipients(w) \/ ClaimRecipients(w)
    BY <2>1 DEF Sweep, ReviveRecipients, ClaimRecipients
  <2>2. CASE MarkRecipientSent(w) \/ DeferRecipient(w)
    <3>1. status \in [Recipients -> {"none", "pending", "sending", "sent", "failed"}]
      BY DEF IInv, TypeOK
    <3> QED
      BY <2>2, <3>1 DEF MarkRecipientSent, DeferRecipient
  <2>3. CASE \/ ListJobs(w) \/ MarkJobRunning(w) \/ Allow(w) \/ ListGivenUp(w) \/ Crash(w)
             \/ FinishTick(w) \/ WriteSummary(w) \/ FinishOnly(w) \/ \E s \in Recipients : Send(w, s)
    <3>1. queueVars' = queueVars
      BY <2>3 DEF ListJobs, MarkJobRunning, Allow, ListGivenUp, Crash, FinishTick, WriteSummary, FinishOnly, Send
    <3> QED
      BY <3>1 DEF queueVars
  <2> QED
    BY <2>1, <2>2, <2>3 DEF TickStep
<1>2. /\ worker[w].step = "refused"
      /\ status' = [status EXCEPT ![worker[w].row] =
                      IF attempts[worker[w].row] >= MaxAttempts THEN "failed" ELSE "pending"]
  BY <1>1 DEF MarkRecipientFailed
<1>3. r = worker[w].row /\ attempts[r] >= MaxAttempts
  <2>1. status \in [Recipients -> {"none", "pending", "sending", "sent", "failed"}]
    BY DEF IInv, TypeOK
  <2> QED
    BY <1>2, <2>1
<1>4. attempts[r] <= Tries(r)
  BY <1>2, <1>3, RefusedIs
<1>5. attempts[r] \in Nat /\ Tries(r) \in Nat /\ MaxAttempts \in Nat
  BY TypeFacts, Constants DEF IInv
<1> QED
  BY <1>3, <1>4, <1>5

LEMMA InitGivenUp == Init => GivenUpExplained
<1> SUFFICES ASSUME Init, NEW r \in Recipients, status[r] = "failed"
             PROVE  refused[r] + lost[r] + skipped[r] >= MaxAttempts
  BY DEF GivenUpExplained, Rows
<1>1. skipped[r] = MaxAttempts /\ refused[r] = 0 /\ lost[r] = 0
  BY DEF Init
<1> QED
  BY <1>1, Constants

LEMMA NextGivenUp == IInv /\ GivenUpExplained /\ [Next]_vars => GivenUpExplained'
<1> SUFFICES ASSUME IInv, GivenUpExplained, [Next]_vars, NEW r \in Recipients, status'[r] = "failed"
             PROVE  Tries(r)' >= MaxAttempts
  BY DEF GivenUpExplained, Rows, Tries
<1>1. CountsGrow
  <2>1. CASE historyVars' = historyVars
    BY <2>1 DEF historyVars, CountsGrow, Grows
  <2> QED
    BY <2>1, TickCountsGrow
       DEF Next, CreateSendJob, StampSummary, SetJobStatus, TimePasses, Midnight, ComesDue, vars
<1>2. status[r] # "failed" => Tries(r) >= MaxAttempts
  <2> SUFFICES ASSUME status[r] # "failed" PROVE Tries(r) >= MaxAttempts
    OBVIOUS
  <2>1. ~ CreateSendJob
    BY DEF CreateSendJob
  <2>2. status' # status
    OBVIOUS
  <2>3. PICK w \in Workers : TickStep(w) \/ Crash(w)
    BY <2>1, <2>2
       DEF Next, StampSummary, SetJobStatus, TimePasses, Midnight, ComesDue, vars, queueVars
  <2> QED
    BY <2>3, TickGivesUp
<1>3. status[r] = "failed" => Tries(r) >= MaxAttempts
  BY DEF GivenUpExplained, Rows, Tries
<1>4. {refused, lost, skipped} \subseteq [Recipients -> Nat]
  BY DEF IInv, TypeOK
<1>5. /\ refused'[r] \in Nat /\ refused'[r] >= refused[r] /\ lost'[r] \in Nat /\ lost'[r] >= lost[r]
      /\ skipped'[r] \in Nat /\ skipped'[r] >= skipped[r]
  BY <1>1, <1>4, GrowsIs DEF CountsGrow
<1>6. refused[r] \in Nat /\ lost[r] \in Nat /\ skipped[r] \in Nat /\ MaxAttempts \in Nat
  BY <1>4, Constants
<1>7. Tries(r) >= MaxAttempts
  BY <1>2, <1>3
<1>8. Tries(r) = refused[r] + lost[r] + skipped[r] /\ Tries(r)' = refused'[r] + lost'[r] + skipped'[r]
  BY DEF Tries
<1> QED
  BY <1>5, <1>6, <1>7, <1>8

\* Nobody is given up on who was not refused, lost or passed over MAX_ATTEMPTS times (markRecipientFailed,
\* and the attempt deferRecipient refunds).
THEOREM GivenUp == Spec => []GivenUpExplained
BY InitGivenUp, NextGivenUp, AlwaysIInv, PTL DEF Spec

----------------------------------------------------------------------------
(* The day's cap                                                           *)

\* What a tick may still send, and all of them together.
Load(w)  == worker[w].allowance + Cardinality(worker[w].batch)
Loads    == [w \in Workers |-> Load(w)]
Cap      == CapOn[MaxDay]
CapSpare == (Cardinality(Workers) - 1) * PerTick

\* What was sent today and what may be yet is within the cap, but for a tick's worth of each further tick.
CapHere ==
  /\ \A w \in Workers : Load(w) <= PerTick
  /\ Cap > 0 => Cardinality(SentToday) + SumFunctionOnSet(Loads, Workers) <= Cap + CapSpare

LEMMA SpareIs ==
  /\ Cardinality(Workers) \in Nat /\ CapSpare \in Nat
  /\ \A w \in Workers : IsFiniteSet(Workers \ {w}) /\ Cardinality(Workers \ {w}) * PerTick = CapSpare
<1>1. PICK w \in Workers : TRUE
  BY WorkersAssumption
<1>2. ASSUME NEW v \in Workers
      PROVE  /\ IsFiniteSet(Workers \ {v}) /\ Cardinality(Workers \ {v}) = Cardinality(Workers) - 1
             /\ Cardinality(Workers \ {v}) \in Nat
  BY WorkersAssumption, FS_RemoveElement, FS_CardinalityType
<1>3. ASSUME NEW n \in Nat PROVE n * PerTick \in Nat
  BY <1>3, Constants
<1> QED
  BY <1>1, <1>2, <1>3, WorkersAssumption, FS_CardinalityType DEF CapSpare

LEMMA LoadIs ==
  ASSUME TypeOK
  PROVE  \A w \in Workers : IsFiniteSet(worker[w].batch) /\ Cardinality(worker[w].batch) \in Nat /\ Load(w) \in Nat
<1> TAKE w \in Workers
<1>1. worker[w].batch \subseteq Recipients /\ worker[w].allowance \in Nat
  BY TypeFacts
<1>2. IsFiniteSet(worker[w].batch) /\ Cardinality(worker[w].batch) \in Nat
  BY <1>1, RecipientsAssumption, FS_Subset, FS_CardinalityType
<1> QED
  BY <1>1, <1>2 DEF Load

CapNat == Cap \in Nat
LEMMA CapIs == TypeOK => CapNat
BY TypeFacts, Constants DEF CapNat, Cap

\* One tick's load, and what the others may send.
LEMMA LoadsAt ==
  ASSUME TypeOK, NEW w \in Workers
  PROVE  /\ SumFunctionOnSet(Loads, Workers) = Load(w) + SumFunctionOnSet(Loads, Workers \ {w})
         /\ SumFunctionOnSet(Loads, Workers \ {w}) \in Nat
         /\ SumFunctionOnSet(Loads, Workers) \in Nat
<1>1. \A v \in Workers : Loads[v] = Load(v) /\ Loads[v] \in Nat
  BY LoadIs DEF Loads
<1>2. IsFiniteSet(Workers) /\ IsFiniteSet(Workers \ {w})
  BY WorkersAssumption, SpareIs
<1>3. SumFunctionOnSet(Loads, Workers) = Loads[w] + SumFunctionOnSet(Loads, Workers \ {w})
  BY <1>1, <1>2, SumRemove
<1>4. SumFunctionOnSet(Loads, Workers \ {w}) \in Nat
  BY <1>1, <1>2, SumNat
<1> QED
  BY <1>1, <1>3, <1>4

\* The same, as a named fact of a state, for the state after a step.
LoadsKnown ==
  /\ \A w \in Workers : Load(w) \in Nat
  /\ Cardinality(SentToday) \in Nat
  /\ \A w \in Workers :
       /\ SumFunctionOnSet(Loads, Workers) = Load(w) + SumFunctionOnSet(Loads, Workers \ {w})
       /\ SumFunctionOnSet(Loads, Workers \ {w}) \in Nat
       /\ SumFunctionOnSet(Loads, Workers) \in Nat
LEMMA LoadsAreKnown == TypeOK => LoadsKnown
BY LoadIs, LoadsAt, SentTodayIs DEF LoadsKnown

\* A step of one tick leaves the others' loads alone.
LEMMA OthersKeep ==
  ASSUME TypeOK, TypeOK', NEW w \in Workers, \A v \in Workers : v # w => Load(v)' = Load(v)
  PROVE  SumFunctionOnSet(Loads', Workers \ {w}) = SumFunctionOnSet(Loads, Workers \ {w})
<1>1. Loads' = [v \in Workers |-> Load(v)']
  BY DEF Loads
<1>2. \A v \in Workers \ {w} : Loads'[v] = Loads[v]
  BY <1>1 DEF Loads
<1> QED
  BY <1>2, SpareIs, SumAgree

LEMMA CapArithmetic ==
  ASSUME NEW sum, NEW sum2, NEW rest \in Nat, NEW x \in Nat, NEW x2 \in Nat, NEW n \in Nat, NEW n2 \in Nat,
         NEW c \in Nat, NEW k \in Nat, sum = x + rest, sum2 = x2 + rest, n2 + x2 <= n + x,
         c > 0 => n + sum <= c + k
  PROVE  c > 0 => n2 + sum2 <= c + k
OBVIOUS

\* A step that sends no more than it takes off what may be sent.
LEMMA CapKept ==
  ASSUME TypeOK, TypeOK', CapHere, NEW w \in Workers, Cap' = Cap,
         \A v \in Workers : v # w => Load(v)' = Load(v),
         Load(w)' <= Load(w), Cardinality(SentToday)' + Load(w)' <= Cardinality(SentToday) + Load(w)
  PROVE  CapHere'
<1>1. LoadsKnown /\ LoadsKnown'
  BY LoadsAreKnown, PTL
<1>2. SumFunctionOnSet(Loads', Workers \ {w}) = SumFunctionOnSet(Loads, Workers \ {w})
  BY OthersKeep
<1>3. /\ SumFunctionOnSet(Loads, Workers) = Load(w) + SumFunctionOnSet(Loads, Workers \ {w})
      /\ SumFunctionOnSet(Loads, Workers)' = Load(w)' + SumFunctionOnSet(Loads, Workers \ {w})
      /\ SumFunctionOnSet(Loads, Workers \ {w}) \in Nat
      /\ Load(w) \in Nat /\ Load(w)' \in Nat /\ Cardinality(SentToday) \in Nat /\ Cardinality(SentToday)' \in Nat
  BY <1>1, <1>2 DEF LoadsKnown
<1>4. /\ Cap \in Nat /\ CapSpare \in Nat
      /\ Cap > 0 => Cardinality(SentToday) + SumFunctionOnSet(Loads, Workers) <= Cap + CapSpare
  BY CapIs, SpareIs DEF CapHere, CapNat
<1>5. Cap > 0 => Cardinality(SentToday)' + SumFunctionOnSet(Loads, Workers)' <= Cap + CapSpare
  BY <1>3, <1>4, CapArithmetic
<1>6. Cap' > 0 => Cardinality(SentToday)' + SumFunctionOnSet(Loads, Workers)' <= Cap' + CapSpare
  BY <1>5
<1>7. \A v \in Workers : Load(v)' <= PerTick
  <2>1. \A v \in Workers : Load(v) <= PerTick /\ Load(v) \in Nat /\ Load(v)' \in Nat
    BY <1>1 DEF CapHere, LoadsKnown
  <2> QED
    BY <2>1, Constants
<1> QED
  BY <1>6, <1>7 DEF CapHere, CapSpare

\* The last of a finite set of numbers.
LEMMA LastOf ==
  ASSUME NEW N, IsFiniteSet(N), N \subseteq Nat, N # {}
  PROVE  \E m \in N : \A x \in N : x <= m
<1> DEFINE M     == N
           Froms == {{y \in N : y >= x} : x \in N}
<1>1. Froms \subseteq SUBSET M /\ Froms # {} /\ IsFiniteSet(M)
  OBVIOUS
<1>2. PICK U \in Froms : \A V \in Froms : V \subseteq U => V = U
  <2> HIDE DEF Froms, M
  <2> QED
    BY <1>1, SmallestSubset
<1>3. PICK m \in N : U = {y \in N : y >= m}
  BY <1>2
<1>4. ASSUME NEW x \in N, ~(x <= m) PROVE FALSE
  <2> DEFINE V == {y \in N : y >= x}
  <2>1. x \in Nat /\ m \in Nat /\ m < x
    BY <1>4
  <2>2. V \subseteq U /\ m \in U /\ m \notin V
    <3>1. \A y \in V : y \in N /\ y \in Nat /\ y >= x
      OBVIOUS
    <3>2. \A y \in V : y \in U
      BY <1>3, <2>1, <3>1
    <3>3. m \in U
      BY <1>3, <2>1
    <3>4. m \notin V
      BY <2>1
    <3> QED
      BY <3>2, <3>3, <3>4
  <2>3. V \in Froms
    OBVIOUS
  <2>4. V = U
    BY <1>2, <2>2, <2>3
  <2> QED
    BY <2>2, <2>4
<1> QED
  BY <1>4

\* claimRecipients takes no more rows than the tick was allowed.
LEMMA FirstPendingIs ==
  ASSUME NEW n \in Nat
  PROVE  /\ FirstPending(n) \subseteq Recipients /\ IsFiniteSet(FirstPending(n))
         /\ Cardinality(FirstPending(n)) \in Nat /\ Cardinality(FirstPending(n)) <= n
<1> DEFINE P == Rows("pending")
           F == FirstPending(n)
<1>1. P \subseteq Recipients /\ F \subseteq P /\ F = {r \in P : Cardinality({s \in P : s < r}) < n}
  BY DEF Rows, FirstPending
<1>2. IsFiniteSet(P) /\ IsFiniteSet(F) /\ Cardinality(F) \in Nat
  BY <1>1, RecipientsAssumption, FS_Subset, FS_CardinalityType
<1>6. F \subseteq Nat
  BY <1>1, RecipientsAssumption
<1> HIDE DEF P, F
<1>3. ASSUME F = {} PROVE Cardinality(F) <= n
  <2>1. Cardinality(F) = 0
    BY <1>3, FS_EmptySet
  <2> QED
    BY <1>2, <2>1
<1>4. ASSUME F # {} PROVE Cardinality(F) <= n
  <2>1. PICK m \in F : \A x \in F : x <= m
    BY <1>2, <1>4, <1>6, LastOf
  <2> DEFINE B == {s \in P : s < m}
  <2>2. Cardinality(B) < n /\ F \ {m} \subseteq B
    <3>1. \A x \in F \ {m} : x < m
      BY <1>6, <2>1
    <3> QED
      BY <1>1, <2>1, <3>1
  <2>3. IsFiniteSet(B) /\ Cardinality(B) \in Nat
    <3>1. B \subseteq P
      OBVIOUS
    <3> HIDE DEF B
    <3> QED
      BY <1>2, <3>1, FS_Subset, FS_CardinalityType
  <2> HIDE DEF B
  <2>4. Cardinality(F \ {m}) = Cardinality(F) - 1
    BY <1>2, <2>1, FS_RemoveElement
  <2>5. Cardinality(F \ {m}) <= Cardinality(B)
    BY <2>2, <2>3, FS_Subset
  <2> QED
    BY <1>2, <2>2, <2>3, <2>4, <2>5
<1>5. F \subseteq Recipients
  BY <1>1
<1> QED
  BY <1>2, <1>3, <1>4, <1>5 DEF F

\* The step of a tick that leaves the queue alone, and may still send no more than before.
LEMMA CapMoves ==
  ASSUME IInv, IInv', CapHere, NEW w \in Workers, NEW new \in Worker, Moves(w, new), MaxDay' = MaxDay,
         new.allowance = 0 \/ new.allowance = worker[w].allowance,
         new.batch = {} \/ new.batch = worker[w].batch,
         SentToday' = SentToday
  PROVE  CapHere'
<1>1. TypeOK /\ TypeOK'
  BY DEF IInv
<1>2. worker'[w] = new /\ \A v \in Workers : v # w => worker'[v] = worker[v]
  BY <1>1, MovesIs
<1>3. \A v \in Workers : v # w => Load(v)' = Load(v)
  BY <1>2 DEF Load
<1>4. Load(w)' <= Load(w)
  <2>1. Load(w)' = new.allowance + Cardinality(new.batch) /\ Load(w) = worker[w].allowance + Cardinality(worker[w].batch)
    BY <1>2 DEF Load
  <2>2. Cardinality({}) = 0
    BY FS_EmptySet
  <2>3. worker[w].allowance \in Nat /\ Cardinality(worker[w].batch) \in Nat
    BY <1>1, TypeFacts, LoadIs
  <2>4. Cardinality(new.batch) = 0 \/ Cardinality(new.batch) = Cardinality(worker[w].batch)
    BY <2>2
  <2> QED
    BY <2>1, <2>3, <2>4
<1>5. Load(w) \in Nat /\ Load(w)' \in Nat /\ Cardinality(SentToday) \in Nat /\ Cap' = Cap
  <2>1. LoadsKnown /\ LoadsKnown'
    BY <1>1, LoadsAreKnown, PTL
  <2> QED
    BY <2>1 DEF LoadsKnown, Cap
<1>6. Cardinality(SentToday)' + Load(w)' <= Cardinality(SentToday) + Load(w)
  BY <1>4, <1>5
<1> QED
  BY <1>1, <1>3, <1>4, <1>5, <1>6, CapKept

\* What became sent today, by a step that leaves the rows that were sent as they are.
LEMMA SentTodayKept ==
  ASSUME sentToday' = sentToday, \A r \in Recipients : (status'[r] = "sent") <=> (status[r] = "sent"), IInv
  PROVE  SentToday' = SentToday
BY DEF SentToday, IInv, TypeOK

\* The steps that only move a tick on, or end it.
LEMMA EasyCap ==
  ASSUME IInv, IInv', CapHere, NEW w \in Workers,
         \/ Sweep(w) \/ ListJobs(w) \/ ListGivenUp(w) \/ ReviveRecipients(w)
         \/ (\E r \in Recipients : Send(w, r))
         \/ DeferRecipient(w) \/ FinishTick(w) \/ WriteSummary(w) \/ FinishOnly(w) \/ Crash(w)
  PROVE  CapHere'
<1>1. TypeOK /\ worker[w] \in Worker /\ status \in [Recipients -> {"none", "pending", "sending", "sent", "failed"}]
  BY BeforeIs DEF TypeOK
<1>2. MaxDay' = MaxDay
  BY DEF Sweep, ListJobs, ListGivenUp, ReviveRecipients, Send, DeferRecipient, FinishTick, WriteSummary, FinishOnly,
         Crash, MaxDay, jobVars
<1>3. SentToday' = SentToday
  <2>1. sentToday' = sentToday
    BY DEF Sweep, ListJobs, ListGivenUp, ReviveRecipients, Send, DeferRecipient, FinishTick, WriteSummary, FinishOnly,
           Crash, queueVars
  <2>2. \A r \in Recipients : (status'[r] = "sent") <=> (status[r] = "sent")
    <3>1. CASE Sweep(w)
      BY <3>1 DEF Sweep, Stalled, Rows
    <3>2. CASE ReviveRecipients(w)
      BY <3>2 DEF ReviveRecipients, Revivable, Rows
    <3>3. CASE DeferRecipient(w)
      <4>1. status[worker[w].row] = "sending"
        BY <3>3, RowIs DEF DeferRecipient, AtRow
      <4> QED
        BY <1>1, <3>3, <4>1 DEF DeferRecipient
    <3>4. CASE \/ ListJobs(w) \/ ListGivenUp(w) \/ (\E r \in Recipients : Send(w, r)) \/ FinishTick(w)
               \/ WriteSummary(w) \/ FinishOnly(w) \/ Crash(w)
      BY <3>4 DEF ListJobs, ListGivenUp, Send, FinishTick, WriteSummary, FinishOnly, Crash, queueVars
    <3> QED
      BY <3>1, <3>2, <3>3, <3>4
  <2> QED
    BY <2>1, <2>2, SentTodayKept
<1>4. CASE EndTick(w)
  BY <1>2, <1>3, <1>4, EndsIs, Constants, CapMoves
<1>5. ASSUME NEW s \in Steps, Goto(w, s) PROVE CapHere'
  <2>1. PICK new \in Worker : Moves(w, new) /\ new.batch = worker[w].batch /\ new.allowance = worker[w].allowance
    BY <1>1, <1>5, GotoIs
  <2> QED
    BY <1>2, <1>3, <2>1, CapMoves
<1>6. CASE Sweep(w)
  <2> DEFINE new == [worker[w] EXCEPT !.step = "list", !.today = MaxDay]
  <2>1. Moves(w, new) /\ MaxDay \in Nat
    BY <1>6, BeforeIs DEF Sweep, Moves, MaxDay
  <2>2. new \in Worker /\ new.batch = worker[w].batch /\ new.allowance = worker[w].allowance
    BY <1>1, <2>1 DEF Worker, Steps
  <2> HIDE DEF new
  <2> QED
    BY <1>2, <1>3, <2>1, <2>2, CapMoves
<1>7. CASE ListGivenUp(w)
  <2> DEFINE S   == {r \in Rows("failed") : lastError[r] = "defer"}
             new == [worker[w] EXCEPT !.step = IF S = {} THEN "send" ELSE "revive", !.givenUp = S]
  <2>1. Moves(w, new) /\ S \subseteq Recipients
    BY <1>7 DEF ListGivenUp, Moves, Rows
  <2> HIDE DEF S
  <2>2. new \in Worker /\ new.batch = worker[w].batch /\ new.allowance = worker[w].allowance
    BY <1>1, <2>1 DEF Worker, Steps
  <2> HIDE DEF new
  <2> QED
    BY <1>2, <1>3, <2>1, <2>2, CapMoves
<1>8. CASE ReviveRecipients(w)
  <2> DEFINE new == [worker[w] EXCEPT !.step = "send", !.givenUp = {}]
  <2>1. Moves(w, new)
    BY <1>8 DEF ReviveRecipients, Moves
  <2>2. new \in Worker /\ new.batch = worker[w].batch /\ new.allowance = worker[w].allowance
    BY <1>1 DEF Worker, Steps
  <2> HIDE DEF new
  <2> QED
    BY <1>2, <1>3, <2>1, <2>2, CapMoves
<1>9. ASSUME NEW r \in Recipients, Send(w, r) PROVE CapHere'
  <2>1. PICK new \in Worker : Moves(w, new) /\ new.batch = worker[w].batch /\ new.allowance = worker[w].allowance
    BY <1>9, SendIs
  <2> QED
    BY <1>2, <1>3, <2>1, CapMoves
<1>10. CASE ListJobs(w)
  BY <1>4, <1>5, <1>10 DEF ListJobs, Steps
<1>11. CASE FinishTick(w)
  BY <1>4, <1>5, <1>11 DEF FinishTick, Steps
<1>12. CASE DeferRecipient(w) \/ WriteSummary(w) \/ FinishOnly(w) \/ Crash(w)
  BY <1>4, <1>12 DEF DeferRecipient, WriteSummary, FinishOnly, Crash
<1> QED
  BY <1>6, <1>7, <1>8, <1>9, <1>10, <1>11, <1>12

LEMMA MarkJobRunningCap == ASSUME IInv, IInv', CapHere, NEW w \in Workers, MarkJobRunning(w) PROVE CapHere'
<1>1. /\ Goto(w, "allow") /\ UNCHANGED queueVars
      /\ day' = MaxDay \/ day' = day
  BY DEF MarkJobRunning, MaxDay
<1>2. TypeOK /\ MaxDay \in Nat /\ MaxDay # 0
  BY BeforeIs
<1>3. MaxDay' = MaxDay
  <2>1. MaxDay = Max({1, day}) /\ MaxDay' = Max({1, day'})
    BY DEF MaxDay
  <2>2. Max({1, MaxDay}) \in {1, MaxDay} /\ MaxDay <= Max({1, MaxDay}) /\ 1 <= Max({1, MaxDay})
    BY <1>2, MaxOfTwo
  <2>3. Max({1, MaxDay}) = MaxDay
    BY <1>2, <2>2
  <2> QED
    BY <1>1, <2>1, <2>3
<1>4. SentToday' = SentToday
  BY <1>1 DEF SentToday, queueVars
<1>5. PICK new \in Worker : Moves(w, new) /\ new.batch = worker[w].batch /\ new.allowance = worker[w].allowance
  <2>1. "allow" \in Steps
    BY DEF Steps
  <2> QED
    BY <1>1, <1>2, <2>1, GotoIs
<1> QED
  BY <1>3, <1>4, <1>5, CapMoves

\* A tick is allowed what the throttle and the cap of the day it began leave: no more than today's cap.
LEMMA AllowCap == ASSUME IInv, IInv', CapHere, NEW w \in Workers, Allow(w) PROVE CapHere'
<1> DEFINE n == TickAllowance(CapOn[worker[w].today])
<1>1. /\ worker[w].today \in DOMAIN CapOn /\ worker[w].today <= MaxDay
      /\ worker[w].batch = {} /\ worker[w].allowance = 0
      /\ UNCHANGED <<jobVars, queueVars, summaryVars, boundVars, historyVars>>
  BY AllowIs
<1>2. TypeOK /\ TypeOK' /\ MaxDay \in DOMAIN CapOn
  BY BeforeIs, Constants DEF IInv
<1>3. MaxDay' = MaxDay /\ SentToday' = SentToday /\ Cap' = Cap
  BY <1>1 DEF MaxDay, SentToday, Cap, jobVars, queueVars
<1>4. CASE EndTick(w)
  BY <1>3, <1>4, EndsIs, Constants, CapMoves
<1>5. CASE ~EndTick(w)
  <2>1. PICK new \in Worker : Moves(w, new) /\ new.batch = {} /\ new.allowance = n
    BY <1>5, AllowIs
  <2>2. worker'[w] = new /\ \A v \in Workers : v # w => worker'[v] = worker[v]
    BY <1>2, <2>1, MovesIs
  <2>3. /\ CapOn[worker[w].today] \in Nat /\ CapOn[worker[w].today] <= Cap /\ Cap \in Nat
        /\ Cap > 0 => CapOn[worker[w].today] > 0
    BY <1>1, <1>2, Constants, PacingAssumption DEF Cap
  <2>4. /\ n \in Nat /\ n <= PerTick
        /\ CapOn[worker[w].today] > 0 => n = 0 \/ n + Cardinality(SentToday) <= CapOn[worker[w].today]
    BY <1>2, <2>3, AllowanceIs
  <2> HIDE DEF n
  <2>5. Load(w)' = n /\ \A v \in Workers : v # w => Load(v)' = Load(v)
    <3>1. Cardinality({}) = 0
      BY FS_EmptySet
    <3>2. Load(w)' = n + 0
      BY <2>1, <2>2, <3>1 DEF Load
    <3>3. \A v \in Workers : v # w => Load(v)' = Load(v)
      BY <2>2 DEF Load
    <3> QED
      BY <2>4, <3>2, <3>3
  <2>6. \A v \in Workers : Load(v)' <= PerTick
    BY <2>4, <2>5 DEF CapHere
  <2>7. /\ SumFunctionOnSet(Loads, Workers) = Load(w) + SumFunctionOnSet(Loads, Workers \ {w})
        /\ SumFunctionOnSet(Loads, Workers)' = Load(w)' + SumFunctionOnSet(Loads, Workers \ {w})
        /\ SumFunctionOnSet(Loads, Workers \ {w}) \in Nat /\ Cardinality(SentToday) \in Nat
    <3>1. LoadsKnown /\ LoadsKnown'
      BY <1>2, LoadsAreKnown, PTL
    <3>2. SumFunctionOnSet(Loads', Workers \ {w}) = SumFunctionOnSet(Loads, Workers \ {w})
      BY <1>2, <2>5, OthersKeep
    <3> QED
      BY <3>1, <3>2 DEF LoadsKnown
  <2>8. Load(w) = 0
    BY <1>1, FS_EmptySet DEF Load
  <2>9. SumFunctionOnSet(Loads, Workers \ {w}) <= CapSpare
    <3>1. \A v \in Workers \ {w} : Loads[v] \in Nat /\ Loads[v] <= PerTick
      BY <1>2, LoadIs DEF Loads, CapHere
    <3>2. SumFunctionOnSet(Loads, Workers \ {w}) <= Cardinality(Workers \ {w}) * PerTick
      BY <3>1, SpareIs, Constants, SumBound
    <3> QED
      BY <3>2, SpareIs
  <2>10. CapSpare \in Nat
    BY SpareIs
  <2>11. Cap > 0 => Cardinality(SentToday) + SumFunctionOnSet(Loads, Workers)' <= Cap + CapSpare
    <3>1. CASE n = 0
      <4>1. SumFunctionOnSet(Loads, Workers)' = SumFunctionOnSet(Loads, Workers)
        BY <2>5, <2>7, <2>8, <3>1
      <4> QED
        BY <4>1 DEF CapHere
    <3>2. CASE n # 0 /\ Cap > 0
      <4>1. n + Cardinality(SentToday) <= Cap
        BY <2>3, <2>4, <2>7, <3>2
      <4> QED
        BY <2>3, <2>4, <2>5, <2>7, <2>9, <2>10, <4>1
    <3> QED
      BY <3>1, <3>2
  <2> QED
    BY <1>3, <2>6, <2>11 DEF CapHere, CapSpare
<1> QED
  BY <1>4, <1>5

LEMMA ClaimCap == ASSUME IInv, IInv', CapHere, NEW w \in Workers, ClaimRecipients(w) PROVE CapHere'
<1> DEFINE F == FirstPending(worker[w].allowance)
<1>1. /\ worker[w].batch = {} /\ F \subseteq Recipients /\ \A r \in F : status[r] = "pending"
      /\ status' = [r \in Recipients |-> IF r \in F THEN "sending" ELSE status[r]]
      /\ UNCHANGED <<day, sentToday>>
  BY ClaimIs
<1>2. PICK new \in Worker : Moves(w, new) /\ new.batch = F /\ new.allowance = 0
  BY ClaimIs
<1>3. TypeOK /\ TypeOK' /\ worker[w].allowance \in Nat
  BY TypeFacts DEF IInv
<1>4. Cardinality(F) \in Nat /\ Cardinality(F) <= worker[w].allowance
  BY <1>3, FirstPendingIs
<1> HIDE DEF F
<1>5. worker'[w] = new /\ \A v \in Workers : v # w => worker'[v] = worker[v]
  BY <1>2, <1>3, MovesIs
<1>6. Cap' = Cap
  BY <1>1 DEF Cap, MaxDay
<1>7. SentToday' = SentToday
  BY <1>1, SentTodayKept
<1>8. /\ Load(w)' = Cardinality(F) /\ Load(w) = worker[w].allowance
      /\ \A v \in Workers : v # w => Load(v)' = Load(v)
  BY <1>1, <1>2, <1>3, <1>4, <1>5, FS_EmptySet DEF Load
<1>9. Cardinality(SentToday)' + Load(w)' <= Cardinality(SentToday) + Load(w)
  <2>1. Cardinality(SentToday) \in Nat
    BY <1>3, SentTodayIs
  <2> QED
    BY <1>3, <1>4, <1>7, <1>8, <2>1
<1> QED
  BY <1>3, <1>4, <1>6, <1>8, <1>9, CapKept

\* A row dealt with is off the batch, whether or not it counts for the day.
LEMMA RowDoneCap ==
  ASSUME IInv, IInv', CapHere, NEW w \in Workers, worker[w].step \in AtRow, NextRow(w), day' = day,
         SentToday' = SentToday \/ SentToday' = SentToday \cup {worker[w].row}
  PROVE  CapHere'
<1> DEFINE r == worker[w].row
           B == worker[w].batch
<1>1. PICK new \in Worker : Moves(w, new) /\ new.batch = B \ {r} /\ new.allowance = worker[w].allowance
  BY NextRowIs
<1>2. TypeOK /\ TypeOK' /\ worker[w].allowance \in Nat /\ r \in B
  BY TypeFacts, RowIs DEF IInv
<1>3. worker'[w] = new /\ \A v \in Workers : v # w => worker'[v] = worker[v]
  BY <1>1, <1>2, MovesIs
<1>4. IsFiniteSet(B) /\ Cardinality(B) \in Nat
  BY <1>2, LoadIs
<1>5. Cap' = Cap
  BY DEF Cap, MaxDay
<1>6. Cardinality(SentToday) \in Nat /\ IsFiniteSet(SentToday)
  BY <1>2, SentTodayIs
<1> HIDE DEF r
<1>7. Cardinality(SentToday)' = Cardinality(SentToday) \/ Cardinality(SentToday)' = Cardinality(SentToday) + 1
  <2> DEFINE T == SentToday
  <2>1. IsFiniteSet(T) /\ Cardinality(T) \in Nat
    BY <1>6
  <2> HIDE DEF T
  <2>2. Cardinality(T \cup {r}) = Cardinality(T) \/ Cardinality(T \cup {r}) = Cardinality(T) + 1
    <3>1. CASE r \in T
      <4>1. T \cup {r} = T
        BY <3>1
      <4> QED
        BY <4>1
    <3>2. CASE r \notin T
      BY <2>1, <3>2, FS_AddElement
    <3> QED
      BY <3>1, <3>2
  <2> QED
    BY <2>2 DEF T, r
<1> HIDE DEF B
<1>8. Cardinality(B \ {r}) = Cardinality(B) - 1 /\ Cardinality(B \ {r}) \in Nat
  <2>1. IsFiniteSet(B \ {r}) /\ Cardinality(B \ {r}) = Cardinality(B) - 1
    BY <1>2, <1>4, FS_RemoveElement
  <2> QED
    BY <2>1, FS_CardinalityType
<1>9. /\ Load(w)' = worker[w].allowance + (Cardinality(B) - 1)
      /\ Load(w) = worker[w].allowance + Cardinality(B)
      /\ \A v \in Workers : v # w => Load(v)' = Load(v)
  BY <1>1, <1>3, <1>8 DEF Load, B
<1>10. Load(w)' <= Load(w) /\ Cardinality(SentToday)' + Load(w)' <= Cardinality(SentToday) + Load(w)
  BY <1>2, <1>4, <1>6, <1>7, <1>9
<1> QED
  BY <1>2, <1>5, <1>9, <1>10, CapKept

LEMMA MarkRecipientSentCap == ASSUME IInv, IInv', CapHere, NEW w \in Workers, MarkRecipientSent(w) PROVE CapHere'
<1> DEFINE r == worker[w].row
<1>1. /\ worker[w].step = "mark" /\ day' = day
      /\ \/ status' = [status EXCEPT ![r] = "sent"] /\ sentToday' = sentToday \cup {r} /\ NextRow(w)
         \/ (Goto(w, "refused") \/ Goto(w, "deferred")) /\ UNCHANGED <<status, sentToday>>
  BY DEF MarkRecipientSent, jobVars
<1>2. TypeOK /\ r \in Recipients /\ worker[w].step \in AtRow
  BY <1>1, BeforeIs, RowIs DEF AtRow
<1>3. CASE status' = [status EXCEPT ![r] = "sent"] /\ sentToday' = sentToday \cup {r} /\ NextRow(w)
  <2>1. status \in [Recipients -> {"none", "pending", "sending", "sent", "failed"}] /\ sentToday \subseteq Recipients
    BY <1>2 DEF TypeOK
  <2>2. SentToday' = SentToday \cup {r}
    BY <1>2, <1>3, <2>1 DEF SentToday
  <2> QED
    BY <1>1, <1>2, <1>3, <2>2, RowDoneCap
<1>4. ASSUME NEW s \in {"refused", "deferred"}, Goto(w, s), UNCHANGED <<status, sentToday>> PROVE CapHere'
  <2>1. "refused" \in Steps /\ "deferred" \in Steps
    BY DEF Steps
  <2>2. PICK new \in Worker : Moves(w, new) /\ new.batch = worker[w].batch /\ new.allowance = worker[w].allowance
    BY <1>2, <1>4, <2>1, GotoIs
  <2>3. SentToday' = SentToday /\ MaxDay' = MaxDay
    BY <1>1, <1>4 DEF SentToday, MaxDay
  <2> QED
    BY <2>2, <2>3, CapMoves
<1> QED
  BY <1>1, <1>3, <1>4

LEMMA MarkRecipientFailedCap ==
  ASSUME IInv, IInv', CapHere, NEW w \in Workers, MarkRecipientFailed(w) PROVE CapHere'
<1> DEFINE r == worker[w].row
           x == IF attempts[r] >= MaxAttempts THEN "failed" ELSE "pending"
<1>1. /\ worker[w].step = "refused" /\ NextRow(w) /\ day' = day /\ sentToday' = sentToday
      /\ status' = [status EXCEPT ![r] = x] /\ x # "sent"
  BY DEF MarkRecipientFailed, jobVars
<1> HIDE DEF x
<1>2. /\ worker[w].step \in AtRow /\ status[r] = "sending"
      /\ status \in [Recipients -> {"none", "pending", "sending", "sent", "failed"}]
  BY <1>1, RowIs DEF AtRow, IInv, TypeOK
<1> HIDE DEF r
<1>3. \A s \in Recipients : (status'[s] = "sent") <=> (status[s] = "sent")
  BY <1>1, <1>2
<1> QED
  BY <1>1, <1>2, <1>3, SentTodayKept, RowDoneCap

\* The steps beside the ticks.
LEMMA AsideCap ==
  ASSUME IInv, IInv', CapHere, \A w \in Workers : Load(w)' = Load(w),
         Cap' > 0 => Cap > 0 /\ Cap <= Cap',
         SentToday' \subseteq SentToday
  PROVE  CapHere'
<1>1. Loads' = Loads
  BY DEF Loads
<1>2. PICK w \in Workers : TRUE
  BY WorkersAssumption
<1>3. LoadsKnown /\ Cap \in Nat /\ CapSpare \in Nat
  BY LoadsAreKnown, CapIs, SpareIs DEF IInv, CapNat
<1>4. CapNat'
  <2>1. TypeOK'
    BY DEF IInv
  <2> QED
    BY <2>1, CapIs, PTL
<1>5. Cardinality(SentToday') <= Cardinality(SentToday) /\ Cardinality(SentToday') \in Nat
  <2> DEFINE T == SentToday
  <2>1. IsFiniteSet(T)
    BY SentTodayIs DEF IInv
  <2>2. T' \subseteq T
    OBVIOUS
  <2> QED
    BY <2>1, <2>2, FS_Subset, FS_CardinalityType
<1>6. SumFunctionOnSet(Loads, Workers) \in Nat /\ Cardinality(SentToday) \in Nat
  BY <1>2, <1>3 DEF LoadsKnown
<1>7. Cap' > 0 => Cardinality(SentToday') + SumFunctionOnSet(Loads', Workers) <= Cap' + CapSpare
  BY <1>1, <1>3, <1>4, <1>5, <1>6 DEF CapHere, CapNat
<1> QED
  BY <1>7 DEF CapHere, CapSpare

LEMMA InitCap == Init => CapHere
<1> SUFFICES ASSUME Init PROVE CapHere
  OBVIOUS
<1>1. worker = [w \in Workers |-> Idle] /\ sentToday = {} /\ TypeOK
  BY InitIInv DEF Init, IInv
<1>2. \A w \in Workers : Load(w) = 0 /\ Loads[w] = 0
  <2> SUFFICES ASSUME NEW w \in Workers PROVE Load(w) = 0
    BY DEF Loads
  <2>1. worker[w].batch = {} /\ worker[w].allowance = 0
    BY <1>1, Constants
  <2>2. Cardinality({}) = 0
    BY FS_EmptySet
  <2> QED
    BY <2>1, <2>2 DEF Load
<1>3. Cardinality(SentToday) = 0
  BY <1>1, FS_EmptySet DEF SentToday
<1>4. SumFunctionOnSet(Loads, Workers) = 0
  BY <1>2, WorkersAssumption, SumZero
<1>5. Cap \in Nat /\ CapSpare \in Nat
  BY <1>1, CapIs, SpareIs DEF CapNat
<1> QED
  BY <1>2, <1>3, <1>4, <1>5, Constants DEF CapHere

LEMMA NextCap == IInv /\ IInv' /\ CapHere /\ [Next]_vars => CapHere'
<1> SUFFICES ASSUME IInv, IInv', CapHere, [Next]_vars PROVE CapHere'
  OBVIOUS
<1>1. ASSUME NEW w \in Workers, TickStep(w) \/ Crash(w) PROVE CapHere'
  BY <1>1, EasyCap, MarkJobRunningCap, AllowCap, ClaimCap, MarkRecipientSentCap, MarkRecipientFailedCap DEF TickStep
<1>2. CASE TimePasses
  <2>1. \A w \in Workers : worker'[w].allowance = worker[w].allowance /\ worker'[w].batch = worker[w].batch
    <3> SUFFICES ASSUME NEW w \in Workers
                 PROVE  worker'[w].allowance = worker[w].allowance /\ worker'[w].batch = worker[w].batch
      OBVIOUS
    <3>1. worker[w] \in Worker /\ worker'[w] \in {worker[w], [worker[w] EXCEPT !.held = @ + 1]}
      BY <1>2, BeforeIs DEF TimePasses
    <3> QED
      BY <3>1 DEF Worker
  <2>2. \A w \in Workers : Load(w)' = Load(w)
    BY <2>1 DEF Load
  <2>3. SentToday' = SentToday /\ Cap' = Cap
    BY <1>2 DEF TimePasses, SentToday, Cap, MaxDay, jobVars
  <2>4. Cap \in Nat
    BY CapIs DEF IInv, CapNat
  <2> QED
    BY <2>2, <2>3, <2>4, AsideCap
<1>3. CASE Midnight
  <2>1. worker' = worker /\ SentToday' = {}
    BY <1>3 DEF Midnight, SentToday
  <2>2. MaxDay \in DOMAIN CapOn /\ MaxDay' \in DOMAIN CapOn /\ MaxDay <= MaxDay'
    BY <1>3, TypeFacts, NextDayIs, Constants DEF IInv
  <2>3. Cap' > 0 => Cap > 0 /\ Cap <= Cap'
    <3> DEFINE d == MaxDay
               e == MaxDay'
    <3>1. CapOn[d] <= CapOn[e] /\ (CapOn[d] = 0 => CapOn[e] = 0) /\ CapOn[d] \in Nat /\ CapOn[e] \in Nat
      BY <2>2, PacingAssumption, Constants
    <3>2. Cap = CapOn[d] /\ Cap' = CapOn[e]
      BY DEF Cap
    <3> HIDE DEF d, e
    <3> QED
      BY <3>1, <3>2
  <2>4. \A w \in Workers : Load(w)' = Load(w)
    BY <2>1 DEF Load
  <2> QED
    BY <2>1, <2>3, <2>4, AsideCap
<1>4. CASE CreateSendJob
  <2>1. worker' = worker /\ day' = day /\ request = "create" /\ status' = [r \in Recipients |-> "pending"]
    BY <1>4 DEF CreateSendJob
  <2>2. SentToday' = {}
    <3>1. sentToday' = sentToday /\ sentToday \subseteq Recipients
      BY <1>4 DEF CreateSendJob, IInv, TypeOK
    <3>2. \A r \in Recipients : status'[r] # "sent"
      BY <2>1
    <3> QED
      BY <3>1, <3>2 DEF SentToday
  <2>3. (\A w \in Workers : Load(w)' = Load(w)) /\ Cap' = Cap
    BY <2>1 DEF Load, Cap, MaxDay
  <2>4. Cap \in Nat
    BY CapIs DEF IInv, CapNat
  <2> QED
    BY <2>2, <2>3, <2>4, AsideCap
<1>5. CASE UNCHANGED <<day, worker, status, sentToday>>
  <2>1. (\A w \in Workers : Load(w)' = Load(w)) /\ Cap' = Cap /\ SentToday' = SentToday
    BY <1>5 DEF Load, Cap, MaxDay, SentToday
  <2>2. Cap \in Nat
    BY CapIs DEF IInv, CapNat
  <2> QED
    BY <2>1, <2>2, AsideCap
<1>6. \/ CreateSendJob \/ TimePasses \/ Midnight \/ UNCHANGED <<day, worker, status, sentToday>>
      \/ \E w \in Workers : TickStep(w) \/ Crash(w)
  BY DEF Next, StampSummary, SetJobStatus, ComesDue, vars, jobVars, queueVars
<1> QED
  BY <1>1, <1>2, <1>3, <1>4, <1>5, <1>6

LEMMA CapHereHolds == IInv /\ CapHere => CapHolds
<1> SUFFICES ASSUME IInv, CapHere, Cap > 0 PROVE Cardinality(SentToday) <= Cap + CapSpare
  BY DEF CapHolds, Cap, CapSpare, MaxDay
<1>1. PICK w \in Workers : TRUE
  BY WorkersAssumption
<1>2. LoadsKnown /\ Cap \in Nat /\ CapSpare \in Nat
  BY LoadsAreKnown, CapIs, SpareIs DEF IInv, CapNat
<1>3. SumFunctionOnSet(Loads, Workers) \in Nat /\ Cardinality(SentToday) \in Nat
  BY <1>1, <1>2 DEF LoadsKnown
<1> QED
  BY <1>2, <1>3 DEF CapHere

\* The day's cap is passed by no more than one tick's worth for each further tick at once, for any number
\* of ticks, rows and caps (tickAllowance, sentTodayCount, claimRecipients).
THEOREM CapKeeps == Spec => []CapHolds
BY InitCap, NextCap, CapHereHolds, AlwaysIInv, PTL DEF Spec

----------------------------------------------------------------------------
(* The job's end                                                           *)

\* A send ends only after it was queued, so the request that queues it never finds it ended.
Queued == request = "create" => job = "none"

\* What the job was and may be: one step never takes it from an end, if it was queued once.
NotRestarted == job \in {"done", "cancelled"} => job' = job

\* Init and every step keep Queued: only the admin's request makes a job, and does so once.
LEMMA QueuedInit == Init => Queued
BY DEF Init, Queued

LEMMA QueuedStep == Queued /\ [Next]_vars => Queued'
<1> SUFFICES ASSUME Queued, [Next]_vars PROVE Queued'
    OBVIOUS
<1> USE DEF Queued
<1>1. CASE CreateSendJob
      BY <1>1 DEF CreateSendJob
<1>2. CASE StampSummary
      BY <1>2 DEF StampSummary, jobVars
<1>3. ASSUME NEW s \in {"paused", "running", "cancelled"}, SetJobStatus(s) PROVE Queued'
      BY <1>3 DEF SetJobStatus, summaryVars
<1>4. ASSUME NEW w \in Workers, TickStep(w) PROVE Queued'
  <2>1. CASE MarkJobRunning(w)
        BY <2>1 DEF MarkJobRunning, MayRun, summaryVars
  <2>2. CASE FinishTick(w)
        BY <2>2 DEF FinishTick, FinishJob, Drained, summaryVars
  <2>3. CASE FinishOnly(w)
        BY <2>3 DEF FinishOnly, FinishJob, Drained, summaryVars
  <2>4. CASE WriteSummary(w)
        BY <2>4 DEF WriteSummary, jobVars
  <2>5. CASE Sweep(w) \/ ListJobs(w) \/ Allow(w) \/ ClaimRecipients(w)
        BY <2>5 DEF Sweep, ListJobs, Allow, ClaimRecipients, jobVars, summaryVars
  <2>6. CASE ListGivenUp(w) \/ ReviveRecipients(w) \/ \E r \in Recipients : Send(w, r)
        BY <2>6 DEF ListGivenUp, ReviveRecipients, Send, jobVars, summaryVars
  <2>7. CASE MarkRecipientSent(w) \/ MarkRecipientFailed(w) \/ DeferRecipient(w)
        BY <2>7 DEF MarkRecipientSent, MarkRecipientFailed, DeferRecipient, jobVars, summaryVars
  <2> QED BY <1>4, <2>1, <2>2, <2>3, <2>4, <2>5, <2>6, <2>7 DEF TickStep
<1>5. ASSUME NEW w \in Workers, Crash(w) PROVE Queued'
      BY <1>5 DEF Crash, jobVars, summaryVars
<1>6. CASE TimePasses \/ Midnight \/ ComesDue
      BY <1>6 DEF TimePasses, Midnight, ComesDue, jobVars, summaryVars
<1>7. CASE UNCHANGED vars
      BY <1>7 DEF vars, jobVars, summaryVars
<1> QED BY <1>1, <1>2, <1>3, <1>4, <1>5, <1>6, <1>7 DEF Next

\* Every step that writes the job's status looks at it in the same statement.
LEMMA StepNotRestarted == Queued /\ [Next]_vars => [NotRestarted]_vars
<1> SUFFICES ASSUME Queued, Next PROVE NotRestarted
    OBVIOUS
<1> USE DEF NotRestarted
<1>1. CASE CreateSendJob
      BY <1>1 DEF CreateSendJob, Queued
<1>2. CASE StampSummary
      BY <1>2 DEF StampSummary, jobVars
<1>3. ASSUME NEW s \in {"paused", "running", "cancelled"}, SetJobStatus(s) PROVE NotRestarted
      BY <1>3 DEF SetJobStatus
<1>4. ASSUME NEW w \in Workers, TickStep(w) PROVE NotRestarted
  <2>1. CASE MarkJobRunning(w)
        BY <2>1 DEF MarkJobRunning, MayRun
  <2>2. CASE FinishTick(w) \/ FinishOnly(w)
        BY <2>2 DEF FinishTick, FinishOnly, FinishJob, Drained
  <2>3. CASE WriteSummary(w) \/ Sweep(w) \/ ListJobs(w) \/ Allow(w) \/ ClaimRecipients(w)
        BY <2>3 DEF WriteSummary, Sweep, ListJobs, Allow, ClaimRecipients, jobVars
  <2>4. CASE ListGivenUp(w) \/ ReviveRecipients(w) \/ \E r \in Recipients : Send(w, r)
        BY <2>4 DEF ListGivenUp, ReviveRecipients, Send, jobVars
  <2>5. CASE MarkRecipientSent(w) \/ MarkRecipientFailed(w) \/ DeferRecipient(w)
        BY <2>5 DEF MarkRecipientSent, MarkRecipientFailed, DeferRecipient, jobVars
  <2> QED BY <1>4, <2>1, <2>2, <2>3, <2>4, <2>5 DEF TickStep
<1>5. ASSUME NEW w \in Workers, Crash(w) PROVE NotRestarted
      BY <1>5 DEF Crash, jobVars
<1>6. CASE TimePasses \/ Midnight \/ ComesDue
      BY <1>6 DEF TimePasses, Midnight, ComesDue, jobVars
<1> QED BY <1>1, <1>2, <1>3, <1>4, <1>5, <1>6 DEF Next

\* A send that has ended or was cancelled stays so, however many ticks had listed it before.
THEOREM EndedStays == Spec => TerminalStays
<1>1. [NotRestarted]_vars <=> [(job \in {"done", "cancelled"}) => job' = job]_vars
      BY DEF NotRestarted
<1> QED BY QueuedInit, QueuedStep, StepNotRestarted, <1>1, PTL DEF Spec, TerminalStays
=============================================================================
