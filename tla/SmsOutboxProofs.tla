--------------------------- MODULE SmsOutboxProofs ---------------------------
(***************************************************************************)
(* What holds of a text message however often it is asked for and whenever  *)
(* its worker dies.  The invariant says what the worker may rely on at each  *)
(* of its steps: it read the row in an earlier one.                          *)
(***************************************************************************)
EXTENDS SmsOutbox, TLAPS

(* A worker works on an active job; a job that still is to run has attempts  *)
(* left and was not given up.                                                *)
JobFitsWorker ==
  /\ worker # "idle" => job.state = "active"
  /\ job.state \in {"waiting", "active"} => job.made < JobAttempts /\ job.stalled <= MaxStalled

(* What was true of the row when the worker read it still is when it writes. *)
RowFitsWorker ==
  /\ worker = "begin" => row.status # "sent" /\ row.attempts < MaxAttempts
  /\ worker \in {"send", "complete", "fail"} => row.status = "processing"
  /\ worker = "send" => sent < row.attempts

Inv == TypeOK /\ JobFitsWorker /\ RowFitsWorker /\ SentWithinAttempts

LEMMA Bounded == MaxRequests \in Nat /\ MaxDeaths \in Nat /\ MaxFaults \in Nat
BY OutboxAssumption

LEMMA InitInv == Init => Inv
<1> SUFFICES ASSUME Init
             PROVE  Inv
  OBVIOUS
<1>1. row \in Rows
  BY DEF Init, Rows, MaxAttempts
<1>2. job \in Jobs
  BY DEF Init, NoJob, Jobs, JobAttempts, MaxStalled
<1>3. requests \in 0..MaxRequests /\ deaths \in 0..MaxDeaths /\ faults \in 0..MaxFaults
  BY Bounded DEF Init
<1>4. JobFitsWorker /\ RowFitsWorker /\ SentWithinAttempts
  BY DEF Init, NoJob, JobFitsWorker, RowFitsWorker, SentWithinAttempts, MaxAttempts
<1>5. QED
  BY <1>1, <1>2, <1>3, <1>4 DEF Init, Inv, TypeOK

LEMMA NextInv == Inv /\ [Next]_vars => Inv'
<1> SUFFICES ASSUME Inv, [Next]_vars
             PROVE  Inv'
  OBVIOUS
<1> USE DEF Inv, TypeOK, Rows, Jobs, JobFitsWorker, RowFitsWorker, SentWithinAttempts,
            MaxAttempts, JobAttempts, MaxStalled, NoJob, bounds
<1>1. CASE Request
  <2>1. requests' \in 0..MaxRequests
    BY <1>1, Bounded DEF Request
  <2>2. row' \in Rows /\ row'.attempts = row.attempts
    BY <1>1 DEF Request
  <2>3. QED
    BY <1>1, <2>1, <2>2 DEF Request
<1>2. CASE QueueJob
  <2>1. job' \in Jobs
    BY <1>2 DEF QueueJob
  <2>2. worker # "idle" => job' = job
    BY <1>2 DEF QueueJob
  <2>3. job' # job => job' = [state |-> "waiting", made |-> 0, stalled |-> 0]
    BY <1>2 DEF QueueJob
  <2>4. UNCHANGED <<row, worker, requests, deaths, faults, sent, deadLetters>> /\ queueing' \in BOOLEAN
    BY <1>2 DEF QueueJob
  <2>5. TypeOK' /\ RowFitsWorker' /\ SentWithinAttempts'
    BY <2>1, <2>4
  <2>6. JobFitsWorker'
    BY <2>2, <2>3, <2>4
  <2>7. QED
    BY <2>5, <2>6
<1>3. CASE QueueingDies
  <2>1. deaths' \in 0..MaxDeaths
    BY <1>3, Bounded DEF QueueingDies
  <2>2. UNCHANGED <<row, job, worker, requests, faults, sent, deadLetters>> /\ queueing' \in BOOLEAN
    BY <1>3 DEF QueueingDies
  <2>3. QED
    BY <2>1, <2>2
<1>4. CASE WorkerStep
  <2>1. CASE Take
    BY <2>1 DEF Take, Begins, WorthSending
  <2>2. CASE Begin
    BY <2>2 DEF Begin
  <2>3. ASSUME NEW sends \in BOOLEAN, NEW answers \in BOOLEAN, Send(sends, answers)
        PROVE  Inv'
    BY <2>3 DEF Send
  <2>4. CASE Complete
    BY <2>4 DEF Complete
  <2>5. CASE Fail
    BY <2>5 DEF Fail
  <2>6. CASE JobDone
    BY <2>6 DEF JobDone
  <2>7. CASE JobThrows
    <3>1. job.made \in 0..2 /\ job.stalled \in 0..2
      BY <2>7 DEF JobThrows
    <3>2. job' = [state |-> IF job.made + 1 < 3 THEN "waiting" ELSE "failed",
                  made |-> job.made + 1, stalled |-> job.stalled]
      BY <2>7 DEF JobThrows
    <3>3. job' \in Jobs /\ (job'.state = "waiting" => job'.made < 3)
      BY <3>1, <3>2
    <3>4. deadLetters' \in Nat
      BY <2>7 DEF JobThrows
    <3>5. job'.state \in {"waiting", "failed"} /\ job'.stalled = job.stalled
      BY <2>7 DEF JobThrows
    <3>6. UNCHANGED <<row, queueing, requests, deaths, faults, sent>> /\ worker' = "idle"
      BY <2>7 DEF JobThrows
    <3>7. TypeOK'
      BY <3>3, <3>4, <3>6
    <3>8. JobFitsWorker'
      BY <3>3, <3>5, <3>6, <2>7 DEF JobThrows
    <3>9. QED
      BY <3>6, <3>7, <3>8
  <2>8. QED
    BY <1>4, <2>1, <2>2, <2>3, <2>4, <2>5, <2>6, <2>7 DEF WorkerStep
<1>5. CASE WorkerDies
  <2>1. deaths' \in 0..MaxDeaths
    BY <1>5, Bounded DEF WorkerDies
  <2>2. job.made \in 0..3 /\ job.stalled \in 0..1 /\ job.state = "active"
    BY <1>5 DEF WorkerDies
  <2>3. job' = [state |-> IF job.stalled < 1 THEN "waiting" ELSE "failed",
                made |-> job.made, stalled |-> job.stalled + 1]
    BY <1>5 DEF WorkerDies
  <2>4. job' \in Jobs
    BY <2>2, <2>3
  <2>5. /\ job'.state \in {"waiting", "failed"} /\ job'.made = job.made
        /\ job'.state = "waiting" => job'.stalled <= MaxStalled
    BY <1>5 DEF WorkerDies
  <2>6. UNCHANGED <<row, queueing, requests, faults, sent, deadLetters>> /\ worker' = "idle"
    BY <1>5 DEF WorkerDies
  <2>7. TypeOK'
    BY <2>1, <2>4, <2>6
  <2>8. JobFitsWorker'
    BY <1>5, <2>5, <2>6 DEF WorkerDies
  <2>9. QED
    BY <2>6, <2>7, <2>8
<1>6. CASE Sweep
  BY <1>6 DEF Sweep
<1>7. CASE BecomesDue
  BY <1>7 DEF BecomesDue
<1>8. CASE UNCHANGED vars
  BY <1>8 DEF vars
<1>9. CASE StatementFails
  <2>1. faults' \in 0..MaxFaults
    BY <1>9, Bounded DEF StatementFails
  <2>2. /\ UNCHANGED <<row, job, queueing, requests, deaths, sent, deadLetters>>
        /\ worker # "idle" /\ worker' \in {"fail", "throw"}
        /\ worker' = "fail" => worker = "complete"
    BY <1>9 DEF StatementFails
  <2>3. QED
    BY <2>1, <2>2
<1>10. QED
  BY <1>1, <1>2, <1>3, <1>4, <1>5, <1>6, <1>7, <1>8, <1>9 DEF Next

LEMMA AlwaysInv == Spec => []Inv
BY InitInv, NextInv, PTL DEF Spec

(* Every variable of the outbox keeps its type; no job is tried more often   *)
(* than its queue allows and no row counts more than five attempts.          *)
THEOREM TypeCorrect == Spec => []TypeOK
<1>1. Inv => TypeOK
  BY DEF Inv
<1>2. QED
  BY <1>1, AlwaysInv, PTL

(* The gateway is never told more often to send a message than attempts were *)
(* counted, and never more than five times, with any number of requests and  *)
(* of deaths of the worker (beginSmsDelivery, processNotificationJob).       *)
THEOREM AlwaysSentWithinAttempts == Spec => []SentWithinAttempts
<1>1. Inv => SentWithinAttempts
  BY DEF Inv
<1>2. QED
  BY <1>1, AlwaysInv, PTL

(* A message that was sent is never pending, processing or failed again.     *)
THEOREM SentForGood == Spec => SentStaysSent
<1>1. Inv /\ [Next]_vars => [row.status = "sent" => row'.status = "sent"]_vars
  <2> SUFFICES ASSUME Inv, [Next]_vars, row.status = "sent"
               PROVE  row'.status = "sent"
    OBVIOUS
  <2> USE DEF Inv, TypeOK, RowFitsWorker, bounds
  <2>1. CASE Request
    BY <2>1 DEF Request
  <2>2. CASE WorkerStep
    BY <2>2 DEF WorkerStep, Take, Begin, Send, Complete, Fail, JobDone, JobThrows
  <2>3. CASE BecomesDue
    BY <2>3 DEF BecomesDue
  <2>4. CASE UNCHANGED row
    BY <2>4
  <2>5. QED
    BY <2>1, <2>2, <2>3, <2>4 DEF Next, QueueJob, QueueingDies, StatementFails, WorkerDies, Sweep, vars
<1>2. QED
  BY <1>1, AlwaysInv, PTL DEF Spec, SentStaysSent

-----------------------------------------------------------------------------
(* That somebody always has the message in hand: what RequestsAreSettled     *)
(* rests on, besides fairness.                                               *)

(* While a message asked for is not settled, a step is due that the code's   *)
(* scheduling brings about: the worker's, the queueing call's, the sweep's or *)
(* the passing of the delivery's waiting time.                               *)
InHand ==
  row.status # "none" /\ ~Settled =>
    worker # "idle" \/ job.state = "waiting" \/ queueing \/ Recoverable \/ ~row.due

(* No job loses two workers: BullMQ gives up a job that stalls again.        *)
StallsOnce == WorkerDies => job.stalled < MaxStalled

(* An attempt under way has its worker or a job that will begin it again.    *)
AttemptInHand ==
  /\ worker = "done" => ~WorthSending
  /\ row.status = "processing" /\ row.attempts < MaxAttempts =>
       worker # "idle" \/ job.state = "waiting" \/ Unrecorded

LEMMA NextAttemptInHand == Inv /\ AttemptInHand /\ [Next]_vars /\ [StallsOnce]_vars => AttemptInHand'
<1> SUFFICES ASSUME Inv, AttemptInHand, [Next]_vars, [StallsOnce]_vars
             PROVE  AttemptInHand'
  OBVIOUS
<1>1. /\ row \in Rows /\ job \in Jobs
      /\ worker # "idle" => job.state = "active"
      /\ worker \in {"send", "complete", "fail"} => row.status = "processing"
  BY DEF Inv, TypeOK, JobFitsWorker, RowFitsWorker
<1> USE DEF AttemptInHand, Unrecorded, WorthSending, Rows, Jobs, MaxAttempts, bounds
<1>2. CASE Request
  BY <1>1, <1>2 DEF Request
<1>3. CASE QueueJob
  BY <1>1, <1>3 DEF QueueJob, NoJob
<1>4. CASE QueueingDies \/ Sweep
  BY <1>4 DEF QueueingDies, Sweep
<1>5. CASE WorkerStep
  <2>1. CASE Take \/ Begin
    BY <1>1, <2>1 DEF Take, Begins, Begin
  <2>2. CASE \E sends, answers \in BOOLEAN : Send(sends, answers)
    BY <1>1, <2>2 DEF Send
  <2>3. CASE Complete \/ Fail
    BY <1>1, <2>3 DEF Complete, Fail
  <2>4. CASE JobDone
    BY <1>1, <2>4 DEF JobDone
  <2>5. CASE JobThrows
    <3>1. /\ job.made + 1 < JobAttempts => job'.state = "waiting"
          /\ ~(job.made + 1 < JobAttempts) => job'.state = "failed" /\ job'.made = job.made + 1
          /\ UNCHANGED row /\ worker' = "idle"
      BY <1>1, <2>5 DEF JobThrows
    <3>2. job.made < JobAttempts /\ job.made \in Nat
      BY <1>1, <2>5 DEF JobThrows, Inv, JobFitsWorker, JobAttempts
    <3>3. job'.state = "waiting" \/ (job'.state = "failed" /\ job'.made = JobAttempts)
      BY <3>1, <3>2 DEF JobAttempts
    <3>4. QED
      BY <3>1, <3>3 DEF Unrecorded
  <2>6. QED
    BY <1>5, <2>1, <2>2, <2>3, <2>4, <2>5 DEF WorkerStep
<1>6. CASE WorkerDies
  <2>1. CASE StallsOnce
    BY <1>1, <1>6, <2>1 DEF StallsOnce, WorkerDies
  <2>2. CASE UNCHANGED vars
    BY <2>2 DEF vars
  <2>3. QED
    BY <2>1, <2>2
<1>7. CASE BecomesDue
  BY <1>1, <1>7 DEF BecomesDue
<1>8. CASE UNCHANGED vars
  BY <1>8 DEF vars
<1>9. CASE StatementFails
  BY <1>1, <1>9 DEF StatementFails
<1>10. QED
  BY <1>2, <1>3, <1>4, <1>5, <1>6, <1>7, <1>8, <1>9 DEF Next

(* The only ways to forget a message that was asked for are to lose two      *)
(* workers in one job, or to fail to record its last try: the row then stays *)
(* processing, which the sweep does not look at, and no job is left.         *)
THEOREM OnlyStallsForget == Spec /\ [][StallsOnce]_vars => [](InHand \/ Unrecorded)
<1>1. Init => AttemptInHand
  BY DEF Init, AttemptInHand
<1>2. Inv /\ AttemptInHand => InHand \/ Unrecorded
  BY DEF Inv, TypeOK, Rows, AttemptInHand, InHand, Settled, Recoverable, MaxAttempts
<1>3. QED
  BY <1>1, <1>2, NextAttemptInHand, AlwaysInv, PTL DEF Spec

(* So no message is ever forgotten when the worker dies no more often than   *)
(* BullMQ forgives a job, and the last try of each job is recorded.          *)
THEOREM NeverForgotten ==
  ASSUME MaxDeaths <= MaxStalled
  PROVE  Spec => [](InHand \/ Unrecorded)
<1> DEFINE StallsAreDeaths == job.stalled <= deaths
<1>1. Init => StallsAreDeaths
  BY DEF Init, NoJob
<1>2. Inv /\ StallsAreDeaths /\ [Next]_vars => StallsAreDeaths'
  <2> SUFFICES ASSUME Inv, StallsAreDeaths, [Next]_vars
               PROVE  job'.stalled <= deaths'
    OBVIOUS
  <2>1. job \in Jobs /\ deaths \in Nat
    BY Bounded DEF Inv, TypeOK
  <2>2. CASE QueueJob
    BY <2>1, <2>2 DEF QueueJob, NoJob, bounds
  <2>3. CASE WorkerDies
    BY <2>1, <2>3 DEF WorkerDies, Jobs, MaxStalled
  <2>4. CASE QueueingDies
    BY <2>1, <2>4 DEF QueueingDies, Jobs, MaxStalled
  <2>5. CASE WorkerStep
    BY <2>1, <2>5 DEF WorkerStep, Take, Begin, Send, Complete, Fail, JobDone, JobThrows, Jobs, bounds
  <2>6. QED
    BY <2>2, <2>3, <2>4, <2>5 DEF Next, Request, StatementFails, Sweep, BecomesDue, vars, bounds
<1>3. Inv /\ StallsAreDeaths => StallsOnce
  <2> SUFFICES ASSUME Inv, StallsAreDeaths, WorkerDies
               PROVE  job.stalled < MaxStalled
    BY DEF StallsOnce
  <2>1. deaths < MaxDeaths /\ deaths \in Nat /\ MaxDeaths \in Nat /\ job.stalled \in 0..2
    BY Bounded DEF WorkerDies, Inv, TypeOK, Jobs, MaxStalled
  <2>2. QED
    BY <2>1 DEF MaxStalled
<1> HIDE DEF StallsAreDeaths
<1>4. Spec => [][StallsOnce]_vars
  BY <1>1, <1>2, <1>3, AlwaysInv, PTL DEF Spec
<1>5. QED
  BY <1>4, OnlyStallsForget, PTL

=============================================================================
