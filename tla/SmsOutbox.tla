------------------------------- MODULE SmsOutbox -------------------------------
(***************************************************************************)
(* One text message from its request to its delivery: the row of the        *)
(* outbox (NotificationDelivery), the BullMQ job that sends it, the worker   *)
(* that runs the job, and the sweep that queues what is due.  The row is in  *)
(* the database, the job in Redis and the message with a gateway, so every   *)
(* step touches one of the three and the process may die after any of them,  *)
(* or a statement to the database fail.                                     *)
(***************************************************************************)
EXTENDS Naturals

CONSTANTS
  MaxRequests,   \* bound: how often the same message is asked for
  MaxDeaths,     \* bound: how often the worker's process dies
  MaxFaults      \* bound: how often a statement of the worker's fails

ASSUME OutboxAssumption == MaxRequests \in Nat /\ MaxDeaths \in Nat /\ MaxFaults \in Nat

MaxAttempts == 5   \* of a delivery: recoverableSmsDeliveries, the worker's check
JobAttempts == 3   \* of a job: the queue's default options
MaxStalled == 1    \* external: how often BullMQ gives a dead worker's job to another

VARIABLES
  row,        \* the delivery: status, attempts, whether it is due
  job,        \* the job: state, attempts made, times stalled
  worker,     \* where the worker is in its job
  queueing,   \* is a call of onSmsDeliveryQueued on its way?
  requests, deaths, faults,
  sent,       \* the messages the gateway sent
  deadLetters \* the FailedJob rows

vars == <<row, job, worker, queueing, requests, deaths, faults, sent, deadLetters>>
bounds == <<requests, deaths, faults>>

NoJob == [state |-> "none", made |-> 0, stalled |-> 0]

Init ==
  /\ row = [status |-> "none", attempts |-> 0, due |-> TRUE]
  /\ job = NoJob
  /\ worker = "idle"
  /\ queueing = FALSE
  /\ requests = 0 /\ deaths = 0 /\ faults = 0 /\ sent = 0 /\ deadLetters = 0

-----------------------------------------------------------------------------
(* Asking for the message: queueSms, createSmsDelivery.  A request with the  *)
(* key of an earlier one finds its row.                                      *)

Request ==
  /\ requests < MaxRequests
  /\ requests' = requests + 1
  /\ row' = IF row.status = "none" THEN [row EXCEPT !.status = "pending"] ELSE row
  /\ queueing' = (queueing \/ row.status # "sent")
  /\ UNCHANGED <<job, worker, deaths, faults, sent, deadLetters>>

(* onSmsDeliveryQueued: a finished job makes room for a new one; one that    *)
(* still is to run, or runs, is left alone.                                  *)
QueueJob ==
  /\ queueing
  /\ queueing' = FALSE
  /\ job' = IF job.state \in {"none", "failed", "completed"}
            THEN [NoJob EXCEPT !.state = "waiting"] ELSE job
  /\ UNCHANGED <<row, worker, bounds, sent, deadLetters>>

(* The process that was to queue the job dies; only the row remains.         *)
QueueingDies ==
  /\ queueing /\ deaths < MaxDeaths
  /\ queueing' = FALSE
  /\ deaths' = deaths + 1
  /\ UNCHANGED <<row, job, worker, requests, faults, sent, deadLetters>>

-----------------------------------------------------------------------------
(* The worker: processNotificationJob.                                       *)

Begins == job.state = "waiting" /\ worker = "idle"

(* Mutant: a message already sent is sent again.                             *)
WorthOnlyLimit == row.attempts < MaxAttempts
(* Mutant: one attempt too many.                                             *)
WorthOneMore == row.status # "sent" /\ row.attempts <= MaxAttempts
WorthSending == row.status # "sent" /\ row.attempts < MaxAttempts

(* The job starts and reads the row.                                         *)
Take ==
  /\ Begins
  /\ job' = [job EXCEPT !.state = "active"]
  /\ worker' = IF WorthSending THEN "begin" ELSE "done"
  /\ UNCHANGED <<row, queueing, bounds, sent, deadLetters>>

(* beginSmsDelivery counts the attempt before the message is sent.           *)
Begin ==
  /\ worker = "begin"
  /\ row' = [status |-> "processing", attempts |-> row.attempts + 1, due |-> TRUE]
  /\ worker' = "send"
  /\ UNCHANGED <<job, queueing, bounds, sent, deadLetters>>

(* The gateway sends the message or not, and its answer arrives or not.      *)
Send(sends, answers) ==
  /\ worker = "send"
  /\ sent' = IF sends THEN sent + 1 ELSE sent
  /\ worker' = IF sends /\ answers THEN "complete" ELSE "fail"
  /\ UNCHANGED <<row, job, queueing, bounds, deadLetters>>

Complete ==
  /\ worker = "complete"
  /\ row' = [row EXCEPT !.status = "sent", !.due = TRUE]
  /\ worker' = "done"
  /\ UNCHANGED <<job, queueing, bounds, sent, deadLetters>>

(* failSmsDelivery, with a time before which the sweep leaves the row alone. *)
Fail ==
  /\ worker = "fail"
  /\ row' = [row EXCEPT !.status = "failed", !.due = FALSE]
  /\ worker' = "throw"
  /\ UNCHANGED <<job, queueing, bounds, sent, deadLetters>>

(* A statement fails: beginning throws, completing is an error of the        *)
(* sending's like any other, and what cannot be recorded as failed throws    *)
(* with the row as it was.                                                   *)
StatementFails ==
  /\ worker \in {"begin", "complete", "fail"} /\ faults < MaxFaults
  /\ faults' = faults + 1
  /\ worker' = IF worker = "complete" THEN "fail" ELSE "throw"
  /\ UNCHANGED <<row, job, queueing, requests, deaths, sent, deadLetters>>

JobDone ==
  /\ worker = "done"
  /\ job' = [job EXCEPT !.state = "completed"]
  /\ worker' = "idle"
  /\ UNCHANGED <<row, queueing, bounds, sent, deadLetters>>

(* The job is tried again after its backoff, or is a dead letter             *)
(* (onJobFailed).                                                            *)
JobThrows ==
  /\ worker = "throw"
  /\ worker' = "idle"
  /\ job' = [job EXCEPT !.made = @ + 1,
                        !.state = IF job.made + 1 < JobAttempts THEN "waiting" ELSE "failed"]
  /\ deadLetters' = IF job.made + 1 < JobAttempts THEN deadLetters ELSE deadLetters + 1
  /\ UNCHANGED <<row, queueing, bounds, sent>>

(* The worker dies; BullMQ finds its job stalled.                            *)
WorkerDies ==
  /\ worker # "idle" /\ deaths < MaxDeaths
  /\ deaths' = deaths + 1
  /\ worker' = "idle"
  /\ job' = [job EXCEPT !.stalled = @ + 1,
                        !.state = IF job.stalled < MaxStalled THEN "waiting" ELSE "failed"]
  /\ UNCHANGED <<row, queueing, requests, faults, sent, deadLetters>>

-----------------------------------------------------------------------------
(* The sweep: recoverSmsDeliveries, every five minutes and at start.         *)

(* Mutant: only what failed is swept.                                        *)
OnlyFailed == row.status = "failed" /\ row.attempts < MaxAttempts /\ row.due
Recoverable == row.status \in {"pending", "failed"} /\ row.attempts < MaxAttempts /\ row.due

Sweep ==
  /\ Recoverable
  /\ ~queueing
  /\ queueing' = TRUE
  /\ UNCHANGED <<row, job, worker, bounds, sent, deadLetters>>

(* A failed delivery's waiting time passes.                                  *)
BecomesDue ==
  /\ ~row.due
  /\ row' = [row EXCEPT !.due = TRUE]
  /\ UNCHANGED <<job, worker, queueing, bounds, sent, deadLetters>>

WorkerStep ==
  \/ Take \/ Begin \/ Complete \/ Fail \/ JobDone \/ JobThrows
  \/ \E sends, answers \in BOOLEAN : Send(sends, answers)

Next ==
  \/ Request \/ QueueJob \/ QueueingDies \/ WorkerStep \/ StatementFails \/ WorkerDies
  \/ Sweep \/ BecomesDue

(* The worker goes on, the sweep comes round, and time passes.  Nobody has   *)
(* to ask for the message again.                                             *)
Spec ==
  /\ Init /\ [][Next]_vars
  /\ WF_vars(WorkerStep) /\ WF_vars(QueueJob) /\ WF_vars(Sweep) /\ WF_vars(BecomesDue)

-----------------------------------------------------------------------------
(* Properties.                                                               *)

Rows == [status : {"none", "pending", "processing", "sent", "failed"},
         attempts : 0..MaxAttempts, due : BOOLEAN]
Jobs == [state : {"none", "waiting", "active", "completed", "failed"},
         made : 0..JobAttempts, stalled : 0..(MaxStalled + 1)]

TypeOK ==
  /\ row \in Rows /\ job \in Jobs
  /\ worker \in {"idle", "begin", "send", "complete", "fail", "throw", "done"}
  /\ queueing \in BOOLEAN
  /\ requests \in 0..MaxRequests /\ deaths \in 0..MaxDeaths /\ faults \in 0..MaxFaults
  /\ sent \in Nat /\ deadLetters \in Nat

(* However often the message is asked for, tried again by its job and swept, *)
(* and wherever its worker dies, the gateway is told to send it at most five *)
(* times: an attempt is counted before it is made.                           *)
SentWithinAttempts == sent <= row.attempts /\ row.attempts <= MaxAttempts

(* A sent message stays sent: a job given to another worker after its first  *)
(* one died does not begin it again.                                         *)
SentStaysSent == [][row.status = "sent" => row'.status = "sent"]_vars

(* A job has ended with its last try, and its delivery says an attempt is    *)
(* under way: that it failed could not be written.                          *)
Unrecorded == row.status = "processing" /\ job.state = "failed" /\ job.made = JobAttempts

(* A message asked for is sent or runs out of attempts, though jobs fail for *)
(* good before the delivery has, and processes die - unless the database      *)
(* failed a job in its last try: the sweep does not look at such a row.      *)
Settled == row.status = "sent" \/ (row.attempts = MaxAttempts /\ worker = "idle")
RequestsAreSettled == (row.status # "none") ~> (Settled \/ Unrecorded)

=============================================================================
