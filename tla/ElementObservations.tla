------------------------ MODULE ElementObservations ------------------------
(***************************************************************************)
(* How the scheduler of accessibility work (element_scheduler.rs) shares    *)
(* observations.  A reader asks for a scan of a window or for the refresh   *)
(* of a reference; readers of one job that has not begun share it, and      *)
(* those of a refresh share its result for good.  A job all of whose        *)
(* readers left is aborted, and its task may come to its end nevertheless.  *)
(*                                                                          *)
(* The loop is the one of ElementAdmissions: it waits for a request, a task *)
(* that ended, the wake-up or the tick, accepts what else has come, prunes, *)
(* and starts one job after another.  A reader is one call of scan or       *)
(* refresh.  A result is named by the number of the task it comes from,     *)
(* be it elements or an error: the code passes each on alike.               *)
(***************************************************************************)
EXTENDS Integers, Sequences, FiniteSets, Turns

CONSTANTS
  Reader,        \* calls of scan and refresh
  Bearer,        \* the tokens they are made with
  BearerOf,
  Job,           \* JobId: windows to scan and references to refresh
  JobOf,         \* what each reader wants
  Refreshes,     \* the jobs that are refreshes
  Program,       \* applications
  ProgramOf,     \* the application each job is about
  Leaving,       \* the readers that may stop waiting
  Lapsing,       \* the tokens that may end
  SCANS,         \* 8 in the code
  REFRESHES      \* 4 in the code

ASSUME ReaderAssumption ==
  /\ BearerOf \in [Reader -> Bearer] /\ JobOf \in [Reader -> Job]
  /\ ProgramOf \in [Job -> Program]
  /\ Refreshes \subseteq Job /\ Leaving \subseteq Reader /\ Lapsing \subseteq Bearer
  /\ SCANS \in Nat \ {0} /\ REFRESHES \in Nat \ {0}

VARIABLES
  reader,     \* where each call is
  answer,     \* the result it was given, 0 for none
  since,      \* bookkeeping: how many tasks had begun its scan when it asked
  lapsed,     \* tokens that ended
  asks,       \* the channel to the scheduler
  queued,     \* Jobs.queued: who waits for a job that has not begun, nobody if there is none
  order,      \* Jobs.order
  tokens,     \* Jobs.tokens: whose turn it is
  work,       \* Jobs.active: who waits for a job that began, and where its task is
  cell,       \* Refresh.result, 0 while there is none
  step,       \* the loop waits, accepts or starts jobs
  starts      \* tasks that began each job so far

readerVars == <<reader, answer, since, lapsed>>
queueVars == <<queued, order, tokens>>
observationVars == <<readerVars, asks, queueVars, work, cell, step, starts>>

NoWork == [readers |-> {}, task |-> "none", n |-> 0]

\* Reader::live
Live(r) == reader[r] = "asked" /\ BearerOf[r] \notin lapsed

\* reply.send to each of S; whose token ended hears of that instead.
Reply(S, n) ==
  LET heard == {r \in S : Live(r)} IN
  /\ reader' = [r \in Reader |-> IF r \in heard THEN "answered" ELSE reader[r]]
  /\ answer' = [r \in Reader |-> IF r \in heard THEN n ELSE answer[r]]
  /\ UNCHANGED <<since, lapsed>>

-----------------------------------------------------------------------------
(* The readers. *)

HasResult(r) == JobOf[r] \in Refreshes /\ cell[JobOf[r]] # 0

\* Scheduler::scan, Scheduler::refresh
Request(r) ==
  /\ reader[r] = "idle" /\ ~HasResult(r)
  /\ JobOf[r] \in Refreshes => BearerOf[r] \notin lapsed
  /\ reader' = [reader EXCEPT ![r] = "asked"]
  /\ since' = IF JobOf[r] \in Refreshes THEN since ELSE [since EXCEPT ![r] = starts[JobOf[r]]]
  /\ asks' = Append(asks, r)
  /\ UNCHANGED <<answer, lapsed, queueVars, work, cell, step, starts>>

\* Scheduler::refresh, of what is known already
ReadCell(r) ==
  /\ reader[r] = "idle" /\ HasResult(r) /\ BearerOf[r] \notin lapsed
  /\ reader' = [reader EXCEPT ![r] = "answered"]
  /\ answer' = [answer EXCEPT ![r] = cell[JobOf[r]]]
  /\ UNCHANGED <<since, lapsed, asks, queueVars, work, cell, step, starts>>

\* The client goes away, or hears that its token ended.
Forgo(r) ==
  /\ reader[r] = "asked" /\ (r \in Leaving \/ BearerOf[r] \in lapsed)
  /\ reader' = [reader EXCEPT ![r] = "gone"]
  /\ UNCHANGED <<answer, since, lapsed, asks, queueVars, work, cell, step, starts>>

Lapse(t) ==
  /\ t \in Lapsing \ lapsed
  /\ lapsed' = lapsed \cup {t}
  /\ UNCHANGED <<reader, answer, since, asks, queueVars, work, cell, step, starts>>

-----------------------------------------------------------------------------
(* The worker tasks. *)

\* A task comes to its end, also one that is being aborted.
Complete(j) ==
  /\ work[j].task \in {"running", "aborted"}
  /\ work' = [work EXCEPT ![j].task = "done"]
  /\ UNCHANGED <<readerVars, asks, queueVars, cell, step, starts>>

Cancel(j) ==
  /\ work[j].task = "aborted"
  /\ work' = [work EXCEPT ![j].task = "cancelled"]
  /\ UNCHANGED <<readerVars, asks, queueVars, cell, step, starts>>

-----------------------------------------------------------------------------
(* The scheduler's loop. *)

IsFinished(j) == work[j].task \in {"done", "cancelled"}

\* Scans under way are joined, too.
JoinsScans(r) ==
  work[JobOf[r]].task # "none" /\ ~IsFinished(JobOf[r]) /\ work[JobOf[r]].readers # {}

\* A refresh everybody left is joined, too.
JoinsAborted(r) ==
  JobOf[r] \in Refreshes /\ work[JobOf[r]].task # "none" /\ ~IsFinished(JobOf[r])

\* Jobs::push: there is a result already,
PushAnswers(r) ==
  /\ HasResult(r)
  /\ Reply({r}, cell[JobOf[r]])
  /\ UNCHANGED <<queueVars, work>>

\* or somebody still waits for a refresh under way,
Joins(r) ==
  /\ JobOf[r] \in Refreshes
  /\ work[JobOf[r]].task # "none" /\ ~IsFinished(JobOf[r]) /\ work[JobOf[r]].readers # {}

PushJoins(r) ==
  /\ ~HasResult(r) /\ Joins(r)
  /\ work' = [work EXCEPT ![JobOf[r]].readers = @ \cup {r}]
  /\ UNCHANGED <<readerVars, queueVars>>

\* The token gets its turn only with a job of its own.
PushQueuesFirst(r) ==
  /\ ~HasResult(r) /\ ~Joins(r)
  /\ queued' = [queued EXCEPT ![JobOf[r]] = @ \cup {r}]
  /\ order' = IF queued[JobOf[r]] = {} THEN Append(order, JobOf[r]) ELSE order
  /\ tokens' = IF queued[JobOf[r]] # {} \/ \E k \in DOMAIN tokens : tokens[k] = BearerOf[r]
               THEN tokens ELSE Append(tokens, BearerOf[r])
  /\ UNCHANGED <<readerVars, work>>

\* or it waits for the job to begin.
PushQueues(r) ==
  /\ ~HasResult(r) /\ ~Joins(r)
  /\ queued' = [queued EXCEPT ![JobOf[r]] = @ \cup {r}]
  /\ order' = IF queued[JobOf[r]] = {} THEN Append(order, JobOf[r]) ELSE order
  /\ tokens' = IF \E k \in DOMAIN tokens : tokens[k] = BearerOf[r]
               THEN tokens ELSE Append(tokens, BearerOf[r])
  /\ UNCHANGED <<readerVars, work>>

\* select! and try_recv: a request (256 in one turn of the loop at most)
AcceptCall ==
  /\ step \in {"waiting", "accepting"} /\ asks # <<>>
  /\ step' = "accepting" /\ asks' = Tail(asks)
  /\ PushAnswers(Head(asks)) \/ PushJoins(Head(asks)) \/ PushQueues(Head(asks))
  /\ UNCHANGED <<cell, starts>>

\* The result is for those who asked before the task ended.
ConcludeActive(j) ==
  /\ work[j].task = "done"
  /\ work' = [work EXCEPT ![j] = NoWork]
  /\ cell' = IF j \in Refreshes /\ cell[j] = 0 THEN [cell EXCEPT ![j] = work[j].n] ELSE cell
  /\ Reply(work[j].readers, work[j].n)
  /\ UNCHANGED queueVars

\* Jobs::finish: who asked just as the task ended gets the same refresh.
Conclude(j) ==
  LET late == IF j \in Refreshes THEN queued[j] ELSE {} IN
  /\ work[j].task = "done"
  /\ work' = [work EXCEPT ![j] = NoWork]
  /\ cell' = IF j \in Refreshes /\ cell[j] = 0 THEN [cell EXCEPT ![j] = work[j].n] ELSE cell
  /\ queued' = [queued EXCEPT ![j] = @ \ late]
  /\ Reply(work[j].readers \cup late, work[j].n)
  /\ UNCHANGED <<order, tokens>>

\* run: a task was cancelled.  Whoever still waited for it hears that the scheduler stopped.
Drop(j) ==
  /\ work[j].task = "cancelled"
  /\ work' = [work EXCEPT ![j] = NoWork]
  /\ reader' = [r \in Reader |-> IF r \in work[j].readers /\ Live(r) THEN "stopped" ELSE reader[r]]
  /\ UNCHANGED <<answer, since, lapsed, queueVars, cell>>

\* select!: join_next
JoinNext(j) ==
  /\ step = "waiting"
  /\ step' = "accepting"
  /\ Conclude(j) \/ Drop(j)
  /\ UNCHANGED <<asks, starts>>

\* select!: the tick, or a wake-up for the sake of a mutation
GoRound ==
  /\ step = "waiting"
  /\ step' = "accepting"
  /\ UNCHANGED <<readerVars, asks, queueVars, work, cell, starts>>

\* The order is not pruned.
PruneJobsUnordered ==
  /\ step = "accepting" /\ asks = <<>>
  /\ step' = "starting"
  /\ work' = [j \in Job |->
       LET still == {r \in work[j].readers : Live(r)} IN
       [work[j] EXCEPT !.readers = still,
                       !.task = IF @ = "running" /\ still = {} THEN "aborted" ELSE @]]
  /\ queued' = [j \in Job |-> {r \in queued[j] : Live(r)}]
  /\ tokens' = Kept(tokens, {BearerOf[r] : r \in UNION {queued'[j] : j \in Job}})
  /\ UNCHANGED <<readerVars, asks, order, cell, starts>>

\* Jobs::prune
PruneJobs ==
  /\ step = "accepting" /\ asks = <<>>
  /\ step' = "starting"
  /\ work' = [j \in Job |->
       LET still == {r \in work[j].readers : Live(r)} IN
       [work[j] EXCEPT !.readers = still,
                       !.task = IF @ = "running" /\ still = {} THEN "aborted" ELSE @]]
  /\ queued' = [j \in Job |-> {r \in queued[j] : Live(r)}]
  /\ order' = Kept(order, {j \in Job : queued'[j] # {}})
  /\ tokens' = Kept(tokens, {BearerOf[r] : r \in UNION {queued'[j] : j \in Job}})
  /\ UNCHANGED <<readerVars, asks, cell, starts>>

\* the jobs under way of the same kind
Alike(j) == {i \in Job : work[i].task # "none" /\ (i \in Refreshes <=> j \in Refreshes)}

\* Jobs::next: whether the job may begin for the sake of a token
MayStart(j, t) ==
  /\ work[j].task = "none"
  /\ Cardinality(Alike(j)) < (IF j \in Refreshes THEN REFRESHES ELSE SCANS)
  /\ Cardinality({i \in Alike(j) : ProgramOf[i] = ProgramOf[j]}) < (IF j \in Refreshes THEN 1 ELSE 2)
  /\ \E r \in queued[j] : BearerOf[r] = t

Startable(t) == {i \in DOMAIN order : MayStart(order[i], t)}
StartTurns == {k \in DOMAIN tokens : Startable(tokens[k]) # {}}

\* Jobs::next and the start of the task
StartJob ==
  /\ step = "starting" /\ StartTurns # {}
  /\ LET k == First(StartTurns)
         i == First(Startable(tokens[k]))
         j == order[i]
     IN  /\ tokens' = Rotated(tokens, k)
         /\ order' = Removed(order, i)
         /\ queued' = [queued EXCEPT ![j] = {}]
         /\ work' = [work EXCEPT ![j] = [readers |-> queued[j], task |-> "running", n |-> starts[j] + 1]]
         /\ starts' = [starts EXCEPT ![j] = @ + 1]
  /\ UNCHANGED <<readerVars, asks, cell, step>>

\* nothing more may begin
EndRound ==
  /\ step = "starting" /\ StartTurns = {}
  /\ step' = "waiting"
  /\ UNCHANGED <<readerVars, asks, queueVars, work, cell, starts>>

-----------------------------------------------------------------------------
ObservationInit ==
  /\ reader = [r \in Reader |-> "idle"] /\ answer = [r \in Reader |-> 0]
  /\ since = [r \in Reader |-> 0] /\ lapsed = {} /\ asks = <<>>
  /\ queued = [j \in Job |-> {}] /\ order = <<>> /\ tokens = <<>>
  /\ work = [j \in Job |-> NoWork] /\ cell = [j \in Job |-> 0]
  /\ step = "waiting" /\ starts = [j \in Job |-> 0]

ObservationNext ==
  \/ \E r \in Reader : Request(r) \/ ReadCell(r) \/ Forgo(r)
  \/ \E t \in Bearer : Lapse(t)
  \/ \E j \in Job : Complete(j) \/ Cancel(j) \/ JoinNext(j)
  \/ AcceptCall \/ GoRound \/ PruneJobs \/ StartJob \/ EndRound

ObservationSpec == ObservationInit /\ [][ObservationNext]_observationVars

-----------------------------------------------------------------------------
(* Properties. *)

\* Every variable keeps its type.
ObservationTypeOK ==
  /\ reader \in [Reader -> {"idle", "asked", "answered", "gone", "stopped"}]
  /\ answer \in [Reader -> Nat] /\ since \in [Reader -> Nat]
  /\ lapsed \subseteq Bearer /\ asks \in Seq(Reader)
  /\ queued \in [Job -> SUBSET Reader] /\ order \in Seq(Job) /\ tokens \in Seq(Bearer)
  /\ work \in [Job -> [readers : SUBSET Reader,
                       task : {"none", "running", "aborted", "done", "cancelled"}, n : Nat]]
  /\ cell \in [Job -> Nat]
  /\ step \in {"waiting", "accepting", "starting"} /\ starts \in [Job -> Nat]

\* "Scans always start after their readers arrive.  Refreshes share the same
\* observation": no scan is answered by a task that was under way when its reader asked,
\* and all who are answered about a reference hear the same, whether they asked before
\* the task ended, just then or later, and whatever became of an aborted one.
AnswersFit ==
  \A r \in Reader : reader[r] = "answered" =>
    IF JobOf[r] \in Refreshes THEN answer[r] = cell[JobOf[r]] ELSE answer[r] > since[r]

\* Whoever waits is looked after: its request is in the channel, its job waits in the
\* order and a token that wants it in the turn, or its task goes on and will be joined.
\* Others who leave take nothing with them, and nobody hears that the scheduler stopped.
NobodyIsForgotten ==
  \A r \in Reader :
    /\ reader[r] # "stopped"
    /\ Live(r) =>
         \/ \E i \in DOMAIN asks : asks[i] = r
         \/ /\ r \in queued[JobOf[r]]
            /\ \E i \in DOMAIN order : order[i] = JobOf[r]
            /\ \E k \in DOMAIN tokens : tokens[k] = BearerOf[r]
         \/ r \in work[JobOf[r]].readers /\ work[JobOf[r]].task \in {"running", "done"}

\* Jobs::next looks every entry of the order up in the queue and panics where there is
\* none: each names a job that waits, and names it once, although finish takes jobs from
\* the queue and leaves them in the order, and their readers may ask for them again.
OrderNamesQueuedJobs ==
  step = "starting" =>
    \A i \in DOMAIN order : queued[order[i]] # {} /\ \A k \in DOMAIN order : order[k] = order[i] => k = i
=============================================================================
