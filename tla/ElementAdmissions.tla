-------------------------- MODULE ElementAdmissions --------------------------
(***************************************************************************)
(* How the scheduler of accessibility work (element_scheduler.rs) admits   *)
(* mutations: one at a time for an application, MUTATIONS in all, in turn   *)
(* for the tokens that ask.  A request goes through an unbounded channel to *)
(* the scheduler's task; the answer is a permit, and whoever drops it wakes *)
(* the task.                                                                *)
(*                                                                          *)
(* The task's loop waits for a request, the wake-up or its 100 ms tick,     *)
(* accepts what else has come, prunes, and admits one request after         *)
(* another.  Permits and answers are dropped on other threads, at any time. *)
(* A request is named by its caller; its reply is closed once the caller    *)
(* does not wait for it any more.  How long the admitted work takes is left *)
(* open.                                                                    *)
(***************************************************************************)
EXTENDS Integers, Sequences, FiniteSets, Turns

CONSTANTS
  Caller,         \* tasks that mutate elements, again and again
  TokenOf,        \* the token each of them uses
  ApplicationOf,  \* the application each of them mutates
  Forsaking,      \* the callers that may stop waiting
  Expiring,       \* the tokens that may end
  MUTATIONS       \* 4 in the code

Tokens == {TokenOf[c] : c \in Caller}
Wanted == {ApplicationOf[c] : c \in Caller}

ASSUME CallerAssumption ==
  /\ TokenOf \in [Caller -> Tokens] /\ ApplicationOf \in [Caller -> Wanted]
  /\ Forsaking \subseteq Caller /\ Expiring \subseteq Tokens
  /\ MUTATIONS \in Nat \ {0}

VARIABLES
  caller,     \* where each caller is: it may wait, hold a permit or be dropping one
  ended,      \* tokens that expired or were revoked
  requests,   \* the channel to the scheduler
  pending,    \* Admissions.pending: each token's queue, empty when it has none
  turn,       \* Admissions.tokens: whose turn it is
  active,     \* Admissions.active: applications with a lease, though it may be gone
  place,      \* the task waits, accepts requests or admits
  wake        \* the permit of the Notify

admissionVars == <<caller, ended, requests, pending, turn, active, place, wake>>

InQueue(c, queue) == \E i \in DOMAIN queue : queue[i] = c
Waits(c) == caller[c] = "asked" /\ TokenOf[c] \notin ended
Leased(a) == \E c \in Caller : caller[c] = "granted" /\ ApplicationOf[c] = a

-----------------------------------------------------------------------------
(* The callers. *)

\* Scheduler::mutation.  The bound: a caller comes again only when nothing of its
\* earlier request is left.
Ask(c) ==
  /\ caller[c] = "idle" /\ TokenOf[c] \notin ended
  /\ ~InQueue(c, requests) /\ ~InQueue(c, pending[TokenOf[c]])
  /\ caller' = [caller EXCEPT ![c] = "asked"]
  /\ requests' = Append(requests, c)
  /\ UNCHANGED <<ended, pending, turn, active, place, wake>>

\* The caller goes away, or hears that its token ended.
Forsake(c) ==
  /\ caller[c] = "asked" /\ (c \in Forsaking \/ TokenOf[c] \in ended)
  /\ caller' = [caller EXCEPT ![c] = "idle"]
  /\ UNCHANGED <<ended, requests, pending, turn, active, place, wake>>

\* Permit::drop: the lease goes first
DropLease(c) ==
  /\ caller[c] = "granted"
  /\ caller' = [caller EXCEPT ![c] = "leaving"]
  /\ UNCHANGED <<ended, requests, pending, turn, active, place, wake>>

\* Permit::drop: nobody is told.
DropSilently(c) ==
  /\ caller[c] = "leaving"
  /\ caller' = [caller EXCEPT ![c] = "idle"]
  /\ UNCHANGED <<ended, requests, pending, turn, active, place, wake>>

\* Permit::drop: then the task is woken
DropWakes(c) ==
  /\ caller[c] = "leaving"
  /\ caller' = [caller EXCEPT ![c] = "idle"]
  /\ wake' = TRUE
  /\ UNCHANGED <<ended, requests, pending, turn, active, place>>

End(t) ==
  /\ t \in Expiring \ ended
  /\ ended' = ended \cup {t}
  /\ UNCHANGED <<caller, requests, pending, turn, active, place, wake>>

-----------------------------------------------------------------------------
(* The scheduler's task. *)

\* Admissions::push
Push(c) ==
  LET t == TokenOf[c] IN
  /\ pending' = [pending EXCEPT ![t] = Append(@, c)]
  /\ turn' = IF pending[t] = <<>> THEN Append(turn, t) ELSE turn

\* select!: a request
Receive ==
  /\ place = "waiting" /\ requests # <<>>
  /\ place' = "accepting"
  /\ requests' = Tail(requests) /\ Push(Head(requests))
  /\ UNCHANGED <<caller, ended, active, wake>>

\* select!: the wake-up
Woken ==
  /\ place = "waiting" /\ wake
  /\ place' = "accepting" /\ wake' = FALSE
  /\ UNCHANGED <<caller, ended, requests, pending, turn, active>>

\* select!: the tick, while something is pending
Tick ==
  /\ place = "waiting" /\ turn # <<>>
  /\ place' = "accepting"
  /\ UNCHANGED <<caller, ended, requests, pending, turn, active, wake>>

\* try_recv: the requests that have come in the meantime (256 at most in the code)
Accept ==
  /\ place = "accepting" /\ requests # <<>>
  /\ requests' = Tail(requests) /\ Push(Head(requests))
  /\ UNCHANGED <<caller, ended, active, place, wake>>

\* dispatch: leases, requests and tokens that are gone
Prune ==
  /\ place = "accepting" /\ requests = <<>>
  /\ place' = "admitting"
  /\ active' = {a \in active : Leased(a)}
  /\ pending' = [t \in Tokens |-> Kept(pending[t], {c \in Caller : Waits(c)})]
  /\ turn' = Kept(turn, {t \in Tokens : pending'[t] # <<>>})
  /\ UNCHANGED <<caller, ended, requests, wake>>

Admissible(c) == ApplicationOf[c] \notin active

\* the places in the turn of tokens with a request that can be admitted, and the
\* places of such requests in a token's queue
Ready(t) == {i \in DOMAIN pending[t] : Admissible(pending[t][i])}
ReadyTurns == {k \in DOMAIN turn : Ready(turn[k]) # {}}

\* The request is taken out of the queue, but the turn does not move on.
AdmitWithoutTurn ==
  /\ place = "admitting" /\ Cardinality(active) < MUTATIONS /\ ReadyTurns # {}
  /\ LET k == First(ReadyTurns)
         t == turn[k]
         i == First(Ready(t))
         c == pending[t][i]
     IN  /\ pending' = [pending EXCEPT ![t] = Removed(@, i)]
         /\ turn' = IF pending'[t] = <<>> THEN Removed(turn, k) ELSE turn
         /\ active' = active \cup {ApplicationOf[c]}
         /\ caller' = [caller EXCEPT ![c] = IF @ = "asked" THEN "granted" ELSE @]
         /\ wake' = (wake \/ caller[c] # "asked")
  /\ UNCHANGED <<ended, requests, place>>

\* dispatch: the first token whose turn it is and that has a request to admit; it,
\* and every token passed over on the way, goes to the back.  A caller that is gone
\* drops its permit at once.
Admit ==
  /\ place = "admitting" /\ Cardinality(active) < MUTATIONS /\ ReadyTurns # {}
  /\ LET k == First(ReadyTurns)
         t == turn[k]
         i == First(Ready(t))
         c == pending[t][i]
         left == Removed(pending[t], i)
         others == SubSeq(turn, k + 1, Len(turn)) \o SubSeq(turn, 1, k - 1)
     IN  /\ pending' = [pending EXCEPT ![t] = left]
         /\ turn' = IF left = <<>> THEN others ELSE Append(others, t)
         /\ active' = active \cup {ApplicationOf[c]}
         /\ caller' = [caller EXCEPT ![c] = IF @ = "asked" THEN "granted" ELSE @]
         /\ wake' = (wake \/ caller[c] # "asked")
  /\ UNCHANGED <<ended, requests, place>>

\* dispatch: nothing more can be admitted
Settle ==
  /\ place = "admitting" /\ (Cardinality(active) >= MUTATIONS \/ ReadyTurns = {})
  /\ place' = "waiting"
  /\ UNCHANGED <<caller, ended, requests, pending, turn, active, wake>>

-----------------------------------------------------------------------------
AdmissionInit ==
  /\ caller = [c \in Caller |-> "idle"] /\ ended = {}
  /\ requests = <<>> /\ pending = [t \in Tokens |-> <<>>] /\ turn = <<>>
  /\ active = {} /\ place = "waiting" /\ wake = FALSE

Task == Receive \/ Woken \/ Tick \/ Accept \/ Prune \/ Admit \/ Settle

AdmissionNext ==
  \/ \E c \in Caller : Ask(c) \/ Forsake(c) \/ DropLease(c) \/ DropWakes(c)
  \/ \E t \in Tokens : End(t)
  \/ Task

AdmissionSpec == AdmissionInit /\ [][AdmissionNext]_admissionVars

\* The scheduler's task runs, and admitted work ends: a mutation has ten seconds.
Releases == \E c \in Caller : DropLease(c) \/ DropWakes(c)
AdmissionFairness == WF_admissionVars(Task) /\ WF_admissionVars(Releases)

FairAdmissionSpec == AdmissionSpec /\ AdmissionFairness

-----------------------------------------------------------------------------
(* Properties. *)

\* Every variable keeps its type.
AdmissionTypeOK ==
  /\ caller \in [Caller -> {"idle", "asked", "granted", "leaving"}]
  /\ ended \subseteq Tokens
  /\ requests \in Seq(Caller)
  /\ pending \in [Tokens -> Seq(Caller)]
  /\ turn \in Seq(Tokens)
  /\ active \subseteq Wanted
  /\ place \in {"waiting", "accepting", "admitting"}
  /\ wake \in BOOLEAN

\* Two live permits are never for one application (docs/mcp.md: one mutation for
\* each), although the task learns of a dropped lease only at its next pruning.
OnePermit ==
  \A c, d \in Caller :
    caller[c] = "granted" /\ caller[d] = "granted" /\ c # d => ApplicationOf[c] # ApplicationOf[d]

\* "Dropping the lease wakes admission": a request never sits in the queues, its
\* application free and a slot too, without the task being awake or about to be,
\* wherever in the task's loop the permit was dropped.
ReleaseWakes ==
  place = "waiting" /\ ~wake /\ requests = <<>> /\ (\A c \in Caller : caller[c] # "leaving") =>
    \A t \in Tokens : \A i \in DOMAIN pending[t] :
      \/ Leased(ApplicationOf[pending[t][i]])
      \/ Cardinality({a \in Wanted : Leased(a)}) >= MUTATIONS

\* docs/mcp.md: "Admission rotates between competing tokens".  A caller whose
\* application no other token wants is admitted some day, however many of the others
\* come again, while it waits: whoever is served goes behind it in the turn.  (Where
\* two tokens want one application the turn promises nothing: a token passed over
\* because its application is busy goes to the back with those that were served.)
Loner(c) == \A d \in Caller : ApplicationOf[d] = ApplicationOf[c] => TokenOf[d] = TokenOf[c]
LonersAreAdmitted ==
  \A c \in Caller :
    Loner(c) => (caller[c] = "asked" ~> (caller[c] # "asked" \/ TokenOf[c] \in ended))
=============================================================================
