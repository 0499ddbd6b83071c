----------------------------- MODULE McpSessions -----------------------------
(***************************************************************************)
(* Who owns the sessions of the MCP server, and when they end               *)
(* (mcp/sessions.rs).  The MCP library keeps the sessions; the server keeps *)
(* beside them the token that created each, how many responses are open on  *)
(* it and since when there are none.  Three parties remove sessions: the    *)
(* client's DELETE, the cleanup of a token and the reaper, which takes what *)
(* nobody owns; one that is just being created belongs to nobody yet.       *)
(*                                                                          *)
(* A call is a slot for one HTTP request at a time, which its client may    *)
(* give up at any await.  Requests without a session that do not initialize *)
(* one, and sessions the library ends by itself, are left out.              *)
(***************************************************************************)
EXTENDS Integers, FiniteSets

CONSTANTS
  HttpCall,   \* requests under way at a time
  Creator,    \* tokens
  MaxSession  \* the bound: how many sessions are ever created

ASSUME SessionAssumption == MaxSession \in Nat

SessionIds == 1..MaxSession
NoSession == 0

VARIABLES
  kept,      \* manager.sessions: the library's sessions
  owners,    \* Sessions.owners: token, open responses, idle for IDLE_TIMEOUT
  call,      \* what each request does, for which token, on which session
  created,   \* the number of sessions created
  standing,  \* each token is live, ended (expired or cancelled), or its sessions are revoked
  revoked,   \* the sessions its cleanup has yet to close
  reaping    \* the reaper waits for the initializations to end

sessionVars == <<kept, owners, call, created, standing, revoked, reaping>>

NoCall == [at |-> "none"]
Initializing(c) == call[c].at \in {"entered", "created"}
Leases(c) == call[c].at \in {"open", "deleting", "deleted"}

\* Access::live
Lives(t) == standing[t] = "live"

-----------------------------------------------------------------------------
(* A request that initializes a session. *)

Initialize(c, t) ==
  /\ call[c] = NoCall /\ Lives(t)
  /\ call' = [call EXCEPT ![c] = [at |-> "waiting", token |-> t, id |-> NoSession]]
  /\ UNCHANGED <<kept, owners, created, standing, revoked, reaping>>

\* initializing.read(): not while the reaper is in line
Enter(c) ==
  /\ call[c].at = "waiting" /\ ~reaping
  /\ call' = [call EXCEPT ![c].at = "entered"]
  /\ UNCHANGED <<kept, owners, created, standing, revoked, reaping>>

\* next.run(): the library creates the session.  Its answer is still to come.
Create(c) ==
  /\ call[c].at = "entered" /\ created < MaxSession
  /\ created' = created + 1 /\ kept' = kept \cup {created'}
  /\ call' = [call EXCEPT ![c].at = "created", ![c].id = created']
  /\ UNCHANGED <<owners, standing, revoked, reaping>>

\* Sessions::register, which a token that has ended is refused
RegisterOwner(c) ==
  LET t == call[c].token
      id == call[c].id
  IN  /\ call[c].at = "created"
      /\ IF Lives(t)
         THEN /\ owners' = [i \in DOMAIN owners \cup {id} |->
                              IF i = id THEN [token |-> t, active |-> 1, idle |-> FALSE]
                              ELSE owners[i]]
              /\ call' = [call EXCEPT ![c].at = "open"]
         ELSE call' = [call EXCEPT ![c] = NoCall] /\ UNCHANGED owners
      /\ UNCHANGED <<kept, created, standing, revoked, reaping>>

\* INIT_TIMEOUT, or the client is gone: the read lock goes with the request
GiveUpInitialize(c) ==
  /\ call[c].at \in {"waiting", "entered", "created"}
  /\ call' = [call EXCEPT ![c] = NoCall]
  /\ UNCHANGED <<kept, owners, created, standing, revoked, reaping>>

-----------------------------------------------------------------------------
(* A request on a session. *)

\* Sessions::acquire
Acquire(c, t, id) ==
  /\ call[c] = NoCall /\ Lives(t)
  /\ id \in DOMAIN owners /\ owners[id].token = t
  /\ owners' = [owners EXCEPT ![id].active = @ + 1]
  /\ \E at \in {"open", "deleting"} : call' = [call EXCEPT ![c] = [at |-> at, token |-> t, id |-> id]]
  /\ UNCHANGED <<kept, created, standing, revoked, reaping>>

\* next.run() of a DELETE; the library knows no session twice
Delete(c) ==
  /\ call[c].at = "deleting"
  /\ kept' = kept \ {call[c].id}
  /\ call' = [call EXCEPT ![c].at = IF call[c].id \in kept THEN "deleted" ELSE "open"]
  /\ UNCHANGED <<owners, created, standing, revoked, reaping>>

OwnersBut(S) == [id \in DOMAIN owners \ S |-> owners[id]]

\* the DELETE succeeded
Disown(c) ==
  /\ call[c].at = "deleted"
  /\ call' = [call EXCEPT ![c].at = "open"]
  /\ owners' = OwnersBut({call[c].id})
  /\ UNCHANGED <<kept, created, standing, revoked, reaping>>

\* Lease::drop, when the response has been read, or given up at any place
ReleaseLease(c) ==
  /\ Leases(c)
  /\ call' = [call EXCEPT ![c] = NoCall]
  /\ owners' = [id \in DOMAIN owners |->
       IF id = call[c].id THEN [owners[id] EXCEPT !.active = @ - 1, !.idle = FALSE] ELSE owners[id]]
  /\ UNCHANGED <<kept, created, standing, revoked, reaping>>

\* IDLE_TIMEOUT after the last response
Idle(id) ==
  /\ id \in DOMAIN owners /\ owners[id].active = 0 /\ ~owners[id].idle
  /\ owners' = [owners EXCEPT ![id].idle = TRUE]
  /\ UNCHANGED <<kept, call, created, standing, revoked, reaping>>

-----------------------------------------------------------------------------
(* Tokens and the reaper. *)

\* A token expires or is cancelled.
EndToken(t) ==
  /\ Lives(t)
  /\ standing' = [standing EXCEPT ![t] = "ended"]
  /\ UNCHANGED <<kept, owners, call, created, revoked, reaping>>

\* Sessions::revoke: what the token owns is forgotten at once
Revoke(t) ==
  /\ standing[t] = "ended"
  /\ standing' = [standing EXCEPT ![t] = "revoked"]
  /\ LET ids == {id \in DOMAIN owners : owners[id].token = t}
     IN  owners' = OwnersBut(ids) /\ revoked' = [revoked EXCEPT ![t] = ids]
  /\ UNCHANGED <<kept, call, created, reaping>>

\* and closed in the library, one by one
CloseRevoked(t, id) ==
  /\ id \in revoked[t]
  /\ revoked' = [revoked EXCEPT ![t] = @ \ {id}]
  /\ kept' = kept \ {id}
  /\ UNCHANGED <<owners, call, created, standing, reaping>>

\* sweep: its interval; initializing.write() gets in line
Sweep ==
  /\ ~reaping /\ reaping' = TRUE
  /\ UNCHANGED <<kept, owners, call, created, standing, revoked>>

\* An owner with an open response is left alone, whatever its token.
DeservesOpen(id) ==
  id \in kept /\ (owners[id].active > 0 \/ (Lives(owners[id].token) /\ ~owners[id].idle))

\* What the reaper leaves: a session the library has, of a live token, that is used or was
\* used of late
Deserves(id) ==
  id \in kept /\ Lives(owners[id].token) /\ (owners[id].active > 0 \/ ~owners[id].idle)

\* The reaper does not wait.
ReapAtOnce ==
  /\ reaping /\ reaping' = FALSE
  /\ owners' = [id \in {i \in DOMAIN owners : Deserves(i)} |-> owners[id]]
  /\ kept' = kept \cap DOMAIN owners'
  /\ UNCHANGED <<call, created, standing, revoked>>

\* Sessions::reap, under the lock that keeps initializations out
Reap ==
  /\ reaping /\ reaping' = FALSE
  /\ \A c \in HttpCall : ~Initializing(c)
  /\ owners' = [id \in {i \in DOMAIN owners : Deserves(i)} |-> owners[id]]
  /\ kept' = kept \cap DOMAIN owners'
  /\ UNCHANGED <<call, created, standing, revoked>>

-----------------------------------------------------------------------------
McpInit ==
  /\ kept = {} /\ owners = [id \in {} |-> NoCall] /\ created = 0
  /\ call = [c \in HttpCall |-> NoCall]
  /\ standing = [t \in Creator |-> "live"] /\ revoked = [t \in Creator |-> {}]
  /\ reaping = FALSE

McpNext ==
  \/ \E c \in HttpCall :
       \/ Enter(c) \/ Create(c) \/ RegisterOwner(c) \/ GiveUpInitialize(c)
       \/ Delete(c) \/ Disown(c) \/ ReleaseLease(c)
       \/ \E t \in Creator : Initialize(c, t) \/ \E id \in SessionIds : Acquire(c, t, id)
  \/ \E t \in Creator : EndToken(t) \/ Revoke(t) \/ \E id \in SessionIds : CloseRevoked(t, id)
  \/ \E id \in SessionIds : Idle(id)
  \/ Sweep \/ Reap

McpSpec == McpInit /\ [][McpNext]_sessionVars

\* The reaper comes, initializations have a deadline, and time passes.  Nothing makes a
\* client read its response, or a token's cleanup run.
InitializationEnds ==
  \E c \in HttpCall : RegisterOwner(c) \/ (Initializing(c) /\ GiveUpInitialize(c))
McpFairness ==
  /\ WF_sessionVars(Sweep) /\ WF_sessionVars(Reap)
  /\ WF_sessionVars(\E id \in SessionIds : Idle(id)) /\ WF_sessionVars(InitializationEnds)

FairMcpSpec == McpSpec /\ McpFairness

-----------------------------------------------------------------------------
(* Properties. *)

\* Every variable keeps its type.
McpTypeOK ==
  /\ kept \subseteq SessionIds /\ DOMAIN owners \subseteq SessionIds
  /\ \A id \in DOMAIN owners : owners[id] \in [token : Creator, active : Nat, idle : BOOLEAN]
  /\ call \in [HttpCall -> {NoCall} \cup
       [at : {"waiting", "entered", "created", "open", "deleting", "deleted"}, token : Creator,
        id : SessionIds \cup {NoSession}]]
  /\ created \in 0..MaxSession
  /\ standing \in [Creator -> {"live", "ended", "revoked"}]
  /\ revoked \in [Creator -> SUBSET SessionIds]
  /\ reaping \in BOOLEAN

\* A response is open on the session for a token that lives, or it is being created.
InUse(id) ==
  \/ id \in DOMAIN owners /\ owners[id].active > 0 /\ Lives(owners[id].token)
  \/ \E c \in HttpCall : call[c].at = "created" /\ call[c].id = id

\* A session in use goes only by a DELETE of its own token: neither the reaper nor the
\* cleanup of another token takes it, although the owner is written down only after the
\* library has created it.
UsedStay ==
  [][\A id \in kept \ kept' :
       InUse(id) => \E c \in HttpCall : call[c].at = "deleting" /\ call[c].id = id]_sessionVars

\* What nobody uses goes from both maps, unless somebody uses it again first: a session
\* whose client went away while it was created, deleted or idle, and one whose token
\* ended, whether its cleanup comes or not and however long its responses stay open.
Remains(id) == id \in kept \cup DOMAIN owners
UnusedGo ==
  \A id \in SessionIds : Remains(id) /\ ~InUse(id) ~> InUse(id) \/ ~Remains(id)

\* A session lives as long as its use.
SessionsFollowUse == UsedStay /\ UnusedGo
=============================================================================
