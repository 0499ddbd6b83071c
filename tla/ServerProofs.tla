------------------------------ MODULE ServerProofs ------------------------------
(***************************************************************************)
(* Two registries of the server that share nothing, each with its own       *)
(* inductive invariant: the broadcasts and the MCP sessions.                *)
(***************************************************************************)
EXTENDS Broadcasts, McpSessions, FiniteSetTheorems, TLAPS

-----------------------------------------------------------------------------
(***************************************************************************)
(* A repeated start begins nothing twice, the outputs stay within their     *)
(* limit and what was stopped stays stopped, for any number of tokens,      *)
(* requests and workers.  The argument rests on two facts: a broadcast the  *)
(* registry has forgotten has ended and is old, so the registry counts      *)
(* every one that works; and a worker whose state is final has left its     *)
(* loop, whichever thread wrote that state.                                 *)
(***************************************************************************)

States == {"Starting", "Sending", "Reconnecting", "Stopping", "Stopped", "Failed"}
Places == {"none", "loop", "connecting", "sending", "reconnecting", "failing", "cancelled",
           "crashed", "ending", "ended", "over"}
Entry == [owner : Operator, request : RequestId, attached : BOOLEAN]
Holder ==
  [for : {"none", "stop", "list"}, todo : SUBSET Outputs, flagged : SUBSET Outputs] \cup
  [for : {"start"}, todo : SUBSET Outputs, flagged : SUBSET Outputs, owner : Operator,
   request : RequestId]

Working == {i \in Started : ~Terminal(progress[i])}

\* The workers' side of the invariant
WorkersInv ==
  /\ thread \in [Outputs -> Places] /\ progress \in [Outputs -> States]
  /\ aged \subseteq Outputs /\ stopped \subseteq Outputs
  /\ \A i \in Outputs : Terminal(progress[i]) => thread[i] \in {"cancelled", "ending", "ended", "over"}
  /\ \A i \in Outputs \ Started : thread[i] = "none" /\ progress[i] = "Starting"

\* and the registry's
RegistryInv ==
  /\ \E n \in 0..MaxOutput : Started = 1..n
  /\ \A i \in Started : origin[i] \in Operator \X RequestId
  /\ DOMAIN entries \subseteq Started
  /\ entries \in [DOMAIN entries -> Entry]
  /\ \A i \in DOMAIN entries : origin[i] = <<entries[i].owner, entries[i].request>>
  /\ guard \in Holder /\ guard.todo \subseteq DOMAIN entries
  /\ guard.for = "start" => Cardinality(Started) < MaxOutput
  /\ attached \subseteq Outputs /\ good \subseteq Operator

\* What the registry has forgotten has ended and is old.
ForgottenIsOver == \A i \in Started \ DOMAIN entries : Terminal(progress[i]) /\ i \in aged

BroadcastInv == WorkersInv /\ RegistryInv /\ ForgottenIsOver /\ OneOutputEach

-----------------------------------------------------------------------------
\* A step that starts no worker and revives none; what it does to the registry aside
Onward ==
  /\ origin' = origin /\ aged \subseteq aged'
  /\ \A i \in Started : Terminal(progress[i]) => Terminal(progress'[i])

LEMMA OutputsAreFinite ==
  ASSUME RegistryInv
  PROVE  /\ IsFiniteSet(Started) /\ Started \subseteq Outputs
         /\ Cardinality(Started) \in 0..MaxOutput /\ Started = 1..Cardinality(Started)
<1>1. PICK n \in 0..MaxOutput : Started = 1..n
  BY DEF RegistryInv
<1>2. IsFiniteSet(1..n) /\ Cardinality(1..n) = n
  BY <1>1, FS_Interval, BroadcastAssumption
<1> QED
  BY <1>1, <1>2, BroadcastAssumption DEF Outputs

\* Such a step keeps the outputs apart and within their limit.
LEMMA OnwardKeepsOne ==
  ASSUME BroadcastInv, Onward
  PROVE  OneOutputEach'
<1>1. Started' = Started
  BY DEF Onward, Started
<1>2. ASSUME NEW i \in Started', NEW j \in Started', i < j, origin'[i] = origin'[j]
      PROVE  Terminal(progress'[i]) /\ i \in aged'
  BY <1>1, <1>2 DEF BroadcastInv, OneOutputEach, Onward
<1>3. Cardinality(Working') <= MAX_OUTPUTS
  <2>1. Working' \subseteq Working
    BY <1>1 DEF Working, Onward
  <2>2. IsFiniteSet(Working)
    BY OutputsAreFinite, FS_Subset DEF Working, BroadcastInv
  <2>3. Cardinality(Working') <= Cardinality(Working) /\ Cardinality(Working) \in Nat
        /\ Cardinality(Working') \in Nat
    BY <2>1, <2>2, FS_Subset, FS_CardinalityType
  <2>4. Cardinality(Working) <= MAX_OUTPUTS
    BY DEF BroadcastInv, OneOutputEach, Working
  <2> QED
    BY <2>3, <2>4, BroadcastAssumption
<1> QED
  BY <1>2, <1>3 DEF OneOutputEach, Working

\* Whatever leaves the registry alone keeps its side.
LEMMA RegistryStays ==
  ASSUME BroadcastInv, WorkersInv', Onward, UNCHANGED registrySide
  PROVE  BroadcastInv'
<1>1. Started' = Started
  BY DEF Onward, Started
<1>2. RegistryInv'
  BY <1>1 DEF BroadcastInv, RegistryInv, Onward, registrySide
<1>3. ForgottenIsOver'
  BY <1>1 DEF BroadcastInv, ForgottenIsOver, Onward, registrySide
<1> QED
  BY <1>2, <1>3, OnwardKeepsOne DEF BroadcastInv

\* A worker that is over says no more, and each of its last steps leaves a final state.
LEMMA WorkerStep ==
  ASSUME BroadcastInv, NEW i \in Outputs,
         \/ Age(i) \/ Loop(i) \/ Connect(i) \/ SeeFlag(i) \/ Break(i) \/ ReportSending(i)
         \/ ReportFailed(i) \/ ReportReconnecting(i) \/ EndThread(i) \/ Panic(i) \/ LastWord(i)
  PROVE  WorkersInv' /\ Onward /\ UNCHANGED registrySide
<1> USE DEF BroadcastInv, WorkersInv, Onward, Terminal, Go, Silently, Says, Places, States
<1>0. i \in Started \/ thread[i] = "none"
  OBVIOUS
<1>1. CASE Age(i)
  BY <1>1 DEF Age, Started
<1>2. CASE Loop(i)
  BY <1>2, <1>0 DEF Loop, Started, registrySide
<1>3. CASE Connect(i) \/ SeeFlag(i)
  BY <1>3, <1>0 DEF Connect, SeeFlag, Started, registrySide
<1>4. CASE Break(i)
  BY <1>4, <1>0 DEF Break, Started, registrySide
<1>5. CASE ReportSending(i)
  BY <1>5, <1>0 DEF ReportSending, Started, registrySide
<1>6. CASE ReportFailed(i)
  BY <1>6, <1>0 DEF ReportFailed, Started, registrySide
<1>7. CASE ReportReconnecting(i)
  BY <1>7, <1>0 DEF ReportReconnecting, Started, registrySide
<1>8. CASE EndThread(i) \/ Panic(i)
  BY <1>8, <1>0 DEF EndThread, Panic, Swap, Started, registrySide
<1>9. CASE LastWord(i)
  BY <1>9, <1>0 DEF LastWord, Started, registrySide
<1> QED
  BY <1>1, <1>2, <1>3, <1>4, <1>5, <1>6, <1>7, <1>8, <1>9

LEMMA OfOwnerKnown == ASSUME NEW t PROVE OfOwner(t) \subseteq DOMAIN entries
BY DEF OfOwner

\* Taking the lock touches nothing else.
LEMMA LockStep ==
  ASSUME BroadcastInv,
         \/ \E i \in Outputs : Stop(i)
         \/ \E t \in Operator : StopToken(t) \/ \E r \in RequestId : Start(t, r)
         \/ List
  PROVE  /\ guard' \in Holder /\ guard'.todo \subseteq DOMAIN entries
         /\ guard'.for = "start" => Cardinality(Started) < MaxOutput
         /\ UNCHANGED <<workerSide, entries, attached, good>>
<1>0. DOMAIN entries \subseteq Outputs
  BY OutputsAreFinite DEF BroadcastInv, RegistryInv
<1>1. CASE \E i \in Outputs : Stop(i)
  BY <1>0, <1>1 DEF Stop, Lock, Holder
<1>2. CASE \E t \in Operator : StopToken(t)
  BY <1>0, <1>2, OfOwnerKnown DEF StopToken, Lock, Holder
<1>3. CASE \E t \in Operator, r \in RequestId : Start(t, r)
  BY <1>0, <1>3 DEF Start, Holder
<1>4. CASE List
  BY <1>0, <1>4 DEF List, Lock, Holder
<1> QED
  BY <1>1, <1>2, <1>3, <1>4

LEMMA LockKeeps ==
  ASSUME BroadcastInv, guard' \in Holder, guard'.todo \subseteq DOMAIN entries,
         guard'.for = "start" => Cardinality(Started) < MaxOutput,
         UNCHANGED <<workerSide, entries, attached>>, good' \subseteq good
  PROVE  BroadcastInv' /\ Onward
<1>1. WorkersInv' /\ Onward /\ Started' = Started
  BY DEF BroadcastInv, WorkersInv, Onward, workerSide, Started
<1>2. RegistryInv'
  BY <1>1 DEF BroadcastInv, RegistryInv, workerSide
<1>3. ForgottenIsOver'
  BY <1>1 DEF BroadcastInv, ForgottenIsOver, workerSide
<1> QED
  BY <1>1, <1>2, <1>3, OnwardKeepsOne DEF BroadcastInv

\* Setting a flag and visiting an entry: a final state stays, and the entry with it.
LEMMA FlagKeeps ==
  ASSUME BroadcastInv, NEW i \in Outputs, Flag(i)
  PROVE  BroadcastInv' /\ Onward
<1>1. WorkersInv' /\ Onward /\ Started' = Started
  BY DEF BroadcastInv, WorkersInv, Onward, Flag, Started
<1>2. guard' \in Holder /\ guard'.todo \subseteq DOMAIN entries /\ guard'.for = guard.for
  BY DEF BroadcastInv, RegistryInv, Flag, Holder
<1>3. RegistryInv'
  BY <1>1, <1>2 DEF BroadcastInv, RegistryInv, Flag
<1>4. ForgottenIsOver'
  BY <1>1 DEF BroadcastInv, ForgottenIsOver, Flag
<1> QED
  BY <1>1, <1>3, <1>4, OnwardKeepsOne DEF BroadcastInv

LEMMA VisitKeeps ==
  ASSUME BroadcastInv, NEW i \in Outputs, i \in guard.todo, Visit(i)
  PROVE  BroadcastInv' /\ Onward
<1>0. i \in DOMAIN entries /\ i \in Started /\ progress[i] \in States
  BY DEF BroadcastInv, RegistryInv, WorkersInv
<1>1. PICK state \in States :
        /\ Terminal(progress[i]) => state = progress[i]
        /\ ~Terminal(progress[i]) => ~Terminal(state)
        /\ progress' = [progress EXCEPT ![i] = state]
  BY <1>0 DEF Visit, Terminal, States
<1>2. UNCHANGED <<aged, origin, thread, stopped, good>>
  BY DEF Visit
<1>3. WorkersInv' /\ Onward /\ Started' = Started
  BY <1>0, <1>1, <1>2 DEF BroadcastInv, WorkersInv, Onward, Started
<1>4. guard' \in Holder /\ guard'.todo \subseteq DOMAIN entries /\ guard'.for = guard.for
  BY DEF BroadcastInv, RegistryInv, Visit, Holder
<1>5. /\ DOMAIN entries' = DOMAIN entries /\ entries' \in [DOMAIN entries -> Entry]
      /\ \A j \in DOMAIN entries :
           entries'[j].owner = entries[j].owner /\ entries'[j].request = entries[j].request
  <2>1. PICK detach : /\ detach \in BOOLEAN
                      /\ entries' = [entries EXCEPT ![i].attached = @ /\ ~detach]
    BY DEF Visit, Terminal
  <2> QED
    BY <1>0, <2>1 DEF BroadcastInv, RegistryInv, Entry
<1>6. attached' \subseteq Outputs
  BY DEF BroadcastInv, RegistryInv, Visit
<1>7. RegistryInv'
  BY <1>2, <1>3, <1>4, <1>5, <1>6 DEF BroadcastInv, RegistryInv
<1>8. ForgottenIsOver'
  BY <1>2, <1>3, <1>5 DEF BroadcastInv, ForgottenIsOver, Onward
<1> QED
  BY <1>3, <1>7, <1>8, OnwardKeepsOne DEF BroadcastInv

\* What a sweep forgets is over and old, and what works is among what it retains.
LEMMA RetainedAreKept ==
  ASSUME BroadcastInv
  PROVE  /\ Retained \subseteq DOMAIN entries /\ Retained \subseteq Started
         /\ \A i \in Started \ Retained : Terminal(progress[i]) /\ i \in aged
         /\ Working = {i \in Retained : ~Terminal(progress[i])}
BY DEF BroadcastInv, RegistryInv, ForgottenIsOver, Retained, Working

\* It forgets workers only.
LEMMA ForgottenAreWorkers ==
  ASSUME BroadcastInv
  PROVE  Forgotten \subseteq Started /\ Forgotten \subseteq Outputs
BY OutputsAreFinite DEF Forgotten, BroadcastInv, RegistryInv

LEMMA UnlockKeeps ==
  ASSUME BroadcastInv, Unlock \/ EndList
  PROVE  BroadcastInv' /\ Onward
<1>0. UNCHANGED <<aged, origin, thread, progress>> /\ stopped' \subseteq stopped \cup Forgotten
  BY DEF Unlock, EndList, workerSide
<1>1. WorkersInv' /\ Onward /\ Started' = Started
  BY <1>0, ForgottenAreWorkers DEF BroadcastInv, WorkersInv, Onward, Started
<1>2. guard' \in Holder /\ guard'.todo = {} /\ guard'.for = "none"
  BY DEF Unlock, EndList, Free, Holder
<1>3. CASE Unlock
  BY <1>1, <1>2, <1>3, OnwardKeepsOne
  DEF BroadcastInv, RegistryInv, ForgottenIsOver, Unlock, workerSide
<1>4. CASE EndList
  <2>1. /\ entries' \in [Retained -> Entry] /\ DOMAIN entries' = Retained
        /\ \A j \in Retained : entries'[j] = entries[j]
    BY <1>4, RetainedAreKept DEF EndList, BroadcastInv, RegistryInv
  <2>2. RegistryInv'
    BY <1>0, <1>1, <1>2, <1>4, <2>1, RetainedAreKept DEF BroadcastInv, RegistryInv, EndList
  <2>3. ForgottenIsOver'
    BY <1>0, <1>1, <1>4, <2>1, RetainedAreKept DEF ForgottenIsOver, EndList
  <2> QED
    BY <1>1, <2>2, <2>3, OnwardKeepsOne DEF BroadcastInv
<1> QED
  BY <1>3, <1>4

\* A start that is answered from what is remembered, or refused, is only a sweep.
LEMMA RefusedKeeps ==
  ASSUME BroadcastInv, Launch, Repeated \/ Busy
  PROVE  BroadcastInv' /\ Onward
<1>0. /\ UNCHANGED <<aged, origin, thread, progress, attached, good>> /\ guard' = Free
      /\ stopped' = stopped \cup Forgotten
  BY DEF Launch
<1>1. WorkersInv' /\ Onward /\ Started' = Started
  BY <1>0, ForgottenAreWorkers DEF BroadcastInv, WorkersInv, Onward, Started
<1>2. guard' \in Holder /\ guard'.todo = {} /\ guard'.for = "none"
  BY <1>0 DEF Free, Holder
<1>3. /\ entries' \in [Retained -> Entry] /\ DOMAIN entries' = Retained
      /\ \A j \in Retained : entries'[j] = entries[j]
  BY RetainedAreKept DEF Launch, BroadcastInv, RegistryInv
<1>4. RegistryInv'
  BY <1>0, <1>1, <1>2, <1>3, RetainedAreKept DEF BroadcastInv, RegistryInv
<1>5. ForgottenIsOver'
  BY <1>0, <1>1, <1>3, RetainedAreKept DEF ForgottenIsOver
<1> QED
  BY <1>1, <1>4, <1>5, OnwardKeepsOne DEF BroadcastInv

\* A start that is granted: every broadcast of its request is forgotten, so over and old,
\* and every one that works is counted.
LEMMA LaunchedKeeps ==
  ASSUME BroadcastInv, Launch, ~(Repeated \/ Busy)
  PROVE  /\ BroadcastInv'
         /\ \A i \in Outputs : progress'[i] = progress[i]
<1> DEFINE n == Cardinality(Started)
<1>1. PICK i : i = n + 1
  OBVIOUS
<1>2. /\ n \in Nat /\ Started = 1..n /\ IsFiniteSet(Started) /\ i \in Outputs \ Started
      /\ Started \cup {i} = 1..i /\ i \in 0..MaxOutput
  BY <1>1, OutputsAreFinite, BroadcastAssumption
  DEF Outputs, BroadcastInv, RegistryInv, Launch
<1>3. guard \in Holder /\ guard.owner \in Operator /\ guard.request \in RequestId
  BY DEF Launch, BroadcastInv, RegistryInv, Holder
<1>4. /\ entries' = [j \in Retained \cup {i} |->
           IF j = i THEN [owner |-> guard.owner, request |-> guard.request, attached |-> TRUE]
           ELSE entries[j]]
      /\ attached' = attached \cup {i}
      /\ origin' = [j \in Started \cup {i} |->
           IF j = i THEN <<guard.owner, guard.request>> ELSE origin[j]]
      /\ thread' = [thread EXCEPT ![i] = "loop"]
      /\ progress' = [progress EXCEPT ![i] = "Starting"]
      /\ UNCHANGED <<aged, good>> /\ guard' = Free /\ stopped' = stopped \cup Forgotten
  BY <1>1 DEF Launch
<1>5. Started' = Started \cup {i}
  BY <1>4 DEF Started
<1>6. progress[i] = "Starting" /\ progress' = progress
  BY <1>2, <1>4 DEF BroadcastInv, WorkersInv
<1>7. WorkersInv'
  BY <1>2, <1>4, <1>5, <1>6, ForgottenAreWorkers
  DEF BroadcastInv, WorkersInv, Places, States, Terminal
<1>8. RegistryInv'
  <2>1. guard' \in Holder /\ guard'.todo = {} /\ guard'.for = "none"
    BY <1>4 DEF Free, Holder
  <2>2. entries' \in [Retained \cup {i} -> Entry] /\ DOMAIN entries' = Retained \cup {i}
    BY <1>3, <1>4, RetainedAreKept DEF BroadcastInv, RegistryInv, Entry
  <2>3. \A j \in DOMAIN entries' : origin'[j] = <<entries'[j].owner, entries'[j].request>>
    BY <1>2, <1>4, <2>2, RetainedAreKept DEF BroadcastInv, RegistryInv
  <2>4. \A j \in Started' : origin'[j] \in Operator \X RequestId
    BY <1>3, <1>4, <1>5 DEF BroadcastInv, RegistryInv
  <2> QED
    BY <1>2, <1>4, <1>5, <2>1, <2>2, <2>3, <2>4, RetainedAreKept DEF BroadcastInv, RegistryInv
<1>9. ForgottenIsOver'
  BY <1>4, <1>5, <1>6, RetainedAreKept DEF ForgottenIsOver
<1>10. OneOutputEach'
  <2>1. ASSUME NEW a \in Started', NEW b \in Started', a < b, origin'[a] = origin'[b]
        PROVE  Terminal(progress'[a]) /\ a \in aged'
    <3>1. a \in Started /\ a # i
      BY <1>1, <1>2, <1>5, <2>1
    <3>2. CASE b = i
      <4>1. origin[a] = <<guard.owner, guard.request>>
        BY <1>4, <1>5, <2>1, <3>1, <3>2
      <4>2. a \notin Retained
        BY <4>1, RetainedAreKept DEF BroadcastInv, RegistryInv, Repeated
      <4> QED
        BY <1>4, <1>6, <3>1, <4>2, RetainedAreKept
    <3>3. CASE b # i
      <4>1. b \in Started /\ origin[a] = origin[b]
        BY <1>4, <1>5, <2>1, <3>1, <3>3
      <4> QED
        BY <1>4, <1>6, <2>1, <3>1, <4>1 DEF BroadcastInv, OneOutputEach
    <3> QED
      BY <3>2, <3>3
  <2>2. Cardinality(Working') <= MAX_OUTPUTS
    <3>1. Working' = Working \cup {i} /\ i \notin Working
      BY <1>2, <1>5, <1>6 DEF Working, Terminal
    <3>2. IsFiniteSet(Working)
      BY <1>2, FS_Subset DEF Working
    <3>3. Cardinality(Working') = Cardinality(Working) + 1 /\ Cardinality(Working) \in Nat
      BY <3>1, <3>2, FS_AddElement, FS_CardinalityType
    <3>4. ~(Cardinality(Working) >= MAX_OUTPUTS)
      BY RetainedAreKept DEF Busy
    <3> QED
      BY <3>3, <3>4, BroadcastAssumption
  <2> QED
    BY <2>1, <2>2 DEF OneOutputEach, Working
<1> QED
  BY <1>6, <1>7, <1>8, <1>9, <1>10 DEF BroadcastInv

-----------------------------------------------------------------------------
LEMMA InitBroadcastInv == BroadcastInit => BroadcastInv
<1> SUFFICES ASSUME BroadcastInit PROVE BroadcastInv
  OBVIOUS
<1>1. Started = {} /\ DOMAIN entries = {} /\ 1..0 = {}
  BY DEF BroadcastInit, Started
<1>2. WorkersInv
  BY <1>1 DEF WorkersInv, BroadcastInit, Places, States, Terminal
<1>3. RegistryInv
  BY <1>1, BroadcastAssumption DEF RegistryInv, BroadcastInit, Free, Holder
<1>4. OneOutputEach
  <2>1. {i \in Started : ~Terminal(progress[i])} = {}
    BY <1>1
  <2> QED
    BY <1>1, <2>1, FS_EmptySet, BroadcastAssumption DEF OneOutputEach
<1> QED
  BY <1>1, <1>2, <1>3, <1>4 DEF BroadcastInv, ForgottenIsOver

\* A stop in words: Stopping gives way to a final state only, and a final state stays final.
Obeys ==
  \A i \in Outputs :
    /\ progress[i] = "Stopping" => progress'[i] \in {"Stopping", "Stopped", "Failed"}
    /\ i \in Started /\ Terminal(progress[i]) => Terminal(progress'[i])

LEMMA WorkerObeys ==
  ASSUME BroadcastInv, NEW i \in Outputs,
         \/ Age(i) \/ Loop(i) \/ Connect(i) \/ SeeFlag(i) \/ Break(i) \/ ReportSending(i)
         \/ ReportFailed(i) \/ ReportReconnecting(i) \/ EndThread(i) \/ Panic(i) \/ LastWord(i)
  PROVE  \A j \in Outputs :
           progress[j] = "Stopping" => progress'[j] \in {"Stopping", "Stopped", "Failed"}
BY DEF BroadcastInv, WorkersInv, Age, Loop, Connect, SeeFlag, Break, ReportSending, ReportFailed,
       ReportReconnecting, EndThread, Panic, LastWord, Swap, Go, Silently, Says, States

LEMMA NextBroadcastInv ==
  BroadcastInv /\ [BroadcastNext]_broadcastVars => BroadcastInv' /\ Obeys
<1> SUFFICES ASSUME BroadcastInv, [BroadcastNext]_broadcastVars PROVE BroadcastInv' /\ Obeys
  OBVIOUS
<1>1. CASE \E i \in Outputs :
        \/ Age(i) \/ Loop(i) \/ Connect(i) \/ SeeFlag(i) \/ Break(i) \/ ReportSending(i)
        \/ ReportFailed(i) \/ ReportReconnecting(i) \/ EndThread(i) \/ Panic(i) \/ LastWord(i)
  BY <1>1, WorkerStep, WorkerObeys, RegistryStays DEF Onward, Obeys
<1>2. CASE (\E i \in Outputs : Stop(i)) \/ List
           \/ (\E t \in Operator : StopToken(t) \/ \E r \in RequestId : Start(t, r))
  BY <1>2, LockStep, LockKeeps DEF Obeys, workerSide
<1>3. CASE \E t \in Operator : EndOwner(t)
  <2>1. UNCHANGED <<workerSide, entries, attached, guard>> /\ good' \subseteq good
    BY <1>3 DEF EndOwner
  <2>2. guard' \in Holder /\ guard'.todo \subseteq DOMAIN entries
        /\ (guard'.for = "start" => Cardinality(Started) < MaxOutput)
    BY <2>1 DEF BroadcastInv, RegistryInv
  <2> QED
    BY <2>1, <2>2, LockKeeps DEF Obeys, workerSide
<1>4. CASE \E i \in Outputs : Flag(i)
  BY <1>4, FlagKeeps DEF Obeys, Flag
<1>5. CASE \E i \in Outputs : i \in guard.todo /\ Visit(i)
  <2>1. PICK i \in Outputs : i \in guard.todo /\ Visit(i)
    BY <1>5
  <2>2. progress[i] = "Stopping" => progress'[i] = "Stopping"
    BY <2>1 DEF Visit, Terminal, BroadcastInv, WorkersInv
  <2>3. \A j \in Outputs : j # i => progress'[j] = progress[j]
    BY <2>1 DEF Visit, BroadcastInv, WorkersInv
  <2> QED
    BY <2>1, <2>2, <2>3, VisitKeeps DEF Obeys, Onward
<1>6. CASE Unlock \/ EndList
  BY <1>6, UnlockKeeps DEF Obeys, Unlock, EndList, workerSide
<1>7. CASE Launch
  <2>1. CASE Repeated \/ Busy
    BY <1>7, <2>1, RefusedKeeps DEF Obeys, Launch, workerSide
  <2>2. CASE ~(Repeated \/ Busy)
    BY <1>7, <2>2, LaunchedKeeps DEF Obeys
  <2> QED
    BY <2>1, <2>2
<1>8. CASE UNCHANGED broadcastVars
  <2>1. UNCHANGED <<workerSide, entries, attached, guard>> /\ good' \subseteq good
    BY <1>8 DEF broadcastVars, workerSide
  <2>2. guard' \in Holder /\ guard'.todo \subseteq DOMAIN entries
        /\ (guard'.for = "start" => Cardinality(Started) < MaxOutput)
    BY <2>1 DEF BroadcastInv, RegistryInv
  <2> QED
    BY <2>1, <2>2, LockKeeps DEF Obeys, workerSide
<1> QED
  BY <1>1, <1>2, <1>3, <1>4, <1>5, <1>6, <1>7, <1>8 DEF BroadcastNext, Registers

LEMMA SpecBroadcastInv == BroadcastSpec => []BroadcastInv
BY InitBroadcastInv, NextBroadcastInv, PTL DEF BroadcastSpec

-----------------------------------------------------------------------------
\* Every reachable state of the broadcasts is well typed.
THEOREM BroadcastsTypeCorrect == BroadcastSpec => []BroadcastTypeOK
<1>1. BroadcastInv => BroadcastTypeOK
  <2> SUFFICES ASSUME BroadcastInv PROVE BroadcastTypeOK
    OBVIOUS
  <2> QED
    BY OutputsAreFinite
    DEF BroadcastInv, WorkersInv, RegistryInv, BroadcastTypeOK, States, Entry
<1> QED
  BY <1>1, SpecBroadcastInv, PTL

\* A start that is repeated begins nothing twice, and no more outputs work than the server
\* allows (broadcast_start and broadcast_sweep_locked), for any number of them.
THEOREM StartsAreIdempotent == BroadcastSpec => []OneOutputEach
<1>1. BroadcastInv => OneOutputEach
  BY DEF BroadcastInv
<1> QED
  BY <1>1, SpecBroadcastInv, PTL

\* A broadcast that was stopped never shows itself at work again (Running::stop against the
\* worker's run), and one that has ended is not revived.
THEOREM StoppedStaysStopped == BroadcastSpec => StopsForGood
<1>1. BroadcastInv /\ [BroadcastNext]_broadcastVars => [Obeys]_broadcastVars
  BY NextBroadcastInv
<1>2. BroadcastSpec => [][Obeys]_broadcastVars
  BY <1>1, SpecBroadcastInv, PTL DEF BroadcastSpec
<1> QED
  BY <1>2 DEF StopsForGood, Obeys

-----------------------------------------------------------------------------
(***************************************************************************)
(* A used MCP session stays, for any number of requests, tokens and         *)
(* sessions.  A session is at one place at a time: with the request that    *)
(* creates it, with its owner, or with the cleanup of its token; so what a  *)
(* cleanup closes is nobody else's, and the reaper waits for the first.     *)
(***************************************************************************)

CallPlaces == {"waiting", "entered", "created", "open", "deleting", "deleted"}
Calls == {NoCall} \cup [at : CallPlaces, token : Creator, id : SessionIds \cup {NoSession}]
Creating(c, id) == call[c].at = "created" /\ call[c].id = id

McpInv ==
  /\ call \in [HttpCall -> Calls] /\ created \in 0..MaxSession
  /\ revoked \in [Creator -> SUBSET SessionIds] /\ DOMAIN owners \subseteq 1..created
  /\ \A c \in HttpCall : call[c].at = "created" => call[c].id \in 1..created
  /\ \A c, d \in HttpCall, id \in SessionIds : Creating(c, id) /\ Creating(d, id) => c = d
  /\ \A c \in HttpCall, id \in DOMAIN owners : ~Creating(c, id)
  /\ \A t \in Creator : \A id \in revoked[t] :
       id <= created /\ id \notin DOMAIN owners /\ \A c \in HttpCall : ~Creating(c, id)

LEMMA InitMcpInv == McpInit => McpInv
BY SessionAssumption DEF McpInit, McpInv, NoCall, Calls, Creating

LEMMA CallKeeps ==
  ASSUME McpInv, NEW c \in HttpCall,
         \/ Enter(c) \/ GiveUpInitialize(c) \/ Delete(c)
         \/ \E t \in Creator : Initialize(c, t)
  PROVE  McpInv'
<1>1. /\ UNCHANGED <<owners, created, revoked>>
      /\ \E n \in Calls : n.at # "created" /\ call' = [call EXCEPT ![c] = n]
  <2>1. CASE Enter(c)
    <3>1. [call[c] EXCEPT !.at = "entered"] \in Calls
      BY <2>1 DEF Enter, McpInv, Calls, CallPlaces, NoCall
    <3> QED
      BY <2>1, <3>1 DEF Enter, McpInv, Calls, NoCall
  <2>2. CASE GiveUpInitialize(c)
    BY <2>2 DEF GiveUpInitialize, Calls, NoCall
  <2>3. CASE Delete(c)
    <3>1. \A p \in {"deleted", "open"} : /\ [call[c] EXCEPT !.at = p] \in Calls
                                         /\ [call[c] EXCEPT !.at = p].at = p
      BY <2>3 DEF Delete, McpInv, Calls, CallPlaces, NoCall
    <3> QED
      BY <2>3, <3>1 DEF Delete
  <2>4. CASE \E t \in Creator : Initialize(c, t)
    BY <2>4 DEF Initialize, Calls, CallPlaces
  <2> QED
    BY <2>1, <2>2, <2>3, <2>4
<1>2. PICK n \in Calls : n.at # "created" /\ call' = [call EXCEPT ![c] = n]
  BY <1>1
<1>3. \A d \in HttpCall : \A id : Creating(d, id)' => Creating(d, id) /\ call'[d] = call[d]
  BY <1>2 DEF Creating, McpInv
<1> QED
  BY <1>1, <1>2, <1>3 DEF McpInv, Creating

\* A new session's number is nobody's.
LEMMA CreateKeeps ==
  ASSUME McpInv, NEW c \in HttpCall, Create(c)
  PROVE  McpInv'
<1>1. /\ created' = created + 1 /\ created' \in 0..MaxSession /\ created' \in SessionIds
      /\ UNCHANGED <<owners, revoked>>
  BY SessionAssumption DEF Create, McpInv, SessionIds
<1>2. PICK n \in Calls : n.at = "created" /\ n.id = created' /\ call' = [call EXCEPT ![c] = n]
  <2>1. /\ [call[c] EXCEPT !.at = "created", !.id = created'] \in Calls
        /\ [call[c] EXCEPT !.at = "created", !.id = created'].at = "created"
        /\ [call[c] EXCEPT !.at = "created", !.id = created'].id = created'
    <3>1. call[c] \in [at : CallPlaces, token : Creator, id : SessionIds \cup {NoSession}]
      BY DEF Create, McpInv, Calls, NoCall
    <3> QED
      BY <1>1, <3>1 DEF Calls, CallPlaces
  <2> QED
    BY <2>1 DEF Create
<1>3. \A d \in HttpCall : \A id : Creating(d, id)' => Creating(d, id) \/ (d = c /\ id = created + 1)
  BY <1>1, <1>2 DEF Creating, McpInv
<1>4. \A d \in HttpCall : ~Creating(d, created + 1)
  BY <1>1 DEF Creating, McpInv
<1>5. \A d \in HttpCall : call'[d].at = "created" => call'[d].id \in 1..created'
  BY <1>1, <1>2 DEF McpInv
<1> QED
  BY <1>1, <1>2, <1>3, <1>4, <1>5 DEF McpInv, SessionIds

LEMMA RegisterKeeps ==
  ASSUME McpInv, NEW c \in HttpCall, RegisterOwner(c)
  PROVE  McpInv'
<1>1. Creating(c, call[c].id) /\ call[c].id \in 1..created /\ call[c].id \in SessionIds
  BY SessionAssumption DEF RegisterOwner, Creating, McpInv, SessionIds
<1>2. UNCHANGED <<created, revoked>> /\ DOMAIN owners' \subseteq DOMAIN owners \cup {call[c].id}
  BY DEF RegisterOwner
<1>3. PICK n \in Calls : n.at # "created" /\ call' = [call EXCEPT ![c] = n]
  <2>1. /\ [call[c] EXCEPT !.at = "open"] \in Calls
        /\ [call[c] EXCEPT !.at = "open"].at = "open"
        /\ NoCall \in Calls /\ NoCall.at = "none"
    BY DEF RegisterOwner, McpInv, Calls, CallPlaces, NoCall
  <2> QED
    BY <2>1 DEF RegisterOwner
<1>4. \A d \in HttpCall : \A id : Creating(d, id)' => Creating(d, id) /\ d # c /\ call'[d] = call[d]
  BY <1>3 DEF Creating, McpInv
<1>5. \A d \in HttpCall, id \in DOMAIN owners' : ~Creating(d, id)'
  BY <1>1, <1>2, <1>4 DEF McpInv
<1>6. \A t \in Creator : \A id \in revoked[t] : id \notin DOMAIN owners'
  BY <1>1, <1>2 DEF McpInv
<1> QED
  BY <1>1, <1>2, <1>3, <1>4, <1>5, <1>6 DEF McpInv

LEMMA LeaseKeeps ==
  ASSUME McpInv, NEW c \in HttpCall,
         \/ Disown(c) \/ ReleaseLease(c)
         \/ \E t \in Creator, id \in SessionIds : Acquire(c, t, id)
  PROVE  McpInv'
<1>1. UNCHANGED <<created, revoked>> /\ DOMAIN owners' \subseteq DOMAIN owners
  BY DEF Disown, ReleaseLease, Acquire, OwnersBut
<1>2. PICK n \in Calls : n.at # "created" /\ call' = [call EXCEPT ![c] = n]
  <2>1. CASE Disown(c)
    <3>1. [call[c] EXCEPT !.at = "open"] \in Calls /\ [call[c] EXCEPT !.at = "open"].at = "open"
      BY <2>1 DEF Disown, McpInv, Calls, CallPlaces, NoCall
    <3> QED
      BY <2>1, <3>1 DEF Disown
  <2>2. CASE ReleaseLease(c)
    BY <2>2 DEF ReleaseLease, Calls, NoCall
  <2>3. CASE \E t \in Creator, id \in SessionIds : Acquire(c, t, id)
    BY <2>3 DEF Acquire, Calls, CallPlaces
  <2> QED
    BY <2>1, <2>2, <2>3
<1>3. \A d \in HttpCall : \A id : Creating(d, id)' => Creating(d, id) /\ call'[d] = call[d]
  BY <1>2 DEF Creating, McpInv
<1> QED
  BY <1>1, <1>2, <1>3 DEF McpInv, Creating

LEMMA TokenKeeps ==
  ASSUME McpInv,
         \/ \E t \in Creator : EndToken(t) \/ Revoke(t) \/ \E id \in SessionIds : CloseRevoked(t, id)
         \/ \E id \in SessionIds : Idle(id)
         \/ Sweep \/ Reap
  PROVE  McpInv'
<1>1. UNCHANGED <<call, created>> /\ DOMAIN owners' \subseteq DOMAIN owners
  BY DEF EndToken, Revoke, CloseRevoked, Idle, Sweep, Reap, OwnersBut
<1>2. \A d \in HttpCall : \A id : Creating(d, id)' <=> Creating(d, id)
  BY <1>1 DEF Creating
<1>3. CASE \E t \in Creator : Revoke(t)
  <2>1. PICK t \in Creator : Revoke(t)
    BY <1>3
  <2>2. /\ revoked' \in [Creator -> SUBSET SessionIds]
        /\ \A u \in Creator : \A id \in revoked'[u] :
             id \notin DOMAIN owners' /\ (id \in revoked[u] \/ id \in DOMAIN owners)
    BY <2>1, SessionAssumption DEF Revoke, OwnersBut, McpInv, SessionIds
  <2> QED
    BY <1>1, <1>2, <2>2 DEF McpInv
<1>4. CASE ~(\E t \in Creator : Revoke(t))
  <2>1. /\ revoked' \in [Creator -> SUBSET SessionIds]
        /\ \A u \in Creator : revoked'[u] \subseteq revoked[u]
    BY <1>4 DEF EndToken, CloseRevoked, Idle, Sweep, Reap, McpInv
  <2> QED
    BY <1>1, <1>2, <2>1 DEF McpInv
<1> QED
  BY <1>3, <1>4

LEMMA NextMcpInv == McpInv /\ [McpNext]_sessionVars => McpInv'
<1> SUFFICES ASSUME McpInv, [McpNext]_sessionVars PROVE McpInv'
  OBVIOUS
<1>1. CASE McpNext
  BY <1>1, CallKeeps, CreateKeeps, RegisterKeeps, LeaseKeeps, TokenKeeps DEF McpNext
<1>2. CASE UNCHANGED sessionVars
  BY <1>2 DEF sessionVars, McpInv, Creating
<1> QED
  BY <1>1, <1>2

\* A session in use goes only by a DELETE of its own token: the cleanup of another token
\* and the reaper (Sessions::revoke and reap) leave it.
THEOREM UsedSessionsStay == McpSpec => UsedStay
<1> DEFINE Kept == \A id \in kept \ kept' :
                     InUse(id) => \E c \in HttpCall : call[c].at = "deleting" /\ call[c].id = id
<1>1. McpInv /\ [McpNext]_sessionVars => [Kept]_sessionVars
  <2> SUFFICES ASSUME McpInv, McpNext, NEW id \in kept \ kept', InUse(id)
               PROVE  \E c \in HttpCall : call[c].at = "deleting" /\ call[c].id = id
    OBVIOUS
  <2>1. \/ \E c \in HttpCall : Delete(c)
        \/ \E t \in Creator, i \in SessionIds : CloseRevoked(t, i)
        \/ Reap
    BY DEF McpNext, Enter, Create, RegisterOwner, GiveUpInitialize, Disown, ReleaseLease,
           Initialize, Acquire, EndToken, Revoke, Idle, Sweep
  <2>2. CASE \E c \in HttpCall : Delete(c)
    BY <2>2 DEF Delete
  <2>3. CASE \E t \in Creator, i \in SessionIds : CloseRevoked(t, i)
    BY <2>3 DEF CloseRevoked, InUse, McpInv, Creating
  <2>4. CASE Reap
    BY <2>4 DEF Reap, InUse, Deserves, Initializing
  <2> QED
    BY <2>1, <2>2, <2>3, <2>4
<1>2. McpSpec => [][Kept]_sessionVars
  BY <1>1, InitMcpInv, NextMcpInv, PTL DEF McpSpec
<1> QED
  BY <1>2 DEF UsedStay
=============================================================================
