-------------------------- MODULE DesktopOwnership --------------------------
(***************************************************************************)
(* What the server promises of the desktop's keyboard and pointer, without *)
(* a channel, a lock or a session: many sources may want the input, one at *)
(* a time owns it, and the keys of two are never down together.            *)
(*                                                                         *)
(* The owner changes at once; what is down follows later.  A source's key  *)
(* may still go down after the source lost the input, as long as nothing   *)
(* of another one is down, and whatever is down of a source that does not  *)
(* own the input is lifted in the end, with nobody else's help.            *)
(***************************************************************************)
CONSTANT Source
VARIABLES
  owner,   \* {} or {source}
  down     \* sources with a key, a button, a finger or a drag on the desktop

vars == <<owner, down>>

Init == owner = {} /\ down = {}

Take(s) == owner' = {s} /\ UNCHANGED down
Yield == owner' = {} /\ UNCHANGED down
Press(s) == down \subseteq {s} /\ down' = {s} /\ UNCHANGED owner
Lift == down' = {} /\ UNCHANGED owner

Next == (\E s \in Source : Take(s) \/ Press(s)) \/ Yield \/ Lift

Spec == Init /\ [][Next]_vars

\* What is down of another than the owner does not stay.
FairSpec == Spec /\ WF_vars(~(down \subseteq owner) /\ Lift)
=============================================================================
