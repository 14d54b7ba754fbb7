-------------------------- MODULE ConversationLock --------------------------
(***************************************************************************)
(* What runWithConversationLock promises the turns of the conversations:   *)
(* the turns of one conversation run one at a time, in the order in which  *)
(* they asked.  Conversation implements it with a chain of promises.       *)
(***************************************************************************)
CONSTANTS Messages, Keys, KeyOf

VARIABLES
    phase,  \* message -> "away", "waiting", "inside" or "gone"
    ahead   \* message -> the messages that asked for its lock before it

vars == <<phase, ahead>>

Peers(m) == {u \in Messages : KeyOf[u] = KeyOf[m]}

Init ==
    /\ phase = [m \in Messages |-> "away"]
    /\ ahead = [m \in Messages |-> {}]

Ask(m) ==
    /\ phase[m] = "away"
    /\ phase' = [phase EXCEPT ![m] = "waiting"]
    /\ ahead' = [ahead EXCEPT ![m] =
                    {u \in Peers(m) : phase[u] # "away"}]

Enter(m) ==
    /\ phase[m] = "waiting"
    /\ \A u \in ahead[m] : phase[u] = "gone"
    /\ \A u \in Peers(m) : phase[u] # "inside"
    /\ phase' = [phase EXCEPT ![m] = "inside"]
    /\ UNCHANGED ahead

Leave(m) ==
    /\ phase[m] = "inside"
    /\ phase' = [phase EXCEPT ![m] = "gone"]
    /\ UNCHANGED ahead

\* The process dies with all its turns.
Crash ==
    /\ phase' = [m \in Messages |->
                    IF phase[m] \in {"waiting", "inside"} THEN "gone" ELSE phase[m]]
    /\ UNCHANGED ahead

Next ==
    \/ \E m \in Messages : Ask(m) \/ Enter(m) \/ Leave(m)
    \/ Crash

Spec == Init /\ [][Next]_vars
=============================================================================
