--------------------------- MODULE MCConversation ---------------------------
(* Conversation for TLC: the messages of one thread, a call that is         *)
(* confirmed on both paths and one that shows something.                    *)
EXTENDS Conversation

CONSTANTS m1, m2, m3, thread, cancelSchedule, listSchedule

MCMessages == {m1, m2, m3}
MCKeys == {thread}
MCKeyOf == [m \in Messages |-> thread]
MCCalls == {cancelSchedule, listSchedule}
MCDestructive == {cancelSchedule}
MCDisplay == {listSchedule}
=============================================================================
