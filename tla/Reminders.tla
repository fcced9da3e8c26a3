------------------------------ MODULE Reminders ------------------------------
(***************************************************************************)
(* The reminders of the bridge (xiaogpt-bridge.py:1556-1643): a JSON file, *)
(* the tools that set and cancel reminders, and the loop that speaks the   *)
(* ones that are due and then removes them.  Each reads the whole file,    *)
(* computes, and writes the whole file: _reminder_lock is held during the  *)
(* write only, and a write that fails is not reported.  The tools of one   *)
(* turn, those of a deep task and the loop run in threads of their own, so *)
(* anything may happen between a read and the write that rests on it.      *)
(***************************************************************************)
EXTENDS Integers, FiniteSets

CONSTANTS Reminder,    \* one call of reminder_set each
          Cancel,      \* calls of reminder_cancel
          MaxCrash     \* bound: restarts of the bridge

ASSUME ReminderAssumption ==
    /\ Reminder \cap Cancel = {}
    /\ MaxCrash \in Nat

Call == Reminder \cup Cancel

VARIABLES file,       \* the reminders on disk
          due,        \* the reminders whose time has come
          tool,       \* the calls: where each is, and the items it loaded
          loop,       \* _reminder_loop: pc, items, left of due, pushed
          settled,    \* set while nobody else was about to write the file
          struck,     \* cancelled while nobody else was about to write it
          cancelled,  \* a cancellation matched the reminder
          reached,    \* migpt took a push of it
          failed,     \* a push of it failed, and push_to_migpt swallowed that
          crashes

rvars == <<file, due, tool, loop, settled, struck, cancelled, reached, failed, crashes>>

Sleeping == [pc |-> "sleep", items |-> {}, left |-> {}, pushed |-> {}]
Over == [pc |-> "done", items |-> {}]

RInit ==
    /\ file = {} /\ due = {} /\ settled = {} /\ struck = {}
    /\ cancelled = {} /\ reached = {} /\ failed = {}
    /\ tool = [c \in Call |-> [pc |-> "idle", items |-> {}]]
    /\ loop = Sleeping
    /\ crashes = 0

(* Nobody but call c has read the file and not yet written it.             *)
Alone(c) == loop.pc = "sleep" /\ \A d \in Call \ {c} : tool[d].pc # "write"

-----------------------------------------------------------------------------
(* The tools.                                                              *)

Loads(c) ==
    /\ tool[c].pc = "idle"
    /\ tool' = [tool EXCEPT ![c] = [pc |-> "write", items |-> file]]
    /\ UNCHANGED <<file, due, loop, settled, struck, cancelled, reached, failed, crashes>>

(* reminder_set, of a time that is still to come.                          *)
SetWrites(r) ==
    /\ tool[r].pc = "write"
    /\ \/ /\ file' = tool[r].items \cup {r}
          /\ settled' = IF Alone(r) THEN settled \cup {r} ELSE settled
       \/ UNCHANGED <<file, settled>>               \* the OSError passed over
    /\ tool' = [tool EXCEPT ![r] = Over]
    /\ UNCHANGED <<due, loop, struck, cancelled, reached, failed, crashes>>

(* Faulty variant: the filtered list is not saved. *)
CancelForgets(c) ==
    /\ tool[c].pc = "write"
    /\ \E matched \in SUBSET tool[c].items :
          /\ cancelled' = cancelled \cup matched
          /\ struck' = IF Alone(c) THEN struck \cup matched ELSE struck
    /\ tool' = [tool EXCEPT ![c] = Over]
    /\ UNCHANGED <<file, due, loop, settled, reached, failed, crashes>>

(* reminder_cancel: the reminders it matches, or all of them.              *)
CancelWrites(c) ==
    /\ tool[c].pc = "write"
    /\ \E matched \in SUBSET tool[c].items :
          /\ cancelled' = cancelled \cup matched
          /\ \/ /\ file' = tool[c].items \ matched
                /\ struck' = IF Alone(c) THEN struck \cup matched ELSE struck
             \/ UNCHANGED <<file, struck>>
    /\ tool' = [tool EXCEPT ![c] = Over]
    /\ UNCHANGED <<due, loop, settled, reached, failed, crashes>>

-----------------------------------------------------------------------------
(* The loop, every ten seconds.                                            *)

TimePasses(r) ==
    /\ r \notin due /\ tool[r].pc = "done"
    /\ due' = due \cup {r}
    /\ UNCHANGED <<file, tool, loop, settled, struck, cancelled, reached, failed, crashes>>

LoopLoads ==
    /\ loop.pc = "sleep"
    /\ file \cap due # {}
    /\ loop' = [pc |-> "push", items |-> file, left |-> file \cap due, pushed |-> {}]
    /\ UNCHANGED <<file, due, tool, settled, struck, cancelled, reached, failed, crashes>>

LoopIdle == loop.pc = "sleep" /\ file \cap due = {} /\ UNCHANGED rvars

(* Faulty variant: only one of the due reminders is POSTed. *)
LoopSkips(r) ==
    /\ loop.pc = "push" /\ r \in loop.left
    /\ loop' = [loop EXCEPT !.left = {}, !.pushed = @ \cup loop.left]
    /\ reached' = reached \cup {r}
    /\ UNCHANGED <<file, due, tool, settled, struck, cancelled, failed, crashes>>

(* push_to_migpt does not raise, whatever becomes of its POST.             *)
LoopPushes(r) ==
    /\ loop.pc = "push" /\ r \in loop.left
    /\ loop' = [loop EXCEPT !.left = @ \ {r}, !.pushed = @ \cup {r}]
    /\ \/ reached' = reached \cup {r} /\ UNCHANGED failed
       \/ failed' = failed \cup {r} /\ UNCHANGED reached
    /\ UNCHANGED <<file, due, tool, settled, struck, cancelled, crashes>>

(* Faulty variant: what has come due by now is removed, pushed or not. *)
LoopWritesLate ==
    /\ loop.pc = "push" /\ loop.left = {}
    /\ \/ file' = loop.items \ due
       \/ UNCHANGED file
    /\ loop' = Sleeping
    /\ UNCHANGED <<due, tool, settled, struck, cancelled, reached, failed, crashes>>

LoopWrites ==
    /\ loop.pc = "push" /\ loop.left = {}
    /\ \/ file' = loop.items \ loop.pushed
       \/ UNCHANGED file
    /\ loop' = Sleeping
    /\ UNCHANGED <<due, tool, settled, struck, cancelled, reached, failed, crashes>>

(* The bridge dies and is started again: threads and locals are gone, the  *)
(* file is the one before or after the atomic replacement.                 *)
Crash ==
    /\ crashes < MaxCrash
    /\ crashes' = crashes + 1
    /\ loop' = Sleeping
    /\ tool' = [c \in Call |-> IF tool[c].pc = "write" THEN Over ELSE tool[c]]
    /\ UNCHANGED <<file, due, settled, struck, cancelled, reached, failed>>

RNext ==
    \/ \E c \in Call : Loads(c)
    \/ \E r \in Reminder : SetWrites(r) \/ TimePasses(r) \/ LoopPushes(r)
    \/ \E c \in Cancel : CancelWrites(c)
    \/ LoopLoads \/ LoopIdle \/ LoopWrites \/ Crash

RSpec == RInit /\ [][RNext]_rvars

(* Fairness: the loop goes on, a POST ends (it has a timeout), and time    *)
(* passes.  A write need never succeed.                                    *)
Looping == LoopLoads \/ LoopWrites \/ \E r \in Reminder : LoopPushes(r)
RFairSpec ==
    /\ RSpec
    /\ WF_rvars(Looping)
    /\ \A r \in Reminder : WF_rvars(TimePasses(r))

-----------------------------------------------------------------------------
RTypeOK ==
    /\ file \subseteq Reminder /\ due \subseteq Reminder
    /\ settled \subseteq Reminder /\ struck \subseteq Reminder
    /\ cancelled \subseteq Reminder /\ reached \subseteq Reminder
    /\ failed \subseteq Reminder /\ crashes \in 0..MaxCrash
    /\ tool \in [Call -> [pc : {"idle", "write", "done"}, items : SUBSET Reminder]]
    /\ loop \in [pc : {"sleep", "push"}, items : SUBSET Reminder,
                 left : SUBSET Reminder, pushed : SUBSET Reminder]

(* A reminder that was set while nobody else was between reading and       *)
(* writing the file stays in it until a push of it was tried or it was     *)
(* cancelled: whatever tools, passes of the loop, failing writes and       *)
(* restarts overlap afterwards, none of them drops it (1578-1636).  One    *)
(* that is set while another writer holds an older list can be dropped.    *)
ConfirmedKept == settled \subseteq file \cup reached \cup failed \cup cancelled

(* ... and once it is due a push of it is tried, or it was cancelled: a    *)
(* restart between the push and the write repeats it, and loses none.      *)
EveryReminderTried ==
    \A r \in Reminder : (r \in settled) ~> (r \in reached \cup failed \cup cancelled)

(* A reminder cancelled while nobody else was between reading and writing  *)
(* the file is never again on disk nor about to be pushed: no list that    *)
(* somebody still holds, and no pass of the loop, brings it back.          *)
CancelIsFinal == struck \cap (file \cup loop.left) = {}

(* What _reminder_loop says of itself (1614-1616): a push that failed      *)
(* keeps its reminder for another try, so what the loop takes off the file *)
(* had reached migpt.  push_to_migpt swallows the failure (2183-2197), the *)
(* branch that would keep the reminder is never taken, and this is false.  *)
UnheardKept ==
    [][\A r \in (file \ file') \cap loop.pushed : r \in reached \cup cancelled]_rvars
=============================================================================
