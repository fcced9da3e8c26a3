-------------------------- MODULE Reminders_proofs ---------------------------
(***************************************************************************)
(* What the reminders of the bridge guarantee for any number of reminders, *)
(* cancellations and restarts, with calls and passes of the loop that      *)
(* overlap freely and writes that fail.  The invariant follows every list  *)
(* that somebody still holds and may yet write: a settled reminder is on   *)
(* each of them, one that was struck is on none.                           *)
(***************************************************************************)
EXTENDS Reminders, TLAPS

Done == reached \cup failed \cup cancelled

(* The lists somebody will write, and what is taken off the loop's.        *)
SettledHeld ==
    /\ settled \subseteq file \cup Done
    /\ \A c \in Call : tool[c].pc = "write" => settled \subseteq tool[c].items \cup Done
    /\ loop.pc = "push" => settled \subseteq loop.items \cup Done
    /\ loop.pushed \subseteq reached \cup failed

StruckGone ==
    /\ struck \cap (file \cup loop.items) = {}
    /\ loop.left \subseteq loop.items
    /\ loop.pc = "sleep" => loop.items = {}
    /\ \A c \in Call : tool[c].pc = "write" => struck \cap tool[c].items = {}

(* A reminder is on a list only after the call that set it has written.    *)
SetFirst ==
    /\ \A r \in file \cup loop.items \cup struck : tool[r].pc = "done"
    /\ \A c \in Call : tool[c].pc = "write" =>
           \A r \in tool[c].items : tool[r].pc = "done"

ListInv == SettledHeld /\ StruckGone /\ SetFirst

RInv == RTypeOK /\ ListInv

-----------------------------------------------------------------------------
LEMMA RTypeInit == RInit => RTypeOK
  BY ReminderAssumption DEF RInit, RTypeOK, Sleeping

LEMMA RTypeNext == RTypeOK /\ [RNext]_rvars => RTypeOK'
<1> SUFFICES ASSUME RTypeOK, [RNext]_rvars PROVE RTypeOK'
  OBVIOUS
<1> USE DEF RTypeOK
<1>0. \A r \in Reminder : r \in Call
  BY DEF Call
<1>1. ASSUME NEW c \in Call, Loads(c) PROVE RTypeOK'
  BY <1>1 DEF Loads
<1>2. ASSUME NEW r \in Reminder, SetWrites(r) PROVE RTypeOK'
  BY <1>0, <1>2 DEF SetWrites, Over
<1>3. ASSUME NEW r \in Reminder, TimePasses(r) PROVE RTypeOK'
  BY <1>3 DEF TimePasses
<1>4. ASSUME NEW r \in Reminder, LoopPushes(r) PROVE RTypeOK'
  BY <1>4 DEF LoopPushes
<1>5. ASSUME NEW c \in Cancel, CancelWrites(c) PROVE RTypeOK'
  <2>1. c \in Call /\ tool[c].items \subseteq Reminder
    BY DEF Call
  <2> QED BY <1>5, <2>1 DEF CancelWrites, Over
<1>6. CASE LoopLoads
  BY <1>6 DEF LoopLoads
<1>7. CASE LoopWrites
  BY <1>7 DEF LoopWrites, Sleeping
<1>8. CASE Crash
  BY <1>8, ReminderAssumption DEF Crash, Sleeping, Over
<1>9. CASE LoopIdle \/ UNCHANGED rvars
  BY <1>9 DEF LoopIdle, rvars
<1> QED BY <1>1, <1>2, <1>3, <1>4, <1>5, <1>6, <1>7, <1>8, <1>9 DEF RNext

(* Every variable keeps its type, and the loop only ever pushes what it    *)
(* loaded (1620-1636).                                                     *)
THEOREM RTyped == RSpec => []RTypeOK
  BY RTypeInit, RTypeNext, PTL DEF RSpec

-----------------------------------------------------------------------------
LEMMA ListInit == RInit => ListInv
  BY DEF RInit, ListInv, SettledHeld, StruckGone, SetFirst, Done, Sleeping

(* The tools: a list is loaded, and written as the new file.               *)
LEMMA ToolsKeepLists ==
  ASSUME RInv,
         \/ \E c \in Call : Loads(c)
         \/ \E r \in Reminder : SetWrites(r)
         \/ \E c \in Cancel : CancelWrites(c)
  PROVE  ListInv'
<1> USE DEF RInv, RTypeOK, ListInv, SettledHeld, StruckGone, SetFirst, Done
<1>0. \A r \in Reminder : r \in Call
  BY DEF Call
<1>1. ASSUME NEW c \in Call, Loads(c) PROVE ListInv'
  <2>1. /\ tool[c].pc = "idle"
        /\ tool' = [tool EXCEPT ![c] = [pc |-> "write", items |-> file]]
        /\ UNCHANGED <<file, loop, settled, struck, cancelled, reached, failed>>
    BY <1>1 DEF Loads
  <2> QED BY <1>0, <2>1
<1>2. ASSUME NEW r \in Reminder, SetWrites(r) PROVE ListInv'
  <2>1. /\ tool[r].pc = "write" /\ r \in Call
        /\ tool' = [tool EXCEPT ![r] = [pc |-> "done", items |-> {}]]
        /\ UNCHANGED <<loop, struck, cancelled, reached, failed>>
    BY <1>0, <1>2 DEF SetWrites, Over
  <2>2. CASE UNCHANGED <<file, settled>>
    BY <1>0, <2>1, <2>2
  <2>3. CASE /\ file' = tool[r].items \cup {r}
             /\ settled' = IF Alone(r) THEN settled \cup {r} ELSE settled
    <3>1. SettledHeld'
      BY <2>1, <2>3 DEF Alone
    <3>2. r \notin struck
      BY <2>1
    <3>3. StruckGone' /\ SetFirst'
      BY <1>0, <2>1, <2>3, <3>2
    <3> QED BY <3>1, <3>3
  <2> QED BY <1>2, <2>2, <2>3 DEF SetWrites
<1>3. ASSUME NEW c \in Cancel, CancelWrites(c) PROVE ListInv'
  <2>1. /\ c \in Call /\ tool[c].pc = "write"
        /\ tool' = [tool EXCEPT ![c] = [pc |-> "done", items |-> {}]]
        /\ UNCHANGED <<loop, settled, reached, failed>>
    BY <1>3 DEF CancelWrites, Call, Over
  <2>2. PICK matched \in SUBSET tool[c].items :
           /\ cancelled' = cancelled \cup matched
           /\ \/ /\ file' = tool[c].items \ matched
                 /\ struck' = IF Alone(c) THEN struck \cup matched ELSE struck
              \/ UNCHANGED <<file, struck>>
    BY <1>3 DEF CancelWrites
  <2>3. CASE UNCHANGED <<file, struck>>
    BY <1>0, <2>1, <2>2, <2>3
  <2>4. CASE /\ file' = tool[c].items \ matched
             /\ struck' = IF Alone(c) THEN struck \cup matched ELSE struck
    <3>1. SettledHeld'
      BY <2>1, <2>2, <2>4
    <3>2. Alone(c) => loop.pc = "sleep" /\ \A d \in Call \ {c} : tool[d].pc # "write"
      BY DEF Alone
    <3>4. StruckGone'
      BY <2>1, <2>2, <2>4, <3>2
    <3>5. SetFirst'
      BY <1>0, <2>1, <2>2, <2>4
    <3> QED BY <3>1, <3>4, <3>5
  <2> QED BY <2>2, <2>3, <2>4
<1> QED BY <1>1, <1>2, <1>3

(* The loop: what it pushed is in Done before it leaves the file.          *)
LEMMA LoopKeepsLists ==
  ASSUME RInv, LoopLoads \/ LoopWrites \/ \E r \in Reminder : LoopPushes(r)
  PROVE  ListInv'
<1> USE DEF RInv, RTypeOK, ListInv, SettledHeld, StruckGone, SetFirst, Done
<1>1. CASE LoopLoads
  BY <1>1 DEF LoopLoads
<1>2. ASSUME NEW r \in Reminder, LoopPushes(r) PROVE ListInv'
  <2>1. /\ loop.pc = "push"
        /\ loop' = [loop EXCEPT !.left = @ \ {r}, !.pushed = @ \cup {r}]
        /\ UNCHANGED <<file, tool, settled, struck, cancelled>>
        /\ r \in reached' \cup failed'
        /\ reached \subseteq reached' /\ failed \subseteq failed'
    BY <1>2 DEF LoopPushes
  <2> QED BY <2>1
<1>3. CASE LoopWrites
  <2>1. /\ loop.pc = "push" /\ loop' = Sleeping
        /\ file' = loop.items \ loop.pushed \/ file' = file
        /\ UNCHANGED <<tool, settled, struck, cancelled, reached, failed>>
    BY <1>3 DEF LoopWrites
  <2> QED BY <2>1 DEF Sleeping
<1> QED BY <1>1, <1>2, <1>3

LEMMA ListNext == RInv /\ [RNext]_rvars => ListInv'
<1> SUFFICES ASSUME RInv, [RNext]_rvars PROVE ListInv'
  OBVIOUS
<1> USE DEF RInv, RTypeOK, ListInv, SettledHeld, StruckGone, SetFirst, Done
<1>1. ASSUME NEW r \in Reminder, TimePasses(r) PROVE ListInv'
  BY <1>1 DEF TimePasses
<1>2. CASE Crash
  <2>1. /\ loop' = Sleeping
        /\ tool' = [c \in Call |-> IF tool[c].pc = "write" THEN Over ELSE tool[c]]
        /\ UNCHANGED <<file, settled, struck, cancelled, reached, failed>>
    BY <1>2 DEF Crash
  <2>2. \A c \in Call : /\ tool'[c].pc # "write"
                        /\ tool[c].pc = "done" => tool'[c].pc = "done"
    BY <2>1 DEF Over
  <2>3. \A r \in Reminder : r \in Call
    BY DEF Call
  <2> QED BY <2>1, <2>2, <2>3 DEF Sleeping
<1>3. CASE LoopIdle \/ UNCHANGED rvars
  BY <1>3 DEF LoopIdle, rvars
<1> QED BY <1>1, <1>2, <1>3, ToolsKeepLists, LoopKeepsLists DEF RNext

LEMMA RInvAlways == RSpec => []RInv
<1>1. RInit => RInv
  BY RTypeInit, ListInit DEF RInv
<1>2. RInv /\ [RNext]_rvars => RInv'
  BY RTypeNext, ListNext DEF RInv
<1> QED BY <1>1, <1>2, PTL DEF RSpec

(* A reminder set while nobody else was between reading and writing the    *)
(* file is on disk until a push of it was tried or it was cancelled,       *)
(* whatever overlaps, fails or restarts afterwards (1578-1636).            *)
THEOREM Kept == RSpec => []ConfirmedKept
<1>1. RInv => ConfirmedKept
  BY DEF RInv, ListInv, SettledHeld, ConfirmedKept, Done
<1> QED BY <1>1, RInvAlways, PTL

(* ... and one that was cancelled in the same way is never again on disk   *)
(* nor about to be pushed (1601-1611, 1620-1636).                          *)
THEOREM Final == RSpec => []CancelIsFinal
<1>1. RInv => CancelIsFinal
  BY DEF RInv, ListInv, StruckGone, CancelIsFinal
<1> QED BY <1>1, RInvAlways, PTL
=============================================================================
