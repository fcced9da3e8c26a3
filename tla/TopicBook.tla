------------------------------ MODULE TopicBook ------------------------------
(***************************************************************************)
(* What the archive of topics promises, without file, lock, list or model  *)
(* (bridge/topic_state.py:82-203): a topic gains one round at a time, of   *)
(* a task that has none yet, and keeps the last of them; a day's cleaning  *)
(* forgets the topics that are too old, and no others.  Topics is shown to *)
(* implement it.                                                           *)
(***************************************************************************)
EXTENDS Integers, Sequences

CONSTANTS Task,       \* a topic is named by the task that opened it
          MaxRounds,  \* rounds a topic keeps
          MaxAge      \* days without a round after which it is forgotten

VARIABLES book,       \* the topics there are: their rounds and their last day
          today

Latest(rounds) ==
    SubSeq(rounds, IF Len(rounds) > MaxRounds THEN Len(rounds) - MaxRounds + 1 ELSE 1,
           Len(rounds))

Rounds(id) == IF id \in DOMAIN book THEN book[id].history ELSE <<>>

Recorded(t) ==
    \E id \in DOMAIN book : \E n \in DOMAIN book[id].history : book[id].history[n] = t

BookInit == book = <<>> /\ today = 0

Record(t) ==
    /\ ~Recorded(t)
    /\ \E id \in DOMAIN book \cup {t} :
          book' = [x \in DOMAIN book \cup {id} |->
                     IF x = id
                     THEN [history |-> Latest(Append(Rounds(id), t)), active |-> today]
                     ELSE book[x]]
    /\ UNCHANGED today

Forget ==
    /\ book' = [id \in {x \in DOMAIN book : today - book[x].active <= MaxAge} |-> book[id]]
    /\ UNCHANGED today

Dawn == today' = today + 1 /\ UNCHANGED book

BookNext == Forget \/ Dawn \/ \E t \in Task : Record(t)

BookSpec == BookInit /\ [][BookNext]_<<book, today>>
==============================================================================
