-------------------------------- MODULE Topics --------------------------------
(***************************************************************************)
(* The topics of the deep tasks (bridge/topic_state.py, and _deep_push of  *)
(* xiaogpt-bridge.py): a JSON file of conversations, which every deep task *)
(* cleans up once a day, searches for the topic its question belongs to,   *)
(* and extends when it is done.  topics_lock is held from each load to its *)
(* save, a request to the model included; the choice is made in between,   *)
(* on a list loaded earlier.                                               *)
(***************************************************************************)
EXTENDS Integers, Sequences, FiniteSets

CONSTANTS Task,        \* deep tasks; a task also stands for its round
          Nobody,      \* topics_lock is free; no topic, no day
          MaxRounds,   \* rounds a topic keeps: 12 in the code
          MaxAge,      \* TOPIC_MAX_AGE_DAYS
          MaxDay,      \* bound: days that pass
          MaxRestart   \* bound: restarts of the bridge

ASSUME TopicAssumption ==
    /\ Nobody \notin Task /\ Nobody \notin Nat
    /\ MaxRounds \in Nat \ {0} /\ MaxAge \in Nat
    /\ MaxDay \in Nat /\ MaxRestart \in Nat

(* A topic is named by the task that opened it.                            *)
Topic == [id : Task, history : Seq(Task), active : Nat]

VARIABLES archive,    \* the file: topics, the last one active first
          holder,     \* topics_lock
          task,       \* the deep tasks
          day,        \* today
          cleanedOn,  \* _last_cleanup_day
          restarts

tvars == <<archive, holder, task, day, cleanedOn, restarts>>

Unborn == [pc |-> "new", list |-> <<>>, chosen |-> Nobody]

TInit ==
    /\ archive = <<>> /\ holder = Nobody
    /\ task = [t \in Task |-> Unborn]
    /\ day = 0 /\ cleanedOn = Nobody /\ restarts = 0

TAt(t, pc) == task[t].pc = pc
TGoto(t, pc) == task' = [task EXCEPT ![t].pc = pc]
TEnds(t) == task' = [task EXCEPT ![t].pc = "over", ![t].list = <<>>]

(* The places in J, in their order, and the elements of a list at them: a  *)
(* list comprehension with a condition.                                    *)
Places(J) ==
    CHOOSE f \in [1..Cardinality(J) -> J] :
        /\ \A i, j \in DOMAIN f : i < j => f[i] < f[j]
        /\ J = {f[i] : i \in DOMAIN f}
Select(list, J) ==
    LET f == Places(J) IN [n \in 1..Cardinality(J) |-> list[f[n]]]

Ids(topics) == {topics[i].id : i \in DOMAIN topics}
Find(topics, id) == CHOOSE i \in DOMAIN topics : topics[i].id = id
(* Faulty variant: a topic is forgotten a day too early. *)
FreshLess(topic) == day - topic.active < MaxAge

Fresh(topic) == day - topic.active <= MaxAge
FreshIn(topics) == {i \in DOMAIN topics : Fresh(topics[i])}
OthersIn(topics, id) == {i \in DOMAIN topics : topics[i].id # id}

(* load_topics, after `with topics_lock`.                                  *)
LocksAndLoads(t, pc) ==
    /\ holder = Nobody /\ holder' = t
    /\ task' = [task EXCEPT ![t].pc = pc, ![t].list = archive]

-----------------------------------------------------------------------------
(* daily_cleanup.  A save that fails is passed over.                       *)

CleanedAlready(t) ==
    /\ TAt(t, "new") /\ holder = Nobody /\ cleanedOn = day
    /\ TGoto(t, "choose")
    /\ UNCHANGED <<archive, holder, day, cleanedOn, restarts>>

CleanupBegins(t) ==
    /\ TAt(t, "new") /\ cleanedOn # day
    /\ LocksAndLoads(t, "cleanup")
    /\ cleanedOn' = day
    /\ UNCHANGED <<archive, day, restarts>>

CleanupSaves(t) ==
    /\ TAt(t, "cleanup")
    /\ archive' \in {archive, Select(task[t].list, FreshIn(task[t].list))}
    /\ holder' = Nobody
    /\ task' = [task EXCEPT ![t].pc = "choose", ![t].list = <<>>]
    /\ UNCHANGED <<day, cleanedOn, restarts>>

-----------------------------------------------------------------------------
(* topic_choose: the model is shown the list as it is now; it is asked     *)
(* without the lock, and answers with a number, which becomes an id.       *)
Looks(t) ==
    /\ TAt(t, "choose") /\ holder = Nobody
    /\ task' = [task EXCEPT ![t].pc = "asked", ![t].list = archive]
    /\ UNCHANGED <<archive, holder, day, cleanedOn, restarts>>

Chooses(t) ==
    /\ TAt(t, "asked")
    /\ \E id \in Ids(task[t].list) \cup {Nobody} :
          task' = [task EXCEPT ![t].pc = "run", ![t].chosen = id]
    /\ UNCHANGED <<archive, holder, day, cleanedOn, restarts>>

(* The deep channel fails, or the turn has passed: no topic is touched.    *)
EndsWithout(t) ==
    /\ TAt(t, "run")
    /\ TEnds(t)
    /\ UNCHANGED <<archive, holder, day, cleanedOn, restarts>>

(* history[-12:]: the last MaxRounds rounds, or all of them.               *)
LastRounds(rounds) ==
    SubSeq(rounds, IF Len(rounds) > MaxRounds THEN Len(rounds) - MaxRounds + 1 ELSE 1,
           Len(rounds))

(* Faulty variant: the list the choice was made on is extended. *)
UpdateLoadsNothing(t) ==
    /\ TAt(t, "run")
    /\ holder = Nobody /\ holder' = t
    /\ TGoto(t, "update")
    /\ UNCHANGED <<archive, day, cleanedOn, restarts>>

UpdateLoads(t) ==
    /\ TAt(t, "run")
    /\ LocksAndLoads(t, "update")
    /\ UNCHANGED <<archive, day, cleanedOn, restarts>>

(* Faulty variant: a topic that has gone is taken for the latest one. *)
UpdatedLatest(topics, id, t) ==
    IF topics # <<>> /\ id # Nobody
    THEN LET place == IF id \in Ids(topics) THEN Find(topics, id) ELSE 1
             old == topics[place]
         IN <<[old EXCEPT !.history = LastRounds(Append(@, t)), !.active = day]>>
            \o Select(topics, OthersIn(topics, old.id))
    ELSE <<[id |-> t, history |-> <<t>>, active |-> day]>> \o topics

(* Faulty variant: the list is not sorted after an extension. *)
UpdatedInPlace(topics, id, t) ==
    IF id \in Ids(topics)
    THEN [topics EXCEPT ![Find(topics, id)].history = LastRounds(Append(@, t)),
                        ![Find(topics, id)].active = day]
    ELSE <<[id |-> t, history |-> <<t>>, active |-> day]>> \o topics

(* update_topic: the round goes to the topic chosen; to one of its own if  *)
(* none was, or if that has gone.  Sorting brings it to the front.         *)
Updated(topics, id, t) ==
    IF id \in Ids(topics)
    THEN LET old == topics[Find(topics, id)]
         IN <<[old EXCEPT !.history = LastRounds(Append(@, t)), !.active = day]>>
            \o Select(topics, OthersIn(topics, id))
    ELSE <<[id |-> t, history |-> <<t>>, active |-> day]>> \o topics

(* Faulty variant: a save that fails goes out without the lock's release. *)
UpdateSavesHolding(t) ==
    /\ TAt(t, "update")
    /\ \/ archive' = archive /\ UNCHANGED holder
       \/ archive' = Updated(task[t].list, task[t].chosen, t) /\ holder' = Nobody
    /\ TEnds(t)
    /\ UNCHANGED <<day, cleanedOn, restarts>>

(* The summary is made between the load and the save; a save that fails is *)
(* passed over.                                                            *)
UpdateSaves(t) ==
    /\ TAt(t, "update")
    /\ archive' \in {archive, Updated(task[t].list, task[t].chosen, t)}
    /\ holder' = Nobody
    /\ TEnds(t)
    /\ UNCHANGED <<day, cleanedOn, restarts>>

-----------------------------------------------------------------------------
NextDay ==
    /\ day < MaxDay
    /\ day' = day + 1
    /\ UNCHANGED <<archive, holder, task, cleanedOn, restarts>>

(* The bridge dies: the file is the one before or after the replacement.   *)
Restart ==
    /\ restarts < MaxRestart
    /\ restarts' = restarts + 1
    /\ holder' = Nobody /\ cleanedOn' = Nobody
    /\ task' = [t \in Task |-> IF TAt(t, "new") THEN task[t]
                               ELSE [task[t] EXCEPT !.pc = "over", !.list = <<>>]]
    /\ UNCHANGED <<archive, day>>

TBegins(t) == CleanedAlready(t) \/ CleanupBegins(t)
TSteps(t) ==
    \/ CleanupSaves(t) \/ Looks(t) \/ Chooses(t) \/ EndsWithout(t)
    \/ UpdateLoads(t) \/ UpdateSaves(t)

TNext == NextDay \/ Restart \/ \E t \in Task : TBegins(t) \/ TSteps(t)

TSpec == TInit /\ [][TNext]_tvars

(* Fairness: a task that runs goes on, and gets the lock if it keeps       *)
(* asking for it.                                                          *)
TFairSpec == TSpec /\ \A t \in Task : SF_tvars(TSteps(t))

-----------------------------------------------------------------------------
TTypeOK ==
    /\ \A i \in DOMAIN archive :
          /\ archive[i] \in [id : Task, history : Seq(Task), active : 0..MaxDay]
          /\ Len(archive[i].history) \in 1..MaxRounds
    /\ holder \in Task \cup {Nobody}
    /\ \A t \in Task : task[t].pc \in {"new", "cleanup", "choose", "asked", "run",
                                      "update", "over"}
    /\ day \in 0..MaxDay /\ cleanedOn \in 0..MaxDay \cup {Nobody}
    /\ restarts \in 0..MaxRestart

(* What a task has recorded stays recorded until it is too old or pushed   *)
(* out by later rounds of its topic, whichever tasks clean up and extend   *)
(* the archive meanwhile, and whenever the bridge restarts (2477, 2497).   *)
RoundsKept ==
    [][\A i \in DOMAIN archive : Fresh(archive[i]) =>
          \E j \in DOMAIN archive' :
             /\ archive'[j].id = archive[i].id
             /\ \/ archive'[j].history = archive[i].history
                \/ \E t \in Task :
                      archive'[j].history = LastRounds(Append(archive[i].history, t))
      ]_tvars

(* A round is in the topic its task chose, or in one of its own, however   *)
(* the list was reordered or cleaned up since the choice: 2202, 2478-2479, *)
(* and "不写错别的话题" (topic_state.py:196).                            *)
RoundWhereChosen ==
    \A i \in DOMAIN archive : \A n \in DOMAIN archive[i].history :
        LET t == archive[i].history[n]
        IN archive[i].id \in {t, task[t].chosen}

(* No two topics have one name, and the latest comes first: the model is   *)
(* shown the first five (2206).                                            *)
LatestFirst ==
    \A i, j \in DOMAIN archive : i < j =>
        archive[i].id # archive[j].id /\ archive[i].active >= archive[j].active

(* Every deep task whose daily cleanup is behind it gets the lock, for its *)
(* look and for its update, and gives it back (2477-2499).  The wait for   *)
(* the cleanup itself comes before (2454).                                 *)
EveryTaskEnds == \A t \in Task : (~TAt(t, "new")) ~> TAt(t, "over")

(* The archive implements TopicBook: whatever list a task chose on, and    *)
(* whoever has written the file since, its changes are those of a book     *)
(* that is changed by one task at a time, and a restart changes nothing    *)
(* (2477-2499, topic_state.py:145-203).                                    *)
Entry(id) ==
    LET topic == archive[Find(archive, id)]
    IN [history |-> topic.history, active |-> topic.active]
Book == INSTANCE TopicBook WITH
    book <- [id \in Ids(archive) |-> Entry(id)],
    today <- day
ArchiveIsBook == Book!BookSpec
=============================================================================
