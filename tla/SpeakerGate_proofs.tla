------------------------- MODULE SpeakerGate_proofs -------------------------
(***************************************************************************)
(* What the playback gate guarantees for every set of URLs and every       *)
(* number of tasks and epochs.  Each operator of SpeakerGate is a function *)
(* from gates to gates, so the inductive invariant is a predicate GateInv  *)
(* on gates and each lemma says that one operator preserves it; the        *)
(* lemmas therefore serve every module that composes these operators.      *)
(***************************************************************************)
EXTENDS SpeakerGate, SequenceTheorems, TLAPS

(* No task is ahead of its epoch: epochs are handed out by newDialog and   *)
(* playUrlNow and only grow.                                               *)
NotFuture(g, t) ==
    IF t.kind = "music" THEN t.epoch <= g.musicEpoch ELSE t.epoch <= g.dialogEpoch

(* AbandonedExpired is not inductive by itself: what a flush abandons has  *)
(* expired because nothing on the chain was ahead of its epoch before.     *)
GateInv(g) ==
    /\ g \in GateState
    /\ g.pendingAfterAnswer # <<>> => g.answerActive
    /\ \A i \in DOMAIN g.playChain : NotFuture(g, g.playChain[i])
    /\ \A i \in DOMAIN g.pendingAfterAnswer : NotFuture(g, g.pendingAfterAnswer[i])
    /\ \A c \in g.abandoned : \A i \in DOMAIN c : Past(g, c[i])

-----------------------------------------------------------------------------
(* Sequences of tasks.                                                     *)

LEMMA TailFact ==
    ASSUME NEW S, NEW s \in Seq(S), s # <<>>
    PROVE  /\ Tail(s) \in Seq(S)
           /\ \A i \in DOMAIN Tail(s) : i + 1 \in DOMAIN s /\ Tail(s)[i] = s[i + 1]
           /\ 1 \in DOMAIN s /\ Head(s) = s[1] /\ s[1] \in S
  OBVIOUS

LEMMA AppendFact ==
    ASSUME NEW S, NEW s \in Seq(S), NEW t \in S
    PROVE  /\ Append(s, t) \in Seq(S)
           /\ \A i \in DOMAIN Append(s, t) :
                 \/ i \in DOMAIN s /\ Append(s, t)[i] = s[i]
                 \/ Append(s, t)[i] = t
  OBVIOUS

LEMMA ConcatFact ==
    ASSUME NEW S, NEW s \in Seq(S), NEW t \in Seq(S)
    PROVE  /\ s \o t \in Seq(S)
           /\ \A i \in DOMAIN (s \o t) :
                 \/ i \in DOMAIN s /\ (s \o t)[i] = s[i]
                 \/ (i - Len(s)) \in DOMAIN t /\ (s \o t)[i] = t[i - Len(s)]
  OBVIOUS

LEMMA HeadFact ==
    ASSUME NEW S, NEW s \in Seq(S), s # <<>>, NEW t \in S
    PROVE  /\ [s EXCEPT ![1] = t] \in Seq(S)
           /\ DOMAIN [s EXCEPT ![1] = t] = DOMAIN s
           /\ [s EXCEPT ![1] = t][1] = t
           /\ \A i \in DOMAIN s : i # 1 => [s EXCEPT ![1] = t][i] = s[i]
  OBVIOUS

LEMMA PhaseFact ==
    ASSUME NEW t \in Task, NEW p \in Phase
    PROVE  LET u == [t EXCEPT !.phase = p] IN
           /\ u \in Task /\ u.phase = p
           /\ u.id = t.id /\ u.kind = t.kind /\ u.epoch = t.epoch
  BY Zenon DEF Task

-----------------------------------------------------------------------------
(* Changing the epochs and the flags only.                                 *)

LEMMA EpochsGrow ==
    ASSUME NEW g \in GateState, NEW k \in GateState,
           g.dialogEpoch <= k.dialogEpoch, g.musicEpoch <= k.musicEpoch,
           NEW t \in Task
    PROVE  /\ NotFuture(g, t) => NotFuture(k, t)
           /\ Past(g, t) => Past(k, t)
  BY DEF NotFuture, Past, GateState, Task

LEMMA TasksTyped ==
    ASSUME NEW g \in GateState
    PROVE  /\ \A i \in DOMAIN g.playChain : g.playChain[i] \in Task
           /\ \A i \in DOMAIN g.pendingAfterAnswer : g.pendingAfterAnswer[i] \in Task
           /\ \A c \in g.abandoned : c \in Seq(Task) /\ \A i \in DOMAIN c : c[i] \in Task
           /\ g.playChain \in Seq(Task) /\ g.pendingAfterAnswer \in Seq(Task)
  BY DEF GateState

LEMMA SameTasks ==
    ASSUME NEW g, GateInv(g), NEW k \in GateState,
           g.dialogEpoch <= k.dialogEpoch, g.musicEpoch <= k.musicEpoch,
           k.playChain = g.playChain, k.abandoned = g.abandoned,
           k.pendingAfterAnswer = g.pendingAfterAnswer,
           g.answerActive => k.answerActive
    PROVE  GateInv(k)
  <1>1. g \in GateState
    BY DEF GateInv
  <1> QED
    BY <1>1, EpochsGrow, TasksTyped DEF GateInv

LEMMA BeginAnswerInv ==
    ASSUME NEW g, GateInv(g)  PROVE GateInv(beginAnswer(g))
  <1>1. g \in GateState
    BY DEF GateInv
  <1>2. /\ beginAnswer(g) \in GateState
        /\ beginAnswer(g).dialogEpoch = g.dialogEpoch
        /\ beginAnswer(g).musicEpoch = g.musicEpoch
        /\ beginAnswer(g).playChain = g.playChain
        /\ beginAnswer(g).abandoned = g.abandoned
        /\ beginAnswer(g).pendingAfterAnswer = g.pendingAfterAnswer
        /\ beginAnswer(g).answerActive
    BY <1>1, Zenon DEF beginAnswer, GateState
  <1>3. g.dialogEpoch \in Nat /\ g.musicEpoch \in Nat
    BY <1>1 DEF GateState
  <1> QED
    BY <1>2, <1>3, SameTasks

LEMMA NewDialogInv ==
    ASSUME NEW g, GateInv(g)
    PROVE  GateInv(newDialog(g)) /\ newDialog(g).dialogEpoch = g.dialogEpoch + 1
  <1>1. g \in GateState
    BY DEF GateInv
  <1>2. g.dialogEpoch \in Nat /\ g.musicEpoch \in Nat /\ g.dialogEpoch + 1 \in Nat
    BY <1>1 DEF GateState
  <1>3. /\ newDialog(g) \in GateState
        /\ newDialog(g).dialogEpoch = g.dialogEpoch + 1
        /\ newDialog(g).musicEpoch = g.musicEpoch
        /\ newDialog(g).playChain = g.playChain
        /\ newDialog(g).abandoned = g.abandoned
        /\ newDialog(g).pendingAfterAnswer = g.pendingAfterAnswer
        /\ newDialog(g).answerActive = g.answerActive
    BY <1>1, <1>2, Zenon DEF newDialog, GateState
  <1> QED
    BY <1>2, <1>3, SameTasks

LEMMA StopMusicFields ==
    ASSUME NEW g \in GateState
    PROVE  /\ stopMusic(g) \in GateState
           /\ stopMusic(g).dialogEpoch = g.dialogEpoch
           /\ stopMusic(g).musicEpoch = g.musicEpoch + 1
           /\ stopMusic(g).playChain = g.playChain
           /\ stopMusic(g).abandoned = g.abandoned
           /\ stopMusic(g).pendingAfterAnswer = g.pendingAfterAnswer
           /\ stopMusic(g).answerActive = g.answerActive
  <1>1. g.musicEpoch + 1 \in Nat
    BY DEF GateState
  <1> QED
    BY <1>1, Zenon DEF stopMusic, GateState

LEMMA StopMusicInv ==
    ASSUME NEW g, GateInv(g)  PROVE GateInv(stopMusic(g))
  <1>1. g \in GateState
    BY DEF GateInv
  <1>2. g.dialogEpoch \in Nat /\ g.musicEpoch \in Nat
    BY <1>1 DEF GateState
  <1> QED
    BY <1>1, <1>2, StopMusicFields, SameTasks

LEMMA PauseMusicInv ==
    ASSUME NEW g, GateInv(g)  PROVE GateInv(pauseMusicForAnswer(g))
  <1>1. g \in GateState
    BY DEF GateInv
  <1>2. g.dialogEpoch \in Nat /\ g.musicEpoch \in Nat /\ g.musicEpoch + 1 \in Nat
    BY <1>1 DEF GateState
  <1>3. CASE g.musicActive
    <2> DEFINE k == [g EXCEPT !.musicEpoch = @ + 1, !.musicActive = FALSE]
    <2>1. /\ k \in GateState
          /\ k.dialogEpoch = g.dialogEpoch
          /\ k.musicEpoch = g.musicEpoch + 1
          /\ k.playChain = g.playChain
          /\ k.abandoned = g.abandoned
          /\ k.pendingAfterAnswer = g.pendingAfterAnswer
          /\ k.answerActive = g.answerActive
      BY <1>1, <1>2, Zenon DEF GateState
    <2>2. pauseMusicForAnswer(g) = k
      BY <1>3, Zenon DEF pauseMusicForAnswer
    <2> HIDE DEF k
    <2> QED
      BY <2>1, <2>2, <1>2, SameTasks
  <1>4. CASE ~g.musicActive
    BY <1>4, Zenon DEF pauseMusicForAnswer
  <1> QED
    BY <1>3, <1>4

LEMMA ProbeAnsweredInv ==
    ASSUME NEW g, GateInv(g), NEW found \in BOOLEAN
    PROVE  GateInv(ProbeAnswered(g, found))
  <1> DEFINE k == ProbeAnswered(g, found)
  <1>1. g \in GateState
    BY DEF GateInv
  <1>2. g.dialogEpoch <= g.dialogEpoch /\ g.musicEpoch <= g.musicEpoch
    BY <1>1 DEF GateState
  <1>3. (g.musicActive \/ found) \in BOOLEAN
    BY Zenon
  <1>4. /\ k \in GateState
        /\ k.dialogEpoch = g.dialogEpoch
        /\ k.musicEpoch = g.musicEpoch
        /\ k.playChain = g.playChain
        /\ k.abandoned = g.abandoned
        /\ k.pendingAfterAnswer = g.pendingAfterAnswer
        /\ k.answerActive = g.answerActive
    BY <1>1, <1>3, Zenon DEF ProbeAnswered, GateState
  <1> HIDE DEF k
  <1>5. GateInv(k)
    BY <1>2, <1>4, Zenon, SameTasks
  <1> QED
    BY <1>5, Zenon DEF k

-----------------------------------------------------------------------------
(* Creating tasks.                                                         *)

LEMMA EnqueueTaskInv ==
    ASSUME NEW g, GateInv(g), NEW t \in Task, NotFuture(g, t)
    PROVE  GateInv(enqueueTask(g, t))
  <1> DEFINE k == enqueueTask(g, t)
  <1>1. g \in GateState
    BY DEF GateInv
  <1>2. g.nextTask + 1 \in Nat \ {0} /\ g.playChain \in Seq(Task)
    BY <1>1 DEF GateState
  <1>3. Append(g.playChain, t) \in Seq(Task)
    BY <1>2
  <1>4. /\ k \in GateState
        /\ k.dialogEpoch = g.dialogEpoch
        /\ k.musicEpoch = g.musicEpoch
        /\ k.playChain = Append(g.playChain, t)
        /\ k.abandoned = g.abandoned
        /\ k.pendingAfterAnswer = g.pendingAfterAnswer
        /\ k.answerActive = g.answerActive
    BY <1>1, <1>2, <1>3, Zenon DEF enqueueTask, GateState
  <1> HIDE DEF k
  <1>5. \A i \in DOMAIN k.playChain : NotFuture(k, k.playChain[i])
    BY <1>2, <1>4, AppendFact DEF GateInv, NotFuture
  <1>6. \A i \in DOMAIN k.pendingAfterAnswer : NotFuture(k, k.pendingAfterAnswer[i])
    BY <1>4 DEF GateInv, NotFuture
  <1>7. \A c \in k.abandoned : \A i \in DOMAIN c : Past(k, c[i])
    BY <1>4 DEF GateInv, Past
  <1>8. GateInv(k)
    BY <1>4, <1>5, <1>6, <1>7, Zenon DEF GateInv
  <1> QED
    BY <1>8 DEF k

LEMMA ChainOrDelayInv ==
    ASSUME NEW g, GateInv(g), NEW t \in Task, NotFuture(g, t)
    PROVE  GateInv(chainOrDelay(g, t))
  <1>1. CASE ~g.answerActive
    BY <1>1, EnqueueTaskInv, Zenon DEF chainOrDelay
  <1>2. CASE g.answerActive
    <2> DEFINE k == [g EXCEPT !.pendingAfterAnswer = Append(@, t), !.nextTask = @ + 1]
    <2>1. g \in GateState
      BY DEF GateInv
    <2>2. g.nextTask + 1 \in Nat \ {0} /\ g.pendingAfterAnswer \in Seq(Task)
      BY <2>1 DEF GateState
    <2>3. Append(g.pendingAfterAnswer, t) \in Seq(Task)
      BY <2>2
    <2>4. /\ k \in GateState
          /\ k.dialogEpoch = g.dialogEpoch
          /\ k.musicEpoch = g.musicEpoch
          /\ k.playChain = g.playChain
          /\ k.abandoned = g.abandoned
          /\ k.pendingAfterAnswer = Append(g.pendingAfterAnswer, t)
          /\ k.answerActive
      BY <1>2, <2>1, <2>2, <2>3, Zenon DEF GateState
    <2>5. chainOrDelay(g, t) = k
      BY <1>2, Zenon DEF chainOrDelay
    <2> HIDE DEF k
    <2>6. \A i \in DOMAIN k.playChain : NotFuture(k, k.playChain[i])
      BY <2>4 DEF GateInv, NotFuture
    <2>7. \A i \in DOMAIN k.pendingAfterAnswer : NotFuture(k, k.pendingAfterAnswer[i])
      BY <2>2, <2>4, AppendFact DEF GateInv, NotFuture
    <2>8. \A c \in k.abandoned : \A i \in DOMAIN c : Past(k, c[i])
      BY <2>4 DEF GateInv, Past
    <2> QED
      BY <2>4, <2>5, <2>6, <2>7, <2>8, Zenon DEF GateInv
  <1> QED
    BY <1>1, <1>2

LEMMA NewTaskFact ==
    ASSUME NEW g \in GateState, NEW kind \in Kind, NEW e \in Nat,
           NEW u \in Url \cup {NoUrl}
    PROVE  LET t == NewTask(g, kind, e, u) IN
           t \in Task /\ t.kind = kind /\ t.epoch = e /\ t.id = g.nextTask
  BY DEF NewTask, Task, GateState, Phase

LEMMA EnqueueTextInv ==
    ASSUME NEW g, GateInv(g), NEW e \in 0..g.dialogEpoch
    PROVE  /\ GateInv(enqueueChunk(g, e))
           /\ GateInv(enqueuePlay(g, e))
           /\ GateInv(enqueueWakeUp(g, e))
  <1>1. g \in GateState /\ g.dialogEpoch \in Nat
    BY DEF GateInv, GateState
  <1>2. e \in Nat /\ e <= g.dialogEpoch
    BY <1>1
  <1>3. ASSUME NEW kind \in TextKind
        PROVE  /\ NewTask(g, kind, e, NoUrl) \in Task
               /\ NotFuture(g, NewTask(g, kind, e, NoUrl))
    <2>1. kind \in Kind /\ kind # "music"
      BY <1>3 DEF Kind, TextKind
    <2> QED
      BY <1>1, <1>2, <2>1, NewTaskFact DEF NotFuture
  <1>4. "chunk" \in TextKind /\ "play" \in TextKind /\ "wake" \in TextKind
    BY DEF TextKind
  <1> QED
    BY <1>3, <1>4, EnqueueTaskInv, ChainOrDelayInv, Zenon
       DEF enqueueChunk, enqueuePlay, enqueueWakeUp

LEMMA PlayUrlNowInv ==
    ASSUME NEW g, GateInv(g), NEW u \in Url
    PROVE  GateInv(playUrlNow(g, u))
  <1> DEFINE k == [g EXCEPT !.musicEpoch = @ + 1]
             t == NewTask(g, "music", g.musicEpoch + 1, u)
  <1>1. g \in GateState
    BY DEF GateInv
  <1>2. g.dialogEpoch \in Nat /\ g.musicEpoch \in Nat /\ g.musicEpoch + 1 \in Nat
    BY <1>1 DEF GateState
  <1>3. /\ k \in GateState
        /\ k.dialogEpoch = g.dialogEpoch
        /\ k.musicEpoch = g.musicEpoch + 1
        /\ k.playChain = g.playChain
        /\ k.abandoned = g.abandoned
        /\ k.pendingAfterAnswer = g.pendingAfterAnswer
        /\ k.answerActive = g.answerActive
    BY <1>1, <1>2, Zenon DEF GateState
  <1>4. t \in Task /\ t.kind = "music" /\ t.epoch = g.musicEpoch + 1
    <2>1. "music" \in Kind /\ u \in Url \cup {NoUrl}
      BY DEF Kind
    <2> QED
      BY <1>1, <1>2, <2>1, NewTaskFact
  <1>5. playUrlNow(g, u) = enqueueTask(k, t)
    BY Zenon DEF playUrlNow
  <1> HIDE DEF k, t
  <1>6. GateInv(k)
    BY <1>2, <1>3, SameTasks
  <1>7. NotFuture(k, t)
    BY <1>2, <1>3, <1>4 DEF NotFuture
  <1> QED
    BY <1>4, <1>5, <1>6, <1>7, EnqueueTaskInv

-----------------------------------------------------------------------------
(* Ending an answer and flushing.                                          *)

LEMMA EndAnswerInv ==
    ASSUME NEW g, GateInv(g)  PROVE GateInv(endAnswer(g))
  <1> DEFINE k == endAnswer(g)
  <1>1. g \in GateState
    BY DEF GateInv
  <1>2. g.playChain \in Seq(Task) /\ g.pendingAfterAnswer \in Seq(Task)
    BY <1>1 DEF GateState
  <1>3. g.playChain \o g.pendingAfterAnswer \in Seq(Task) /\ <<>> \in Seq(Task)
    BY <1>2
  <1>4. /\ k \in GateState
        /\ k.dialogEpoch = g.dialogEpoch
        /\ k.musicEpoch = g.musicEpoch
        /\ k.playChain = g.playChain \o g.pendingAfterAnswer
        /\ k.abandoned = g.abandoned
        /\ k.pendingAfterAnswer = <<>>
    BY <1>1, <1>3, Zenon DEF endAnswer, GateState
  <1> HIDE DEF k
  <1>5. ASSUME NEW i \in DOMAIN k.playChain
        PROVE  NotFuture(k, k.playChain[i])
    <2>1. \A j \in DOMAIN (g.playChain \o g.pendingAfterAnswer) :
              \/ /\ j \in DOMAIN g.playChain
                 /\ (g.playChain \o g.pendingAfterAnswer)[j] = g.playChain[j]
              \/ /\ (j - Len(g.playChain)) \in DOMAIN g.pendingAfterAnswer
                 /\ (g.playChain \o g.pendingAfterAnswer)[j]
                       = g.pendingAfterAnswer[j - Len(g.playChain)]
      BY <1>2, ConcatFact, Zenon
    <2>2. NotFuture(g, k.playChain[i])
      BY <1>4, <1>5, <2>1, Zenon DEF GateInv
    <2> QED
      BY <1>4, <2>2 DEF NotFuture
  <1>6. \A i \in DOMAIN k.pendingAfterAnswer : NotFuture(k, k.pendingAfterAnswer[i])
    BY <1>4
  <1>7. \A c \in k.abandoned : \A i \in DOMAIN c : Past(k, c[i])
    BY <1>4 DEF GateInv, Past
  <1>8. GateInv(k)
    BY <1>4, <1>5, <1>6, <1>7, Zenon DEF GateInv
  <1> QED
    BY <1>8 DEF k

(* The new epochs leave behind everything that was not ahead of the old    *)
(* ones: this is why both epochs must move.                                *)
LEMMA NotFutureThenPast ==
    ASSUME NEW g \in GateState, NEW k \in GateState, NEW t \in Task,
           k.dialogEpoch = g.dialogEpoch + 1, k.musicEpoch = g.musicEpoch + 1
    PROVE  NotFuture(g, t) \/ Past(g, t) => Past(k, t)
  BY DEF NotFuture, Past, GateState, Task

LEMMA FlushFields ==
    ASSUME NEW g \in GateState
    PROVE  /\ flushPlayQueue(g) \in GateState
           /\ flushPlayQueue(g).dialogEpoch = g.dialogEpoch + 1
           /\ flushPlayQueue(g).musicEpoch = g.musicEpoch + 1
           /\ flushPlayQueue(g).playChain = <<>>
           /\ flushPlayQueue(g).abandoned = (g.abandoned \cup {g.playChain}) \ {<<>>}
           /\ flushPlayQueue(g).pendingAfterAnswer = <<>>
           /\ flushPlayQueue(g).settled = g.settled \cup Ids(g.pendingAfterAnswer)
           /\ flushPlayQueue(g).nextTask = g.nextTask
  <1> DEFINE k == [g EXCEPT !.dialogEpoch = @ + 1,
                            !.abandoned = (@ \cup {g.playChain}) \ {<<>>},
                            !.playChain = <<>>,
                            !.answerActive = FALSE,
                            !.settled = @ \cup Ids(g.pendingAfterAnswer),
                            !.pendingAfterAnswer = <<>>]
  <1>1. g.dialogEpoch + 1 \in Nat /\ <<>> \in Seq(Task)
    BY DEF GateState
  <1>2. (g.abandoned \cup {g.playChain}) \ {<<>>} \in SUBSET Seq(Task)
    BY DEF GateState
  <1>3. Ids(g.pendingAfterAnswer) \subseteq Nat
    <2>1. \A i \in DOMAIN g.pendingAfterAnswer : g.pendingAfterAnswer[i].id \in Nat
      BY TasksTyped DEF Task
    <2> QED
      BY <2>1 DEF Ids
  <1>4. g.settled \cup Ids(g.pendingAfterAnswer) \in SUBSET Nat
    BY <1>3 DEF GateState
  <1>5. /\ k \in GateState
        /\ k.dialogEpoch = g.dialogEpoch + 1
        /\ k.musicEpoch = g.musicEpoch
        /\ k.playChain = <<>>
        /\ k.abandoned = (g.abandoned \cup {g.playChain}) \ {<<>>}
        /\ k.pendingAfterAnswer = <<>>
        /\ k.settled = g.settled \cup Ids(g.pendingAfterAnswer)
        /\ k.nextTask = g.nextTask
    BY <1>1, <1>2, <1>4, Zenon DEF GateState
  <1>6. flushPlayQueue(g) = stopMusic(k)
    BY Zenon DEF flushPlayQueue
  <1> HIDE DEF k
  <1>7. stopMusic(k).settled = k.settled /\ stopMusic(k).nextTask = k.nextTask
    BY <1>5, Zenon DEF stopMusic, GateState
  <1> QED
    BY <1>5, <1>6, <1>7, StopMusicFields

LEMMA FlushInv ==
    ASSUME NEW g, GateInv(g)  PROVE GateInv(flushPlayQueue(g))
  <1> DEFINE k == flushPlayQueue(g)
  <1>1. g \in GateState
    BY DEF GateInv
  <1>2. /\ k \in GateState
        /\ k.dialogEpoch = g.dialogEpoch + 1
        /\ k.musicEpoch = g.musicEpoch + 1
        /\ k.playChain = <<>>
        /\ k.abandoned = (g.abandoned \cup {g.playChain}) \ {<<>>}
        /\ k.pendingAfterAnswer = <<>>
    BY <1>1, FlushFields
  <1> HIDE DEF k
  <1>3. ASSUME NEW c \in k.abandoned, NEW i \in DOMAIN c
        PROVE  Past(k, c[i])
    <2>1. c[i] \in Task /\ (NotFuture(g, c[i]) \/ Past(g, c[i]))
      BY <1>1, <1>2, <1>3, TasksTyped DEF GateInv
    <2> QED
      BY <1>1, <1>2, <2>1, NotFutureThenPast
  <1>4. GateInv(k)
    BY <1>2, <1>3 DEF GateInv
  <1> QED
    BY <1>4 DEF k

-----------------------------------------------------------------------------
(* Steps of a chain.                                                       *)

(* The tasks of d are tasks of c, but for ids, URLs and phases.            *)
Within(d, c) ==
    \A j \in DOMAIN d : \E i \in DOMAIN c : /\ d[j].kind = c[i].kind
                                           /\ d[j].epoch = c[i].epoch

LEMMA ReplaceChainInv ==
    ASSUME NEW g, GateInv(g), NEW c \in Chains(g),
           NEW d \in Seq(Task), Within(d, c)
    PROVE  GateInv(ReplaceChain(g, c, d))
  <1>1. g \in GateState
    BY DEF GateInv
  <1>2. CASE c = g.playChain
    <2> DEFINE k == [g EXCEPT !.playChain = d]
    <2>1. /\ k \in GateState
          /\ k.dialogEpoch = g.dialogEpoch
          /\ k.musicEpoch = g.musicEpoch
          /\ k.playChain = d
          /\ k.abandoned = g.abandoned
          /\ k.pendingAfterAnswer = g.pendingAfterAnswer
          /\ k.answerActive = g.answerActive
      BY <1>1, Zenon DEF GateState
    <2>2. ReplaceChain(g, c, d) = k
      BY <1>2, Zenon DEF ReplaceChain
    <2> HIDE DEF k
    <2>3. \A i \in DOMAIN k.playChain : NotFuture(k, k.playChain[i])
      BY <1>2, <2>1 DEF GateInv, NotFuture, Within
    <2>4. \A i \in DOMAIN k.pendingAfterAnswer : NotFuture(k, k.pendingAfterAnswer[i])
      BY <2>1 DEF GateInv, NotFuture
    <2>5. \A e \in k.abandoned : \A i \in DOMAIN e : Past(k, e[i])
      BY <2>1 DEF GateInv, Past
    <2> QED
      BY <2>1, <2>2, <2>3, <2>4, <2>5, Zenon DEF GateInv
  <1>3. CASE c # g.playChain
    <2> DEFINE k == [g EXCEPT !.abandoned = (@ \ {c}) \cup ({d} \ {<<>>})]
    <2>1. (g.abandoned \ {c}) \cup ({d} \ {<<>>}) \in SUBSET Seq(Task)
      BY <1>1 DEF GateState
    <2>2. /\ k \in GateState
          /\ k.dialogEpoch = g.dialogEpoch
          /\ k.musicEpoch = g.musicEpoch
          /\ k.playChain = g.playChain
          /\ k.abandoned = (g.abandoned \ {c}) \cup ({d} \ {<<>>})
          /\ k.pendingAfterAnswer = g.pendingAfterAnswer
          /\ k.answerActive = g.answerActive
      BY <1>1, <2>1, Zenon DEF GateState
    <2>3. ReplaceChain(g, c, d) = k
      BY <1>3, Zenon DEF ReplaceChain
    <2> HIDE DEF k
    <2>4. \A i \in DOMAIN k.playChain : NotFuture(k, k.playChain[i])
      BY <2>2 DEF GateInv, NotFuture
    <2>5. \A i \in DOMAIN k.pendingAfterAnswer : NotFuture(k, k.pendingAfterAnswer[i])
      BY <2>2 DEF GateInv, NotFuture
    <2>6. ASSUME NEW e \in k.abandoned, NEW i \in DOMAIN e
          PROVE  Past(k, e[i])
      <3>1. CASE e \in g.abandoned
        BY <2>2, <2>6, <3>1 DEF GateInv, Past
      <3>2. CASE e = d
        <4>1. c \in g.abandoned
          BY <1>3 DEF Chains
        <4> QED
          BY <2>2, <2>6, <3>2, <4>1 DEF GateInv, Past, Within
      <3> QED
        BY <2>2, <2>6, <3>1, <3>2
    <2> QED
      BY <2>2, <2>3, <2>4, <2>5, <2>6, Zenon DEF GateInv
  <1> QED
    BY <1>2, <1>3

LEMMA SettleInv ==
    ASSUME NEW g, GateInv(g), NEW c \in Chains(g), c # <<>>
    PROVE  GateInv(Settle(g, c))
  <1> DEFINE r == ReplaceChain(g, c, Tail(c))
             k == Settle(g, c)
  <1>1. g \in GateState
    BY DEF GateInv
  <1>2. c \in Seq(Task)
    BY <1>1, TasksTyped DEF Chains
  <1>3. /\ Tail(c) \in Seq(Task)
        /\ \A i \in DOMAIN Tail(c) : i + 1 \in DOMAIN c /\ Tail(c)[i] = c[i + 1]
        /\ Head(c) = c[1] /\ c[1] \in Task
    BY <1>2, TailFact
  <1>4. Within(Tail(c), c)
    BY <1>3 DEF Within
  <1>5. GateInv(r)
    BY <1>3, <1>4, ReplaceChainInv
  <1> HIDE DEF r
  <1>6. r \in GateState
    BY <1>5 DEF GateInv
  <1>7. Head(c).id \in Nat
    BY <1>3 DEF Task
  <1>8. r.settled \cup {Head(c).id} \in SUBSET Nat
    BY <1>6, <1>7 DEF GateState
  <1>9. /\ k \in GateState
        /\ k.dialogEpoch = r.dialogEpoch
        /\ k.musicEpoch = r.musicEpoch
        /\ k.playChain = r.playChain
        /\ k.abandoned = r.abandoned
        /\ k.pendingAfterAnswer = r.pendingAfterAnswer
        /\ k.answerActive = r.answerActive
    BY <1>6, <1>8, Zenon DEF Settle, GateState, r
  <1>10. r.dialogEpoch \in Nat /\ r.musicEpoch \in Nat
    BY <1>6 DEF GateState
  <1> HIDE DEF k
  <1>11. GateInv(k)
    BY <1>5, <1>9, <1>10, SameTasks
  <1> QED
    BY <1>11 DEF k

LEMMA SetPhaseInv ==
    ASSUME NEW g, GateInv(g), NEW c \in Chains(g), c # <<>>, NEW p \in Phase
    PROVE  GateInv(SetPhase(g, c, p))
  <1> DEFINE u == [Head(c) EXCEPT !.phase = p]
             d == [c EXCEPT ![1] = u]
  <1>1. g \in GateState
    BY DEF GateInv
  <1>2. c \in Seq(Task)
    BY <1>1, TasksTyped DEF Chains
  <1>3. 1 \in DOMAIN c /\ Head(c) = c[1] /\ c[1] \in Task
    BY <1>2, TailFact
  <1>4. u \in Task /\ u.kind = c[1].kind /\ u.epoch = c[1].epoch
    BY <1>3, PhaseFact
  <1>5. SetPhase(g, c, p) = ReplaceChain(g, c, d)
    BY Zenon DEF SetPhase
  <1> HIDE DEF u
  <1>6. /\ d \in Seq(Task)
        /\ DOMAIN d = DOMAIN c
        /\ d[1] = u
        /\ \A i \in DOMAIN c : i # 1 => d[i] = c[i]
    BY <1>2, <1>4, HeadFact
  <1> HIDE DEF d
  <1>7. Within(d, c)
    BY <1>3, <1>4, <1>6 DEF Within
  <1> QED
    BY <1>5, <1>6, <1>7, ReplaceChainInv

LEMMA StartTaskInv ==
    ASSUME NEW g, GateInv(g), NEW c \in Chains(g), c # <<>>
    PROVE  GateInv(StartTask(g, c))
  <1>1. FirstPhase(Head(c).kind) \in Phase
    BY DEF FirstPhase, Phase
  <1> QED
    BY <1>1, SettleInv, SetPhaseInv, Zenon DEF StartTask

(* The end of a launch also writes the two music fields.                   *)
LEMMA LaunchedInv ==
    ASSUME NEW g, GateInv(g), NEW u \in Url \cup {NoUrl}
    PROVE  GateInv([g EXCEPT !.lastMusicUrl = u, !.musicActive = TRUE])
  <1> DEFINE k == [g EXCEPT !.lastMusicUrl = u, !.musicActive = TRUE]
  <1>1. g \in GateState
    BY DEF GateInv
  <1>2. /\ k \in GateState
        /\ k.dialogEpoch = g.dialogEpoch
        /\ k.musicEpoch = g.musicEpoch
        /\ k.playChain = g.playChain
        /\ k.abandoned = g.abandoned
        /\ k.pendingAfterAnswer = g.pendingAfterAnswer
        /\ k.answerActive = g.answerActive
    BY <1>1, Zenon DEF GateState
  <1>3. g.dialogEpoch \in Nat /\ g.musicEpoch \in Nat
    BY <1>1 DEF GateState
  <1> HIDE DEF k
  <1>4. GateInv(k)
    BY <1>2, <1>3, SameTasks
  <1> QED
    BY <1>4 DEF k

LEMMA CallReturnedInv ==
    ASSUME NEW g, GateInv(g), NEW c \in Chains(g), c # <<>>
    PROVE  GateInv(CallReturned(g, c))
  <1>1. g \in GateState
    BY DEF GateInv
  <1>2. c \in Seq(Task)
    BY <1>1, TasksTyped DEF Chains
  <1>3. Head(c) \in Task
    BY <1>2, TailFact
  <1>4. Head(c).url \in Url \cup {NoUrl}
    BY <1>3 DEF Task
  <1>5. "killing" \in Phase /\ "launching" \in Phase
    BY DEF Phase
  <1>6. CASE Head(c).phase = "stopping"
    <2>1. CallReturned(g, c) = SetPhase(g, c, "killing")
      BY <1>6 DEF CallReturned
    <2> QED
      BY <1>5, <2>1, SetPhaseInv
  <1>7. CASE Head(c).phase = "killing" /\ ~Expired(g, Head(c))
    <2>1. CallReturned(g, c) = SetPhase(g, c, "launching")
      BY <1>7 DEF CallReturned
    <2> QED
      BY <1>5, <2>1, SetPhaseInv
  <1>8. CASE Head(c).phase = "launching"
    <2>1. CallReturned(g, c) =
            [Settle(g, c) EXCEPT !.lastMusicUrl = Head(c).url, !.musicActive = TRUE]
      BY <1>8 DEF CallReturned
    <2>2. GateInv(Settle(g, c))
      BY SettleInv
    <2> QED
      BY <1>4, <2>1, <2>2, LaunchedInv, Zenon
  <1>9. CASE /\ Head(c).phase # "stopping"
             /\ ~(Head(c).phase = "killing" /\ ~Expired(g, Head(c)))
             /\ Head(c).phase # "launching"
    <2>1. CallReturned(g, c) = Settle(g, c)
      BY <1>9 DEF CallReturned
    <2> QED
      BY <2>1, SettleInv
  <1> QED
    BY <1>6, <1>7, <1>8, <1>9

LEMMA CallFailedInv ==
    ASSUME NEW g, GateInv(g), NEW c \in Chains(g), c # <<>>
    PROVE  GateInv(CallFailed(g, c))
  BY SettleInv DEF CallFailed

-----------------------------------------------------------------------------
(* The specification.                                                      *)

LEMMA InitInv == Init => GateInv(gate)
  <1> SUFFICES ASSUME Init PROVE GateInv(gate)
    OBVIOUS
  <1>1. InitGate \in GateState
    BY DEF InitGate, GateState
  <1>2. /\ InitGate.playChain = <<>> /\ InitGate.pendingAfterAnswer = <<>>
        /\ InitGate.abandoned = {}
    BY DEF InitGate
  <1>3. gate = InitGate
    BY DEF Init
  <1> QED
    BY <1>1, <1>2, <1>3 DEF GateInv

LEMMA NextInv == GateInv(gate) /\ [Next]_vars => GateInv(gate)'
  <1> SUFFICES ASSUME GateInv(gate), [Next]_vars PROVE GateInv(gate')
    BY DEF GateInv, Past, NotFuture
  <1>1. CASE EnqueueChunk
    BY <1>1, EnqueueTextInv DEF EnqueueChunk
  <1>2. CASE EnqueuePlay
    BY <1>2, EnqueueTextInv DEF EnqueuePlay
  <1>3. CASE EnqueueWakeUp
    BY <1>3, EnqueueTextInv DEF EnqueueWakeUp
  <1>4. CASE PlayUrlNow
    BY <1>4, PlayUrlNowInv DEF PlayUrlNow
  <1>5. CASE BeginAnswer
    BY <1>5, BeginAnswerInv DEF BeginAnswer
  <1>6. CASE EndAnswer
    BY <1>6, EndAnswerInv DEF EndAnswer
  <1>7. CASE NewDialog
    BY <1>7, NewDialogInv DEF NewDialog
  <1>8. CASE StopMusic
    BY <1>8, StopMusicInv DEF StopMusic
  <1>9. CASE PauseMusicForAnswer
    BY <1>9, PauseMusicInv DEF PauseMusicForAnswer
  <1>10. CASE FlushPlayQueue
    BY <1>10, FlushInv DEF FlushPlayQueue
  <1>11. CASE Start
    BY <1>11, StartTaskInv DEF Start, Startable
  <1>12. CASE Return
    BY <1>12, CallReturnedInv DEF Return, Awaiting
  <1>13. CASE Fail
    BY <1>13, CallFailedInv DEF Fail, Awaiting
  <1>14. CASE Probe
    BY <1>14, ProbeAnsweredInv DEF Probe
  <1>15. CASE UNCHANGED vars
    BY <1>15 DEF vars
  <1> QED
    BY <1>1, <1>2, <1>3, <1>4, <1>5, <1>6, <1>7, <1>8, <1>9, <1>10,
       <1>11, <1>12, <1>13, <1>14, <1>15 DEF Next, Client

THEOREM Invariant == Spec => []GateInv(gate)
  BY InitInv, NextInv, PTL DEF Spec

(* The state keeps the shape the source declares, in every execution and   *)
(* for every instance.                                                     *)
THEOREM Typed == Spec => []TypeOK
  <1>1. GateInv(gate) => TypeOK
    BY DEF GateInv, TypeOK
  <1> QED
    BY <1>1, Invariant, PTL

(* No announcement is ever held back by a barrier that is already down     *)
(* (speaker-gate.ts:107-125, 279-288).                                     *)
THEOREM Unstranded == Spec => []NothingStranded
  <1>1. GateInv(gate) => NothingStranded
    BY DEF GateInv, NothingStranded
  <1> QED
    BY <1>1, Invariant, PTL

(* What a flush leaves behind has expired for good, songs included         *)
(* (speaker-gate.ts:274-288).                                              *)
THEOREM AbandonedForGood == Spec => []AbandonedExpired
  <1>1. GateInv(gate) => AbandonedExpired
    BY DEF GateInv, AbandonedExpired
  <1> QED
    BY <1>1, Invariant, PTL

-----------------------------------------------------------------------------
(* Every task in one place.  Uniqueness is said of each chain and of each  *)
(* pair of them, which the moves of tasks disturb one at a time.           *)

Inj(c) == \A i, j \in DOMAIN c : c[i].id = c[j].id => i = j

Apart(a, b) == a \cap b = {}

Once(g) ==
    /\ \A c \in Chains(g) : /\ Inj(c)
                            /\ Apart(Ids(c), Ids(g.pendingAfterAnswer))
                            /\ Apart(Ids(c), g.settled)
    /\ \A c, d \in Chains(g) : c # d => Apart(Ids(c), Ids(d))
    /\ Inj(g.pendingAfterAnswer) /\ Apart(Ids(g.pendingAfterAnswer), g.settled)
    /\ g.playChain \notin g.abandoned /\ <<>> \notin g.abandoned
    /\ 1..(g.nextTask - 1)
          = g.settled \cup IdsOf(Chains(g)) \cup Ids(g.pendingAfterAnswer)

LEMMA OnceFact ==
    ASSUME NEW g, Once(g)  PROVE TaskOnce(g)
  <1>1. \A c \in Chains(g) : Ids(c) \subseteq IdsOf(Chains(g))
    BY DEF IdsOf
  <1>2. \A x \in IdsOf(Chains(g)) : \E c \in Chains(g) : x \in Ids(c)
    BY DEF IdsOf
  <1>3. /\ g.settled \cap (IdsOf(Chains(g)) \cup Ids(g.pendingAfterAnswer)) = {}
        /\ IdsOf(Chains(g)) \cap Ids(g.pendingAfterAnswer) = {}
    BY <1>2 DEF Once, Apart
  <1>4. Distinct(Chains(g))
    <2> SUFFICES ASSUME NEW c \in Chains(g), NEW d \in Chains(g),
                        NEW i \in DOMAIN c, NEW j \in DOMAIN d, c[i].id = d[j].id
                 PROVE  c = d /\ i = j
      BY DEF Distinct
    <2>1. c[i].id \in Ids(c) /\ c[i].id \in Ids(d)
      BY DEF Ids
    <2>2. c = d
      BY <2>1 DEF Once, Apart
    <2> QED BY <2>2 DEF Once, Inj
  <1>5. Distinct({g.pendingAfterAnswer})
    BY DEF Distinct, Once, Inj
  <1> QED BY <1>3, <1>4, <1>5 DEF Once, TaskOnce

LEMMA IdsEmpty == Ids(<<>>) = {} /\ Inj(<<>>)
  BY DEF Ids, Inj

LEMMA IdsNonempty ==
    ASSUME NEW c \in Seq(Task), c # <<>>
    PROVE  c[1].id \in Ids(c) /\ 1 \in DOMAIN c
  <1>1. 1 \in DOMAIN c
    BY TailFact
  <1> QED BY <1>1 DEF Ids

LEMMA IdsAppend ==
    ASSUME NEW c \in Seq(Task), NEW t \in Task
    PROVE  /\ Ids(Append(c, t)) = Ids(c) \cup {t.id}
           /\ Inj(c) /\ t.id \notin Ids(c) => Inj(Append(c, t))
  <1> DEFINE a == Append(c, t)
  <1>1. /\ DOMAIN a = 1..(Len(c) + 1) /\ DOMAIN c = 1..Len(c) /\ Len(c) \in Nat
        /\ \A i \in DOMAIN c : a[i] = c[i]
        /\ a[Len(c) + 1] = t
    OBVIOUS
  <1> HIDE DEF a
  <1>2. \A i \in DOMAIN a : i \in DOMAIN c \/ i = Len(c) + 1
    BY <1>1
  <1>3. DOMAIN c \subseteq DOMAIN a /\ Len(c) + 1 \in DOMAIN a
    BY <1>1
  <1>4. Ids(a) = Ids(c) \cup {t.id}
    BY <1>1, <1>2, <1>3 DEF Ids
  <1>5. \A i \in DOMAIN c : c[i].id \in Ids(c)
    BY DEF Ids
  <1>6. Inj(c) /\ t.id \notin Ids(c) => Inj(a)
    BY <1>1, <1>2, <1>5 DEF Inj
  <1> QED BY <1>4, <1>6 DEF a

LEMMA IdsConcat ==
    ASSUME NEW c \in Seq(Task), NEW d \in Seq(Task)
    PROVE  /\ Ids(c \o d) = Ids(c) \cup Ids(d)
           /\ Inj(c) /\ Inj(d) /\ Apart(Ids(c), Ids(d)) => Inj(c \o d)
  <1> DEFINE a == c \o d
  <1>1. /\ DOMAIN a = 1..(Len(c) + Len(d)) /\ DOMAIN c = 1..Len(c) /\ Len(c) \in Nat
        /\ DOMAIN d = 1..Len(d) /\ Len(d) \in Nat
        /\ \A i \in DOMAIN c : a[i] = c[i]
        /\ \A i \in DOMAIN d : a[Len(c) + i] = d[i]
    OBVIOUS
  <1> HIDE DEF a
  <1>2. \A i \in DOMAIN a : i \in DOMAIN c \/ (i - Len(c) \in DOMAIN d
                                               /\ i = Len(c) + (i - Len(c)))
    BY <1>1
  <1>3. DOMAIN c \subseteq DOMAIN a /\ \A i \in DOMAIN d : Len(c) + i \in DOMAIN a
    BY <1>1
  <1>4. Ids(a) = Ids(c) \cup Ids(d)
    <2>1. Ids(a) \subseteq Ids(c) \cup Ids(d)
      BY <1>1, <1>2 DEF Ids
    <2>2. Ids(c) \subseteq Ids(a)
      BY <1>1, <1>3 DEF Ids
    <2>3. Ids(d) \subseteq Ids(a)
      BY <1>1, <1>3 DEF Ids
    <2> QED BY <2>1, <2>2, <2>3
  <1>5. ASSUME Inj(c), Inj(d), Apart(Ids(c), Ids(d)) PROVE Inj(a)
    <2> SUFFICES ASSUME NEW i \in DOMAIN a, NEW j \in DOMAIN a, a[i].id = a[j].id
                 PROVE  i = j
      BY DEF Inj
    <2>1. (\A k \in DOMAIN c : c[k].id \in Ids(c)) /\ (\A k \in DOMAIN d : d[k].id \in Ids(d))
      BY DEF Ids
    <2>2. CASE i \in DOMAIN c /\ j \in DOMAIN c
      BY <1>1, <1>5, <2>2 DEF Inj
    <2>3. CASE i \in DOMAIN c /\ j \notin DOMAIN c
      BY <1>1, <1>2, <1>5, <2>1, <2>3 DEF Apart
    <2>4. CASE i \notin DOMAIN c /\ j \in DOMAIN c
      BY <1>1, <1>2, <1>5, <2>1, <2>4 DEF Apart
    <2>5. CASE i \notin DOMAIN c /\ j \notin DOMAIN c
      <3>1. d[i - Len(c)] = a[i] /\ d[j - Len(c)] = a[j]
        BY <1>1, <1>2, <2>5
      <3>2. i - Len(c) = j - Len(c)
        BY <1>2, <1>5, <2>5, <3>1 DEF Inj
      <3> QED BY <1>1, <3>2
    <2> QED BY <2>2, <2>3, <2>4, <2>5
  <1> QED BY <1>4, <1>5 DEF a

LEMMA IdsTail ==
    ASSUME NEW c \in Seq(Task), c # <<>>, Inj(c)
    PROVE  Ids(Tail(c)) = Ids(c) \ {Head(c).id} /\ Inj(Tail(c))
  <1> DEFINE a == Tail(c)
  <1>1. /\ DOMAIN a = 1..(Len(c) - 1) /\ DOMAIN c = 1..Len(c) /\ Len(c) \in Nat \ {0}
        /\ \A i \in DOMAIN a : a[i] = c[i + 1]
        /\ Head(c) = c[1]
    OBVIOUS
  <1> HIDE DEF a
  <1>2. \A i \in DOMAIN a : i + 1 \in DOMAIN c /\ i + 1 # 1
    BY <1>1
  <1>3. \A i \in DOMAIN c : i # 1 => i - 1 \in DOMAIN a /\ c[i] = a[i - 1]
    BY <1>1
  <1>4. Ids(a) \subseteq Ids(c) \ {Head(c).id}
    BY <1>1, <1>2 DEF Ids, Inj
  <1>5. Ids(c) \ {Head(c).id} \subseteq Ids(a)
    BY <1>1, <1>3 DEF Ids
  <1>6. Inj(a)
    BY <1>1, <1>2 DEF Inj
  <1> QED BY <1>4, <1>5, <1>6 DEF a

LEMMA IdsPhase ==
    ASSUME NEW c \in Seq(Task), c # <<>>, NEW p
    PROVE  LET d == [c EXCEPT ![1] = [Head(c) EXCEPT !.phase = p]] IN
           Ids(d) = Ids(c) /\ (Inj(c) => Inj(d))
  <1> DEFINE u == [Head(c) EXCEPT !.phase = p]
             d == [c EXCEPT ![1] = u]
  <1>1. 1 \in DOMAIN c /\ Head(c) = c[1] /\ c[1] \in Task
    BY TailFact
  <1>2. u.id = c[1].id
    BY <1>1 DEF Task
  <1> HIDE DEF u
  <1>3. DOMAIN d = DOMAIN c /\ \A i \in DOMAIN c : d[i].id = c[i].id
    BY <1>1, <1>2
  <1> HIDE DEF d
  <1>4. Ids(d) = Ids(c) /\ (Inj(c) => Inj(d))
    BY <1>3 DEF Ids, Inj
  <1> QED BY <1>4 DEF d, u

-----------------------------------------------------------------------------
(* The moves of tasks that the operators are made of.                      *)

(* The parts of a gate that say where its tasks are. *)
SamePlaces(g, k) ==
    /\ k.playChain = g.playChain /\ k.abandoned = g.abandoned
    /\ k.pendingAfterAnswer = g.pendingAfterAnswer
    /\ k.settled = g.settled /\ k.nextTask = g.nextTask

LEMMA SamePlacesOnce ==
    ASSUME NEW g, NEW k, Once(g), SamePlaces(g, k)  PROVE Once(k)
  BY DEF Once, SamePlaces, Chains

(* A new task has a number that no other has. *)
LEMMA NewIdFact ==
    ASSUME NEW g \in GateState, Once(g)
    PROVE  /\ g.nextTask \notin Ids(g.pendingAfterAnswer) \cup g.settled
           /\ \A c \in Chains(g) : g.nextTask \notin Ids(c)
           /\ \A n : n = g.nextTask + 1 =>
                 1..(n - 1) = 1..(g.nextTask - 1) \cup {g.nextTask}
  <1>1. g.nextTask \in Nat \ {0}
    BY DEF GateState
  <1>2. g.nextTask \notin 1..(g.nextTask - 1)
    BY <1>1
  <1>3. \A c \in Chains(g) : Ids(c) \subseteq IdsOf(Chains(g))
    BY DEF IdsOf
  <1>4. \A n : n = g.nextTask + 1 =>
                 1..(n - 1) = 1..(g.nextTask - 1) \cup {g.nextTask}
    BY <1>1
  <1> QED BY <1>2, <1>3, <1>4 DEF Once

LEMMA AppendOnce ==
    ASSUME NEW g \in GateState, Once(g), NEW t \in Task, t.id = g.nextTask
    PROVE  Once(enqueueTask(g, t))
  <1> DEFINE k == enqueueTask(g, t)
             c == g.playChain
             d == Append(c, t)
  <1>1. /\ k.playChain = d /\ k.abandoned = g.abandoned
        /\ k.pendingAfterAnswer = g.pendingAfterAnswer
        /\ k.settled = g.settled /\ k.nextTask = g.nextTask + 1
    BY Zenon DEF enqueueTask, GateState
  <1>2. c \in Seq(Task) /\ c \in Chains(g)
    BY DEF GateState, Chains
  <1>3. /\ g.nextTask \notin Ids(g.pendingAfterAnswer) \cup g.settled
        /\ \A e \in Chains(g) : g.nextTask \notin Ids(e)
        /\ 1..(k.nextTask - 1) = 1..(g.nextTask - 1) \cup {g.nextTask}
    BY <1>1, NewIdFact
  <1>4. Ids(d) = Ids(c) \cup {g.nextTask} /\ Inj(d)
    BY <1>2, <1>3, IdsAppend DEF Once
  <1>5. Chains(k) = {d} \cup g.abandoned /\ Chains(g) = {c} \cup g.abandoned
    BY <1>1 DEF Chains
  <1> HIDE DEF k, d, c
  <1>6. \A e \in g.abandoned : e \in Chains(g) /\ e # c
    BY <1>5 DEF Once, c
  <1>7. \A e \in Chains(k) : /\ Inj(e) /\ Apart(Ids(e), Ids(k.pendingAfterAnswer))
                             /\ Apart(Ids(e), k.settled)
    BY <1>1, <1>2, <1>3, <1>4, <1>5, <1>6 DEF Once, Apart
  <1>8. \A e \in g.abandoned : Apart(Ids(e), Ids(d))
    BY <1>2, <1>3, <1>4, <1>6 DEF Once, Apart
  <1>9. \A e, f \in Chains(k) : e # f => Apart(Ids(e), Ids(f))
    BY <1>5, <1>6, <1>8 DEF Once, Apart
  <1>10. k.playChain \notin k.abandoned
    BY <1>1, <1>3, <1>4, <1>6
  <1>11. IdsOf(Chains(k)) = IdsOf(Chains(g)) \cup {g.nextTask}
    BY <1>4, <1>5 DEF IdsOf
  <1>12. 1..(k.nextTask - 1)
            = k.settled \cup IdsOf(Chains(k)) \cup Ids(k.pendingAfterAnswer)
    BY <1>1, <1>3, <1>11 DEF Once
  <1>13. /\ Inj(k.pendingAfterAnswer) /\ Apart(Ids(k.pendingAfterAnswer), k.settled)
         /\ <<>> \notin k.abandoned
    BY <1>1 DEF Once
  <1>14. Once(k)
    BY <1>7, <1>9, <1>10, <1>12, <1>13 DEF Once
  <1> QED BY <1>14 DEF k

LEMMA DelayOnce ==
    ASSUME NEW g \in GateState, Once(g), NEW t \in Task, t.id = g.nextTask
    PROVE  Once(chainOrDelay(g, t))
  <1>1. CASE ~g.answerActive
    BY <1>1, AppendOnce, Zenon DEF chainOrDelay
  <1>2. CASE g.answerActive
    <2> DEFINE k == [g EXCEPT !.pendingAfterAnswer = Append(@, t), !.nextTask = @ + 1]
               c == g.pendingAfterAnswer
               d == Append(c, t)
    <2>1. /\ k.playChain = g.playChain /\ k.abandoned = g.abandoned
          /\ k.pendingAfterAnswer = d
          /\ k.settled = g.settled /\ k.nextTask = g.nextTask + 1
      BY Zenon DEF GateState
    <2>2. chainOrDelay(g, t) = k
      BY <1>2, Zenon DEF chainOrDelay
    <2>3. c \in Seq(Task)
      BY DEF GateState
    <2>4. Chains(k) = Chains(g)
      BY <2>1 DEF Chains
    <2>5. /\ g.nextTask \notin Ids(c) \cup g.settled
          /\ \A e \in Chains(g) : g.nextTask \notin Ids(e)
          /\ 1..(k.nextTask - 1) = 1..(g.nextTask - 1) \cup {g.nextTask}
      BY <2>1, NewIdFact
    <2>6. Ids(d) = Ids(c) \cup {g.nextTask} /\ Inj(d)
      BY <2>3, <2>5, IdsAppend DEF Once
    <2> HIDE DEF k, d
    <2>7. \A e \in Chains(k) : Apart(Ids(e), Ids(k.pendingAfterAnswer))
      BY <2>1, <2>4, <2>5, <2>6 DEF Once, Apart
    <2>8. Inj(k.pendingAfterAnswer) /\ Apart(Ids(k.pendingAfterAnswer), k.settled)
      BY <2>1, <2>5, <2>6 DEF Once, Apart
    <2>9. 1..(k.nextTask - 1)
             = k.settled \cup IdsOf(Chains(k)) \cup Ids(k.pendingAfterAnswer)
      BY <2>1, <2>4, <2>5, <2>6 DEF Once
    <2>10. Once(k)
      BY <2>1, <2>4, <2>7, <2>8, <2>9 DEF Once
    <2> QED BY <2>2, <2>10
  <1> QED BY <1>1, <1>2

LEMMA EndAnswerOnce ==
    ASSUME NEW g \in GateState, Once(g)  PROVE Once(endAnswer(g))
  <1> DEFINE k == endAnswer(g)
             c == g.playChain
             d == c \o g.pendingAfterAnswer
  <1>1. /\ k.playChain = d /\ k.abandoned = g.abandoned
        /\ k.pendingAfterAnswer = <<>>
        /\ k.settled = g.settled /\ k.nextTask = g.nextTask
    BY Zenon DEF endAnswer, GateState
  <1>2. c \in Seq(Task) /\ g.pendingAfterAnswer \in Seq(Task) /\ c \in Chains(g)
    BY DEF GateState, Chains
  <1>3. Ids(d) = Ids(c) \cup Ids(g.pendingAfterAnswer) /\ Inj(d)
    BY <1>2, IdsConcat DEF Once
  <1>4. Chains(k) = {d} \cup g.abandoned /\ Chains(g) = {c} \cup g.abandoned
    BY <1>1 DEF Chains
  <1> HIDE DEF k, d, c
  <1>5. \A e \in g.abandoned : e \in Chains(g) /\ e # c
    BY <1>4 DEF Once, c
  <1>6. \A e \in Chains(k) : /\ Inj(e) /\ Apart(Ids(e), Ids(k.pendingAfterAnswer))
                             /\ Apart(Ids(e), k.settled)
    BY <1>1, <1>2, <1>3, <1>4, <1>5, IdsEmpty DEF Once, Apart
  <1>7. \A e \in g.abandoned : Apart(Ids(e), Ids(d))
    BY <1>2, <1>3, <1>5 DEF Once, Apart
  <1>8. \A e, f \in Chains(k) : e # f => Apart(Ids(e), Ids(f))
    BY <1>4, <1>5, <1>7 DEF Once, Apart
  <1>9. k.playChain \notin k.abandoned
    <2> SUFFICES ASSUME d \in g.abandoned PROVE FALSE
      BY <1>1
    <2>1. d \in Seq(Task) /\ d # <<>>
      BY TasksTyped DEF Once
    <2>2. Ids(d) # {} /\ Apart(Ids(d), Ids(d))
      BY <1>7, <2>1, IdsNonempty
    <2> QED BY <2>2 DEF Apart
  <1>10. IdsOf(Chains(k)) = IdsOf(Chains(g)) \cup Ids(g.pendingAfterAnswer)
    BY <1>3, <1>4 DEF IdsOf
  <1>11. 1..(k.nextTask - 1)
            = k.settled \cup IdsOf(Chains(k)) \cup Ids(k.pendingAfterAnswer)
    BY <1>1, <1>10, IdsEmpty DEF Once
  <1>12. /\ Inj(k.pendingAfterAnswer) /\ Apart(Ids(k.pendingAfterAnswer), k.settled)
         /\ <<>> \notin k.abandoned
    BY <1>1, IdsEmpty DEF Once, Apart
  <1>14. Once(k)
    BY <1>6, <1>8, <1>9, <1>11, <1>12 DEF Once
  <1> QED BY <1>14 DEF k

LEMMA FlushOnce ==
    ASSUME NEW g \in GateState, Once(g)  PROVE Once(flushPlayQueue(g))
  <1> DEFINE k == flushPlayQueue(g)
  <1>1. /\ k.playChain = <<>>
        /\ k.abandoned = (g.abandoned \cup {g.playChain}) \ {<<>>}
        /\ k.pendingAfterAnswer = <<>>
        /\ k.settled = g.settled \cup Ids(g.pendingAfterAnswer)
        /\ k.nextTask = g.nextTask
    BY FlushFields
  <1> HIDE DEF k
  <1>2. \A c \in Chains(k) : c = <<>> \/ c \in Chains(g)
    BY <1>1 DEF Chains
  <1>3. \A c \in Chains(g) : c = <<>> \/ c \in Chains(k)
    BY <1>1 DEF Chains
  <1>4. IdsOf(Chains(k)) = IdsOf(Chains(g))
    BY <1>2, <1>3, IdsEmpty DEF IdsOf
  <1>5. \A c \in Chains(k) : Inj(c) /\ Apart(Ids(c), k.settled)
                            /\ Apart(Ids(c), Ids(k.pendingAfterAnswer))
    BY <1>1, <1>2, IdsEmpty DEF Once, Apart
  <1>6. \A c, d \in Chains(k) : c # d => Apart(Ids(c), Ids(d))
    BY <1>2, IdsEmpty DEF Once, Apart
  <1>7. 1..(k.nextTask - 1)
            = k.settled \cup IdsOf(Chains(k)) \cup Ids(k.pendingAfterAnswer)
    BY <1>1, <1>4, IdsEmpty DEF Once
  <1>8. /\ Inj(k.pendingAfterAnswer) /\ Apart(Ids(k.pendingAfterAnswer), k.settled)
        /\ <<>> \notin k.abandoned /\ k.playChain \notin k.abandoned
    BY <1>1, IdsEmpty DEF Apart
  <1>14. Once(k)
    BY <1>5, <1>6, <1>7, <1>8 DEF Once
  <1> QED BY <1>14 DEF k

(* A chain is replaced by one with no more tasks than it. *)
LEMMA ReplaceOnce ==
    ASSUME NEW g \in GateState, Once(g), NEW c \in Chains(g), NEW d \in Seq(Task),
           Ids(d) \subseteq Ids(c), Inj(d),
           NEW k, k.settled = g.settled \cup (Ids(c) \ Ids(d)),
           LET r == ReplaceChain(g, c, d) IN
              /\ k.playChain = r.playChain /\ k.abandoned = r.abandoned
              /\ k.pendingAfterAnswer = r.pendingAfterAnswer /\ k.nextTask = r.nextTask
    PROVE  Once(k)
  <1>1. /\ k.pendingAfterAnswer = g.pendingAfterAnswer /\ k.nextTask = g.nextTask
        /\ \/ c = g.playChain /\ k.playChain = d /\ k.abandoned = g.abandoned
           \/ /\ c # g.playChain /\ k.playChain = g.playChain
              /\ k.abandoned = (g.abandoned \ {c}) \cup ({d} \ {<<>>})
    <2>1. CASE c = g.playChain
      BY <2>1, Zenon DEF ReplaceChain, GateState
    <2>2. CASE c # g.playChain
      BY <2>2, Zenon DEF ReplaceChain, GateState
    <2> QED BY <2>1, <2>2
  <1>2. \A e \in Chains(k) : e = d \/ (e \in Chains(g) /\ e # c)
    BY <1>1 DEF Chains, Once
  <1>3. \A e \in Chains(g) : e = c \/ e \in Chains(k)
    BY <1>1 DEF Chains
  <1>4. d \in Chains(k) \/ d = <<>>
    BY <1>1 DEF Chains
  <1>5. IdsOf(Chains(k)) \cup k.settled = IdsOf(Chains(g)) \cup g.settled
    <2>1. \A x \in IdsOf(Chains(k)) : x \in IdsOf(Chains(g))
      BY <1>2 DEF IdsOf
    <2>2. \A x \in IdsOf(Chains(g)) : x \in IdsOf(Chains(k)) \/ x \in Ids(c)
      BY <1>3 DEF IdsOf
    <2>3. Ids(d) \subseteq IdsOf(Chains(k))
      BY <1>4, IdsEmpty DEF IdsOf
    <2>4. Ids(c) \subseteq IdsOf(Chains(g))
      BY DEF IdsOf
    <2> QED BY <2>1, <2>2, <2>3, <2>4
  <1>6. \A e \in Chains(k) : /\ Inj(e) /\ Apart(Ids(e), Ids(k.pendingAfterAnswer))
                             /\ Apart(Ids(e), k.settled)
    BY <1>1, <1>2 DEF Once, Apart
  <1>7. \A e, f \in Chains(k) : e # f => Apart(Ids(e), Ids(f))
    BY <1>2 DEF Once, Apart
  <1>8. Apart(Ids(k.pendingAfterAnswer), k.settled)
    BY <1>1 DEF Once, Apart
  <1>9. k.playChain \notin k.abandoned
    <2>1. ASSUME d # <<>>, NEW e \in Chains(g), e # c  PROVE e # d
      <3>1. Ids(d) # {}
        BY <2>1, IdsNonempty
      <3> QED BY <2>1, <3>1 DEF Once, Apart
    <2>2. d # <<>> \/ <<>> \notin g.abandoned
      BY DEF Once
    <2> QED BY <1>1, <2>1, <2>2 DEF Once, Chains
  <1>10. <<>> \notin k.abandoned
    BY <1>1 DEF Once
  <1> QED BY <1>1, <1>5, <1>6, <1>7, <1>8, <1>9, <1>10 DEF Once

-----------------------------------------------------------------------------
(* The operators.                                                          *)

LEMMA FlagsSame ==
    ASSUME NEW g \in GateState
    PROVE  /\ SamePlaces(g, beginAnswer(g)) /\ SamePlaces(g, newDialog(g))
           /\ SamePlaces(g, stopMusic(g)) /\ SamePlaces(g, pauseMusicForAnswer(g))
           /\ \A found : SamePlaces(g, ProbeAnswered(g, found))
           /\ \A u : SamePlaces(g, [g EXCEPT !.lastMusicUrl = u, !.musicActive = TRUE])
  <1>1. SamePlaces(g, beginAnswer(g))
    BY Zenon DEF beginAnswer, GateState, SamePlaces
  <1>2. SamePlaces(g, newDialog(g))
    BY Zenon DEF newDialog, GateState, SamePlaces
  <1>3. SamePlaces(g, stopMusic(g))
    BY Zenon DEF stopMusic, GateState, SamePlaces
  <1>4. SamePlaces(g, pauseMusicForAnswer(g))
    BY Zenon DEF pauseMusicForAnswer, GateState, SamePlaces
  <1>5. \A found : SamePlaces(g, ProbeAnswered(g, found))
    BY Zenon DEF ProbeAnswered, GateState, SamePlaces
  <1>6. \A u : SamePlaces(g, [g EXCEPT !.lastMusicUrl = u, !.musicActive = TRUE])
    BY Zenon DEF GateState, SamePlaces
  <1> QED BY <1>1, <1>2, <1>3, <1>4, <1>5, <1>6

LEMMA FlagsOnce ==
    ASSUME NEW g \in GateState, Once(g)
    PROVE  /\ Once(beginAnswer(g)) /\ Once(newDialog(g)) /\ Once(stopMusic(g))
           /\ Once(pauseMusicForAnswer(g))
           /\ \A found : Once(ProbeAnswered(g, found))
           /\ \A u : Once([g EXCEPT !.lastMusicUrl = u, !.musicActive = TRUE])
  BY FlagsSame, SamePlacesOnce

LEMMA EnqueueOnce ==
    ASSUME NEW g \in GateState, Once(g), NEW e \in Nat, NEW u \in Url
    PROVE  /\ Once(enqueueChunk(g, e)) /\ Once(enqueuePlay(g, e))
           /\ Once(enqueueWakeUp(g, e)) /\ Once(playUrlNow(g, u))
  <1>1. ASSUME NEW kind \in TextKind
        PROVE  LET t == NewTask(g, kind, e, NoUrl) IN t \in Task /\ t.id = g.nextTask
    BY <1>1, NewTaskFact DEF TextKind, Kind
  <1>2. Once(enqueueChunk(g, e)) /\ Once(enqueuePlay(g, e)) /\ Once(enqueueWakeUp(g, e))
    BY <1>1, AppendOnce, DelayOnce DEF enqueueChunk, enqueuePlay, enqueueWakeUp, TextKind
  <1>3. Once(playUrlNow(g, u))
    <2> DEFINE k == [g EXCEPT !.musicEpoch = @ + 1]
               t == NewTask(g, "music", g.musicEpoch + 1, u)
    <2>1. g.musicEpoch + 1 \in Nat
      BY DEF GateState
    <2>2. k \in GateState /\ SamePlaces(g, k)
      BY <2>1, Zenon DEF GateState, SamePlaces
    <2>3. t \in Task /\ t.id = g.nextTask
      BY <2>1, NewTaskFact DEF Kind
    <2>4. playUrlNow(g, u) = enqueueTask(k, t)
      BY Zenon DEF playUrlNow
    <2> HIDE DEF k, t
    <2>5. Once(k) /\ t.id = k.nextTask
      BY <2>2, <2>3, SamePlacesOnce DEF SamePlaces
    <2> QED BY <2>2, <2>3, <2>4, <2>5, AppendOnce
  <1> QED BY <1>2, <1>3

LEMMA SettleOnce ==
    ASSUME NEW g \in GateState, Once(g), NEW c \in Chains(g), c # <<>>
    PROVE  Once(Settle(g, c))
  <1> DEFINE r == ReplaceChain(g, c, Tail(c))
             k == Settle(g, c)
  <1>1. c \in Seq(Task)
    BY TasksTyped DEF Chains
  <1>2. Tail(c) \in Seq(Task) /\ Ids(Tail(c)) = Ids(c) \ {Head(c).id} /\ Inj(Tail(c))
    BY <1>1, TailFact, IdsTail DEF Once
  <1>3. Head(c).id \in Ids(c)
    BY <1>1, TailFact, IdsNonempty
  <1>4. k = [r EXCEPT !.settled = @ \cup {Head(c).id}]
    BY Zenon DEF Settle
  <1>5. /\ k.playChain = r.playChain /\ k.abandoned = r.abandoned
        /\ k.pendingAfterAnswer = r.pendingAfterAnswer /\ k.nextTask = r.nextTask
        /\ k.settled = g.settled \cup {Head(c).id}
    <2>1. CASE c = g.playChain
      BY <1>4, <2>1, Zenon DEF ReplaceChain, GateState
    <2>2. CASE c # g.playChain
      BY <1>4, <2>2, Zenon DEF ReplaceChain, GateState
    <2> QED BY <2>1, <2>2
  <1>6. k.settled = g.settled \cup (Ids(c) \ Ids(Tail(c)))
    BY <1>2, <1>3, <1>5
  <1> HIDE DEF k
  <1>7. Once(k)
    BY <1>2, <1>5, <1>6, ReplaceOnce
  <1> QED BY <1>7 DEF k

LEMMA SetPhaseOnce ==
    ASSUME NEW g \in GateState, Once(g), NEW c \in Chains(g), c # <<>>, NEW p \in Phase
    PROVE  Once(SetPhase(g, c, p))
  <1> DEFINE d == [c EXCEPT ![1] = [Head(c) EXCEPT !.phase = p]]
             k == ReplaceChain(g, c, d)
  <1>1. c \in Seq(Task)
    BY TasksTyped DEF Chains
  <1>2. Head(c) = c[1] /\ c[1] \in Task
    BY <1>1, TailFact
  <1>3. [Head(c) EXCEPT !.phase = p] \in Task
    BY <1>2, PhaseFact
  <1>4. d \in Seq(Task)
    BY <1>1, <1>3, HeadFact
  <1>5. Ids(d) = Ids(c) /\ Inj(d)
    BY <1>1, IdsPhase DEF Once
  <1>6. SetPhase(g, c, p) = k
    BY Zenon DEF SetPhase
  <1>7. k.settled = g.settled
    <2>1. CASE c = g.playChain
      BY <2>1, Zenon DEF ReplaceChain, GateState
    <2>2. CASE c # g.playChain
      BY <2>2, Zenon DEF ReplaceChain, GateState
    <2> QED BY <2>1, <2>2
  <1> HIDE DEF d
  <1>8. k.settled = g.settled \cup (Ids(c) \ Ids(d))
    BY <1>5, <1>7
  <1>9. Once(k)
    BY <1>4, <1>5, <1>8, ReplaceOnce
  <1> QED BY <1>6, <1>9

LEMMA StartTaskOnce ==
    ASSUME NEW g \in GateState, Once(g), NEW c \in Chains(g), c # <<>>
    PROVE  Once(StartTask(g, c))
  <1>1. FirstPhase(Head(c).kind) \in Phase
    BY DEF FirstPhase, Phase
  <1> QED BY <1>1, SettleOnce, SetPhaseOnce, Zenon DEF StartTask

LEMMA CallReturnedOnce ==
    ASSUME NEW g, GateInv(g), Once(g), NEW c \in Chains(g), c # <<>>
    PROVE  Once(CallReturned(g, c))
  <1>1. "killing" \in Phase /\ "launching" \in Phase /\ g \in GateState
    BY DEF Phase, GateInv
  <1>2. Once(Settle(g, c)) /\ Settle(g, c) \in GateState
    BY <1>1, SettleOnce, SettleInv DEF GateInv
  <1>3. CASE Head(c).phase = "stopping"
    BY <1>1, <1>3, SetPhaseOnce DEF CallReturned
  <1>4. CASE Head(c).phase = "killing" /\ ~Expired(g, Head(c))
    BY <1>1, <1>4, SetPhaseOnce DEF CallReturned
  <1>5. CASE Head(c).phase = "launching"
    BY <1>2, <1>5, FlagsOnce DEF CallReturned
  <1>6. CASE /\ Head(c).phase # "stopping"
             /\ ~(Head(c).phase = "killing" /\ ~Expired(g, Head(c)))
             /\ Head(c).phase # "launching"
    BY <1>2, <1>6 DEF CallReturned
  <1> QED BY <1>3, <1>4, <1>5, <1>6

LEMMA OnceInit == Init => Once(gate)
  <1> SUFFICES ASSUME Init PROVE Once(gate)
    OBVIOUS
  <1>1. /\ gate.playChain = <<>> /\ gate.abandoned = {} /\ gate.pendingAfterAnswer = <<>>
        /\ gate.settled = {} /\ gate.nextTask = 1
    BY DEF Init, InitGate
  <1>2. Chains(gate) = {<<>>} /\ IdsOf(Chains(gate)) = {}
    BY <1>1, IdsEmpty DEF Chains, IdsOf
  <1> QED BY <1>1, <1>2, IdsEmpty DEF Once, Apart

LEMMA OnceNext == GateInv(gate) /\ Once(gate) /\ [Next]_vars => Once(gate)'
  <1> SUFFICES ASSUME GateInv(gate), Once(gate), [Next]_vars PROVE Once(gate')
    BY DEF Once, Chains
  <1>1. gate \in GateState /\ gate.dialogEpoch \in Nat /\ 0..gate.dialogEpoch \subseteq Nat
    BY DEF GateInv, GateState
  <1>2. CASE \/ BeginAnswer \/ NewDialog \/ StopMusic \/ PauseMusicForAnswer \/ Probe
    BY <1>1, <1>2, FlagsOnce
       DEF BeginAnswer, NewDialog, StopMusic, PauseMusicForAnswer, Probe
  <1>3. CASE PlayUrlNow
    <2>1. 0 \in Nat
      OBVIOUS
    <2> QED BY <1>1, <1>3, <2>1, EnqueueOnce DEF PlayUrlNow
  <1>4. CASE EnqueueChunk \/ EnqueuePlay \/ EnqueueWakeUp
    <2>1. PICK e \in Nat, kind \in TextKind :
             LET t == NewTask(gate, kind, e, NoUrl)
             IN gate' = enqueueTask(gate, t) \/ gate' = chainOrDelay(gate, t)
      BY <1>1, <1>4 DEF EnqueueChunk, EnqueuePlay, EnqueueWakeUp, enqueueChunk, enqueuePlay,
                        enqueueWakeUp, TextKind
    <2>2. kind \in Kind
      BY DEF Kind
    <2> QED BY <1>1, <2>1, <2>2, NewTaskFact, AppendOnce, DelayOnce
  <1>5. CASE EndAnswer
    BY <1>1, <1>5, EndAnswerOnce DEF EndAnswer
  <1>6. CASE FlushPlayQueue
    BY <1>1, <1>6, FlushOnce DEF FlushPlayQueue
  <1>7. CASE Start
    BY <1>1, <1>7, StartTaskOnce DEF Start, Startable
  <1>8. CASE Return
    BY <1>8, CallReturnedOnce DEF Return, Awaiting
  <1>9. CASE Fail
    BY <1>1, <1>9, SettleOnce DEF Fail, Awaiting, CallFailed
  <1>10. CASE UNCHANGED vars
    BY <1>10 DEF vars
  <1> QED BY <1>2, <1>3, <1>4, <1>5, <1>6, <1>7, <1>8, <1>9, <1>10 DEF Next, Client

LEMMA OnceAlways == Spec => []Once(gate)
  <1>1. GateInv(gate) /\ Once(gate) /\ [Next]_vars => Once(gate)'
    BY OnceNext
  <1> QED BY <1>1, OnceInit, Invariant, PTL DEF Spec

(* Every task is in one place, across flushes, failures and ends of        *)
(* answers (speaker-gate.ts:79-125): none is forgotten, none played twice. *)
THEOREM OncePlayed == Spec => []EachTaskOnce
  <1>1. Once(gate) => EachTaskOnce
    BY OnceFact DEF EachTaskOnce
  <1> QED BY <1>1, OnceAlways, PTL

-----------------------------------------------------------------------------
(* Silence after a flush.  Only the head of a chain has been started, so   *)
(* a task is heard for the first time where a head is started or a song    *)
(* launched, which an expired one never is.                                *)

MusicPhase == {"stopping", "killing", "launching"}

Behind(c) ==
    \A i \in DOMAIN c : /\ i # 1 => c[i].phase = "queued"
                        /\ c[i].phase \in MusicPhase => c[i].kind = "music"

Waiting(g) ==
    /\ \A c \in Chains(g) : Behind(c)
    /\ \A i \in DOMAIN g.pendingAfterAnswer : g.pendingAfterAnswer[i].phase = "queued"

Loud(c) == c # <<>> /\ c[1].phase \in SoundPhase

(* What is heard in k was heard in g. *)
Echo(g, k) ==
    \A d \in Chains(k) : Loud(d) => \E c \in Chains(g) : Loud(c) /\ c[1] = d[1]

(* Or it is the head of the play chain, which is not past, and either has  *)
(* just been started or is a song.                                         *)
Fresh(g, t) ==
    LET u == g.playChain[1] IN
    /\ g.playChain # <<>> /\ ~Past(g, u)
    /\ t.id = u.id /\ t.kind = u.kind
    /\ u.phase = "queued" \/ u.kind = "music"

Heeds(g, k) ==
    \A d \in Chains(k) : Loud(d) =>
        \/ \E c \in Chains(g) : Loud(c) /\ c[1] = d[1]
        \/ Fresh(g, d[1])

LEMMA EchoTrans ==
    ASSUME NEW g, NEW k, NEW m, Echo(g, k), Echo(k, m)
    PROVE  Echo(g, m) /\ Heeds(g, k)
  BY DEF Echo, Heeds

LEMMA SilentFact ==
    ASSUME NEW g \in GateState, NEW k, Once(g), Heeds(g, k)
    PROVE  IdsOf(g.abandoned) \cap Sounding(k) \subseteq Sounding(g)
  <1> SUFFICES ASSUME NEW d \in Chains(k), Loud(d), d[1].id \in IdsOf(g.abandoned)
               PROVE  \E c \in Chains(g) : Loud(c) /\ c[1].id = d[1].id
    BY DEF Sounding, Loud
  <1>1. CASE \E c \in Chains(g) : Loud(c) /\ c[1] = d[1]
    BY <1>1
  <1>2. CASE Fresh(g, d[1])
    <2>1. g.playChain \in Seq(Task) /\ g.playChain \in Chains(g)
      BY DEF GateState, Chains
    <2>2. d[1].id \in Ids(g.playChain)
      BY <1>2, <2>1, IdsNonempty DEF Fresh
    <2>3. \A e \in g.abandoned : Apart(Ids(g.playChain), Ids(e))
      BY <2>1 DEF Once, Chains
    <2> QED BY <2>2, <2>3 DEF Apart, IdsOf
  <1> QED BY <1>1, <1>2 DEF Heeds

LEMMA QueuedIsNoSound ==
    "queued" \notin SoundPhase /\ "killing" \notin SoundPhase /\ "queued" \notin MusicPhase
  BY DEF SoundPhase, MusicPhase

LEMMA AppendQuiet ==
    ASSUME NEW g \in GateState, Waiting(g), NEW t \in Task, t.phase = "queued"
    PROVE  /\ Waiting(enqueueTask(g, t)) /\ Echo(g, enqueueTask(g, t))
           /\ Waiting(chainOrDelay(g, t)) /\ Echo(g, chainOrDelay(g, t))
  <1>1. g.playChain \in Seq(Task) /\ g.pendingAfterAnswer \in Seq(Task)
    BY DEF GateState
  <1>2. Waiting(enqueueTask(g, t)) /\ Echo(g, enqueueTask(g, t))
    <2> DEFINE k == enqueueTask(g, t)
               d == Append(g.playChain, t)
    <2>1. /\ k.playChain = d /\ k.abandoned = g.abandoned
          /\ k.pendingAfterAnswer = g.pendingAfterAnswer
      BY Zenon DEF enqueueTask, GateState
    <2>2. /\ d # <<>> /\ (g.playChain # <<>> => d[1] = g.playChain[1])
          /\ (g.playChain = <<>> => d[1] = t)
      BY <1>1
    <2>3. \A i \in DOMAIN d : \/ i \in DOMAIN g.playChain /\ d[i] = g.playChain[i]
                              \/ d[i] = t
      BY <1>1, AppendFact
    <2> HIDE DEF k, d
    <2>4. Behind(d)
      BY <2>3, QueuedIsNoSound DEF Behind, Waiting, Chains
    <2>5. Waiting(k)
      BY <2>1, <2>4 DEF Waiting, Chains
    <2>6. Loud(d) => Loud(g.playChain) /\ g.playChain[1] = d[1]
      BY <2>2, QueuedIsNoSound DEF Loud
    <2>7. Echo(g, k)
      BY <2>1, <2>6 DEF Echo, Chains
    <2> QED BY <2>5, <2>7 DEF k
  <1>3. CASE ~g.answerActive
    BY <1>2, <1>3, Zenon DEF chainOrDelay
  <1>4. CASE g.answerActive
    <2> DEFINE k == [g EXCEPT !.pendingAfterAnswer = Append(@, t), !.nextTask = @ + 1]
    <2>1. /\ k.playChain = g.playChain /\ k.abandoned = g.abandoned
          /\ k.pendingAfterAnswer = Append(g.pendingAfterAnswer, t)
      BY Zenon DEF GateState
    <2>2. chainOrDelay(g, t) = k
      BY <1>4, Zenon DEF chainOrDelay
    <2>3. Chains(k) = Chains(g)
      BY <2>1 DEF Chains
    <2>4. \A i \in DOMAIN k.pendingAfterAnswer : k.pendingAfterAnswer[i].phase = "queued"
      BY <1>1, <2>1, AppendFact DEF Waiting
    <2> HIDE DEF k
    <2>5. Waiting(k) /\ Echo(g, k)
      BY <2>3, <2>4 DEF Waiting, Echo
    <2> QED BY <1>2, <2>2, <2>5
  <1> QED BY <1>2, <1>3, <1>4

LEMMA ConcatHead ==
    ASSUME NEW S, NEW s \in Seq(S), NEW t \in Seq(S)
    PROVE  \A i \in DOMAIN s : (s \o t)[i] = s[i]
  OBVIOUS

LEMMA EndAnswerQuiet ==
    ASSUME NEW g \in GateState, Waiting(g)
    PROVE  Waiting(endAnswer(g)) /\ Echo(g, endAnswer(g))
  <1> DEFINE k == endAnswer(g)
             c == g.playChain
             p == g.pendingAfterAnswer
             d == c \o p
  <1>1. k.playChain = d /\ k.abandoned = g.abandoned /\ k.pendingAfterAnswer = <<>>
    BY Zenon DEF endAnswer, GateState
  <1>2. c \in Seq(Task) /\ p \in Seq(Task)
    BY DEF GateState
  <1>3. \A i \in DOMAIN d : \/ i \in DOMAIN c /\ d[i] = c[i]
                            \/ (i - Len(c)) \in DOMAIN p /\ d[i] = p[i - Len(c)]
    BY <1>2, ConcatFact
  <1>4. d # <<>> => \/ c # <<>> /\ d[1] = c[1]
                    \/ 1 \in DOMAIN p /\ d[1] = p[1]
    <2>1. CASE c # <<>>
      <3>1. 1 \in DOMAIN c
        BY <1>2, <2>1, TailFact
      <3>2. \A i \in DOMAIN c : d[i] = c[i]
        BY <1>2, ConcatHead, Zenon
      <3> QED BY <2>1, <3>1, <3>2
    <2>2. CASE c = <<>>
      <3>1. d = p
        BY <1>2, <2>2
      <3>2. p # <<>> => 1 \in DOMAIN p
        BY <1>2, TailFact
      <3> HIDE DEF p, d
      <3> QED BY <3>1, <3>2
    <2> QED BY <2>1, <2>2
  <1> HIDE DEF k, d
  <1>5. Behind(d)
    BY <1>3, QueuedIsNoSound DEF Behind, Waiting, Chains
  <1>6. Waiting(k)
    BY <1>1, <1>5 DEF Waiting, Chains
  <1>7. Loud(d) => Loud(c) /\ c[1] = d[1]
    BY <1>4, QueuedIsNoSound DEF Loud, Waiting
  <1>8. Echo(g, k)
    BY <1>1, <1>7 DEF Echo, Chains
  <1> QED BY <1>6, <1>8 DEF k

LEMMA FlushQuiet ==
    ASSUME NEW g \in GateState, Waiting(g)
    PROVE  Waiting(flushPlayQueue(g)) /\ Echo(g, flushPlayQueue(g))
  <1> DEFINE k == flushPlayQueue(g)
  <1>1. /\ k.playChain = <<>> /\ k.pendingAfterAnswer = <<>>
        /\ k.abandoned = (g.abandoned \cup {g.playChain}) \ {<<>>}
    BY FlushFields
  <1> HIDE DEF k
  <1>2. \A c \in Chains(k) : c = <<>> \/ c \in Chains(g)
    BY <1>1 DEF Chains
  <1>3. Waiting(k)
    BY <1>1, <1>2 DEF Waiting, Behind
  <1>4. Echo(g, k)
    BY <1>2 DEF Echo, Loud
  <1> QED BY <1>3, <1>4 DEF k

(* A chain gives way to one whose head is as silent as it was. *)
LEMMA ReplaceQuiet ==
    ASSUME NEW g \in GateState, Waiting(g), NEW c \in Chains(g), NEW d, Behind(d),
           Loud(d) => Fresh(g, d[1]),
           NEW k, LET r == ReplaceChain(g, c, d) IN
                     /\ k.playChain = r.playChain /\ k.abandoned = r.abandoned
                     /\ k.pendingAfterAnswer = r.pendingAfterAnswer
    PROVE  Waiting(k) /\ Heeds(g, k)
  <1>1. /\ k.pendingAfterAnswer = g.pendingAfterAnswer
        /\ \A e \in Chains(k) : e = d \/ e \in Chains(g)
    <2>1. CASE c = g.playChain
      BY <2>1, Zenon DEF ReplaceChain, GateState, Chains
    <2>2. CASE c # g.playChain
      <3>1. /\ k.playChain = g.playChain
            /\ k.abandoned = (g.abandoned \ {c}) \cup ({d} \ {<<>>})
            /\ k.pendingAfterAnswer = g.pendingAfterAnswer
        BY <2>2, Zenon DEF ReplaceChain, GateState
      <3> QED BY <3>1 DEF Chains
    <2> QED BY <2>1, <2>2
  <1> QED BY <1>1 DEF Waiting, Heeds

LEMMA SettleQuiet ==
    ASSUME NEW g \in GateState, Waiting(g), NEW c \in Chains(g), c # <<>>
    PROVE  /\ Waiting(Settle(g, c)) /\ Heeds(g, Settle(g, c))
           /\ \A u : LET k == [Settle(g, c) EXCEPT !.lastMusicUrl = u, !.musicActive = TRUE]
                     IN Waiting(k) /\ Heeds(g, k)
  <1> DEFINE r == ReplaceChain(g, c, Tail(c))
             k == Settle(g, c)
             l(u) == [k EXCEPT !.lastMusicUrl = u, !.musicActive = TRUE]
  <1>1. c \in Seq(Task)
    BY TasksTyped DEF Chains
  <1>2. \A i \in DOMAIN Tail(c) : Tail(c)[i].phase = "queued"
    <2>1. \A i \in DOMAIN Tail(c) : i + 1 \in DOMAIN c /\ i + 1 # 1 /\ Tail(c)[i] = c[i + 1]
      BY <1>1
    <2> QED BY <2>1 DEF Waiting, Behind
  <1>3. Tail(c) # <<>> => 1 \in DOMAIN Tail(c)
    BY <1>1
  <1>4. Behind(Tail(c)) /\ ~Loud(Tail(c))
    BY <1>2, <1>3, QueuedIsNoSound DEF Behind, Loud
  <1>5. /\ k.playChain = r.playChain /\ k.abandoned = r.abandoned
        /\ k.pendingAfterAnswer = r.pendingAfterAnswer
    <2>1. CASE c = g.playChain
      BY <2>1, Zenon DEF Settle, ReplaceChain, GateState
    <2>2. CASE c # g.playChain
      BY <2>2, Zenon DEF Settle, ReplaceChain, GateState
    <2> QED BY <2>1, <2>2
  <1>6. ASSUME NEW u
        PROVE  /\ l(u).playChain = r.playChain /\ l(u).abandoned = r.abandoned
               /\ l(u).pendingAfterAnswer = r.pendingAfterAnswer
    <2>1. CASE c = g.playChain
      BY <2>1, Zenon DEF Settle, ReplaceChain, GateState
    <2>2. CASE c # g.playChain
      BY <2>2, Zenon DEF Settle, ReplaceChain, GateState
    <2> QED BY <2>1, <2>2
  <1> HIDE DEF k, l
  <1>7. Waiting(k) /\ Heeds(g, k)
    BY <1>4, <1>5, ReplaceQuiet
  <1>8. \A u : Waiting(l(u)) /\ Heeds(g, l(u))
    BY <1>4, <1>6, ReplaceQuiet
  <1> QED BY <1>7, <1>8 DEF k, l

(* Only a task whose epoch is the current one becomes audible, and what a  *)
(* flush abandoned is past.                                                *)
LEMMA SetPhaseQuiet ==
    ASSUME NEW g, GateInv(g), Waiting(g), NEW c \in Chains(g), c # <<>>,
           NEW p \in Phase, p = "killing" \/ ~Expired(g, Head(c)),
           p \in MusicPhase => Head(c).kind = "music",
           Head(c).phase = "queued" \/ Head(c).kind = "music"
    PROVE  Waiting(SetPhase(g, c, p)) /\ Heeds(g, SetPhase(g, c, p))
  <1> DEFINE u == [Head(c) EXCEPT !.phase = p]
             d == [c EXCEPT ![1] = u]
             k == ReplaceChain(g, c, d)
  <1>1. g \in GateState
    BY DEF GateInv
  <1>2. c \in Seq(Task)
    BY <1>1, TasksTyped DEF Chains
  <1>3. 1 \in DOMAIN c /\ Head(c) = c[1] /\ c[1] \in Task
    BY <1>2, TailFact
  <1>4. u \in Task /\ u.phase = p /\ u.id = c[1].id /\ u.kind = c[1].kind
    BY <1>3, PhaseFact
  <1> HIDE DEF u
  <1>5. /\ DOMAIN d = DOMAIN c /\ d[1] = u
        /\ \A i \in DOMAIN c : i # 1 => d[i] = c[i]
    BY <1>2, <1>4, HeadFact
  <1>6. SetPhase(g, c, p) = k
    BY Zenon DEF SetPhase, u
  <1> HIDE DEF d
  <1>7. Behind(d)
    BY <1>3, <1>4, <1>5 DEF Waiting, Behind
  <1>8. ASSUME Loud(d) PROVE Fresh(g, d[1])
    <2>1. ~Expired(g, c[1])
      BY <1>3, <1>4, <1>5, <1>8, QueuedIsNoSound DEF Loud
    <2>2. ~Past(g, c[1])
      BY <1>1, <1>3, <2>1 DEF Past, Expired, GateState, Task
    <2>3. c = g.playChain
      BY <1>3, <2>2 DEF GateInv, Chains
    <2> QED BY <1>3, <1>4, <1>5, <2>2, <2>3 DEF Fresh
  <1>9. Waiting(k) /\ Heeds(g, k)
    BY <1>1, <1>7, <1>8, ReplaceQuiet
  <1> QED BY <1>6, <1>9

LEMMA StartTaskQuiet ==
    ASSUME NEW g, GateInv(g), Waiting(g), NEW c \in Chains(g), c # <<>>,
           Head(c).phase = "queued"
    PROVE  Waiting(StartTask(g, c)) /\ Heeds(g, StartTask(g, c))
  <1>1. g \in GateState /\ FirstPhase(Head(c).kind) \in Phase
    BY DEF FirstPhase, Phase, GateInv
  <1>2. FirstPhase(Head(c).kind) \in MusicPhase => Head(c).kind = "music"
    BY DEF FirstPhase, MusicPhase
  <1> QED BY <1>1, <1>2, SettleQuiet, SetPhaseQuiet DEF StartTask

LEMMA CallReturnedQuiet ==
    ASSUME NEW g, GateInv(g), Waiting(g), NEW c \in Chains(g), c # <<>>
    PROVE  Waiting(CallReturned(g, c)) /\ Heeds(g, CallReturned(g, c))
  <1>1. "killing" \in Phase /\ "launching" \in Phase /\ g \in GateState
    BY DEF Phase, GateInv
  <1>2. Head(c).phase \in MusicPhase => Head(c).kind = "music"
    <2>1. c \in Seq(Task)
      BY <1>1, TasksTyped DEF Chains
    <2>2. 1 \in DOMAIN c /\ Head(c) = c[1]
      BY <2>1, TailFact
    <2> QED BY <2>2 DEF Waiting, Behind
  <1>3. CASE Head(c).phase = "stopping"
    BY <1>1, <1>2, <1>3, SetPhaseQuiet DEF CallReturned, MusicPhase
  <1>4. CASE Head(c).phase = "killing" /\ ~Expired(g, Head(c))
    BY <1>1, <1>2, <1>4, SetPhaseQuiet DEF CallReturned, MusicPhase
  <1>5. CASE Head(c).phase = "launching"
    BY <1>1, <1>5, SettleQuiet DEF CallReturned
  <1>6. CASE /\ Head(c).phase # "stopping"
             /\ ~(Head(c).phase = "killing" /\ ~Expired(g, Head(c)))
             /\ Head(c).phase # "launching"
    BY <1>1, <1>6, SettleQuiet DEF CallReturned
  <1> QED BY <1>3, <1>4, <1>5, <1>6

LEMMA SamePlacesQuiet ==
    ASSUME NEW g, Waiting(g), NEW k, SamePlaces(g, k)
    PROVE  Waiting(k) /\ Echo(g, k)
  BY DEF Waiting, Echo, SamePlaces, Chains

LEMMA PlayUrlNowQuiet ==
    ASSUME NEW g \in GateState, Waiting(g), NEW u \in Url
    PROVE  Waiting(playUrlNow(g, u)) /\ Echo(g, playUrlNow(g, u))
  <1> DEFINE k == [g EXCEPT !.musicEpoch = @ + 1]
             t == NewTask(g, "music", g.musicEpoch + 1, u)
  <1>1. g.musicEpoch + 1 \in Nat
    BY DEF GateState
  <1>2. k \in GateState /\ SamePlaces(g, k)
    BY <1>1, Zenon DEF GateState, SamePlaces
  <1>3. t \in Task /\ t.phase = "queued"
    BY <1>1, NewTaskFact DEF Kind, NewTask
  <1>4. playUrlNow(g, u) = enqueueTask(k, t)
    BY Zenon DEF playUrlNow
  <1> HIDE DEF k, t
  <1>5. Waiting(enqueueTask(k, t)) /\ Echo(k, enqueueTask(k, t))
    BY <1>2, <1>3, SamePlacesQuiet, AppendQuiet
  <1>6. Echo(g, enqueueTask(k, t))
    BY <1>2, <1>5 DEF Echo, SamePlaces, Chains
  <1> QED BY <1>4, <1>5, <1>6

LEMMA QuietInit == Init => Waiting(gate)
  BY DEF Init, InitGate, Waiting, Chains, Behind

LEMMA QuietNext ==
    GateInv(gate) /\ Waiting(gate) /\ [Next]_vars
        => Waiting(gate)' /\ Heeds(gate, gate')
  <1> SUFFICES ASSUME GateInv(gate), Waiting(gate), [Next]_vars
               PROVE  Waiting(gate') /\ Heeds(gate, gate')
    BY DEF Waiting, Chains, Behind
  <1>0. \A k : Echo(gate, k) => Heeds(gate, k)
    BY DEF Echo, Heeds
  <1>1. gate \in GateState /\ gate.dialogEpoch \in Nat /\ 0..gate.dialogEpoch \subseteq Nat
    BY DEF GateInv, GateState
  <1>2. CASE \/ BeginAnswer \/ NewDialog \/ StopMusic \/ PauseMusicForAnswer \/ Probe
    <2>1. SamePlaces(gate, gate')
      BY <1>1, <1>2, FlagsSame
         DEF BeginAnswer, NewDialog, StopMusic, PauseMusicForAnswer, Probe
    <2> QED BY <1>0, <2>1, SamePlacesQuiet
  <1>3. CASE PlayUrlNow
    BY <1>0, <1>1, <1>3, PlayUrlNowQuiet DEF PlayUrlNow
  <1>4. CASE EnqueueChunk \/ EnqueuePlay \/ EnqueueWakeUp
    <2>1. PICK e \in Nat, kind \in TextKind :
             LET t == NewTask(gate, kind, e, NoUrl)
             IN gate' = enqueueTask(gate, t) \/ gate' = chainOrDelay(gate, t)
      BY <1>1, <1>4 DEF EnqueueChunk, EnqueuePlay, EnqueueWakeUp, enqueueChunk, enqueuePlay,
                        enqueueWakeUp, TextKind
    <2>2. kind \in Kind
      BY DEF Kind
    <2>3. NewTask(gate, kind, e, NoUrl).phase = "queued"
      BY DEF NewTask
    <2> QED BY <1>0, <1>1, <2>1, <2>2, <2>3, NewTaskFact, AppendQuiet
  <1>5. CASE EndAnswer
    BY <1>0, <1>1, <1>5, EndAnswerQuiet DEF EndAnswer
  <1>6. CASE FlushPlayQueue
    BY <1>0, <1>1, <1>6, FlushQuiet DEF FlushPlayQueue
  <1>7. CASE Start
    BY <1>1, <1>7, StartTaskQuiet DEF Start, Startable
  <1>8. CASE Return
    BY <1>8, CallReturnedQuiet DEF Return, Awaiting
  <1>9. CASE Fail
    BY <1>1, <1>9, SettleQuiet DEF Fail, Awaiting, CallFailed
  <1>10. CASE UNCHANGED vars
    BY <1>0, <1>10, SamePlacesQuiet DEF vars, SamePlaces
  <1> QED BY <1>2, <1>3, <1>4, <1>5, <1>6, <1>7, <1>8, <1>9, <1>10 DEF Next, Client

(* "Shut up" is final: no step makes audible what a flush left behind      *)
(* (speaker-gate.ts:274-288), which rests on every task being in one place *)
(* and on all that was abandoned being past.                               *)
THEOREM FlushFinal == Spec => FlushIsFinal
  <1>0. GateInv(gate) => gate \in GateState
    BY DEF GateInv
  <1>1. GateInv(gate) /\ Once(gate) /\ Waiting(gate) /\ [Next]_vars
           => [IdsOf(gate.abandoned) \cap Sounding(gate') \subseteq Sounding(gate)]_vars
    BY <1>0, QuietNext, SilentFact
  <1>2. GateInv(gate) /\ Waiting(gate) /\ [Next]_vars => Waiting(gate)'
    BY QuietNext
  <1> QED BY <1>1, <1>2, QuietInit, Invariant, OnceAlways, PTL DEF Spec, FlushIsFinal

-----------------------------------------------------------------------------
(* Order of arrival.  Numbers are given out in order, so a task that comes *)
(* last has the highest; only the barrier could let it past the others.    *)

Outside(t) == t.kind \in OutsideKind

Ordered(s) ==
    \A i, j \in DOMAIN s :
        i < j /\ Outside(s[i]) /\ Outside(s[j]) => s[i].id < s[j].id

Before(s, t) ==
    \A i \in DOMAIN s, j \in DOMAIN t :
        Outside(s[i]) /\ Outside(t[j]) => s[i].id < t[j].id

InLine(g) ==
    /\ Ordered(g.playChain) /\ Ordered(g.pendingAfterAnswer)
    /\ Before(g.playChain, g.pendingAfterAnswer)

LEMMA OrderedConcat ==
    ASSUME NEW s \in Seq(Task), NEW t \in Seq(Task)
    PROVE  Ordered(s) /\ Ordered(t) /\ Before(s, t) => Ordered(s \o t)
  <1> DEFINE a == s \o t
  <1>1. /\ DOMAIN a = 1..(Len(s) + Len(t)) /\ DOMAIN s = 1..Len(s) /\ Len(s) \in Nat
        /\ DOMAIN t = 1..Len(t) /\ Len(t) \in Nat
        /\ \A i \in DOMAIN s : a[i] = s[i]
        /\ \A i \in DOMAIN t : a[Len(s) + i] = t[i]
    OBVIOUS
  <1> HIDE DEF a
  <1>2. \A i \in DOMAIN a : \/ i \in DOMAIN s /\ a[i] = s[i]
                            \/ /\ i \notin DOMAIN s /\ i - Len(s) \in DOMAIN t
                               /\ a[i] = t[i - Len(s)]
    <2> SUFFICES ASSUME NEW i \in DOMAIN a, i \notin DOMAIN s
                 PROVE  i - Len(s) \in DOMAIN t /\ a[i] = t[i - Len(s)]
      BY <1>1
    <2>1. i - Len(s) \in DOMAIN t /\ i = Len(s) + (i - Len(s))
      BY <1>1
    <2> QED BY <1>1, <2>1
  <1>3. ASSUME Ordered(s), Ordered(t), Before(s, t) PROVE Ordered(a)
    <2> SUFFICES ASSUME NEW i \in DOMAIN a, NEW j \in DOMAIN a, i < j,
                        Outside(a[i]), Outside(a[j])
                 PROVE  a[i].id < a[j].id
      BY DEF Ordered
    <2>1. CASE i \in DOMAIN s /\ j \in DOMAIN s
      BY <1>2, <1>3, <2>1 DEF Ordered
    <2>2. CASE i \in DOMAIN s /\ j \notin DOMAIN s
      BY <1>2, <1>3, <2>2 DEF Before
    <2>3. CASE i \notin DOMAIN s /\ j \in DOMAIN s
      BY <1>1, <2>3
    <2>4. CASE i \notin DOMAIN s /\ j \notin DOMAIN s
      <3>1. i - Len(s) < j - Len(s)
        BY <1>1
      <3> QED BY <1>2, <1>3, <2>4, <3>1 DEF Ordered
    <2> QED BY <2>1, <2>2, <2>3, <2>4
  <1> QED BY <1>3 DEF a

LEMMA OrderedAppend ==
    ASSUME NEW s \in Seq(Task), NEW t \in Task, Ordered(s),
           Outside(t) => \A i \in DOMAIN s : s[i].id < t.id
    PROVE  Ordered(Append(s, t))
  <1> DEFINE a == Append(s, t)
  <1>1. /\ DOMAIN a = 1..(Len(s) + 1) /\ DOMAIN s = 1..Len(s) /\ Len(s) \in Nat
        /\ \A i \in DOMAIN s : a[i] = s[i]
        /\ a[Len(s) + 1] = t
    OBVIOUS
  <1> HIDE DEF a
  <1> SUFFICES ASSUME NEW i \in DOMAIN a, NEW j \in DOMAIN a, i < j,
                      Outside(a[i]), Outside(a[j])
               PROVE  a[i].id < a[j].id
    BY DEF Ordered, a
  <1>2. i \in DOMAIN s /\ (j \in DOMAIN s \/ j = Len(s) + 1)
    BY <1>1
  <1>3. CASE j \in DOMAIN s
    BY <1>1, <1>2, <1>3 DEF Ordered
  <1>4. CASE j = Len(s) + 1
    BY <1>1, <1>2, <1>4
  <1> QED BY <1>2, <1>3, <1>4

LEMMA NumbersBelow ==
    ASSUME NEW g \in GateState, Once(g)
    PROVE  /\ \A i \in DOMAIN g.playChain : g.playChain[i].id < g.nextTask
           /\ \A i \in DOMAIN g.pendingAfterAnswer : g.pendingAfterAnswer[i].id < g.nextTask
  <1>1. \A x \in 1..(g.nextTask - 1) : x < g.nextTask
    BY DEF GateState
  <1>2. \A i \in DOMAIN g.playChain : g.playChain[i].id \in 1..(g.nextTask - 1)
    BY DEF Once, Chains, IdsOf, Ids
  <1>3. \A i \in DOMAIN g.pendingAfterAnswer :
           g.pendingAfterAnswer[i].id \in 1..(g.nextTask - 1)
    BY DEF Once, Ids
  <1> QED BY <1>1, <1>2, <1>3

(* A chunk or a song goes to the chain whatever waits; an announcement     *)
(* only when nothing does.                                                 *)
LEMMA AppendInLine ==
    ASSUME NEW g \in GateState, Once(g), InLine(g), NEW t \in Task, t.id = g.nextTask,
           Outside(t) => g.pendingAfterAnswer = <<>>
    PROVE  InLine(enqueueTask(g, t))
  <1> DEFINE k == enqueueTask(g, t)
             d == Append(g.playChain, t)
  <1>1. k.playChain = d /\ k.pendingAfterAnswer = g.pendingAfterAnswer
    BY Zenon DEF enqueueTask, GateState
  <1>2. g.playChain \in Seq(Task)
    BY DEF GateState
  <1>3. Ordered(d)
    BY <1>2, NumbersBelow, OrderedAppend DEF InLine
  <1>4. \A i \in DOMAIN d : \/ i \in DOMAIN g.playChain /\ d[i] = g.playChain[i]
                            \/ d[i] = t
    BY <1>2, AppendFact
  <1> HIDE DEF k, d
  <1>5. Before(d, g.pendingAfterAnswer)
    BY <1>4 DEF Before, InLine
  <1>6. InLine(k)
    BY <1>1, <1>3, <1>5 DEF InLine
  <1> QED BY <1>6 DEF k

LEMMA DelayInLine ==
    ASSUME NEW g, GateInv(g), Once(g), InLine(g), NEW t \in Task, t.id = g.nextTask
    PROVE  InLine(chainOrDelay(g, t))
  <1>1. g \in GateState
    BY DEF GateInv
  <1>2. CASE ~g.answerActive
    <2>1. g.pendingAfterAnswer = <<>>
      BY <1>2 DEF GateInv
    <2>2. chainOrDelay(g, t) = enqueueTask(g, t)
      BY <1>2, Zenon DEF chainOrDelay
    <2> QED BY <1>1, <2>1, <2>2, AppendInLine
  <1>3. CASE g.answerActive
    <2> DEFINE k == [g EXCEPT !.pendingAfterAnswer = Append(@, t), !.nextTask = @ + 1]
               d == Append(g.pendingAfterAnswer, t)
    <2>1. k.playChain = g.playChain /\ k.pendingAfterAnswer = d
      BY <1>1, Zenon DEF GateState
    <2>2. chainOrDelay(g, t) = k
      BY <1>3, Zenon DEF chainOrDelay
    <2>3. g.pendingAfterAnswer \in Seq(Task)
      BY <1>1 DEF GateState
    <2>4. Ordered(d)
      BY <1>1, <2>3, NumbersBelow, OrderedAppend DEF InLine
    <2>5. \A i \in DOMAIN d :
             \/ i \in DOMAIN g.pendingAfterAnswer /\ d[i] = g.pendingAfterAnswer[i]
             \/ d[i] = t
      BY <2>3, AppendFact
    <2> HIDE DEF k, d
    <2>6. Before(g.playChain, d)
      BY <1>1, <2>5, NumbersBelow DEF Before, InLine
    <2>7. InLine(k)
      BY <2>1, <2>4, <2>6 DEF InLine
    <2> QED BY <2>2, <2>7
  <1> QED BY <1>2, <1>3

LEMMA EmptyInLine ==
    /\ Ordered(<<>>)
    /\ \A s : Before(s, <<>>) /\ Before(<<>>, s)
  BY DEF Ordered, Before

LEMMA EndAnswerInLine ==
    ASSUME NEW g \in GateState, InLine(g)  PROVE InLine(endAnswer(g))
  <1> DEFINE k == endAnswer(g)
             d == g.playChain \o g.pendingAfterAnswer
  <1>1. k.playChain = d /\ k.pendingAfterAnswer = <<>>
    BY Zenon DEF endAnswer, GateState
  <1>2. g.playChain \in Seq(Task) /\ g.pendingAfterAnswer \in Seq(Task)
    BY DEF GateState
  <1>3. Ordered(d)
    BY <1>2, OrderedConcat DEF InLine
  <1> HIDE DEF k, d
  <1>4. InLine(k)
    BY <1>1, <1>3, EmptyInLine DEF InLine
  <1> QED BY <1>4 DEF k

LEMMA FlushInLine ==
    ASSUME NEW g \in GateState  PROVE InLine(flushPlayQueue(g))
  BY FlushFields, EmptyInLine DEF InLine

(* What was at i in d was at a place in c, and places keep their order. *)
LEMMA ReplaceInLine ==
    ASSUME NEW g \in GateState, InLine(g), NEW c \in Chains(g), NEW d,
           Ordered(c) => Ordered(d),
           \A t : Before(c, t) => Before(d, t),
           NEW k, LET r == ReplaceChain(g, c, d) IN
                     /\ k.playChain = r.playChain
                     /\ k.pendingAfterAnswer = r.pendingAfterAnswer
    PROVE  InLine(k)
  <1>1. CASE c = g.playChain
    <2>1. k.playChain = d /\ k.pendingAfterAnswer = g.pendingAfterAnswer
      BY <1>1, Zenon DEF ReplaceChain, GateState
    <2> QED BY <1>1, <2>1 DEF InLine
  <1>2. CASE c # g.playChain
    <2>1. k.playChain = g.playChain /\ k.pendingAfterAnswer = g.pendingAfterAnswer
      BY <1>2, Zenon DEF ReplaceChain, GateState
    <2> QED BY <2>1 DEF InLine
  <1> QED BY <1>1, <1>2

LEMMA SettleInLine ==
    ASSUME NEW g \in GateState, InLine(g), NEW c \in Chains(g), c # <<>>
    PROVE  /\ InLine(Settle(g, c))
           /\ \A u : InLine([Settle(g, c) EXCEPT !.lastMusicUrl = u, !.musicActive = TRUE])
  <1> DEFINE d == Tail(c)
             r == ReplaceChain(g, c, d)
             k == Settle(g, c)
             l(u) == [k EXCEPT !.lastMusicUrl = u, !.musicActive = TRUE]
  <1>1. c \in Seq(Task)
    BY TasksTyped DEF Chains
  <1>2. /\ DOMAIN d \subseteq Int
        /\ \A i \in DOMAIN d : i + 1 \in DOMAIN c /\ d[i] = c[i + 1]
    BY <1>1
  <1>3. /\ k.playChain = r.playChain /\ k.pendingAfterAnswer = r.pendingAfterAnswer
        /\ \A u : /\ l(u).playChain = r.playChain
                  /\ l(u).pendingAfterAnswer = r.pendingAfterAnswer
    <2>1. CASE c = g.playChain
      BY <2>1, Zenon DEF Settle, ReplaceChain, GateState
    <2>2. CASE c # g.playChain
      BY <2>2, Zenon DEF Settle, ReplaceChain, GateState
    <2> QED BY <2>1, <2>2
  <1> HIDE DEF k, l, d
  <1>4. Ordered(c) => Ordered(d)
    <2>1. \A i, j \in DOMAIN d : i < j => i + 1 < j + 1
      BY <1>2
    <2> QED BY <1>2, <2>1 DEF Ordered
  <1>5. \A t : Before(c, t) => Before(d, t)
    BY <1>2 DEF Before
  <1>6. InLine(k) /\ \A u : InLine(l(u))
    BY <1>3, <1>4, <1>5, ReplaceInLine
  <1> QED BY <1>6 DEF k, l

LEMMA SetPhaseInLine ==
    ASSUME NEW g \in GateState, InLine(g), NEW c \in Chains(g), c # <<>>, NEW p \in Phase
    PROVE  InLine(SetPhase(g, c, p))
  <1> DEFINE u == [Head(c) EXCEPT !.phase = p]
             d == [c EXCEPT ![1] = u]
             k == ReplaceChain(g, c, d)
  <1>1. c \in Seq(Task)
    BY TasksTyped DEF Chains
  <1>2. 1 \in DOMAIN c /\ Head(c) = c[1] /\ c[1] \in Task
    BY <1>1, TailFact
  <1>3. u \in Task /\ u.id = c[1].id /\ u.kind = c[1].kind
    BY <1>2, PhaseFact
  <1> HIDE DEF u
  <1>4. /\ DOMAIN d = DOMAIN c /\ d[1] = u
        /\ \A i \in DOMAIN c : i # 1 => d[i] = c[i]
    BY <1>1, <1>3, HeadFact
  <1>5. SetPhase(g, c, p) = k
    BY Zenon DEF SetPhase, u
  <1> HIDE DEF d
  <1>6. \A i \in DOMAIN c : d[i].id = c[i].id /\ (Outside(d[i]) <=> Outside(c[i]))
    BY <1>3, <1>4 DEF Outside
  <1>7. Ordered(c) => Ordered(d)
    BY <1>4, <1>6 DEF Ordered
  <1>8. \A t : Before(c, t) => Before(d, t)
    BY <1>4, <1>6 DEF Before
  <1>9. InLine(k)
    BY <1>7, <1>8, ReplaceInLine
  <1> QED BY <1>5, <1>9

LEMMA StartTaskInLine ==
    ASSUME NEW g \in GateState, InLine(g), NEW c \in Chains(g), c # <<>>
    PROVE  InLine(StartTask(g, c))
  <1>1. FirstPhase(Head(c).kind) \in Phase
    BY DEF FirstPhase, Phase
  <1> QED BY <1>1, SettleInLine, SetPhaseInLine DEF StartTask

LEMMA CallReturnedInLine ==
    ASSUME NEW g \in GateState, InLine(g), NEW c \in Chains(g), c # <<>>
    PROVE  InLine(CallReturned(g, c))
  <1>1. "killing" \in Phase /\ "launching" \in Phase
    BY DEF Phase
  <1>2. CASE Head(c).phase = "stopping"
    BY <1>1, <1>2, SetPhaseInLine DEF CallReturned
  <1>3. CASE Head(c).phase = "killing" /\ ~Expired(g, Head(c))
    BY <1>1, <1>3, SetPhaseInLine DEF CallReturned
  <1>4. CASE Head(c).phase = "launching"
    BY <1>4, SettleInLine DEF CallReturned
  <1>5. CASE /\ Head(c).phase # "stopping"
             /\ ~(Head(c).phase = "killing" /\ ~Expired(g, Head(c)))
             /\ Head(c).phase # "launching"
    BY <1>5, SettleInLine DEF CallReturned
  <1> QED BY <1>2, <1>3, <1>4, <1>5

LEMMA PlayUrlNowInLine ==
    ASSUME NEW g \in GateState, Once(g), InLine(g), NEW u \in Url
    PROVE  InLine(playUrlNow(g, u))
  <1> DEFINE k == [g EXCEPT !.musicEpoch = @ + 1]
             t == NewTask(g, "music", g.musicEpoch + 1, u)
  <1>1. g.musicEpoch + 1 \in Nat
    BY DEF GateState
  <1>2. k \in GateState /\ SamePlaces(g, k)
    BY <1>1, Zenon DEF GateState, SamePlaces
  <1>3. t \in Task /\ t.id = g.nextTask /\ t.kind = "music"
    BY <1>1, NewTaskFact DEF Kind
  <1>4. playUrlNow(g, u) = enqueueTask(k, t)
    BY Zenon DEF playUrlNow
  <1> HIDE DEF k, t
  <1>5. Once(k) /\ InLine(k) /\ t.id = k.nextTask
    BY <1>2, <1>3, SamePlacesOnce DEF InLine, SamePlaces
  <1> QED BY <1>2, <1>3, <1>4, <1>5, AppendInLine DEF Outside, OutsideKind

LEMMA InLineNext ==
    GateInv(gate) /\ Once(gate) /\ InLine(gate) /\ [Next]_vars => InLine(gate)'
  <1> SUFFICES ASSUME GateInv(gate), Once(gate), InLine(gate), [Next]_vars
               PROVE  InLine(gate')
    BY DEF InLine, Ordered, Before, Outside
  <1>1. gate \in GateState /\ gate.dialogEpoch \in Nat /\ 0..gate.dialogEpoch \subseteq Nat
    BY DEF GateInv, GateState
  <1>2. CASE \/ BeginAnswer \/ NewDialog \/ StopMusic \/ PauseMusicForAnswer \/ Probe
    <2>1. SamePlaces(gate, gate')
      BY <1>1, <1>2, FlagsSame
         DEF BeginAnswer, NewDialog, StopMusic, PauseMusicForAnswer, Probe
    <2> QED BY <2>1 DEF SamePlaces, InLine
  <1>3. CASE PlayUrlNow
    BY <1>1, <1>3, PlayUrlNowInLine DEF PlayUrlNow
  <1>4. CASE EnqueueChunk
    <2>1. PICK e \in 0..gate.dialogEpoch : gate' = enqueueTask(gate, NewTask(gate, "chunk", e, NoUrl))
      BY <1>4 DEF EnqueueChunk, enqueueChunk
    <2>2. LET t == NewTask(gate, "chunk", e, NoUrl)
          IN t \in Task /\ t.id = gate.nextTask /\ t.kind = "chunk"
      BY <1>1, NewTaskFact DEF Kind, TextKind
    <2> QED BY <1>1, <2>1, <2>2, AppendInLine DEF Outside, OutsideKind
  <1>5. CASE EnqueuePlay \/ EnqueueWakeUp
    <2>1. PICK e \in 0..gate.dialogEpoch, kind \in OutsideKind :
             gate' = chainOrDelay(gate, NewTask(gate, kind, e, NoUrl))
      BY <1>5 DEF EnqueuePlay, EnqueueWakeUp, enqueuePlay, enqueueWakeUp, OutsideKind
    <2>2. kind \in Kind
      BY DEF Kind, TextKind, OutsideKind
    <2>3. LET t == NewTask(gate, kind, e, NoUrl) IN t \in Task /\ t.id = gate.nextTask
      BY <1>1, <2>2, NewTaskFact
    <2> QED BY <2>1, <2>3, DelayInLine
  <1>6. CASE EndAnswer
    BY <1>1, <1>6, EndAnswerInLine DEF EndAnswer
  <1>7. CASE FlushPlayQueue
    BY <1>1, <1>7, FlushInLine DEF FlushPlayQueue
  <1>8. CASE Start
    BY <1>1, <1>8, StartTaskInLine DEF Start, Startable
  <1>9. CASE Return
    BY <1>1, <1>9, CallReturnedInLine DEF Return, Awaiting
  <1>10. CASE Fail
    BY <1>1, <1>10, SettleInLine DEF Fail, Awaiting, CallFailed
  <1>11. CASE UNCHANGED vars
    BY <1>11 DEF vars
  <1> QED BY <1>2, <1>3, <1>4, <1>5, <1>6, <1>7, <1>8, <1>9, <1>10, <1>11
          DEF Next, Client

(* Announcements keep their order of arrival, whether or not an answer     *)
(* held some of them back (speaker-gate.ts:6, 84-97).                      *)
THEOREM ArrivalOrder == Spec => []OutsideInOrder
  <1>1. Init => InLine(gate)
    BY EmptyInLine DEF Init, InitGate, InLine
  <1>2. GateInv(gate) /\ InLine(gate) => OutsideInOrder
    <2> SUFFICES ASSUME GateInv(gate), InLine(gate) PROVE OutsideInOrder
      OBVIOUS
    <2>1. gate.playChain \in Seq(Task) /\ gate.pendingAfterAnswer \in Seq(Task)
      BY DEF GateInv, GateState
    <2>2. Ordered(gate.playChain \o gate.pendingAfterAnswer)
      BY <2>1, OrderedConcat DEF InLine
    <2> QED BY <2>2, Zenon DEF Ordered, Outside, OutsideInOrder
  <1>3. GateInv(gate) /\ Once(gate) /\ InLine(gate) /\ [Next]_vars => InLine(gate)'
    BY InLineNext
  <1> QED BY <1>1, <1>2, <1>3, Invariant, OnceAlways, PTL DEF Spec
=============================================================================
