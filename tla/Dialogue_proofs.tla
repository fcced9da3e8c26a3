-------------------------- MODULE Dialogue_proofs --------------------------
(***************************************************************************)
(* What holds of the handlers of migpt for every number of sentences,      *)
(* pushes, songs and chunks, however they overlap.  The lemmas of          *)
(* SpeakerGate_proofs about the operators of the gate serve here again: a  *)
(* handler composes several of them in one step, so these steps are not    *)
(* steps of SpeakerGate's own Next.                                        *)
(***************************************************************************)
EXTENDS Dialogue, SpeakerGate_proofs

(* What every call of a handler but beginAnswer does to a sound gate: it   *)
(* stays sound, the dialog epoch does not go back, no barrier goes up.     *)
Follows(g, k) ==
    /\ GateInv(k)
    /\ g.dialogEpoch <= k.dialogEpoch
    /\ k.answerActive => g.answerActive

DTypes ==
    /\ lastMsg \in Msg \cup {NoMsg}
    /\ h \in [Proc -> Handler]

(* A handler holds no epoch that was not given out yet: without this a     *)
(* chunk it enqueues could outlive a flush.                                *)
EpochsKnown == \A p \in Proc : h[p].epoch <= gate.dialogEpoch

DInv == GateInv(gate) /\ DTypes /\ EpochsKnown /\ BarrierHasOwner

AnswerPC == {"streaming", "chunk"}

-----------------------------------------------------------------------------
(* The operators of the gate.                                              *)

LEMMA GateNumbers ==
    ASSUME NEW g, GateInv(g)
    PROVE  /\ g \in GateState
           /\ g.dialogEpoch \in Nat /\ g.musicEpoch \in Nat
           /\ g.nextTask \in Nat /\ g.answerActive \in BOOLEAN
           /\ g.lastMusicUrl \in Url \cup {NoUrl}
  BY DEF GateInv, GateState

LEMMA FollowsTrans ==
    ASSUME NEW g, NEW k, NEW m, GateInv(g), Follows(g, k), Follows(k, m)
    PROVE  Follows(g, m)
  <1>1. GateInv(k) /\ GateInv(m)
    BY DEF Follows
  <1> QED BY <1>1, GateNumbers DEF Follows

LEMMA NewDialogFollows ==
    ASSUME NEW g, GateInv(g)
    PROVE  Follows(g, newDialog(g)) /\ newDialog(g).dialogEpoch = g.dialogEpoch + 1
  <1>1. GateInv(newDialog(g)) /\ newDialog(g).dialogEpoch = g.dialogEpoch + 1
    BY NewDialogInv
  <1>2. g \in GateState /\ g.dialogEpoch \in Nat
    BY GateNumbers
  <1>3. newDialog(g).answerActive = g.answerActive
    BY <1>2, Zenon DEF newDialog, GateState
  <1> QED BY <1>1, <1>2, <1>3 DEF Follows

LEMMA BeginAnswerFields ==
    ASSUME NEW g, GateInv(g)
    PROVE  GateInv(beginAnswer(g)) /\ beginAnswer(g).dialogEpoch = g.dialogEpoch
  <1>1. g \in GateState
    BY GateNumbers
  <1>2. beginAnswer(g).dialogEpoch = g.dialogEpoch
    BY <1>1, Zenon DEF beginAnswer, GateState
  <1> QED BY <1>2, BeginAnswerInv

LEMMA StopMusicFollows ==
    ASSUME NEW g, GateInv(g)
    PROVE  /\ Follows(g, stopMusic(g))
           /\ stopMusic(g).answerActive = g.answerActive
  <1>1. g \in GateState /\ g.dialogEpoch \in Nat
    BY GateNumbers
  <1>2. stopMusic(g).answerActive = g.answerActive
    BY <1>1, Zenon DEF stopMusic, GateState
  <1> QED BY <1>1, <1>2, StopMusicFields, StopMusicInv DEF Follows

LEMMA PauseMusicFollows ==
    ASSUME NEW g, GateInv(g)  PROVE Follows(g, pauseMusicForAnswer(g))
  <1>1. g \in GateState /\ g.dialogEpoch \in Nat
    BY GateNumbers
  <1>2. /\ pauseMusicForAnswer(g).answerActive = g.answerActive
        /\ pauseMusicForAnswer(g).dialogEpoch = g.dialogEpoch
    BY <1>1, Zenon DEF pauseMusicForAnswer, GateState
  <1> QED BY <1>1, <1>2, PauseMusicInv DEF Follows

LEMMA EndAnswerFollows ==
    ASSUME NEW g, GateInv(g)
    PROVE  Follows(g, endAnswer(g)) /\ ~endAnswer(g).answerActive
  <1>1. g \in GateState /\ g.dialogEpoch \in Nat
    BY GateNumbers
  <1>2. ~endAnswer(g).answerActive /\ endAnswer(g).dialogEpoch = g.dialogEpoch
    BY <1>1, Zenon DEF endAnswer, GateState
  <1> QED BY <1>1, <1>2, EndAnswerInv DEF Follows

LEMMA FlushFollows ==
    ASSUME NEW g, GateInv(g)
    PROVE  /\ Follows(g, flushPlayQueue(g))
           /\ ~flushPlayQueue(g).answerActive
  <1> DEFINE k == [g EXCEPT !.dialogEpoch = @ + 1,
                            !.abandoned = (@ \cup {g.playChain}) \ {<<>>},
                            !.playChain = <<>>,
                            !.answerActive = FALSE,
                            !.settled = @ \cup Ids(g.pendingAfterAnswer),
                            !.pendingAfterAnswer = <<>>]
  <1>1. g \in GateState /\ g.dialogEpoch \in Nat
    BY GateNumbers
  <1>2. flushPlayQueue(g) = [k EXCEPT !.musicEpoch = @ + 1, !.musicActive = FALSE,
                                      !.lastMusicUrl = NoUrl]
    BY Zenon DEF flushPlayQueue, stopMusic
  <1>3. ~flushPlayQueue(g).answerActive
    BY <1>1, <1>2, Zenon DEF GateState
  <1>4. flushPlayQueue(g).dialogEpoch = g.dialogEpoch + 1
    BY <1>1, FlushFields
  <1> QED BY <1>1, <1>3, <1>4, FlushInv DEF Follows

LEMMA EnqueueFields ==
    ASSUME NEW g \in GateState, NEW t
    PROVE  /\ enqueueTask(g, t).answerActive = g.answerActive
           /\ enqueueTask(g, t).dialogEpoch = g.dialogEpoch
           /\ chainOrDelay(g, t).answerActive = g.answerActive
           /\ chainOrDelay(g, t).dialogEpoch = g.dialogEpoch
  <1>1. /\ enqueueTask(g, t).answerActive = g.answerActive
        /\ enqueueTask(g, t).dialogEpoch = g.dialogEpoch
    BY Zenon DEF enqueueTask, GateState
  <1>2. CASE g.answerActive
    BY <1>1, <1>2, Zenon DEF chainOrDelay, GateState
  <1>3. CASE ~g.answerActive
    BY <1>1, <1>3, Zenon DEF chainOrDelay
  <1> QED BY <1>1, <1>2, <1>3

LEMMA EnqueueTextFollows ==
    ASSUME NEW g, GateInv(g), NEW e \in 0..g.dialogEpoch
    PROVE  /\ Follows(g, enqueueChunk(g, e))
           /\ Follows(g, enqueuePlay(g, e))
           /\ Follows(g, enqueueWakeUp(g, e))
  <1>1. g \in GateState /\ g.dialogEpoch \in Nat
    BY GateNumbers
  <1>2. GateInv(enqueueChunk(g, e)) /\ GateInv(enqueuePlay(g, e)) /\ GateInv(enqueueWakeUp(g, e))
    BY EnqueueTextInv
  <1>3. Follows(g, enqueueChunk(g, e))
    BY <1>1, <1>2, EnqueueFields DEF enqueueChunk, Follows
  <1>4. Follows(g, enqueuePlay(g, e))
    BY <1>1, <1>2, EnqueueFields DEF enqueuePlay, Follows
  <1>5. Follows(g, enqueueWakeUp(g, e))
    BY <1>1, <1>2, EnqueueFields DEF enqueueWakeUp, Follows
  <1> QED BY <1>3, <1>4, <1>5

LEMMA ResumeMusicFollows ==
    ASSUME NEW g, GateInv(g), NEW u \in Url \cup {NoUrl}
    PROVE  Follows(g, resumeMusic(g, u))
  <1>1. g \in GateState /\ g.dialogEpoch \in Nat
    BY GateNumbers
  <1>2. CASE u = NoUrl
    BY <1>1, <1>2 DEF resumeMusic, Follows
  <1>3. CASE u # NoUrl
    <2> DEFINE k == [g EXCEPT !.musicEpoch = @ + 1]
               t == NewTask(g, "music", g.musicEpoch + 1, u)
    <2>1. resumeMusic(g, u) = playUrlNow(g, u) /\ u \in Url
      BY <1>3 DEF resumeMusic
    <2>2. playUrlNow(g, u) = enqueueTask(k, t)
      BY Zenon DEF playUrlNow
    <2>3. g.musicEpoch + 1 \in Nat
      BY GateNumbers
    <2>4. /\ k \in GateState /\ k.answerActive = g.answerActive
          /\ k.dialogEpoch = g.dialogEpoch
      BY <1>1, <2>3, Zenon DEF GateState
    <2> HIDE DEF k, t
    <2>5. /\ playUrlNow(g, u).answerActive = g.answerActive
          /\ playUrlNow(g, u).dialogEpoch = g.dialogEpoch
      BY <2>2, <2>4, EnqueueFields
    <2> QED BY <1>1, <2>1, <2>5, PlayUrlNowInv DEF Follows
  <1> QED BY <1>2, <1>3

(* The end of an answer, whatever the gate was before: the barrier is down.*)
LEMMA Ended ==
    ASSUME NEW g, GateInv(g), NEW u \in Url \cup {NoUrl}
    PROVE  /\ Follows(g, endAnswer(g)) /\ ~endAnswer(g).answerActive
           /\ Follows(g, resumeMusic(endAnswer(g), u))
           /\ ~resumeMusic(endAnswer(g), u).answerActive
  <1>1. Follows(g, endAnswer(g)) /\ ~endAnswer(g).answerActive
    BY EndAnswerFollows
  <1>2. GateInv(endAnswer(g))
    BY <1>1 DEF Follows
  <1>3. Follows(endAnswer(g), resumeMusic(endAnswer(g), u))
    BY <1>2, ResumeMusicFollows
  <1>4. Follows(g, resumeMusic(endAnswer(g), u))
    BY <1>1, <1>3, FollowsTrans
  <1> QED BY <1>1, <1>3, <1>4 DEF Follows

-----------------------------------------------------------------------------
(* The steps of the chains touch neither the barrier nor the dialog.       *)

SameFlags(g, k) ==
    k.answerActive = g.answerActive /\ k.dialogEpoch = g.dialogEpoch

LEMMA ReplaceChainFlags ==
    ASSUME NEW g \in GateState, NEW c, NEW d
    PROVE  SameFlags(g, ReplaceChain(g, c, d))
  <1>1. CASE c = g.playChain
    BY <1>1, Zenon DEF ReplaceChain, GateState, SameFlags
  <1>2. CASE c # g.playChain
    BY <1>2, Zenon DEF ReplaceChain, GateState, SameFlags
  <1> QED BY <1>1, <1>2

LEMMA SettleFlags ==
    ASSUME NEW g, GateInv(g), NEW c \in Chains(g), c # <<>>
    PROVE  SameFlags(g, Settle(g, c))
  <1> DEFINE r == ReplaceChain(g, c, Tail(c))
  <1>1. g \in GateState /\ c \in Seq(Task)
    BY GateNumbers, TasksTyped DEF Chains
  <1>2. Tail(c) \in Seq(Task) /\ Within(Tail(c), c)
    BY <1>1, TailFact DEF Within
  <1>3. r \in GateState
    BY <1>2, ReplaceChainInv DEF GateInv
  <1>4. SameFlags(g, r)
    BY <1>1, ReplaceChainFlags
  <1>5. Settle(g, c) = [r EXCEPT !.settled = @ \cup {Head(c).id}]
    BY Zenon DEF Settle
  <1> HIDE DEF r
  <1>6. SameFlags(r, Settle(g, c))
    BY <1>3, <1>5, Zenon DEF GateState, SameFlags
  <1> QED BY <1>4, <1>6 DEF SameFlags

LEMMA ChainSameFlags ==
    ASSUME NEW g, GateInv(g), NEW c \in Chains(g), c # <<>>
    PROVE  SameFlags(g, StartTask(g, c)) /\ SameFlags(g, CallReturned(g, c))
  <1>1. g \in GateState /\ g.dialogEpoch \in Nat
    BY GateNumbers
  <1>2. SameFlags(g, Settle(g, c))
    BY SettleFlags
  <1>3. \A p : SameFlags(g, SetPhase(g, c, p))
    BY <1>1, ReplaceChainFlags, Zenon DEF SetPhase
  <1>4. SameFlags(g, StartTask(g, c))
    BY <1>2, <1>3, Zenon DEF StartTask
  <1>5. Settle(g, c) \in GateState
    BY SettleInv DEF GateInv
  <1>6. \A u : SameFlags(Settle(g, c), [Settle(g, c) EXCEPT !.lastMusicUrl = u,
                                                           !.musicActive = TRUE])
    BY <1>5, Zenon DEF GateState, SameFlags
  <1>7. \A u : SameFlags(g, [Settle(g, c) EXCEPT !.lastMusicUrl = u,
                                                 !.musicActive = TRUE])
    BY <1>2, <1>6 DEF SameFlags
  <1>8. SameFlags(g, CallReturned(g, c))
    <2>1. CASE Head(c).phase = "stopping"
      BY <2>1, <1>3 DEF CallReturned
    <2>2. CASE Head(c).phase = "killing" /\ ~Expired(g, Head(c))
      BY <2>2, <1>3 DEF CallReturned
    <2>3. CASE Head(c).phase = "launching"
      BY <2>3, <1>7 DEF CallReturned
    <2>4. CASE /\ Head(c).phase # "stopping"
               /\ ~(Head(c).phase = "killing" /\ ~Expired(g, Head(c)))
               /\ Head(c).phase # "launching"
      BY <2>4, <1>2 DEF CallReturned
    <2> QED BY <2>1, <2>2, <2>3, <2>4
  <1> QED BY <1>4, <1>8

LEMMA ChainFollows ==
    ASSUME NEW g, GateInv(g), NEW c \in Chains(g), c # <<>>
    PROVE  Follows(g, StartTask(g, c)) /\ Follows(g, CallReturned(g, c))
  BY ChainSameFlags, GateNumbers, StartTaskInv, CallReturnedInv DEF Follows, SameFlags

LEMMA ProbeFollows ==
    ASSUME NEW g, GateInv(g), NEW found \in BOOLEAN
    PROVE  Follows(g, ProbeAnswered(g, found))
  <1>1. g \in GateState /\ g.dialogEpoch \in Nat
    BY GateNumbers
  <1>2. SameFlags(g, ProbeAnswered(g, found))
    BY <1>1, Zenon DEF ProbeAnswered, GateState, SameFlags
  <1> QED BY <1>1, <1>2, ProbeAnsweredInv DEF Follows, SameFlags

LEMMA SpeakingTyped ==
    ASSUME NEW g, GateInv(g)  PROVE Speaking(g) \in SUBSET Nat
  <1> SUFFICES ASSUME NEW c \in Chains(g), c # <<>> PROVE c[1].id \in Nat
    BY DEF Speaking
  <1>1. c \in Seq(Task)
    BY GateNumbers, TasksTyped DEF Chains
  <1>2. c[1] \in Task
    BY <1>1, TailFact
  <1> QED BY <1>2 DEF Task

-----------------------------------------------------------------------------
(* The handlers.  One of them, p, moves and becomes r; the rest stand.     *)

LEMMA Move ==
    ASSUME DInv, NEW p \in Proc, NEW r \in Handler,
           lastMsg' \in Msg \cup {NoMsg},
           h' = [h EXCEPT ![p] = r],
           Follows(gate, gate'), r.epoch <= gate'.dialogEpoch,
           h[p].pc \in AnswerPC => r.pc \in AnswerPC \/ ~gate'.answerActive
    PROVE  DInv'
  <1>1. /\ GateInv(gate') /\ gate.dialogEpoch \in Nat /\ gate'.dialogEpoch \in Nat
    BY GateNumbers DEF DInv, Follows
  <1>2. h \in [Proc -> Handler]
    BY DEF DInv, DTypes
  <1>3. h'[p] = r /\ \A q \in Proc \ {p} : h'[q] = h[q]
    BY <1>2
  <1>4. DTypes'
    BY <1>2 DEF DTypes
  <1>5. EpochsKnown'
    <2> SUFFICES ASSUME NEW q \in Proc PROVE h'[q].epoch <= gate'.dialogEpoch
      BY DEF EpochsKnown
    <2>1. h[q].epoch \in Nat /\ h[q].epoch <= gate.dialogEpoch
      BY <1>2 DEF DInv, EpochsKnown, Handler
    <2> QED BY <1>1, <1>3, <2>1 DEF Follows
  <1>6. BarrierHasOwner'
    <2> SUFFICES ASSUME gate'.answerActive
                 PROVE  \E m \in Msg : h'[m].pc \in AnswerPC
      BY DEF BarrierHasOwner, Answering, AnswerPC
    <2>1. PICK m \in Msg : h[m].pc \in AnswerPC
      BY DEF DInv, Follows, BarrierHasOwner, Answering, AnswerPC
    <2>2. m \in Proc
      BY DEF Proc
    <2> QED BY <1>3, <2>1, <2>2
  <1> QED BY <1>1, <1>4, <1>5, <1>6 DEF DInv

(* Nobody moves, the gate does. *)
LEMMA GateMoves ==
    ASSUME DInv, Follows(gate, gate'), UNCHANGED <<lastMsg, h>>
    PROVE  DInv'
  <1>1. /\ GateInv(gate') /\ gate.dialogEpoch \in Nat /\ gate'.dialogEpoch \in Nat
    BY GateNumbers DEF DInv, Follows
  <1>2. EpochsKnown'
    BY <1>1 DEF DInv, DTypes, EpochsKnown, Follows, Handler
  <1>3. DTypes' /\ BarrierHasOwner'
    BY DEF DInv, DTypes, Follows, BarrierHasOwner, Answering
  <1> QED BY <1>1, <1>2, <1>3 DEF DInv

(* p reaches its next await and waits for the tasks in A. *)
LEMMA Onward ==
    ASSUME DInv, NEW p \in Proc, NEW pc \in PC, NEW A \in SUBSET Nat,
           lastMsg' \in Msg \cup {NoMsg},
           h' = [h EXCEPT ![p].pc = pc, ![p].awaits = A],
           Follows(gate, gate'),
           h[p].pc \in AnswerPC => pc \in AnswerPC \/ ~gate'.answerActive
    PROVE  DInv'
  <1> DEFINE r == [h[p] EXCEPT !.pc = pc, !.awaits = A]
  <1>1. h[p] \in Handler /\ h \in [Proc -> Handler] /\ h[p].epoch <= gate.dialogEpoch
    BY DEF DInv, DTypes, EpochsKnown
  <1>2. r \in Handler /\ r.pc = pc /\ r.epoch = h[p].epoch
    BY <1>1 DEF Handler
  <1>3. h' = [h EXCEPT ![p] = r]
    BY <1>1
  <1> HIDE DEF r
  <1>4. gate.dialogEpoch \in Nat /\ gate'.dialogEpoch \in Nat /\ h[p].epoch \in Nat
    BY <1>1, GateNumbers DEF DInv, Follows, Handler
  <1>5. r.epoch <= gate'.dialogEpoch
    BY <1>1, <1>2, <1>4 DEF Follows
  <1> QED BY <1>2, <1>3, <1>5, Move

LEMMA Still ==
    ASSUME DInv  PROVE Follows(gate, gate)
  BY GateNumbers DEF DInv, Follows

-----------------------------------------------------------------------------
(* Sentences that arrive.                                                  *)

LEMMA ArriveKeeps ==
    ASSUME DInv, NEW m \in Msg, Arrive(m)  PROVE DInv'
  <1>1. /\ m \in Proc /\ h \in [Proc -> Handler] /\ h[m] \in Handler
        /\ h[m].pc = "idle" /\ h[m].epoch <= gate.dialogEpoch
        /\ GateInv(gate) /\ gate.dialogEpoch \in Nat /\ h[m].epoch \in Nat
    BY GateNumbers DEF DInv, DTypes, EpochsKnown, Proc, Handler, Arrive, At,
                       ArriveStop, ArriveWakeWord, ArriveQuestion
  <1>2. lastMsg' \in Msg \cup {NoMsg}
    BY DEF Arrive, ArriveStop, ArriveWakeWord, ArriveQuestion
  <1>3. ASSUME NEW kind \in {"silentStop", "musicStop"}, ArriveStop(m, kind)
        PROVE  DInv'
    <2> DEFINE A == IF PauseWorks THEN Speaking(gate) ELSE {}
               r == [h[m] EXCEPT !.pc = "setPlaying", !.kind = kind, !.awaits = A]
    <2>1. A \in SUBSET Nat
      BY <1>1, SpeakingTyped, Zenon
    <2>a. kind \in Heard
      BY <1>3 DEF Heard
    <2>2. h' = [h EXCEPT ![m] = r]
      BY <1>1, <1>3 DEF ArriveStop
    <2> HIDE DEF A
    <2>3. r \in Handler /\ r.epoch = h[m].epoch
      BY <1>1, <2>1, <2>a DEF Handler, PC
    <2> HIDE DEF r
    <2>4. gate' = gate
      BY <1>3 DEF ArriveStop
    <2> QED BY <1>1, <1>2, <2>2, <2>3, <2>4, Still, Move DEF AnswerPC
  <1>4. CASE ArriveWakeWord(m)
    <2>1. gate' = gate /\ h' = [h EXCEPT ![m].pc = "done", ![m].awaits = {}]
      BY <1>4 DEF ArriveWakeWord, Goto
    <2>2. "done" \in PC /\ {} \in SUBSET Nat
      BY DEF PC
    <2> QED BY <1>1, <1>2, <2>1, <2>2, Still, Onward DEF AnswerPC
  <1>5. CASE ArriveQuestion(m)
    <2> DEFINE pc == IF gate.musicActive THEN "pauseMusic" ELSE "bridgeHealthy"
               r == [h[m] EXCEPT !.kind = "ask", !.pc = pc]
    <2>1. pc \in PC
      <3>1. "pauseMusic" \in PC /\ "bridgeHealthy" \in PC
        BY DEF PC
      <3> QED BY <3>1
    <2>2. h' = [h EXCEPT ![m] = r]
      BY <1>1, <1>5 DEF ArriveQuestion
    <2> HIDE DEF pc
    <2>a. "ask" \in Heard
      BY DEF Heard
    <2>3. r \in Handler /\ r.epoch = h[m].epoch
      BY <1>1, <2>1, <2>a DEF Handler
    <2> HIDE DEF r
    <2>4. gate' = pauseMusicForAnswer(gate)
      BY <1>5 DEF ArriveQuestion
    <2>5. Follows(gate, gate')
      BY <1>1, <2>4, PauseMusicFollows
    <2>6. r.epoch <= gate'.dialogEpoch
      BY <1>1, <2>3, <2>5, GateNumbers DEF Follows
    <2> QED BY <1>1, <1>2, <2>2, <2>3, <2>5, <2>6, Move DEF AnswerPC
  <1> QED BY <1>3, <1>4, <1>5 DEF Arrive

(* Steps that leave the gate alone. *)
LEMMA QuietKeeps ==
    ASSUME DInv, NEW p \in Proc, NEW pc \in PC, Goto(p, pc),
           h[p].pc \notin AnswerPC \/ pc \in AnswerPC,
           UNCHANGED <<gate, lastMsg>>
    PROVE  DInv'
  <1>1. h' = [h EXCEPT ![p].pc = pc, ![p].awaits = {}] /\ {} \in SUBSET Nat
    BY DEF Goto
  <1>2. lastMsg' \in Msg \cup {NoMsg}
    BY DEF DInv, DTypes
  <1> QED BY <1>1, <1>2, Still, Onward

(* Steps that enqueue a task and await it. *)
LEMMA AwaitKeeps ==
    ASSUME DInv, NEW p \in Proc, NEW pc \in PC, Await(p, pc), Follows(gate, gate'),
           h[p].pc \notin AnswerPC, lastMsg' = lastMsg
    PROVE  DInv'
  <1>1. h' = [h EXCEPT ![p].pc = pc, ![p].awaits = {gate.nextTask}]
    BY DEF Await
  <1>2. lastMsg' \in Msg \cup {NoMsg} /\ {gate.nextTask} \in SUBSET Nat
    BY GateNumbers DEF DInv, DTypes
  <1> QED BY <1>1, <1>2, Onward

LEMMA EpochInRange ==
    ASSUME DInv, NEW p \in Proc
    PROVE  /\ h[p].epoch \in 0..gate.dialogEpoch
           /\ h[p].resumeUrl \in Url \cup {NoUrl}
           /\ h[p] \in Handler
  <1>1. h[p] \in Handler /\ h[p].epoch <= gate.dialogEpoch /\ gate.dialogEpoch \in Nat
    BY GateNumbers DEF DInv, DTypes, EpochsKnown
  <1> QED BY <1>1 DEF Handler

(* Leaving the loop over the chunks takes the barrier down. *)
LEMMA FinishKeeps ==
    ASSUME DInv, NEW m \in Msg, NEW g, Follows(gate, g), FinishAnswer(m, g),
           lastMsg' = lastMsg
    PROVE  DInv'
  <1>1. m \in Proc /\ GateInv(g) /\ GateInv(gate) /\ {} \in SUBSET Nat
    BY DEF Proc, DInv, Follows
  <1>2. h[m].resumeUrl \in Url \cup {NoUrl} /\ lastMsg' \in Msg \cup {NoMsg}
    BY <1>1, EpochInRange DEF DInv, DTypes
  <1>3. PICK pc \in {"done", "keepOpen"} :
           h' = [h EXCEPT ![m].pc = pc, ![m].awaits = {}]
    BY DEF FinishAnswer, Goto
  <1>4. \/ gate' = endAnswer(g)
        \/ gate' = resumeMusic(endAnswer(g), h[m].resumeUrl)
    BY DEF FinishAnswer
  <1>5. Follows(g, gate') /\ ~gate'.answerActive
    BY <1>1, <1>2, <1>4, Ended
  <1>6. Follows(gate, gate')
    BY <1>1, <1>5, FollowsTrans
  <1>7. pc \in PC
    BY DEF PC
  <1> QED BY <1>1, <1>2, <1>3, <1>5, <1>6, <1>7, Onward

-----------------------------------------------------------------------------
(* A question, from the pause of the music to the last chunk.              *)

LEMMA OnMessageKeeps ==
    ASSUME DInv, NEW m \in Msg, OnMessage(m)  PROVE DInv'
  <1>1. /\ m \in Proc /\ GateInv(gate) /\ gate.dialogEpoch \in Nat
        /\ h \in [Proc -> Handler] /\ h[m] \in Handler
        /\ h[m].epoch \in 0..gate.dialogEpoch
        /\ h[m].resumeUrl \in Url \cup {NoUrl}
    BY GateNumbers, EpochInRange DEF DInv, DTypes, Proc
  <1>2. lastMsg' = lastMsg /\ lastMsg' \in Msg \cup {NoMsg}
    BY DEF DInv, DTypes, OnMessage, FlushAfterPause, ConfirmOrRestart, Confirmed, Restarted,
           MusicPaused, BridgeUp, BridgeDown, LlmAnswered, FallbackPlayed, NoStream,
           StreamOpened, ReadChunk, ReadInterrupted, ReadEnd, ReadThrows, ChunkPlayed,
           KeepOpen, WokenUp
  <1>3. /\ {} \in SUBSET Nat
        /\ \A pc \in {"done", "stopMusic", "confirm", "restartAivs", "askAI", "streaming",
                      "bridgeHealthy", "askLlm", "fallbackPlay", "chunk", "wakeUp"} : pc \in PC
    BY DEF PC
  <1>4. CASE FlushAfterPause(m)
    <2> DEFINE g == flushPlayQueue(gate)
    <2>1. Follows(gate, g) /\ GateInv(g)
      BY <1>1, FlushFollows DEF Follows
    <2>2. Follows(gate, stopMusic(g))
      BY <1>1, <2>1, StopMusicFollows, FollowsTrans
    <2> HIDE DEF g
    <2>3. gate' = stopMusic(g) /\ h' = [h EXCEPT ![m].pc = "stopMusic", ![m].awaits = {}]
      BY <1>4 DEF FlushAfterPause, Goto, g
    <2>4. h[m].pc \notin AnswerPC
      BY <1>4 DEF FlushAfterPause, At, AnswerPC
    <2> QED BY <1>1, <1>2, <1>3, <2>2, <2>3, <2>4, Onward
  <1>5. CASE ConfirmOrRestart(m) \/ Confirmed(m) \/ Restarted(m) \/ BridgeUp(m)
             \/ ChunkPlayed(m) \/ WokenUp(m)
    <2>1. PICK pc \in PC : Goto(m, pc) /\ (h[m].pc \notin AnswerPC \/ pc \in AnswerPC)
      BY <1>3, <1>5 DEF ConfirmOrRestart, Confirmed, Restarted, BridgeUp, ChunkPlayed,
                        WokenUp, At, AnswerPC
    <2>2. UNCHANGED <<gate, lastMsg>>
      BY <1>5 DEF ConfirmOrRestart, Confirmed, Restarted, BridgeUp, ChunkPlayed, WokenUp
    <2> QED BY <1>1, <2>1, <2>2, QuietKeeps
  <1>6. CASE MusicPaused(m)
    <2> DEFINE r == [h[m] EXCEPT !.pc = "bridgeHealthy", !.resumeUrl = gate.lastMusicUrl]
    <2>1. gate.lastMusicUrl \in Url \cup {NoUrl} /\ "bridgeHealthy" \in PC
      BY <1>1, <1>3, GateNumbers
    <2>2. r \in Handler /\ r.epoch = h[m].epoch
      BY <1>1, <2>1 DEF Handler
    <2>3. h' = [h EXCEPT ![m] = r] /\ gate' = gate
      BY <1>1, <1>6 DEF MusicPaused
    <2>4. h[m].pc \notin AnswerPC
      BY <1>6 DEF MusicPaused, At, AnswerPC
    <2> HIDE DEF r
    <2>5. r.epoch <= gate'.dialogEpoch
      BY <1>1, <2>2, <2>3
    <2> QED BY <1>1, <1>2, <2>2, <2>3, <2>4, <2>5, Still, Move
  <1>7. CASE BridgeDown(m)
    <2> DEFINE r == [h[m] EXCEPT !.pc = "askLlm", !.epoch = gate'.dialogEpoch]
    <2>1. gate' = newDialog(gate) /\ Follows(gate, gate') /\ gate'.dialogEpoch \in Nat
      BY <1>1, <1>7, NewDialogFollows, GateNumbers DEF BridgeDown, Follows
    <2>2. "askLlm" \in PC
      BY <1>3
    <2>3. r \in Handler /\ r.epoch = gate'.dialogEpoch
      BY <1>1, <2>1, <2>2 DEF Handler
    <2>4. h' = [h EXCEPT ![m] = r]
      BY <1>1, <1>7 DEF BridgeDown
    <2>5. h[m].pc \notin AnswerPC
      BY <1>7 DEF BridgeDown, At, AnswerPC
    <2>6. r.epoch <= gate'.dialogEpoch
      BY <2>1, <2>3
    <2> HIDE DEF r
    <2> QED BY <1>1, <1>2, <2>1, <2>3, <2>4, <2>5, <2>6, Move
  <1>8. CASE LlmAnswered(m) \/ KeepOpen(m)
    <2>1. PICK pc \in PC : Await(m, pc)
      BY <1>3, <1>8 DEF LlmAnswered, KeepOpen
    <2>2. Follows(gate, gate')
      BY <1>1, <1>8, EnqueueTextFollows DEF LlmAnswered, KeepOpen
    <2>3. h[m].pc \notin AnswerPC
      BY <1>8 DEF LlmAnswered, KeepOpen, At, AnswerPC
    <2> QED BY <1>1, <1>2, <2>1, <2>2, <2>3, AwaitKeeps
  <1>9. CASE FallbackPlayed(m) \/ NoStream(m)
    <2>1. Follows(gate, gate')
      BY <1>1, <1>9, ResumeMusicFollows DEF FallbackPlayed, NoStream
    <2>2. h' = [h EXCEPT ![m].pc = "done", ![m].awaits = {}]
      BY <1>9 DEF FallbackPlayed, NoStream, Goto
    <2>3. h[m].pc \notin AnswerPC
      BY <1>9 DEF FallbackPlayed, NoStream, At, AnswerPC
    <2> QED BY <1>1, <1>2, <1>3, <2>1, <2>2, <2>3, Onward
  <1>10. CASE StreamOpened(m)
    <2> DEFINE r == [h[m] EXCEPT !.pc = "streaming", !.epoch = gate'.dialogEpoch]
    <2>1. GateInv(newDialog(gate)) /\ newDialog(gate).dialogEpoch = gate.dialogEpoch + 1
      BY <1>1, NewDialogInv
    <2>2. /\ GateInv(gate') /\ gate'.dialogEpoch = gate.dialogEpoch + 1
          /\ gate'.dialogEpoch \in Nat
      BY <1>1, <1>10, <2>1, BeginAnswerFields DEF StreamOpened
    <2>3. "streaming" \in PC
      BY <1>3
    <2>4. r \in Handler /\ r.epoch = gate'.dialogEpoch /\ r.pc = "streaming"
      BY <1>1, <2>2, <2>3 DEF Handler
    <2>5. h' = [h EXCEPT ![m] = r]
      BY <1>1, <1>10 DEF StreamOpened
    <2> HIDE DEF r
    <2>6. h'[m] = r /\ (\A q \in Proc \ {m} : h'[q] = h[q]) /\ h' \in [Proc -> Handler]
      BY <1>1, <2>4, <2>5
    <2>7. EpochsKnown'
      <3> SUFFICES ASSUME NEW q \in Proc PROVE h'[q].epoch <= gate'.dialogEpoch
        BY DEF EpochsKnown
      <3>1. h[q].epoch \in 0..gate.dialogEpoch
        BY EpochInRange
      <3> QED BY <1>1, <2>2, <2>4, <2>6, <3>1
    <2>8. BarrierHasOwner'
      BY <2>4, <2>6 DEF BarrierHasOwner, Answering
    <2> QED BY <1>2, <2>2, <2>6, <2>7, <2>8 DEF DInv, DTypes
  <1>11. CASE ReadChunk(m)
    <2> DEFINE r == [h[m] EXCEPT !.pc = "chunk", !.awaits = {gate.nextTask},
                                 !.chunks = @ + 1]
    <2>1. {gate.nextTask} \in SUBSET Nat /\ "chunk" \in PC
      BY <1>1, <1>3, GateNumbers
    <2>a. h[m].chunks + 1 \in Nat
      BY <1>1 DEF Handler
    <2>2. r \in Handler /\ r.epoch = h[m].epoch /\ r.pc = "chunk"
      BY <1>1, <2>1, <2>a, Zenon DEF Handler
    <2>3. h' = [h EXCEPT ![m] = r]
      BY <1>1, <1>11 DEF ReadChunk
    <2> HIDE DEF r
    <2>4. Follows(gate, gate')
      BY <1>1, <1>11, EnqueueTextFollows DEF ReadChunk
    <2>5. r.epoch <= gate'.dialogEpoch
      BY <1>1, <2>2, <2>4, GateNumbers DEF Follows
    <2> QED BY <1>1, <1>2, <2>2, <2>3, <2>4, <2>5, Move DEF AnswerPC
  <1>12. CASE ReadInterrupted(m)
    <2>1. Follows(gate, newDialog(gate))
      BY <1>1, NewDialogFollows
    <2> QED BY <1>2, <1>12, <2>1, FinishKeeps DEF ReadInterrupted
  <1>13. CASE ReadEnd(m)
    BY <1>2, <1>13, Still, FinishKeeps DEF ReadEnd
  <1>14. CASE ReadThrows(m)
    <2>1. Follows(gate, gate') /\ ~gate'.answerActive
      BY <1>1, <1>14, EndAnswerFollows DEF ReadThrows
    <2>2. h' = [h EXCEPT ![m].pc = "done", ![m].awaits = {}]
      BY <1>14 DEF ReadThrows, Goto
    <2> QED BY <1>1, <1>2, <1>3, <2>1, <2>2, Onward
  <1> QED BY <1>4, <1>5, <1>6, <1>7, <1>8, <1>9, <1>10, <1>11, <1>12, <1>13, <1>14
             DEF OnMessage

-----------------------------------------------------------------------------
(* The endpoints.                                                          *)

LEMMA PushKeeps ==
    ASSUME DInv, NEW p \in Push, PlayRequest(p) \/ HandlePlay(p)  PROVE DInv'
  <1>1. /\ p \in Proc /\ GateInv(gate) /\ gate.dialogEpoch \in Nat
        /\ h \in [Proc -> Handler] /\ h[p] \in Handler
        /\ h[p].epoch \in 0..gate.dialogEpoch
    BY GateNumbers, EpochInRange DEF DInv, DTypes, Proc
  <1>2. lastMsg' = lastMsg /\ lastMsg' \in Msg \cup {NoMsg}
    BY DEF DInv, DTypes, HandlePlay, PlayRequest, PlayQueued, Played, KeepOpen, WokenUp
  <1>3. \A pc \in {"done", "keepOpen", "stopMusic", "play", "wakeUp"} : pc \in PC
    BY DEF PC
  <1>4. CASE PlayRequest(p)
    <2> DEFINE r == [h[p] EXCEPT !.pc = "stopMusic", !.epoch = gate.dialogEpoch]
    <2>1. r \in Handler /\ r.epoch = gate.dialogEpoch
      <3>1. "stopMusic" \in PC
        BY <1>3
      <3> QED BY <1>1, <3>1 DEF Handler
    <2>2. h' = [h EXCEPT ![p] = r]
      BY <1>1, <1>4 DEF PlayRequest
    <2> HIDE DEF r
    <2>3. Follows(gate, gate')
      BY <1>1, <1>4, StopMusicFollows DEF PlayRequest
    <2>4. h[p].pc \notin AnswerPC
      BY <1>4 DEF PlayRequest, At, AnswerPC
    <2>5. r.epoch <= gate'.dialogEpoch
      BY <2>1, <2>3 DEF Follows
    <2> QED BY <1>1, <1>2, <2>1, <2>2, <2>3, <2>4, <2>5, Move
  <1>5. CASE PlayQueued(p) \/ KeepOpen(p)
    <2>1. PICK pc \in PC : Await(p, pc)
      BY <1>3, <1>5 DEF PlayQueued, KeepOpen
    <2>2. Follows(gate, gate')
      BY <1>1, <1>5, EnqueueTextFollows DEF PlayQueued, KeepOpen
    <2>3. h[p].pc \notin AnswerPC
      BY <1>5 DEF PlayQueued, KeepOpen, At, AnswerPC
    <2> QED BY <1>1, <1>2, <2>1, <2>2, <2>3, AwaitKeeps
  <1>6. CASE Played(p) \/ WokenUp(p)
    <2>1. PICK pc \in PC : Goto(p, pc) /\ h[p].pc \notin AnswerPC
      BY <1>3, <1>6 DEF Played, WokenUp, At, AnswerPC
    <2>2. UNCHANGED <<gate, lastMsg>>
      BY <1>6 DEF Played, WokenUp
    <2> QED BY <1>1, <2>1, <2>2, QuietKeeps
  <1> QED BY <1>4, <1>5, <1>6 DEF HandlePlay

LEMMA SongKeeps ==
    ASSUME DInv, NEW s \in Song, PlayUrlRequest(s)  PROVE DInv'
  <1>1. /\ s \in Proc /\ GateInv(gate) /\ {} \in SUBSET Nat
        /\ lastMsg' \in Msg \cup {NoMsg} /\ "done" \in PC
    BY DEF DInv, DTypes, Proc, PlayUrlRequest, PC
  <1>2. PICK u \in Url : gate' = playUrlNow(gate, u)
    BY DEF PlayUrlRequest
  <1>3. u # NoUrl
    BY GateAssumption
  <1>4. gate' = resumeMusic(gate, u)
    BY <1>2, <1>3 DEF resumeMusic
  <1>5. Follows(gate, gate')
    BY <1>1, <1>4, ResumeMusicFollows
  <1>6. h' = [h EXCEPT ![s].pc = "done", ![s].awaits = {}] /\ h[s].pc \notin AnswerPC
    BY DEF PlayUrlRequest, Goto, At, AnswerPC
  <1> QED BY <1>1, <1>5, <1>6, Onward

-----------------------------------------------------------------------------
LEMMA DInitInv == DInit => DInv
  <1> SUFFICES ASSUME DInit PROVE DInv
    OBVIOUS
  <1>1. GateInv(gate)
    BY InitInv DEF DInit
  <1>2. "idle" \in PC /\ "none" \in Heard
    BY DEF PC, Heard
  <1>3. Idle \in Handler /\ Idle.epoch = 0
    BY <1>2 DEF Idle, Handler
  <1>4. ~gate.answerActive /\ gate.dialogEpoch = 0
    BY DEF DInit, Init, InitGate
  <1>5. \A p \in Proc : h[p] = Idle
    BY DEF DInit
  <1> QED BY <1>1, <1>3, <1>4, <1>5 DEF DInv, DTypes, EpochsKnown, BarrierHasOwner, DInit

LEMMA DNextInv == DInv /\ [DNext]_dvars => DInv'
  <1> SUFFICES ASSUME DInv, [DNext]_dvars PROVE DInv'
    OBVIOUS
  <1>1. ASSUME NEW m \in Msg, Arrive(m) \/ OnMessage(m)  PROVE DInv'
    BY <1>1, ArriveKeeps, OnMessageKeeps
  <1>2. ASSUME NEW p \in Push, PlayRequest(p) \/ HandlePlay(p)  PROVE DInv'
    BY <1>2, PushKeeps
  <1>3. ASSUME NEW s \in Song, PlayUrlRequest(s)  PROVE DInv'
    BY <1>3, SongKeeps
  <1>4. CASE ChainStep
    <2>1. PICK c \in Chains(gate) : /\ c # <<>>
                                    /\ gate' \in {StartTask(gate, c), CallReturned(gate, c)}
      BY <1>4 DEF ChainStep, Start, Return, Startable, Awaiting
    <2>2. Follows(gate, gate')
      BY <2>1, ChainFollows DEF DInv
    <2> QED BY <1>4, <2>2, GateMoves DEF ChainStep
  <1>5. CASE ProbeStep
    <2>1. Follows(gate, gate')
      BY <1>5, ProbeFollows DEF ProbeStep, Probe, DInv
    <2> QED BY <1>5, <2>1, GateMoves DEF ProbeStep
  <1>6. CASE AllDone \/ UNCHANGED dvars
    <2>1. gate' = gate /\ UNCHANGED <<lastMsg, h>>
      BY <1>6 DEF AllDone, dvars
    <2> QED BY <2>1, Still, GateMoves
  <1> QED BY <1>1, <1>2, <1>3, <1>4, <1>5, <1>6 DEF DNext

LEMMA DInvAlways == DSpec => []DInv
  BY DInitInv, DNextInv, PTL DEF DSpec

(* The state of the handlers and of the gate under them keeps its type,    *)
(* for any number of sentences and requests (speaker-gate.ts, config.ts).  *)
THEOREM DTyped == DSpec => []DTypeOK
  <1>1. DInv => DTypeOK
    BY DEF DInv, DTypes, DTypeOK, TypeOK, GateInv
  <1> QED BY <1>1, DInvAlways, PTL

(* However the handlers overlap, the barrier is up only while one of them  *)
(* is reading an answer out (config.ts:410-412): no announcement is held   *)
(* back by an answer that is over.                                         *)
THEOREM BarrierOwned == DSpec => []BarrierHasOwner
  <1>1. DInv => BarrierHasOwner
    BY DEF DInv
  <1> QED BY <1>1, DInvAlways, PTL

(* The gate keeps its promises under the handlers that really call it,     *)
(* which compose its functions in one step: nothing is held back without   *)
(* an answer, and what a flush left behind has expired for good            *)
(* (speaker-gate.ts:107-125, 274-288).                                     *)
THEOREM GateUnderHandlers == DSpec => [](NothingStranded /\ AbandonedExpired)
  <1>1. DInv => NothingStranded /\ AbandonedExpired
    BY DEF DInv, GateInv, NothingStranded, AbandonedExpired
  <1> QED BY <1>1, DInvAlways, PTL

-----------------------------------------------------------------------------
(* Promises.  Under the handlers too every task is in one place, so a      *)
(* handler that waits for a number already given out waits for something.  *)

Grows(g, k) == GateInv(k) /\ Once(k) /\ g.nextTask <= k.nextTask

AwaitsKnown == \A p \in Proc : h[p].awaits \subseteq 1..(gate.nextTask - 1)

LEMMA GrowsTrans ==
    ASSUME NEW g, NEW k, NEW m, GateInv(g), Grows(g, k), Grows(k, m)
    PROVE  Grows(g, m)
  <1>1. GateInv(k) /\ GateInv(m)
    BY DEF Grows
  <1> QED BY <1>1, GateNumbers DEF Grows

LEMMA FlagsGrow ==
    ASSUME NEW g, GateInv(g), Once(g)
    PROVE  /\ Grows(g, beginAnswer(g)) /\ Grows(g, newDialog(g))
           /\ Grows(g, stopMusic(g)) /\ Grows(g, pauseMusicForAnswer(g))
           /\ \A found \in BOOLEAN : Grows(g, ProbeAnswered(g, found))
  <1>1. g \in GateState /\ g.nextTask \in Nat
    BY GateNumbers
  <1>2. \A k : SamePlaces(g, k) /\ GateInv(k) => Grows(g, k)
    BY <1>1, SamePlacesOnce DEF SamePlaces, Grows
  <1> QED BY <1>1, <1>2, FlagsSame, BeginAnswerInv, NewDialogInv, StopMusicInv,
             PauseMusicInv, ProbeAnsweredInv

LEMMA EnqueueNext ==
    ASSUME NEW g \in GateState, NEW t
    PROVE  /\ enqueueTask(g, t).nextTask = g.nextTask + 1
           /\ chainOrDelay(g, t).nextTask = g.nextTask + 1
  <1>1. enqueueTask(g, t).nextTask = g.nextTask + 1
    BY Zenon DEF enqueueTask, GateState
  <1>2. CASE g.answerActive
    BY <1>1, <1>2, Zenon DEF chainOrDelay, GateState
  <1>3. CASE ~g.answerActive
    BY <1>1, <1>3, Zenon DEF chainOrDelay
  <1> QED BY <1>1, <1>2, <1>3

LEMMA EnqueueGrows ==
    ASSUME NEW g, GateInv(g), Once(g), NEW e \in 0..g.dialogEpoch
    PROVE  /\ Grows(g, enqueueChunk(g, e)) /\ Grows(g, enqueuePlay(g, e))
           /\ Grows(g, enqueueWakeUp(g, e))
           /\ enqueueChunk(g, e).nextTask = g.nextTask + 1
           /\ enqueuePlay(g, e).nextTask = g.nextTask + 1
           /\ enqueueWakeUp(g, e).nextTask = g.nextTask + 1
  <1>1. g \in GateState /\ g.nextTask \in Nat /\ g.dialogEpoch \in Nat /\ e \in Nat
    BY GateNumbers
  <1>2. /\ enqueueChunk(g, e).nextTask = g.nextTask + 1
        /\ enqueuePlay(g, e).nextTask = g.nextTask + 1
        /\ enqueueWakeUp(g, e).nextTask = g.nextTask + 1
    BY <1>1, EnqueueNext DEF enqueueChunk, enqueuePlay, enqueueWakeUp
  <1>3. \A kind \in TextKind :
           LET t == NewTask(g, kind, e, NoUrl) IN t \in Task /\ t.id = g.nextTask
    BY <1>1, NewTaskFact DEF TextKind, Kind
  <1>4. Once(enqueueChunk(g, e)) /\ Once(enqueuePlay(g, e)) /\ Once(enqueueWakeUp(g, e))
    BY <1>1, <1>3, AppendOnce, DelayOnce DEF enqueueChunk, enqueuePlay, enqueueWakeUp, TextKind
  <1> QED BY <1>1, <1>2, <1>4, EnqueueTextInv DEF Grows

LEMMA ResumeGrows ==
    ASSUME NEW g, GateInv(g), Once(g), NEW u \in Url \cup {NoUrl}
    PROVE  Grows(g, resumeMusic(g, u))
  <1>1. g \in GateState /\ g.nextTask \in Nat /\ 0 \in Nat
    BY GateNumbers
  <1>2. CASE u = NoUrl
    BY <1>1, <1>2 DEF resumeMusic, Grows
  <1>3. CASE u # NoUrl
    <2> DEFINE k == [g EXCEPT !.musicEpoch = @ + 1]
    <2>1. resumeMusic(g, u) = playUrlNow(g, u) /\ u \in Url
      BY <1>3 DEF resumeMusic
    <2>2. Once(playUrlNow(g, u)) /\ GateInv(playUrlNow(g, u))
      BY <1>1, <2>1, EnqueueOnce, PlayUrlNowInv
    <2>3. g.musicEpoch + 1 \in Nat
      BY GateNumbers
    <2>4. k \in GateState /\ k.nextTask = g.nextTask
      BY <1>1, <2>3, Zenon DEF GateState
    <2> HIDE DEF k
    <2>5. \A t : enqueueTask(k, t).nextTask = g.nextTask + 1
      BY <2>4, EnqueueNext
    <2>6. playUrlNow(g, u).nextTask = g.nextTask + 1
      BY <2>5, Zenon DEF playUrlNow, k
    <2> QED BY <1>1, <2>1, <2>2, <2>6 DEF Grows
  <1> QED BY <1>2, <1>3

LEMMA EndAnswerGrows ==
    ASSUME NEW g, GateInv(g), Once(g)
    PROVE  Grows(g, endAnswer(g)) /\ Grows(g, flushPlayQueue(g))
  <1>1. g \in GateState /\ g.nextTask \in Nat
    BY GateNumbers
  <1>2. endAnswer(g).nextTask = g.nextTask
    BY <1>1, Zenon DEF endAnswer, GateState
  <1> QED BY <1>1, <1>2, EndAnswerInv, EndAnswerOnce, FlushInv, FlushOnce, FlushFields
          DEF Grows

LEMMA EndedGrows ==
    ASSUME NEW g, GateInv(g), Once(g), NEW u \in Url \cup {NoUrl}
    PROVE  Grows(g, endAnswer(g)) /\ Grows(g, resumeMusic(endAnswer(g), u))
  <1>1. Grows(g, endAnswer(g)) /\ GateInv(endAnswer(g)) /\ Once(endAnswer(g))
    BY EndAnswerGrows DEF Grows
  <1> QED BY <1>1, ResumeGrows, GrowsTrans

(* The chains only lose tasks. *)
LEMMA ReplaceNext ==
    ASSUME NEW g \in GateState, NEW c
    PROVE  /\ \A d : ReplaceChain(g, c, d).nextTask = g.nextTask
           /\ Settle(g, c).nextTask = g.nextTask
  <1>1. CASE c = g.playChain
    BY <1>1, Zenon DEF Settle, ReplaceChain, GateState
  <1>2. CASE c # g.playChain
    BY <1>2, Zenon DEF Settle, ReplaceChain, GateState
  <1> QED BY <1>1, <1>2

LEMMA ChainGrows ==
    ASSUME NEW g, GateInv(g), Once(g), NEW c \in Chains(g), c # <<>>
    PROVE  Grows(g, StartTask(g, c)) /\ Grows(g, CallReturned(g, c))
  <1>1. g \in GateState /\ g.nextTask \in Nat
    BY GateNumbers
  <1>2. Settle(g, c).nextTask = g.nextTask
    BY <1>1, ReplaceNext
  <1>3. \A p : SetPhase(g, c, p).nextTask = g.nextTask
    BY <1>1, ReplaceNext, Zenon DEF SetPhase
  <1>4. \A u : [Settle(g, c) EXCEPT !.lastMusicUrl = u, !.musicActive = TRUE].nextTask
                  = g.nextTask
    <2>1. Settle(g, c) \in GateState
      BY SettleInv DEF GateInv
    <2> QED BY <1>2, <2>1, Zenon DEF GateState
  <1>5. StartTask(g, c).nextTask = g.nextTask
    BY <1>2, <1>3, Zenon DEF StartTask
  <1>6. CallReturned(g, c).nextTask = g.nextTask
    <2>1. CASE Head(c).phase = "stopping"
      BY <2>1, <1>3 DEF CallReturned
    <2>2. CASE Head(c).phase = "killing" /\ ~Expired(g, Head(c))
      BY <2>2, <1>3 DEF CallReturned
    <2>3. CASE Head(c).phase = "launching"
      BY <2>3, <1>4 DEF CallReturned
    <2>4. CASE /\ Head(c).phase # "stopping"
               /\ ~(Head(c).phase = "killing" /\ ~Expired(g, Head(c)))
               /\ Head(c).phase # "launching"
      BY <2>4, <1>2 DEF CallReturned
    <2> QED BY <2>1, <2>2, <2>3, <2>4
  <1> QED BY <1>1, <1>5, <1>6, StartTaskInv, CallReturnedInv, StartTaskOnce, CallReturnedOnce
          DEF Grows

-----------------------------------------------------------------------------
(* What a step of the system does to the gate.                             *)

LEMMA HandlerGrows ==
    ASSUME DInv, Once(gate), NEW m \in Msg, Arrive(m) \/ OnMessage(m)
    PROVE  Grows(gate, gate')
  <1>1. m \in Proc
    BY DEF Proc
  <1>2. /\ GateInv(gate) /\ h[m].epoch \in 0..gate.dialogEpoch
        /\ h[m].resumeUrl \in Url \cup {NoUrl}
    BY <1>1, EpochInRange DEF DInv
  <1>3. Grows(gate, gate)
    BY <1>2, GateNumbers DEF Grows
  <1>4. ASSUME NEW g, Grows(gate, g), FinishAnswer(m, g)
        PROVE  Grows(gate, gate')
    <2>1. gate' \in {endAnswer(g), resumeMusic(endAnswer(g), h[m].resumeUrl)}
      BY <1>4 DEF FinishAnswer
    <2> QED BY <1>2, <1>4, <2>1, EndedGrows, GrowsTrans DEF Grows
  <1>5. CASE Arrive(m)
    BY <1>2, <1>3, <1>5, FlagsGrow DEF Arrive, ArriveStop, ArriveWakeWord, ArriveQuestion
  <1>6. CASE FlushAfterPause(m)
    <2>1. Grows(gate, flushPlayQueue(gate))
      BY <1>2, EndAnswerGrows
    <2>2. Grows(flushPlayQueue(gate), stopMusic(flushPlayQueue(gate)))
      BY <2>1, FlagsGrow DEF Grows
    <2> QED BY <1>2, <1>6, <2>1, <2>2, GrowsTrans DEF FlushAfterPause
  <1>7. CASE \/ ConfirmOrRestart(m) \/ Confirmed(m) \/ Restarted(m) \/ MusicPaused(m)
             \/ BridgeUp(m) \/ ChunkPlayed(m) \/ WokenUp(m)
    BY <1>3, <1>7 DEF ConfirmOrRestart, Confirmed, Restarted, MusicPaused, BridgeUp,
                      ChunkPlayed, WokenUp
  <1>8. CASE BridgeDown(m)
    BY <1>2, <1>8, FlagsGrow DEF BridgeDown
  <1>9. CASE LlmAnswered(m) \/ ReadChunk(m) \/ KeepOpen(m)
    BY <1>2, <1>9, EnqueueGrows DEF LlmAnswered, ReadChunk, KeepOpen
  <1>10. CASE FallbackPlayed(m) \/ NoStream(m)
    BY <1>2, <1>10, ResumeGrows DEF FallbackPlayed, NoStream
  <1>11. CASE StreamOpened(m)
    <2>1. Grows(gate, newDialog(gate))
      BY <1>2, FlagsGrow
    <2>2. Grows(newDialog(gate), beginAnswer(newDialog(gate)))
      BY <2>1, FlagsGrow DEF Grows
    <2> QED BY <1>2, <1>11, <2>1, <2>2, GrowsTrans DEF StreamOpened
  <1>12. CASE ReadInterrupted(m)
    BY <1>2, <1>4, <1>12, FlagsGrow DEF ReadInterrupted
  <1>13. CASE ReadEnd(m)
    BY <1>3, <1>4, <1>13 DEF ReadEnd
  <1>14. CASE ReadThrows(m)
    BY <1>2, <1>14, EndAnswerGrows DEF ReadThrows
  <1> QED BY <1>5, <1>6, <1>7, <1>8, <1>9, <1>10, <1>11, <1>12, <1>13, <1>14 DEF OnMessage

LEMMA StepGrows ==
    ASSUME DInv, Once(gate), [DNext]_dvars  PROVE Grows(gate, gate')
  <1>1. GateInv(gate) /\ Grows(gate, gate)
    BY GateNumbers DEF DInv, Grows
  <1>2. ASSUME NEW p \in Push, PlayRequest(p) \/ HandlePlay(p)  PROVE Grows(gate, gate')
    <2>1. h[p].epoch \in 0..gate.dialogEpoch
      BY EpochInRange DEF Proc
    <2>2. CASE PlayRequest(p)
      BY <1>1, <2>2, FlagsGrow DEF PlayRequest
    <2>3. CASE PlayQueued(p) \/ KeepOpen(p)
      BY <1>1, <2>1, <2>3, EnqueueGrows DEF PlayQueued, KeepOpen
    <2>4. CASE Played(p) \/ WokenUp(p)
      BY <1>1, <2>4 DEF Played, WokenUp
    <2> QED BY <1>2, <2>2, <2>3, <2>4 DEF HandlePlay
  <1>3. ASSUME NEW s \in Song, PlayUrlRequest(s)  PROVE Grows(gate, gate')
    <2>1. PICK u \in Url : gate' = playUrlNow(gate, u)
      BY <1>3 DEF PlayUrlRequest
    <2>2. gate' = resumeMusic(gate, u)
      BY <2>1, GateAssumption DEF resumeMusic
    <2> QED BY <1>1, <2>2, ResumeGrows
  <1>4. CASE ChainStep
    BY <1>1, <1>4, ChainGrows DEF ChainStep, Start, Return, Startable, Awaiting
  <1>5. CASE ProbeStep
    BY <1>1, <1>5, FlagsGrow DEF ProbeStep, Probe
  <1>6. CASE AllDone \/ UNCHANGED dvars
    BY <1>1, <1>6 DEF AllDone, dvars
  <1> QED BY <1>2, <1>3, <1>4, <1>5, <1>6, HandlerGrows DEF DNext

(* What a handler waits for was given out before, or is by this step.      *)
NewAwaits(p) ==
    \/ h'[p].awaits = h[p].awaits
    \/ h'[p].awaits = {}
    \/ h'[p].awaits = Speaking(gate)
    \/ h'[p].awaits = {gate.nextTask} /\ gate'.nextTask = gate.nextTask + 1

LEMMA StepAwaits ==
    ASSUME DInv, Once(gate), [DNext]_dvars, NEW q \in Proc  PROVE NewAwaits(q)
  <1>1. GateInv(gate) /\ h \in [Proc -> Handler]
    BY DEF DInv, DTypes
  <1>2. ASSUME NEW p \in Proc, NEW pc, Goto(p, pc)  PROVE NewAwaits(q)
    <2>1. h' = [h EXCEPT ![p] = [h[p] EXCEPT !.pc = pc, !.awaits = {}]]
      BY <1>1, <1>2 DEF Goto
    <2>2. h'[p].awaits = {}
      BY <1>1, <2>1 DEF Handler
    <2> QED BY <1>1, <2>1, <2>2 DEF NewAwaits
  <1>3. ASSUME NEW p \in Proc, NEW pc, Await(p, pc), gate'.nextTask = gate.nextTask + 1
        PROVE  NewAwaits(q)
    <2>1. h' = [h EXCEPT ![p] = [h[p] EXCEPT !.pc = pc, !.awaits = {gate.nextTask}]]
      BY <1>1, <1>3 DEF Await
    <2>2. h'[p].awaits = {gate.nextTask}
      BY <1>1, <2>1 DEF Handler
    <2> QED BY <1>1, <1>3, <2>1, <2>2 DEF NewAwaits
  <1>4. ASSUME NEW m \in Msg, Arrive(m) \/ OnMessage(m)  PROVE NewAwaits(q)
    <2>1. m \in Proc /\ h[m] \in Handler /\ h[m].epoch \in 0..gate.dialogEpoch
      BY <1>1, EpochInRange DEF Proc
    <2>2. CASE \E k : ArriveStop(m, k)
      BY <1>1, <2>1, <2>2 DEF ArriveStop, NewAwaits, Handler
    <2>3. CASE ArriveQuestion(m)
      BY <1>1, <2>1, <2>3 DEF ArriveQuestion, NewAwaits, Handler
    <2>4. CASE MusicPaused(m) \/ BridgeDown(m) \/ StreamOpened(m)
      BY <1>1, <2>1, <2>4 DEF MusicPaused, BridgeDown, StreamOpened, NewAwaits, Handler
    <2>5. CASE ReadChunk(m)
      <3>1. gate'.nextTask = gate.nextTask + 1
        BY <1>1, <2>1, <2>5, EnqueueGrows DEF ReadChunk
      <3> QED BY <1>1, <2>1, <2>5, <3>1 DEF ReadChunk, NewAwaits, Handler
    <2>6. CASE LlmAnswered(m) \/ KeepOpen(m)
      <3>1. gate'.nextTask = gate.nextTask + 1
        BY <1>1, <2>1, <2>6, EnqueueGrows DEF LlmAnswered, KeepOpen
      <3> QED BY <1>3, <2>1, <2>6, <3>1 DEF LlmAnswered, KeepOpen
    <2>7. CASE \/ ArriveWakeWord(m) \/ FlushAfterPause(m) \/ ConfirmOrRestart(m)
               \/ Confirmed(m) \/ Restarted(m) \/ BridgeUp(m) \/ FallbackPlayed(m)
               \/ NoStream(m) \/ ReadThrows(m) \/ ChunkPlayed(m) \/ WokenUp(m)
      BY <1>2, <2>1, <2>7
         DEF ArriveWakeWord, FlushAfterPause, ConfirmOrRestart, Confirmed, Restarted, BridgeUp,
             FallbackPlayed, NoStream, ReadThrows, ChunkPlayed, WokenUp
    <2>8. CASE ReadInterrupted(m) \/ ReadEnd(m)
      BY <1>2, <2>1, <2>8 DEF ReadInterrupted, ReadEnd, FinishAnswer
    <2> QED BY <1>4, <2>2, <2>3, <2>4, <2>5, <2>6, <2>7, <2>8 DEF Arrive, OnMessage
  <1>5. ASSUME NEW p \in Push, PlayRequest(p) \/ HandlePlay(p)  PROVE NewAwaits(q)
    <2>1. p \in Proc /\ h[p] \in Handler /\ h[p].epoch \in 0..gate.dialogEpoch
      BY <1>1, EpochInRange DEF Proc
    <2>2. CASE PlayRequest(p)
      BY <1>1, <2>1, <2>2 DEF PlayRequest, NewAwaits, Handler
    <2>3. CASE PlayQueued(p) \/ KeepOpen(p)
      <3>1. gate'.nextTask = gate.nextTask + 1
        BY <1>1, <2>1, <2>3, EnqueueGrows DEF PlayQueued, KeepOpen
      <3> QED BY <1>3, <2>1, <2>3, <3>1 DEF PlayQueued, KeepOpen
    <2>4. CASE Played(p) \/ WokenUp(p)
      BY <1>2, <2>1, <2>4 DEF Played, WokenUp
    <2> QED BY <1>5, <2>2, <2>3, <2>4 DEF HandlePlay
  <1>6. ASSUME NEW s \in Song, PlayUrlRequest(s)  PROVE NewAwaits(q)
    BY <1>2, <1>6 DEF PlayUrlRequest, Proc
  <1>7. CASE ChainStep \/ ProbeStep \/ AllDone \/ UNCHANGED dvars
    BY <1>7 DEF ChainStep, ProbeStep, AllDone, dvars, NewAwaits
  <1> QED BY <1>4, <1>5, <1>6, <1>7 DEF DNext

LEMMA NumbersPlaced ==
    ASSUME NEW g, Once(g)
    PROVE  1..(g.nextTask - 1)
              = g.settled \cup IdsOf(Chains(g)) \cup Ids(g.pendingAfterAnswer)
  BY DEF Once

LEMMA SpeakingPlaced ==
    ASSUME NEW g, GateInv(g), Once(g)  PROVE Speaking(g) \subseteq 1..(g.nextTask - 1)
  <1> SUFFICES ASSUME NEW c \in Chains(g), c # <<>> PROVE c[1].id \in IdsOf(Chains(g))
    BY NumbersPlaced DEF Speaking
  <1>1. c \in Seq(Task)
    BY GateNumbers, TasksTyped DEF Chains
  <1> QED BY <1>1, IdsNonempty DEF IdsOf

LEMMA AwaitsStep ==
    DInv /\ Once(gate) /\ AwaitsKnown /\ [DNext]_dvars => Once(gate)' /\ AwaitsKnown'
  <1> SUFFICES ASSUME DInv, Once(gate), AwaitsKnown, [DNext]_dvars
               PROVE  Once(gate') /\ AwaitsKnown'
    BY DEF Once, Chains
  <1>1. Grows(gate, gate')
    BY StepGrows
  <1>2. /\ GateInv(gate) /\ gate.nextTask \in Nat /\ gate'.nextTask \in Nat
        /\ gate.nextTask <= gate'.nextTask /\ gate.nextTask >= 1
    BY <1>1, GateNumbers DEF DInv, Grows, GateInv, GateState
  <1>3. 1..(gate.nextTask - 1) \subseteq 1..(gate'.nextTask - 1)
    BY <1>2
  <1>4. ASSUME NEW q \in Proc  PROVE h'[q].awaits \subseteq 1..(gate'.nextTask - 1)
    <2>1. NewAwaits(q)
      BY StepAwaits
    <2>2. h[q].awaits \subseteq 1..(gate.nextTask - 1)
      BY DEF AwaitsKnown
    <2>3. Speaking(gate) \subseteq 1..(gate.nextTask - 1)
      BY <1>2, SpeakingPlaced
    <2>4. gate'.nextTask = gate.nextTask + 1 => {gate.nextTask} \subseteq 1..(gate'.nextTask - 1)
      BY <1>2
    <2> QED BY <1>3, <2>1, <2>2, <2>3, <2>4 DEF NewAwaits
  <1> QED BY <1>1, <1>4 DEF Grows, AwaitsKnown

LEMMA NothingForgottenInv == DSpec => [](Once(gate) /\ AwaitsKnown)
  <1>1. DInit => Once(gate) /\ AwaitsKnown
    <2> SUFFICES ASSUME DInit PROVE Once(gate) /\ AwaitsKnown
      OBVIOUS
    <2>1. Once(gate)
      BY OnceInit DEF DInit
    <2>2. \A p \in Proc : h[p].awaits = {}
      BY DEF DInit, Idle
    <2> QED BY <2>1, <2>2 DEF AwaitsKnown
  <1> QED BY <1>1, AwaitsStep, DInvAlways, PTL DEF DSpec

(* Whoever waits for a task of the gate waits for one that is still there  *)
(* or has settled (speaker-gate.ts:79-125, config.ts:368-412): no flush    *)
(* and no interruption makes the promise of a handler vanish; and under    *)
(* the handlers too every task is in one place.                            *)
THEOREM NothingForgotten == DSpec => [](NoForgottenAwait /\ EachTaskOnce)
  <1>1. Once(gate) /\ AwaitsKnown => NoForgottenAwait /\ EachTaskOnce
    BY NumbersPlaced, OnceFact DEF NoForgottenAwait, EachTaskOnce, AwaitsKnown
  <1> QED BY <1>1, NothingForgottenInv, PTL

-----------------------------------------------------------------------------
(* Rule 1 of the gate.  While the barrier is up, an announcement on the    *)
(* chain has been started or is past, and no other gets there.             *)

Calm(g) ==
    g.answerActive =>
        \A i \in DOMAIN g.playChain :
            Outside(g.playChain[i]) /\ g.playChain[i].phase = "queued"
                => Past(g, g.playChain[i])

(* A call of a handler starts nothing. *)
Hushed(g, k) == GateInv(k) /\ Waiting(k) /\ Echo(g, k)

LEMMA HushedTrans ==
    ASSUME NEW g, NEW k, NEW m, Hushed(g, k), Hushed(k, m)  PROVE Hushed(g, m)
  BY EchoTrans DEF Hushed

LEMMA Itself ==
    ASSUME NEW g, GateInv(g), Waiting(g)  PROVE Hushed(g, g)
  BY DEF Hushed, Echo

LEMMA FlagsHushed ==
    ASSUME NEW g, GateInv(g), Waiting(g)
    PROVE  /\ Hushed(g, beginAnswer(g)) /\ Hushed(g, newDialog(g))
           /\ Hushed(g, stopMusic(g)) /\ Hushed(g, pauseMusicForAnswer(g))
           /\ \A found \in BOOLEAN : Hushed(g, ProbeAnswered(g, found))
  <1>1. \A k : SamePlaces(g, k) /\ GateInv(k) => Hushed(g, k)
    BY SamePlacesQuiet DEF Hushed
  <1> QED BY <1>1, GateNumbers, FlagsSame, BeginAnswerInv, NewDialogInv, StopMusicInv,
             PauseMusicInv, ProbeAnsweredInv

LEMMA EnqueueHushed ==
    ASSUME NEW g, GateInv(g), Waiting(g), NEW e \in 0..g.dialogEpoch
    PROVE  /\ Hushed(g, enqueueChunk(g, e)) /\ Hushed(g, enqueuePlay(g, e))
           /\ Hushed(g, enqueueWakeUp(g, e))
  <1>1. g \in GateState /\ e \in Nat
    BY GateNumbers
  <1>2. \A kind \in TextKind : LET t == NewTask(g, kind, e, NoUrl)
                               IN t \in Task /\ t.phase = "queued"
    BY <1>1, NewTaskFact DEF TextKind, Kind, NewTask
  <1> QED BY <1>1, <1>2, AppendQuiet, EnqueueTextInv
          DEF enqueueChunk, enqueuePlay, enqueueWakeUp, TextKind, Hushed

LEMMA ResumeHushed ==
    ASSUME NEW g, GateInv(g), Waiting(g), NEW u \in Url \cup {NoUrl}
    PROVE  Hushed(g, resumeMusic(g, u))
  <1>1. CASE u = NoUrl
    BY <1>1, Itself DEF resumeMusic
  <1>2. CASE u # NoUrl
    BY <1>2, GateNumbers, PlayUrlNowInv, PlayUrlNowQuiet DEF resumeMusic, Hushed
  <1> QED BY <1>1, <1>2

LEMMA EndHushed ==
    ASSUME NEW g, GateInv(g), Waiting(g), NEW u \in Url \cup {NoUrl}
    PROVE  /\ Hushed(g, endAnswer(g)) /\ Hushed(g, flushPlayQueue(g))
           /\ Hushed(g, resumeMusic(endAnswer(g), u))
  <1>1. Hushed(g, endAnswer(g)) /\ Hushed(g, flushPlayQueue(g))
    BY GateNumbers, EndAnswerInv, EndAnswerQuiet, FlushInv, FlushQuiet DEF Hushed
  <1>2. Hushed(endAnswer(g), resumeMusic(endAnswer(g), u))
    BY <1>1, ResumeHushed DEF Hushed
  <1> QED BY <1>1, <1>2, HushedTrans

(* Every step but that of a chain is one of handlers, and hushed.          *)
LEMMA HandlersHushed ==
    ASSUME DInv, Waiting(gate), [DNext]_dvars, ~ChainStep
    PROVE  Hushed(gate, gate')
  <1>1. GateInv(gate) /\ Hushed(gate, gate)
    BY Itself DEF DInv
  <1>2. ASSUME NEW m \in Msg, Arrive(m) \/ OnMessage(m)  PROVE Hushed(gate, gate')
    <2>1. /\ h[m].epoch \in 0..gate.dialogEpoch /\ h[m].resumeUrl \in Url \cup {NoUrl}
      BY EpochInRange DEF Proc
    <2>2. ASSUME NEW g, Hushed(gate, g), FinishAnswer(m, g)  PROVE Hushed(gate, gate')
      <3>1. gate' \in {endAnswer(g), resumeMusic(endAnswer(g), h[m].resumeUrl)}
        BY <2>2 DEF FinishAnswer
      <3>2. Hushed(g, gate')
        BY <2>1, <2>2, <3>1, EndHushed DEF Hushed
      <3> QED BY <2>2, <3>2, HushedTrans
    <2>3. CASE Arrive(m)
      BY <1>1, <2>3, FlagsHushed DEF Arrive, ArriveStop, ArriveWakeWord, ArriveQuestion
    <2>4. CASE FlushAfterPause(m)
      <3>1. Hushed(gate, flushPlayQueue(gate))
        BY <1>1, <2>1, EndHushed
      <3>2. Hushed(flushPlayQueue(gate), stopMusic(flushPlayQueue(gate)))
        BY <3>1, FlagsHushed DEF Hushed
      <3> QED BY <2>4, <3>1, <3>2, HushedTrans DEF FlushAfterPause
    <2>5. CASE \/ ConfirmOrRestart(m) \/ Confirmed(m) \/ Restarted(m) \/ MusicPaused(m)
               \/ BridgeUp(m) \/ ChunkPlayed(m) \/ WokenUp(m)
      BY <1>1, <2>5 DEF ConfirmOrRestart, Confirmed, Restarted, MusicPaused, BridgeUp,
                        ChunkPlayed, WokenUp
    <2>6. CASE BridgeDown(m)
      BY <1>1, <2>6, FlagsHushed DEF BridgeDown
    <2>7. CASE LlmAnswered(m) \/ ReadChunk(m) \/ KeepOpen(m)
      BY <1>1, <2>1, <2>7, EnqueueHushed DEF LlmAnswered, ReadChunk, KeepOpen
    <2>8. CASE FallbackPlayed(m) \/ NoStream(m)
      BY <1>1, <2>1, <2>8, ResumeHushed DEF FallbackPlayed, NoStream
    <2>9. CASE StreamOpened(m)
      <3>1. Hushed(gate, newDialog(gate))
        BY <1>1, FlagsHushed
      <3>2. Hushed(newDialog(gate), beginAnswer(newDialog(gate)))
        BY <3>1, FlagsHushed DEF Hushed
      <3> QED BY <2>9, <3>1, <3>2, HushedTrans DEF StreamOpened
    <2>10. CASE ReadInterrupted(m)
      BY <1>1, <2>2, <2>10, FlagsHushed DEF ReadInterrupted
    <2>11. CASE ReadEnd(m)
      BY <1>1, <2>2, <2>11 DEF ReadEnd
    <2>12. CASE ReadThrows(m)
      BY <1>1, <2>1, <2>12, EndHushed DEF ReadThrows
    <2> QED BY <1>2, <2>3, <2>4, <2>5, <2>6, <2>7, <2>8, <2>9, <2>10, <2>11, <2>12
            DEF OnMessage
  <1>3. ASSUME NEW p \in Push, PlayRequest(p) \/ HandlePlay(p)  PROVE Hushed(gate, gate')
    <2>1. h[p].epoch \in 0..gate.dialogEpoch
      BY EpochInRange DEF Proc
    <2>2. CASE PlayRequest(p)
      BY <1>1, <2>2, FlagsHushed DEF PlayRequest
    <2>3. CASE PlayQueued(p) \/ KeepOpen(p)
      BY <1>1, <2>1, <2>3, EnqueueHushed DEF PlayQueued, KeepOpen
    <2>4. CASE Played(p) \/ WokenUp(p)
      BY <1>1, <2>4 DEF Played, WokenUp
    <2> QED BY <1>3, <2>2, <2>3, <2>4 DEF HandlePlay
  <1>4. ASSUME NEW s \in Song, PlayUrlRequest(s)  PROVE Hushed(gate, gate')
    BY <1>1, <1>4, GateNumbers, PlayUrlNowInv, PlayUrlNowQuiet DEF PlayUrlRequest, Hushed
  <1>5. CASE ProbeStep
    BY <1>1, <1>5, FlagsHushed DEF ProbeStep, Probe
  <1>6. CASE AllDone \/ UNCHANGED dvars
    BY <1>1, <1>6 DEF AllDone, dvars
  <1> QED BY <1>2, <1>3, <1>4, <1>5, <1>6 DEF DNext

LEMMA StepHeeds ==
    ASSUME DInv, Waiting(gate), [DNext]_dvars
    PROVE  /\ Waiting(gate') /\ Heeds(gate, gate')
           /\ ~ChainStep => Echo(gate, gate')
  <1>1. CASE ChainStep
    BY <1>1, StartTaskQuiet, CallReturnedQuiet
       DEF DInv, ChainStep, Start, Return, Startable, Awaiting
  <1>2. CASE ~ChainStep
    BY <1>2, HandlersHushed DEF Hushed, Echo, Heeds
  <1> QED BY <1>1, <1>2

LEMMA WaitingAlways == DSpec => []Waiting(gate)
  <1>1. DInit => Waiting(gate)
    BY QuietInit DEF DInit
  <1>2. DInv /\ Waiting(gate) /\ [DNext]_dvars => Waiting(gate)'
    <2> SUFFICES ASSUME DInv, Waiting(gate), [DNext]_dvars PROVE Waiting(gate')
      BY DEF Waiting, Chains, Behind
    <2> QED BY StepHeeds
  <1> QED BY <1>1, <1>2, DInvAlways, PTL DEF DSpec

(* "Shut up" is final under the handlers too (speaker-gate.ts:274-288).    *)
THEOREM FlushFinalUnderHandlers == DSpec => FlushIsFinal
  <1>1. DInv /\ Waiting(gate) /\ Once(gate) /\ [DNext]_dvars
           => [IdsOf(gate.abandoned) \cap Sounding(gate') \subseteq Sounding(gate)]_vars
    BY StepHeeds, SilentFact, GateNumbers DEF DInv
  <1>2. DSpec => []Once(gate)
    BY NothingForgottenInv, PTL
  <1> QED BY <1>1, <1>2, WaitingAlways, DInvAlways, PTL DEF DSpec, FlushIsFinal

-----------------------------------------------------------------------------
(* The barrier keeps the chain calm.                                       *)

LEMMA CalmSame ==
    ASSUME NEW g, GateInv(g), Calm(g), NEW k, k.playChain = g.playChain, Follows(g, k)
    PROVE  Calm(k)
  <1> SUFFICES ASSUME k.answerActive, NEW i \in DOMAIN k.playChain,
                      Outside(k.playChain[i]), k.playChain[i].phase = "queued"
               PROVE  Past(k, k.playChain[i])
    BY DEF Calm
  <1>1. /\ g.dialogEpoch \in Nat /\ k.dialogEpoch \in Nat
        /\ g.dialogEpoch <= k.dialogEpoch /\ g.answerActive
    BY GateNumbers DEF Follows
  <1>2. g.playChain[i] \in Task
    BY GateNumbers, TasksTyped
  <1>3. g.playChain[i].kind # "music" /\ g.playChain[i].epoch \in Nat
    BY <1>2 DEF Outside, OutsideKind, Task
  <1>4. Past(g, g.playChain[i])
    BY <1>1 DEF Calm
  <1> QED BY <1>1, <1>3, <1>4 DEF Past

LEMMA CalmAppend ==
    ASSUME NEW g \in GateState, Calm(g), NEW t \in Task, ~Outside(t)
    PROVE  Calm(enqueueTask(g, t))
  <1> DEFINE k == enqueueTask(g, t)
             d == Append(g.playChain, t)
  <1>1. /\ k.playChain = d /\ k.answerActive = g.answerActive
        /\ k.dialogEpoch = g.dialogEpoch /\ k.musicEpoch = g.musicEpoch
    BY Zenon DEF enqueueTask, GateState
  <1>2. g.playChain \in Seq(Task)
    BY DEF GateState
  <1>3. \A i \in DOMAIN d : \/ i \in DOMAIN g.playChain /\ d[i] = g.playChain[i]
                            \/ d[i] = t
    BY <1>2, AppendFact
  <1> HIDE DEF k, d
  <1>4. Calm(k)
    BY <1>1, <1>3 DEF Calm, Past
  <1> QED BY <1>4 DEF k

LEMMA CalmDelay ==
    ASSUME NEW g \in GateState, Calm(g), NEW t  PROVE Calm(chainOrDelay(g, t))
  <1>1. CASE g.answerActive
    <2>1. /\ chainOrDelay(g, t).playChain = g.playChain
          /\ chainOrDelay(g, t).dialogEpoch = g.dialogEpoch
          /\ chainOrDelay(g, t).musicEpoch = g.musicEpoch
      BY <1>1, Zenon DEF chainOrDelay, GateState
    <2> QED BY <1>1, <2>1 DEF Calm, Past
  <1>2. CASE ~g.answerActive
    <2>1. ~chainOrDelay(g, t).answerActive
      BY <1>2, Zenon DEF chainOrDelay, enqueueTask, GateState
    <2> QED BY <2>1 DEF Calm
  <1> QED BY <1>1, <1>2

LEMMA CalmText ==
    ASSUME NEW g, GateInv(g), Calm(g), NEW e \in 0..g.dialogEpoch
    PROVE  /\ Calm(enqueueChunk(g, e)) /\ Calm(enqueuePlay(g, e))
           /\ Calm(enqueueWakeUp(g, e))
  <1>1. g \in GateState /\ e \in Nat
    BY GateNumbers
  <1>2. LET t == NewTask(g, "chunk", e, NoUrl) IN t \in Task /\ t.kind = "chunk"
    BY <1>1, NewTaskFact DEF TextKind, Kind
  <1> QED BY <1>1, <1>2, CalmAppend, CalmDelay
          DEF enqueueChunk, enqueuePlay, enqueueWakeUp, Outside, OutsideKind

LEMMA CalmResume ==
    ASSUME NEW g, GateInv(g), Calm(g), NEW u \in Url \cup {NoUrl}
    PROVE  Calm(resumeMusic(g, u))
  <1>1. CASE u = NoUrl
    BY <1>1 DEF resumeMusic
  <1>2. CASE u # NoUrl
    <2> DEFINE k == [g EXCEPT !.musicEpoch = @ + 1]
               t == NewTask(g, "music", g.musicEpoch + 1, u)
    <2>1. resumeMusic(g, u) = playUrlNow(g, u) /\ u \in Url
      BY <1>2 DEF resumeMusic
    <2>2. playUrlNow(g, u) = enqueueTask(k, t)
      BY Zenon DEF playUrlNow
    <2>3. g \in GateState /\ g.musicEpoch + 1 \in Nat /\ g.dialogEpoch \in Nat
      BY GateNumbers
    <2>4. /\ k \in GateState /\ k.playChain = g.playChain
          /\ k.answerActive = g.answerActive /\ k.dialogEpoch = g.dialogEpoch
      BY <2>3, Zenon DEF GateState
    <2>5. t \in Task /\ t.kind = "music"
      BY <2>1, <2>3, NewTaskFact DEF Kind
    <2> HIDE DEF k, t
    <2>6. Calm(k)
      BY <2>4 DEF Calm, Past, Outside, OutsideKind
    <2> QED BY <2>1, <2>2, <2>4, <2>5, <2>6, CalmAppend DEF Outside, OutsideKind
  <1> QED BY <1>1, <1>2

(* The new dialog puts what was queued before the answer in the past.      *)
LEMMA CalmBegins ==
    ASSUME NEW g, GateInv(g)  PROVE Calm(beginAnswer(newDialog(g)))
  <1> DEFINE k == beginAnswer(newDialog(g))
  <1>1. /\ newDialog(g) \in GateState /\ newDialog(g).dialogEpoch = g.dialogEpoch + 1
        /\ GateInv(newDialog(g)) /\ g \in GateState
    BY NewDialogInv, GateNumbers
  <1>2. k.dialogEpoch = g.dialogEpoch + 1
    BY <1>1, BeginAnswerFields
  <1>3. k.playChain = g.playChain
    BY <1>1, FlagsSame DEF SamePlaces
  <1> HIDE DEF k
  <1>4. \A i \in DOMAIN k.playChain : k.playChain[i] \in Task /\ NotFuture(g, k.playChain[i])
    BY <1>1, <1>3, TasksTyped DEF GateInv
  <1>5. \A i \in DOMAIN k.playChain :
           Outside(k.playChain[i]) => k.playChain[i].epoch < k.dialogEpoch
                                      /\ k.playChain[i].kind # "music"
    BY <1>1, <1>2, <1>4 DEF NotFuture, Outside, OutsideKind, Task, GateState
  <1>6. Calm(k)
    BY <1>5 DEF Calm, Past
  <1> QED BY <1>6 DEF k

LEMMA CalmReplace ==
    ASSUME NEW g \in GateState, Calm(g), NEW c \in Chains(g), NEW d,
           \A j \in DOMAIN d : Outside(d[j]) /\ d[j].phase = "queued" =>
               \E i \in DOMAIN c : c[i] = d[j],
           NEW k, SameFlags(g, k),
           LET r == ReplaceChain(g, c, d) IN k.playChain = r.playChain
    PROVE  Calm(k)
  <1>1. k.playChain = g.playChain \/ (c = g.playChain /\ k.playChain = d)
    <2>1. CASE c = g.playChain
      BY <2>1, Zenon DEF ReplaceChain, GateState
    <2>2. CASE c # g.playChain
      BY <2>2, Zenon DEF ReplaceChain, GateState
    <2> QED BY <2>1, <2>2
  <1>2. ASSUME NEW t, Outside(t)
        PROVE  Past(k, t) <=> Past(g, t)
    BY <1>2 DEF SameFlags, Past, Outside, OutsideKind
  <1> QED BY <1>1, <1>2 DEF Calm, SameFlags

LEMMA CalmChain ==
    ASSUME NEW g, GateInv(g), Calm(g), NEW c \in Chains(g), c # <<>>
    PROVE  Calm(StartTask(g, c)) /\ Calm(CallReturned(g, c))
  <1>1. g \in GateState /\ c \in Seq(Task)
    BY GateNumbers, TasksTyped DEF Chains
  <1>2. Calm(Settle(g, c))
        /\ \A u : Calm([Settle(g, c) EXCEPT !.lastMusicUrl = u, !.musicActive = TRUE])
    <2> DEFINE k == Settle(g, c)
               l(u) == [k EXCEPT !.lastMusicUrl = u, !.musicActive = TRUE]
               r == ReplaceChain(g, c, Tail(c))
    <2>1. /\ k.playChain = r.playChain
          /\ \A u : l(u).playChain = r.playChain
      <3>1. CASE c = g.playChain
        BY <1>1, <3>1, Zenon DEF Settle, ReplaceChain, GateState
      <3>2. CASE c # g.playChain
        BY <1>1, <3>2, Zenon DEF Settle, ReplaceChain, GateState
      <3> QED BY <3>1, <3>2
    <2>2. SameFlags(g, k) /\ k \in GateState
      BY SettleFlags, SettleInv DEF GateInv
    <2>3. \A u : SameFlags(g, l(u))
      <3>1. \A u : SameFlags(k, l(u))
        BY <2>2, Zenon DEF GateState, SameFlags
      <3> QED BY <2>2, <3>1 DEF SameFlags
    <2>4. \A j \in DOMAIN Tail(c) : \E i \in DOMAIN c : c[i] = Tail(c)[j]
      BY <1>1, TailFact
    <2> HIDE DEF k, l
    <2>5. Calm(k) /\ \A u : Calm(l(u))
      BY <1>1, <2>1, <2>2, <2>3, <2>4, CalmReplace
    <2> QED BY <2>5 DEF k, l
  <1>3. ASSUME NEW p \in Phase, p # "queued"  PROVE Calm(SetPhase(g, c, p))
    <2> DEFINE u == [Head(c) EXCEPT !.phase = p]
               d == [c EXCEPT ![1] = u]
    <2>1. 1 \in DOMAIN c /\ Head(c) = c[1] /\ c[1] \in Task
      BY <1>1, TailFact
    <2>2. u \in Task /\ u.phase = p
      BY <2>1, PhaseFact
    <2> HIDE DEF u
    <2>3. /\ DOMAIN d = DOMAIN c /\ d[1] = u
          /\ \A i \in DOMAIN c : i # 1 => d[i] = c[i]
      BY <1>1, <2>2, HeadFact
    <2>4. SetPhase(g, c, p) = ReplaceChain(g, c, d)
      BY Zenon DEF SetPhase, u
    <2> HIDE DEF d
    <2>5. \A j \in DOMAIN d : d[j].phase = "queued" => \E i \in DOMAIN c : c[i] = d[j]
      BY <1>3, <2>2, <2>3
    <2>6. SameFlags(g, ReplaceChain(g, c, d))
      BY <1>1, ReplaceChainFlags
    <2> QED BY <1>1, <2>4, <2>5, <2>6, CalmReplace
  <1>4. Calm(StartTask(g, c))
    <2>1. FirstPhase(Head(c).kind) \in Phase /\ FirstPhase(Head(c).kind) # "queued"
      BY DEF FirstPhase, Phase
    <2> QED BY <1>2, <1>3, <2>1, Zenon DEF StartTask
  <1>5. Calm(CallReturned(g, c))
    <2>0. "killing" \in Phase /\ "launching" \in Phase
      BY DEF Phase
    <2>1. CASE Head(c).phase = "stopping"
      BY <1>3, <2>0, <2>1 DEF CallReturned
    <2>2. CASE Head(c).phase = "killing" /\ ~Expired(g, Head(c))
      BY <1>3, <2>0, <2>2 DEF CallReturned
    <2>3. CASE Head(c).phase = "launching"
      BY <1>2, <2>3 DEF CallReturned
    <2>4. CASE /\ Head(c).phase # "stopping"
               /\ ~(Head(c).phase = "killing" /\ ~Expired(g, Head(c)))
               /\ Head(c).phase # "launching"
      BY <1>2, <2>4 DEF CallReturned
    <2> QED BY <2>1, <2>2, <2>3, <2>4
  <1> QED BY <1>4, <1>5

LEMMA CalmStep ==
    ASSUME DInv, Calm(gate), [DNext]_dvars  PROVE Calm(gate')
  <1>1. GateInv(gate) /\ gate \in GateState
    BY GateNumbers DEF DInv
  <1>2. ASSUME ~gate'.answerActive  PROVE Calm(gate')
    BY <1>2 DEF Calm
  <1>3. /\ Calm(newDialog(gate)) /\ Calm(stopMusic(gate))
        /\ Calm(pauseMusicForAnswer(gate))
        /\ \A f \in BOOLEAN : Calm(ProbeAnswered(gate, f))
    BY <1>1, CalmSame, FlagsSame, NewDialogFollows, StopMusicFollows, PauseMusicFollows,
       ProbeFollows DEF SamePlaces
  <1>4. ASSUME NEW m \in Msg, Arrive(m) \/ OnMessage(m)  PROVE Calm(gate')
    <2>1. /\ h[m].epoch \in 0..gate.dialogEpoch /\ h[m].resumeUrl \in Url \cup {NoUrl}
      BY EpochInRange DEF Proc
    <2>2. ASSUME NEW g, GateInv(g), FinishAnswer(m, g)  PROVE Calm(gate')
      <3>1. gate' \in {endAnswer(g), resumeMusic(endAnswer(g), h[m].resumeUrl)}
        BY <2>2 DEF FinishAnswer
      <3> QED BY <1>2, <2>1, <2>2, <3>1, Ended
    <2>3. CASE Arrive(m)
      BY <1>3, <2>3 DEF Arrive, ArriveStop, ArriveWakeWord, ArriveQuestion
    <2>4. CASE FlushAfterPause(m)
      <3>1. GateInv(flushPlayQueue(gate)) /\ ~flushPlayQueue(gate).answerActive
        BY <1>1, FlushFollows DEF Follows
      <3>2. ~stopMusic(flushPlayQueue(gate)).answerActive
        BY <3>1, StopMusicFollows
      <3> QED BY <1>2, <2>4, <3>2 DEF FlushAfterPause
    <2>5. CASE \/ ConfirmOrRestart(m) \/ Confirmed(m) \/ Restarted(m) \/ MusicPaused(m)
               \/ BridgeUp(m) \/ ChunkPlayed(m) \/ WokenUp(m)
      BY <2>5 DEF ConfirmOrRestart, Confirmed, Restarted, MusicPaused, BridgeUp,
                  ChunkPlayed, WokenUp
    <2>6. CASE BridgeDown(m)
      BY <1>3, <2>6 DEF BridgeDown
    <2>7. CASE LlmAnswered(m) \/ ReadChunk(m) \/ KeepOpen(m)
      BY <1>1, <2>1, <2>7, CalmText DEF LlmAnswered, ReadChunk, KeepOpen
    <2>8. CASE FallbackPlayed(m) \/ NoStream(m)
      BY <1>1, <2>1, <2>8, CalmResume DEF FallbackPlayed, NoStream
    <2>9. CASE StreamOpened(m)
      BY <1>1, <2>9, CalmBegins DEF StreamOpened
    <2>10. CASE ReadInterrupted(m)
      BY <1>1, <2>2, <2>10, NewDialogInv DEF ReadInterrupted
    <2>11. CASE ReadEnd(m)
      BY <1>1, <2>2, <2>11 DEF ReadEnd
    <2>12. CASE ReadThrows(m)
      BY <1>1, <1>2, <2>12, EndAnswerFollows DEF ReadThrows
    <2> QED BY <1>4, <2>3, <2>4, <2>5, <2>6, <2>7, <2>8, <2>9, <2>10, <2>11, <2>12
            DEF OnMessage
  <1>5. ASSUME NEW p \in Push, PlayRequest(p) \/ HandlePlay(p)  PROVE Calm(gate')
    <2>1. h[p].epoch \in 0..gate.dialogEpoch
      BY EpochInRange DEF Proc
    <2>2. CASE PlayRequest(p)
      BY <1>3, <2>2 DEF PlayRequest
    <2>3. CASE PlayQueued(p) \/ KeepOpen(p)
      BY <1>1, <2>1, <2>3, CalmText DEF PlayQueued, KeepOpen
    <2>4. CASE Played(p) \/ WokenUp(p)
      BY <2>4 DEF Played, WokenUp
    <2> QED BY <1>5, <2>2, <2>3, <2>4 DEF HandlePlay
  <1>6. ASSUME NEW s \in Song, PlayUrlRequest(s)  PROVE Calm(gate')
    <2>1. PICK u \in Url : gate' = playUrlNow(gate, u)
      BY <1>6 DEF PlayUrlRequest
    <2>2. gate' = resumeMusic(gate, u)
      BY <2>1, GateAssumption DEF resumeMusic
    <2> QED BY <1>1, <2>2, CalmResume
  <1>7. CASE ChainStep
    BY <1>1, <1>7, CalmChain DEF ChainStep, Start, Return, Startable, Awaiting
  <1>8. CASE ProbeStep
    BY <1>3, <1>8 DEF ProbeStep, Probe
  <1>9. CASE AllDone \/ UNCHANGED dvars
    BY <1>9 DEF AllDone, dvars
  <1> QED BY <1>4, <1>5, <1>6, <1>7, <1>8, <1>9 DEF DNext

LEMMA CalmAlways == DSpec => []Calm(gate)
  <1>1. DInit => Calm(gate)
    BY DEF DInit, Init, InitGate, Calm
  <1>2. DInv /\ Calm(gate) /\ [DNext]_dvars => Calm(gate)'
    <2> SUFFICES ASSUME DInv, Calm(gate), [DNext]_dvars PROVE Calm(gate')
      BY DEF Calm, Past
    <2> QED BY CalmStep
  <1> QED BY <1>1, <1>2, DInvAlways, PTL DEF DSpec

LEMMA CalmIsQuiet ==
    ASSUME NEW g \in GateState, Calm(g), g.answerActive, NEW k, Heeds(g, k)
    PROVE  OutsideSounding(k) \subseteq OutsideSounding(g)
  <1> SUFFICES ASSUME NEW d \in Chains(k), Loud(d), Outside(d[1])
               PROVE  \E c \in Chains(g) : Loud(c) /\ c[1] = d[1]
    BY DEF OutsideSounding, Loud, Outside
  <1> SUFFICES ASSUME Fresh(g, d[1]) PROVE FALSE
    BY DEF Heeds
  <1>1. g.playChain \in Seq(Task)
    BY DEF GateState
  <1>2. 1 \in DOMAIN g.playChain
    BY <1>1, TailFact DEF Fresh
  <1>3. Outside(g.playChain[1]) /\ g.playChain[1].phase = "queued"
    BY DEF Fresh, Outside, OutsideKind
  <1> QED BY <1>2, <1>3 DEF Fresh, Calm

(* While the barrier is up, no announcement from outside starts, however   *)
(* the handlers overlap: what was queued before the answer is past, what   *)
(* comes after it is held back (rule 1 of speaker-gate.ts, 4-6, for what   *)
(* passes through chainOrDelay).                                           *)
THEOREM BarrierQuiet == DSpec => BarrierKeepsOutsideOut
<1>1. DInv /\ Waiting(gate) /\ Calm(gate) /\ [DNext]_dvars
         => [gate.answerActive
               => OutsideSounding(gate') \subseteq OutsideSounding(gate)]_dvars
  BY StepHeeds, CalmIsQuiet, GateNumbers DEF DInv
<1> QED BY <1>1, DInvAlways, WaitingAlways, CalmAlways, PTL
        DEF DSpec, BarrierKeepsOutsideOut

-----------------------------------------------------------------------------
(* The order of arrival, under the handlers: they call several functions   *)
(* of the gate in one step, and in orders of their own.                    *)

LEMMA PlacesInLine ==
    ASSUME NEW g, InLine(g), NEW k, SamePlaces(g, k)  PROVE InLine(k)
  BY DEF SamePlaces, InLine

LEMMA TextInLine ==
    ASSUME NEW g, GateInv(g), Once(g), InLine(g), NEW e \in 0..g.dialogEpoch
    PROVE  /\ InLine(enqueueChunk(g, e)) /\ InLine(enqueuePlay(g, e))
           /\ InLine(enqueueWakeUp(g, e))
  <1>1. g \in GateState /\ e \in Nat
    BY GateNumbers
  <1>2. ASSUME NEW kind \in TextKind
        PROVE  LET t == NewTask(g, kind, e, NoUrl)
               IN t \in Task /\ t.id = g.nextTask /\ t.kind = kind
    BY <1>1, NewTaskFact DEF Kind
  <1>3. InLine(enqueueChunk(g, e))
    BY <1>1, <1>2, AppendInLine DEF enqueueChunk, TextKind, Outside, OutsideKind
  <1>4. InLine(enqueuePlay(g, e)) /\ InLine(enqueueWakeUp(g, e))
    BY <1>1, <1>2, DelayInLine DEF enqueuePlay, enqueueWakeUp, TextKind
  <1> QED BY <1>3, <1>4

LEMMA ResumeInLine ==
    ASSUME NEW g, GateInv(g), Once(g), InLine(g), NEW u \in Url \cup {NoUrl}
    PROVE  InLine(resumeMusic(g, u))
  BY GateNumbers, PlayUrlNowInLine DEF resumeMusic

(* What held back what came first is at the end of the chain before what   *)
(* comes next is put there.                                                *)
LEMMA EndedInLine ==
    ASSUME NEW g, GateInv(g), Once(g), InLine(g), NEW u \in Url \cup {NoUrl}
    PROVE  InLine(endAnswer(g)) /\ InLine(resumeMusic(endAnswer(g), u))
  <1>1. InLine(endAnswer(g)) /\ GateInv(endAnswer(g)) /\ Once(endAnswer(g))
    BY EndAnswerGrows, EndAnswerInLine, GateNumbers DEF Grows
  <1> QED BY <1>1, ResumeInLine

LEMMA SentenceInLine ==
    ASSUME DInv, Once(gate), InLine(gate), NEW m \in Msg, Arrive(m) \/ OnMessage(m)
    PROVE  InLine(gate')
  <1>1. /\ GateInv(gate) /\ gate \in GateState /\ h[m].epoch \in 0..gate.dialogEpoch
        /\ h[m].resumeUrl \in Url \cup {NoUrl}
    BY EpochInRange, GateNumbers DEF DInv, Proc
  <1>2. /\ InLine(newDialog(gate)) /\ InLine(stopMusic(gate))
        /\ InLine(pauseMusicForAnswer(gate))
    BY <1>1, FlagsSame, PlacesInLine
  <1>3. ASSUME NEW g, GateInv(g), Once(g), InLine(g), FinishAnswer(m, g)
        PROVE  InLine(gate')
    <2>1. gate' \in {endAnswer(g), resumeMusic(endAnswer(g), h[m].resumeUrl)}
      BY <1>3 DEF FinishAnswer
    <2> QED BY <1>1, <1>3, <2>1, EndedInLine
  <1>4. CASE Arrive(m)
    BY <1>2, <1>4 DEF Arrive, ArriveStop, ArriveWakeWord, ArriveQuestion
  <1>5. CASE FlushAfterPause(m)
    <2> DEFINE g == flushPlayQueue(gate)
    <2>1. g \in GateState /\ InLine(g)
      BY <1>1, FlushInLine, FlushInv, GateNumbers
    <2>2. InLine(stopMusic(g))
      BY <2>1, FlagsSame, PlacesInLine
    <2> QED BY <1>5, <2>2 DEF FlushAfterPause
  <1>6. CASE \/ ConfirmOrRestart(m) \/ Confirmed(m) \/ Restarted(m) \/ MusicPaused(m)
             \/ BridgeUp(m) \/ ChunkPlayed(m) \/ WokenUp(m)
    BY <1>6 DEF ConfirmOrRestart, Confirmed, Restarted, MusicPaused, BridgeUp,
                ChunkPlayed, WokenUp
  <1>7. CASE BridgeDown(m)
    BY <1>2, <1>7 DEF BridgeDown
  <1>8. CASE LlmAnswered(m) \/ ReadChunk(m) \/ KeepOpen(m)
    BY <1>1, <1>8, TextInLine DEF LlmAnswered, ReadChunk, KeepOpen
  <1>9. CASE FallbackPlayed(m) \/ NoStream(m)
    BY <1>1, <1>9, ResumeInLine DEF FallbackPlayed, NoStream
  <1>10. CASE StreamOpened(m)
    <2>1. newDialog(gate) \in GateState
      BY <1>1, NewDialogInv, GateNumbers
    <2>2. InLine(beginAnswer(newDialog(gate)))
      BY <1>2, <2>1, FlagsSame, PlacesInLine
    <2> QED BY <1>10, <2>2 DEF StreamOpened
  <1>11. CASE ReadInterrupted(m)
    <2>1. GateInv(newDialog(gate)) /\ Once(newDialog(gate))
      BY <1>1, FlagsGrow DEF Grows
    <2> QED BY <1>2, <1>3, <1>11, <2>1 DEF ReadInterrupted
  <1>12. CASE ReadEnd(m)
    BY <1>1, <1>3, <1>12 DEF ReadEnd
  <1>13. CASE ReadThrows(m)
    BY <1>1, <1>13, EndAnswerInLine DEF ReadThrows
  <1> QED BY <1>4, <1>5, <1>6, <1>7, <1>8, <1>9, <1>10, <1>11, <1>12, <1>13 DEF OnMessage

LEMMA InLineStep ==
    ASSUME DInv, Once(gate), InLine(gate), [DNext]_dvars  PROVE InLine(gate')
  <1>1. GateInv(gate) /\ gate \in GateState
    BY GateNumbers DEF DInv
  <1>2. ASSUME NEW p \in Push, PlayRequest(p) \/ HandlePlay(p)  PROVE InLine(gate')
    <2>1. h[p].epoch \in 0..gate.dialogEpoch
      BY EpochInRange DEF Proc
    <2>2. CASE PlayRequest(p)
      BY <1>1, <2>2, FlagsSame, PlacesInLine DEF PlayRequest
    <2>3. CASE PlayQueued(p) \/ KeepOpen(p)
      BY <1>1, <2>1, <2>3, TextInLine DEF PlayQueued, KeepOpen
    <2>4. CASE Played(p) \/ WokenUp(p)
      BY <2>4 DEF Played, WokenUp
    <2> QED BY <1>2, <2>2, <2>3, <2>4 DEF HandlePlay
  <1>3. ASSUME NEW s \in Song, PlayUrlRequest(s)  PROVE InLine(gate')
    BY <1>1, <1>3, PlayUrlNowInLine DEF PlayUrlRequest
  <1>4. CASE ChainStep
    BY <1>1, <1>4, StartTaskInLine, CallReturnedInLine
       DEF ChainStep, Start, Return, Startable, Awaiting
  <1>5. CASE ProbeStep
    BY <1>1, <1>5, FlagsSame, PlacesInLine DEF ProbeStep, Probe
  <1>6. CASE AllDone \/ UNCHANGED dvars
    BY <1>6 DEF AllDone, dvars
  <1> QED BY <1>2, <1>3, <1>4, <1>5, <1>6, SentenceInLine DEF DNext

(* Announcements keep their order of arrival whatever the handlers do in   *)
(* between (speaker-gate.ts:6): answers that begin, end and interrupt each *)
(* other, stop words, songs that resume.                                   *)
THEOREM ArrivalOrderUnderHandlers == DSpec => []OutsideInOrder
  <1>1. DInit => InLine(gate)
    BY EmptyInLine DEF DInit, Init, InitGate, InLine
  <1>2. DInv /\ InLine(gate) => OutsideInOrder
    <2> SUFFICES ASSUME DInv, InLine(gate) PROVE OutsideInOrder
      OBVIOUS
    <2>1. gate.playChain \in Seq(Task) /\ gate.pendingAfterAnswer \in Seq(Task)
      BY DEF DInv, GateInv, GateState
    <2>2. Ordered(gate.playChain \o gate.pendingAfterAnswer)
      BY <2>1, OrderedConcat DEF InLine
    <2> QED BY <2>2, Zenon DEF Ordered, Outside, OutsideInOrder
  <1>3. DInv /\ Once(gate) /\ InLine(gate) /\ [DNext]_dvars => InLine(gate)'
    <2> SUFFICES ASSUME DInv, Once(gate), InLine(gate), [DNext]_dvars PROVE InLine(gate')
      BY DEF InLine, Ordered, Before, Outside
    <2> QED BY InLineStep
  <1>4. DSpec => []Once(gate)
    BY NothingForgottenInv, PTL
  <1> QED BY <1>1, <1>2, <1>3, <1>4, DInvAlways, PTL DEF DSpec
=============================================================================
