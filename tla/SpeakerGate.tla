---------------------------- MODULE SpeakerGate ----------------------------
(***************************************************************************)
(* The playback gate of migpt (migpt/migpt/speaker-gate.ts): one serial    *)
(* promise chain for everything the speaker says, the barrier that holds   *)
(* back "outside" announcements while a streamed answer is read out, the   *)
(* dialog epoch and the music epoch that expire what is still queued.      *)
(*                                                                         *)
(* The module-level variables of the source are one record, and every      *)
(* exported function of the gate is an operator from a gate to a gate: a   *)
(* synchronous block of JavaScript that calls two functions is the         *)
(* composition of two operators, and becomes one atomic step.              *)
(*                                                                         *)
(* Next is the most general client: any function, in any order.  Module    *)
(* Dialogue replaces it with the handlers that really call the gate.       *)
(***************************************************************************)
EXTENDS Integers, Sequences, FiniteSets

CONSTANTS Url,        \* the audio URLs that pass isValidPlayUrl
          NoUrl,      \* the empty string: no URL remembered
          MaxTask,    \* bound: tasks ever created
          MaxEpoch    \* bound: dialog epochs and music epochs

ASSUME GateAssumption ==
    /\ NoUrl \notin Url
    /\ MaxTask \in Nat
    /\ MaxEpoch \in Nat

VARIABLE gate

-----------------------------------------------------------------------------
(* Tasks: the closures given to enqueueTask and chainOrDelay.              *)

TextKind == {"chunk", "play", "wake"}
OutsideKind == {"play", "wake"}          \* the callers of chainOrDelay
Kind == TextKind \cup {"music"}

(* Where the closure is: not started, or awaiting the backend call of that *)
(* name.  "stopping" and "killing" precede the second epoch check.         *)
Phase == {"queued", "speaking", "waking", "stopping", "killing", "launching"}

Task == [id : Nat \ {0}, kind : Kind, epoch : Nat, url : Url \cup {NoUrl},
         phase : Phase]

GateState ==
    [playChain         : Seq(Task),
     abandoned         : SUBSET Seq(Task),   \* chains a flush left behind
     pendingAfterAnswer: Seq(Task),
     answerActive      : BOOLEAN,
     dialogEpoch       : Nat,
     musicEpoch        : Nat,
     musicActive       : BOOLEAN,
     lastMusicUrl      : Url \cup {NoUrl},
     probing           : BOOLEAN,            \* the start-up pidof is under way
     settled           : SUBSET Nat,         \* tasks whose promise has settled
     nextTask          : Nat \ {0}]

Chains(g) == {g.playChain} \cup g.abandoned

Ids(chain) == {chain[i].id : i \in DOMAIN chain}

IdsOf(chains) == UNION {Ids(c) : c \in chains}

(* The epoch check at the head of every closure: "expired, drop it".       *)
Expired(g, t) ==
    IF t.kind = "music" THEN t.epoch # g.musicEpoch ELSE t.epoch # g.dialogEpoch

InitGate ==
    [playChain |-> <<>>, abandoned |-> {}, pendingAfterAnswer |-> <<>>,
     answerActive |-> FALSE, dialogEpoch |-> 0, musicEpoch |-> 0,
     musicActive |-> FALSE, lastMusicUrl |-> NoUrl, probing |-> TRUE,
     settled |-> {}, nextTask |-> 1]

-----------------------------------------------------------------------------
(* The exported functions.                                                 *)

NewTask(g, kind, epoch, url) ==
    [id |-> g.nextTask, kind |-> kind, epoch |-> epoch, url |-> url,
     phase |-> "queued"]

enqueueTask(g, t) ==
    [g EXCEPT !.playChain = Append(@, t), !.nextTask = @ + 1]

(* Faulty variant: the barrier is ignored. *)
chainAtOnce(g, t) == enqueueTask(g, t)

chainOrDelay(g, t) ==
    IF g.answerActive
    THEN [g EXCEPT !.pendingAfterAnswer = Append(@, t), !.nextTask = @ + 1]
    ELSE enqueueTask(g, t)

enqueueChunk(g, epoch) == enqueueTask(g, NewTask(g, "chunk", epoch, NoUrl))

enqueuePlay(g, epoch) == chainOrDelay(g, NewTask(g, "play", epoch, NoUrl))

enqueueWakeUp(g, epoch) == chainOrDelay(g, NewTask(g, "wake", epoch, NoUrl))

(* A new song expires the ones before it at once; its own work queues on   *)
(* the chain, not behind the answer barrier.                               *)
playUrlNow(g, url) ==
    enqueueTask([g EXCEPT !.musicEpoch = @ + 1],
                NewTask(g, "music", g.musicEpoch + 1, url))

beginAnswer(g) == [g EXCEPT !.answerActive = TRUE]

(* Faulty variants: the held-back list is left where it is; it is thrown   *)
(* away; it jumps the queue.                                               *)
endAnswerForgets(g) == [g EXCEPT !.answerActive = FALSE]
endAnswerDrops(g) ==
    [g EXCEPT !.answerActive = FALSE, !.pendingAfterAnswer = <<>>]
endAnswerJumps(g) ==
    [g EXCEPT !.answerActive = FALSE,
              !.playChain = g.pendingAfterAnswer \o @,
              !.pendingAfterAnswer = <<>>]

(* Idempotent: what was held back goes to the chain in order of arrival.   *)
endAnswer(g) ==
    [g EXCEPT !.answerActive = FALSE,
              !.playChain = @ \o g.pendingAfterAnswer,
              !.pendingAfterAnswer = <<>>]

newDialog(g) == [g EXCEPT !.dialogEpoch = @ + 1]

(* The synchronous part: after it the function awaits the kill command.    *)
stopMusic(g) ==
    [g EXCEPT !.musicEpoch = @ + 1, !.musicActive = FALSE, !.lastMusicUrl = NoUrl]

(* The synchronous part: the URL is read after the kill has been awaited.  *)
pauseMusicForAnswer(g) ==
    IF g.musicActive
    THEN [g EXCEPT !.musicEpoch = @ + 1, !.musicActive = FALSE]
    ELSE g

(* Faulty variants of the flush below: held-back callers are never told;   *)
(* the songs, or the speech, left on the old chain stay current.           *)
flushUnsettled(g) ==
    stopMusic([g EXCEPT !.dialogEpoch = @ + 1,
                        !.abandoned = (@ \cup {g.playChain}) \ {<<>>},
                        !.playChain = <<>>, !.answerActive = FALSE,
                        !.pendingAfterAnswer = <<>>])
flushKeepsMusic(g) ==
    [g EXCEPT !.dialogEpoch = @ + 1,
              !.abandoned = (@ \cup {g.playChain}) \ {<<>>},
              !.playChain = <<>>, !.answerActive = FALSE,
              !.settled = @ \cup Ids(g.pendingAfterAnswer),
              !.pendingAfterAnswer = <<>>]
flushKeepsSpeech(g) ==
    stopMusic([flushKeepsMusic(g) EXCEPT !.dialogEpoch = g.dialogEpoch])

(* A new chain; the old one keeps running on its own.  Held-back tasks are *)
(* settled as dropped.                                                     *)
flushPlayQueue(g) ==
    stopMusic([g EXCEPT !.dialogEpoch = @ + 1,
                        !.abandoned = (@ \cup {g.playChain}) \ {<<>>},
                        !.playChain = <<>>,
                        !.answerActive = FALSE,
                        !.settled = @ \cup Ids(g.pendingAfterAnswer),
                        !.pendingAfterAnswer = <<>>])

-----------------------------------------------------------------------------
(* The steps of a chain: a job of the JavaScript runtime each.             *)

ReplaceChain(g, c, d) ==
    IF c = g.playChain
    THEN [g EXCEPT !.playChain = d]
    ELSE [g EXCEPT !.abandoned = (@ \ {c}) \cup ({d} \ {<<>>})]

Settle(g, c) ==
    [ReplaceChain(g, c, Tail(c)) EXCEPT !.settled = @ \cup {Head(c).id}]

SetPhase(g, c, p) ==
    ReplaceChain(g, c, [c EXCEPT ![1] = [Head(c) EXCEPT !.phase = p]])

FirstPhase(kind) ==
    CASE kind = "music" -> "stopping"
      [] kind = "wake"  -> "waking"
      [] OTHER          -> "speaking"

(* The closure at the head of a chain is entered: dropped if expired.      *)
StartTask(g, c) ==
    IF Expired(g, Head(c)) THEN Settle(g, c)
                           ELSE SetPhase(g, c, FirstPhase(Head(c).kind))

(* The backend call the closure awaits has returned.  A song checks its    *)
(* epoch again before the launch, and not after it.                        *)
CallReturned(g, c) ==
    LET t == Head(c) IN
    CASE t.phase = "stopping" -> SetPhase(g, c, "killing")
      [] t.phase = "killing" /\ ~Expired(g, t) -> SetPhase(g, c, "launching")
      [] t.phase = "launching" ->
            [Settle(g, c) EXCEPT !.lastMusicUrl = t.url, !.musicActive = TRUE]
      [] OTHER -> Settle(g, c)

(* Faulty variant: a rejection breaks the chain behind it. *)
CallFailedBreaks(g, c) ==
    [ReplaceChain(g, c, <<>>) EXCEPT !.settled = @ \cup {Head(c).id}]

(* The call rejected: logged, the task's promise rejects, the chain goes   *)
(* on.                                                                     *)
CallFailed(g, c) == Settle(g, c)

(* The start-up probe's answer: miplayer outlived a restart of migpt.      *)
ProbeAnswered(g, found) ==
    [g EXCEPT !.probing = FALSE, !.musicActive = @ \/ found]

Startable(g, c) == c \in Chains(g) /\ c # <<>> /\ Head(c).phase = "queued"
Awaiting(g, c)  == c \in Chains(g) /\ c # <<>> /\ Head(c).phase # "queued"

-----------------------------------------------------------------------------
(* The most general client.                                                *)

Init == gate = InitGate

MayCreate == gate.nextTask <= MaxTask
MayDialog == gate.dialogEpoch < MaxEpoch
MayMusic  == gate.musicEpoch < MaxEpoch

EnqueueChunk  == MayCreate /\ \E e \in 0..gate.dialogEpoch : gate' = enqueueChunk(gate, e)
EnqueuePlay   == MayCreate /\ \E e \in 0..gate.dialogEpoch : gate' = enqueuePlay(gate, e)
EnqueueWakeUp == MayCreate /\ \E e \in 0..gate.dialogEpoch : gate' = enqueueWakeUp(gate, e)
PlayUrlNow    == MayCreate /\ MayMusic /\ \E u \in Url : gate' = playUrlNow(gate, u)
BeginAnswer   == gate' = beginAnswer(gate)
EndAnswer     == gate' = endAnswer(gate)
NewDialog     == MayDialog /\ gate' = newDialog(gate)
StopMusic     == MayMusic /\ gate' = stopMusic(gate)
PauseMusicForAnswer == MayMusic /\ gate' = pauseMusicForAnswer(gate)
FlushPlayQueue == MayDialog /\ MayMusic /\ gate' = flushPlayQueue(gate)

Client ==
    \/ EnqueueChunk \/ EnqueuePlay \/ EnqueueWakeUp \/ PlayUrlNow
    \/ BeginAnswer \/ EndAnswer \/ NewDialog
    \/ StopMusic \/ PauseMusicForAnswer \/ FlushPlayQueue

Start  == \E c \in Chains(gate) : Startable(gate, c) /\ gate' = StartTask(gate, c)
Return == \E c \in Chains(gate) : Awaiting(gate, c) /\ gate' = CallReturned(gate, c)
Fail   == \E c \in Chains(gate) : Awaiting(gate, c) /\ gate' = CallFailed(gate, c)
Probe  == gate.probing /\ \E found \in BOOLEAN : gate' = ProbeAnswered(gate, found)

Next == Client \/ Start \/ Return \/ Fail \/ Probe

vars == <<gate>>

Spec == Init /\ [][Next]_vars

(* Fairness.  A job whose turn has come runs, and a backend call ends: the *)
(* wait for its reply carries a timeout (10 s for a shell command, 10 min  *)
(* for a blocking play), and the write of the request, which has none      *)
(* (rpc.rs:118), is assumed to end.                                        *)
StepOf(i) ==
    \E c \in Chains(gate) :
        /\ c # <<>> /\ Head(c).id = i
        /\ \/ Startable(gate, c) /\ gate' = StartTask(gate, c)
           \/ Awaiting(gate, c) /\ gate' \in {CallReturned(gate, c), CallFailed(gate, c)}

FairSpec == Spec /\ \A i \in 1..MaxTask : WF_vars(StepOf(i))

-----------------------------------------------------------------------------
(* What the gate promises.                                                 *)

(* The state is of the shape the source declares (speaker-gate.ts:64-142). *)
TypeOK == gate \in GateState

(* An announcement is held back only while an answer is being read out:    *)
(* whichever of endAnswer and flushPlayQueue ends the answer leaves no     *)
(* caller of /play or of a keep-open wake-up waiting for a barrier that is *)
(* already down.                                                           *)
NothingStranded == gate.pendingAfterAnswer # <<>> => gate.answerActive

(* Every task ever created is in exactly one place: settled, held back, or *)
(* once on one chain.  So no awaiting caller is forgotten, and no text is  *)
(* read twice, across flushes, failures and the end of an answer.          *)
Distinct(chains) ==
    \A c, d \in chains : \A i \in DOMAIN c, j \in DOMAIN d :
        c[i].id = d[j].id => c = d /\ i = j
TaskOnce(g) ==
    /\ 1..(g.nextTask - 1)
          = g.settled \cup IdsOf(Chains(g)) \cup Ids(g.pendingAfterAnswer)
    /\ g.settled \cap (IdsOf(Chains(g)) \cup Ids(g.pendingAfterAnswer)) = {}
    /\ IdsOf(Chains(g)) \cap Ids(g.pendingAfterAnswer) = {}
    /\ g.playChain \notin g.abandoned
    /\ Distinct(Chains(g)) /\ Distinct({g.pendingAfterAnswer})
EachTaskOnce == TaskOnce(gate)

(* Epochs only grow: "in the past" is for ever.                            *)
Past(g, t) ==
    IF t.kind = "music" THEN t.epoch < g.musicEpoch ELSE t.epoch < g.dialogEpoch

(* Everything on a chain that a flush left behind has expired for good,    *)
(* songs included (the comment at speaker-gate.ts:274-278).                *)
AbandonedExpired ==
    \A c \in gate.abandoned : \A i \in DOMAIN c : Past(gate, c[i])

(* The announcements from outside an answer keep their order of arrival,   *)
(* whether or not the barrier held some of them back (speaker-gate.ts:6).  *)
OutsideInOrder ==
    LET line == gate.playChain \o gate.pendingAfterAnswer IN
    \A i, j \in DOMAIN line :
        /\ i < j
        /\ line[i].kind \in OutsideKind
        /\ line[j].kind \in OutsideKind
        => line[i].id < line[j].id

(* "Shut up" is final: what a flush found waiting, or not yet launched,    *)
(* never makes a sound on the chain it was left on (speaker-gate.ts:276).  *)
SoundPhase == {"speaking", "waking", "launching"}
Sounding(g) ==
    {c[1].id : c \in {d \in Chains(g) : d # <<>> /\ d[1].phase \in SoundPhase}}
FlushIsFinal ==
    [][IdsOf(gate.abandoned) \cap Sounding(gate') \subseteq Sounding(gate)]_vars

(* One failing or expired task never blocks the ones behind it             *)
(* (speaker-gate.ts:13-16): what is on a chain settles.                    *)
ChainsDrain ==
    \A i \in 1..MaxTask : (i \in IdsOf(Chains(gate))) ~> (i \in gate.settled)

=============================================================================
