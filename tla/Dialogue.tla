------------------------------ MODULE Dialogue ------------------------------
(***************************************************************************)
(* The handlers of migpt around the playback gate: onMessage (config.ts),  *)
(* one run per recognised sentence, and the HTTP endpoints /play and       *)
(* /play_url (index.ts).  Nothing serialises them: xiaoai.ts starts        *)
(* onMessage without awaiting it, so every handler is a process, and its   *)
(* steps are the stretches of JavaScript between two awaits.               *)
(*                                                                         *)
(* The backend behind the gate is speaker.ts, whose runShell never rejects *)
(* (216-234): a call that fails or times out returns, so CallFailed of the *)
(* gate cannot occur here.                                                 *)
(***************************************************************************)
EXTENDS SpeakerGate

CONSTANTS Msg,        \* sentences, numbered as the user says them
          Push,       \* POST /play requests of the bridge
          Song,       \* POST /play_url requests of the bridge
          MsgKind,    \* what the sentences may be
          NoMsg,      \* no sentence yet
          MaxChunk,   \* bound: chunks of a streamed answer
          PauseWorks  \* does mphelper pause always end the speech in flight?

Proc == Msg \cup Push \cup Song

ASSUME DialogueAssumption ==
    /\ MsgKind \subseteq {"ask", "silentStop", "musicStop", "wakeWord"}
    /\ Msg \subseteq Nat /\ NoMsg \notin Msg
    /\ MaxChunk \in Nat
    /\ PauseWorks \in BOOLEAN
    /\ Msg \cap Push = {} /\ Msg \cap Song = {} /\ Push \cap Song = {}

VARIABLES lastMsg,    \* engine.lastMsg
          h           \* the handlers: where each one is, and its locals

dvars == <<gate, lastMsg, h>>

(* The await a handler is suspended at, named for the call.                *)
PC == {"idle", "done",
       "pauseMusic", "bridgeHealthy", "askLlm", "fallbackPlay",    \* a question
       "askAI", "streaming", "chunk", "keepOpen", "wakeUp",
       "setPlaying", "stopMusic", "confirm", "restartAivs",        \* a stop word
       "play"}                                                     \* /play

Heard == {"none", "ask", "silentStop", "musicStop"}

Handler == [pc : PC, kind : Heard, epoch : Nat, awaits : SUBSET Nat,
            resumeUrl : Url \cup {NoUrl}, chunks : Nat]

Idle == [pc |-> "idle", kind |-> "none", epoch |-> 0, awaits |-> {},
         resumeUrl |-> NoUrl, chunks |-> 0]

DInit ==
    /\ Init
    /\ lastMsg = NoMsg
    /\ h = [p \in Proc |-> Idle]

At(p, pc) == h[p].pc = pc

(* The promises the handler awaits have settled.                           *)
Resumed(p) == h[p].awaits \subseteq gate.settled

(* p reaches its next await, or returns.                                   *)
Goto(p, pc) == h' = [h EXCEPT ![p].pc = pc, ![p].awaits = {}]

(* p enqueues one task on the gate and awaits it.                          *)
Await(p, pc) ==
    h' = [h EXCEPT ![p].pc = pc, ![p].awaits = {gate.nextTask}]

Speaking(g) ==
    {c[1].id : c \in {d \in Chains(g) : d # <<>> /\ d[1].phase = "speaking"}}

resumeMusic(g, url) == IF url = NoUrl THEN g ELSE playUrlNow(g, url)

-----------------------------------------------------------------------------
(* onMessage: the branches before the first await.  The engine records the *)
(* newest sentence before it calls onMessage.                              *)

ArriveStop(m, kind) ==
    /\ At(m, "idle") /\ kind \in MsgKind \cap {"silentStop", "musicStop"}
    /\ lastMsg' = m
    /\ h' = [h EXCEPT ![m].pc = "setPlaying", ![m].kind = kind,
                      ![m].awaits = IF PauseWorks THEN Speaking(gate) ELSE {}]
    /\ UNCHANGED gate

ArriveWakeWord(m) ==
    /\ At(m, "idle") /\ "wakeWord" \in MsgKind
    /\ lastMsg' = m
    /\ Goto(m, "done")
    /\ UNCHANGED gate

ArriveQuestion(m) ==
    /\ At(m, "idle") /\ "ask" \in MsgKind
    /\ lastMsg' = m
    /\ gate' = pauseMusicForAnswer(gate)
    /\ h' = [h EXCEPT ![m].kind = "ask",
                      ![m].pc = IF gate.musicActive THEN "pauseMusic"
                                                    ELSE "bridgeHealthy"]

-----------------------------------------------------------------------------
(* A stop word.  The handler awaits the pause command, whose failure       *)
(* runShell hides; one block then flushes the queue and stops the music.   *)
(* The confirmation does not pass through the gate.                        *)

FlushAfterPause(m) ==
    /\ At(m, "setPlaying") /\ Resumed(m)
    /\ gate' = stopMusic(flushPlayQueue(gate))
    /\ Goto(m, "stopMusic")
    /\ UNCHANGED lastMsg

ConfirmOrRestart(m) ==
    /\ At(m, "stopMusic")
    /\ Goto(m, IF h[m].kind = "musicStop" THEN "confirm" ELSE "restartAivs")
    /\ UNCHANGED <<gate, lastMsg>>

Confirmed(m) ==
    /\ At(m, "confirm")
    /\ Goto(m, "restartAivs")
    /\ UNCHANGED <<gate, lastMsg>>

Restarted(m) ==
    /\ At(m, "restartAivs")
    /\ Goto(m, "done")
    /\ UNCHANGED <<gate, lastMsg>>

-----------------------------------------------------------------------------
(* A question.                                                             *)

(* The kill has returned: only now is the URL to resume read.              *)
MusicPaused(m) ==
    /\ At(m, "pauseMusic")
    /\ h' = [h EXCEPT ![m].pc = "bridgeHealthy", ![m].resumeUrl = gate.lastMusicUrl]
    /\ UNCHANGED <<gate, lastMsg>>

BridgeUp(m) ==
    /\ At(m, "bridgeHealthy")
    /\ Goto(m, "askAI")
    /\ UNCHANGED <<gate, lastMsg>>

BridgeDown(m) ==
    /\ At(m, "bridgeHealthy")
    /\ gate' = newDialog(gate)
    /\ h' = [h EXCEPT ![m].pc = "askLlm", ![m].epoch = gate'.dialogEpoch]
    /\ UNCHANGED lastMsg

(* Whatever the model answers, or fails with, something is announced.      *)
LlmAnswered(m) ==
    /\ At(m, "askLlm")
    /\ gate' = enqueuePlay(gate, h[m].epoch)
    /\ Await(m, "fallbackPlay")
    /\ UNCHANGED lastMsg

FallbackPlayed(m) ==
    /\ At(m, "fallbackPlay") /\ Resumed(m)
    /\ gate' = resumeMusic(gate, h[m].resumeUrl)
    /\ Goto(m, "done")
    /\ UNCHANGED lastMsg

NoStream(m) ==
    /\ At(m, "askAI")
    /\ gate' = resumeMusic(gate, h[m].resumeUrl)
    /\ Goto(m, "done")
    /\ UNCHANGED lastMsg

StreamOpened(m) ==
    /\ At(m, "askAI")
    /\ gate' = beginAnswer(newDialog(gate))
    /\ h' = [h EXCEPT ![m].pc = "streaming", ![m].epoch = gate'.dialogEpoch]
    /\ UNCHANGED lastMsg

(* The tail of onMessage once the loop is left with the gate g: endAnswer, *)
(* then what the markers seen in the stream ask for.  A song round and a   *)
(* native answer suppress the wake-up, a song round also the resumption.   *)
FinishAnswer(m, g) ==
    LET resumed == resumeMusic(endAnswer(g), h[m].resumeUrl) IN
    \/ gate' = resumed /\ Goto(m, "done")                     \* native, or no marker
    \/ gate' = endAnswer(g) /\ Goto(m, "done")                \* :music
    \/ /\ h[m].resumeUrl = NoUrl                              \* keep_open
       /\ gate' = endAnswer(g) /\ Goto(m, "keepOpen")

(* A chunk has arrived and the user has not spoken since.                  *)
ReadChunk(m) ==
    /\ At(m, "streaming") /\ lastMsg = m /\ h[m].chunks < MaxChunk
    /\ gate' = enqueueChunk(gate, h[m].epoch)
    /\ h' = [h EXCEPT ![m].pc = "chunk", ![m].awaits = {gate.nextTask},
                      ![m].chunks = @ + 1]
    /\ UNCHANGED lastMsg

(* A chunk has arrived and a newer sentence too: give up this answer.      *)
ReadInterrupted(m) ==
    /\ At(m, "streaming") /\ lastMsg # m
    /\ FinishAnswer(m, newDialog(gate))
    /\ UNCHANGED lastMsg

ReadEnd(m) ==
    /\ At(m, "streaming")
    /\ FinishAnswer(m, gate)
    /\ UNCHANGED lastMsg

(* Faulty variant: no finally clause. *)
ReadThrowsOut(m) ==
    /\ At(m, "streaming")
    /\ Goto(m, "done")
    /\ UNCHANGED <<gate, lastMsg>>

(* stream.read throws: the finally clause runs, the rest does not.         *)
ReadThrows(m) ==
    /\ At(m, "streaming")
    /\ gate' = endAnswer(gate)
    /\ Goto(m, "done")
    /\ UNCHANGED lastMsg

ChunkPlayed(m) ==
    /\ At(m, "chunk") /\ Resumed(m)
    /\ Goto(m, "streaming")
    /\ UNCHANGED <<gate, lastMsg>>

-----------------------------------------------------------------------------
(* keep_open, in onMessage and in /play alike: half a second later a       *)
(* silent wake-up queues up.                                               *)

KeepOpen(p) ==
    /\ At(p, "keepOpen")
    /\ gate' = enqueueWakeUp(gate, h[p].epoch)
    /\ Await(p, "wakeUp")
    /\ UNCHANGED lastMsg

WokenUp(p) ==
    /\ At(p, "wakeUp") /\ Resumed(p)
    /\ Goto(p, "done")
    /\ UNCHANGED <<gate, lastMsg>>

-----------------------------------------------------------------------------
(* The endpoints.                                                          *)

(* /play: the epoch of arrival, then the music yields.                     *)
PlayRequest(p) ==
    /\ At(p, "idle")
    /\ gate' = stopMusic(gate)
    /\ h' = [h EXCEPT ![p].pc = "stopMusic", ![p].epoch = gate.dialogEpoch]
    /\ UNCHANGED lastMsg

PlayQueued(p) ==
    /\ At(p, "stopMusic")
    /\ gate' = enqueuePlay(gate, h[p].epoch)
    /\ Await(p, "play")
    /\ UNCHANGED lastMsg

Played(p) ==
    /\ At(p, "play") /\ Resumed(p)
    /\ Goto(p, "keepOpen") \/ Goto(p, "done")
    /\ UNCHANGED <<gate, lastMsg>>

(* /play_url answers at once.                                              *)
PlayUrlRequest(s) ==
    /\ At(s, "idle")
    /\ \E u \in Url : gate' = playUrlNow(gate, u)
    /\ Goto(s, "done")
    /\ UNCHANGED lastMsg

-----------------------------------------------------------------------------
Arrive(m) ==
    /\ \A n \in Msg : n < m => ~At(n, "idle")
    /\ \/ \E k \in {"silentStop", "musicStop"} : ArriveStop(m, k)
       \/ ArriveWakeWord(m) \/ ArriveQuestion(m)

OnMessage(m) ==
    \/ FlushAfterPause(m) \/ ConfirmOrRestart(m) \/ Confirmed(m) \/ Restarted(m)
    \/ MusicPaused(m) \/ BridgeUp(m) \/ BridgeDown(m)
    \/ LlmAnswered(m) \/ FallbackPlayed(m) \/ NoStream(m) \/ StreamOpened(m)
    \/ ReadChunk(m) \/ ReadInterrupted(m) \/ ReadEnd(m) \/ ReadThrows(m)
    \/ ChunkPlayed(m) \/ KeepOpen(m) \/ WokenUp(m)

HandlePlay(p) == PlayQueued(p) \/ Played(p) \/ KeepOpen(p) \/ WokenUp(p)

ChainStep ==
    /\ Start \/ Return
    /\ UNCHANGED <<lastMsg, h>>

ProbeStep == Probe /\ UNCHANGED <<lastMsg, h>>

(* Nothing is left to do: every handler has returned.                      *)
AllDone ==
    /\ \A p \in Proc : At(p, "done")
    /\ \A c \in Chains(gate) : c = <<>>
    /\ UNCHANGED dvars

DNext ==
    \/ \E m \in Msg : Arrive(m) \/ OnMessage(m)
    \/ \E p \in Push : PlayRequest(p) \/ HandlePlay(p)
    \/ \E s \in Song : PlayUrlRequest(s)
    \/ ChainStep \/ ProbeStep \/ AllDone

DSpec == DInit /\ [][DNext]_dvars

(* Fairness.  A backend call, an HTTP request to the bridge or to the      *)
(* model, and the sleeps all end (each has a timeout, but for the write of *)
(* the request at rpc.rs:118, which is assumed to end); the stream of an   *)
(* answer ends.  What the user says and what the bridge sends is not owed  *)
(* to anybody.                                                             *)
DFairness ==
    /\ \A m \in Msg : WF_dvars(OnMessage(m))
    /\ \A p \in Push : WF_dvars(HandlePlay(p))
    /\ \A i \in 1..MaxTask : WF_dvars(StepOf(i) /\ UNCHANGED <<lastMsg, h>>)

DFairSpec == DSpec /\ DFairness

-----------------------------------------------------------------------------
DTypeOK ==
    /\ TypeOK
    /\ lastMsg \in Msg \cup {NoMsg}
    /\ h \in [Proc -> Handler]

Answering(m) == h[m].pc \in {"streaming", "chunk"}

(* The barrier is up only while some answer is really being read out: the  *)
(* finally clause of config.ts:410-412 brings it down on every way out of  *)
(* the loop, so that later announcements are not held back for ever.       *)
BarrierHasOwner == gate.answerActive => \E m \in Msg : Answering(m)

(* Whoever waits for a task of the gate waits for one that is still there  *)
(* or has settled: a flush, an abandoned chain, an interjection or the end *)
(* of an answer never makes a handler's promise vanish.                    *)
NoForgottenAwait ==
    \A p \in Proc : h[p].awaits \subseteq
        gate.settled \cup IdsOf(Chains(gate)) \cup Ids(gate.pendingAfterAnswer)

(* Every sentence and every request is handled to the end, so the bridge's *)
(* POST /play is answered and a question never hangs on the gate: nobody   *)
(* is under way for ever, whatever another handler flushes, holds back or  *)
(* abandons.                                                               *)
EveryHandlerReturns == []<>(\A p \in Proc : At(p, "idle") \/ At(p, "done"))

(* Announcements that wait behind the barrier when it is up, and sound.    *)
OutsideSounding(g) ==
    {c[1].id : c \in {d \in Chains(g) : /\ d # <<>>
                                       /\ d[1].kind \in OutsideKind
                                       /\ d[1].phase \in SoundPhase}}

(* While the barrier is up no push and no wake-up starts, on the chain or  *)
(* on an abandoned one, whether it was queued before the answer began or   *)
(* came later (rule 1 of speaker-gate.ts, 4-6; chainOrDelay, and newDialog *)
(* in the same block as beginAnswer, config.ts:354-355).  Songs are not    *)
(* held back, and another handler may take the barrier down.               *)
BarrierKeepsOutsideOut ==
    [][gate.answerActive
          => OutsideSounding(gate') \subseteq OutsideSounding(gate)]_dvars

-----------------------------------------------------------------------------
(* What the comments promise and the code does not keep.                   *)

(* A handler that gives its answer up for a newer sentence expires its own *)
(* segments, and not those of the answer now being read out: rule 2 of     *)
(* speaker-gate.ts (7-8) speaks of the *old* dialog, and so does           *)
(* config.ts:372.                                                          *)
InterjectionSparesNewAnswer ==
    [][\A m, n \in Msg :
          /\ m = lastMsg /\ Answering(m) /\ h[m].epoch = gate.dialogEpoch
          /\ n # m /\ Answering(n) /\ ~Answering(n)'
          => gate'.dialogEpoch = gate.dialogEpoch]_dvars

=============================================================================
