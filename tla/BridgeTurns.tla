----------------------------- MODULE BridgeTurns -----------------------------
(***************************************************************************)
(* The turns of the bridge (bridge/xiaogpt-bridge.py): each POST of migpt  *)
(* is a thread of the HTTP server that takes the global lock, begins a     *)
(* turn, and streams an answer out of the generator answer_stream; a       *)
(* question too hard for it becomes a deep task, a thread of its own that  *)
(* outlives the turn and pushes its result to the speaker later.           *)
(*                                                                         *)
(* What the threads share: the lock, the turn counter (state_store.py),    *)
(* the semaphore of the deep tasks, and the unlocked globals _pending_play *)
(* (a song found, to be sent when the answer has been spoken), the context *)
(* file of topic_state.py, the duplicate cache, the last song played and   *)
(* _cur_question.                                                          *)
(*                                                                         *)
(* A step is a stretch of Python between two blocking calls: a request to  *)
(* a model, a tool, the deep channel, the POST to migpt, or the emission   *)
(* of a piece of the stream, which fails when migpt has closed it: the     *)
(* generator then dies at that very yield.                                 *)
(***************************************************************************)
EXTENDS Integers, FiniteSets

CONSTANTS Req,        \* POSTs of migpt
          Question,   \* questions, up to _normalize_question
          NoReq,      \* no request: the lock is free
          None,       \* no song, no context, no question
          DeepSlots,  \* permits of _deep_slots: 3 in the code
          MaxRound,   \* MAX_TOOL_TURNS: 6 in the code
          DeepSong    \* may a deep answer carry a song to play?

ASSUME BridgeAssumption ==
    /\ NoReq \notin Req /\ None \notin Question
    /\ DeepSlots \in Nat \ {0} /\ MaxRound \in Nat \ {0}
    /\ DeepSong \in BOOLEAN

VARIABLES lock,         \* who holds the global lock
          turnSeq,      \* _turn_seq
          req,          \* the handler threads
          deep,         \* the deep task of a request
          slots,        \* permits left in _deep_slots
          pendingPlay,  \* _pending_play
          lastPlay,     \* _last_play_qnorm and _last_play_title
          curQuestion,  \* _cur_question
          pendingCtx,   \* the context file
          recent,       \* keys of _recent_answers
          sent,         \* what migpt has been sent
          displaced     \* songs a deep task's search put its own in place of

bvars == <<lock, turnSeq, req, deep, slots, pendingPlay, lastPlay, curQuestion,
           pendingCtx, recent, sent, displaced>>

(* A song is named by whoever found it.                                    *)
Song == [by : Req, from : {"turn", "deep"}]

(* A context is named by the request whose answer it keeps; NoReq is one   *)
(* left in the file by an earlier process.  Its kind is never read.        *)
Context == Req \cup {NoReq}

ASSUME NoneAssumption == None \notin Song \cup Context

(* Where a handler is: the blocking call it is in, or the piece it yields. *)
YieldPC == {"short", "deepSaid", "doubaoFiller", "doubaoAnswer", "dup",
            "filler", "ack", "found", "answer", "marker", "plain"}
ReqPC == YieldPC \cup
    {"idle", "waiting", "repair", "classify", "spawn", "askDoubao", "llm",
     "tools", "finish", "done"}

DeepPC == {"none", "run", "topics", "polish", "search", "flush", "push",
           "post", "done", "lost"}

(* What a sentence is to the context of the turn before.                   *)
Word == {"answer", "followup", "full"}

Handler == [pc : ReqPC, question : Question \cup {None}, turn : Nat,
            guarded : BOOLEAN,           \* inside the try of answer_stream
            round : Nat,
            told : BOOLEAN,              \* progress_pushed
            found : BOOLEAN,             \* a tool of this turn queued a song
            ctx : Context \cup {None},   \* pending_ctx
            word : Word]

IdleHandler == [pc |-> "idle", question |-> None, turn |-> 0, guarded |-> FALSE,
                round |-> 0, told |-> FALSE, found |-> FALSE, ctx |-> None,
                word |-> "full"]

BInit ==
    /\ lock = NoReq /\ turnSeq = 0 /\ slots = DeepSlots
    /\ req = [r \in Req |-> IdleHandler]
    /\ deep = [r \in Req |-> [pc |-> "none", still |-> FALSE]]
    /\ pendingPlay = None /\ lastPlay = None /\ curQuestion = None
    /\ pendingCtx \in {NoReq, None}
    /\ recent = {} /\ sent = {} /\ displaced = {}

At(r, pc) == req[r].pc = pc
Goto(r, pc) == req' = [req EXCEPT ![r].pc = pc]
DeepAt(r, pc) == deep[r].pc = pc
DeepGoto(r, pc) == deep' = [deep EXCEPT ![r].pc = pc]

Plays == <<pendingPlay, lastPlay, sent, displaced>>
Memory == <<curQuestion, pendingCtx, recent>>
Locking == <<lock, turnSeq>>
Deeps == <<deep, slots>>

-----------------------------------------------------------------------------
(* _queue_play and _flush_pending_play.                                    *)

QueuePlay(song) == pendingPlay' = song

(* With a question, the song becomes the one that question last played.    *)
FlushFor(q) ==
    IF pendingPlay = None
    THEN UNCHANGED Plays
    ELSE /\ pendingPlay' = None
         /\ sent' = sent \cup {pendingPlay}
         /\ lastPlay' = IF q = None THEN lastPlay
                                    ELSE [question |-> q, song |-> pendingPlay]
         /\ UNCHANGED displaced

FlushPlay == FlushFor(None)

-----------------------------------------------------------------------------
(* do_POST.                                                                *)

Arrive(r) ==
    /\ At(r, "idle")
    /\ Goto(r, "waiting")
    /\ UNCHANGED <<Locking, Deeps, Plays, Memory>>

(* Faulty variant: the result of acquire is not looked at. *)
BusyGoesOn(r) ==
    /\ At(r, "waiting") /\ lock # NoReq
    /\ turnSeq' = turnSeq + 1
    /\ req' = [req EXCEPT ![r].pc = "repair", ![r].turn = turnSeq + 1]
    /\ UNCHANGED <<lock, Deeps, Plays, Memory>>

(* 45 seconds without the lock: 503.                                       *)
Busy(r) ==
    /\ At(r, "waiting") /\ lock # NoReq
    /\ Goto(r, "done")
    /\ UNCHANGED <<Locking, Deeps, Plays, Memory>>

TakeLock(r) ==
    /\ At(r, "waiting") /\ lock = NoReq
    /\ lock' = r /\ turnSeq' = turnSeq + 1
    /\ \E q \in Question :
          req' = [req EXCEPT ![r].pc = "repair", ![r].turn = turnSeq + 1,
                             ![r].question = q]
    /\ UNCHANGED <<Deeps, Plays, Memory>>

(* The generator is exhausted: the closing chunk, and the lock.            *)
Finish(r) ==
    /\ At(r, "finish")
    /\ lock' = NoReq
    /\ Goto(r, "done")
    /\ UNCHANGED <<turnSeq, Deeps, Plays, Memory>>

(* Faulty variant: no finally clause in the generator. *)
BrokenUnflushed(r) ==
    /\ req[r].pc \in YieldPC
    /\ lock' = NoReq /\ Goto(r, "done")
    /\ UNCHANGED <<turnSeq, Deeps, Plays, Memory>>

(* Faulty variant: the exception leaves the lock taken. *)
BrokenLocked(r) ==
    /\ req[r].pc \in YieldPC
    /\ Goto(r, "done")
    /\ UNCHANGED <<Locking, Deeps, Plays, Memory>>

(* migpt has closed the stream: the emission fails, the generator dies at  *)
(* its yield, the finally clause of the tool loop runs if it was inside.   *)
(* At the "ack" yield the executor first waits for the tool.               *)
Broken(r) ==
    /\ req[r].pc \in YieldPC
    /\ IF req[r].guarded
       THEN \/ FlushPlay /\ Goto(r, "done")
            \/ /\ At(r, "ack")
               /\ sent' = sent \cup {[by |-> r, from |-> "turn"]}
               /\ pendingPlay' = None
               /\ req' = [req EXCEPT ![r].pc = "done", ![r].found = TRUE]
               /\ UNCHANGED <<lastPlay, displaced>>
       ELSE UNCHANGED Plays /\ Goto(r, "done")
    /\ lock' = NoReq
    /\ UNCHANGED <<turnSeq, Deeps, Memory>>

-----------------------------------------------------------------------------
(* consume_pending: an answer word uses the context up, a short follow-up  *)
(* keeps it, a full question discards it; an old one has expired.          *)

Consume(r, word) ==
    req' = [req EXCEPT ![r].pc = "classify", ![r].word = word,
                       ![r].ctx = IF word = "full" THEN None ELSE pendingCtx]

(* Faulty variant: an answer word leaves the file in place. *)
RepairedKeeps(r) ==
    /\ At(r, "repair")
    /\ curQuestion' = req[r].question
    /\ \E word \in Word : Consume(r, word)
    /\ UNCHANGED <<pendingCtx, recent, Locking, Deeps, Plays>>

Repaired(r) ==
    /\ At(r, "repair")
    /\ curQuestion' = req[r].question
    /\ \/ \E word \in Word :
             /\ Consume(r, word)
             /\ pendingCtx' = IF word = "followup" THEN pendingCtx ELSE None
       \/ Goto(r, "classify") /\ pendingCtx' = None       \* expired
    /\ UNCHANGED <<recent, Locking, Deeps, Plays>>

(* record_pending: the context of the newest answer.                       *)
RecordPending(r) == pendingCtx' = r

-----------------------------------------------------------------------------
(* answer_stream.                                                          *)

(* The device shortcuts and the native routes yield and return.            *)
RouteShort(r) ==
    /\ At(r, "classify")
    /\ Goto(r, "short")
    /\ UNCHANGED <<Locking, Deeps, Plays, Memory>>

RouteDeep(r) ==
    /\ At(r, "classify")
    /\ Goto(r, "spawn")
    /\ UNCHANGED <<Locking, Deeps, Plays, Memory>>

RouteDoubao(r) ==
    /\ At(r, "classify")
    /\ Goto(r, "doubaoFiller")
    /\ UNCHANGED <<Locking, Deeps, Plays, Memory>>

(* The same question within five minutes: the same answer, and the song is *)
(* queued again if this question was the last to play one.                 *)
RouteDup(r) ==
    /\ At(r, "classify") /\ req[r].question \in recent
    /\ Goto(r, "dup")
    /\ IF lastPlay # None /\ lastPlay.question = req[r].question
       THEN QueuePlay(lastPlay.song)
       ELSE UNCHANGED pendingPlay
    /\ UNCHANGED <<lastPlay, sent, displaced, Locking, Deeps, Memory>>

(* Not asked before, or too long ago, or a question about a state.         *)
RouteFlash(r) ==
    /\ At(r, "classify")
    /\ recent' \in {recent, recent \ {req[r].question}}
    /\ Goto(r, "filler")
    /\ UNCHANGED <<curQuestion, pendingCtx, Locking, Deeps, Plays>>

(* The generator returns; inside the try the finally clause flushes.       *)
End(r) ==
    /\ Goto(r, "finish")
    /\ IF req[r].guarded THEN FlushPlay ELSE UNCHANGED Plays
    /\ UNCHANGED <<Locking, Deeps, Memory>>

SaidLast(r) == req[r].pc \in {"short", "deepSaid", "plain"} /\ End(r)

DupSaid(r) ==
    /\ At(r, "dup")
    /\ FlushFor(req[r].question)
    /\ Goto(r, "short")
    /\ UNCHANGED <<Locking, Deeps, Memory>>

(* _spawn_deep blocks, with the global lock held, until a permit is free.  *)
Spawn(r) ==
    /\ At(r, "spawn") /\ slots > 0
    /\ slots' = slots - 1
    /\ DeepGoto(r, "run")
    /\ Goto(r, "deepSaid")
    /\ UNCHANGED <<Locking, Plays, Memory>>

(* Thread.start raises with the permit taken: nobody gives it back, and    *)
(* the exception ends the generator as any other does.                     *)
SpawnFails(r) ==
    /\ At(r, "spawn") /\ slots > 0
    /\ slots' = slots - 1
    /\ DeepGoto(r, "lost")
    /\ Goto(r, "finish")
    /\ IF req[r].guarded THEN FlushPlay ELSE UNCHANGED Plays
    /\ UNCHANGED <<Locking, Memory>>

DoubaoFillerSaid(r) ==
    /\ At(r, "doubaoFiller")
    /\ Goto(r, "askDoubao")
    /\ UNCHANGED <<Locking, Deeps, Plays, Memory>>

(* An answer, or any exception: then the deep channel.                     *)
DoubaoAnswered(r) ==
    /\ At(r, "askDoubao")
    /\ Goto(r, "doubaoAnswer") \/ Goto(r, "spawn")
    /\ UNCHANGED <<Locking, Deeps, Plays, Memory>>

(* remember_answer refuses a long answer.                                  *)
Remember(r) == recent' \in {recent, recent \cup {req[r].question}}

DoubaoSaid(r) ==
    /\ At(r, "doubaoAnswer")
    /\ RecordPending(r) /\ Remember(r)
    /\ Goto(r, "finish")
    /\ UNCHANGED <<curQuestion, Locking, Deeps, Plays>>

FillerSaid(r) ==
    /\ At(r, "filler")
    /\ req' = [req EXCEPT ![r].pc = "llm", ![r].guarded = TRUE]
    /\ UNCHANGED <<Locking, Deeps, Plays, Memory>>

(* The model: a plain answer after a failure, the word that asks for the   *)
(* deep channel, an answer, nothing at all, or tools.                      *)
LlmReplied(r) ==
    /\ At(r, "llm") /\ req[r].round < MaxRound
    /\ \E pc \in {"plain", "spawn", "answer", "tools"} : Goto(r, pc)
    /\ UNCHANGED <<Locking, Deeps, Plays, Memory>>

LlmSilent(r) == At(r, "llm") /\ req[r].round < MaxRound /\ End(r)

(* MAX_TOOL_TURNS rounds: out of the try, then an apology.                 *)
TooManyRounds(r) ==
    /\ At(r, "llm") /\ req[r].round = MaxRound
    /\ FlushPlay
    /\ req' = [req EXCEPT ![r].pc = "short", ![r].guarded = FALSE]
    /\ UNCHANGED <<Locking, Deeps, Memory>>

(* 1.6 seconds without a result: a word meanwhile.                         *)
ToolsSlow(r) ==
    /\ At(r, "tools")
    /\ Goto(r, "ack")
    /\ UNCHANGED <<Locking, Deeps, Plays, Memory>>

(* An exception of the tools ends the generator; do_POST says it is sorry. *)
ToolsFailed(r) == req[r].pc \in {"tools", "ack"} /\ End(r)

(* The tools are done, and one of them may have found a song.              *)
ToolsDone(r) ==
    /\ req[r].pc \in {"tools", "ack"}
    /\ \E found \in BOOLEAN :
          /\ IF found THEN QueuePlay([by |-> r, from |-> "turn"])
                      ELSE UNCHANGED pendingPlay
          /\ req' = [req EXCEPT ![r] = [@ EXCEPT
                !.pc = IF pendingPlay' # None /\ ~req[r].told THEN "found" ELSE "llm",
                !.told = req[r].told \/ pendingPlay' # None,
                !.found = req[r].found \/ found,
                !.round = req[r].round + 1]]
    /\ UNCHANGED <<lastPlay, sent, displaced, Locking, Deeps, Memory>>

FoundSaid(r) ==
    /\ At(r, "found")
    /\ Goto(r, "llm")
    /\ UNCHANGED <<Locking, Deeps, Plays, Memory>>

AnswerSaid(r) ==
    /\ At(r, "answer")
    /\ Goto(r, "marker")
    /\ UNCHANGED <<Locking, Deeps, Plays, Memory>>

(* After the control marker: the context, the duplicate cache, the song.   *)
MarkerSaid(r) ==
    /\ At(r, "marker")
    /\ RecordPending(r) /\ Remember(r)
    /\ FlushFor(req[r].question)
    /\ Goto(r, "finish")
    /\ UNCHANGED <<curQuestion, Locking, Deeps>>

-----------------------------------------------------------------------------
(* _deep_push.                                                             *)

Current(r) == req[r].turn = turnSeq

(* daily_cleanup or the start of the progress timer raises: the thread     *)
(* dies before the try whose finally clause gives the permit back.         *)
DeepDies(r) ==
    /\ DeepAt(r, "run")
    /\ DeepGoto(r, "lost")
    /\ UNCHANGED <<slots, req, Locking, Plays, Memory>>

(* The deep channel answered.  A song in the answer goes to the speaker at *)
(* once; then the task asks whether its turn is still the current one.     *)
DeepAnswered(r) ==
    /\ DeepAt(r, "run")
    /\ \/ UNCHANGED sent
       \/ DeepSong /\ sent' = sent \cup {[by |-> r, from |-> "deep"]}
    /\ deep' = [deep EXCEPT ![r].pc = IF Current(r) THEN "topics" ELSE "polish",
                            ![r].still = Current(r)]
    /\ UNCHANGED <<slots, req, pendingPlay, lastPlay, displaced, Locking, Memory>>

(* update_topic, which asks the model for a summary under topics_lock.     *)
TopicsUpdated(r) ==
    /\ DeepAt(r, "topics")
    /\ DeepGoto(r, "polish")
    /\ UNCHANGED <<slots, req, Locking, Plays, Memory>>

(* polish_for_speech returned: the context and the result, if the turn was *)
(* current when last asked.                                                *)
DeepPolished(r) ==
    /\ DeepAt(r, "polish")
    /\ IF deep[r].still
       THEN RecordPending(r) /\ DeepGoto(r, "push") /\ UNCHANGED slots
       ELSE UNCHANGED pendingCtx /\ DeepGoto(r, "done") /\ slots' = slots + 1
    /\ UNCHANGED <<req, curQuestion, recent, Locking, Plays>>

(* A timeout, or an exception without a local song: an apology or a plain  *)
(* answer is pushed.                                                       *)
DeepFailed(r) ==
    /\ deep[r].pc \in {"run", "topics", "search"}
    /\ DeepGoto(r, "push")
    /\ UNCHANGED <<slots, req, Locking, Plays, Memory>>

DeepSearches(r) ==
    /\ deep[r].pc \in {"run", "topics"}
    /\ DeepGoto(r, "search")
    /\ UNCHANGED <<slots, req, Locking, Plays, Memory>>

(* _media_local_fallback: the tool of the turns, run by a deep task, which *)
(* queues its song whatever is waiting there.                              *)
DeepFound(r) ==
    /\ DeepAt(r, "search")
    /\ QueuePlay([by |-> r, from |-> "deep"])
    /\ displaced' = displaced \cup ({pendingPlay} \ {None})
    /\ DeepGoto(r, "flush")
    /\ UNCHANGED <<slots, req, lastPlay, sent, Locking, Memory>>

DeepFlushed(r) ==
    /\ DeepAt(r, "flush")
    /\ FlushPlay
    /\ DeepGoto(r, "push")
    /\ UNCHANGED <<slots, req, Locking, Memory>>

(* Faulty variant: no finally clause in _deep_push. *)
PushLeaks(r) ==
    /\ DeepAt(r, "push")
    /\ IF Current(r) THEN DeepGoto(r, "post") ELSE DeepGoto(r, "done")
    /\ UNCHANGED <<slots, req, Locking, Plays, Memory>>

(* push_to_migpt: the turn is compared, then the POST; its failure is      *)
(* swallowed.  The finally clause gives the permit back.                   *)
Push(r) ==
    /\ DeepAt(r, "push")
    /\ IF Current(r) THEN DeepGoto(r, "post") /\ UNCHANGED slots
                     ELSE DeepGoto(r, "done") /\ slots' = slots + 1
    /\ UNCHANGED <<req, Locking, Plays, Memory>>

Posted(r) ==
    /\ DeepAt(r, "post")
    /\ DeepGoto(r, "done") /\ slots' = slots + 1
    /\ UNCHANGED <<req, Locking, Plays, Memory>>

-----------------------------------------------------------------------------
Turn(r) ==
    \/ Repaired(r) \/ RouteShort(r) \/ RouteDeep(r) \/ RouteDoubao(r)
    \/ RouteDup(r) \/ RouteFlash(r) \/ SaidLast(r) \/ DupSaid(r)
    \/ Spawn(r) \/ SpawnFails(r) \/ DoubaoFillerSaid(r) \/ DoubaoAnswered(r) \/ DoubaoSaid(r)
    \/ FillerSaid(r) \/ LlmReplied(r) \/ LlmSilent(r) \/ TooManyRounds(r)
    \/ ToolsSlow(r) \/ ToolsFailed(r) \/ ToolsDone(r) \/ FoundSaid(r) \/ AnswerSaid(r)
    \/ MarkerSaid(r) \/ Broken(r) \/ Finish(r)

DeepTask(r) ==
    \/ DeepDies(r) \/ DeepAnswered(r) \/ TopicsUpdated(r) \/ DeepPolished(r) \/ DeepFailed(r)
    \/ DeepSearches(r) \/ DeepFound(r) \/ DeepFlushed(r) \/ Push(r) \/ Posted(r)

(* A permit the deep task of r took with it for good.                      *)
Lost(r) == DeepAt(r, "lost")
NoPermitLeft == Cardinality({r \in Req : Lost(r)}) = DeepSlots

(* Nothing is left to do; without a permit the last turn waits for ever.   *)
AtRest ==
    /\ \A r \in Req : /\ At(r, "done") \/ (At(r, "spawn") /\ NoPermitLeft)
                      /\ deep[r].pc \in {"none", "done", "lost"}
    /\ UNCHANGED bvars

BNext ==
    \/ \E r \in Req :
          Arrive(r) \/ Busy(r) \/ TakeLock(r) \/ Turn(r) \/ DeepTask(r)
    \/ AtRest

BSpec == BInit /\ [][BNext]_bvars

(* Fairness: every blocking call of a thread has a timeout, and a thread   *)
(* waiting for the lock gives up after 45 seconds if it never gets it.     *)
BFairSpec ==
    /\ BSpec
    /\ \A r \in Req : /\ WF_bvars(Busy(r) \/ TakeLock(r))
                      /\ WF_bvars(Turn(r)) /\ WF_bvars(DeepTask(r))

-----------------------------------------------------------------------------
BTypeOK ==
    /\ lock \in Req \cup {NoReq} /\ turnSeq \in Nat /\ slots \in 0..DeepSlots
    /\ req \in [Req -> Handler]
    /\ deep \in [Req -> [pc : DeepPC, still : BOOLEAN]]
    /\ pendingPlay \in Song \cup {None}
    /\ lastPlay \in [question : Question, song : Song] \cup {None}
    /\ curQuestion \in Question \cup {None}
    /\ pendingCtx \in Context \cup {None}
    /\ recent \subseteq Question /\ sent \subseteq Song /\ displaced \subseteq Song

(* A permit the deep task of r has, or took with it for good.              *)
Holds(r) == deep[r].pc \notin {"none", "done"}

(* Permits are not made, and only two ways out lose one: a thread that     *)
(* cannot be started and a task that dies before its try (2454-2473,       *)
(* 2537-2539).  Every other end of a deep task, by timeout, by exception   *)
(* or by a turn that has passed, gives back the one it was started with.   *)
SlotsConserved == slots + Cardinality({r \in Req : Holds(r)}) = DeepSlots

(* One turn at a time, and the turn in progress is the current one: what a *)
(* deep task compares itself with is the turn of the newest question the   *)
(* bridge has begun to answer (2992-3025).                                 *)
OneTurn ==
    \A r \in Req : req[r].pc \notin {"idle", "waiting", "done"}
        => lock = r /\ req[r].turn = turnSeq

(* A song a tool of this turn has found is sent by the time the turn ends, *)
(* wherever the stream broke (the accident described at 2931-2933), unless *)
(* a deep task that searched by itself put its own song in the same place  *)
(* meanwhile (1158-1165, 2541-2567): nothing else loses it.                *)
SongOfTurnSent ==
    \A r \in Req : At(r, "done") /\ req[r].found
        => [by |-> r, from |-> "turn"] \in sent \cup displaced

(* A question the bridge asked back is answered by one later sentence: two *)
(* turns are never told that the user is replying to the same one          *)
(* (topic_state.py:284-293).                                               *)
ReplyUsedOnce ==
    \A r, s \in Req :
        r # s /\ req[r].word = "answer" /\ req[s].word = "answer"
        => req[r].ctx = None \/ req[r].ctx # req[s].ctx

(* The lock always comes free again while a permit is left: a turn that    *)
(* waits for one holds the lock only as long as the deep tasks run         *)
(* (2535-2539), and no way out of the generator keeps it (3067-3068).      *)
(* Whoever waits is answered: by then or with a 503.  Once every permit is *)
(* lost, the next turn to want one keeps the lock for good.                *)
EveryTurnEnds == []<>(lock = NoReq \/ NoPermitLeft)

-----------------------------------------------------------------------------
(* What the comments promise and the code does not keep.                   *)

(* 2446-2449: a task whose turn has passed does not write the context of   *)
(* the conversation.                                                       *)
StaleTaskWritesNoContext ==
    [][\A r \in Req : DeepAt(r, "polish") /\ ~Current(r)
          /\ deep'[r] # deep[r] => pendingCtx' = pendingCtx]_bvars
=============================================================================
