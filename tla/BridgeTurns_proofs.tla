------------------------- MODULE BridgeTurns_proofs -------------------------
(***************************************************************************)
(* What the turns of the bridge guarantee for any number of requests and   *)
(* questions, any number of permits and of tool rounds.                    *)
(***************************************************************************)
EXTENDS BridgeTurns, FiniteSetTheorems, TLAPS

(* A request the bridge is working on.                                     *)
Active(r) == req[r].pc \notin {"idle", "waiting", "done"}

(* The types, without the upper end of slots, which needs conservation of  *)
(* permits; whoever answers has a question.                                *)
LockTypes == lock \in Req \cup {NoReq} /\ turnSeq \in Nat
HandlerTypes ==
    /\ req \in [Req -> Handler]
    /\ \A r \in Req : Active(r) => req[r].question \in Question
DeepTypes ==
    /\ slots \in Nat
    /\ deep \in [Req -> [pc : DeepPC, still : BOOLEAN]]
PlayTypes ==
    /\ pendingPlay \in Song \cup {None}
    /\ lastPlay \in [question : Question, song : Song] \cup {None}
    /\ sent \subseteq Song /\ displaced \subseteq Song
MemoryTypes ==
    /\ curQuestion \in Question \cup {None}
    /\ pendingCtx \in Context \cup {None}
    /\ recent \subseteq Question

BTypes == LockTypes /\ HandlerTypes /\ DeepTypes /\ PlayTypes /\ MemoryTypes

LEMMA TypesInit == BInit => BTypes
  BY BridgeAssumption
  DEF BInit, BTypes, LockTypes, HandlerTypes, DeepTypes, PlayTypes, MemoryTypes,
      Active, IdleHandler, Handler, ReqPC, DeepPC, Word, Context

-----------------------------------------------------------------------------
(* What each part of a step does to the types.                             *)

LEMMA HandlerFact ==
    ASSUME HandlerTypes, NEW r \in Req, NEW x \in Handler, x.question \in Question,
           req' = [req EXCEPT ![r] = x]
    PROVE  /\ HandlerTypes'
           /\ req'[r] = x /\ \A s \in Req : s # r => req'[s] = req[s]
  BY DEF HandlerTypes, Active

LEMMA GotoFact ==
    ASSUME HandlerTypes, NEW r \in Req, Active(r), NEW pc \in ReqPC, Goto(r, pc)
    PROVE  HandlerTypes'
<1> DEFINE x == [req[r] EXCEPT !.pc = pc]
<1>1. x \in Handler /\ x.question \in Question
  BY DEF HandlerTypes, Handler
<1>2. req' = [req EXCEPT ![r] = x]
  BY DEF Goto
<1> QED BY <1>1, <1>2, HandlerFact

LEMMA LockKept == ASSUME LockTypes, UNCHANGED Locking PROVE LockTypes'
  BY DEF LockTypes, Locking

LEMMA DeepKept == ASSUME DeepTypes, UNCHANGED Deeps PROVE DeepTypes'
  BY DEF DeepTypes, Deeps

LEMMA PlayKept == ASSUME PlayTypes, UNCHANGED Plays PROVE PlayTypes'
  BY DEF PlayTypes, Plays

LEMMA MemoryKept == ASSUME MemoryTypes, UNCHANGED Memory PROVE MemoryTypes'
  BY DEF MemoryTypes, Memory

LEMMA FlushFact ==
    ASSUME PlayTypes, NEW q \in Question \cup {None}, FlushFor(q)
    PROVE  PlayTypes'
  BY DEF PlayTypes, FlushFor, Plays

LEMMA GotoOnly ==
    ASSUME BTypes, NEW r \in Req, Active(r), NEW pc \in ReqPC, Goto(r, pc),
           UNCHANGED <<Locking, Deeps, Plays, Memory>>
    PROVE  BTypes'
  BY GotoFact, LockKept, DeepKept, PlayKept, MemoryKept DEF BTypes

LEMMA EndFact ==
    ASSUME BTypes, NEW r \in Req, Active(r), End(r)
    PROVE  BTypes'
<1>1. HandlerTypes'
  BY GotoFact DEF End, BTypes, ReqPC
<1>2. PlayTypes'
  BY FlushFact, PlayKept DEF End, FlushPlay, BTypes
<1> QED BY <1>1, <1>2, LockKept, DeepKept, MemoryKept DEF End, BTypes

-----------------------------------------------------------------------------
(* The handler threads.                                                    *)

LEMMA TypesTurn ==
    ASSUME BTypes, NEW r \in Req, Turn(r)
    PROVE  BTypes'
<1>1. CASE RouteShort(r) \/ RouteDeep(r) \/ RouteDoubao(r) \/ DoubaoFillerSaid(r)
           \/ DoubaoAnswered(r) \/ LlmReplied(r) \/ ToolsSlow(r) \/ FoundSaid(r)
           \/ AnswerSaid(r)
  BY <1>1, GotoOnly
  DEF RouteShort, RouteDeep, RouteDoubao, DoubaoFillerSaid, DoubaoAnswered,
      LlmReplied, ToolsSlow, FoundSaid, AnswerSaid, At, Active, ReqPC, YieldPC
<1>2. CASE SaidLast(r) \/ LlmSilent(r) \/ ToolsFailed(r)
  BY <1>2, EndFact DEF SaidLast, LlmSilent, ToolsFailed, At, Active
<1>3. CASE Repaired(r)
  <2> DEFINE x(ctx, word) == [req[r] EXCEPT !.pc = "classify", !.word = word, !.ctx = ctx]
  <2>1. Active(r) /\ req[r] \in Handler /\ req[r].question \in Question
    BY <1>3 DEF Repaired, At, Active, BTypes, HandlerTypes
  <2>2. ASSUME NEW word \in Word, Consume(r, word) PROVE HandlerTypes'
    <3>1. PICK ctx \in Context \cup {None} : req' = [req EXCEPT ![r] = x(ctx, word)]
      BY <2>2 DEF Consume, BTypes, MemoryTypes
    <3>2. x(ctx, word) \in Handler /\ x(ctx, word).question \in Question
      BY <2>1 DEF Handler, ReqPC
    <3> QED BY <3>1, <3>2, HandlerFact DEF BTypes
  <2>3. HandlerTypes'
    BY <1>3, <2>1, <2>2, GotoFact DEF Repaired, ReqPC, BTypes
  <2>4. MemoryTypes'
    BY <1>3, <2>1 DEF Repaired, BTypes, MemoryTypes
  <2> QED BY <1>3, <2>3, <2>4, LockKept, DeepKept, PlayKept DEF Repaired, BTypes
<1>4. CASE RouteDup(r) \/ DupSaid(r)
  <2>1. Active(r) /\ req[r].question \in Question
    BY <1>4 DEF RouteDup, DupSaid, At, Active, BTypes, HandlerTypes
  <2>2. HandlerTypes'
    BY <1>4, <2>1, GotoFact DEF RouteDup, DupSaid, ReqPC, YieldPC, BTypes
  <2>3. PlayTypes'
    <3>1. CASE RouteDup(r)
      BY <3>1 DEF RouteDup, QueuePlay, PlayTypes, BTypes
    <3>2. CASE DupSaid(r)
      BY <3>2, <2>1, FlushFact DEF DupSaid, BTypes
    <3> QED BY <1>4, <3>1, <3>2
  <2> QED BY <1>4, <2>2, <2>3, LockKept, DeepKept, MemoryKept DEF RouteDup, DupSaid, BTypes
<1>5. CASE RouteFlash(r) \/ DoubaoSaid(r)
  <2>1. Active(r) /\ req[r].question \in Question
    BY <1>5 DEF RouteFlash, DoubaoSaid, At, Active, BTypes, HandlerTypes
  <2>2. HandlerTypes'
    BY <1>5, <2>1, GotoFact DEF RouteFlash, DoubaoSaid, ReqPC, YieldPC, BTypes
  <2>3. MemoryTypes'
    BY <1>5, <2>1
    DEF RouteFlash, DoubaoSaid, RecordPending, Remember, Context, MemoryTypes, BTypes
  <2> QED BY <1>5, <2>2, <2>3, LockKept, DeepKept, PlayKept DEF RouteFlash, DoubaoSaid, BTypes
<1>6. CASE Spawn(r) \/ SpawnFails(r)
  <2>1. HandlerTypes'
    BY <1>6, GotoFact DEF Spawn, SpawnFails, At, Active, ReqPC, YieldPC, BTypes
  <2>2. DeepTypes'
    BY <1>6 DEF Spawn, SpawnFails, DeepGoto, DeepPC, DeepTypes, BTypes
  <2>3. PlayTypes'
    BY <1>6, FlushFact, PlayKept DEF Spawn, SpawnFails, FlushPlay, BTypes
  <2> QED BY <1>6, <2>1, <2>2, <2>3, LockKept, MemoryKept DEF Spawn, SpawnFails, BTypes
<1>7. CASE FillerSaid(r) \/ TooManyRounds(r) \/ ToolsDone(r)
  <2>1. Active(r) /\ req[r] \in Handler /\ req[r].question \in Question
    BY <1>7 DEF FillerSaid, TooManyRounds, ToolsDone, At, Active, BTypes, HandlerTypes
  <2>2. PICK x \in Handler : x.question = req[r].question /\ req' = [req EXCEPT ![r] = x]
    <3>1. CASE FillerSaid(r)
      <4> DEFINE x == [req[r] EXCEPT !.pc = "llm", !.guarded = TRUE]
      <4>1. x \in Handler /\ x.question = req[r].question
        BY <2>1 DEF Handler, ReqPC
      <4> QED BY <3>1, <4>1 DEF FillerSaid
    <3>2. CASE TooManyRounds(r)
      <4> DEFINE x == [req[r] EXCEPT !.pc = "short", !.guarded = FALSE]
      <4>1. x \in Handler /\ x.question = req[r].question
        BY <2>1 DEF Handler, ReqPC, YieldPC
      <4> QED BY <3>2, <4>1 DEF TooManyRounds
    <3>3. CASE ToolsDone(r)
      <4> DEFINE pc == IF pendingPlay' # None /\ ~req[r].told THEN "found" ELSE "llm"
      <4> DEFINE told == req[r].told \/ pendingPlay' # None
      <4> DEFINE x(f) == [req[r] EXCEPT !.pc = pc, !.told = told,
                                        !.found = @ \/ f, !.round = @ + 1]
      <4>1. PICK f \in BOOLEAN : req' = [req EXCEPT ![r] = x(f)]
        BY <3>3, Zenon DEF ToolsDone
      <4>2. pc \in ReqPC /\ told \in BOOLEAN
        BY DEF ReqPC, YieldPC
      <4>3. (req[r].found \/ f) \in BOOLEAN /\ req[r].round + 1 \in Nat
        BY <2>1 DEF Handler
      <4>4. x(f) \in Handler /\ x(f).question = req[r].question
        <5> HIDE DEF pc, told
        <5> QED BY <2>1, <4>2, <4>3, Zenon DEF Handler
      <4> QED BY <4>1, <4>4
    <3> QED BY <1>7, <3>1, <3>2, <3>3
  <2>3. HandlerTypes'
    BY <2>1, <2>2, HandlerFact DEF BTypes
  <2>4. PlayTypes'
    <3>1. CASE FillerSaid(r)
      BY <3>1, PlayKept DEF FillerSaid, BTypes
    <3>2. CASE TooManyRounds(r)
      BY <3>2, FlushFact DEF TooManyRounds, FlushPlay, BTypes
    <3>3. CASE ToolsDone(r)
      BY <3>3 DEF ToolsDone, QueuePlay, Song, PlayTypes, BTypes
    <3> QED BY <1>7, <3>1, <3>2, <3>3
  <2> QED
    BY <1>7, <2>3, <2>4, LockKept, DeepKept, MemoryKept
    DEF FillerSaid, TooManyRounds, ToolsDone, BTypes
<1>8. CASE MarkerSaid(r)
  <2>1. Active(r) /\ req[r].question \in Question
    BY <1>8 DEF MarkerSaid, At, Active, BTypes, HandlerTypes
  <2>2. HandlerTypes'
    BY <1>8, <2>1, GotoFact DEF MarkerSaid, ReqPC, BTypes
  <2>3. MemoryTypes'
    BY <1>8, <2>1 DEF MarkerSaid, RecordPending, Remember, Context, MemoryTypes, BTypes
  <2>4. PlayTypes'
    BY <1>8, <2>1, FlushFact DEF MarkerSaid, BTypes
  <2> QED BY <1>8, <2>2, <2>3, <2>4, LockKept, DeepKept DEF MarkerSaid, BTypes
<1>9. CASE Finish(r) \/ Broken(r)
  <2>1. Active(r) /\ req[r] \in Handler /\ req[r].question \in Question
    BY <1>9 DEF Finish, Broken, At, Active, YieldPC, BTypes, HandlerTypes
  <2>2. HandlerTypes'
    <3>1. CASE Goto(r, "done")
      BY <3>1, <2>1, GotoFact DEF ReqPC, BTypes
    <3>2. CASE req' = [req EXCEPT ![r].pc = "done", ![r].found = TRUE]
      <4> DEFINE x == [req[r] EXCEPT !.pc = "done", !.found = TRUE]
      <4>1. x \in Handler /\ x.question = req[r].question
        BY <2>1 DEF Handler, ReqPC
      <4> QED BY <2>1, <3>2, <4>1, HandlerFact DEF BTypes
    <3> QED BY <1>9, <3>1, <3>2 DEF Finish, Broken
  <2>3. PlayTypes'
    <3>1. CASE UNCHANGED Plays
      BY <3>1, PlayKept DEF BTypes
    <3>2. CASE FlushPlay
      BY <3>2, FlushFact DEF FlushPlay, BTypes
    <3>3. CASE /\ sent' = sent \cup {[by |-> r, from |-> "turn"]}
               /\ pendingPlay' = None /\ UNCHANGED <<lastPlay, displaced>>
      BY <3>3 DEF PlayTypes, Song, BTypes
    <3> QED BY <1>9, <3>1, <3>2, <3>3 DEF Finish, Broken
  <2> QED
    BY <1>9, <2>2, <2>3, DeepKept, MemoryKept DEF Finish, Broken, LockTypes, BTypes
<1> QED
  BY <1>1, <1>2, <1>3, <1>4, <1>5, <1>6, <1>7, <1>8, <1>9 DEF Turn

-----------------------------------------------------------------------------
(* The deep tasks, and the admission of a request.                         *)

LEMMA TypesDeep ==
    ASSUME BTypes, NEW r \in Req, DeepTask(r)
    PROVE  BTypes'
<1>1. UNCHANGED req /\ UNCHANGED Locking
  BY DEF DeepTask, DeepDies, DeepAnswered, TopicsUpdated, DeepPolished, DeepFailed,
         DeepSearches, DeepFound, DeepFlushed, Push, Posted, Locking
<1>2. HandlerTypes'
  BY <1>1 DEF HandlerTypes, Active, BTypes
<1>3. DeepTypes'
  BY DEF DeepTask, DeepDies, DeepAnswered, TopicsUpdated, DeepPolished, DeepFailed,
         DeepSearches, DeepFound, DeepFlushed, Push, Posted,
         DeepGoto, DeepPC, Current, DeepTypes, BTypes
<1>4. PlayTypes'
  <2>1. CASE UNCHANGED Plays
    BY <2>1, PlayKept DEF BTypes
  <2>2. CASE DeepFlushed(r)
    BY <2>2, FlushFact DEF DeepFlushed, FlushPlay, BTypes
  <2>3. CASE DeepAnswered(r) \/ DeepFound(r)
    BY <2>3 DEF DeepAnswered, DeepFound, QueuePlay, Song, PlayTypes, BTypes
  <2> QED
    BY <2>1, <2>2, <2>3 DEF DeepTask, DeepDies, TopicsUpdated, DeepPolished, DeepFailed,
       DeepSearches, Push, Posted, Plays
<1>5. MemoryTypes'
  <2>1. CASE UNCHANGED Memory
    BY <2>1, MemoryKept DEF BTypes
  <2>2. CASE DeepPolished(r)
    BY <2>2 DEF DeepPolished, RecordPending, Context, MemoryTypes, BTypes
  <2> QED
    BY <2>1, <2>2 DEF DeepTask, DeepDies, DeepAnswered, TopicsUpdated, DeepFailed,
       DeepSearches, DeepFound, DeepFlushed, Push, Posted, Memory
<1> QED BY <1>1, <1>2, <1>3, <1>4, <1>5, LockKept DEF BTypes

LEMMA TypesAdmission ==
    ASSUME BTypes, NEW r \in Req, Arrive(r) \/ Busy(r) \/ TakeLock(r)
    PROVE  BTypes'
<1>1. HandlerTypes'
  <2>1. CASE Arrive(r) \/ Busy(r)
    <3>1. PICK pc \in {"waiting", "done"} : Goto(r, pc)
      BY <2>1 DEF Arrive, Busy
    <3>2. [req[r] EXCEPT !.pc = pc] \in Handler
      BY DEF BTypes, HandlerTypes, Handler, ReqPC
    <3> QED BY <3>1, <3>2 DEF Goto, BTypes, HandlerTypes, Active
  <2>2. CASE TakeLock(r)
    <3>1. PICK q \in Question :
             req' = [req EXCEPT ![r].pc = "repair", ![r].turn = turnSeq + 1,
                                ![r].question = q]
      BY <2>2 DEF TakeLock
    <3> DEFINE x == [req[r] EXCEPT !.pc = "repair", !.turn = turnSeq + 1,
                                   !.question = q]
    <3>2. req[r] \in Handler /\ turnSeq + 1 \in Nat /\ "repair" \in ReqPC
      BY DEF BTypes, LockTypes, HandlerTypes, ReqPC
    <3>3. x \in Handler /\ x.question \in Question
      BY <3>2 DEF Handler
    <3>4. req' = [req EXCEPT ![r] = x]
      BY <3>1
    <3> HIDE DEF x
    <3> QED BY <3>3, <3>4, HandlerFact DEF BTypes
  <2> QED BY <2>1, <2>2
<1> QED
  BY <1>1, DeepKept, PlayKept, MemoryKept
  DEF Arrive, Busy, TakeLock, Locking, LockTypes, BTypes

LEMMA TypesNext == BTypes /\ [BNext]_bvars => BTypes'
<1> SUFFICES ASSUME BTypes, [BNext]_bvars PROVE BTypes'
  OBVIOUS
<1>1. CASE UNCHANGED bvars
  BY <1>1 DEF bvars, BTypes, LockTypes, HandlerTypes, Active, DeepTypes, PlayTypes, MemoryTypes
<1> QED
  BY <1>1, TypesTurn, TypesDeep, TypesAdmission DEF BNext, AtRest

LEMMA Types == BSpec => []BTypes
  BY TypesInit, TypesNext, PTL DEF BSpec

-----------------------------------------------------------------------------
(* One turn at a time.                                                     *)

(* A step of a turn is a step of one active handler, which keeps its turn; *)
(* it gives the lock up only by ending.                                    *)
LEMMA TurnFact ==
    ASSUME BTypes, NEW r \in Req, Turn(r)
    PROVE  /\ Active(r) /\ turnSeq' = turnSeq
           /\ req'[r].turn = req[r].turn
           /\ \A s \in Req : s # r => req'[s] = req[s]
           /\ lock' = lock \/ req'[r].pc = "done"
           /\ req[r].pc \in {"deepSaid", "finish"} => req'[r].pc \in {"finish", "done"}
           /\ Spawn(r) \/ SpawnFails(r) \/ UNCHANGED Deeps
<1> USE DEF BTypes, HandlerTypes, Handler, Active, At, Goto, Locking
<1>1. CASE RouteShort(r) \/ RouteDeep(r) \/ RouteDoubao(r) \/ RouteDup(r) \/ RouteFlash(r)
  BY <1>1 DEF RouteShort, RouteDeep, RouteDoubao, RouteDup, RouteFlash
<1>2. CASE DoubaoFillerSaid(r) \/ DoubaoAnswered(r) \/ DoubaoSaid(r) \/ FillerSaid(r)
  BY <1>2 DEF DoubaoFillerSaid, DoubaoAnswered, DoubaoSaid, FillerSaid
<1>3. CASE SaidLast(r) \/ LlmSilent(r) \/ ToolsFailed(r)
  BY <1>3 DEF SaidLast, LlmSilent, ToolsFailed, End
<1>4. CASE LlmReplied(r) \/ ToolsSlow(r) \/ FoundSaid(r) \/ AnswerSaid(r)
  BY <1>4 DEF LlmReplied, ToolsSlow, FoundSaid, AnswerSaid
<1>5. CASE DupSaid(r) \/ Spawn(r) \/ SpawnFails(r) \/ TooManyRounds(r) \/ MarkerSaid(r)
  BY <1>5 DEF DupSaid, Spawn, SpawnFails, TooManyRounds, MarkerSaid
<1>6. CASE Repaired(r)
  <2>1. CASE Goto(r, "classify")
    BY <1>6, <2>1 DEF Repaired
  <2>2. ASSUME NEW word \in Word, NEW ctx,
               req' = [req EXCEPT ![r].pc = "classify", ![r].word = word, ![r].ctx = ctx]
        PROVE  /\ req'[r].turn = req[r].turn
               /\ \A s \in Req : s # r => req'[s] = req[s]
    BY <2>2
  <2>3. CASE \E word \in Word : Consume(r, word)
    BY <1>6, <2>2, <2>3 DEF Repaired, Consume
  <2> QED BY <1>6, <2>1, <2>3 DEF Repaired
<1>7. CASE ToolsDone(r)
  BY <1>7 DEF ToolsDone
<1>8. CASE Broken(r) \/ Finish(r)
  BY <1>8 DEF Broken, Finish, YieldPC
<1> QED
  BY <1>1, <1>2, <1>3, <1>4, <1>5, <1>6, <1>7, <1>8 DEF Turn

LEMMA OneTurnNext == BTypes /\ OneTurn /\ [BNext]_bvars => OneTurn'
<1> SUFFICES ASSUME BTypes, OneTurn, [BNext]_bvars PROVE OneTurn'
  OBVIOUS
<1>1. CASE UNCHANGED bvars
  BY <1>1 DEF bvars, OneTurn
<1>2. ASSUME NEW r \in Req, Turn(r) PROVE OneTurn'
  <2>1. lock = r
    BY <1>2, TurnFact DEF OneTurn, Active
  <2>2. \A s \in Req : s # r => req'[s].pc \in {"idle", "waiting", "done"}
    BY <1>2, <2>1, TurnFact DEF OneTurn
  <2> QED BY <1>2, <2>1, <2>2, TurnFact DEF OneTurn, Active
<1>3. ASSUME NEW r \in Req, DeepTask(r) PROVE OneTurn'
  BY <1>3 DEF DeepTask, DeepDies, DeepAnswered, TopicsUpdated, DeepPolished, DeepFailed,
     DeepSearches, DeepFound, DeepFlushed, Push, Posted, Locking, OneTurn
<1>4. ASSUME NEW r \in Req, Arrive(r) \/ Busy(r) PROVE OneTurn'
  BY <1>4 DEF Arrive, Busy, At, Goto, Locking, OneTurn, BTypes, HandlerTypes, Handler
<1>5. ASSUME NEW r \in Req, TakeLock(r) PROVE OneTurn'
  BY <1>5, BridgeAssumption
  DEF TakeLock, At, OneTurn, BTypes, HandlerTypes, LockTypes, Handler
<1> QED BY <1>1, <1>2, <1>3, <1>4, <1>5 DEF BNext, AtRest

(* One turn at a time, and the turn in progress is the current one.        *)
THEOREM Serialised == BSpec => []OneTurn
<1>1. BInit => OneTurn
  BY DEF BInit, OneTurn, IdleHandler
<1> QED BY <1>1, OneTurnNext, Types, PTL DEF BSpec

-----------------------------------------------------------------------------
(* The permits of the deep tasks.                                          *)

Holders == {r \in Req : Holds(r)}

(* A request starts one deep task, and then only ends: so Spawn makes a    *)
(* task run that did not, and the permits are conserved.                   *)
SlotInv ==
    /\ IsFiniteSet(Holders) /\ SlotsConserved
    /\ \A r \in Req : deep[r].pc # "none" => req[r].pc \in {"deepSaid", "finish", "done"}

LEMMA SlotInit == BInit => SlotInv
<1> SUFFICES ASSUME BInit PROVE SlotInv
  OBVIOUS
<1>1. Holders = {}
  BY DEF BInit, Holders, Holds
<1>2. IsFiniteSet(Holders) /\ Cardinality(Holders) = 0
  BY <1>1, FS_EmptySet
<1>3. slots + Cardinality(Holders) = DeepSlots
  BY <1>2, BridgeAssumption DEF BInit
<1> QED BY <1>2, <1>3 DEF BInit, SlotInv, SlotsConserved, Holders

LEMMA TaskStarts ==
    ASSUME BTypes, SlotInv, NEW r \in Req, ~Holds(r), Holds(r)',
           \A s \in Req : s # r => deep'[s] = deep[s],
           slots' = slots - 1
    PROVE  IsFiniteSet(Holders)' /\ SlotsConserved'
<1>1. Holders' = Holders \cup {r} /\ r \notin Holders
  BY DEF Holders, Holds
<1>2. /\ IsFiniteSet(Holders')
      /\ Cardinality(Holders') = Cardinality(Holders) + 1
  BY <1>1, FS_AddElement DEF SlotInv
<1>3. Cardinality(Holders) \in Nat
  BY FS_CardinalityType DEF SlotInv
<1> QED
  BY <1>2, <1>3, BridgeAssumption
  DEF SlotInv, SlotsConserved, Holders, BTypes, DeepTypes

LEMMA TaskEnds ==
    ASSUME BTypes, SlotInv, NEW r \in Req, Holds(r), ~Holds(r)',
           \A s \in Req : s # r => deep'[s] = deep[s],
           slots' = slots + 1
    PROVE  IsFiniteSet(Holders)' /\ SlotsConserved'
<1>1. Holders' = Holders \ {r} /\ r \in Holders
  BY DEF Holders, Holds
<1>2. /\ IsFiniteSet(Holders')
      /\ Cardinality(Holders') = Cardinality(Holders) - 1
  BY <1>1, FS_RemoveElement DEF SlotInv
<1>3. Cardinality(Holders) \in Nat
  BY FS_CardinalityType DEF SlotInv
<1> QED
  BY <1>2, <1>3, BridgeAssumption
  DEF SlotInv, SlotsConserved, Holders, BTypes, DeepTypes

LEMMA TaskGoesOn ==
    ASSUME SlotInv, UNCHANGED slots, \A s \in Req : Holds(s)' <=> Holds(s)
    PROVE  IsFiniteSet(Holders)' /\ SlotsConserved'
<1>1. Holders' = Holders
  BY DEF Holders
<1> QED BY <1>1 DEF SlotInv, SlotsConserved, Holders

LEMMA SlotsDeep ==
    ASSUME BTypes, SlotInv, NEW r \in Req, DeepTask(r)
    PROVE  IsFiniteSet(Holders)' /\ SlotsConserved'
<1> USE DEF BTypes, DeepTypes, DeepGoto, DeepAt, Holds
<1>1. CASE Posted(r) \/ (Push(r) /\ ~Current(r)) \/ (DeepPolished(r) /\ ~deep[r].still)
  BY <1>1, TaskEnds DEF Posted, Push, DeepPolished
<1>2. CASE \/ DeepDies(r) \/ DeepAnswered(r) \/ TopicsUpdated(r) \/ DeepFailed(r) \/ DeepSearches(r)
           \/ DeepFound(r) \/ DeepFlushed(r)
           \/ (Push(r) /\ Current(r)) \/ (DeepPolished(r) /\ deep[r].still)
  <2>1. UNCHANGED slots /\ \A s \in Req : Holds(s)' <=> Holds(s)
    BY <1>2
    DEF DeepDies, DeepAnswered, TopicsUpdated, DeepFailed, DeepSearches, DeepFound,
        DeepFlushed, Push, DeepPolished
  <2> QED BY <2>1, TaskGoesOn
<1> QED BY <1>1, <1>2 DEF DeepTask

LEMMA SlotsNext == BTypes /\ SlotInv /\ [BNext]_bvars => SlotInv'
<1> SUFFICES ASSUME BTypes, SlotInv, [BNext]_bvars PROVE SlotInv'
  OBVIOUS
<1> DEFINE Conserved == IsFiniteSet(Holders)' /\ SlotsConserved'
<1> DEFINE Fresh == \A r \in Req : deep[r].pc # "none"
                                      => req[r].pc \in {"deepSaid", "finish", "done"}
<1>1. CASE UNCHANGED Deeps /\ Fresh'
  <2>1. UNCHANGED slots /\ \A s \in Req : Holds(s)' <=> Holds(s)
    BY <1>1 DEF Deeps, Holds
  <2> QED BY <1>1, <2>1, TaskGoesOn DEF SlotInv
<1>2. ASSUME NEW r \in Req, Turn(r) PROVE SlotInv'
  <2>1. CASE Spawn(r) \/ SpawnFails(r)
    <3>1. deep[r].pc = "none"
      BY <2>1 DEF Spawn, SpawnFails, At, SlotInv
    <3>2. /\ ~Holds(r) /\ Holds(r)' /\ slots' = slots - 1
          /\ \A s \in Req : s # r => deep'[s] = deep[s]
      BY <2>1, <3>1 DEF Spawn, SpawnFails, DeepGoto, Holds, BTypes, DeepTypes
    <3>3. Fresh'
      BY <2>1, <3>2 DEF Spawn, SpawnFails, Goto, SlotInv, BTypes, HandlerTypes, Handler
    <3> QED BY <3>2, <3>3, TaskStarts DEF SlotInv
  <2>2. CASE UNCHANGED Deeps
    <3>1. Fresh'
      BY <1>2, <2>2, TurnFact DEF Deeps, SlotInv, Active
    <3> QED BY <1>1, <2>2, <3>1
  <2> QED BY <1>2, <2>1, <2>2, TurnFact
<1>3. ASSUME NEW r \in Req, DeepTask(r) PROVE SlotInv'
  <2>1. Fresh'
    BY <1>3
    DEF DeepTask, DeepDies, DeepAnswered, TopicsUpdated, DeepPolished, DeepFailed, DeepSearches,
        DeepFound, DeepFlushed, Push, Posted, DeepGoto, DeepAt, SlotInv, BTypes, DeepTypes
  <2> QED BY <1>3, <2>1, SlotsDeep DEF SlotInv
<1>4. ASSUME NEW r \in Req, Arrive(r) \/ Busy(r) \/ TakeLock(r) PROVE SlotInv'
  <2>1. UNCHANGED Deeps /\ req[r].pc \in {"idle", "waiting"}
    BY <1>4 DEF Arrive, Busy, TakeLock, At
  <2>2. \A s \in Req : s # r => req'[s] = req[s]
    BY <1>4 DEF Arrive, Busy, TakeLock, Goto, BTypes, HandlerTypes
  <2>3. Fresh'
    BY <2>1, <2>2 DEF Deeps, SlotInv
  <2> QED BY <1>1, <2>1, <2>3
<1>5. CASE UNCHANGED bvars
  BY <1>1, <1>5 DEF bvars, Deeps, SlotInv
<1> QED BY <1>2, <1>3, <1>4, <1>5 DEF BNext, AtRest

LEMMA Slots == BSpec => []SlotInv
  BY SlotInit, SlotsNext, Types, PTL DEF BSpec

(* Permits are not made, and none is lost but by a thread that cannot be   *)
(* started or by a task that dies before its try: every other end of a     *)
(* deep task gives its permit back.                                        *)
THEOREM Conserved == BSpec => []SlotsConserved
<1>1. SlotInv => SlotsConserved
  BY DEF SlotInv
<1> QED BY <1>1, Slots, PTL

(* The state has its types; that slots stays in range is the conservation. *)
THEOREM BTyped == BSpec => []BTypeOK
<1>1. BTypes /\ SlotInv => BTypeOK
  <2> SUFFICES ASSUME BTypes, SlotInv PROVE BTypeOK
    OBVIOUS
  <2>1. Cardinality(Holders) \in Nat
    BY FS_CardinalityType DEF SlotInv
  <2>2. slots + Cardinality(Holders) = DeepSlots
    BY DEF SlotInv, SlotsConserved, Holders
  <2>3. slots \in 0..DeepSlots
    <3> DEFINE n == Cardinality(Holders)
    <3>1. n \in Nat /\ slots \in Nat /\ DeepSlots \in Nat /\ slots + n = DeepSlots
      BY <2>1, <2>2, BridgeAssumption DEF BTypes, DeepTypes
    <3> HIDE DEF n
    <3> QED BY <3>1
  <2> QED
    BY <2>3
    DEF BTypeOK, BTypes, LockTypes, HandlerTypes, DeepTypes, PlayTypes, MemoryTypes
<1> QED BY <1>1, Types, Slots, PTL

-----------------------------------------------------------------------------
(* The song a turn has found.                                              *)

SongOf(r) == [by |-> r, from |-> "turn"]

Safe(r) == SongOf(r) \in sent \cup displaced

(* Until it is sent or displaced, the song found by a turn waits in        *)
(* _pending_play, and the generator is inside the try whose finally clause *)
(* sends it.  This needs the turns to be serialised.                       *)
SongKept(r) ==
    req[r].found => \/ Safe(r)
                    \/ /\ Active(r) /\ ~At(r, "finish") /\ req[r].guarded
                       /\ pendingPlay = SongOf(r)

EarlyPC == {"idle", "waiting", "repair", "classify",
            "doubaoFiller", "askDoubao", "doubaoAnswer"}

SongInv ==
    \A r \in Req :
        /\ req[r].pc \in EarlyPC => ~req[r].found
        /\ req[r].pc \in {"llm", "tools", "ack", "found", "answer", "marker", "plain"}
              => req[r].guarded
        /\ SongKept(r)

LEMMA FlushSends ==
    ASSUME NEW q, FlushFor(q)
    PROVE  /\ sent \subseteq sent' /\ UNCHANGED displaced
           /\ pendingPlay # None => pendingPlay \in sent'
  BY DEF FlushFor, Plays

LEMMA SongIsSomething == ASSUME NEW r \in Req PROVE SongOf(r) # None
  BY NoneAssumption DEF SongOf, Song

LEMMA SafeStays ==
    ASSUME NEW r \in Req, NEW s \in Req, Turn(r)
    PROVE  Safe(s) => Safe(s)'
<1>1. sent \subseteq sent' /\ displaced \subseteq displaced'
  BY FlushSends
  DEF Turn, Repaired, RouteShort, RouteDeep, RouteDoubao, RouteDup, RouteFlash,
      SaidLast, DupSaid, Spawn, SpawnFails, DoubaoFillerSaid, DoubaoAnswered, DoubaoSaid,
      FillerSaid, LlmReplied, LlmSilent, TooManyRounds, ToolsSlow, ToolsFailed,
      ToolsDone, FoundSaid, AnswerSaid, MarkerSaid, Broken, Finish, End, FlushPlay, Plays
<1> QED BY <1>1 DEF Safe, SongOf

LEMMA SongFlushed ==
    ASSUME NEW r \in Req, SongKept(r), NEW q, FlushFor(q), req[r].found
    PROVE  Safe(r)'
  BY FlushSends, SongIsSomething DEF SongKept, Safe

LEMMA SongEnd ==
    ASSUME NEW r \in Req, SongKept(r), End(r), req[r].found
    PROVE  Safe(r)'
  BY SongFlushed DEF SongKept, Safe, End, FlushPlay, Plays

(* The part of SongInv that a step of r's own turn has to keep.            *)
LEMMA SongOwn ==
    ASSUME BTypes, SongInv, NEW r \in Req, Turn(r)
    PROVE  /\ req'[r].pc \in EarlyPC => ~req'[r].found
           /\ req'[r].pc \in {"llm", "tools", "ack", "found", "answer", "marker", "plain"}
                 => req'[r].guarded
           /\ req'[r].found => \/ Safe(r)'
                               \/ /\ Active(r)' /\ ~At(r, "finish")' /\ req'[r].guarded
                                  /\ pendingPlay' = SongOf(r)
<1> SongKept(r)
  BY DEF SongInv
<1>0. Safe(r) => Safe(r)'
  BY SafeStays
<1> USE DEF BTypes, HandlerTypes, Handler, Active, At, Goto, Plays, EarlyPC
<1>1. CASE RouteShort(r) \/ RouteDeep(r) \/ RouteDoubao(r) \/ RouteDup(r) \/ RouteFlash(r)
  BY <1>1 DEF RouteShort, RouteDeep, RouteDoubao, RouteDup, RouteFlash, SongInv
<1>2. CASE DoubaoFillerSaid(r) \/ DoubaoAnswered(r) \/ DoubaoSaid(r) \/ FillerSaid(r)
           \/ Spawn(r)
  BY <1>0, <1>2 DEF DoubaoFillerSaid, DoubaoAnswered, DoubaoSaid, FillerSaid, Spawn, SongKept, SongInv
<1>3. CASE SaidLast(r) \/ LlmSilent(r) \/ ToolsFailed(r)
  BY <1>3, SongEnd DEF SaidLast, LlmSilent, ToolsFailed, End
<1>4. CASE LlmReplied(r) \/ ToolsSlow(r) \/ FoundSaid(r) \/ AnswerSaid(r)
  BY <1>0, <1>4 DEF LlmReplied, ToolsSlow, FoundSaid, AnswerSaid, SongInv, SongKept
<1>5. CASE DupSaid(r) \/ TooManyRounds(r) \/ MarkerSaid(r) \/ SpawnFails(r)
  <2>1. CASE SpawnFails(r) /\ ~req[r].guarded
    BY <1>0, <2>1 DEF SpawnFails, SongKept
  <2>2. CASE ~(SpawnFails(r) /\ ~req[r].guarded)
    BY <1>5, <2>2, SongFlushed DEF DupSaid, TooManyRounds, MarkerSaid, SpawnFails, FlushPlay
  <2> QED BY <2>1, <2>2
<1>6. CASE Repaired(r)
  <2>1. req'[r].found = req[r].found /\ req'[r].pc = "classify"
    <3>1. CASE Goto(r, "classify")
      BY <3>1
    <3>2. ASSUME NEW word \in Word, NEW ctx,
                 req' = [req EXCEPT ![r].pc = "classify", ![r].word = word, ![r].ctx = ctx]
          PROVE  req'[r].found = req[r].found /\ req'[r].pc = "classify"
      BY <3>2
    <3> QED BY <1>6, <3>1, <3>2 DEF Repaired, Consume
  <2> QED BY <1>6, <2>1 DEF Repaired, SongInv
<1>7. CASE ToolsDone(r)
  <2>1. PICK f \in BOOLEAN :
           /\ IF f THEN pendingPlay' = SongOf(r) ELSE UNCHANGED pendingPlay
           /\ req'[r].found = (req[r].found \/ f)
           /\ req'[r].guarded = req[r].guarded
           /\ req'[r].pc \in {"found", "llm"}
    BY <1>7 DEF ToolsDone, QueuePlay, SongOf
  <2>2. req[r].guarded
    BY <1>7 DEF ToolsDone, SongInv
  <2> QED BY <1>0, <2>1, <2>2 DEF SongKept
<1>8. CASE Finish(r)
  BY <1>0, <1>8 DEF Finish, SongKept
<1>9. CASE Broken(r)
  <2>1. CASE /\ sent' = sent \cup {SongOf(r)}
             /\ req' = [req EXCEPT ![r].pc = "done", ![r].found = TRUE]
    BY <2>1 DEF Safe
  <2>2. CASE FlushPlay /\ Goto(r, "done")
    BY <2>2, SongFlushed DEF FlushPlay
  <2>3. CASE ~req[r].guarded /\ UNCHANGED Plays /\ Goto(r, "done")
    BY <1>0, <2>3 DEF SongKept
  <2> QED BY <1>9, <2>1, <2>2, <2>3 DEF Broken, Safe, SongOf
<1> QED
  BY <1>1, <1>2, <1>3, <1>4, <1>5, <1>6, <1>7, <1>8, <1>9 DEF Turn

LEMMA SongsNext ==
    ASSUME BTypes, OneTurn, SongInv, [BNext]_bvars
    PROVE  SongInv'
<1>1. CASE UNCHANGED bvars
  BY <1>1 DEF bvars, SongInv, SongKept, Safe, Active, At
<1>2. ASSUME NEW r \in Req, Turn(r) PROVE SongInv'
  <2>1. \A s \in Req : Safe(s) => Safe(s)'
    BY <1>2, SafeStays
  <2>2. \A s \in Req : s # r => req'[s] = req[s] /\ ~Active(s)
    BY <1>2, TurnFact DEF OneTurn, Active
  <2> QED BY <1>2, <2>1, <2>2, SongOwn DEF SongInv, SongKept, Active, At
<1>3. ASSUME NEW r \in Req, DeepTask(r) PROVE SongInv'
  <2>1. UNCHANGED req
    BY <1>3 DEF DeepTask, DeepDies, DeepAnswered, TopicsUpdated, DeepPolished, DeepFailed,
       DeepSearches, DeepFound, DeepFlushed, Push, Posted
  <2>2. /\ sent \subseteq sent' /\ displaced \subseteq displaced'
        /\ \/ UNCHANGED pendingPlay
           \/ pendingPlay = None \/ pendingPlay \in sent' \cup displaced'
    <3>1. CASE DeepFlushed(r)
      BY <3>1, FlushSends DEF DeepFlushed, FlushPlay
    <3>2. CASE DeepFound(r)
      BY <3>2 DEF DeepFound
    <3>3. CASE ~DeepFlushed(r) /\ ~DeepFound(r)
      BY <1>3, <3>3 DEF DeepTask, DeepDies, DeepAnswered, TopicsUpdated, DeepPolished,
         DeepFailed, DeepSearches, Push, Posted, Plays
    <3> QED BY <3>1, <3>2, <3>3
  <2> QED BY <2>1, <2>2, SongIsSomething DEF SongInv, SongKept, Safe, Active, At
<1>4. ASSUME NEW r \in Req, Arrive(r) \/ Busy(r) \/ TakeLock(r) PROVE SongInv'
  <2>1. UNCHANGED Plays
    BY <1>4 DEF Arrive, Busy, TakeLock
  <2>2. /\ ~req'[r].found
        /\ req'[r].pc \in {"waiting", "done", "repair"}
        /\ \A s \in Req : s # r => req'[s] = req[s]
    BY <1>4 DEF Arrive, Busy, TakeLock, At, Goto, SongInv, EarlyPC, BTypes, HandlerTypes, Handler
  <2> QED BY <2>1, <2>2 DEF SongInv, SongKept, Safe, Active, Plays, EarlyPC, At
<1> QED BY <1>1, <1>2, <1>3, <1>4 DEF BNext, AtRest

(* A song found by a tool has been sent by the time its turn is over,      *)
(* wherever the stream broke, unless a deep task that searched by itself   *)
(* put its own song in the same place.                                     *)
THEOREM SongDelivered == BSpec => []SongOfTurnSent
<1>1. BInit => SongInv
  BY DEF BInit, SongInv, SongKept, IdleHandler
<1>2. BTypes /\ OneTurn /\ SongInv /\ [BNext]_bvars => SongInv'
  BY SongsNext
<1>3. SongInv => SongOfTurnSent
  BY DEF SongInv, SongKept, Safe, SongOfTurnSent, SongOf, Active, At
<1> QED BY <1>1, <1>2, <1>3, Types, Serialised, PTL DEF BSpec
-----------------------------------------------------------------------------
(* The context a reply uses up.                                            *)

(* A turn that ends, and a deep task that has recorded its context or will *)
(* not: from here on the request records none.                             *)
ClosingPC == {"deepSaid", "finish", "done"}
EarlyDeepPC == {"run", "topics", "polish"}
Closed(r) == req[r].pc \in ClosingPC /\ deep[r].pc \notin EarlyDeepPC

(* The context of r is in the file, or was read from it.                   *)
Of(ctx, r) == ctx # None /\ ctx = r
Spent(r) == Of(pendingCtx, r) \/ \E s \in Req : Of(req[s].ctx, r)

DeepAfterTurn == \A r \in Req : deep[r].pc # "none" => req[r].pc \in ClosingPC

(* A request records once, so a context used up does not come back.        *)
ReplyInv ==
    /\ DeepAfterTurn
    /\ \A r \in Req : Spent(r) => Closed(r)
    /\ \A s \in Req : req[s].word = "answer" /\ req[s].ctx # None
                         => req[s].ctx # pendingCtx
    /\ ReplyUsedOnce

(* What a step does to the contexts: nothing, or it clears the file; a     *)
(* request records; a sentence consumes.                                   *)
SameWords == \A s \in Req : req'[s].word = req[s].word /\ req'[s].ctx = req[s].ctx
NoContext == SameWords /\ pendingCtx' \in {pendingCtx, None}
Records(r) == SameWords /\ Of(pendingCtx', r) /\ ~Closed(r) /\ Closed(r)'
Consumes(r) ==
    /\ \A s \in Req : s # r => req'[s] = req[s]
    /\ \/ req'[r].word = "answer" /\ req'[r].ctx = pendingCtx /\ pendingCtx' = None
       \/ /\ req'[r].word # "answer" /\ req'[r].ctx \in {pendingCtx, None}
          /\ pendingCtx' \in {pendingCtx, None}

LEMMA GotoWords ==
    ASSUME BTypes, NEW r \in Req, NEW pc, Goto(r, pc)
    PROVE  SameWords /\ req'[r].pc = pc
  BY DEF Goto, SameWords, BTypes, HandlerTypes, Handler

LEMMA RecordsOf ==
    ASSUME NEW r \in Req, RecordPending(r)
    PROVE  Of(pendingCtx', r)
  BY NoneAssumption DEF RecordPending, Context, Of

LEMMA ContextTurn ==
    ASSUME BTypes, DeepAfterTurn, NEW r \in Req, Turn(r)
    PROVE  NoContext \/ Records(r) \/ Consumes(r)
<1>1. CASE RouteShort(r) \/ RouteDeep(r) \/ RouteDoubao(r) \/ RouteDup(r) \/ DupSaid(r)
           \/ Spawn(r) \/ DoubaoFillerSaid(r) \/ DoubaoAnswered(r) \/ LlmReplied(r)
           \/ ToolsSlow(r) \/ FoundSaid(r) \/ AnswerSaid(r) \/ Finish(r)
  BY <1>1, GotoWords
  DEF RouteShort, RouteDeep, RouteDoubao, RouteDup, DupSaid, Spawn, DoubaoFillerSaid,
      DoubaoAnswered, LlmReplied, ToolsSlow, FoundSaid, AnswerSaid, Finish, Memory, NoContext
<1>2. CASE SaidLast(r) \/ LlmSilent(r) \/ ToolsFailed(r) \/ RouteFlash(r) \/ SpawnFails(r)
  BY <1>2, GotoWords
  DEF SaidLast, LlmSilent, ToolsFailed, End, RouteFlash, SpawnFails, Memory, NoContext
<1>3. CASE FillerSaid(r) \/ TooManyRounds(r) \/ ToolsDone(r) \/ Broken(r)
  <2> USE DEF SameWords, BTypes, HandlerTypes, Handler
  <2>1. SameWords
    <3>1. CASE FillerSaid(r) \/ TooManyRounds(r)
      BY <3>1 DEF FillerSaid, TooManyRounds
    <3>2. CASE ToolsDone(r)
      BY <3>2 DEF ToolsDone
    <3>3. CASE Goto(r, "done")
      BY <3>3, GotoWords
    <3>4. CASE req' = [req EXCEPT ![r].pc = "done", ![r].found = TRUE]
      BY <3>4
    <3>5. Broken(r) => \/ Goto(r, "done")
                       \/ req' = [req EXCEPT ![r].pc = "done", ![r].found = TRUE]
      BY DEF Broken
    <3> QED BY <1>3, <3>1, <3>2, <3>3, <3>4, <3>5
  <2> QED BY <1>3, <2>1
          DEF FillerSaid, TooManyRounds, ToolsDone, Broken, Memory, NoContext
<1>4. CASE DoubaoSaid(r) \/ MarkerSaid(r)
  <2>1. /\ Goto(r, "finish") /\ RecordPending(r) /\ UNCHANGED Deeps
        /\ req[r].pc \in {"doubaoAnswer", "marker"}
    BY <1>4 DEF DoubaoSaid, MarkerSaid, At
  <2>2. deep[r].pc = "none" /\ ~Closed(r)
    BY <2>1 DEF DeepAfterTurn, ClosingPC, Closed
  <2>3. Closed(r)'
    BY <2>1, <2>2, GotoWords DEF Closed, ClosingPC, EarlyDeepPC, Deeps
  <2> QED BY <2>1, <2>2, <2>3, GotoWords, RecordsOf DEF Records
<1>5. CASE Repaired(r)
  <2>1. CASE Goto(r, "classify") /\ pendingCtx' = None
    BY <2>1, GotoWords DEF NoContext
  <2>2. ASSUME NEW word \in Word, Consume(r, word),
               pendingCtx' = IF word = "followup" THEN pendingCtx ELSE None
        PROVE  Consumes(r)
    BY <2>2 DEF Consume, Consumes, Word, BTypes, HandlerTypes, Handler
  <2> QED BY <1>5, <2>1, <2>2 DEF Repaired
<1> QED BY <1>1, <1>2, <1>3, <1>4, <1>5 DEF Turn

LEMMA ContextDeep ==
    ASSUME BTypes, DeepAfterTurn, NEW r \in Req, DeepTask(r)
    PROVE  NoContext \/ Records(r)
<1>1. UNCHANGED req
  BY DEF DeepTask, DeepDies, DeepAnswered, TopicsUpdated, DeepPolished, DeepFailed, DeepSearches,
         DeepFound, DeepFlushed, Push, Posted
<1>2. SameWords
  BY <1>1 DEF SameWords
<1>3. CASE DeepPolished(r) /\ deep[r].still
  <2>1. RecordPending(r) /\ DeepGoto(r, "push") /\ DeepAt(r, "polish")
    BY <1>3 DEF DeepPolished
  <2>2. ~Closed(r) /\ Closed(r)'
    BY <1>1, <2>1
    DEF Closed, EarlyDeepPC, DeepGoto, DeepAt, DeepAfterTurn, BTypes, DeepTypes
  <2> QED BY <1>2, <2>1, <2>2, RecordsOf DEF Records
<1>4. CASE ~(DeepPolished(r) /\ deep[r].still)
  BY <1>2, <1>4
  DEF DeepTask, DeepDies, DeepAnswered, TopicsUpdated, DeepPolished, DeepFailed, DeepSearches,
      DeepFound, DeepFlushed, Push, Posted, Memory, NoContext
<1> QED BY <1>3, <1>4

LEMMA ContextNext ==
    ASSUME BTypes, DeepAfterTurn, [BNext]_bvars
    PROVE  NoContext \/ \E r \in Req : Records(r) \/ Consumes(r)
<1>1. ASSUME NEW r \in Req, Arrive(r) \/ Busy(r) \/ TakeLock(r) PROVE NoContext
  <2>1. SameWords
    BY <1>1, GotoWords DEF Arrive, Busy, TakeLock, SameWords, BTypes, HandlerTypes, Handler
  <2> QED BY <1>1, <2>1 DEF Arrive, Busy, TakeLock, Memory, NoContext
<1>2. CASE UNCHANGED bvars
  BY <1>2 DEF bvars, NoContext, SameWords
<1> QED BY <1>1, <1>2, ContextTurn, ContextDeep DEF BNext, AtRest

(* A turn that ends stays ended, and so does its deep task.                *)
LEMMA ClosedStays ==
    ASSUME BTypes, DeepAfterTurn, [BNext]_bvars
    PROVE  DeepAfterTurn' /\ \A r \in Req : Closed(r) => Closed(r)'
<1> USE DEF BTypes, HandlerTypes, Handler, DeepTypes, Closed, ClosingPC, EarlyDeepPC
<1>1. ASSUME NEW r \in Req, Turn(r)
      PROVE  DeepAfterTurn' /\ \A s \in Req : Closed(s) => Closed(s)'
  <2>1. \A s \in Req : s # r => req'[s] = req[s] /\ deep'[s] = deep[s]
    BY <1>1, TurnFact DEF Deeps, Spawn, SpawnFails, DeepGoto
  <2>2. CASE Spawn(r) \/ SpawnFails(r)
    BY <2>1, <2>2 DEF Spawn, SpawnFails, DeepGoto, Goto, At, DeepAfterTurn
  <2>3. CASE ~Spawn(r) /\ ~SpawnFails(r)
    <3>1. UNCHANGED deep
      BY <1>1, <2>3, TurnFact DEF Deeps
    <3>2. req[r].pc \in ClosingPC => req'[r].pc \in ClosingPC
      BY <1>1, <2>3
      DEF Turn, Repaired, RouteShort, RouteDeep, RouteDoubao, RouteDup, RouteFlash,
          SaidLast, DupSaid, DoubaoFillerSaid, DoubaoAnswered, DoubaoSaid, FillerSaid,
          LlmReplied, LlmSilent, TooManyRounds, ToolsSlow, ToolsFailed, ToolsDone,
          FoundSaid, AnswerSaid, MarkerSaid, Broken, Finish, End, Goto, At
    <3> QED BY <2>1, <3>1, <3>2 DEF DeepAfterTurn
  <2> QED BY <2>2, <2>3
<1>2. ASSUME NEW r \in Req, DeepTask(r)
      PROVE  DeepAfterTurn' /\ \A s \in Req : Closed(s) => Closed(s)'
  <2>1. UNCHANGED req /\ \A s \in Req : s # r => deep'[s] = deep[s]
    BY <1>2
    DEF DeepTask, DeepDies, DeepAnswered, TopicsUpdated, DeepPolished, DeepFailed, DeepSearches,
        DeepFound, DeepFlushed, Push, Posted, DeepGoto
  <2>2. /\ deep[r].pc # "none"
        /\ deep[r].pc \notin EarlyDeepPC => deep'[r].pc \notin EarlyDeepPC
    BY <1>2
    DEF DeepTask, DeepDies, DeepAnswered, TopicsUpdated, DeepPolished, DeepFailed, DeepSearches,
        DeepFound, DeepFlushed, Push, Posted, DeepGoto, DeepAt
  <2> QED BY <2>1, <2>2 DEF DeepAfterTurn
<1>3. ASSUME NEW r \in Req, Arrive(r) \/ Busy(r) \/ TakeLock(r)
      PROVE  DeepAfterTurn' /\ \A s \in Req : Closed(s) => Closed(s)'
  <2>1. UNCHANGED deep /\ req[r].pc \in {"idle", "waiting"}
    BY <1>3 DEF Arrive, Busy, TakeLock, At, Deeps
  <2>2. \A s \in Req : s # r => req'[s] = req[s]
    BY <1>3 DEF Arrive, Busy, TakeLock, Goto
  <2> QED BY <2>1, <2>2 DEF DeepAfterTurn
<1>4. CASE UNCHANGED bvars
  BY <1>4 DEF bvars, DeepAfterTurn
<1> QED BY <1>1, <1>2, <1>3, <1>4 DEF BNext, AtRest

LEMMA ReplyNext == BTypes /\ ReplyInv /\ [BNext]_bvars => ReplyInv'
<1> SUFFICES ASSUME BTypes, ReplyInv, [BNext]_bvars PROVE ReplyInv'
  OBVIOUS
<1>1. DeepAfterTurn' /\ \A r \in Req : Closed(r) => Closed(r)'
  BY ClosedStays DEF ReplyInv
<1>2. CASE NoContext
  <2>1. \A r \in Req : Spent(r)' => Spent(r)
    BY <1>2 DEF NoContext, SameWords, Spent, Of
  <2> QED BY <1>1, <1>2, <2>1 DEF NoContext, SameWords, ReplyInv, ReplyUsedOnce
<1>3. ASSUME NEW r \in Req, Records(r) PROVE ReplyInv'
  <2>1. \A s \in Req : s # r /\ Spent(s)' => Spent(s)
    BY <1>3 DEF Records, SameWords, Spent, Of
  <2>2. \A s \in Req : Spent(s)' => Closed(s)'
    BY <1>1, <1>3, <2>1 DEF Records, ReplyInv
  <2>3. \A s \in Req : req[s].ctx # None => req[s].ctx # pendingCtx'
    BY <1>3 DEF Records, ReplyInv, Spent, Of
  <2> QED BY <1>1, <1>3, <2>2, <2>3 DEF Records, SameWords, ReplyInv, ReplyUsedOnce
<1>4. ASSUME NEW r \in Req, Consumes(r) PROVE ReplyInv'
  <2>1. \A s \in Req : Spent(s)' => Spent(s)
    BY <1>4 DEF Consumes, Spent, Of
  <2>2. \A s \in Req : req'[s].word = "answer" /\ req'[s].ctx # None
                         => req'[s].ctx # pendingCtx'
    BY <1>4 DEF Consumes, ReplyInv
  <2>3. ReplyUsedOnce'
    BY <1>4 DEF Consumes, ReplyInv, ReplyUsedOnce
  <2> QED BY <1>1, <2>1, <2>2, <2>3 DEF ReplyInv
<1> QED BY <1>2, <1>3, <1>4, ContextNext DEF ReplyInv

(* No two sentences are taken for the reply to the same answer: whoever    *)
(* consumes a context clears the file, and none is recorded a second time. *)
THEOREM RepliedOnce == BSpec => []ReplyUsedOnce
<1>1. BInit => ReplyInv
  BY BridgeAssumption
  DEF BInit, ReplyInv, ReplyUsedOnce, DeepAfterTurn, Spent, Of, IdleHandler
<1>2. ReplyInv => ReplyUsedOnce
  BY DEF ReplyInv
<1> QED BY <1>1, <1>2, ReplyNext, Types, PTL DEF BSpec
=============================================================================
