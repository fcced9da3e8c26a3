# xiaoai-dsh in TLA+

xiaoai-dsh turns a rooted Xiaomi speaker into the ear and mouth of a Mac: the
speaker recognises speech, the Mac understands, answers and acts. These modules
model the concurrent core of the program, TLC checks them on small instances,
and TLAPS proves what matters most for every size.

A step of a model is a stretch of code between two points where something else
may run: an `await` in JavaScript and Rust, a blocking call or a `yield` whose
consumer may vanish in Python. Texts, prompts, file formats and sizes are
abstracted to what the properties tell apart.

## 1. The system

| Part | Source | State it keeps | What it does | What is hard about it |
|---|---|---|---|---|
| Playback gate | `migpt/migpt/speaker-gate.ts` | promise chain, dialog and music epochs, answer barrier, announcements held back, current music | orders everything the speaker plays; drops what has expired; flushes | chains abandoned in the middle of an await, barrier against chain, epochs checked before and after a call |
| Dialogue handler | `migpt/config.ts`, `migpt/migpt/{index,xiaoai,speaker}.ts` | locals of one run of `onMessage` per sentence, the last message | reads the bridge's stream aloud, stops, resumes music; HTTP `/play`, `/play_url` | sentences overlap, since nobody awaits `onMessage`; one barrier for all of them |
| Bridge turns | `bridge/xiaogpt-bridge.py`, `state_store.py`, `topic_state.py` | global lock, turn counter, permits of deep tasks, queued song, context file, caches | routes a question to a fast model with tools, to doubao or to a deep task; streams the answer | streams that die at any yield, deep tasks that outlive their turn, globals without a lock |
| Bridge topics | `bridge/topic_state.py`, `xiaogpt-bridge.py` (`_deep_push`) | JSON file of conversations, `topics_lock`, day of the last cleanup | chooses the topic of a deep task, extends it, forgets old ones | the choice is made without the lock on a list loaded before; cleanup, extension and restart in between |
| Bridge reminders | `bridge/xiaogpt-bridge.py` | a JSON file | set, cancel, speak and delete | read-modify-write of a file by several threads, failing pushes, restarts |
| Music tools | `bridge/xiaogpt-bridge.py` (`netease_*`, `web_audio_play`, `_flush_play`, duplicates) | URL cache, song waiting for the answer, what was played last, recent questions | search, pick, fall back to the script, queue, send, repeat, skip, resume | each delay of a URL has its own limit, and their sum is not within its life; songs sent by several paths |
| Media relay | `bridge/web-audio-play.py` | state file, port, token of the process | finds a stream on the web and serves it to the speaker | scripts that overlap, a relay that outlives the script that started it |
| Admin server | `admin/server.py` | `local.json`, derived files, semaphore of connections | serves the configuration page, verifies keys, saves | a save that dies half-way, two saves at once, permits |
| Configuration readers | `bridge/config_loader.py` | what was loaded at start | refuse to start on a broken configuration; find the bridge's secret | they start on whatever a save has left behind |
| Address checks | `bridge/security.py` | none | which hosts the speaker and the relay may fetch from | none in itself |
| Device discovery | `bridge/device_discovery.py` | none | would ask Home Assistant for devices | see section 6 |
| Speaker link | `migpt/src/server.rs`, `packages/client-rust/src/services/connect/{message,rpc}.rs` | generation, the two halves of the socket, pending requests | accepts, authenticates and replaces connections; remote calls | teardown of the old against init of the new; aborts; replies before their entries |
| Frame limiter | `.../connect/limits.rs` | violations, token bucket | bounds what a connection may send | what its verdicts are used for; arithmetic at the limits |
| Direct mode, native block, hook | `speaker/*.sh`, `speaker/hook/hook_tts.c` | mode flag, counters | keeps the official assistant silent, or lets it answer when the Mac is away | flag and sentence race; markers at the end of a buffer |
| Speaker client, audio | `packages/client-rust/src/{bin,services}` | monitors with file positions, recorder, player | sends recognised sentences and audio, executes remote calls | lines read half written; a task that stops itself |
| Scripts, probes | `scripts/`, `probe/`, `bridge/{refresh-token,extract-cookie,miot_lan_probe2}.py` | none | one-shot tools | nothing concurrent |

How they meet: the speaker client sends events over the WebSocket of the link;
`server.rs` hands them to `xiaoai.ts`, which starts `onMessage`; that POSTs the
question to the bridge and plays the streamed chunks through the gate; the gate
tells the speaker to play with remote calls (`run_shell`) over the same link.
Deep tasks, reminders and songs come back from the bridge by POST to `/play`
and `/play_url`, at any time, and pass the gate too. The music tools run the
script of the relay as a process and hand its URL to the speaker, which fetches
from the relay directly. What the admin server saves is read by the bridge and
by migpt when they start.

What makes each part correct: the gate plays each thing once, in order, one at
a time, and nothing that was flushed; while the barrier is up nothing is
announced, and every run of the dialogue comes back; a turn of the bridge is
alone, ends, and leaves neither lock, song nor question behind; a round of a
deep task is in the topic it chose and stays there; a push of every reminder is
tried; a song that goes through the relay finds it there, and every search ends;
a save changes the configuration as a whole and keeps what it was not told to
change; the link is not taken down by a connection that has been replaced; the
limiter bounds the audio of a connection.

## 2. Modules

`EXTENDS` composes: `Dialogue` extends `SpeakerGate`, `Music` extends
`MediaRelay`, each `MC*` module extends its specification, and each `*_proofs`
module extends its specification and TLAPS (`SpeakerLink_proofs` extends
`FrameLimiter` too, the limiter of what a connection reads). `AdminSave` and
`Topics` instantiate what they promise, `AtomicConfig` and `TopicBook`, each with
a refinement mapping.

**SpeakerGate.** The module variables of `speaker-gate.ts` are one record
`gate`, so that the exported functions are operators from a gate to a gate
(`enqueueChunk`, `endAnswer`, `flushPlayQueue`, ...), as the code composes
them. A task is a closure with its kind, the epochs it captured and its
phase, the await it is at. `playChain` is the current promise chain, `abandoned`
holds those a flush has left behind, whose running closure goes on. Actions: one per
exported function, `Start` (`playChain.then`), `Return` and `Fail` of the
awaited call, `Probe` of the initial music state. On its own the module is the
gate under the most general client.

**Dialogue.** Each sentence, push and song is a process with a program counter
that names the call it awaits and the locals that survive it. The steps of
`onMessage` are those between its awaits: stop words, wake word, pausing the
music, health check, fallback, stream, chunks, interjection, end, `keep_open`.
`lastMsg` is what the interjection test compares; sentences are numbered as they
are said. A chunk read calls the gate's operators in the same step, as the code
does. Nothing keeps the runs apart: `xiaoai.ts` does not await `onMessage`.
`PauseWorks` says whether `mphelper pause` ends the speech in flight.

**BridgeTurns.** A request waits for the lock (45 s, then 503: `Busy`), begins a
turn, and walks through `answer_stream`; each `yield` is a program counter from
which the handler goes on or is `Broken`, and then the generator's `finally`
clauses run in that step. The deep task of a request is a second thread with
its own counter; it may lose its permit where the code does, when its thread
does not start (`SpawnFails`) or dies before its `try` (`DeepDies`). `sent`
records what the speaker was asked to play and for whom, `displaced` the songs
that the search of a deep task put its own in place of; the pending context is
named by the request whose answer it keeps.

**Topics.** The archive is the sequence in the file, a deep task a process that
cleans up, looks, chooses, and extends. Each `with topics_lock` is a step that
takes the lock and loads and one that saves and gives it back, since a request
to the model lies between them; the choice is made on the list a task remembers.
A save may fail silently, and `Restart` may strike anywhere.

**TopicBook.** What the archive promises: a topic gains one round at a time, of a
task that has none yet, and a cleaning forgets what is too old. `Book` in
`Topics` maps the book to the function from names to rounds and last days that
the list in the file stands for.

**Reminders.** The file, the tool calls and the loop, each of which loads the
whole file in one step and writes it in another; between the two anything may
happen, since the lock covers the write only. A write may fail, which nobody
learns, and so may the POST of a push: `reached` and `failed` tell the two
apart, the loop cannot. `Crash` restarts the bridge: locals are lost, the file
stays, because writes are atomic replacements. `settled` and `struck` are the
reminders that were set and cancelled while nobody else was between reading and
writing; the code has no such state.

**MediaRelay.** One process of `web-audio-play.py --no-play` per search: the
platforms in their order, the state file truncated and filled in two steps, the
ping, the start of a relay, the URL it prints; `Killed` is the bridge's timeout
of 90 s. `relay` is the token of the process that has the port, `starting` those
not listening yet. A call also stands for its token and its stream.

**Music.** Turns and deep tasks that look for a song, step by step through
netease, the choice and the script, up to the song that waits in `pending` and
is sent when the answer is over. Time is in seconds: duplicates 300, URL cache
900; a turn or a fallback takes at most `TurnTime`. `last` is what the bridge
remembers of the song it sent last, set before the POST, which may fail.

**AdminSave.** A thread per connection and the semaphore; a save generates into
a directory of its own, moves the derived files one by one and writes
`local.json` last. A step of it may fail, the process may die, the file may be
edited by hand. A configuration is the triple of who wrote it, its secret and
its optional section. Readers start and stop at any moment. `settled`, `clean`
and `wrote` remember what the properties compare; the code has no such state.

**AtomicConfig.** What a save promises, in two variables: configurations get
prepared, and the one in force becomes a prepared one in a single step.
`Atomic` in `AdminSave` maps `current` to `local.json` and `prepared` to the
configurations of which every derived file has been in place.

**SpeakerLink.** Connections walk from accept to end through the connector, the
main loop's takeover, `handle_connection` with its init of reader, writer and
RPC one lock at a time, the reading loop and the teardown. The globals are
`reader`, `writer` (whose halves), `connected` (`send_request`), `pending`;
the locks are `manager` (MANAGER_LOCK), `reading` and `writing`. A remote call
takes the write mutex, writes, and only then enters `pending`. An abort sets a
flag; `Cancel` ends the task and drops its guards; before that the task may go
on for any number of steps, which is what several tokio workers allow.

**FrameLimiter.** The bucket and the count of violations, time in ticks, sizes
in units. `Mark` lets an observer begin a window at any moment: `window` and
`passed` measure the time since and the audio let through.

The formulas named `...Over`, `...Keeps`, `...Anyway` and so on, each after a
comment "Faulty variant", are the code with a plausible mistake in it: with the
variant in place of the definition a run reports the property violated, which
shows that the property is not vacuous. They are not part of `Next`.

## 3. What is checked

Runs that pass:

| Run | Properties | Bounds | What it shows |
|---|---|---|---|
| `gate` | NothingStranded EachTaskOnce AbandonedExpired OutsideInOrder FlushIsFinal ChainsDrain | 3 tasks, 1 advance of each epoch | any client, calls that reject included: nothing is left behind the barrier, played twice, out of order, or after a flush; every chain runs dry, flushed ones too |
| `dialogue` | BarrierHasOwner NoForgottenAwait EveryHandlerReturns BarrierKeepsOutsideOut | 2 sentences of any kind that may overlap, 1 chunk each, beside nothing, a push, or a song (one of three handlers never comes) | the barrier is up only while an answer is read and keeps pushes out; nobody awaits a promise nobody will settle; every run of `onMessage` and every request ends |
| `bridge` | SlotsConserved OneTurn ReplyUsedOnce SongOfTurnSent EveryTurnEnds | 2 requests, 1 question, 1 permit, 2 rounds, songs of deep tasks, local searches | no permit leaks but in the two ways of section 6, turns are alone, a question asked back is answered once, a song that was found is sent, the lock comes free as long as a permit is left |
| `topics` | RoundWhereChosen LatestFirst RoundsKept ArchiveIsBook EveryTaskEnds | 3 deep tasks, 2 rounds a topic, 3 days, topics live a day, 1 restart | no round is lost or lands in another topic, the latest topic comes first, the file changes as a `TopicBook` does, every task gets the lock and gives it back |
| `reminders` | ConfirmedKept CancelIsFinal EveryReminderTried | 2 reminders, 2 cancellations, 1 restart, writes and pushes that fail | however tools and loop overlap, what was set or cancelled while nobody else was writing stays so, and a push of every other reminder is tried |
| `music` | RelayUp EveryAskEnds | 2 turns or deep tasks, 2 songs, 900 seconds, 1 relay killed | a relay listens behind each relayed URL, every search ends |
| `admin` | PermitsConserved InheritedKept CleanSaveAgrees StartedWithSecret LocalWrittenLast | 3 requests, 2 permits, 2 derived files, 1 reader, 2 faults | the configuration changes as a whole and after its files, what the form leaves out survives, a service starts with the settled secret, permits come back |
| `link` | NewerLinkKept NobodyInTheWay PendingAccounted NewConnectionServes EveryCallReturns | 2 connections, 1 announces, 1 call, channel of 1 | a teardown spares the newer connection, nobody waits for the lock of a live connection, pending requests do not pile up; if writes end, a new connection comes to serve and every call comes back |
| `limiter` | RecordBounded | capacity 4, rate 2, windows to 4 | the audio of a connection is bounded over every window |

Runs that show a disagreement between the code and its comments, each a finding
in PROJECT.json:

- `relay_token` (`LatestSongServed`): a second song through the relay gets a URL
  with the token of its own script, while the relay that answers was started
  with the token of the first, and refuses it.
- `overlap` (`InterjectionSparesNewAnswer`): the answer that is interrupted
  advances the dialog epoch when it reads its next chunk (`config.ts:372`), after
  the newer answer has taken that epoch as its own: the newer one goes silent.
- `reminder_push` (`UnheardKept`): the loop removes a reminder whose push failed
  (1614-1616 says it keeps it).

**Why the bounds are enough.** Every property is about two or three actors: the
one that acts, the one that overtakes it and, for order and conservation, one
more. The proofs of section 5 lift the bounds for most of them.

- `gate`: three tasks let one run, one wait and one be held back, and one
  advance of an epoch tells the current from the old, which is all the closures
  compare.
- `dialogue`, `overlap`: `MaxTask` is at least what the processes of the run can
  enqueue, so it cuts nothing. `MaxEpoch` is 0 because there epochs are advanced
  by the handlers, which are finite. Two sentences with a push and a song at once
  are beyond what TLC finishes in minutes, so `Absent` lets one of the second
  sentence, the push and the song stay away; the theorems have all of them.
- `bridge`: `DeepSlots` of 1 is the tightest pool (3 in the code), and one lost
  permit empties it; `MaxRound` 2 is a round that calls tools and a last one (6
  in the code); one question makes the second request a duplicate of the first
  whenever it can be.
- `reminders`: two writers and the loop are one that overtakes, one that is
  overtaken, and one that acts on what is left.
- `topics`: `MaxRounds` 2 (12 in the code) is reached by two tasks, so the third
  pushes a round out; `MaxAge` 1 (7 days in the code) and three days let a topic
  live through one night and expire in the second; a task can straddle two days and a restart.
- `music`: two calls are a deep task or a repeat beside a turn; two songs are the
  one that plays and another; the steps of time, 200 and 700 s, lead within and
  past the window of duplicates and to the end of the cache.
- `admin`: two derived files are a mixture, the secret the first as `os.walk`
  meets it; two permits with three requests turn one away; three saves are two
  that overlap and one that repairs. Two faults are a save that
  fails and a crash during the next, or an edit by hand between two saves.
  Requests are symmetric. The theorems have no such bound.
- `link`: a channel of one makes connectors wait, and two connections are one
  that goes and one that comes.
- `limiter`: sizes below, at and above the bucket; `MaxViolations` is the code's 3.

`CHECK_DEADLOCK FALSE` is said where the system may stop: all the calls of `music`
and `relay_token` made, all the tasks and days of `topics` over.

## 4. Fairness

Weak fairness of each step a runtime always takes, and nothing for what people
and networks do.

- `ChainsDrain`, `EveryHandlerReturns`: a promise that can go on does, and every
  awaited call ends. The calls have timeouts in `speaker.ts`, `config.ts` or
  `node.rs`; the write of the request itself has none (`rpc.rs:118`) and is assumed
  to end.
  A sentence, push or song need never come.
- `EveryTurnEnds`: a thread that is not blocked runs and every blocking call of
  the bridge has a timeout. Requests for the lock need no strong fairness: a
  wait ends in 503. The property itself excepts the state in which every permit
  is lost.
- `EveryTaskEnds`: the steps of a deep task, strongly, since `topics_lock` is
  contended and a waiting thread gets it when it comes free again and again.
- `EveryAskEnds`: tools and the model answer or time out, the script is killed
  after 90 s. Of the script itself nothing is assumed.
- `EveryReminderTried`: the loop goes on, a POST ends by its timeout, time
  passes. No write need succeed.
- `NewConnectionServes`, `EveryCallReturns`: tokio runs every task that can go
  on and carries out aborts, timers fire. Not assumed: that anyone connects,
  answers, or that a stream ends. A write to a speaker that reads nothing may
  go on for ever (`message.rs:92-95` has no timeout, `rpc.rs:118` is before the
  timeout of 125), so both properties have the premise `WritesEnd`, that the
  mutex of the write half comes free again and again.

## 5. What is proved

All theorems are for every value of the constants, under the assumptions
`GateAssumption`, `DialogueAssumption`, `BridgeAssumption`, `NoneAssumption`,
`LinkAssumption`, `LimiterAssumption`, `ReminderAssumption`, `RelayAssumption`,
`MusicAssumption`, `TopicAssumption` and `AdminAssumption`: constants that are
numbers are numbers, and "nobody" is nobody. TLC evaluates them on each run. The
type invariants of all modules with a proof are theorems (`Typed`, `DTyped`,
`BTyped`, `RTyped`, `ATyped`, `LTyped`, `FTyped`, `MTyped`, `TTyped`); TLC agreed
with each before it was proved, and no run repeats it. Every safety property
that a passing run checks, action properties and refinements included, is a
theorem.

**SpeakerGate_proofs** (`Typed`, `Unstranded`, `AbandonedForGood`, `OncePlayed`,
`FlushFinal`, `ArrivalOrder`). The properties are not inductive: that nothing is
stranded needs the barrier and the held-back list tied together, that abandoned
tasks have expired needs the epochs captured by a task to be no newer than the
gate's. `GateInv` states both with the types, as a predicate of a gate, so each
operator of the gate has a lemma that it preserves it and the operators that
call others cite theirs. Three more predicates of a gate build on it, each again
with a lemma per operator. `Once` says where a task is, by its number: settled,
held back, or in one place of one chain; it speaks of each chain and of each
pair of chains, because a flush moves whole chains and the end of an answer
moves the held-back list. `Waiting` says that only the head of a chain has been
started; a step then `Heeds` the gate if what it makes audible is the head of
the play chain and not past, and from this, from `Once` and from
`AbandonedExpired` a flush is final. `InLine` says that announcements
stand in the order of their numbers on the play chain and in the held-back list,
and that none on the chain came after one that is held back; `ArrivalOrder` is a
part of it.

**Dialogue_proofs** (`DTyped`, `BarrierOwned`, `GateUnderHandlers`,
`NothingForgotten`, `FlushFinalUnderHandlers`, `BarrierQuiet`,
`ArrivalOrderUnderHandlers`). A handler composes functions of the gate in one
step, so its steps are not steps of `SpeakerGate`'s own `Next`, and the gate's
theorems do not carry over; its lemmas do. `Follows` says what every call but
`beginAnswer` does to a sound gate (it stays sound, the dialog epoch does not go
back, no barrier goes up) and is transitive. `DInv` adds to the gate's invariant
that handlers hold only epochs that were given out and that the barrier has an
owner. Then the promises of the gate hold under the handlers too.
`NothingForgotten` adds that what a handler awaits was given out, so by `Once` it
is somewhere. `ArrivalOrderUnderHandlers` carries `InLine` through the steps of the
handlers in the same way. `BarrierQuiet` rests on what stands at the head of the
chains while the barrier is up: an announcement there either sounds already or
has an epoch older than the gate's, because `newDialog` comes in the same block
as `beginAnswer` and what arrives later is held back.

**BridgeTurns_proofs** (`BTyped`, `Serialised`, `Conserved`, `SongDelivered`,
`RepliedOnce`). `BTypes` is split by what the steps touch. `OneTurn` is inductive
with it. `SlotInv` speaks of the finite set of tasks that run and the permits
left: `Conserved` counts with the cardinality theorems, one lemma for a task that
starts and one for each way it ends; a task that loses its permit keeps counting
as its holder. `SongInv` says where the song of a turn is while the turn lasts:
waiting, sent, or displaced by the search of a deep task. For
`RepliedOnce`, `ReplyInv` says that a request whose context is in the file, or
was read from it, is `Closed`: neither its turn nor its deep task will record one
any more, so a context that was used up cannot come back.

**Reminders_proofs** (`RTyped`, `Kept`, `Final`). Overlapping writers lose each
other's changes, so nothing can be said of every reminder. What can is an
invariant on the lists that somebody still holds: once a reminder was set while
nobody else was between reading and writing, every list read later has it, and
so the file keeps it through every write that rests on such a list; the same,
the other way round, for one that was cancelled.

**Music_proofs** (`RelayStaysUp`, `MusicUsesRelay`, `MusicRelayUp`, `MTyped`).
Every step of `Music` is a step or a stutter of `MediaRelay` (`MusicUsesRelay`), so
the relay's invariant holds under the bridge. `MTyped` adds that what waits to
be played has passed the check of its URL.

**AdminSave_proofs** (`ATyped`, `NoPermitLost`, `Inherited`, `SameSecret`,
`CleanSave`, `Implements`). `AInv` says of a save under way which files it has
moved, that what it will write is what is settled, and that one which began
alone has had no company since. Permits are counted with the
cardinality theorems again. `Implements` is the refinement of `AtomicConfig`: the first file
moved, the last file moved and the write of `local.json` map to stutters, to
`Prepare` and to `Commit`, whatever overlaps or fails.

**SpeakerLink_proofs** (`LTyped`, `NewerSpared`, `NoStaleEntry`, `NoDeadlock`,
and for `FrameLimiter` `FTyped`, `Bounded`). `LInv` adds to the types: connections in the channel are
distinct and wait (`Queued`), generations are given out once and only to those
that took over (`Life`), who is inside the critical section holds MANAGER_LOCK
(`ManagerHeld`), no generation exceeds the counter (`Counted`). `NewerSpared`
then follows because whoever disposes compared its generation with the lock
held, and whoever installs needs the lock. `Entries` is the inductive form of
`NoStaleEntry`. `NoDeadlock`: all that have taken over but the last have been
aborted (`OthersAborted`), who has a lock has taken over, and who has the write
mutex is writing. That the newest connection owns the link is not among them:
it is false (section 6).

`RecordBounded` says nothing of what the bucket still holds; `Budget` does: what
a frame arriving now could still use, plus what has passed, is within the bound.

**Topics_proofs** (`TTyped`, `WhereChosen`, `LatestAreFirst`, `NoRoundLost`,
`ImplementsBook`). The archive is filtered as Python does it, by a list
comprehension: `Select` lists the elements at the places that satisfy a
condition, and `Places` *chooses* an increasing list of these places. That there
is one for every finite set of places (`PlacesListed`) needs induction. The library's
theorems about induction take an operator and cannot be used; `Induction` is
derived instead from the well-foundedness of `<` on the numbers, for sets of
numbers, and that is enough. `TopicInv` says then that who is between its load
and its save has the lock and holds what is in the file (`HolderUpToDate`), that
a round, and the name of a topic, is of a task that is over and so chooses no
more (`Sound`), and that the list is ordered with distinct names (`Sorted`). What an update makes of a list is one lemma
(`UpdatedFact`), what a cleaning does another (`CleanedFact`), and every property
follows from the two. For `ImplementsBook`, `BookOf` is the book that a list
stands for, which is well defined because of `Sorted`; a cleaning is `Forget`, an
update is `Record`, since a task that runs has no round yet, and all else but the
days are stutters: in particular the choice on an old list, and restarts.

Only model-checked: all liveness, which is out of the prover's reach. What it
rests on is proved where it is a matter of safety: `NobodyInTheWay` for
`NewConnectionServes`, `NoForgottenAwait` for `EveryHandlerReturns`, `OneTurn` and
`SlotsConserved` for `EveryTurnEnds`, the lock's holder in `HolderUpToDate` for
`EveryTaskEnds`.

## 6. Where the code departs from its comments

The findings of section 3 have runs. Reading the code for the models showed more departures,
which no run states; unless said otherwise the models contain the behaviour, so
a property stated for one of them fails under TLC.

The dialogue and the gate:

- *One barrier.* `answerActive` is one flag for all runs of `onMessage`: the
  `finally` of an answer that was overtaken (`config.ts:411`) lowers the barrier
  of the newer one, and an announcement is spoken inside it, against rule 1 at
  `speaker-gate.ts:4-5`. `BarrierHasOwner` and `BarrierKeepsOutsideOut` are about
  the flag, and hold.
- *Interjection.* The finding of `overlap`: the newer answer is expired, not the
  old one.
- *Songs and the barrier.* A song goes straight to the chain
  (`speaker-gate.ts:249`) although line 236 has it wait for the speech before it:
  it can start between two chunks of an answer.
- *Resume after stop.* The URL to resume is kept across the answer
  (`config.ts:424`); a stop word meanwhile (278) does not clear it, and the music
  comes back.
- *Stop during launch.* A stop while a song is being launched clears
  `musicActive`, which the launch then sets again (`speaker-gate.ts:264`, 158).
- *One voice.* The confirmation of a stop is spoken outside the chain
  (`config.ts:283`), against the rule at the head of `speaker-gate.ts`.

The bridge:

- *Stale context.* `still_current` is computed before the models are asked (2493)
  and used after it (2506), so an overtaken deep task writes the context, which
  2449 says it does not. `StaleTaskWritesNoContext` of `BridgeTurns` fails.
- *Stale song.* A deep task sends its song (2491) before it compares its turn
  (2445-2449 say a late result is dropped).
- *Lost permits.* `Thread.start` at 2538 is outside any `try`, and so are
  `daily_cleanup` (2454) and the start of the progress timer (2473), before the
  `try` whose `finally` releases: an exception there keeps the permit, and after
  three the next turn to want one keeps the global lock for good.
- *Stranded song.* A duplicate question queues its song before the try whose
  finally sends it (2824, 2931-2932): a stream broken there leaves it for a later
  turn. The song of a deep task is sent by whichever turn comes first, and its
  search overwrites the song of a turn that waits (1163-1164).
- *Which song was last.* A song sent without its question (a broken stream, the
  fallback of a deep task) replaces the URL remembered but neither title nor
  question (1180-1183), and both are remembered before a POST whose failure is
  passed over (1184-1195): a repeated question may play another song, and
  "change" may give the one that plays or skip one that never played.
- *Old URL.* "上次 URL 时效 20 分钟，去重窗口 5 分钟，重推安全" (2817): a URL comes
  out of the cache up to 900 s after it was fetched (1260), waits for the rest of
  the turn, is accepted for a repeat for 300 s (2692), and waits for the rest of
  that turn. 900 s and 300 s are the 20 minutes already, so whatever the two
  turns take comes on top. A stranded song has no limit at all.
- *Repeat.* A repeated song question plays its song only if no other question
  has played one since (2815-2818).
- *Shared question.* A tool run by a deep task reads the question of whichever
  turn is current (1321, 2740).
- *Answer word.* "好" after an answer that asked nothing is consumed as a reply
  (`topic_state.py:284`, against 210-211).
- *Lost reminder.* The lock of the reminders covers the write only (1586):
  overlapping tools, or a tool and the loop, overwrite each other's file, and a
  reminder that was confirmed is gone or one that was cancelled is back.
  `ConfirmedKept` and `CancelIsFinal` speak of those set or cancelled while
  nobody else was between reading and writing.
- *Failed push.* The finding of `reminder_push`. `save_reminders` likewise
  swallows a failed write (1574-1577) after which the tool confirms.
- *Topics.* `load_topics` returns an empty list on any read error, and the next
  save then replaces the whole archive by it; not in the model, which reads what
  is there.
- *Evolved tools, skills.* `register_evolved_tool` loads and writes its file
  without a lock (2316-2373). `load_skills_text` says that runtime skills win
  (2259-2273); the code makes those of the repository win. Neither is modelled.

The relay, the page and the readers:

- *Watchdog.* `sys.exit` in the watchdog's thread ends that thread only
  (`web-audio-play.py:331-336`, against 245 and `docs/architecture.md:128`): an
  idle relay stays, and keeps the token of the finding.
- *Failed save.* `server.py:24-25` promises that a failed save leaves everything
  as it was; after the first file is moved it leaves derived files of the new
  configuration beside the old `local.json`. `CleanSaveAgrees` speaks of saves
  that succeed; `LocalWrittenLast` is what holds of the others.
- *First saves.* Two overlapping first saves each make a secret, and the second
  replaces the first's; a first save that fails leaves a `bridge-secret` that the
  next one replaces. `InheritedKept` begins when a secret is settled.
- *Illegal secret.* A comment of `test_admin.py` says an illegal secret is made
  anew; the code keeps the previous one. Not modelled: bodies that pass carry a
  legal secret or none.
- *Temporary files.* `atomic_write_text` names its temporary file by the process
  only, so two threads that write one file share it. The models take each write
  for atomic.
- *Device discovery.* `device_discovery.py` does not import `urllib` and `json`:
  every fetch raises a NameError that is swallowed and discovery returns nothing,
  against lines 65-66. Not modelled.

The link:

- *Late init.* An aborted task goes on to its next await and may install its
  halves after the newer connection's (`server.rs:183`, against 33-34): the newest
  connection serves with the read or write half of another. `NewerLinkKept` is
  about taking down.
- *Writes that do not end.* While a message is written to a speaker that reads
  nothing, the mutex of the write half is held, and the `init` of the next
  connection waits for it with `MANAGER_LOCK` held (`message.rs:85-95`); neither
  the write nor the wait has a timeout.
- *Entries that stay.* The announcement of a replaced connection is aborted
  wherever it is, and its entry in `pending_requests` stays until the next
  dispose (`server.rs:158`).
- *Violations.* One over-long frame ends the connection (`message.rs:145`, 151)
  although `limits.rs:8` grants three; a flood of audio frames never does
  (`message.rs:152`, against 125-126). The limiter is of a connection: a peer that
  connects again has a full bucket.

## 7. What is not modelled

- The acoustic echo at the end of an answer (`speaker-gate.ts:266`), wording,
  routing by keywords, prompts, parsing: no property here tells them apart.
- In `Dialogue`: extraction of control markers from split chunks, `/native`,
  `/exec`, filters of recognised text.
- In `BridgeTurns`: progress pushes of a deep task, the history log, answers
  that are not streamed, authentication of requests, evolved tools and skills,
  device shortcuts, a write of the context file that fails.
- In `Topics`: reads that fail, topics extended in the same second (their order
  is that of a stable sort in the code), the text of summaries.
- In `Reminders`: a file that cannot be read, which reads as an empty list.
- In `Music`: pause, lyrics, the list of playlists, which version of a song is
  preferred, how long a URL lives.
- In `MediaRelay`: `--list`, `--stop` and direct play, the scripts run in the
  browser, ranges and headers.
- In `AdminSave`: `load_or_create_token`, which runs before the page serves, the
  text of the checks of a body, the page itself.
- In `SpeakerLink`: requests made by the speaker and the 32 permits of their
  tasks (`message.rs:207`), the second before an announcement, which address is
  allowed.
- Direct mode, native block and hook (`direct-mode.sh:84`, `native-block.sh:211`),
  speaker client and audio (`file.rs:85`, `record.rs:110`): they run on the
  speaker beside its own firmware, whose side of each race is not in this
  repository; section 8. Device discovery has no state. Scripts and probes have
  no state to speak of.

## 8. What is left

1. Speaker side: `DirectMode` (counters, flag, guard, composed with the decision
   of `native-block.sh` and the arrival of the sentence on the Mac),
   `SpeakerClient` (reconnecting, file monitors and their positions, permits of
   requests), `Recorder` (start and stop against the reading task).
2. Operators checked against a reference definition: `BridgeMarkers` (chunks cut
   anywhere give the text and the actions of the whole), `WriteHook` (marker
   search in a bounded buffer).
