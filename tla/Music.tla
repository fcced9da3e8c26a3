-------------------------------- MODULE Music --------------------------------
(***************************************************************************)
(* Songs at the bridge (bridge/xiaogpt-bridge.py): the tools that look for *)
(* one at netease, with its caches, and by the script of MediaRelay when   *)
(* that fails; _pending_play, where it waits until the answer is spoken;   *)
(* what was sent last, which repeating a question, asking for another song *)
(* and resuming depend on.  Turns take turns (the global lock); deep tasks *)
(* and streams that break come between.  Time is in seconds.               *)
(***************************************************************************)
EXTENDS MediaRelay

CONSTANTS Song,       \* songs of netease
          Steps,      \* bound: how much time may pass at once
          TurnTime,   \* bound: no turn or fallback takes longer
          MaxTime     \* bound: when the run ends

ASSUME MusicAssumption ==
    /\ Song \cap (Call \cup {None, Empty, Torn}) = {}
    /\ Steps \subseteq Nat /\ TurnTime \in Nat /\ MaxTime \in Nat

VARIABLES now,
          ask,        \* [Call -> the turn or deep task that asks for a song]
          urlCache,   \* _netease_url_cache: [Song -> when its URL was fetched]
          pending,    \* _pending_play
          last,       \* _last_music_url, _last_play_title, _last_play_qnorm
          recent      \* _recent_answers: [Call -> when its question was answered]

musicVars == <<now, ask, urlCache, pending, last, recent>>
mvars == <<musicVars, relayVars>>

Never == 0 - 1
UrlTTL == 900
Window == 300     \* DUP_WINDOW_SECONDS

(* The id of a link names the song, or the search that found it elsewhere, *)
(* as titles do.                                                           *)
Title == Song \cup Call
Link == Url \cup [via : {"netease"}, id : Song, host : {"public"}, born : 0..MaxTime]

Kind == {"play", "change", "personal", "repeat", "resume", "deep"}
Asking == [pc : {"idle", "search", "pick", "url", "web", "script", "answer", "dup", "done"},
           kind : Kind, q : Call \cup {None}, cands : SUBSET Song,
           song : Song \cup {None}, at : 0..MaxTime]
Quiet == [pc |-> "idle", kind |-> "play", q |-> None, cands |-> {},
          song |-> None, at |-> 0]

MInit ==
    /\ RelayInit
    /\ now = 0
    /\ ask = [c \in Call |-> Quiet]
    /\ urlCache = [s \in Song |-> Never]
    /\ pending = None
    /\ last = [url |-> None, title |-> None, q |-> None]
    /\ recent = [c \in Call |-> Never]

At(c, pc) == ask[c].pc = pc
Goto(c, pc) == ask' = [ask EXCEPT ![c].pc = pc]
Over(c) == ask' = [ask EXCEPT ![c].pc = "done", ![c].at = 0]
Active(c) == ask[c].pc \notin {"idle", "done"}
LockFree == \A c \in Call : Active(c) => ask[c].kind = "deep"
Begins(c, kind, q, pc) ==
    /\ At(c, "idle")
    /\ ask' = [ask EXCEPT ![c] = [Quiet EXCEPT !.pc = pc, !.kind = kind, !.q = q, !.at = now]]

Tick(d) ==
    /\ now + d <= MaxTime
    /\ \A c \in Call : Active(c) => now + d <= ask[c].at + TurnTime
    /\ now' = now + d
    /\ UNCHANGED <<ask, urlCache, pending, last, recent, relayVars>>

-----------------------------------------------------------------------------
(* Beginning.                                                              *)

(* A turn whose tools look for a song; "change" is CHANGE_SONG_RE, and     *)
(* "personal" the tools for recommendations, liked songs and playlists.    *)
Asks(c, kind) ==
    /\ LockFree
    /\ Begins(c, kind, c, "search")
    /\ UNCHANGED <<now, urlCache, pending, last, recent, relayVars>>

(* _media_local_fallback of a deep task that failed.                       *)
FallsBack(c) ==
    /\ Begins(c, "deep", None, "search")
    /\ UNCHANGED <<now, urlCache, pending, last, recent, relayVars>>

(* The question of d within five minutes: its answer again, and its song   *)
(* if that question was the last to send one.                              *)
Repeats(c, d) ==
    /\ LockFree /\ recent[d] # Never /\ now - recent[d] < Window
    /\ Begins(c, "repeat", d, "dup")
    /\ pending' = IF last.q = d /\ last.url # None /\ ValidAudioUrl(last.url)
                  THEN last.url ELSE pending
    /\ UNCHANGED <<now, urlCache, last, recent, relayVars>>

(* speaker_music_control("resume"): the last URL again, however old, goes  *)
(* to migpt from the tool itself.                                          *)
Resumes(c) ==
    /\ LockFree
    /\ last.url # None /\ ValidAudioUrl(last.url)
    /\ Begins(c, "resume", c, "answer")
    /\ UNCHANGED <<now, urlCache, pending, last, recent, relayVars>>

-----------------------------------------------------------------------------
(* netease_music_play.                                                     *)

(* The personal tools report that there is nothing, netease_music_play     *)
(* turns to the script.                                                    *)
Otherwise(c) == IF ask[c].kind = "personal" THEN "answer" ELSE "web"

(* The songs of the search that are not mere previews, cached or not.      *)
SearchReturns(c) ==
    /\ At(c, "search")
    /\ \E found \in SUBSET Song :
          ask' = [ask EXCEPT ![c].cands = found,
                             ![c].pc = IF found = {} THEN Otherwise(c) ELSE "pick"]
    /\ UNCHANGED <<now, urlCache, pending, last, recent, relayVars>>

(* The skip of a change of song, unless it leaves nothing.                 *)
Fresh(c) ==
    LET others == ask[c].cands \ {last.title}
    IN IF ask[c].kind = "change" /\ others # {} THEN others ELSE ask[c].cands

(* _netease_pick_song: one of them, or none if the singer asked for is not *)
(* among them; then the URL, from the cache if it is young enough.         *)
Picks(c) ==
    /\ At(c, "pick")
    /\ \/ \E s \in Fresh(c) : ask' = [ask EXCEPT ![c].song = s, ![c].pc = "url"]
       \/ ask[c].kind # "personal"
          /\ ask' = [ask EXCEPT ![c].pc = "web", ![c].cands = {}]
    /\ UNCHANGED <<now, urlCache, pending, last, recent, relayVars>>

Cached(s) == urlCache[s] # Never /\ now - urlCache[s] < UrlTTL

(* _queue_play, and the tool returns.                                      *)
Queues(c, url) ==
    /\ pending' = url
    /\ ask' = [ask EXCEPT ![c].pc = "answer", ![c].cands = {}, ![c].song = None]

UrlReturns(c) ==
    /\ At(c, "url")
    /\ LET s == ask[c].song
           born == IF Cached(s) THEN urlCache[s] ELSE now
       IN /\ urlCache' = [urlCache EXCEPT ![s] = born]
          /\ Queues(c, [via |-> "netease", id |-> s, host |-> "public", born |-> born])
    /\ UNCHANGED <<now, last, recent, relayVars>>

(* An error, a song without a URL, the timeout of 40 s.                    *)
NeteaseFails(c) ==
    /\ \/ At(c, "search")
       \/ At(c, "url") /\ ~Cached(ask[c].song)
    /\ ask' = [ask EXCEPT ![c].pc = Otherwise(c), ![c].cands = {}, ![c].song = None]
    /\ UNCHANGED <<now, urlCache, pending, last, recent, relayVars>>

(* web_audio_play: the script is run; what it prints is queued if the      *)
(* speaker may fetch it.                                                   *)
RunsScript(c) ==
    /\ At(c, "web") /\ Runs(c)
    /\ Goto(c, "script")
    /\ UNCHANGED <<now, urlCache, pending, last, recent>>

(* The script has ended; the second check of the same URL when it is sent  *)
(* finds nothing new.                                                      *)
ScriptReturns(c) ==
    /\ At(c, "script") /\ script[c].pc \in {"printed", "failed"}
    /\ IF script[c].pc = "printed" /\ ValidAudioUrl(script[c].url)
       THEN Queues(c, script[c].url)
       ELSE Goto(c, "answer") /\ UNCHANGED pending
    /\ UNCHANGED <<now, urlCache, last, recent, relayVars>>

-----------------------------------------------------------------------------
(* _flush_pending_play(q): what was sent last is remembered before it is   *)
(* sent, and a POST that fails is passed over; without a question only the *)
(* URL is remembered.                                                      *)
FlushFor(q) ==
    /\ pending' = None
    /\ last' = IF pending = None THEN last
               ELSE IF q = None THEN [last EXCEPT !.url = pending]
               ELSE [url |-> pending, title |-> pending.id, q |-> q]

(* The answer has been spoken, and is kept for a repeated question.        *)
AnswerSaid(c) ==
    /\ At(c, "answer") /\ ask[c].kind # "deep"
    /\ FlushFor(c)
    /\ recent' = [recent EXCEPT ![c] = now]
    /\ Over(c)
    /\ UNCHANGED <<now, urlCache, relayVars>>

DupSaid(c) ==
    /\ At(c, "dup")
    /\ FlushFor(ask[c].q)
    /\ Over(c)
    /\ UNCHANGED <<now, urlCache, recent, relayVars>>

(* The stream breaks: the finally sends the song; a repeat has none.       *)
Breaks(c) ==
    /\ \/ At(c, "answer") /\ ask[c].kind # "deep" /\ FlushFor(None)
       \/ At(c, "dup") /\ UNCHANGED <<pending, last>>
    /\ Over(c)
    /\ UNCHANGED <<now, urlCache, recent, relayVars>>

DeepFlushed(c) ==
    /\ At(c, "answer") /\ ask[c].kind = "deep"
    /\ FlushFor(None)
    /\ Over(c)
    /\ UNCHANGED <<now, urlCache, recent, relayVars>>

-----------------------------------------------------------------------------
Tools(c) ==
    \/ SearchReturns(c) \/ Picks(c) \/ UrlReturns(c) \/ NeteaseFails(c)
    \/ RunsScript(c) \/ ScriptReturns(c)

Says(c) == AnswerSaid(c) \/ DupSaid(c) \/ Breaks(c) \/ DeepFlushed(c)

Scripts(c) == Searches(c) /\ UNCHANGED musicVars
Timeout(c) == Killed(c) /\ UNCHANGED musicVars

MNext ==
    \/ \E d \in Steps : Tick(d)
    \/ \E c \in Call :
          \/ \E kind \in {"play", "change", "personal"} : Asks(c, kind)
          \/ \E d \in Call : Repeats(c, d)
          \/ FallsBack(c) \/ Resumes(c)
          \/ Tools(c) \/ Says(c) \/ Scripts(c) \/ Timeout(c)
          \/ Binds(c) /\ UNCHANGED musicVars
    \/ Dies /\ UNCHANGED musicVars

MSpec == MInit /\ [][MNext]_mvars

(* Fairness: tools and the model come back or are timed out, and so is the *)
(* script, which need not do anything by itself.                           *)
MFairSpec ==
    /\ MSpec
    /\ \A c \in Call : WF_mvars(Tools(c)) /\ WF_mvars(Timeout(c)) /\ WF_mvars(Says(c))

-----------------------------------------------------------------------------
SongTypes ==
    /\ now \in 0..MaxTime
    /\ ask \in [Call -> Asking]
    /\ urlCache \in [Song -> {Never} \cup 0..MaxTime]
    /\ pending \in {url \in Link : ValidAudioUrl(url)} \cup {None}
    /\ last \in [url : Link \cup {None}, title : Title \cup {None}, q : Call \cup {None}]
    /\ recent \in [Call -> {Never} \cup 0..MaxTime]

MTypeOK == RelayTypeOK /\ SongTypes

(* Every search for a song comes to an end.                                *)
EveryAskEnds == \A c \in Call : Active(c) ~> At(c, "done")
=============================================================================
