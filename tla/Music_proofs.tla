---------------------------- MODULE Music_proofs ----------------------------
(***************************************************************************)
(* What the bridge and its relay guarantee of songs for any number of      *)
(* searches, songs and seconds: the bridge takes the steps of the relay's  *)
(* own specification only, so what holds of the relay holds in it.         *)
(***************************************************************************)
EXTENDS Music, TLAPS

-----------------------------------------------------------------------------
(* The relay by itself.                                                    *)

RelayPrinted == \A c \in Call : script[c].pc = "printed" => script[c].url \in Url

RelayInv == RelayTypeOK /\ RelayUp /\ RelayPrinted

LEMMA GoesFact ==
    ASSUME RelayTypeOK, NEW c \in Call,
           NEW pc \in {"idle", "bilibili", "generic", "open", "dump", "ping",
                       "spawn", "printed", "failed"},
           Goes(c, pc)
    PROVE  /\ script' \in [Call -> [pc : {"idle", "bilibili", "generic", "open", "dump", "ping",
                                          "spawn", "printed", "failed"}, url : Url \cup {None}]]
           /\ \A d \in Call : script'[d].url = script[d].url
           /\ script'[c].pc = pc /\ \A d \in Call : d # c => script'[d] = script[d]
  BY DEF RelayTypeOK, Goes

LEMMA PrintsFact ==
    ASSUME RelayTypeOK, NEW c \in Call, NEW via \in {"direct", "relay"}, NEW host \in Host,
           Prints(c, via, host)
    PROVE  /\ script' \in [Call -> [pc : {"idle", "bilibili", "generic", "open", "dump", "ping",
                                          "spawn", "printed", "failed"}, url : Url \cup {None}]]
           /\ script'[c].url.via = via /\ script'[c].url \in Url
           /\ \A d \in Call : d # c => script'[d] = script[d]
  BY DEF RelayTypeOK, Prints, Url

LEMMA RelayInvInit == RelayInit => RelayInv
  BY RelayAssumption DEF RelayInit, RelayInv, RelayTypeOK, RelayUp, RelayPrinted

LEMMA RelayInvNext == RelayInv /\ [RelayNext]_relayVars => RelayInv'
<1> SUFFICES ASSUME RelayInv, [RelayNext]_relayVars PROVE RelayInv'
  OBVIOUS
<1>0. MacHost \in Host /\ MaxDeath \in Nat /\ None \notin Call /\ RelayTypeOK
  BY RelayAssumption DEF Host, RelayInv
<1>1. ASSUME NEW c \in Call,
             Runs(c) \/ FindsNothing(c) \/ FindsRelayed(c) \/ Truncates(c) \/ Dumps(c) \/ Killed(c)
      PROVE  RelayInv'
  <2>1. PICK pc \in {"bilibili", "generic", "open", "dump", "ping", "failed"} : Goes(c, pc)
    BY <1>1 DEF Runs, FindsNothing, FindsRelayed, Truncates, Dumps, Killed
  <2>2. UNCHANGED <<relay, starting, deaths>> /\ state' \in Call \cup {None, Empty, Torn}
    BY <1>0, <1>1 DEF Runs, FindsNothing, FindsRelayed, Truncates, Dumps, Killed, RelayTypeOK
  <2> QED BY <1>0, <2>1, <2>2, GoesFact DEF RelayInv, RelayTypeOK, RelayUp, RelayPrinted
<1>2. ASSUME NEW c \in Call, FindsDirect(c) PROVE RelayInv'
  <2>1. PICK host \in Host : Prints(c, "direct", host)
    BY <1>2 DEF FindsDirect
  <2>2. UNCHANGED <<state, relay, starting, deaths>>
    BY <1>2 DEF FindsDirect
  <2> QED BY <1>0, <2>1, <2>2, PrintsFact DEF RelayInv, RelayTypeOK, RelayUp, RelayPrinted
<1>3. ASSUME NEW c \in Call, Pings(c) PROVE RelayInv'
  <2>1. UNCHANGED <<state, relay, starting, deaths>>
    BY <1>3 DEF Pings
  <2>2. CASE relay # None /\ Prints(c, "relay", MacHost)
    BY <1>0, <2>1, <2>2, PrintsFact DEF RelayInv, RelayTypeOK, RelayUp, RelayPrinted
  <2>3. CASE Goes(c, "spawn")
    BY <1>0, <2>1, <2>3, GoesFact DEF RelayInv, RelayTypeOK, RelayUp, RelayPrinted
  <2> QED BY <1>3, <2>2, <2>3 DEF Pings
<1>4. ASSUME NEW c \in Call, Spawns(c) PROVE RelayInv'
  <2>1. Prints(c, "relay", MacHost) /\ starting' = starting \cup {c}
        /\ UNCHANGED <<state, relay, deaths>>
    BY <1>4 DEF Spawns
  <2> QED BY <1>0, <2>1, PrintsFact DEF RelayInv, RelayTypeOK, RelayUp, RelayPrinted
<1>5. ASSUME NEW c \in Call, Binds(c) PROVE RelayInv'
  BY <1>0, <1>5 DEF Binds, RelayInv, RelayTypeOK, RelayUp, RelayPrinted
<1>6. CASE Dies
  BY <1>0, <1>6 DEF Dies, RelayInv, RelayTypeOK, RelayUp, RelayPrinted
<1>7. CASE UNCHANGED relayVars
  BY <1>7 DEF relayVars, RelayInv, RelayTypeOK, RelayUp, RelayPrinted
<1> QED BY <1>1, <1>2, <1>3, <1>4, <1>5, <1>6, <1>7 DEF RelayNext, Searches

(* Whoever was handed a URL of the relay finds one listening or starting   *)
(* (web-audio-play.py:353-380).                                            *)
THEOREM RelayStaysUp == RelaySpec => []RelayUp
<1>1. RelayInv => RelayUp
  BY DEF RelayInv
<1> QED BY <1>1, RelayInvInit, RelayInvNext, PTL DEF RelaySpec

(* The bridge uses the relay as its own specification allows.              *)
LEMMA MusicStep == [MNext]_mvars => [RelayNext]_relayVars
<1> SUFFICES ASSUME [MNext]_mvars PROVE [RelayNext]_relayVars
  OBVIOUS
<1>1. ASSUME NEW c \in Call, Tools(c) PROVE [RelayNext]_relayVars
  BY <1>1 DEF Tools, SearchReturns, Picks, UrlReturns, NeteaseFails, RunsScript, ScriptReturns,
              RelayNext
<1>2. ASSUME NEW c \in Call, Says(c) PROVE UNCHANGED relayVars
  BY <1>2 DEF Says, AnswerSaid, DupSaid, Breaks, DeepFlushed
<1>3. ASSUME NEW c \in Call, Scripts(c) \/ Timeout(c) \/ Binds(c) PROVE RelayNext
  BY <1>3 DEF Scripts, Timeout, RelayNext
<1>4. ASSUME NEW c \in Call, NEW kind \in {"play", "change", "personal"}, Asks(c, kind)
      PROVE  UNCHANGED relayVars
  BY <1>4 DEF Asks
<1>5. ASSUME NEW c \in Call, NEW d \in Call, Repeats(c, d) PROVE UNCHANGED relayVars
  BY <1>5 DEF Repeats
<1>6. ASSUME NEW c \in Call, FallsBack(c) \/ Resumes(c)
      PROVE  UNCHANGED relayVars
  BY <1>6 DEF FallsBack, Resumes
<1>7. ASSUME NEW d \in Steps, Tick(d) PROVE UNCHANGED relayVars
  BY <1>7 DEF Tick
<1>8. CASE Dies
  BY <1>8 DEF RelayNext
<1>9. CASE UNCHANGED mvars
  BY <1>9 DEF mvars
<1> QED BY <1>1, <1>2, <1>3, <1>4, <1>5, <1>6, <1>7, <1>8, <1>9 DEF MNext

(* The bridge implements the client the relay is specified for: whatever   *)
(* turns, deep tasks and repeats do, the script and its relay only take    *)
(* steps of their own specification (1197-1218).                           *)
THEOREM MusicUsesRelay == MSpec => RelaySpec
<1>1. MInit => RelayInit
  BY DEF MInit
<1> QED BY <1>1, MusicStep, PTL DEF MSpec, RelaySpec

(* ... hence it is up whenever a song is sent through it.                  *)
THEOREM MusicRelayUp == MSpec => []RelayUp
  BY MusicUsesRelay, RelayStaysUp, PTL

-----------------------------------------------------------------------------
(* The bridge: its variables, and that a song that has been picked is one. *)

Sings == \A c \in Call : At(c, "url") => ask[c].song \in Song

SongInv == SongTypes /\ Sings

MInv == RelayInv /\ SongInv

LEMMA LinkFact ==
    /\ None \notin Title /\ None \notin Call
    /\ \A url \in Link : url.id \in Title
    /\ \A s \in Song, b \in 0..MaxTime :
          LET url == [via |-> "netease", id |-> s, host |-> "public", born |-> b]
          IN url \in Link /\ ValidAudioUrl(url)
    /\ \A url \in Url : url \in Link
    /\ MaxTime \in Nat /\ Steps \subseteq Nat
  BY RelayAssumption, MusicAssumption DEF Link, Url, Title, ValidAudioUrl

LEMMA ToolsKeep == ASSUME RelayInv, SongInv, NEW c \in Call, Tools(c) PROVE SongInv'
<1>0. /\ SongTypes /\ Sings /\ ask \in [Call -> Asking] /\ ask[c] \in Asking
      /\ now \in 0..MaxTime /\ urlCache \in [Song -> {Never} \cup 0..MaxTime]
      /\ Otherwise(c) \in {"answer", "web"}
  BY DEF SongInv, SongTypes, Otherwise
<1>1. CASE SearchReturns(c)
  <2>1. PICK found \in SUBSET Song :
          ask' = [ask EXCEPT ![c].cands = found,
                             ![c].pc = IF found = {} THEN Otherwise(c) ELSE "pick"]
    BY <1>1 DEF SearchReturns
  <2>2. ask' \in [Call -> Asking] /\ Sings'
    BY <1>0, <2>1 DEF Asking, Sings, At
  <2> QED BY <1>0, <1>1, <2>2 DEF SongInv, SongTypes, SearchReturns
<1>2. CASE Picks(c)
  <2>1. CASE \E s \in Fresh(c) : ask' = [ask EXCEPT ![c].song = s, ![c].pc = "url"]
    <3>1. PICK s \in Fresh(c) : ask' = [ask EXCEPT ![c].song = s, ![c].pc = "url"]
      BY <2>1
    <3>2. s \in Song
      BY <1>0, <3>1 DEF Fresh, Asking
    <3>3. ask' \in [Call -> Asking] /\ Sings'
      BY <1>0, <3>1, <3>2 DEF Asking, Sings, At
    <3> QED BY <1>0, <1>2, <3>3 DEF SongInv, SongTypes, Picks
  <2>2. CASE ask' = [ask EXCEPT ![c].pc = "web", ![c].cands = {}]
    <3>1. ask' \in [Call -> Asking] /\ Sings'
      BY <1>0, <2>2 DEF Asking, Sings, At
    <3> QED BY <1>0, <1>2, <3>1 DEF SongInv, SongTypes, Picks
  <2> QED BY <1>2, <2>1, <2>2 DEF Picks
<1>3. CASE UrlReturns(c)
  <2> DEFINE s == ask[c].song
  <2> DEFINE born == IF Cached(s) THEN urlCache[s] ELSE now
  <2> DEFINE url == [via |-> "netease", id |-> s, host |-> "public", born |-> born]
  <2>1. /\ urlCache' = [urlCache EXCEPT ![s] = born] /\ pending' = url
        /\ ask' = [ask EXCEPT ![c].pc = "answer", ![c].cands = {}, ![c].song = None]
    BY <1>3 DEF UrlReturns, Queues
  <2>2. s \in Song
    BY <1>0, <1>3 DEF UrlReturns, Sings
  <2>3. born \in 0..MaxTime
    BY <1>0, <2>2 DEF Cached
  <2>4. url \in Link /\ ValidAudioUrl(url)
    BY <2>2, <2>3, LinkFact
  <2>5. ask' \in [Call -> Asking] /\ Sings'
    BY <1>0, <2>1 DEF Asking, Sings, At
  <2>6. urlCache' \in [Song -> {Never} \cup 0..MaxTime]
    BY <1>0, <2>1, <2>2, <2>3
  <2> HIDE DEF url, born, s
  <2>7. pending' \in {u \in Link : ValidAudioUrl(u)} \cup {None}
    BY <2>1, <2>4
  <2> QED BY <1>0, <1>3, <2>5, <2>6, <2>7 DEF SongInv, SongTypes, UrlReturns
<1>4. CASE NeteaseFails(c)
  <2>1. ask' = [ask EXCEPT ![c].pc = Otherwise(c), ![c].cands = {}, ![c].song = None]
    BY <1>4 DEF NeteaseFails
  <2>2. ask' \in [Call -> Asking] /\ Sings'
    BY <1>0, <2>1 DEF Asking, Sings, At
  <2> QED BY <1>0, <1>4, <2>2 DEF SongInv, SongTypes, NeteaseFails
<1>5. CASE RunsScript(c)
  <2>1. ask' \in [Call -> Asking] /\ Sings'
    BY <1>0, <1>5 DEF RunsScript, Goto, Asking, Sings, At
  <2> QED BY <1>0, <1>5, <2>1 DEF SongInv, SongTypes, RunsScript
<1>6. CASE ScriptReturns(c)
  <2>1. \/ /\ script[c].pc = "printed" /\ ValidAudioUrl(script[c].url)
           /\ pending' = script[c].url
           /\ ask' = [ask EXCEPT ![c].pc = "answer", ![c].cands = {}, ![c].song = None]
        \/ pending' = pending /\ ask' = [ask EXCEPT ![c].pc = "answer"]
    BY <1>6 DEF ScriptReturns, Queues, Goto
  <2>2. ask' \in [Call -> Asking] /\ Sings'
    BY <1>0, <2>1 DEF Asking, Sings, At
  <2>3. script[c].pc = "printed" => script[c].url \in Url
    BY DEF RelayInv, RelayPrinted
  <2>4. pending' \in {url \in Link : ValidAudioUrl(url)} \cup {None}
    BY <1>0, <2>1, <2>3, LinkFact DEF SongTypes
  <2> QED BY <1>0, <1>6, <2>2, <2>4 DEF SongInv, SongTypes, ScriptReturns
<1> QED BY <1>1, <1>2, <1>3, <1>4, <1>5, <1>6 DEF Tools

LEMMA BeginFact ==
    ASSUME SongInv, NEW c \in Call, NEW kind \in Kind, NEW q \in Call \cup {None},
           NEW pc \in {"search", "dup", "answer"}, Begins(c, kind, q, pc)
    PROVE  ask' \in [Call -> Asking] /\ Sings'
  BY DEF SongInv, SongTypes, Begins, Quiet, Asking, Sings, At

LEMMA BeginningsKeep ==
    ASSUME SongInv, NEW c \in Call,
           \/ \E kind \in {"play", "change", "personal"} : Asks(c, kind)
           \/ \E d \in Call : Repeats(c, d)
           \/ FallsBack(c) \/ Resumes(c)
    PROVE  SongInv'
<1>0. SongTypes /\ \A kind \in {"play", "change", "personal", "deep", "repeat", "resume"} :
          kind \in Kind
  BY DEF SongInv, Kind
<1>1. ASSUME NEW kind \in {"play", "change", "personal"}, Asks(c, kind) PROVE SongInv'
  BY <1>0, <1>1, BeginFact DEF Asks, SongInv, SongTypes
<1>2. ASSUME NEW d \in Call, Repeats(c, d) PROVE SongInv'
  <2>1. ask' \in [Call -> Asking] /\ Sings'
    BY <1>0, <1>2, BeginFact DEF Repeats
  <2>2. pending' \in {url \in Link : ValidAudioUrl(url)} \cup {None}
    BY <1>0, <1>2 DEF Repeats, SongTypes
  <2> QED BY <1>0, <1>2, <2>1, <2>2 DEF Repeats, SongInv, SongTypes
<1>3. CASE FallsBack(c)
  BY <1>0, <1>3, BeginFact DEF FallsBack, SongInv, SongTypes
<1>4. CASE Resumes(c)
  BY <1>0, <1>4, BeginFact DEF Resumes, SongInv, SongTypes
<1> QED BY <1>1, <1>2, <1>3, <1>4

LEMMA SaysKeep == ASSUME SongInv, NEW c \in Call, Says(c) PROVE SongInv'
<1>0. SongTypes /\ ask[c] \in Asking /\ 0 \in 0..MaxTime /\ now \in 0..MaxTime
      /\ (At(c, "dup") => ask[c].q \in Call \cup {None})
  BY LinkFact DEF SongInv, SongTypes, Asking
<1>1. ask' \in [Call -> Asking] /\ Sings'
  <2>1. ask' = [ask EXCEPT ![c].pc = "done", ![c].at = 0]
    BY DEF Says, AnswerSaid, DupSaid, Breaks, DeepFlushed, Over
  <2>2. [ask[c] EXCEPT !.pc = "done", !.at = 0] \in Asking
    BY <1>0 DEF Asking
  <2>3. ask' \in [Call -> Asking]
    BY <1>0, <2>1, <2>2 DEF SongTypes
  <2> QED BY <1>0, <2>1, <2>3 DEF SongInv, SongTypes, Sings, At
<1>2. ASSUME NEW q \in Call \cup {None}, FlushFor(q)
      PROVE  /\ pending' = None
             /\ last' \in [url : Link \cup {None}, title : Title \cup {None}, q : Call \cup {None}]
  <2>1. pending # None => pending \in Link /\ pending.id \in Title
    BY <1>0, LinkFact DEF SongTypes
  <2> QED BY <1>0, <1>2, <2>1 DEF FlushFor, SongTypes
<1>3. CASE AnswerSaid(c)
  BY <1>0, <1>1, <1>2, <1>3 DEF AnswerSaid, SongInv, SongTypes
<1>4. CASE DupSaid(c)
  BY <1>0, <1>1, <1>2, <1>4 DEF DupSaid, SongInv, SongTypes
<1>5. CASE Breaks(c)
  BY <1>0, <1>1, <1>2, <1>5 DEF Breaks, SongInv, SongTypes
<1>6. CASE DeepFlushed(c)
  BY <1>0, <1>1, <1>2, <1>6 DEF DeepFlushed, SongInv, SongTypes
<1> QED BY <1>3, <1>4, <1>5, <1>6 DEF Says

-----------------------------------------------------------------------------
LEMMA MInvInit == MInit => MInv
<1> SUFFICES ASSUME MInit PROVE MInv
  OBVIOUS
<1>1. RelayInv
  BY RelayInvInit DEF MInit
<1>2. Quiet \in Asking /\ MaxTime \in Nat /\ 0 \in 0..MaxTime
  BY LinkFact DEF Quiet, Asking, Kind
<1>3. last \in [url : Link \cup {None}, title : Title \cup {None}, q : Call \cup {None}]
  BY DEF MInit
<1>4. Sings
  BY DEF MInit, Sings, Quiet, At
<1> QED BY <1>1, <1>2, <1>3, <1>4 DEF MInit, MInv, SongInv, SongTypes

LEMMA MInvNext == MInv /\ [MNext]_mvars => MInv'
<1> SUFFICES ASSUME MInv, [MNext]_mvars PROVE MInv'
  OBVIOUS
<1>0. RelayInv /\ SongInv
  BY DEF MInv
<1>1. RelayInv'
  BY <1>0, MusicStep, RelayInvNext
<1>2. ASSUME NEW d \in Steps, Tick(d) PROVE MInv'
  <2>1. now \in 0..MaxTime /\ d \in Nat /\ MaxTime \in Nat
    BY <1>0, LinkFact DEF SongInv, SongTypes
  <2>2. now' \in 0..MaxTime
    BY <1>2, <2>1 DEF Tick
  <2> QED BY <1>0, <1>1, <1>2, <2>2 DEF Tick, MInv, SongInv, SongTypes, Sings, At
<1>3. ASSUME NEW c \in Call,
             \/ \E kind \in {"play", "change", "personal"} : Asks(c, kind)
             \/ \E d \in Call : Repeats(c, d)
             \/ FallsBack(c) \/ Resumes(c)
      PROVE  MInv'
  BY <1>0, <1>1, <1>3, BeginningsKeep DEF MInv
<1>4. ASSUME NEW c \in Call, Tools(c) PROVE MInv'
  BY <1>0, <1>1, <1>4, ToolsKeep DEF MInv
<1>5. ASSUME NEW c \in Call, Says(c) PROVE MInv'
  BY <1>0, <1>1, <1>5, SaysKeep DEF MInv
<1>6. CASE UNCHANGED musicVars
  BY <1>0, <1>1, <1>6 DEF MInv, SongInv, SongTypes, musicVars, Sings, At
<1>7. CASE UNCHANGED mvars
  BY <1>6, <1>7 DEF mvars
<1> QED BY <1>2, <1>3, <1>4, <1>5, <1>6, <1>7 DEF MNext, Scripts, Timeout

LEMMA MInvAlways == MSpec => []MInv
  BY MInvInit, MInvNext, PTL DEF MSpec

(* Every variable of the bridge and of its relay keeps its type: what is   *)
(* pending has always passed validate_audio_url (1224, 1244).              *)
THEOREM MTyped == MSpec => []MTypeOK
<1>1. MInv => MTypeOK
  BY DEF MInv, RelayInv, SongInv, MTypeOK
<1> QED BY <1>1, MInvAlways, PTL
=============================================================================
