----------------------------- MODULE MediaRelay -----------------------------
(***************************************************************************)
(* bridge/web-audio-play.py --no-play, one process per search, and the     *)
(* relay it leaves behind: a process of its own that streams to the        *)
(* speaker what the state file names.  security.validate_audio_url is what *)
(* the bridge makes of the URL the script prints.                          *)
(***************************************************************************)
EXTENDS Integers, FiniteSets

CONSTANTS Call,          \* searches; a call also stands for its RELAY_TOKEN
          None,          \* no value
          Empty, Torn,   \* a state file that is empty; one that is not JSON
          MacHost,       \* where mac.ip points: "lan", or "loopback" (unset)
          AllowPrivate,  \* playback.allow_private_urls
          MaxDeath       \* bound: relays that are killed from outside

ASSUME RelayAssumption ==
    /\ {None, Empty, Torn} \cap Call = {}
    /\ None # Empty /\ None # Torn /\ Empty # Torn
    /\ MacHost \in {"lan", "loopback"} /\ AllowPrivate \in BOOLEAN
    /\ MaxDeath \in Nat

VARIABLES script,    \* [Call -> where its process is and what it prints]
          state,     \* relay-state.json: the call whose stream it names
          relay,     \* the token of the process that has the port
          starting,  \* tokens of the processes started but not listening yet
          deaths

relayVars == <<script, state, relay, starting, deaths>>

Host == {"public", "lan", "loopback"}
Url == [via : {"direct", "relay"}, id : Call, host : Host]

(* validate_audio_url: the speaker may be sent to the public network, and  *)
(* to the local one unless that is switched off.                           *)
ValidAudioUrl(u) == u.host = "public" \/ (u.host = "lan" /\ AllowPrivate)

(* _relay_url_safe: the relay itself fetches from the public network only. *)
RelayUrlSafe(host) == host = "public"

RelayInit ==
    /\ script = [c \in Call |-> [pc |-> "idle", url |-> None]]
    /\ state = None /\ relay = None /\ starting = {} /\ deaths = 0

Goes(c, pc) == script' = [script EXCEPT ![c].pc = pc]
Prints(c, via, host) ==
    script' = [script EXCEPT ![c] =
        [pc |-> "printed", url |-> [via |-> via, id |-> c, host |-> host]]]

Runs(c) ==
    /\ script[c].pc = "idle"
    /\ Goes(c, "bilibili")
    /\ UNCHANGED <<state, relay, starting, deaths>>

(* The platforms in their order; one that finds nothing hands over to the  *)
(* next, the last to an error.                                             *)
FindsNothing(c) ==
    /\ script[c].pc \in {"bilibili", "generic"}
    /\ Goes(c, IF script[c].pc = "bilibili" THEN "generic" ELSE "failed")
    /\ UNCHANGED <<state, relay, starting, deaths>>

(* The generic platform's URL is handed out as it is when it answers.      *)
FindsDirect(c) ==
    /\ script[c].pc = "generic"
    /\ \E host \in Host : Prints(c, "direct", host)
    /\ UNCHANGED <<state, relay, starting, deaths>>

(* bilibili always, and what cannot be fetched without a referer, goes     *)
(* through the relay, if the relay may fetch it.                           *)
FindsRelayed(c) ==
    /\ script[c].pc \in {"bilibili", "generic"}
    /\ \E host \in Host : Goes(c, IF RelayUrlSafe(host) THEN "open" ELSE "failed")
    /\ UNCHANGED <<state, relay, starting, deaths>>

(* open(RELAY_STATE, "w") truncates the file, the dump fills it.           *)
Truncates(c) ==
    /\ script[c].pc = "open"
    /\ state' = Empty
    /\ Goes(c, "dump")
    /\ UNCHANGED <<relay, starting, deaths>>

(* A script that writes where another has written since leaves its tail.   *)
Dumps(c) ==
    /\ script[c].pc = "dump"
    /\ \/ state' = c
       \/ state # Empty /\ state' = Torn
    /\ Goes(c, "ping")
    /\ UNCHANGED <<relay, starting, deaths>>

(* Faulty variant: whoever comes second trusts the first to start it. *)
PingsTrusting(c) ==
    /\ script[c].pc = "ping"
    /\ IF relay # None \/ \E d \in Call \ {c} : script[d].pc \in {"ping", "spawn"}
       THEN Prints(c, "relay", MacHost) ELSE Goes(c, "spawn")
    /\ UNCHANGED <<state, relay, starting, deaths>>

(* /ping: a relay that listens may still not answer within two seconds.    *)
Pings(c) ==
    /\ script[c].pc = "ping"
    /\ \/ relay # None /\ Prints(c, "relay", MacHost)
       \/ Goes(c, "spawn")
    /\ UNCHANGED <<state, relay, starting, deaths>>

Spawns(c) ==
    /\ script[c].pc = "spawn"
    /\ starting' = starting \cup {c}
    /\ Prints(c, "relay", MacHost)
    /\ UNCHANGED <<state, relay, deaths>>

(* Faulty variant: only the browser is timed out. *)
KilledBrowsing(c) ==
    /\ script[c].pc \in {"bilibili", "generic"}
    /\ Goes(c, "failed")
    /\ UNCHANGED <<state, relay, starting, deaths>>

(* The bridge gives the script 90 s and kills it, wherever it is.          *)
Killed(c) ==
    /\ script[c].pc \notin {"idle", "printed", "failed"}
    /\ Goes(c, "failed")
    /\ UNCHANGED <<state, relay, starting, deaths>>

-----------------------------------------------------------------------------
(* The relay.  The first to bind has the port; the others end there.  The  *)
(* watchdog's sys.exit ends the watchdog's thread only.                    *)

Binds(c) ==
    /\ c \in starting
    /\ starting' = starting \ {c}
    /\ relay' = IF relay = None THEN c ELSE relay
    /\ UNCHANGED <<script, state, deaths>>

Dies ==
    /\ relay # None /\ deaths < MaxDeath
    /\ deaths' = deaths + 1
    /\ relay' = None
    /\ UNCHANGED <<script, state, starting>>

(* do_GET of a URL with the token of c: the stream of the song the state   *)
(* file names now, or a refusal.                                           *)
Response(c) ==
    IF relay = None THEN "unreachable"
    ELSE IF relay # c THEN "forbidden"
    ELSE IF state \notin Call THEN "bad gateway"
    ELSE "streamed"

Searches(c) ==
    \/ FindsNothing(c) \/ FindsDirect(c) \/ FindsRelayed(c)
    \/ Truncates(c) \/ Dumps(c) \/ Pings(c) \/ Spawns(c)

RelayNext == Dies \/ \E c \in Call : Runs(c) \/ Searches(c) \/ Killed(c) \/ Binds(c)

RelaySpec == RelayInit /\ [][RelayNext]_relayVars

-----------------------------------------------------------------------------
RelayTypeOK ==
    /\ script \in [Call -> [pc : {"idle", "bilibili", "generic", "open", "dump", "ping",
                                  "spawn", "printed", "failed"}, url : Url \cup {None}]]
    /\ state \in Call \cup {None, Empty, Torn}
    /\ relay \in Call \cup {None} /\ starting \subseteq Call /\ deaths \in 0..MaxDeath

(* Whenever a script has handed out a URL of the relay, a relay listens or *)
(* is being started, however the scripts overlap and whichever of their    *)
(* relays fails to get the port (353-380), unless one was killed.          *)
RelayUp ==
    deaths = 0 =>
        \A c \in Call :
            script[c].url # None /\ script[c].url.via = "relay"
            => relay # None \/ starting # {}

(* The stream of the song asked for last is served: "多次点歌时永远拉最新  *)
(* 一首的流" (web-audio-play.py:229, and 43).                             *)
LatestSongServed ==
    deaths = 0 /\ relay # None =>
        \A c \in Call :
            script[c].pc = "printed" /\ script[c].url.via = "relay" /\ state = c
            => Response(c) = "streamed"
=============================================================================
