------------------------------ MODULE AdminSave ------------------------------
(***************************************************************************)
(* The configuration page (admin/server.py) and the processes that read    *)
(* what it saves (bridge/config_loader.py).  Requests are served by one    *)
(* thread each, at most Workers of them; a save generates every derived    *)
(* file into a directory of its own, moves them into place one by one and  *)
(* writes local.json last.  Saves take no lock.                            *)
(***************************************************************************)
EXTENDS Integers, Sequences, FiniteSets

CONSTANTS Request,   \* connections to the page
          Proc,      \* starts of the processes that read the configuration
          Walk,      \* the derived files in the order os.walk meets them
          SecretFile,\* generated/bridge-secret
          Workers,   \* MAX_WORKERS
          None, Old, \* no value; what an earlier session saved
          Missing, Broken,   \* no local.json; one that cannot be parsed
          MaxFault   \* bound: writes that fail, crashes, edits by hand

Source == Request \cup {Old}

(* A configuration: whose fields it has, its bridge.secret, its optional   *)
(* section (None: the one of the example).                                 *)
Config == [src : Source, secret : Source \cup {None}, optional : Source \cup {None}]
File == {Walk[i] : i \in 1..Len(Walk)}

ASSUME AdminAssumption ==
    /\ Workers \in Nat \ {0} /\ MaxFault \in Nat
    /\ IsFiniteSet(Request)
    /\ Walk \in Seq(STRING) /\ SecretFile \in {Walk[i] : i \in 1..Len(Walk)}
    /\ Missing \notin Config /\ Broken \notin Config /\ Missing # Broken
    /\ Old \notin Request /\ None \notin Request /\ Old # None

VARIABLES local,    \* config/local.json
          files,    \* [File -> the configuration it was generated from]
          req,      \* [Request -> where its thread is]
          permits,  \* the semaphore of AdminHTTPServer
          procs,    \* [Proc -> the secret it was started with]
          settled,  \* what the saves since the last quiet moment must keep
          clean,    \* the last save ran alone and was answered 200
          wrote,    \* configurations each derived file has held
          faults

avars == <<local, files, req, permits, procs, settled, clean, wrote, faults>>

Idle == [pc |-> "idle", body |-> None, next |-> 0, alone |-> FALSE, code |-> 0]
Done == [Idle EXCEPT !.pc = "done"]
Saving == {"stage", "commit", "local"}
Thread == [pc : {"idle", "handle", "verify", "answer", "done"} \cup Saving,
           body : Config \cup {None}, next : 0..(Len(Walk) + 1),
           alone : BOOLEAN, code : {0, 200, 400, 500}]
OldConfig == [src |-> Old, secret |-> Old, optional |-> Old]
ByHand == [src |-> Old, secret |-> None, optional |-> None]

HasSecret(l) == l \in Config /\ l.secret # None
Quiet(r) == \A p \in Request : r[p].pc \notin Saving
Kept(l) == [secret |-> l.secret, optional |-> l.optional]
Settles(l, r) == IF Quiet(r) /\ HasSecret(l) THEN Kept(l) ELSE settled

(* A first start, a local.json copied from the example, an earlier save.   *)
AInit ==
    /\ \/ local \in {Missing, ByHand} /\ files = [f \in File |-> None]
       \/ local = OldConfig /\ files = [f \in File |-> OldConfig]
    /\ req = [p \in Request |-> Idle]
    /\ permits = Workers
    /\ procs = [c \in Proc |-> [pc |-> "down", secret |-> None]]
    /\ settled = IF HasSecret(local) THEN Kept(local) ELSE None
    /\ clean = FALSE
    /\ wrote = [f \in File |-> IF files[f] = None THEN {} ELSE {files[f]}]
    /\ faults = 0

-----------------------------------------------------------------------------
(* AdminHTTPServer: a permit per connection, or the connection is closed;  *)
(* a thread that cannot be started gives its permit back.                  *)
Fault == faults < MaxFault /\ faults' = faults + 1

Connect(p) ==
    /\ req[p].pc = "idle" /\ permits > 0
    /\ permits' = permits - 1
    /\ req' = [req EXCEPT ![p].pc = "handle"]
    /\ UNCHANGED <<local, files, procs, settled, clean, wrote, faults>>

TurnAway(p) ==
    /\ req[p].pc = "idle"
    /\ \/ permits = 0 /\ UNCHANGED faults
       \/ permits > 0 /\ Fault
    /\ req' = [req EXCEPT ![p] = Done]
    /\ UNCHANGED <<local, files, permits, procs, settled, clean, wrote>>

(* Faulty variant: the permit of a request that raises is not given back. *)
EndsLeaking(p) ==
    /\ req[p].pc = "answer"
    /\ req' = [req EXCEPT ![p] = Done]
    /\ permits' = IF req[p].code = 500 THEN permits ELSE permits + 1
    /\ UNCHANGED <<local, files, procs, settled, clean, wrote, faults>>

(* process_request_thread: the permit is back whatever the handler did.    *)
Ends(p) ==
    /\ req[p].pc = "answer"
    /\ req' = [req EXCEPT ![p] = Done]
    /\ permits' = permits + 1
    /\ UNCHANGED <<local, files, procs, settled, clean, wrote, faults>>

-----------------------------------------------------------------------------
(* do_GET and do_POST.                                                     *)

Reply(c) == [pc |-> "answer", body |-> None, next |-> 0, alone |-> FALSE, code |-> c]
Answered(p, c) == [req EXCEPT ![p] = Reply(c)]

(* The host, the origin, the token, the length, the JSON, the path: the    *)
(* first check that fails answers with its own code, here 400.             *)
Denied(p) ==
    /\ req[p].pc = "handle"
    /\ req' = Answered(p, 400)
    /\ UNCHANGED <<local, files, permits, procs, settled, clean, wrote, faults>>

(* A GET: the page, the configuration or the list of files.                *)
Reads(p) ==
    /\ req[p].pc = "handle"
    /\ req' = Answered(p, 200)
    /\ UNCHANGED <<local, files, permits, procs, settled, clean, wrote, faults>>

(* /api/verify: a missing key or an illegal address is answered at once;   *)
(* the model's server or Home Assistant is given 15 s.                     *)
Asks(p) ==
    /\ req[p].pc = "handle"
    /\ req' = [req EXCEPT ![p].pc = "verify"]
    /\ UNCHANGED <<local, files, permits, procs, settled, clean, wrote, faults>>

Verified(p) ==
    /\ req[p].pc = "verify"
    /\ req' = Answered(p, 200)
    /\ UNCHANGED <<local, files, permits, procs, settled, clean, wrote, faults>>

-----------------------------------------------------------------------------
(* _save_config.                                                           *)

(* What a POST of /api/config that is not refused carries: a body that     *)
(* lacks a field some derived file needs, the form of the page (no bridge  *)
(* section, the optional section empty), everything.                       *)
Body == {"partial", "form", "full"}

Rejected(p) ==
    /\ req[p].pc = "handle"
    /\ req' = Answered(p, 400)
    /\ UNCHANGED <<local, files, permits, procs, settled, clean, wrote, faults>>

(* load_config of the page: what cannot be read counts as the example.     *)
Previous(l) == IF l \in Config THEN l ELSE ByHand

(* Faulty variant: a form replaces everything. *)
FilledAnew(p, kind, prev) ==
    [src |-> p, secret |-> p,
     optional |-> IF kind = "full" THEN p ELSE prev.optional]

(* What the body leaves out is inherited; a secret nobody has is made.     *)
Filled(p, kind, prev) ==
    [src |-> p,
     secret |-> IF kind = "full" \/ prev.secret = None THEN p ELSE prev.secret,
     optional |-> IF kind = "full" THEN p ELSE prev.optional]

Begins(p, kind) ==
    /\ req[p].pc = "handle"
    /\ LET save == [pc |-> "stage", next |-> 1, alone |-> Quiet(req),
                    body |-> Filled(p, kind, Previous(local)),
                    code |-> IF kind = "partial" THEN 500 ELSE 200]
       IN req' = [q \in Request |->
                     IF q = p THEN save
                     ELSE [req[q] EXCEPT !.alone = @ /\ req[q].pc \notin Saving]]
    (* a body that brings its own secret is meant to change it *)
    /\ settled' = IF kind = "full" THEN None ELSE settled
    /\ UNCHANGED <<local, files, permits, procs, clean, wrote, faults>>

(* Any exception of the three steps: 500, and the directory is removed.    *)
Fails(p) ==
    /\ req[p].pc \in Saving
    /\ \/ req[p].pc = "stage" /\ req[p].code = 500 /\ UNCHANGED faults
       \/ Fault
    /\ req' = Answered(p, 500)
    /\ settled' = Settles(local, req')
    /\ UNCHANGED <<local, files, permits, procs, clean, wrote>>

(* 1. generate_derived, into a directory of the save's own.                *)
Stages(p) ==
    /\ req[p].pc = "stage" /\ req[p].code = 200
    /\ req' = [req EXCEPT ![p].pc = "commit"]
    /\ UNCHANGED <<local, files, permits, procs, settled, clean, wrote, faults>>

(* Faulty variant: the last file is forgotten. *)
MovesShort(p) ==
    /\ req[p].pc = "commit"
    /\ LET f == Walk[req[p].next] IN
          /\ files' = [files EXCEPT ![f] = req[p].body]
          /\ wrote' = [wrote EXCEPT ![f] = @ \cup {req[p].body}]
    /\ req' = [req EXCEPT ![p].next = @ + 1,
                          ![p].pc = IF req[p].next = Len(Walk) - 1 THEN "local" ELSE @]
    /\ clean' = FALSE
    /\ UNCHANGED <<local, permits, procs, settled, faults>>

(* Faulty variant: a file that is there already is left alone. *)
MovesOnce(p) ==
    /\ req[p].pc = "commit"
    /\ LET f == Walk[req[p].next] IN
          /\ files' = [files EXCEPT ![f] = IF @ = None THEN req[p].body ELSE @]
          /\ wrote' = [wrote EXCEPT ![f] = @ \cup {req[p].body}]
    /\ req' = [req EXCEPT ![p].next = @ + 1,
                          ![p].pc = IF req[p].next = Len(Walk) THEN "local" ELSE @]
    /\ clean' = FALSE
    /\ UNCHANGED <<local, permits, procs, settled, faults>>

(* 2. One derived file is moved into place.                                *)
Moves(p) ==
    /\ req[p].pc = "commit"
    /\ LET f == Walk[req[p].next] IN
          /\ files' = [files EXCEPT ![f] = req[p].body]
          /\ wrote' = [wrote EXCEPT ![f] = @ \cup {req[p].body}]
    /\ LET on == [req[p] EXCEPT !.next = @ + 1]
       IN req' = [req EXCEPT ![p] =
                     IF req[p].next = Len(Walk) THEN [on EXCEPT !.pc = "local"] ELSE on]
    /\ clean' = FALSE
    /\ UNCHANGED <<local, permits, procs, settled, faults>>

(* 3. local.json, and the answer.                                          *)
WritesLocal(p) ==
    /\ req[p].pc = "local"
    /\ local' = req[p].body
    /\ clean' = req[p].alone
    /\ req' = Answered(p, 200)
    /\ settled' = Settles(local', req')
    /\ UNCHANGED <<files, permits, procs, wrote, faults>>

-----------------------------------------------------------------------------
(* The environment: the page's process dies, the file is edited by hand.   *)

Crash ==
    /\ Fault
    /\ req' = [p \in Request |-> IF req[p].pc = "idle" THEN req[p]
                                 ELSE Done]
    /\ permits' = Workers
    /\ settled' = Settles(local, req')
    /\ UNCHANGED <<local, files, procs, clean, wrote>>

Edited ==
    /\ Fault
    /\ local \in Config
    /\ local' = Broken
    /\ settled' = None /\ clean' = FALSE
    /\ UNCHANGED <<files, req, permits, procs, wrote>>

-----------------------------------------------------------------------------
(* The readers.                                                            *)

(* Faulty variant: the file first. *)
SecretOfFile(l, fs) ==
    IF fs[SecretFile] # None THEN fs[SecretFile].secret
    ELSE IF HasSecret(l) THEN l.secret ELSE None

(* cfg_bridge_secret: local.json first, then the file beside it.           *)
SecretOf(l, fs) ==
    IF HasSecret(l) THEN l.secret
    ELSE IF fs[SecretFile] # None THEN fs[SecretFile].secret ELSE None

Starts(c) ==
    /\ procs[c].pc = "down"
    /\ local \in Config /\ SecretOf(local, files) # None
    /\ procs' = [procs EXCEPT ![c] =
           [pc |-> "up", secret |-> SecretOf(local, files)]]
    /\ UNCHANGED <<local, files, req, permits, settled, clean, wrote, faults>>

(* Broken, the example, or no secret: the service refuses to start.        *)
RefusesToStart(c) ==
    /\ procs[c].pc = "down"
    /\ local \notin Config \/ SecretOf(local, files) = None
    /\ UNCHANGED avars

Stops(c) ==
    /\ procs[c].pc = "up"
    /\ procs' = [procs EXCEPT ![c] = [pc |-> "down", secret |-> None]]
    /\ UNCHANGED <<local, files, req, permits, settled, clean, wrote, faults>>

Serves(p) ==
    \/ Denied(p) \/ Reads(p) \/ Asks(p) \/ Verified(p) \/ Rejected(p)
    \/ \E kind \in Body : Begins(p, kind)
    \/ Fails(p) \/ Stages(p) \/ Moves(p) \/ WritesLocal(p) \/ Ends(p)

ANext ==
    \/ \E p \in Request : Connect(p) \/ TurnAway(p) \/ Serves(p)
    \/ \E c \in Proc : Starts(c) \/ RefusesToStart(c) \/ Stops(c)
    \/ Crash \/ Edited

ASpec == AInit /\ [][ANext]_avars

-----------------------------------------------------------------------------
ATypeOK ==
    /\ local \in Config \cup {Missing, Broken}
    /\ files \in [File -> Config \cup {None}]
    /\ wrote \in [File -> SUBSET Config]
    /\ req \in [Request -> Thread]
    /\ permits \in 0..Workers
    /\ procs \in [Proc -> [pc : {"down", "up"}, secret : Source \cup {None}]]
    /\ settled \in [secret : Source, optional : Source \cup {None}] \cup {None}
    /\ clean \in BOOLEAN /\ faults \in 0..MaxFault

(* The permits of the page are those of the requests being served: none is *)
(* lost or given back twice, whichever way a request ends (520-541).       *)
Served == {p \in Request : req[p].pc \notin {"idle", "done"}}
PermitsConserved == permits = Workers - Cardinality(Served)

(* What the page's form leaves out outlives every save: once the secret    *)
(* and the optional section are on disk with no save under way, they stay  *)
(* through overlapping, failing and interrupted saves until a body brings  *)
(* its own or the file is spoilt by hand (728-740).                        *)
InheritedKept ==
    settled # None => HasSecret(local) /\ Kept(local) = settled

(* Processes started at different times, on whatever a save has left       *)
(* behind, use the settled secret, hence the same (config_loader.py:100).  *)
StartedWithSecret ==
    [][\A c \in Proc :
          procs[c].pc = "down" /\ procs'[c].pc = "up" /\ settled # None
          => procs'[c].secret = settled.secret]_avars

(* A save that ran alone and was answered 200 leaves every derived file    *)
(* and local.json made of one configuration, whatever mixture failing and  *)
(* interrupted saves had left before (744-760).                            *)
CleanSaveAgrees == clean => \A f \in File : files[f] = local

(* The saves implement AtomicConfig: local.json only ever becomes, in one  *)
(* step, a configuration whose derived files have all been put in place.   *)
Atomic == INSTANCE AtomicConfig WITH
    Nothing <- Missing,
    current <- IF local \in Config THEN local ELSE Missing,
    prepared <- {c \in wrote[SecretFile] : \A f \in File : c \in wrote[f]}
LocalWrittenLast == Atomic!CSpec
=============================================================================
