----------------------------- MODULE SpeakerLink -----------------------------
(***************************************************************************)
(* The link between the Mac and the speaker, seen from the Mac:            *)
(* migpt/src/server.rs on top of the shared crate packages/client-rust     *)
(* (message.rs, rpc.rs).  Speakers connect; a connection that has passed   *)
(* handshake and authentication takes over from the one before, which is   *)
(* aborted.  Each connection is a task that installs its two halves in the *)
(* globals of MessageManager, reads messages until the stream ends, and    *)
(* takes the globals down again.  Remote calls (run_shell: everything the  *)
(* speaker is told to do) are tasks of their own that write through those  *)
(* globals and wait for the reply the reader delivers.                     *)
(*                                                                         *)
(* Runtime: tokio on several threads (runtime.rs).  A step is a stretch    *)
(* between two awaits.  An abort ends a task at its next await that is not *)
(* ready, where its locks are released; until then a task that is running  *)
(* goes on, so a task may take any step between its abort and its Cancel.  *)
(***************************************************************************)
EXTENDS Naturals, Sequences, FiniteSets

CONSTANTS Conn,        \* connections, in no order
          Call,        \* remote calls made by JavaScript
          Announcing,  \* connections that live to announce themselves
          None,        \* no connection, nobody
          Channel      \* capacity of the channel to the main loop: 8

ASSUME LinkAssumption ==
    /\ Announcing \subseteq Conn /\ Conn \cap Call = {}
    /\ None \notin Conn \cup Call
    /\ Channel \in Nat \ {0}

VARIABLES generation,  \* CURRENT_GENERATION
          current,     \* current of run: the connection that took over last
          ready,       \* the channel of authenticated connections
          conn,        \* the tasks of the connections
          manager,     \* who holds MANAGER_LOCK
          reader,      \* whose read half MessageManager has
          reading,     \* who holds the mutex of the read half
          writer,      \* whose write half MessageManager has
          writing,     \* who holds the mutex of the write half
          connected,   \* has RPC a send_request?
          pending,     \* calls with an entry in pending_requests
          call,        \* the tasks of the remote calls
          inbox        \* replies a connection has received, unread

lvars == <<generation, current, ready, conn, manager, reader, reading, writer,
           writing, connected, pending, call, inbox>>

Main == <<generation, current, ready>>
Halves == <<reader, writer, connected>>
Locks == <<manager, reading, writing>>
Calls == <<pending, call, inbox>>

(* The call "已连接" of a connection is named by the connection.            *)
Caller == Call \cup Announcing

InitPC == {"initReader", "initWriter", "initRpc"}
DisposePC == {"dropReader", "dropWriter", "dropRpc", "dropPending"}
ServingPC == {"locking", "reading", "handling"}
ConnPC == {"away", "shaking", "ready", "starting", "closing", "ended"}
              \cup InitPC \cup ServingPC \cup DisposePC

CallPC == {"idle", "writing", "sending", "sent", "waiting",
           "returned", "failed", "cancelled"}

Connection == [pc : ConnPC, gen : Nat, aborted : BOOLEAN,
               msg : Caller \cup {None}]

RemoteCall == [pc : CallPC, via : Conn \cup {None}, answered : BOOLEAN,
               reply : {"none", "response", "closed"}]

LInit ==
    /\ generation = 0 /\ current = None /\ ready = <<>>
    /\ conn = [c \in Conn |-> [pc |-> "away", gen |-> 0, aborted |-> FALSE,
                               msg |-> None]]
    /\ manager = None
    /\ reader = None /\ reading = None /\ writer = None /\ writing = None
    /\ connected = FALSE /\ pending = {}
    /\ call = [k \in Caller |-> [pc |-> "idle", via |-> None,
                                 answered |-> FALSE, reply |-> "none"]]
    /\ inbox = [c \in Conn |-> <<>>]

In(c, pc) == conn[c].pc = pc
GoTo(c, pc) == conn' = [conn EXCEPT ![c].pc = pc]

-----------------------------------------------------------------------------
(* The connectors and the main loop.                                       *)

(* 131-144: a connection is accepted; what the allowlist refuses stays     *)
(* away.                                                                   *)
Accept(c) ==
    /\ In(c, "away") /\ GoTo(c, "shaking")
    /\ UNCHANGED <<Main, Halves, Locks, Calls>>

(* Handshake or secret wrong or late: the connection is dropped.           *)
Refused(c) ==
    /\ In(c, "shaking") /\ GoTo(c, "ended")
    /\ UNCHANGED <<Main, Halves, Locks, Calls>>

Authenticated(c) ==
    /\ In(c, "shaking") /\ Len(ready) < Channel
    /\ ready' = Append(ready, c) /\ GoTo(c, "ready")
    /\ UNCHANGED <<Halves, Locks, Calls, generation, current>>

(* Faulty variant: the task before goes on.                                *)
TakeOverBeside ==
    /\ ready # <<>>
    /\ ready' = Tail(ready) /\ current' = Head(ready)
    /\ generation' = generation + 1
    /\ conn' = [conn EXCEPT ![Head(ready)].pc = "starting",
                            ![Head(ready)].gen = generation + 1]
    /\ UNCHANGED <<Halves, Locks, Calls>>

(* 152-168: the newest generation is counted before the task before is     *)
(* aborted, its announcement with it.                                      *)
TakeOver ==
    /\ ready # <<>>
    /\ ready' = Tail(ready) /\ current' = Head(ready)
    /\ generation' = generation + 1
    /\ conn' = [c \in Conn |->
          IF c = Head(ready) THEN [conn[c] EXCEPT !.pc = "starting",
                                                  !.gen = generation + 1]
          ELSE IF c = current THEN [conn[c] EXCEPT !.aborted = TRUE]
          ELSE conn[c]]
    /\ UNCHANGED <<Halves, Locks, Calls>>

-----------------------------------------------------------------------------
(* handle_connection, MessageManager::init and process_messages.           *)

TakeManager(c) ==
    /\ In(c, "starting") /\ manager = None
    /\ manager' = c /\ GoTo(c, "initReader")
    /\ UNCHANGED <<Main, Halves, Calls, reading, writing>>

InitReader(c) ==
    /\ In(c, "initReader") /\ reading = None
    /\ reader' = c /\ GoTo(c, "initWriter")
    /\ UNCHANGED <<Main, Locks, Calls, writer, connected>>

InitWriter(c) ==
    /\ In(c, "initWriter") /\ writing = None
    /\ writer' = c /\ GoTo(c, "initRpc")
    /\ UNCHANGED <<Main, Locks, Calls, reader, connected>>

InitRpc(c) ==
    /\ In(c, "initRpc")
    /\ connected' = TRUE /\ manager' = None /\ GoTo(c, "locking")
    /\ UNCHANGED <<Main, Calls, reader, reading, writer, writing>>

(* The mutex of the read half is held while the next message is awaited.   *)
LockReader(c) ==
    /\ In(c, "locking") /\ reading = None
    /\ \/ reader = None /\ GoTo(c, "closing") /\ UNCHANGED reading
       \/ reader # None /\ GoTo(c, "reading") /\ reading' = c
    /\ UNCHANGED <<Main, Halves, Calls, manager, writing>>

(* It is whoever's read half is installed that the message comes from.     *)
Receive(c) ==
    /\ In(c, "reading") /\ inbox[reader] # <<>>
    /\ conn' = [conn EXCEPT ![c].pc = "handling",
                            ![c].msg = Head(inbox[reader])]
    /\ inbox' = [inbox EXCEPT ![reader] = Tail(@)]
    /\ reading' = None
    /\ UNCHANGED <<Main, Halves, manager, writing, pending, call>>

(* rpc.rs on_response: a reply nobody has an entry for is dropped.         *)
Handle(c) ==
    /\ In(c, "handling")
    /\ pending' = pending \ {conn[c].msg}
    /\ call' = [k \in Caller |->
          IF k = conn[c].msg /\ k \in pending
          THEN [call[k] EXCEPT !.reply = "response"] ELSE call[k]]
    /\ conn' = [conn EXCEPT ![c].pc = "locking", ![c].msg = None]
    /\ UNCHANGED <<Main, Halves, Locks, inbox>>

(* The stream ends or fails, or a frame is too large for FrameLimiter.     *)
ReadEnds(c) ==
    /\ In(c, "reading")
    /\ reading' = None /\ GoTo(c, "closing")
    /\ UNCHANGED <<Main, Halves, Calls, manager, writing>>

-----------------------------------------------------------------------------
(* teardown and MessageManager::dispose.                                   *)

(* Faulty variant: take the globals down whatever the generation.          *)
TeardownAnyway(c) ==
    /\ In(c, "closing") /\ manager = None
    /\ manager' = c /\ GoTo(c, "dropReader")
    /\ UNCHANGED <<Main, Halves, Calls, reading, writing>>

(* 258-270: with the lock held, only the connection of the newest          *)
(* generation takes the globals down.                                      *)
Teardown(c) ==
    /\ In(c, "closing") /\ manager = None
    /\ \/ conn[c].gen = generation /\ manager' = c /\ GoTo(c, "dropReader")
       \/ conn[c].gen # generation /\ GoTo(c, "ended") /\ UNCHANGED manager
    /\ UNCHANGED <<Main, Halves, Calls, reading, writing>>

DropReader(c) ==
    /\ In(c, "dropReader") /\ reading = None
    /\ reader' = None /\ GoTo(c, "dropWriter")
    /\ UNCHANGED <<Main, Locks, Calls, writer, connected>>

DropWriter(c) ==
    /\ In(c, "dropWriter") /\ writing = None
    /\ writer' = None /\ GoTo(c, "dropRpc")
    /\ UNCHANGED <<Main, Locks, Calls, reader, connected>>

DropRpc(c) ==
    /\ In(c, "dropRpc")
    /\ connected' = FALSE /\ GoTo(c, "dropPending")
    /\ UNCHANGED <<Main, Locks, Calls, reader, writer>>

(* rpc.rs 57-60: the entries are dropped, and whoever waits is told.       *)
DropPending(c) ==
    /\ In(c, "dropPending")
    /\ call' = [k \in Caller |->
          IF k \in pending THEN [call[k] EXCEPT !.reply = "closed"]
          ELSE call[k]]
    /\ pending' = {} /\ manager' = None /\ GoTo(c, "ended")
    /\ UNCHANGED <<Main, Halves, reading, writing, inbox>>

(* An abort takes effect: the future is dropped, its guards with it.       *)
Cancel(c) ==
    /\ conn[c].aborted /\ ~In(c, "ended")
    /\ conn' = [conn EXCEPT ![c].pc = "ended", ![c].msg = None]
    /\ manager' = IF manager = c THEN None ELSE manager
    /\ reading' = IF reading = c THEN None ELSE reading
    /\ UNCHANGED <<Main, Halves, Calls, writing>>

-----------------------------------------------------------------------------
(* rpc.rs call_remote.  An announcement begins when its connection has     *)
(* taken over and is aborted with it.                                      *)

CallAt(k, pc) == call[k].pc = pc
CallGoesTo(k, pc) == call' = [call EXCEPT ![k].pc = pc]
CallRuns(k) == k \in Conn => conn[k].gen > 0

StartCall(k) ==
    /\ CallAt(k, "idle") /\ CallRuns(k)
    /\ CallGoesTo(k, IF connected THEN "writing" ELSE "failed")
    /\ UNCHANGED <<Main, Halves, Locks, conn, pending, inbox>>

(* The mutex of the write half is held until the message is written.       *)
LockWriter(k) ==
    /\ CallAt(k, "writing") /\ CallRuns(k) /\ writing = None
    /\ \/ writer = None /\ CallGoesTo(k, "failed") /\ UNCHANGED writing
       \/ /\ writer # None /\ writing' = k
          /\ call' = [call EXCEPT ![k].pc = "sending", ![k].via = writer]
    /\ UNCHANGED <<Main, Halves, conn, manager, reading, pending, inbox>>

Written(k) ==
    /\ CallAt(k, "sending") /\ CallRuns(k)
    /\ writing' = None
    /\ \E pc \in {"sent", "failed"} : CallGoesTo(k, pc)
    /\ UNCHANGED <<Main, Halves, conn, manager, reading, pending, inbox>>

(* Only now does the call enter pending_requests: rpc.rs 118-123.          *)
Register(k) ==
    /\ CallAt(k, "sent") /\ CallRuns(k)
    /\ pending' = pending \cup {k} /\ CallGoesTo(k, "waiting")
    /\ UNCHANGED <<Main, Halves, Locks, conn, inbox>>

Return(k) ==
    /\ CallAt(k, "waiting") /\ CallRuns(k) /\ call[k].reply # "none"
    /\ pending' = IF call[k].reply = "closed" THEN pending \ {k} ELSE pending
    /\ CallGoesTo(k, IF call[k].reply = "closed" THEN "failed" ELSE "returned")
    /\ UNCHANGED <<Main, Halves, Locks, conn, inbox>>

(* Faulty variant: the entry is left for the reply to remove.              *)
TimesOutKeeps(k) ==
    /\ CallAt(k, "waiting") /\ CallRuns(k) /\ call[k].reply = "none"
    /\ CallGoesTo(k, "failed")
    /\ UNCHANGED <<Main, Halves, Locks, conn, pending, inbox>>

(* Faulty variant: a call waits on while there is no link.                 *)
TimesOutLinked(k) ==
    /\ CallAt(k, "waiting") /\ CallRuns(k) /\ call[k].reply = "none"
    /\ connected
    /\ pending' = pending \ {k} /\ CallGoesTo(k, "failed")
    /\ UNCHANGED <<Main, Halves, Locks, conn, inbox>>

TimesOut(k) ==
    /\ CallAt(k, "waiting") /\ CallRuns(k) /\ call[k].reply = "none"
    /\ pending' = pending \ {k} /\ CallGoesTo(k, "failed")
    /\ UNCHANGED <<Main, Halves, Locks, conn, inbox>>

(* The announcement of an aborted connection: its entry stays.             *)
CancelCall(k) ==
    /\ k \in Conn /\ conn[k].aborted
    /\ call[k].pc \in {"writing", "sending", "sent", "waiting"}
    /\ CallGoesTo(k, "cancelled")
    /\ writing' = IF writing = k THEN None ELSE writing
    /\ UNCHANGED <<Main, Halves, conn, manager, reading, pending, inbox>>

(* The speaker answers, perhaps before the caller has returned from its    *)
(* write, perhaps long after it has given up.                              *)
Answer(k) ==
    /\ call[k].via # None /\ ~call[k].answered
    /\ call' = [call EXCEPT ![k].answered = TRUE]
    /\ inbox' = [inbox EXCEPT ![call[k].via] = Append(@, k)]
    /\ UNCHANGED <<Main, Halves, Locks, conn, pending>>

-----------------------------------------------------------------------------
Serve(c) ==
    \/ TakeManager(c) \/ InitReader(c) \/ InitWriter(c) \/ InitRpc(c)
    \/ LockReader(c) \/ Receive(c) \/ Handle(c)
    \/ Teardown(c) \/ DropReader(c) \/ DropWriter(c) \/ DropRpc(c)
    \/ DropPending(c)

CallStep(k) ==
    \/ StartCall(k) \/ LockWriter(k) \/ Written(k) \/ Register(k)
    \/ Return(k) \/ TimesOut(k)

(* Everyone has come and gone.                                             *)
AllOver ==
    /\ \A c \in Conn : In(c, "ended")
    /\ \A k \in Caller : \/ call[k].pc \in {"returned", "failed", "cancelled"}
                         \/ k \in Conn /\ CallAt(k, "idle")
    /\ UNCHANGED lvars

LNext ==
    \/ \E c \in Conn : \/ Accept(c) \/ Refused(c) \/ Authenticated(c)
                       \/ Serve(c) \/ ReadEnds(c) \/ Cancel(c)
    \/ TakeOver \/ AllOver
    \/ \E k \in Caller : CallStep(k) \/ CancelCall(k) \/ Answer(k)

LSpec == LInit /\ [][LNext]_lvars

(* Fairness: tokio runs every task that can go on, an abort is carried     *)
(* out, and a call's timer fires.  Nothing ends a write to a speaker that  *)
(* reads nothing: message.rs 92-95 has no timeout, and the send at rpc.rs  *)
(* 118 comes before the timeout at 125.                                    *)
LFairSpec ==
    /\ LSpec /\ WF_lvars(TakeOver)
    /\ \A c \in Conn : WF_lvars(Serve(c)) /\ WF_lvars(Cancel(c))
    /\ \A k \in Caller :
          /\ WF_lvars(CallStep(k) /\ call[k].pc \notin {"idle", "sending"})
          /\ WF_lvars(CancelCall(k))

-----------------------------------------------------------------------------
MainTypes == generation \in Nat /\ current \in Conn \cup {None} /\ ready \in Seq(Conn)
HalfTypes ==
    /\ reader \in Conn \cup {None} /\ writer \in Conn \cup {None}
    /\ connected \in BOOLEAN
LockTypes ==
    /\ manager \in Conn \cup {None} /\ reading \in Conn \cup {None}
    /\ writing \in Caller \cup {None}
CallTypes ==
    /\ pending \subseteq Caller /\ call \in [Caller -> RemoteCall]
    /\ inbox \in [Conn -> Seq(Caller)]

(* The mutex of the read half is held by whoever awaits a message, and the *)
(* half it reads from cannot be taken away meanwhile.                      *)
ReaderHeld ==
    /\ \A c \in Conn : In(c, "reading") <=> reading = c
    /\ reading # None => reader # None

LTypeOK ==
    /\ conn \in [Conn -> Connection]
    /\ MainTypes /\ HalfTypes /\ LockTypes /\ CallTypes /\ ReaderHeld

(* Taking down spares the newer connection (28-31, 258-272): whoever is    *)
(* disposing never finds the halves of a newer connection in the globals,  *)
(* however the end of the old one and the takeover are interleaved.        *)
NewerLinkKept ==
    \A c \in Conn : conn[c].pc \in DisposePC =>
        \A s \in {reader, writer} \ {None} : conn[s].gen <= conn[c].gen

(* Whose lock a connection waits for.                                      *)
Awaits(c, d) ==
    \/ conn[c].pc \in {"starting", "closing"} /\ manager = d
    \/ conn[c].pc \in {"initReader", "locking", "dropReader"} /\ reading = d

(* A connection that has not been aborted waits for locks only of ones     *)
(* that have, and so are about to give them back (158-160, 183-186): no    *)
(* two wait for each other.  The write mutex is held only while a message  *)
(* is being written (message.rs 85), for as long as that takes.            *)
NobodyInTheWay ==
    /\ \A c, d \in Conn : Awaits(c, d) /\ ~conn[c].aborted => conn[d].aborted
    /\ writing # None => CallAt(writing, "sending")

(* Entries of pending_requests do not pile up (rpc.rs 125-139): each is of *)
(* a call that waits for it or of an announcement aborted while it waited. *)
PendingAccounted ==
    \A k \in pending : \/ CallAt(k, "waiting") /\ call[k].reply = "none"
                       \/ CallAt(k, "cancelled")

(* No write goes on for ever: the mutex of the write half comes free again *)
(* and again.                                                              *)
WritesEnd == []<>(writing = None)

(* A new connection is not held up by the one it replaces, nor by the      *)
(* calls of that one, aborted or waiting: if writes end, it comes to serve *)
(* or it ends (152-186, 258-270).  Behind a write that does not end it     *)
(* waits for ever, in init, with MANAGER_LOCK held.                        *)
NewConnectionServes ==
    WritesEnd => \A c \in Conn : In(c, "ready") ~> conn[c].pc \in ServingPC \cup {"ended"}

(* If writes end, a remote call always comes back to JavaScript, even if   *)
(* its reply was read before its entry was made or its connection has been *)
(* replaced: the queue of the speaker waits for nothing else.              *)
EveryCallReturns ==
    WritesEnd => \A k \in Call : CallAt(k, "writing")
                                     ~> call[k].pc \in {"returned", "failed"}

=============================================================================
