------------------------- MODULE SpeakerLink_proofs -------------------------
(***************************************************************************)
(* What the link guarantees for any number of connections and calls.  The  *)
(* invariant is built in layers: the types; the shape of a connection's    *)
(* life (who is in the channel, who has a generation, who holds the        *)
(* manager lock); the generations of what is installed; and, if an abort   *)
(* takes effect at once, the ownership of the link.                        *)
(***************************************************************************)
EXTENDS SpeakerLink, FrameLimiter, SequenceTheorems, TLAPS

-----------------------------------------------------------------------------
(* Types.                                                                  *)

LEMMA Nobody == None \notin Conn /\ None \notin Caller /\ Conn \cap Call = {}
  BY LinkAssumption DEF Caller

LEMMA LTypesInit == LInit => LTypeOK
<1> SUFFICES ASSUME LInit PROVE LTypeOK
  OBVIOUS
<1>1. conn \in [Conn -> Connection]
  BY DEF LInit, Connection, ConnPC
<1>2. CallTypes
  <2>1. call \in [Caller -> RemoteCall]
    BY DEF LInit, RemoteCall, CallPC
  <2>2. inbox \in [Conn -> Seq(Caller)]
    BY DEF LInit
  <2> QED BY <2>1, <2>2 DEF LInit, CallTypes
<1>3. MainTypes /\ HalfTypes /\ LockTypes
  <2>1. ready \in Seq(Conn)
    BY DEF LInit
  <2> QED BY <2>1 DEF LInit, MainTypes, HalfTypes, LockTypes
<1>4. ReaderHeld
  <2>1. \A c \in Conn : conn[c].pc = "away" /\ c # None
    BY Nobody DEF LInit
  <2> QED BY <2>1 DEF LInit, ReaderHeld, In
<1> QED BY <1>1, <1>2, <1>3, <1>4 DEF LTypeOK

LEMMA MainKept == ASSUME MainTypes, UNCHANGED Main PROVE MainTypes'
  BY DEF MainTypes, Main

LEMMA HalfKept == ASSUME HalfTypes, UNCHANGED Halves PROVE HalfTypes'
  BY DEF HalfTypes, Halves

LEMMA LockKept == ASSUME LockTypes, UNCHANGED Locks PROVE LockTypes'
  BY DEF LockTypes, Locks

LEMMA CallKept == ASSUME CallTypes, UNCHANGED Calls PROVE CallTypes'
  BY DEF CallTypes, Calls

(* Moving one connection.                                                  *)
LEMMA GoToFact ==
    ASSUME conn \in [Conn -> Connection],
           NEW c \in Conn, NEW pc \in ConnPC, GoTo(c, pc)
    PROVE  /\ conn' \in [Conn -> Connection]
           /\ conn'[c].pc = pc /\ conn'[c].gen = conn[c].gen
           /\ conn'[c].aborted = conn[c].aborted
           /\ \A d \in Conn : d # c => conn'[d] = conn[d]
  BY DEF GoTo, Connection

LEMMA CallFact ==
    ASSUME CallTypes, NEW k \in Caller, NEW pc \in CallPC, CallGoesTo(k, pc)
    PROVE  /\ call' \in [Caller -> RemoteCall]
           /\ call'[k].pc = pc /\ call'[k].reply = call[k].reply
           /\ \A j \in Caller : j # k => call'[j] = call[j]
  BY DEF CallTypes, CallGoesTo, RemoteCall

LEMMA LoopFact ==
    ASSUME conn \in [Conn -> Connection], NEW c \in Conn
    PROVE  /\ Receive(c) => conn'[c].pc = "handling" /\ In(c, "reading")
           /\ Handle(c) => conn'[c].pc = "locking" /\ In(c, "handling")
           /\ Cancel(c) => conn'[c].pc = "ended"
<1>1. Receive(c) => conn'[c].pc = "handling" /\ In(c, "reading")
  BY DEF Receive
<1>2. Handle(c) => conn'[c].pc = "locking" /\ In(c, "handling")
  BY DEF Handle
<1>3. Cancel(c) => conn'[c].pc = "ended"
  BY DEF Cancel
<1> QED BY <1>1, <1>2, <1>3

LEMMA LTypesConn ==
    ASSUME LTypeOK, NEW c \in Conn, Accept(c) \/ Refused(c) \/ Authenticated(c)
               \/ Serve(c) \/ ReadEnds(c) \/ Cancel(c)
    PROVE  LTypeOK'
<1> USE Nobody DEF LTypeOK
<1>1. CASE Accept(c) \/ Refused(c) \/ Authenticated(c)
  <2>1. /\ conn' \in [Conn -> Connection]
        /\ ~In(c, "reading") /\ ~In(c, "reading")'
        /\ \A d \in Conn : d # c => conn'[d] = conn[d]
    BY <1>1, GoToFact DEF Accept, Refused, Authenticated, ConnPC, In
  <2>2. HalfTypes' /\ LockTypes' /\ CallTypes' /\ ReaderHeld'
    BY <1>1, <2>1, HalfKept, LockKept, CallKept
    DEF Accept, Refused, Authenticated, ReaderHeld, In, Halves, Locks
  <2>3. MainTypes'
    <3>1. CASE Accept(c) \/ Refused(c)
      BY <3>1, MainKept DEF Accept, Refused, Main
    <3>2. CASE Authenticated(c)
      <4>1. Append(ready, c) \in Seq(Conn)
        BY DEF MainTypes
      <4> QED BY <3>2, <4>1 DEF Authenticated, MainTypes
    <3> QED BY <1>1, <3>1, <3>2
  <2> QED BY <2>1, <2>2, <2>3
<1>2. CASE TakeManager(c) \/ InitReader(c) \/ InitWriter(c) \/ InitRpc(c)
  <2>1. /\ conn' \in [Conn -> Connection]
        /\ ~In(c, "reading") /\ ~In(c, "reading")'
        /\ \A d \in Conn : d # c => conn'[d] = conn[d]
    BY <1>2, GoToFact
    DEF TakeManager, InitReader, InitWriter, InitRpc, ConnPC, InitPC, ServingPC, In
  <2>2. MainTypes' /\ CallTypes'
    BY <1>2, MainKept, CallKept DEF TakeManager, InitReader, InitWriter, InitRpc
  <2>3. HalfTypes' /\ LockTypes' /\ reading' = reading
    <3>1. CASE TakeManager(c)
      BY <3>1, HalfKept DEF TakeManager, LockTypes
    <3>2. CASE InitReader(c)
      BY <3>2, LockKept DEF InitReader, HalfTypes, Locks
    <3>3. CASE InitWriter(c)
      BY <3>3, LockKept DEF InitWriter, HalfTypes, Locks
    <3>4. CASE InitRpc(c)
      BY <3>4 DEF InitRpc, HalfTypes, LockTypes
    <3> QED BY <1>2, <3>1, <3>2, <3>3, <3>4
  <2>4. reader' = reader \/ reader' = c
    BY <1>2 DEF TakeManager, InitReader, InitWriter, InitRpc, Halves
  <2>5. ReaderHeld'
    BY <2>1, <2>3, <2>4 DEF ReaderHeld, In
  <2> QED BY <2>1, <2>2, <2>3, <2>5
<1>3. CASE LockReader(c) \/ ReadEnds(c)
  <2>1. /\ conn' \in [Conn -> Connection]
        /\ \A d \in Conn : d # c => conn'[d] = conn[d]
    BY <1>3, GoToFact DEF LockReader, ReadEnds, ConnPC, ServingPC
  <2>2. MainTypes' /\ CallTypes' /\ HalfTypes' /\ LockTypes'
    BY <1>3, MainKept, CallKept, HalfKept DEF LockReader, ReadEnds, LockTypes
  <2>3. ReaderHeld'
    BY <1>3, <2>1, GoToFact
    DEF LockReader, ReadEnds, ReaderHeld, In, Halves, ConnPC, ServingPC, LockTypes
  <2> QED BY <2>1, <2>2, <2>3
<1>4. CASE Receive(c)
  <2>1. reader \in Conn /\ inbox[reader] \in Seq(Caller) /\ inbox[reader] # <<>>
    BY <1>4 DEF Receive, In, ReaderHeld, CallTypes, HalfTypes
  <2>2. Head(inbox[reader]) \in Caller /\ Tail(inbox[reader]) \in Seq(Caller)
    BY <2>1
  <2>3. /\ conn' \in [Conn -> Connection] /\ conn'[c].pc = "handling"
        /\ \A d \in Conn : d # c => conn'[d] = conn[d]
    BY <1>4, <2>2 DEF Receive, Connection, ConnPC, ServingPC
  <2>4. CallTypes' /\ MainTypes' /\ HalfTypes' /\ LockTypes'
    BY <1>4, <2>1, <2>2, MainKept, HalfKept DEF Receive, CallTypes, LockTypes
  <2>5. ReaderHeld'
    BY <1>4, <2>3 DEF Receive, ReaderHeld, In, Halves
  <2> QED BY <2>3, <2>4, <2>5
<1>5. CASE Handle(c)
  <2>1. /\ conn' \in [Conn -> Connection] /\ conn'[c].pc = "locking"
        /\ \A d \in Conn : d # c => conn'[d] = conn[d]
    BY <1>5 DEF Handle, Connection, ConnPC, ServingPC
  <2>2. call' \in [Caller -> RemoteCall]
    BY <1>5 DEF Handle, CallTypes, RemoteCall
  <2>3. CallTypes' /\ MainTypes' /\ HalfTypes' /\ LockTypes'
    BY <1>5, <2>2, MainKept, HalfKept, LockKept DEF Handle, CallTypes
  <2>4. ReaderHeld'
    BY <1>5, <2>1 DEF Handle, ReaderHeld, In, Halves, Locks
  <2> QED BY <2>1, <2>3, <2>4
<1>6. CASE Teardown(c) \/ DropReader(c) \/ DropWriter(c) \/ DropRpc(c)
  <2>1. /\ conn' \in [Conn -> Connection]
        /\ ~In(c, "reading") /\ ~In(c, "reading")'
        /\ \A d \in Conn : d # c => conn'[d] = conn[d]
    BY <1>6, GoToFact
    DEF Teardown, DropReader, DropWriter, DropRpc, ConnPC, DisposePC, In
  <2>2. MainTypes' /\ CallTypes'
    BY <1>6, MainKept, CallKept DEF Teardown, DropReader, DropWriter, DropRpc
  <2>3. HalfTypes' /\ LockTypes' /\ reading' = reading
    <3>1. CASE Teardown(c)
      BY <3>1, HalfKept DEF Teardown, LockTypes
    <3>2. CASE DropReader(c)
      BY <3>2, LockKept DEF DropReader, HalfTypes, Locks
    <3>3. CASE DropWriter(c)
      BY <3>3, LockKept DEF DropWriter, HalfTypes, Locks
    <3>4. CASE DropRpc(c)
      BY <3>4, LockKept DEF DropRpc, HalfTypes, Locks
    <3> QED BY <1>6, <3>1, <3>2, <3>3, <3>4
  <2>4. reader' = reader \/ reading = None
    BY <1>6 DEF Teardown, DropReader, DropWriter, DropRpc, Halves
  <2>5. ReaderHeld'
    BY <2>1, <2>3, <2>4 DEF ReaderHeld, In
  <2> QED BY <2>1, <2>2, <2>3, <2>5
<1>7. CASE DropPending(c)
  <2>1. /\ conn' \in [Conn -> Connection]
        /\ ~In(c, "reading") /\ ~In(c, "reading")'
        /\ \A d \in Conn : d # c => conn'[d] = conn[d]
    BY <1>7, GoToFact DEF DropPending, ConnPC, In
  <2>2. call' \in [Caller -> RemoteCall]
    BY <1>7 DEF DropPending, CallTypes, RemoteCall
  <2>3. CallTypes' /\ MainTypes' /\ HalfTypes' /\ LockTypes'
    BY <1>7, <2>2, MainKept, HalfKept DEF DropPending, CallTypes, LockTypes
  <2>4. ReaderHeld'
    BY <1>7, <2>1 DEF DropPending, ReaderHeld, In, Halves
  <2> QED BY <2>1, <2>3, <2>4
<1>8. CASE Cancel(c)
  <2>1. /\ conn' \in [Conn -> Connection] /\ conn'[c].pc = "ended"
        /\ \A d \in Conn : d # c => conn'[d] = conn[d]
    BY <1>8 DEF Cancel, Connection, ConnPC
  <2>2. MainTypes' /\ HalfTypes' /\ CallTypes' /\ LockTypes'
    BY <1>8, MainKept, HalfKept, CallKept DEF Cancel, LockTypes
  <2>3. ReaderHeld'
    BY <1>8, <2>1 DEF Cancel, ReaderHeld, In, Halves
  <2> QED BY <2>1, <2>2, <2>3
<1> QED BY <1>1, <1>2, <1>3, <1>4, <1>5, <1>6, <1>7, <1>8 DEF Serve

-----------------------------------------------------------------------------
(* The life of a connection: who waits in the channel has not taken over,  *)
(* who has been aborted or installed has.                                  *)

Before == {"away", "shaking", "ready"}

Queued ==
    \A i \in 1..Len(ready) :
        /\ In(ready[i], "ready")
        /\ \A j \in 1..Len(ready) : i # j => ready[i] # ready[j]

Life ==
    /\ \A c \in Conn : conn[c].pc \in Before => ~conn[c].aborted
    /\ current # None => conn[current].pc \notin Before
    /\ reader # None => conn[reader].pc \notin Before
    /\ writer # None => conn[writer].pc \notin Before

LEMMA QueueFact ==
    ASSUME MainTypes, Queued, ready # <<>>
    PROVE  /\ Head(ready) \in Conn /\ In(Head(ready), "ready")
           /\ Tail(ready) \in Seq(Conn)
           /\ Len(Tail(ready)) = Len(ready) - 1
           /\ \A i \in 1..Len(Tail(ready)) : /\ Tail(ready)[i] = ready[i + 1]
                                            /\ Tail(ready)[i] # Head(ready)
<1>1. Len(ready) \in Nat /\ Len(ready) > 0
  BY DEF MainTypes
<1>2. Head(ready) = ready[1] /\ Head(ready) \in Conn /\ Tail(ready) \in Seq(Conn)
  BY DEF MainTypes
<1>3. Len(Tail(ready)) = Len(ready) - 1
  BY DEF MainTypes
<1>4. ASSUME NEW i \in 1..Len(Tail(ready))
      PROVE  Tail(ready)[i] = ready[i + 1] /\ Tail(ready)[i] # Head(ready)
  <2>1. i + 1 \in 1..Len(ready) /\ 1 \in 1..Len(ready) /\ i + 1 # 1
    BY <1>1, <1>3
  <2>2. Tail(ready)[i] = ready[i + 1]
    BY <1>3 DEF MainTypes
  <2> QED BY <1>2, <2>1, <2>2 DEF Queued
<1>5. In(Head(ready), "ready")
  BY <1>1, <1>2 DEF Queued
<1> QED BY <1>2, <1>3, <1>4, <1>5

LEMMA LTypesTakeOver == ASSUME LTypeOK, Queued, TakeOver PROVE LTypeOK'
<1> USE Nobody DEF LTypeOK
<1>1. /\ Head(ready) \in Conn /\ In(Head(ready), "ready")
      /\ Tail(ready) \in Seq(Conn) /\ generation + 1 \in Nat
  <2>1. MainTypes /\ ready # <<>>
    BY DEF TakeOver
  <2> QED BY <2>1, QueueFact DEF MainTypes
<1>2. conn' \in [Conn -> Connection]
  BY <1>1 DEF TakeOver, Connection, ConnPC
<1>3. ReaderHeld'
  <2>1. \A c \in Conn : In(c, "reading")' <=> In(c, "reading")
    BY <1>1 DEF TakeOver, In, Connection
  <2> QED BY <2>1 DEF TakeOver, ReaderHeld, Locks, Halves
<1>4. MainTypes' /\ HalfTypes' /\ LockTypes' /\ CallTypes'
  BY <1>1, HalfKept, LockKept, CallKept DEF TakeOver, MainTypes
<1> QED BY <1>2, <1>3, <1>4

LEMMA LTypesCall ==
    ASSUME LTypeOK, NEW k \in Caller, CallStep(k) \/ CancelCall(k) \/ Answer(k)
    PROVE  LTypeOK'
<1> USE Nobody DEF LTypeOK
<1>1. CASE StartCall(k) \/ LockWriter(k) \/ Written(k) \/ CancelCall(k)
  <2>1. call' \in [Caller -> RemoteCall]
    <3>1. CASE StartCall(k) \/ Written(k) \/ CancelCall(k)
      BY <3>1, CallFact DEF StartCall, Written, CancelCall, CallPC
    <3>2. CASE LockWriter(k)
      <4>1. ASSUME writer # None PROVE writer \in Conn
        BY <4>1 DEF HalfTypes
      <4>2. CASE writer = None
        BY <3>2, <4>2, CallFact DEF LockWriter, CallPC
      <4>3. CASE writer # None
        <5>1. call' = [call EXCEPT ![k].pc = "sending", ![k].via = writer]
          BY <3>2, <4>3 DEF LockWriter
        <5>2. [call[k] EXCEPT !.pc = "sending", !.via = writer] \in RemoteCall
          BY <4>1, <4>3 DEF CallPC, RemoteCall, CallTypes
        <5>3. call' = [call EXCEPT ![k] =
                          [call[k] EXCEPT !.pc = "sending", !.via = writer]]
          BY <5>1 DEF CallTypes
        <5> QED BY <5>2, <5>3 DEF CallTypes
      <4> QED BY <4>2, <4>3
    <3> QED BY <1>1, <3>1, <3>2
  <2>2. CallTypes'
    BY <1>1, <2>1 DEF StartCall, LockWriter, Written, CancelCall, CallTypes
  <2>3. conn' = conn /\ MainTypes' /\ HalfTypes'
    BY <1>1, MainKept, HalfKept
    DEF StartCall, LockWriter, Written, CancelCall, Halves
  <2>4. LockTypes'
    BY <1>1 DEF StartCall, LockWriter, Written, CancelCall, LockTypes, Locks
  <2>5. reading' = reading /\ reader' = reader
    BY <1>1 DEF StartCall, LockWriter, Written, CancelCall, Locks, Halves
  <2>6. ReaderHeld'
    BY <2>3, <2>5 DEF ReaderHeld, In
  <2> QED BY <2>2, <2>3, <2>4, <2>6
<1>2. CASE Register(k) \/ Return(k) \/ TimesOut(k) \/ Answer(k)
  <2>1. call' \in [Caller -> RemoteCall]
    <3>1. CASE Register(k) \/ Return(k) \/ TimesOut(k)
      BY <3>1, CallFact DEF Register, Return, TimesOut, CallPC
    <3>2. CASE Answer(k)
      BY <3>2 DEF Answer, CallTypes, RemoteCall
    <3> QED BY <1>2, <3>1, <3>2
  <2>2. inbox' \in [Conn -> Seq(Caller)]
    <3>1. CASE Answer(k)
      <4>1. call[k].via \in Conn /\ inbox[call[k].via] \in Seq(Caller)
        BY <3>1 DEF Answer, CallTypes, RemoteCall
      <4>2. Append(inbox[call[k].via], k) \in Seq(Caller)
        BY <4>1
      <4> QED BY <3>1, <4>1, <4>2 DEF Answer, CallTypes
    <3> QED BY <1>2, <3>1 DEF Register, Return, TimesOut, CallTypes
  <2>3. CallTypes'
    BY <1>2, <2>1, <2>2 DEF Register, Return, TimesOut, Answer, CallTypes
  <2>4. conn' = conn /\ MainTypes' /\ HalfTypes' /\ LockTypes'
    BY <1>2, MainKept, HalfKept, LockKept DEF Register, Return, TimesOut, Answer
  <2>5. ReaderHeld'
    BY <1>2, <2>4 DEF Register, Return, TimesOut, Answer, ReaderHeld, In, Locks, Halves
  <2> QED BY <2>1, <2>3, <2>4, <2>5
<1> QED BY <1>1, <1>2 DEF CallStep

(* A connection's step moves no other connection, and starts nothing: it   *)
(* does not come back to the channel, nor is it aborted by its own step.   *)
LEMMA ConnStep ==
    ASSUME LTypeOK, NEW c \in Conn, Accept(c) \/ Refused(c) \/ Serve(c)
               \/ ReadEnds(c) \/ Cancel(c)
    PROVE  /\ \A d \in Conn : d # c => conn'[d] = conn[d]
           /\ conn'[c].gen = conn[c].gen /\ conn'[c].aborted = conn[c].aborted
           /\ conn[c].pc # "ready" \/ conn[c].aborted
           /\ conn'[c].pc \in Before => In(c, "away") /\ In(c, "shaking")'
           /\ UNCHANGED Main
<1> USE DEF LTypeOK
<1>1. CASE Accept(c) \/ Refused(c)
  BY <1>1, GoToFact DEF Accept, Refused, ConnPC, Before, In, Main
<1>2. CASE TakeManager(c) \/ InitReader(c) \/ InitWriter(c) \/ InitRpc(c)
  BY <1>2, GoToFact
  DEF TakeManager, InitReader, InitWriter, InitRpc, ConnPC, InitPC, ServingPC,
      Before, In
<1>3. CASE LockReader(c) \/ ReadEnds(c)
  BY <1>3, GoToFact DEF LockReader, ReadEnds, ConnPC, ServingPC, Before, In
<1>4. CASE Receive(c) \/ Handle(c)
  BY <1>4 DEF Receive, Handle, Connection, Before, In
<1>5. CASE Teardown(c) \/ DropReader(c) \/ DropWriter(c) \/ DropRpc(c)
  BY <1>5, GoToFact
  DEF Teardown, DropReader, DropWriter, DropRpc, ConnPC, DisposePC, Before, In
<1>6. CASE DropPending(c)
  BY <1>6, GoToFact DEF DropPending, ConnPC, Before, In
<1>7. CASE Cancel(c)
  BY <1>7 DEF Cancel, Connection, Before, In
<1> QED BY <1>1, <1>2, <1>3, <1>4, <1>5, <1>6, <1>7 DEF Serve

LEMMA OrderInit == LInit => Queued /\ Life
  BY Nobody DEF LInit, Queued, Life, Before, In

LEMMA OrderConn ==
    ASSUME LTypeOK, Queued, Life, NEW c \in Conn,
           Accept(c) \/ Refused(c) \/ Serve(c) \/ ReadEnds(c) \/ Cancel(c)
    PROVE  Queued' /\ Life'
<1> USE Nobody
<1>1. ready' = ready /\ current' = current
  BY ConnStep DEF Main
<1>2. ~In(c, "ready")
  BY ConnStep DEF Life, Before, In
<1>3. Queued'
  <2>1. ASSUME NEW i \in 1..Len(ready) PROVE ready[i] \in Conn /\ ready[i] # c
    BY <1>2 DEF Queued, LTypeOK, MainTypes
  <2> QED BY <1>1, <2>1, ConnStep DEF Queued, In
<1>4. \A d \in Conn : conn[d].pc \notin Before => conn'[d].pc \notin Before
  BY ConnStep DEF Before, In
<1>5. \A d \in Conn : conn'[d].pc \in Before => ~conn'[d].aborted
  BY ConnStep DEF Life, Before, In
<1>6. /\ reader' \in {reader, None} \/ (reader' = c /\ In(c, "initReader"))
      /\ writer' \in {writer, None} \/ (writer' = c /\ In(c, "initWriter"))
  BY DEF Accept, Refused, Serve, ReadEnds, Cancel, TakeManager, InitReader,
         InitWriter, InitRpc, LockReader, Receive, Handle, Teardown, DropReader,
         DropWriter, DropRpc, DropPending, Halves
<1> QED BY <1>1, <1>3, <1>4, <1>5, <1>6
        DEF Life, LTypeOK, MainTypes, HalfTypes, In, Before

LEMMA OrderAuthenticated ==
    ASSUME LTypeOK, Queued, Life, NEW c \in Conn, Authenticated(c)
    PROVE  Queued' /\ Life'
<1> USE Nobody DEF LTypeOK
<1>1. /\ ready \in Seq(Conn) /\ ready' = Append(ready, c) /\ Len(ready) \in Nat
      /\ In(c, "shaking") /\ In(c, "ready")'
      /\ conn'[c].aborted = conn[c].aborted
      /\ \A d \in Conn : d # c => conn'[d] = conn[d]
  BY GoToFact DEF Authenticated, MainTypes, ConnPC, In
<1>2. /\ Len(ready') = Len(ready) + 1 /\ ready'[Len(ready) + 1] = c
      /\ \A i \in 1..Len(ready) : ready'[i] = ready[i]
  BY <1>1
<1>3. \A i \in 1..Len(ready) : ready[i] \in Conn /\ ready[i] # c
  BY <1>1 DEF Queued, In
<1>4. Queued'
  <2> SUFFICES ASSUME NEW i \in 1..Len(ready')
               PROVE  /\ In(ready[i], "ready")'
                      /\ \A j \in 1..Len(ready') : i # j => ready'[i] # ready'[j]
    BY DEF Queued
  <2>1. i \in 1..Len(ready) \/ i = Len(ready) + 1
    BY <1>1, <1>2
  <2>2. In(ready[i], "ready")'
    BY <1>1, <1>2, <1>3, <2>1 DEF Queued, In
  <2>3. ASSUME NEW j \in 1..Len(ready'), i # j PROVE ready'[i] # ready'[j]
    <3>1. j \in 1..Len(ready) \/ j = Len(ready) + 1
      BY <1>1, <1>2
    <3> QED BY <1>2, <1>3, <2>1, <2>3, <3>1 DEF Queued
  <2> QED BY <2>2, <2>3
<1>5. Life'
  <2>1. current' = current /\ reader' = reader /\ writer' = writer
    BY DEF Authenticated, Halves
  <2> QED BY <1>1, <2>1 DEF Life, Before, In, MainTypes, HalfTypes
<1> QED BY <1>4, <1>5

LEMMA OrderTakeOver ==
    ASSUME LTypeOK, Queued, Life, TakeOver
    PROVE  Queued' /\ Life'
<1> USE Nobody DEF LTypeOK
<1> DEFINE h == Head(ready)
<1>1. MainTypes /\ ready # <<>> /\ ready' = Tail(ready) /\ current' = h
  BY DEF TakeOver
<1>2. /\ h \in Conn /\ In(h, "ready") /\ Len(ready') = Len(ready) - 1
      /\ \A i \in 1..Len(ready') : ready'[i] = ready[i + 1] /\ ready'[i] # h
  BY <1>1, QueueFact
<1>3. /\ conn'[h].pc = "starting"
      /\ \A d \in Conn : d # h => conn'[d].pc = conn[d].pc
      /\ \A d \in Conn : d # h /\ d # current => conn'[d].aborted = conn[d].aborted
      /\ conn'[h].aborted = conn[h].aborted
  BY <1>2 DEF TakeOver, Connection
<1>4. Queued'
  <2>1. Len(ready) \in Nat
    BY <1>1 DEF MainTypes
  <2>2. \A i \in 1..Len(ready') : i + 1 \in 1..Len(ready) /\ ready'[i] \in Conn
    BY <1>1, <1>2, <2>1 DEF MainTypes
  <2>3. \A i \in 1..Len(ready') : conn'[ready'[i]].pc = "ready"
    <3> TAKE i \in 1..Len(ready')
    <3>1. ready'[i] \in Conn /\ ready'[i] # h /\ i + 1 \in 1..Len(ready)
      BY <1>2, <2>2
    <3>2. ready'[i] = ready[i + 1] /\ conn[ready[i + 1]].pc = "ready"
      BY <1>2, <3>1 DEF Queued, In
    <3> QED BY <1>3, <3>1, <3>2
  <2>4. ASSUME NEW i \in 1..Len(ready'), NEW j \in 1..Len(ready'), i # j
        PROVE  ready'[i] # ready'[j]
    <3>1. i + 1 # j + 1
      BY <2>4
    <3> QED BY <1>2, <2>2, <3>1 DEF Queued
  <2> QED BY <2>3, <2>4 DEF Queued, In
<1>5. Life'
  <2>1. reader' = reader /\ writer' = writer
    BY DEF TakeOver, Halves
  <2> QED BY <1>1, <1>2, <1>3, <2>1 DEF Life, Before, In, MainTypes, HalfTypes
<1> QED BY <1>4, <1>5

-----------------------------------------------------------------------------
(* Generations.                                                            *)

(* Whoever installs or takes down holds MANAGER_LOCK.                      *)
ManagerHeld ==
    \A c \in Conn : manager = c <=> conn[c].pc \in InitPC \cup DisposePC

Counted == \A c \in Conn : conn[c].gen <= generation

LInv == LTypeOK /\ Queued /\ Life /\ ManagerHeld /\ Counted /\ NewerLinkKept

LEMMA GenerationInit == LInit => ManagerHeld /\ Counted /\ NewerLinkKept
  BY Nobody DEF LInit, ManagerHeld, Counted, NewerLinkKept, InitPC, DisposePC

LEMMA ManagerConn ==
    ASSUME LTypeOK, Queued, Life, ManagerHeld, NEW c \in Conn,
           Accept(c) \/ Refused(c) \/ Serve(c) \/ ReadEnds(c) \/ Cancel(c)
    PROVE  ManagerHeld'
<1> USE Nobody DEF LTypeOK
<1>1. \A d \in Conn : d # c => conn'[d] = conn[d]
  BY ConnStep
<1>2. CASE /\ conn[c].pc \in InitPC \cup DisposePC
           /\ conn'[c].pc \in InitPC \cup DisposePC /\ manager' = manager
  BY <1>1, <1>2 DEF ManagerHeld
<1>3. CASE /\ conn[c].pc \notin InitPC \cup DisposePC
           /\ conn'[c].pc \notin InitPC \cup DisposePC /\ manager' = manager
  BY <1>1, <1>3 DEF ManagerHeld
<1>4. CASE conn'[c].pc \in InitPC \cup DisposePC /\ manager = None /\ manager' = c
  BY <1>1, <1>4 DEF ManagerHeld
<1>5. CASE /\ conn[c].pc \in InitPC \cup DisposePC /\ manager' = None
           /\ conn'[c].pc \notin InitPC \cup DisposePC
  BY <1>1, <1>5 DEF ManagerHeld
<1> USE DEF InitPC, DisposePC, ServingPC, ConnPC, In
<1>a. CASE Accept(c) \/ Refused(c)
  BY <1>a, <1>3, GoToFact DEF Accept, Refused, Locks
<1>b. CASE TakeManager(c)
  BY <1>b, <1>4, GoToFact DEF TakeManager
<1>c. CASE InitReader(c) \/ InitWriter(c)
  BY <1>c, <1>2, GoToFact DEF InitReader, InitWriter, Locks
<1>d. CASE InitRpc(c)
  BY <1>d, <1>5, GoToFact DEF InitRpc
<1>e. CASE LockReader(c) \/ ReadEnds(c)
  BY <1>e, <1>3, GoToFact DEF LockReader, ReadEnds
<1>f. CASE Receive(c) \/ Handle(c)
  <2>1. conn'[c].pc \in {"handling", "locking"} /\ manager' = manager
    <3>1. conn \in [Conn -> Connection]
      OBVIOUS
    <3>2. CASE Receive(c)
      BY <3>1, <3>2 DEF Receive
    <3>3. CASE Handle(c)
      BY <3>1, <3>3 DEF Handle, Locks
    <3> QED BY <1>f, <3>2, <3>3
  <2>2. conn[c].pc \in {"reading", "handling"}
    BY <1>f DEF Receive, Handle
  <2> QED BY <2>1, <2>2, <1>3
<1>g. CASE Teardown(c)
  BY <1>g, <1>3, <1>4, GoToFact DEF Teardown
<1>h. CASE DropReader(c) \/ DropWriter(c) \/ DropRpc(c)
  BY <1>h, <1>2, GoToFact DEF DropReader, DropWriter, DropRpc, Locks
<1>i. CASE DropPending(c)
  BY <1>i, <1>5, GoToFact DEF DropPending
<1>j. CASE Cancel(c)
  <2>1. conn'[c].pc = "ended"
    BY <1>j DEF Cancel
  <2> QED BY <1>j, <2>1, <1>3, <1>5 DEF Cancel, ManagerHeld
<1> QED BY <1>a, <1>b, <1>c, <1>d, <1>e, <1>f, <1>g, <1>h, <1>i, <1>j DEF Serve

(* What is installed changes only in the hands of the manager.             *)
LEMMA HalvesConn ==
    ASSUME LTypeOK, ManagerHeld, NEW c \in Conn,
           Accept(c) \/ Refused(c) \/ Serve(c) \/ ReadEnds(c) \/ Cancel(c)
    PROVE  /\ reader' # reader =>
                 \/ In(c, "initReader") /\ In(c, "initWriter")' /\ reader' = c
                 \/ conn[c].pc \in DisposePC /\ reader' = None
           /\ writer' # writer =>
                 \/ In(c, "initWriter") /\ In(c, "initRpc")' /\ writer' = c
                 \/ conn[c].pc \in DisposePC /\ writer' = None
           /\ connected' # connected =>
                 \/ connected' \/ conn[c].pc \in DisposePC
<1> USE DEF LTypeOK, In, DisposePC
<1>1. CASE Accept(c) \/ Refused(c) \/ LockReader(c) \/ ReadEnds(c) \/ Receive(c)
           \/ Handle(c) \/ Teardown(c) \/ DropPending(c) \/ TakeManager(c)
           \/ Cancel(c)
  <2>1. UNCHANGED Halves
    BY <1>1 DEF Accept, Refused, LockReader, ReadEnds, Receive, Handle, Teardown,
                DropPending, TakeManager, Cancel, Halves
  <2> QED BY <2>1 DEF Halves
<1>2. CASE InitReader(c)
  BY <1>2, GoToFact DEF InitReader, ConnPC, InitPC
<1>3. CASE InitWriter(c)
  BY <1>3, GoToFact DEF InitWriter, ConnPC, InitPC
<1>4. CASE InitRpc(c)
  BY <1>4 DEF InitRpc
<1>5. CASE DropReader(c) \/ DropWriter(c) \/ DropRpc(c)
  BY <1>5 DEF DropReader, DropWriter, DropRpc
<1> QED BY <1>1, <1>2, <1>3, <1>4, <1>5 DEF Serve

LEMMA NewerConn ==
    ASSUME LInv, NEW c \in Conn,
           Accept(c) \/ Refused(c) \/ Serve(c) \/ ReadEnds(c) \/ Cancel(c)
    PROVE  Counted' /\ NewerLinkKept'
<1> USE Nobody DEF LInv, LTypeOK
<1>1. /\ generation' = generation
      /\ \A d \in Conn : conn'[d].gen = conn[d].gen
      /\ \A d \in Conn : d # c => conn'[d] = conn[d]
  BY ConnStep DEF Main
<1>2. ASSUME NEW d \in Conn, conn'[d].pc \in DisposePC,
             NEW s \in {reader', writer'} \ {None}
      PROVE  conn'[s].gen <= conn'[d].gen
  <2>1. s \in Conn /\ conn[s].gen \in Nat /\ conn[d].gen \in Nat /\ generation \in Nat
    BY LTypesConn DEF HalfTypes, MainTypes, Connection
  <2>2. CASE conn[d].pc \in DisposePC
    <3>1. s \in {reader, writer}
      <4>1. conn[c].pc \in InitPC \cup DisposePC => c = d
        BY <2>2 DEF ManagerHeld
      <4>2. d = c => conn[c].pc \notin InitPC
        BY <2>2 DEF InitPC, DisposePC
      <4> QED BY <4>1, <4>2, HalvesConn DEF In, InitPC
    <3> QED BY <1>1, <2>1, <2>2, <3>1 DEF NewerLinkKept
  <2>3. CASE conn[d].pc \notin DisposePC
    <3>1. d = c
      BY <1>1, <1>2, <2>3
    <3>2. conn[c].gen = generation
      <4>1. Teardown(c) \/ ~Teardown(c)
        OBVIOUS
      <4>2. CASE Teardown(c)
        <5>1. CASE GoTo(c, "ended")
          BY <1>2, <3>1, <5>1, GoToFact DEF ConnPC, DisposePC
        <5>2. CASE conn[c].gen = generation
          BY <5>2
        <5> QED BY <4>2, <5>1, <5>2 DEF Teardown
      <4>3. CASE ~Teardown(c)
        <5> USE DEF ConnPC, InitPC, ServingPC, DisposePC, In
        <5>1. CASE Receive(c) \/ Handle(c) \/ Cancel(c)
          <6>1. conn'[c].pc \in {"handling", "locking", "ended"}
            BY <5>1, LoopFact
          <6> QED BY <1>2, <3>1, <6>1
        <5>2. CASE Accept(c) \/ Refused(c) \/ TakeManager(c) \/ InitReader(c)
                   \/ InitWriter(c) \/ InitRpc(c) \/ LockReader(c) \/ ReadEnds(c)
          BY <1>2, <3>1, <5>2, GoToFact
          DEF Accept, Refused, TakeManager, InitReader, InitWriter, InitRpc,
              LockReader, ReadEnds
        <5>3. CASE DropReader(c) \/ DropWriter(c) \/ DropRpc(c) \/ DropPending(c)
          BY <2>3, <3>1, <5>3 DEF DropReader, DropWriter, DropRpc, DropPending
        <5> QED BY <4>3, <5>1, <5>2, <5>3 DEF Serve
      <4> QED BY <4>1, <4>2, <4>3
    <3> QED BY <1>1, <2>1, <3>1, <3>2 DEF Counted
  <2> QED BY <2>2, <2>3
<1> QED BY <1>1, <1>2 DEF Counted, NewerLinkKept

LEMMA NewerTakeOver ==
    ASSUME LInv, TakeOver
    PROVE  ManagerHeld' /\ Counted' /\ NewerLinkKept'
<1> USE Nobody DEF LInv, LTypeOK
<1> DEFINE h == Head(ready)
<1>1. h \in Conn /\ In(h, "ready") /\ generation \in Nat
  BY QueueFact DEF TakeOver, MainTypes
<1>2. /\ conn'[h].pc = "starting" /\ conn'[h].gen = generation + 1
      /\ \A d \in Conn : d # h => conn'[d].pc = conn[d].pc /\ conn'[d].gen = conn[d].gen
      /\ generation' = generation + 1
      /\ UNCHANGED <<manager, reader, writer>>
  BY <1>1 DEF TakeOver, Connection, Locks, Halves
<1>3. ManagerHeld'
  BY <1>1, <1>2 DEF ManagerHeld, In, InitPC, DisposePC
<1>4. Counted'
  BY <1>1, <1>2 DEF Counted, Connection
<1>5. NewerLinkKept'
  <2>1. \A s \in {reader, writer} \ {None} : s \in Conn /\ s # h
    BY <1>1 DEF Life, In, Before, HalfTypes
  <2> QED BY <1>2, <2>1 DEF NewerLinkKept, DisposePC
<1> QED BY <1>3, <1>4, <1>5

(* A call's step touches no connection and nothing that is installed.      *)
LEMMA CallStepKeeps ==
    ASSUME NEW k \in Caller, CallStep(k) \/ CancelCall(k) \/ Answer(k)
    PROVE  UNCHANGED <<generation, current, ready, conn, manager, reader, writer,
                       connected>>
  BY DEF CallStep, StartCall, LockWriter, Written, Register, Return, TimesOut,
         CancelCall, Answer, Main, Halves, Locks

LEMMA AllOverKeeps == AllOver => UNCHANGED lvars
  BY DEF AllOver

LEMMA LInvInit == LInit => LInv
  BY LTypesInit, OrderInit, GenerationInit DEF LInv

LEMMA LInvNext == LInv /\ [LNext]_lvars => LInv'
<1> SUFFICES ASSUME LInv, [LNext]_lvars PROVE LInv'
  OBVIOUS
<1> USE DEF LInv
<1>1. ASSUME NEW c \in Conn,
             Accept(c) \/ Refused(c) \/ Serve(c) \/ ReadEnds(c) \/ Cancel(c)
      PROVE  LInv'
  BY <1>1, LTypesConn, OrderConn, ManagerConn, NewerConn
<1>2. ASSUME NEW c \in Conn, Authenticated(c) PROVE LInv'
  <2>1. LTypeOK' /\ Queued' /\ Life'
    BY <1>2, LTypesConn, OrderAuthenticated
  <2>2. /\ \A d \in Conn : d # c => conn'[d] = conn[d]
        /\ conn[c].pc = "shaking" /\ conn'[c].pc = "ready"
        /\ conn'[c].gen = conn[c].gen
        /\ UNCHANGED <<generation, manager, reader, writer>>
    BY <1>2, GoToFact DEF Authenticated, ConnPC, In, LTypeOK, Locks, Halves
  <2>3. ManagerHeld' /\ Counted' /\ NewerLinkKept'
    BY <2>2 DEF ManagerHeld, Counted, NewerLinkKept, InitPC, DisposePC, LTypeOK,
                HalfTypes
  <2> QED BY <2>1, <2>3
<1>3. CASE TakeOver
  BY <1>3, LTypesTakeOver, OrderTakeOver, NewerTakeOver
<1>4. ASSUME UNCHANGED <<generation, current, ready, conn, manager, reader, writer>>,
             LTypeOK'
      PROVE  LInv'
  BY <1>4 DEF Queued, Life, ManagerHeld, Counted, NewerLinkKept, In
<1>5. ASSUME NEW k \in Caller, CallStep(k) \/ CancelCall(k) \/ Answer(k) PROVE LInv'
  BY <1>4, <1>5, LTypesCall, CallStepKeeps
<1>6. CASE UNCHANGED lvars
  <2>1. LTypeOK'
    BY <1>6 DEF lvars, LTypeOK, MainTypes, HalfTypes, LockTypes, CallTypes, ReaderHeld, In
  <2> QED BY <1>4, <1>6, <2>1 DEF lvars
<1> QED BY <1>1, <1>2, <1>3, <1>5, <1>6, AllOverKeeps DEF LNext

LEMMA LinkInvariant == LSpec => []LInv
  BY LInvInit, LInvNext, PTL DEF LSpec

(* Type correctness of the link, the mutex of the read half included, for  *)
(* any number of connections and calls.                                    *)
THEOREM LTyped == LSpec => []LTypeOK
<1>1. LInv => LTypeOK
  BY DEF LInv
<1> QED BY LinkInvariant, <1>1, PTL

(* Taking down spares the newer connection (server.rs 28-31, 258-272): no  *)
(* interleaving of an ending and a takeover makes a connection dispose of  *)
(* the halves of a newer one.                                              *)
THEOREM NewerSpared == LSpec => []NewerLinkKept
<1>1. LInv => NewerLinkKept
  BY DEF LInv
<1> QED BY LinkInvariant, <1>1, PTL

-----------------------------------------------------------------------------
(* Entries of pending_requests.                                            *)

(* A call has no reply before it has an entry, and none while it has one.  *)
Entries ==
    /\ PendingAccounted
    /\ \A k \in Caller : call[k].pc \in {"idle", "writing", "sending", "sent"}
          => call[k].reply = "none"

LEMMA EntriesCall ==
    ASSUME CallTypes, Entries, NEW k \in Caller,
           CallStep(k) \/ CancelCall(k) \/ Answer(k)
    PROVE  Entries'
<1> USE DEF Entries, PendingAccounted, CallAt
<1>1. CASE StartCall(k)
  BY <1>1, CallFact DEF StartCall, CallPC, CallTypes
<1>2. CASE LockWriter(k)
  <2>1. /\ \A j \in Caller : call'[j].reply = call[j].reply
        /\ \A j \in Caller : j # k => call'[j] = call[j]
        /\ call'[k].pc \in {"sending", "failed"} /\ call[k].pc = "writing"
        /\ pending' = pending
    <3>1. CASE writer = None
      BY <1>2, <3>1, CallFact DEF LockWriter, CallPC
    <3>2. CASE writer # None
      <4>1. call' = [call EXCEPT ![k].pc = "sending", ![k].via = writer]
        BY <1>2, <3>2 DEF LockWriter
      <4> QED BY <1>2, <4>1 DEF LockWriter, CallTypes, RemoteCall
    <3> QED BY <3>1, <3>2
  <2> QED BY <2>1 DEF CallTypes
<1>3. CASE Written(k)
  BY <1>3, CallFact DEF Written, CallPC, CallTypes
<1>4. CASE Register(k)
  BY <1>4, CallFact DEF Register, CallPC, CallTypes
<1>5. CASE Return(k)
  BY <1>5, CallFact DEF Return, CallPC, CallTypes
<1>6. CASE TimesOut(k)
  BY <1>6, CallFact DEF TimesOut, CallPC, CallTypes
<1>7. CASE CancelCall(k)
  <2>1. /\ call'[k].pc = "cancelled" /\ call'[k].reply = call[k].reply
        /\ \A j \in Caller : j # k => call'[j] = call[j]
        /\ pending' = pending
    BY <1>7, CallFact DEF CancelCall, CallPC
  <2> QED BY <2>1 DEF CallTypes
<1>8. CASE Answer(k)
  <2>1. /\ \A j \in Caller : call'[j].pc = call[j].pc /\ call'[j].reply = call[j].reply
        /\ pending' = pending
    BY <1>8 DEF Answer, CallTypes, RemoteCall
  <2> QED BY <2>1 DEF CallTypes
<1> QED BY <1>1, <1>2, <1>3, <1>4, <1>5, <1>6, <1>7, <1>8 DEF CallStep

LEMMA EntriesConn ==
    ASSUME CallTypes, Entries, NEW c \in Conn, Handle(c) \/ DropPending(c)
    PROVE  Entries'
<1>1. /\ \A k \in Caller : call'[k].pc = call[k].pc
      /\ \A k \in Caller : k \notin pending => call'[k].reply = call[k].reply
      /\ \A k \in pending' : k \in pending /\ call'[k].reply = call[k].reply
  <2>1. CASE Handle(c)
    BY <2>1 DEF Handle, CallTypes, RemoteCall
  <2>2. CASE DropPending(c)
    BY <2>2 DEF DropPending, CallTypes, RemoteCall
  <2> QED BY <2>1, <2>2
<1> QED BY <1>1 DEF Entries, PendingAccounted, CallAt, CallTypes

LEMMA EntriesNext == LTypeOK /\ Entries /\ [LNext]_lvars => Entries'
<1> SUFFICES ASSUME LTypeOK, Entries, [LNext]_lvars PROVE Entries'
  OBVIOUS
<1> USE DEF LTypeOK
<1>1. ASSUME UNCHANGED <<pending, call>> PROVE Entries'
  BY <1>1 DEF Entries, PendingAccounted, CallAt
<1>2. ASSUME NEW c \in Conn,
             Accept(c) \/ Refused(c) \/ Authenticated(c) \/ Serve(c)
                 \/ ReadEnds(c) \/ Cancel(c)
      PROVE  Entries'
  <2>1. CASE Handle(c) \/ DropPending(c)
    BY <2>1, EntriesConn
  <2>2. CASE ~(Handle(c) \/ DropPending(c))
    BY <1>1, <1>2, <2>2
    DEF Accept, Refused, Authenticated, Serve, ReadEnds, Cancel, TakeManager,
        InitReader, InitWriter, InitRpc, LockReader, Receive, Teardown,
        DropReader, DropWriter, DropRpc, Calls
  <2> QED BY <2>1, <2>2
<1>3. CASE TakeOver \/ UNCHANGED lvars
  BY <1>1, <1>3 DEF TakeOver, lvars, Calls
<1>4. ASSUME NEW k \in Caller, CallStep(k) \/ CancelCall(k) \/ Answer(k)
      PROVE  Entries'
  BY <1>4, EntriesCall
<1> QED BY <1>2, <1>3, <1>4, AllOverKeeps DEF LNext

(* The table of pending calls holds no entry of a call that has returned,  *)
(* timed out or failed (rpc.rs 125-139): only calls that wait for their    *)
(* reply and announcements aborted while they waited.                      *)
THEOREM NoStaleEntry == LSpec => []PendingAccounted
<1>1. LInit => Entries
  BY DEF LInit, Entries, PendingAccounted
<1>2. LInv => LTypeOK
  BY DEF LInv
<1>3. Entries => PendingAccounted
  BY DEF Entries
<1> QED BY <1>1, <1>2, <1>3, EntriesNext, LinkInvariant, PTL DEF LSpec

-----------------------------------------------------------------------------
(* Who waits for whom.                                                     *)

(* Of those that have taken over, only the last has not been aborted.      *)
OthersAborted ==
    \A c \in Conn : conn[c].pc \notin Before \cup {"ended"} /\ c # current
        => conn[c].aborted

LEMMA AbortedConn ==
    ASSUME LInv, OthersAborted, NEW c \in Conn,
           Accept(c) \/ Refused(c) \/ Serve(c) \/ ReadEnds(c) \/ Cancel(c)
    PROVE  OthersAborted'
<1> USE DEF LInv
<1>1. /\ current' = current
      /\ \A d \in Conn : d # c => conn'[d] = conn[d]
      /\ conn'[c].aborted = conn[c].aborted
  BY ConnStep DEF Main
<1>2. conn'[c].pc \notin Before \cup {"ended"} => conn[c].pc \notin Before \cup {"ended"}
  <2>1. CASE Accept(c) \/ Refused(c)
    BY <2>1, GoToFact DEF Accept, Refused, ConnPC, Before, In, LTypeOK
  <2>2. CASE ReadEnds(c) \/ Serve(c)
    BY <2>2
    DEF ReadEnds, Serve, TakeManager, InitReader, InitWriter, InitRpc, LockReader,
        Receive, Handle, Teardown, DropReader, DropWriter, DropRpc, DropPending,
        Before, In
  <2>3. CASE Cancel(c)
    BY <2>3 DEF Cancel, LTypeOK, Connection
  <2> QED BY <2>1, <2>2, <2>3
<1> QED BY <1>1, <1>2 DEF OthersAborted

LEMMA AbortedNext == LInv /\ OthersAborted /\ [LNext]_lvars => OthersAborted'
<1> SUFFICES ASSUME LInv, OthersAborted, [LNext]_lvars PROVE OthersAborted'
  OBVIOUS
<1> USE DEF LInv
<1>1. ASSUME UNCHANGED <<conn, current>> PROVE OthersAborted'
  BY <1>1 DEF OthersAborted
<1>2. ASSUME NEW c \in Conn, Authenticated(c) PROVE OthersAborted'
  <2>1. /\ \A d \in Conn : d # c => conn'[d] = conn[d]
        /\ conn'[c].pc = "ready" /\ UNCHANGED current
    BY <1>2, GoToFact DEF Authenticated, ConnPC, LTypeOK
  <2> QED BY <2>1 DEF OthersAborted, Before
<1>3. CASE TakeOver
  <2> DEFINE h == Head(ready)
  <2>1. h \in Conn /\ current' = h
    BY <1>3, QueueFact DEF TakeOver, LTypeOK
  <2>2. /\ \A d \in Conn : d # h => conn'[d].pc = conn[d].pc
        /\ \A d \in Conn : d # h /\ d = current => conn'[d].aborted
        /\ \A d \in Conn : d # h /\ d # current => conn'[d] = conn[d]
    BY <1>3, <2>1 DEF TakeOver, LTypeOK, Connection
  <2> QED BY <2>1, <2>2 DEF OthersAborted
<1>4. ASSUME NEW k \in Caller, CallStep(k) \/ CancelCall(k) \/ Answer(k) PROVE OthersAborted'
  BY <1>1, <1>4, CallStepKeeps
<1>5. CASE UNCHANGED lvars
  BY <1>1, <1>5 DEF lvars
<1> QED BY <1>2, <1>3, <1>4, <1>5, AbortedConn, AllOverKeeps DEF LNext

LEMMA AbortedAlways == LSpec => []OthersAborted
<1>1. LInit => OthersAborted
  BY DEF LInit, OthersAborted, Before
<1> QED BY <1>1, AbortedNext, LinkInvariant, PTL DEF LSpec

(* Who has the write mutex is writing.                                     *)
WriterHeld == writing # None => CallAt(writing, "sending")

LEMMA WriterNext == LTypeOK /\ WriterHeld /\ [LNext]_lvars => WriterHeld'
<1> SUFFICES ASSUME LTypeOK, WriterHeld, [LNext]_lvars PROVE WriterHeld'
  OBVIOUS
<1>0. /\ call \in [Caller -> RemoteCall] /\ CallTypes /\ writing \in Caller \cup {None}
      /\ None \notin Caller
  BY Nobody DEF LTypeOK, CallTypes, LockTypes
<1> USE DEF WriterHeld, CallAt
<1>1. ASSUME NEW k \in Caller, StartCall(k) \/ Register(k) \/ Return(k) \/ TimesOut(k)
      PROVE  WriterHeld'
  <2>1. /\ call[k].pc # "sending" /\ writing' = writing
        /\ \A j \in Caller : j # k => call'[j] = call[j]
    BY <1>0, <1>1 DEF StartCall, Register, Return, TimesOut, CallGoesTo, Locks
  <2> QED BY <1>0, <2>1
<1>2. ASSUME NEW k \in Caller, LockWriter(k) \/ Written(k) PROVE WriterHeld'
  BY <1>0, <1>2 DEF LockWriter, Written, CallGoesTo, RemoteCall
<1>3. ASSUME NEW k \in Caller, CancelCall(k) PROVE WriterHeld'
  BY <1>0, <1>3 DEF CancelCall, CallGoesTo
<1>4. ASSUME NEW k \in Caller, Answer(k) PROVE WriterHeld'
  BY <1>0, <1>4 DEF Answer, RemoteCall, Locks
<1>5. ASSUME NEW c \in Conn, Accept(c) \/ Refused(c) \/ Authenticated(c) \/ Serve(c)
                             \/ ReadEnds(c) \/ Cancel(c)
      PROVE  WriterHeld'
  <2>1. writing' = writing /\ \A k \in Caller : call'[k].pc = call[k].pc
    BY <1>0, <1>5
    DEF Accept, Refused, Authenticated, ReadEnds, Serve, TakeManager, InitReader, InitWriter,
        InitRpc, LockReader, Receive, Handle, Teardown, DropReader, DropWriter, DropRpc,
        DropPending, Cancel, Locks, Calls, RemoteCall
  <2> QED BY <1>0, <2>1
<1>6. CASE TakeOver \/ AllOver \/ UNCHANGED lvars
  BY <1>6, AllOverKeeps DEF TakeOver, lvars, Locks, Calls
<1> QED BY <1>1, <1>2, <1>3, <1>4, <1>5, <1>6 DEF LNext, CallStep

(* Who stands in the way of a connection has been aborted (server.rs       *)
(* 158-160): with the locks given back by an abort, and the order in which *)
(* they are taken, no cycle of waiting can close, lingering tasks or not.  *)
THEOREM NoDeadlock == LSpec => []NobodyInTheWay
<1>1. LInv /\ OthersAborted /\ WriterHeld => NobodyInTheWay
  <2> SUFFICES ASSUME LInv, OthersAborted, WriterHeld,
                      NEW c \in Conn, NEW d \in Conn, Awaits(c, d), ~conn[c].aborted
               PROVE  conn[d].aborted
    BY DEF NobodyInTheWay, WriterHeld
  <2> USE DEF LInv
  <2>1. c = current
    BY DEF Awaits, OthersAborted, Before
  <2>2. CASE manager = d /\ conn[c].pc \in {"starting", "closing"}
    <3>1. conn[d].pc \in InitPC \cup DisposePC
      BY <2>2 DEF ManagerHeld
    <3> QED BY <2>1, <2>2, <3>1 DEF OthersAborted, InitPC, DisposePC, Before
  <2>3. CASE reading = d /\ conn[c].pc \in {"initReader", "locking", "dropReader"}
    <3>1. conn[d].pc = "reading"
      BY <2>3 DEF LTypeOK, ReaderHeld, In
    <3> QED BY <2>1, <2>3, <3>1 DEF OthersAborted, Before
  <2> QED BY <2>2, <2>3 DEF Awaits
<1>2. LInit => WriterHeld
  BY DEF LInit, WriterHeld
<1>3. LInv => LTypeOK
  BY DEF LInv
<1> QED BY <1>1, <1>2, <1>3, WriterNext, AbortedAlways, LinkInvariant, PTL DEF LSpec

-----------------------------------------------------------------------------
(* The limiter of the frames a connection reads (FrameLimiter): the token  *)
(* bucket keeps its bound for every capacity, rate and set of frame sizes, *)
(* over windows of any length.                                             *)

(* What a frame arriving now may still use of the bucket, and what has     *)
(* been used in the window, together stay within the bound: RecordBounded  *)
(* alone is not inductive, as it does not say what the bucket still holds. *)
Budget == Refilled + passed <= Capacity + Rate * window

LEMMA AtMostFact ==
    ASSUME NEW a \in Nat, NEW b \in Nat
    PROVE  /\ AtMost(a, b) \in Nat /\ AtMost(a, b) <= a /\ AtMost(a, b) <= b
           /\ AtMost(a, b) = a \/ AtMost(a, b) = b
  BY DEF AtMost

LEMMA Products ==
    ASSUME NEW t \in Nat
    PROVE  /\ t * Rate \in Nat /\ Rate * t \in Nat
           /\ (t + 1) * Rate = t * Rate + Rate /\ Rate * (t + 1) = Rate * t + Rate
           /\ 0 * Rate = 0 /\ Rate * 0 = 0
  BY LimiterAssumption

LEMMA Within ==
    ASSUME NEW r \in Nat, NEW t \in Nat, NEW q \in Nat, NEW s \in Nat, NEW b \in Nat,
           r <= t, t + q = s, s <= b
    PROVE  r + q <= b
  OBVIOUS

LEMMA AnyRefill ==
    ASSUME NEW t \in Nat, NEW l \in Nat
    PROVE  /\ AtMost(t + l * Rate, Capacity) \in Nat
           /\ AtMost(t + l * Rate, Capacity) <= Capacity
           /\ AtMost(t + l * Rate, Capacity) <= t + l * Rate
<1>1. t + l * Rate \in Nat /\ Capacity \in Nat
  BY Products, LimiterAssumption
<1> QED BY <1>1, AtMostFact

LEMMA RefilledFact ==
    ASSUME FTypeOK
    PROVE  Refilled \in Nat /\ Refilled <= Capacity
<1>1. tokens \in Nat /\ lag \in Nat
  BY LimiterAssumption DEF FTypeOK
<1> QED BY <1>1, AnyRefill DEF Refilled

LEMMA FInitial == FInit => FTypeOK /\ Budget
<1> SUFFICES ASSUME FInit PROVE FTypeOK /\ Budget
  OBVIOUS
<1>1. FTypeOK
  BY LimiterAssumption DEF FInit, FTypeOK
<1>2. Budget
  <2>1. Rate * window = 0 /\ passed = 0 /\ Capacity \in Nat
    <3>1. Rate * 0 = 0
      BY Products
    <3> QED BY <3>1, LimiterAssumption DEF FInit
  <2>2. Refilled \in Nat /\ Refilled <= Capacity
    BY <1>1, RefilledFact
  <2> QED BY <2>1, <2>2 DEF Budget
<1> QED BY <1>1, <1>2

LEMMA FTypesNext == FTypeOK /\ [FNext]_fvars => FTypeOK'
<1> SUFFICES ASSUME FTypeOK, [FNext]_fvars PROVE FTypeOK'
  OBVIOUS
<1>1. CASE Tick
  BY <1>1, LimiterAssumption DEF Tick, FTypeOK
<1>2. CASE Mark
  BY <1>2, LimiterAssumption DEF Mark, FTypeOK
<1>6. CASE Reconnect
  BY <1>6, LimiterAssumption DEF Reconnect, FTypeOK
<1>7. CASE UNCHANGED fvars
  BY <1>7 DEF fvars, FTypeOK
<1>3. Violated => violations' \in 0..MaxViolations
  BY AtMostFact, LimiterAssumption DEF Violated, FTypeOK
<1>4. CASE TooLong
  BY <1>3, <1>4 DEF TooLong, FTypeOK
<1>5. CASE RecordFrame
  <2>1. PICK n \in Size :
            \/ /\ n <= Refilled
               /\ tokens' = Refilled - n /\ passed' = passed + n
               /\ UNCHANGED violations
            \/ /\ n > Refilled
               /\ tokens' = Refilled /\ Violated
               /\ UNCHANGED passed
    BY <1>5 DEF RecordFrame
  <2>2. n \in Nat /\ Refilled \in Nat /\ Refilled <= Capacity
    BY RefilledFact, LimiterAssumption
  <2>3. tokens' \in 0..Capacity /\ passed' \in Nat
    BY <2>1, <2>2, LimiterAssumption DEF FTypeOK
  <2>4. violations' \in 0..MaxViolations
    BY <2>1, <1>3 DEF FTypeOK
  <2> QED BY <1>5, <2>3, <2>4, LimiterAssumption DEF RecordFrame, FTypeOK
<1> QED BY <1>1, <1>2, <1>4, <1>5, <1>6, <1>7 DEF FNext

LEMMA BudgetNext == FTypeOK /\ Budget /\ [FNext]_fvars => Budget'
<1> SUFFICES ASSUME FTypeOK, Budget, [FNext]_fvars PROVE Budget'
  OBVIOUS
<1>1. /\ tokens \in Nat /\ lag \in Nat /\ window \in Nat /\ passed \in Nat
      /\ Capacity \in Nat /\ Rate \in Nat /\ Refilled \in Nat /\ Refilled <= Capacity
  BY RefilledFact, LimiterAssumption DEF FTypeOK
<1>2. FTypeOK' /\ Refilled' \in Nat /\ Refilled' <= Capacity
  <2>1. FTypeOK'
    BY FTypesNext
  <2>2. tokens' \in Nat /\ lag' \in Nat
    BY <2>1, LimiterAssumption DEF FTypeOK
  <2> QED BY <2>1, <2>2, AnyRefill DEF Refilled
<1>3. CASE Tick
  <2>1. /\ tokens' + lag' * Rate = tokens + lag * Rate + Rate
        /\ lag * Rate \in Nat /\ Rate * window \in Nat
        /\ Rate * window' = Rate * window + Rate /\ passed' = passed
    BY <1>1, <1>3, Products DEF Tick
  <2>2. Refilled' <= Refilled + Rate
    BY <1>1, <2>1 DEF Refilled, AtMost
  <2> QED BY <1>1, <1>2, <2>1, <2>2 DEF Budget
<1>4. CASE Mark \/ Reconnect
  <2>1. Rate * window' = 0 /\ passed' = 0
    BY <1>1, <1>4 DEF Mark, Reconnect
  <2> QED BY <1>1, <1>2, <2>1 DEF Budget
<1>5. CASE TooLong \/ UNCHANGED fvars
  BY <1>5 DEF TooLong, fvars, Budget, Refilled
<1>6. CASE RecordFrame
  <2>1. PICK n \in Nat :
            \/ /\ n <= Refilled
               /\ tokens' = Refilled - n /\ passed' = passed + n
               /\ UNCHANGED violations
            \/ /\ n > Refilled
               /\ tokens' = Refilled /\ Violated
               /\ UNCHANGED passed
    BY <1>6, LimiterAssumption DEF RecordFrame
  <2>2. n \in Nat /\ tokens' \in Nat /\ passed' \in Nat
    BY <1>2, <2>1, LimiterAssumption DEF FTypeOK
  <2>3. tokens' + passed' = Refilled + passed
    <3>1. \/ n <= Refilled /\ tokens' = Refilled - n /\ passed' = passed + n
          \/ tokens' = Refilled /\ passed' = passed
      BY <2>1
    <3>2. Refilled \in Nat /\ passed \in Nat
      BY <1>1
    <3>3. CASE n <= Refilled /\ tokens' = Refilled - n /\ passed' = passed + n
      <4>1. tokens' + n = Refilled
        BY <2>2, <3>2, <3>3
      <4>2. tokens' + (passed + n) = (tokens' + n) + passed
        BY <2>2, <3>2
      <4> QED BY <3>3, <4>1, <4>2
    <3>4. CASE tokens' = Refilled /\ passed' = passed
      BY <3>4
    <3> QED BY <3>1, <3>3, <3>4
  <2>4. Refilled' <= tokens'
    <3>1. lag' * Rate = 0
      <4>1. lag' = 0
        BY <1>6 DEF RecordFrame
      <4>2. 0 * Rate = 0
        BY Products
      <4> QED BY <4>1, <4>2
    <3>2. tokens' + lag' * Rate = tokens'
      BY <3>1, <2>2
    <3> QED BY <1>1, <2>2, <3>2 DEF Refilled, AtMost
  <2>5. window' = window /\ Rate * window \in Nat
    BY <1>1, <1>6, Products DEF RecordFrame
  <2>6. /\ Refilled + passed \in Nat /\ Capacity + Rate * window' \in Nat
        /\ Refilled + passed <= Capacity + Rate * window'
    BY <1>1, <2>5 DEF Budget
  <2>7. Refilled' + passed' <= Capacity + Rate * window'
    BY <1>2, <2>2, <2>3, <2>4, <2>6, Within
  <2> QED BY <2>7 DEF Budget
<1> QED BY <1>3, <1>4, <1>5, <1>6 DEF FNext

(* The counters of the limiter stay in range: the bucket never holds more  *)
(* than its capacity and never goes below zero (record_tokens is unsigned).*)
THEOREM FTyped == FSpec => []FTypeOK
  BY FInitial, FTypesNext, PTL DEF FSpec

(* Over any window, the audio handed to JavaScript stays within one bucket *)
(* and what the refill adds meanwhile (limits.rs 61-88).                   *)
THEOREM Bounded == FSpec => []RecordBounded
<1>1. FTypeOK /\ Budget => RecordBounded
  <2> SUFFICES ASSUME FTypeOK, Budget PROVE RecordBounded
    OBVIOUS
  <2>1. Refilled \in Nat /\ passed \in Nat /\ Capacity \in Nat /\ Rate * window \in Nat
    BY RefilledFact, Products, LimiterAssumption DEF FTypeOK
  <2> QED BY <2>1 DEF Budget, RecordBounded
<1> QED BY <1>1, FInitial, FTypesNext, BudgetNext, PTL DEF FSpec
=============================================================================
