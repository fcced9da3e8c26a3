-------------------------- MODULE AdminSave_proofs --------------------------
(***************************************************************************)
(* What the configuration page guarantees for any number of requests,      *)
(* derived files, readers and faults.  The invariant says of a save under  *)
(* way which files it has moved already, what it has inherited, and that   *)
(* one that began alone has had no company since.                          *)
(***************************************************************************)
EXTENDS AdminSave, FiniteSetTheorems, TLAPS

-----------------------------------------------------------------------------
(* The invariant.                                                          *)

(* Where a save is, and that it has something to save.                     *)
InPlace(t) ==
    /\ t.pc \in Saving => t.body \in Config
    /\ t.pc = "stage" => t.next = 1
    /\ t.pc = "commit" => t.next \in 1..Len(Walk)
    /\ t.pc = "local" => t.next = Len(Walk) + 1

(* What a save has moved has been there.                                   *)
Moved(t) ==
    t.pc \in Saving =>
        \A i \in 1..Len(Walk) : i < t.next => t.body \in wrote[Walk[i]]

(* What is settled is what every save under way will write.                *)
WillKeep(t) ==
    settled # None /\ t.pc \in Saving =>
        t.body.secret # None /\ Kept(t.body) = settled

(* A save that has been alone so far is alone, and what it moved is there. *)
Alone(p) == req[p].pc \in Saving /\ req[p].alone
LeftAlone(p) ==
    Alone(p) =>
        /\ \A q \in Request : q # p => req[q].pc \notin Saving
        /\ \A i \in 1..Len(Walk) : i < req[p].next => files[Walk[i]] = req[p].body

SavesInv ==
    \A p \in Request : InPlace(req[p]) /\ Moved(req[p]) /\ WillKeep(req[p]) /\ LeftAlone(p)

AInv == ATypeOK /\ PermitsConserved /\ SavesInv /\ InheritedKept /\ CleanSaveAgrees

-----------------------------------------------------------------------------
(* The constants.                                                          *)

LEMMA Apart == None \notin Source /\ Old \in Source /\ Request \subseteq Source
  BY AdminAssumption DEF Source

LEMMA WalkFact ==
    /\ Len(Walk) \in Nat \ {0} /\ Workers \in Nat \ {0} /\ MaxFault \in Nat
    /\ \A i \in 1..Len(Walk) : Walk[i] \in File
    /\ \A f \in File : \E i \in 1..Len(Walk) : f = Walk[i]
    /\ SecretFile \in File
<1>1. Len(Walk) \in Nat /\ SecretFile \in File
  BY AdminAssumption DEF File
<1>2. PICK i \in 1..Len(Walk) : SecretFile = Walk[i]
  BY <1>1 DEF File
<1>3. Len(Walk) # 0
  BY <1>1, <1>2
<1> QED BY <1>1, <1>3, AdminAssumption DEF File

LEMMA Threads ==
    /\ Idle \in Thread /\ Idle.pc = "idle" /\ Done \in Thread /\ Done.pc = "done"
    /\ \A c \in {200, 400, 500} : Reply(c) \in Thread /\ Reply(c).pc = "answer"
<1>1. 0 \in 0..(Len(Walk) + 1)
  BY WalkFact
<1>2. Idle \in Thread /\ Idle.pc = "idle"
  BY <1>1 DEF Idle, Thread
<1>3. Done \in Thread /\ Done.pc = "done"
  BY <1>2 DEF Done, Thread
<1>4. \A c \in {200, 400, 500} : Reply(c) \in Thread /\ Reply(c).pc = "answer"
  BY <1>1 DEF Reply, Thread
<1> QED BY <1>2, <1>3, <1>4

LEMMA Configs ==
    /\ OldConfig \in Config /\ ByHand \in Config
    /\ ByHand.secret = None /\ Kept(OldConfig) = [secret |-> Old, optional |-> Old]
    /\ OldConfig.secret # None
    /\ \A l \in Config : HasSecret(l) =>
          Kept(l) \in [secret : Source, optional : Source \cup {None}]
  BY Apart DEF OldConfig, ByHand, Config, Kept, HasSecret

LEMMA FilledFact ==
    ASSUME NEW p \in Request, NEW kind \in Body, NEW l
    PROVE  /\ Previous(l) \in Config
           /\ Filled(p, kind, Previous(l)) \in Config
           /\ Filled(p, kind, Previous(l)).secret # None
           /\ HasSecret(l) /\ kind # "full" =>
                 Kept(Filled(p, kind, Previous(l))) = Kept(l)
<1>1. Previous(l) \in Config
  BY Configs DEF Previous
<1>2. p \in Source /\ p # None
  BY Apart
<1> QED BY <1>1, <1>2 DEF Previous, Filled, Kept, HasSecret, Config, Body

LEMMA SecretFact ==
    ASSUME NEW l, NEW fs \in [File -> Config \cup {None}]
    PROVE  SecretOf(l, fs) \in Source \cup {None}
  BY WalkFact DEF SecretOf, HasSecret, Config

(* One thread moves to a place where it saves nothing.                     *)
LEMMA OneMoves ==
    ASSUME ATypeOK, NEW p \in Request, NEW t \in Thread, req' = [req EXCEPT ![p] = t]
    PROVE  /\ req' \in [Request -> Thread] /\ req'[p] = t
           /\ \A q \in Request : q # p => req'[q] = req[q]
  BY DEF ATypeOK

LEMMA SettlesTyped ==
    ASSUME ATypeOK, NEW l, NEW r
    PROVE  Settles(l, r) \in [secret : Source, optional : Source \cup {None}] \cup {None}
  BY Configs DEF Settles, ATypeOK, HasSecret

LEMMA Rests ==
    ASSUME AInv, NEW p \in Request, NEW t \in Thread, t.pc \notin Saving,
           req' = [req EXCEPT ![p] = t],
           UNCHANGED <<local, files, clean, wrote>>,
           settled' \in {settled, Settles(local, req')}
    PROVE  SavesInv' /\ InheritedKept' /\ CleanSaveAgrees'
<1>1. /\ req'[p] = t
      /\ \A q \in Request : q # p => req'[q] = req[q]
  BY OneMoves DEF AInv
<1>2. CleanSaveAgrees'
  BY DEF AInv, CleanSaveAgrees
<1>3. InheritedKept'
  BY DEF AInv, InheritedKept, Settles, HasSecret, Kept
<1>4. ASSUME NEW q \in Request
      PROVE  InPlace(req[q])' /\ Moved(req[q])' /\ WillKeep(req[q])' /\ LeftAlone(q)'
  <2>1. CASE q = p
    BY <2>1, <1>1 DEF InPlace, Moved, WillKeep, LeftAlone, Alone, Saving
  <2>2. CASE q # p
    <3>1. req'[q] = req[q] /\ InPlace(req[q]) /\ Moved(req[q]) /\ WillKeep(req[q])
          /\ LeftAlone(q)
      BY <1>1, <2>2 DEF AInv, SavesInv
    <3>2. InPlace(req[q])' /\ Moved(req[q])'
      BY <3>1 DEF InPlace, Moved
    <3>3. WillKeep(req[q])'
      BY <3>1 DEF WillKeep, Settles, Quiet
    <3>4. LeftAlone(q)'
      BY <3>1, <1>1 DEF LeftAlone, Alone
    <3> QED BY <3>2, <3>3, <3>4
  <2> QED BY <2>1, <2>2
<1> QED BY <1>2, <1>3, <1>4 DEF SavesInv

(* The permits, when one request changes.                                  *)
Taken(t) == t.pc \notin {"idle", "done"}

PermitsFollow(p, t) ==
    \/ permits' = permits /\ (Taken(t) <=> Taken(req[p]))
    \/ permits' = permits - 1 /\ Taken(t) /\ ~Taken(req[p])
    \/ permits' = permits + 1 /\ ~Taken(t) /\ Taken(req[p])

LEMMA ServedFinite == IsFiniteSet(Served) /\ Cardinality(Served) \in Nat
  BY FS_Subset, FS_CardinalityType, AdminAssumption DEF Served

LEMMA PermitsMove ==
    ASSUME AInv, NEW p \in Request, NEW t \in Thread, req' = [req EXCEPT ![p] = t],
           PermitsFollow(p, t)
    PROVE  PermitsConserved'
<1>1. /\ req'[p] = t
      /\ \A q \in Request : q # p => req'[q] = req[q]
  BY OneMoves DEF AInv
<1>2. permits \in Int /\ permits = Workers - Cardinality(Served)
  BY WalkFact DEF AInv, ATypeOK, PermitsConserved
<1>3. CASE permits' = permits /\ (Taken(t) <=> Taken(req[p]))
  <2>1. Served' = Served
    BY <1>1, <1>3 DEF Served, Taken
  <2> QED BY <1>2, <1>3, <2>1 DEF PermitsConserved
<1>4. CASE permits' = permits - 1 /\ Taken(t) /\ ~Taken(req[p])
  <2>1. Served' = Served \cup {p} /\ p \notin Served
    BY <1>1, <1>4 DEF Served, Taken
  <2>2. Cardinality(Served') = Cardinality(Served) + 1
    BY <2>1, ServedFinite, FS_AddElement
  <2> QED BY <1>2, <1>4, <2>2, ServedFinite, WalkFact DEF PermitsConserved, Taken
<1>5. CASE permits' = permits + 1 /\ ~Taken(t) /\ Taken(req[p])
  <2>1. Served' = Served \ {p} /\ p \in Served
    BY <1>1, <1>5 DEF Served, Taken
  <2>2. Cardinality(Served') = Cardinality(Served) - 1
    BY <2>1, ServedFinite, FS_RemoveElement
  <2> QED BY <1>2, <1>5, <2>2, ServedFinite, WalkFact DEF PermitsConserved, Taken
<1> QED BY <1>3, <1>4, <1>5 DEF PermitsFollow

(* What is conserved is in range.                                          *)
LEMMA PermitsTyped ==
    ASSUME PermitsConserved, permits >= 0
    PROVE  permits \in 0..Workers
  BY ServedFinite, WalkFact DEF PermitsConserved

-----------------------------------------------------------------------------
(* The invariant holds at the beginning and is kept by every action.       *)

LEMMA AInvInit == AInit => AInv
<1> SUFFICES ASSUME AInit PROVE AInv
  OBVIOUS
<1>1. \A p \in Request : req[p] = Idle
  BY DEF AInit
<1>2. local \in Config \cup {Missing, Broken} /\ files \in [File -> Config \cup {None}]
  BY Configs DEF AInit
<1>3. ATypeOK
  <2>1. wrote \in [File -> SUBSET Config]
    BY <1>2 DEF AInit
  <2>2. req \in [Request -> Thread] /\ permits \in 0..Workers /\ faults \in 0..MaxFault
    BY Threads, WalkFact DEF AInit
  <2>3. procs \in [Proc -> [pc : {"down", "up"}, secret : Source \cup {None}]]
    BY DEF AInit
  <2>4. settled \in [secret : Source, optional : Source \cup {None}] \cup {None}
    BY Configs DEF AInit, HasSecret
  <2> QED BY <1>2, <2>1, <2>2, <2>3, <2>4 DEF ATypeOK, AInit
<1>4. PermitsConserved
  <2>1. Served = {}
    BY <1>1, Threads DEF Served
  <2> QED BY <2>1, FS_EmptySet, WalkFact DEF PermitsConserved, AInit
<1>5. SavesInv
  BY <1>1, Threads DEF SavesInv, InPlace, Moved, WillKeep, LeftAlone, Alone, Saving
<1>6. InheritedKept /\ CleanSaveAgrees
  BY DEF AInit, InheritedKept, CleanSaveAgrees, Kept
<1> QED BY <1>3, <1>4, <1>5, <1>6 DEF AInv

(* A thread that ends up saving nothing.                                   *)
LEMMA RestsKept ==
    ASSUME AInv, NEW p \in Request, NEW t \in Thread, t.pc \notin Saving,
           req' = [req EXCEPT ![p] = t],
           UNCHANGED <<local, files, clean, wrote, procs>>,
           settled' \in {settled, Settles(local, req')},
           faults' \in 0..MaxFault,
           PermitsFollow(p, t), permits' >= 0
    PROVE  AInv'
<1>1. SavesInv' /\ InheritedKept' /\ CleanSaveAgrees'
  BY Rests
<1>2. PermitsConserved'
  BY PermitsMove
<1>3. permits' \in 0..Workers
  <2>1. Served' \subseteq Request /\ IsFiniteSet(Served') /\ Cardinality(Served') \in Nat
    BY FS_Subset, FS_CardinalityType, AdminAssumption DEF Served
  <2> QED BY <1>2, <2>1, WalkFact DEF PermitsConserved
<1>4. req' \in [Request -> Thread]
  BY OneMoves DEF AInv
<1>5. settled' \in [secret : Source, optional : Source \cup {None}] \cup {None}
  BY SettlesTyped DEF AInv, ATypeOK
<1>6. ATypeOK'
  BY <1>3, <1>4, <1>5 DEF AInv, ATypeOK
<1> QED BY <1>1, <1>2, <1>6 DEF AInv

LEMMA BegunAndEnded ==
    ASSUME AInv, NEW p \in Request, Connect(p) \/ TurnAway(p) \/ Ends(p)
    PROVE  AInv'
<1>1. permits \in Nat /\ faults \in 0..MaxFault
  BY WalkFact DEF AInv, ATypeOK
<1>2. CASE Connect(p)
  <2> DEFINE t == [req[p] EXCEPT !.pc = "handle"]
  <2>1. t \in Thread /\ t.pc = "handle" /\ req' = [req EXCEPT ![p] = t]
    <3>1. req[p] \in Thread
      BY DEF AInv, ATypeOK
    <3>2. t \in Thread /\ t.pc = "handle"
      BY <3>1 DEF Thread
    <3> QED BY <1>2, <3>2 DEF Connect
  <2>2. Taken(t) /\ ~Taken(req[p]) /\ permits' = permits - 1 /\ permits' >= 0
    BY <1>1, <1>2, <2>1 DEF Connect, Taken
  <2> QED BY <1>1, <1>2, <2>1, <2>2, RestsKept DEF Connect, Saving, PermitsFollow
<1>3. CASE TurnAway(p)
  <2>1. Done \in Thread /\ ~Taken(Done) /\ ~Taken(req[p]) /\ Done.pc \notin Saving
    BY <1>3, Threads DEF TurnAway, Taken, Saving
  <2>2. faults' \in 0..MaxFault /\ permits' = permits /\ permits' >= 0
    BY <1>1, <1>3, WalkFact DEF TurnAway, Fault
  <2> QED BY <1>3, <2>1, <2>2, RestsKept DEF TurnAway, PermitsFollow
<1>4. CASE Ends(p)
  <2>1. Done \in Thread /\ ~Taken(Done) /\ Taken(req[p]) /\ Done.pc \notin Saving
    BY <1>4, Threads DEF Ends, Taken, Saving
  <2>2. permits' = permits + 1 /\ permits' >= 0
    BY <1>1, <1>4 DEF Ends
  <2> QED BY <1>1, <1>4, <2>1, <2>2, RestsKept DEF Ends, PermitsFollow
<1> QED BY <1>2, <1>3, <1>4

LEMMA AnsweredKept ==
    ASSUME AInv, NEW p \in Request,
           Denied(p) \/ Reads(p) \/ Verified(p) \/ Rejected(p) \/ Fails(p)
    PROVE  AInv'
<1>1. permits \in Nat /\ faults \in 0..MaxFault
  BY WalkFact DEF AInv, ATypeOK
<1>2. PICK c \in {200, 400, 500} : req' = [req EXCEPT ![p] = Reply(c)]
  BY DEF Denied, Reads, Verified, Rejected, Fails, Answered
<1>3. Reply(c) \in Thread /\ Reply(c).pc \notin Saving /\ Taken(Reply(c)) /\ Taken(req[p])
  BY Threads DEF Denied, Reads, Verified, Rejected, Fails, Taken, Saving
<1>4. faults' \in 0..MaxFault /\ permits' = permits /\ permits' >= 0
  BY <1>1, WalkFact DEF Denied, Reads, Verified, Rejected, Fails, Fault
<1>5. UNCHANGED <<local, files, clean, wrote, procs>>
      /\ settled' \in {settled, Settles(local, req')}
  BY DEF Denied, Reads, Verified, Rejected, Fails
<1>6. PermitsFollow(p, Reply(c))
  BY <1>3, <1>4 DEF PermitsFollow
<1> QED BY <1>2, <1>3, <1>4, <1>5, <1>6, RestsKept

LEMMA AsksKept == ASSUME AInv, NEW p \in Request, Asks(p) PROVE AInv'
<1> DEFINE t == [req[p] EXCEPT !.pc = "verify"]
<1>1. t \in Thread /\ t.pc = "verify" /\ req' = [req EXCEPT ![p] = t]
  <2>1. req[p] \in Thread
    BY DEF AInv, ATypeOK
  <2>2. t \in Thread /\ t.pc = "verify"
    BY <2>1 DEF Thread
  <2> QED BY <2>2 DEF Asks
<1>2. Taken(t) /\ Taken(req[p]) /\ permits' = permits /\ permits' >= 0
  BY <1>1, WalkFact DEF Asks, Taken, AInv, ATypeOK
<1>3. faults' \in 0..MaxFault
  BY DEF Asks, AInv, ATypeOK
<1> QED BY <1>1, <1>2, <1>3, RestsKept DEF Asks, Saving, PermitsFollow

-----------------------------------------------------------------------------
(* The steps of a save.                                                    *)

LEMMA BeginsKept == ASSUME AInv, NEW p \in Request, NEW kind \in Body, Begins(p, kind) PROVE AInv'
<1> DEFINE body == Filled(p, kind, Previous(local))
<1> DEFINE code == IF kind = "partial" THEN 500 ELSE 200
<1> DEFINE save == [pc |-> "stage", next |-> 1, alone |-> Quiet(req), body |-> body, code |-> code]
<1>1. body \in Config /\ body.secret # None
  BY FilledFact
<1>2. HasSecret(local) /\ kind # "full" => Kept(body) = Kept(local)
  BY FilledFact
<1>3. req \in [Request -> Thread] /\ req[p].pc = "handle"
  BY DEF AInv, ATypeOK, Begins
<1>4. req' = [q \in Request |->
                 IF q = p THEN save
                 ELSE [req[q] EXCEPT !.alone = @ /\ req[q].pc \notin Saving]]
  BY DEF Begins
<1>5. save \in Thread
  <2>1. 1 \in 0..(Len(Walk) + 1) /\ Quiet(req) \in BOOLEAN /\ code \in {0, 200, 400, 500}
    BY WalkFact DEF Quiet
  <2> QED BY <1>1, <2>1 DEF Thread, Saving
<1>6. req'[p] = save /\ req'[p].pc = "stage" /\ req'[p].next = 1 /\ req'[p].body = body
      /\ (req'[p].alone => Quiet(req))
  BY <1>4
<1>7. \A q \in Request : q # p =>
        /\ req'[q] \in Thread
        /\ req'[q].pc = req[q].pc /\ req'[q].next = req[q].next
        /\ req'[q].body = req[q].body
        /\ req'[q].alone => req[q].pc \notin Saving
  <2> SUFFICES ASSUME NEW q \in Request, q # p
               PROVE  /\ req'[q] \in Thread
                      /\ req'[q].pc = req[q].pc /\ req'[q].next = req[q].next
                      /\ req'[q].body = req[q].body
                      /\ req'[q].alone => req[q].pc \notin Saving
    OBVIOUS
  <2>1. req[q] \in Thread
    BY <1>3
  <2> DEFINE al == req[q].alone /\ req[q].pc \notin Saving
  <2>2. req'[q] = [req[q] EXCEPT !.alone = al]
    BY <1>4
  <2>3. al \in BOOLEAN /\ (al => req[q].pc \notin Saving)
    OBVIOUS
  <2> HIDE DEF al
  <2>4. req'[q] \in Thread /\ req'[q].alone = al /\ req'[q].pc = req[q].pc
        /\ req'[q].next = req[q].next /\ req'[q].body = req[q].body
    BY <2>1, <2>2, <2>3 DEF Thread
  <2> QED BY <2>3, <2>4
<1> HIDE DEF save, body, code
<1>8. ATypeOK'
  <2>1. req' \in [Request -> Thread]
    BY <1>4, <1>5, <1>6, <1>7
  <2>2. settled' \in [secret : Source, optional : Source \cup {None}] \cup {None}
    BY DEF AInv, ATypeOK, Begins
  <2> QED BY <2>1, <2>2 DEF AInv, ATypeOK, Begins
<1>9. PermitsConserved'
  <2>1. Served' = Served
    BY <1>3, <1>6, <1>7 DEF Served
  <2> QED BY <2>1 DEF AInv, PermitsConserved, Begins
<1>10. ASSUME NEW q \in Request
       PROVE  InPlace(req[q])' /\ Moved(req[q])' /\ WillKeep(req[q])' /\ LeftAlone(q)'
  <2>1. CASE q = p
    <3>1. InPlace(req[p])' /\ Moved(req[p])'
      BY <1>1, <1>6 DEF InPlace, Moved
    <3>2. WillKeep(req[p])'
      BY <1>1, <1>2, <1>6 DEF WillKeep, Begins, AInv, InheritedKept
    <3>3. LeftAlone(p)'
      BY <1>6, <1>7 DEF LeftAlone, Alone, Quiet
    <3> QED BY <2>1, <3>1, <3>2, <3>3
  <2>2. CASE q # p
    <3>1. InPlace(req[q]) /\ Moved(req[q]) /\ WillKeep(req[q])
      BY DEF AInv, SavesInv
    <3>2. InPlace(req[q])' /\ Moved(req[q])' /\ WillKeep(req[q])'
      BY <1>7, <2>2, <3>1 DEF InPlace, Moved, WillKeep, Begins
    <3>3. LeftAlone(q)'
      BY <1>7, <2>2 DEF LeftAlone, Alone
    <3> QED BY <3>2, <3>3
  <2> QED BY <2>1, <2>2
<1>11. InheritedKept' /\ CleanSaveAgrees'
  BY DEF AInv, InheritedKept, CleanSaveAgrees, Begins
<1> QED BY <1>8, <1>9, <1>10, <1>11 DEF AInv, SavesInv

LEMMA StagesKept == ASSUME AInv, NEW p \in Request, Stages(p) PROVE AInv'
<1> DEFINE t == [req[p] EXCEPT !.pc = "commit"]
<1>1. req[p] \in Thread /\ req[p].pc = "stage" /\ InPlace(req[p]) /\ Moved(req[p])
      /\ WillKeep(req[p]) /\ LeftAlone(p)
  BY DEF AInv, ATypeOK, SavesInv, Stages
<1>2. t \in Thread /\ t.pc = "commit" /\ t.next = req[p].next /\ t.body = req[p].body
      /\ t.alone = req[p].alone
  BY <1>1 DEF Thread, Saving
<1>3. req' = [req EXCEPT ![p] = t]
  BY DEF Stages
<1> HIDE DEF t
<1>4. /\ req' \in [Request -> Thread] /\ req'[p] = t
      /\ \A q \in Request : q # p => req'[q] = req[q]
  BY <1>2, <1>3, OneMoves DEF AInv
<1>5. ATypeOK'
  BY <1>4 DEF AInv, ATypeOK, Stages
<1>6. PermitsConserved'
  <2>1. PermitsFollow(p, t)
    BY <1>1, <1>2 DEF PermitsFollow, Taken, Stages
  <2> QED BY <1>2, <1>3, <2>1, PermitsMove
<1>7. InPlace(req[p])' /\ Moved(req[p])' /\ WillKeep(req[p])'
  BY <1>1, <1>2, <1>4, WalkFact DEF InPlace, Moved, WillKeep, Stages, Saving
<1>8. ASSUME NEW q \in Request
      PROVE  InPlace(req[q])' /\ Moved(req[q])' /\ WillKeep(req[q])' /\ LeftAlone(q)'
  <2>1. InPlace(req[q])' /\ Moved(req[q])' /\ WillKeep(req[q])'
    <3>1. CASE q = p
      BY <1>7, <3>1
    <3>2. CASE q # p
      <4>1. InPlace(req[q]) /\ Moved(req[q]) /\ WillKeep(req[q]) /\ req'[q] = req[q]
        BY <1>4, <3>2 DEF AInv, SavesInv
      <4> QED BY <4>1 DEF InPlace, Moved, WillKeep, Stages
    <3> QED BY <3>1, <3>2
  <2>2. LeftAlone(q) /\ \A r \in Request : r # q => (req'[r].pc \in Saving <=> req[r].pc \in Saving)
    BY <1>1, <1>2, <1>4 DEF AInv, SavesInv, Saving
  <2>3. LeftAlone(q)'
    BY <1>1, <1>2, <1>4, <2>2 DEF LeftAlone, Alone, Stages, Saving
  <2> QED BY <2>1, <2>3
<1>9. InheritedKept' /\ CleanSaveAgrees'
  BY DEF AInv, InheritedKept, CleanSaveAgrees, Stages
<1> QED BY <1>5, <1>6, <1>8, <1>9 DEF AInv, SavesInv

LEMMA MovesKept == ASSUME AInv, NEW p \in Request, Moves(p) PROVE AInv'
<1> DEFINE n == req[p].next
<1> DEFINE body == req[p].body
<1> DEFINE on == [req[p] EXCEPT !.next = n + 1]
<1> DEFINE t == IF n = Len(Walk) THEN [on EXCEPT !.pc = "local"] ELSE on
<1>1. req[p] \in Thread /\ req[p].pc = "commit" /\ InPlace(req[p]) /\ Moved(req[p])
      /\ WillKeep(req[p]) /\ LeftAlone(p)
  BY DEF AInv, ATypeOK, SavesInv, Moves
<1>2. n \in 1..Len(Walk) /\ body \in Config /\ Walk[n] \in File
  BY <1>1, WalkFact DEF InPlace, Saving
<1>3. /\ t \in Thread /\ t.next = n + 1 /\ t.body = body /\ t.alone = req[p].alone
      /\ t.pc \in {"commit", "local"} /\ (t.pc = "local" <=> n = Len(Walk))
  <2>1. n + 1 \in 0..(Len(Walk) + 1)
    BY <1>2, WalkFact
  <2>2. on \in Thread /\ on.next = n + 1 /\ on.body = body /\ on.alone = req[p].alone
        /\ on.pc = "commit"
    BY <1>1, <2>1 DEF Thread
  <2> HIDE DEF on
  <2> QED BY <2>2 DEF Thread, Saving
<1>4. req' = [req EXCEPT ![p] = t]
  BY DEF Moves
<1>5. files' = [files EXCEPT ![Walk[n]] = body]
      /\ wrote' = [wrote EXCEPT ![Walk[n]] = @ \cup {body}]
  BY DEF Moves
<1> HIDE DEF t
<1>7. /\ req' \in [Request -> Thread] /\ req'[p] = t
      /\ \A q \in Request : q # p => req'[q] = req[q]
  BY <1>3, <1>4, OneMoves DEF AInv
<1>8. ATypeOK'
  <2>1. files' \in [File -> Config \cup {None}] /\ wrote' \in [File -> SUBSET Config]
    BY <1>2, <1>5 DEF AInv, ATypeOK
  <2> QED BY <1>7, <2>1 DEF AInv, ATypeOK, Moves
<1>9. PermitsConserved'
  <2>1. PermitsFollow(p, t)
    BY <1>1, <1>3 DEF PermitsFollow, Taken, Moves
  <2> QED BY <1>3, <1>4, <2>1, PermitsMove
<1>10. \A i \in 1..Len(Walk) : wrote[Walk[i]] \subseteq wrote'[Walk[i]]
  BY <1>2, <1>5, WalkFact DEF AInv, ATypeOK
<1>11. \A i \in 1..Len(Walk) : i < n + 1 => body \in wrote'[Walk[i]]
  <2> SUFFICES ASSUME NEW i \in 1..Len(Walk), i < n + 1 PROVE body \in wrote'[Walk[i]]
    OBVIOUS
  <2>1. CASE i = n
    BY <1>2, <1>5, <2>1 DEF AInv, ATypeOK
  <2>2. CASE i # n
    <3>1. body \in wrote[Walk[i]]
      BY <1>1, <1>2, <2>2 DEF Moved, Saving
    <3> QED BY <1>10, <3>1
  <2> QED BY <2>1, <2>2
<1>12. ASSUME Alone(p) PROVE \A i \in 1..Len(Walk) : i < n + 1 => files'[Walk[i]] = body
  <2> SUFFICES ASSUME NEW i \in 1..Len(Walk), i < n + 1 PROVE files'[Walk[i]] = body
    OBVIOUS
  <2>1. Walk[i] \in File
    BY WalkFact
  <2>2. CASE Walk[i] = Walk[n]
    BY <1>2, <1>5, <2>2 DEF AInv, ATypeOK
  <2>3. CASE Walk[i] # Walk[n]
    <3>1. i < n
      BY <1>2, <2>3
    <3>2. files[Walk[i]] = body
      BY <1>1, <1>12, <3>1 DEF LeftAlone
    <3> QED BY <1>2, <1>5, <2>1, <2>3, <3>2 DEF AInv, ATypeOK
  <2> QED BY <2>2, <2>3
<1>13. ASSUME NEW q \in Request
       PROVE  InPlace(req[q])' /\ Moved(req[q])' /\ WillKeep(req[q])' /\ LeftAlone(q)'
  <2>1. CASE q = p
    <3>1. InPlace(req[p])'
      BY <1>2, <1>3, <1>7, WalkFact DEF InPlace, Saving
    <3>2. Moved(req[p])'
      BY <1>3, <1>7, <1>11 DEF Moved
    <3>3. WillKeep(req[p])'
      BY <1>1, <1>3, <1>7 DEF WillKeep, Moves, Saving
    <3>4. LeftAlone(p)'
      <4>1. Alone(p)' => Alone(p)
        BY <1>1, <1>3, <1>7 DEF Alone, Saving
      <4>2. Alone(p)' => \A r \in Request : r # p => req'[r].pc \notin Saving
        BY <1>1, <1>7, <4>1 DEF LeftAlone
      <4>3. Alone(p)' => \A i \in 1..Len(Walk) :
                            i < req'[p].next => files'[Walk[i]] = req'[p].body
        BY <1>3, <1>7, <1>12, <4>1
      <4> QED BY <4>2, <4>3 DEF LeftAlone
    <3> QED BY <2>1, <3>1, <3>2, <3>3, <3>4
  <2>2. CASE q # p
    <3>1. InPlace(req[q]) /\ Moved(req[q]) /\ WillKeep(req[q]) /\ LeftAlone(q)
          /\ req'[q] = req[q]
      BY <1>7, <2>2 DEF AInv, SavesInv
    <3>2. InPlace(req[q])' /\ WillKeep(req[q])'
      BY <3>1 DEF InPlace, WillKeep, Moves
    <3>3. Moved(req[q])'
      BY <1>10, <3>1 DEF Moved
    <3>4. ~Alone(q)
      BY <1>1, <2>2, <3>1 DEF LeftAlone, Saving
    <3>5. LeftAlone(q)'
      BY <3>1, <3>4 DEF LeftAlone, Alone
    <3> QED BY <3>2, <3>3, <3>5
  <2> QED BY <2>1, <2>2
<1>14. InheritedKept' /\ CleanSaveAgrees'
  BY DEF AInv, InheritedKept, CleanSaveAgrees, Moves
<1> QED BY <1>8, <1>9, <1>13, <1>14 DEF AInv, SavesInv

LEMMA WritesLocalKept == ASSUME AInv, NEW p \in Request, WritesLocal(p) PROVE AInv'
<1> DEFINE body == req[p].body
<1>1. req[p] \in Thread /\ req[p].pc = "local" /\ InPlace(req[p]) /\ WillKeep(req[p])
      /\ LeftAlone(p)
  BY DEF AInv, ATypeOK, SavesInv, WritesLocal
<1>2. body \in Config /\ req[p].next = Len(Walk) + 1
  BY <1>1 DEF InPlace, Saving
<1>3. Reply(200) \in Thread /\ Reply(200).pc = "answer" /\ req' = [req EXCEPT ![p] = Reply(200)]
  BY Threads DEF WritesLocal, Answered
<1>4. /\ req' \in [Request -> Thread] /\ req'[p] = Reply(200)
      /\ \A q \in Request : q # p => req'[q] = req[q]
  BY <1>3, OneMoves DEF AInv
<1>5. settled' = Settles(body, req') /\ local' = body
  BY DEF WritesLocal
<1>6. ATypeOK'
  <2>1. settled' \in [secret : Source, optional : Source \cup {None}] \cup {None}
    BY <1>5, SettlesTyped DEF AInv
  <2>2. clean' \in BOOLEAN
    BY <1>1 DEF WritesLocal, Thread
  <2> QED BY <1>2, <1>4, <1>5, <2>1, <2>2 DEF AInv, ATypeOK, WritesLocal
<1>7. PermitsConserved'
  <2>1. PermitsFollow(p, Reply(200))
    BY <1>1, <1>3 DEF PermitsFollow, Taken, WritesLocal
  <2> QED BY <1>3, <2>1, PermitsMove
<1>8. ASSUME NEW q \in Request
      PROVE  InPlace(req[q])' /\ Moved(req[q])' /\ WillKeep(req[q])' /\ LeftAlone(q)'
  <2>1. CASE q = p
    BY <2>1, <1>3, <1>4 DEF InPlace, Moved, WillKeep, LeftAlone, Alone, Saving
  <2>2. CASE q # p
    <3>1. InPlace(req[q]) /\ Moved(req[q]) /\ WillKeep(req[q]) /\ LeftAlone(q)
          /\ req'[q] = req[q]
      BY <1>4, <2>2 DEF AInv, SavesInv
    <3>2. InPlace(req[q])' /\ Moved(req[q])'
      BY <3>1 DEF InPlace, Moved, WritesLocal
    <3>3. WillKeep(req[q])'
      BY <1>5, <3>1 DEF WillKeep, Settles, Quiet
    <3>4. LeftAlone(q)'
      BY <1>3, <1>4, <3>1 DEF LeftAlone, Alone, WritesLocal, Saving
    <3> QED BY <3>2, <3>3, <3>4
  <2> QED BY <2>1, <2>2
<1>9. InheritedKept'
  <2>1. WillKeep(req[p]) /\ req[p].pc \in Saving
    BY <1>1 DEF Saving
  <2> QED BY <1>2, <1>5, <2>1 DEF InheritedKept, Settles, HasSecret, WillKeep
<1>10. CleanSaveAgrees'
  <2>1. clean' => \A i \in 1..Len(Walk) : files[Walk[i]] = body
    BY <1>1, <1>2, WalkFact DEF WritesLocal, LeftAlone, Alone, Saving
  <2>2. files' = files
    BY DEF WritesLocal
  <2> QED BY <1>5, <2>1, <2>2, WalkFact DEF CleanSaveAgrees
<1> QED BY <1>6, <1>7, <1>8, <1>9, <1>10 DEF AInv, SavesInv

-----------------------------------------------------------------------------
(* The environment and the readers.                                        *)

LEMMA CrashKept == ASSUME AInv, Crash PROVE AInv'
<1>1. \A p \in Request : req'[p] \in Thread /\ req'[p].pc \in {"idle", "done"}
  BY Threads DEF Crash, AInv, ATypeOK
<1>2. \A p \in Request : req'[p].pc \notin Saving
  BY <1>1 DEF Saving
<1>3. ATypeOK'
  <2>1. req' \in [Request -> Thread]
    BY <1>1 DEF Crash
  <2>2. settled' \in [secret : Source, optional : Source \cup {None}] \cup {None}
    BY SettlesTyped DEF Crash, AInv
  <2>3. permits' \in 0..Workers /\ faults' \in 0..MaxFault
    BY WalkFact DEF Crash, Fault, AInv, ATypeOK
  <2> QED BY <2>1, <2>2, <2>3 DEF Crash, AInv, ATypeOK
<1>4. PermitsConserved'
  <2>1. Served' = {}
    BY <1>1 DEF Served
  <2> QED BY <2>1, FS_EmptySet, WalkFact DEF PermitsConserved, Crash
<1>5. SavesInv'
  BY <1>2 DEF SavesInv, InPlace, Moved, WillKeep, LeftAlone, Alone, Saving
<1>6. InheritedKept' /\ CleanSaveAgrees'
  BY DEF Crash, AInv, InheritedKept, CleanSaveAgrees, Settles
<1> QED BY <1>3, <1>4, <1>5, <1>6 DEF AInv

LEMMA EditedKept == ASSUME AInv, Edited PROVE AInv'
<1>1. ATypeOK'
  <2>1. faults' \in 0..MaxFault
    BY WalkFact DEF Edited, Fault, AInv, ATypeOK
  <2>2. UNCHANGED <<files, req, permits, procs, wrote>>
        /\ local' = Broken /\ settled' = None /\ clean' = FALSE
    BY DEF Edited
  <2> QED BY <2>1, <2>2 DEF AInv, ATypeOK
<1>2. PermitsConserved'
  BY DEF Edited, AInv, PermitsConserved, Served
<1>3. ASSUME NEW p \in Request
      PROVE  InPlace(req[p])' /\ Moved(req[p])' /\ WillKeep(req[p])' /\ LeftAlone(p)'
  <2>1. InPlace(req[p]) /\ Moved(req[p]) /\ LeftAlone(p)
    BY DEF AInv, SavesInv
  <2> QED BY <2>1 DEF Edited, InPlace, Moved, WillKeep, LeftAlone, Alone
<1>4. InheritedKept' /\ CleanSaveAgrees'
  BY DEF Edited, InheritedKept, CleanSaveAgrees
<1> QED BY <1>1, <1>2, <1>3, <1>4 DEF AInv, SavesInv

(* A step that leaves the saves alone.                                     *)
LEMMA ReadersKept ==
    ASSUME AInv, UNCHANGED <<local, files, req, permits, settled, clean, wrote, faults>>,
           procs' \in [Proc -> [pc : {"down", "up"}, secret : Source \cup {None}]]
    PROVE  AInv'
<1>1. ATypeOK'
  BY DEF AInv, ATypeOK
<1>2. PermitsConserved' /\ InheritedKept' /\ CleanSaveAgrees'
  BY DEF AInv, PermitsConserved, Served, InheritedKept, CleanSaveAgrees
<1>3. ASSUME NEW p \in Request
      PROVE  InPlace(req[p])' /\ Moved(req[p])' /\ WillKeep(req[p])' /\ LeftAlone(p)'
  <2>1. InPlace(req[p]) /\ Moved(req[p]) /\ WillKeep(req[p]) /\ LeftAlone(p)
    BY DEF AInv, SavesInv
  <2> QED BY <2>1 DEF InPlace, Moved, WillKeep, LeftAlone, Alone
<1> QED BY <1>1, <1>2, <1>3 DEF AInv, SavesInv

LEMMA ReaderStep ==
    ASSUME AInv, NEW c \in Proc, Starts(c) \/ RefusesToStart(c) \/ Stops(c)
    PROVE  AInv'
<1>1. procs \in [Proc -> [pc : {"down", "up"}, secret : Source \cup {None}]]
      /\ files \in [File -> Config \cup {None}]
  BY DEF AInv, ATypeOK
<1>2. CASE Starts(c)
  <2>1. SecretOf(local, files) \in Source \cup {None}
    BY <1>1, SecretFact
  <2>2. procs' \in [Proc -> [pc : {"down", "up"}, secret : Source \cup {None}]]
    BY <1>1, <1>2, <2>1 DEF Starts
  <2> QED BY <1>2, <2>2, ReadersKept DEF Starts
<1>3. CASE RefusesToStart(c)
  BY <1>1, <1>3, ReadersKept DEF RefusesToStart, avars
<1>4. CASE Stops(c)
  <2>1. procs' \in [Proc -> [pc : {"down", "up"}, secret : Source \cup {None}]]
    BY <1>1, <1>4 DEF Stops
  <2> QED BY <1>4, <2>1, ReadersKept DEF Stops
<1> QED BY <1>2, <1>3, <1>4

LEMMA AInvNext == AInv /\ [ANext]_avars => AInv'
<1> SUFFICES ASSUME AInv, [ANext]_avars PROVE AInv'
  OBVIOUS
<1>1. ASSUME NEW p \in Request, Connect(p) \/ TurnAway(p) \/ Serves(p) PROVE AInv'
  <2>1. CASE Connect(p) \/ TurnAway(p) \/ Ends(p)
    BY <2>1, BegunAndEnded
  <2>2. CASE Denied(p) \/ Reads(p) \/ Verified(p) \/ Rejected(p) \/ Fails(p)
    BY <2>2, AnsweredKept
  <2>3. CASE Asks(p)
    BY <2>3, AsksKept
  <2>4. CASE \E kind \in Body : Begins(p, kind)
    BY <2>4, BeginsKept
  <2>5. CASE Stages(p)
    BY <2>5, StagesKept
  <2>6. CASE Moves(p)
    BY <2>6, MovesKept
  <2>7. CASE WritesLocal(p)
    BY <2>7, WritesLocalKept
  <2> QED BY <1>1, <2>1, <2>2, <2>3, <2>4, <2>5, <2>6, <2>7 DEF Serves
<1>2. ASSUME NEW c \in Proc, Starts(c) \/ RefusesToStart(c) \/ Stops(c) PROVE AInv'
  BY <1>2, ReaderStep
<1>3. CASE Crash
  BY <1>3, CrashKept
<1>4. CASE Edited
  BY <1>4, EditedKept
<1>5. CASE UNCHANGED avars
  BY <1>5, ReadersKept DEF avars, AInv, ATypeOK
<1> QED BY <1>1, <1>2, <1>3, <1>4, <1>5 DEF ANext

-----------------------------------------------------------------------------
(* The theorems.                                                           *)

LEMMA AInvAlways == ASpec => []AInv
  BY AInvInit, AInvNext, PTL DEF ASpec

(* The state of the page, its files and its readers stays within its type. *)
THEOREM ATyped == ASpec => []ATypeOK
<1>1. AInv => ATypeOK
  BY DEF AInv
<1> QED BY <1>1, AInvAlways, PTL

(* No permit of the semaphore (520-541) is lost or given back twice.       *)
THEOREM NoPermitLost == ASpec => []PermitsConserved
<1>1. AInv => PermitsConserved
  BY DEF AInv
<1> QED BY <1>1, AInvAlways, PTL

(* What the form leaves out outlives overlapping, failing and interrupted  *)
(* saves (728-740).                                                        *)
THEOREM Inherited == ASpec => []InheritedKept
<1>1. AInv => InheritedKept
  BY DEF AInv
<1> QED BY <1>1, AInvAlways, PTL

(* Processes that start while a secret is settled all use that one         *)
(* (config_loader.py:100-112).                                             *)
THEOREM SameSecret == ASpec => StartedWithSecret
<1> DEFINE Step ==
        \A c \in Proc :
          procs[c].pc = "down" /\ procs'[c].pc = "up" /\ settled # None
          => procs'[c].secret = settled.secret
<1>1. AInv /\ [ANext]_avars => [Step]_avars
  <2> SUFFICES ASSUME AInv, ANext, NEW c \in Proc, procs[c].pc = "down",
                      procs'[c].pc = "up", settled # None
               PROVE  procs'[c].secret = settled.secret
    OBVIOUS
  <2>1. procs' # procs
    OBVIOUS
  <2>2. PICK d \in Proc : Starts(d) \/ Stops(d)
    <3>1. \A p \in Request : ~(Connect(p) \/ TurnAway(p) \/ Serves(p))
      BY <2>1 DEF Connect, TurnAway, Serves, Denied, Reads, Asks, Verified, Rejected,
                  Begins, Fails, Stages, Moves, WritesLocal, Ends
    <3>2. ~Crash /\ ~Edited /\ \A d \in Proc : ~RefusesToStart(d)
      BY <2>1 DEF Crash, Edited, RefusesToStart, avars
    <3> QED BY <3>1, <3>2 DEF ANext
  <2>3. procs \in [Proc -> [pc : {"down", "up"}, secret : Source \cup {None}]]
    BY DEF AInv, ATypeOK
  <2>4. d = c /\ Starts(c)
    BY <2>2, <2>3 DEF Starts, Stops
  <2>5. procs'[c].secret = SecretOf(local, files)
    BY <2>3, <2>4 DEF Starts
  <2>6. HasSecret(local) /\ Kept(local) = settled
    BY DEF AInv, InheritedKept
  <2> QED BY <2>5, <2>6 DEF SecretOf, Kept
<1> QED BY <1>1, AInvAlways, PTL DEF ASpec, StartedWithSecret

(* A save that ran alone leaves all its files made of one configuration    *)
(* (744-760).                                                              *)
THEOREM CleanSave == ASpec => []CleanSaveAgrees
<1>1. AInv => CleanSaveAgrees
  BY DEF AInv
<1> QED BY <1>1, AInvAlways, PTL

(* The saves implement AtomicConfig: local.json is written last, after the *)
(* last derived file of the same configuration (748-760).                  *)
THEOREM Implements == ASpec => LocalWrittenLast
<1> DEFINE cur == IF local \in Config THEN local ELSE Missing
<1> DEFINE prep == {c \in wrote[SecretFile] : \A f \in File : c \in wrote[f]}
<1>1. AInit => Atomic!CInit
  BY AInvInit, WalkFact DEF Atomic!CInit, AInv, ATypeOK
<1>2. AInv /\ [ANext]_avars => [Atomic!CNext]_<<cur, prep>>
  <2> SUFFICES ASSUME AInv, [ANext]_avars PROVE [Atomic!CNext]_<<cur, prep>>
    OBVIOUS
  <2>1. CASE UNCHANGED <<local, wrote>>
    BY <2>1
  <2>2. ASSUME NEW p \in Request, Moves(p) PROVE [Atomic!CNext]_<<cur, prep>>
    <3> DEFINE body == req[p].body
    <3>1. body \in Config /\ req[p].next \in 1..Len(Walk)
      BY <2>2 DEF AInv, SavesInv, InPlace, Moves, Saving
    <3>2. /\ wrote \in [File -> SUBSET Config] /\ SecretFile \in File
          /\ wrote' = [wrote EXCEPT ![Walk[req[p].next]] = @ \cup {body}]
          /\ local' = local
      BY <2>2, WalkFact DEF AInv, ATypeOK, Moves
    <3>3. \A f \in File : wrote[f] \subseteq wrote'[f] /\ wrote'[f] \subseteq wrote[f] \cup {body}
      BY <3>2
    <3>4. prep' = prep \/ (prep' = prep \cup {body} /\ body \in prep')
      BY <3>2, <3>3
    <3> QED BY <3>1, <3>2, <3>4 DEF Atomic!CNext, Atomic!Prepare
  <2>3. ASSUME NEW p \in Request, WritesLocal(p) PROVE [Atomic!CNext]_<<cur, prep>>
    <3> DEFINE body == req[p].body
    <3>1. InPlace(req[p]) /\ Moved(req[p]) /\ req[p].pc = "local"
      BY <2>3 DEF AInv, SavesInv, WritesLocal
    <3>2. body \in Config /\ \A f \in File : body \in wrote[f]
      BY <3>1, WalkFact DEF InPlace, Moved, Saving
    <3>3. local' = body /\ wrote' = wrote
      BY <2>3 DEF WritesLocal
    <3>4. cur' = body /\ body \in prep /\ prep' = prep
      BY <3>2, <3>3, WalkFact
    <3> QED BY <3>4 DEF Atomic!CNext, Atomic!Commit
  <2>4. CASE Edited
    <3>1. cur' = Missing /\ prep' = prep
      BY <2>4, AdminAssumption DEF Edited
    <3> QED BY <3>1 DEF Atomic!CNext, Atomic!Spoil
  <2>5. CASE ANext
    <3>1. ASSUME NEW p \in Request, Connect(p) \/ TurnAway(p) \/ Serves(p)
          PROVE  UNCHANGED <<local, wrote>> \/ Moves(p) \/ WritesLocal(p)
      BY <3>1 DEF Connect, TurnAway, Serves, Denied, Reads, Asks, Verified, Rejected,
                  Begins, Fails, Stages, Ends
    <3>2. ASSUME NEW c \in Proc, Starts(c) \/ RefusesToStart(c) \/ Stops(c)
          PROVE  UNCHANGED <<local, wrote>>
      BY <3>2 DEF Starts, RefusesToStart, Stops, avars
    <3>3. Crash => UNCHANGED <<local, wrote>>
      BY DEF Crash
    <3> QED BY <2>1, <2>2, <2>3, <2>4, <2>5, <3>1, <3>2, <3>3 DEF ANext
  <2> QED BY <2>1, <2>5 DEF avars
<1> QED BY <1>1, <1>2, AInvAlways, PTL DEF ASpec, LocalWrittenLast, Atomic!CSpec
=============================================================================
