---------------------------- MODULE Topics_proofs ----------------------------
(***************************************************************************)
(* What the archive of topics guarantees for any number of deep tasks,     *)
(* rounds, days and restarts: it stays sorted and without doubles, every   *)
(* round is where its task wanted it, and none is lost before its time.    *)
(*                                                                         *)
(* The cleanup and the extension of the archive are list comprehensions,   *)
(* so the proofs begin with what those do, for lists of any length.        *)
(***************************************************************************)
EXTENDS Topics, FiniteSetTheorems, SequenceTheorems, WellFoundedInduction, TLAPS

(***************************************************************************)
(* Induction on numbers, from the well-foundedness of their order.         *)
(***************************************************************************)
Less == OpToRel(<, Nat)

LEMMA LessFact ==
    ASSUME NEW k \in Nat, NEW m \in Nat, k < m
    PROVE  <<k, m>> \in Less
<1> DEFINE p == <<k, m>>
<1>1. p \in Nat \X Nat /\ p[1] < p[2]
  OBVIOUS
<1> QED BY <1>1, Zenon DEF Less, OpToRel

LEMMA LeastNumber ==
    ASSUME NEW T \in SUBSET Nat, T # {}
    PROVE  \E m \in T : \A k \in T : m <= k
<1>1. PICK m \in T : \A k \in T : ~(<<k, m>> \in Less)
  <2>1. IsWellFoundedOn(Less, Nat)
    BY NatLessThanWellFounded, Zenon DEF Less
  <2> QED BY <2>1, WFMin, Zenon
<1>2. ASSUME NEW k \in T PROVE m <= k
  <2>1. k \in Nat /\ m \in Nat /\ <<k, m>> \notin Less
    BY <1>1
  <2>2. ~(k < m)
    BY <2>1, LessFact, Zenon
  <2> QED BY <2>1, <2>2
<1> QED BY <1>1, <1>2

LEMMA Induction ==
    ASSUME NEW S, 0 \in S, \A n \in Nat : n \in S => n + 1 \in S
    PROVE  Nat \subseteq S
<1> SUFFICES ASSUME Nat \ S # {} PROVE FALSE
  OBVIOUS
<1>1. PICK m \in Nat \ S : \A k \in Nat \ S : m <= k
  BY LeastNumber
<1>2. m # 0 /\ m - 1 \in Nat /\ (m - 1) + 1 = m
  BY <1>1
<1>3. m - 1 \in S
  BY <1>1, <1>2
<1> QED BY <1>1, <1>2, <1>3

-----------------------------------------------------------------------------
(* List comprehensions.                                                    *)

(* f lists J in order.                                                     *)
Lists(f, J) ==
    /\ f \in [1..Cardinality(J) -> J]
    /\ \A i, j \in DOMAIN f : i < j => f[i] < f[j]
    /\ J = {f[i] : i \in DOMAIN f}

Listable(J) == IsFiniteSet(J) /\ \E f : Lists(f, J)

LEMMA ListsMore ==
    ASSUME NEW n \in Nat, NEW K \in SUBSET (1..n), Listable(K)
    PROVE  Listable(K \cup {n + 1})
<1> DEFINE J == K \cup {n + 1}
           c == Cardinality(K)
<1>1. PICK f : Lists(f, K)
  BY DEF Listable
<1>2. c \in Nat /\ IsFiniteSet(K) /\ n + 1 \notin K
  BY FS_CardinalityType DEF Listable
<1>3. IsFiniteSet(J) /\ Cardinality(J) = c + 1
  BY <1>2, FS_AddElement
<1> DEFINE g == [i \in 1..(c + 1) |-> IF i = c + 1 THEN n + 1 ELSE f[i]]
<1>4. /\ DOMAIN f = 1..c /\ DOMAIN g = 1..(c + 1)
      /\ \A i \in 1..c : f[i] \in K /\ g[i] = f[i]
      /\ g[c + 1] = n + 1
  <2>1. f \in [1..c -> K]
    BY <1>1 DEF Lists
  <2> HIDE DEF c
  <2>2. DOMAIN f = 1..c /\ \A i \in 1..c : f[i] \in K
    BY <2>1
  <2>3. \A i \in 1..c : i # c + 1 /\ i \in 1..(c + 1)
    BY <1>2
  <2>4. c + 1 \in 1..(c + 1)
    BY <1>2
  <2> QED BY <2>2, <2>3, <2>4
<1> HIDE DEF c, g
<1>5. g \in [1..(c + 1) -> J]
  BY <1>2, <1>4 DEF g
<1>6. ASSUME NEW i \in DOMAIN g, NEW j \in DOMAIN g, i < j PROVE g[i] < g[j]
  <2>1. i \in 1..c /\ g[i] = f[i] /\ f[i] \in 1..n
    <3>1. i \in 1..(c + 1) /\ j \in 1..(c + 1) /\ i < j
      BY <1>4, <1>6
    <3>2. i \in 1..c
      BY <1>2, <3>1
    <3> QED BY <1>4, <3>2
  <2>2. CASE j = c + 1
    BY <1>2, <1>4, <2>1, <2>2
  <2>3. CASE j # c + 1
    <3>1. j \in 1..c
      BY <1>2, <1>4, <2>3
    <3> QED BY <1>1, <1>4, <1>6, <2>1, <3>1 DEF Lists
  <2> QED BY <2>2, <2>3
<1>7. J = {g[i] : i \in DOMAIN g}
  <2>1. K = {f[i] : i \in 1..c}
    BY <1>1, <1>4 DEF Lists
  <2>2. ASSUME NEW k \in K PROVE \E i \in DOMAIN g : g[i] = k
    <3>1. PICK i \in 1..c : f[i] = k
      BY <2>1
    <3> QED BY <1>2, <1>4, <3>1
  <2>3. c + 1 \in DOMAIN g
    BY <1>2, <1>4
  <2> QED BY <1>4, <1>5, <2>2, <2>3
<1>8. Lists(g, J)
  BY <1>3, <1>5, <1>6, <1>7 DEF Lists
<1> QED BY <1>3, <1>8 DEF Listable

LEMMA ListsNone == Listable({})
<1>1. IsFiniteSet({}) /\ Cardinality({}) = 0
  BY FS_EmptySet
<1>2. Lists(<<>>, {})
  BY <1>1 DEF Lists
<1> QED BY <1>1, <1>2 DEF Listable

(* Every set of places can be listed.                                      *)
LEMMA PlacesListed ==
    ASSUME NEW n \in Nat, NEW J \in SUBSET (1..n)
    PROVE  IsFiniteSet(J) /\ Lists(Places(J), J)
<1> DEFINE S == {m \in Nat : \A K \in SUBSET (1..m) : Listable(K)}
<1>1. 0 \in S
  <2>1. \A K \in SUBSET (1..0) : K = {}
    OBVIOUS
  <2> QED BY <2>1, ListsNone
<1>2. ASSUME NEW m \in Nat, m \in S PROVE m + 1 \in S
  <2>1. ASSUME NEW K \in SUBSET (1..(m + 1)) PROVE Listable(K)
    <3> DEFINE L == K \ {m + 1}
    <3>1. L \in SUBSET (1..m)
      OBVIOUS
    <3>2. Listable(L)
      BY <1>2, <3>1
    <3>3. K = L \/ K = L \cup {m + 1}
      OBVIOUS
    <3> HIDE DEF L
    <3> QED BY <3>1, <3>2, <3>3, ListsMore
  <2> QED BY <2>1
<1>3. Listable(J)
  <2>1. Nat \subseteq S
    <3> HIDE DEF S
    <3> QED BY <1>1, <1>2, Induction
  <2> QED BY <2>1
<1>4. Lists(Places(J), J)
  <2>1. PICK f : Lists(f, J)
    BY <1>3 DEF Listable
  <2> QED BY <2>1 DEF Lists, Places
<1> QED BY <1>3, <1>4 DEF Listable

(* r is what is left of s when elements are taken out.                     *)
LeftOf(r, s) ==
    \E f \in [DOMAIN r -> DOMAIN s] :
        /\ \A i, j \in DOMAIN r : i < j => f[i] < f[j]
        /\ \A i \in DOMAIN r : r[i] = s[f[i]]

(* A comprehension keeps the order, keeps what it selects, and adds        *)
(* nothing.                                                                *)
LEMMA SelectFact ==
    ASSUME NEW X, NEW s \in Seq(X), NEW J \in SUBSET DOMAIN s
    PROVE  /\ Select(s, J) \in Seq(X) /\ LeftOf(Select(s, J), s)
           /\ \A k \in DOMAIN Select(s, J) : \E i \in J : Select(s, J)[k] = s[i]
           /\ \A i \in J : \E k \in DOMAIN Select(s, J) : Select(s, J)[k] = s[i]
<1> DEFINE f == Places(J)
           c == Cardinality(J)
           r == Select(s, J)
<1>1. Len(s) \in Nat /\ DOMAIN s = 1..Len(s)
  OBVIOUS
<1>2. IsFiniteSet(J) /\ Lists(f, J) /\ c \in Nat
  BY <1>1, PlacesListed, FS_CardinalityType
<1>3. r = [n \in 1..c |-> s[f[n]]]
  BY DEF Select
<1>4. /\ f \in [1..c -> J] /\ J = {f[i] : i \in 1..c}
      /\ \A i, j \in 1..c : i < j => f[i] < f[j]
  BY <1>2 DEF Lists
<1> HIDE DEF f, c, r
<1>5. DOMAIN r = 1..c /\ \A k \in 1..c : f[k] \in J /\ r[k] = s[f[k]] /\ r[k] \in X
  BY <1>1, <1>3, <1>4
<1>6. r \in Seq(X)
  <2>1. r \in [1..c -> X]
    BY <1>3, <1>5
  <2> QED BY <1>2, <2>1
<1>7. LeftOf(r, s)
  <2>1. f \in [DOMAIN r -> DOMAIN s]
    BY <1>1, <1>4, <1>5
  <2> QED BY <1>4, <1>5, <2>1 DEF LeftOf
<1>8. \A i \in J : \E k \in DOMAIN r : r[k] = s[i]
  BY <1>4, <1>5
<1>9. \A k \in DOMAIN r : \E i \in J : r[k] = s[i]
  BY <1>5
<1> QED BY <1>6, <1>7, <1>8, <1>9 DEF r

-----------------------------------------------------------------------------
(* The archive.                                                            *)

Pc == {"new", "cleanup", "choose", "asked", "run", "update", "over"}
Named == Task \cup {Nobody}

(* A topic is no younger than today, has rounds, and all its rounds are of *)
(* tasks that are over and wanted it.                                      *)
Sound(topic) ==
    /\ topic \in Topic /\ topic.active <= day
    /\ Len(topic.history) \in 1..MaxRounds
    /\ TAt(topic.id, "over")
    /\ \A n \in DOMAIN topic.history :
          LET t == topic.history[n]
          IN TAt(t, "over") /\ topic.id \in {t, task[t].chosen}

Sorted(topics) ==
    \A i, j \in DOMAIN topics : i < j =>
        topics[i].id # topics[j].id /\ topics[i].active >= topics[j].active

(* Whoever is between its load and its save has the lock, and so holds     *)
(* what is in the file.                                                    *)
HolderUpToDate ==
    \A t \in Task : task[t].pc \in {"cleanup", "update"}
        => holder = t /\ task[t].list = archive

Listed == Seq(Topic)
TaskType == [pc : Pc, list : Listed, chosen : Named]

TaskTypes ==
    /\ task \in [Task -> TaskType]
    /\ holder \in Named
    /\ day \in 0..MaxDay /\ cleanedOn \in 0..MaxDay \cup {Nobody}
    /\ restarts \in 0..MaxRestart

ArchiveSound ==
    /\ archive \in Seq(Topic)
    /\ \A i \in DOMAIN archive : Sound(archive[i])
    /\ Sorted(archive)

TopicInv == TaskTypes /\ HolderUpToDate /\ ArchiveSound

LEMMA TopicInit == TInit => TopicInv
<1> SUFFICES ASSUME TInit PROVE TopicInv
  OBVIOUS
<1>1. Unborn \in TaskType
  BY DEF Unborn, Pc, Named, TaskType, Listed
<1>2. TaskTypes
  BY <1>1, TopicAssumption DEF TInit, TaskTypes, Named
<1>3. HolderUpToDate /\ ArchiveSound
  BY DEF TInit, HolderUpToDate, ArchiveSound, Unborn, Sorted
<1> QED BY <1>2, <1>3 DEF TopicInv

(* What a task that is over has chosen does not change, and days go by: a  *)
(* sound topic stays sound.                                                *)
OverForGood ==
    /\ day <= day'
    /\ \A t \in Task : TAt(t, "over") =>
          task'[t].pc = "over" /\ task'[t].chosen = task[t].chosen

LEMMA SoundStays ==
    ASSUME TaskTypes, TaskTypes', OverForGood, NEW topic, Sound(topic)
    PROVE  Sound(topic)'
<1>1. /\ topic.id \in Task /\ topic.history \in Seq(Task) /\ topic.active \in Nat
      /\ \A n \in DOMAIN topic.history : topic.history[n] \in Task
  BY DEF Sound, Topic
<1>2. topic.active <= day'
  BY <1>1, TopicAssumption DEF Sound, OverForGood, TaskTypes
<1> QED BY <1>1, <1>2 DEF Sound, OverForGood, TAt

LEMMA SelectSorted ==
    ASSUME NEW s \in Seq(Topic), Sorted(s), NEW r \in Seq(Topic), LeftOf(r, s)
    PROVE  Sorted(r)
  BY DEF Sorted, LeftOf

(* s is r with the topic put in front.                                     *)
Prepended(s, topic, r) ==
    /\ s \in Seq(Topic) /\ Sorted(s)
    /\ \A k \in DOMAIN s : s[k] = topic \/ \E m \in DOMAIN r : s[k] = r[m]
    /\ \E k \in DOMAIN s : s[k] = topic
    /\ \A m \in DOMAIN r : \E k \in DOMAIN s : s[k] = r[m]

LEMMA PutFirst ==
    ASSUME NEW r \in Seq(Topic), Sorted(r), NEW topic \in Topic,
           \A i \in DOMAIN r : r[i].id # topic.id /\ topic.active >= r[i].active
    PROVE  Prepended(<<topic>> \o r, topic, r)
<1> DEFINE s == <<topic>> \o r
<1>1. /\ s \in Seq(Topic) /\ Len(r) \in Nat
      /\ DOMAIN r = 1..Len(r) /\ DOMAIN s = 1..(Len(r) + 1)
      /\ s[1] = topic /\ \A i \in 2..(Len(r) + 1) : s[i] = r[i - 1]
  OBVIOUS
<1> HIDE DEF s
<1>2. \A i \in DOMAIN s : i = 1 \/ (i - 1 \in DOMAIN r /\ s[i] = r[i - 1])
  BY <1>1
<1>3. Sorted(s)
  <2>1. ASSUME NEW i \in DOMAIN s, NEW j \in DOMAIN s, i < j
        PROVE  s[i].id # s[j].id /\ s[i].active >= s[j].active
    <3>1. j - 1 \in DOMAIN r /\ s[j] = r[j - 1] /\ i \in Nat /\ j \in Nat
      BY <1>1, <1>2, <2>1
    <3>2. CASE i = 1
      BY <1>1, <3>1, <3>2
    <3>3. CASE i # 1
      <4>1. i - 1 \in DOMAIN r /\ s[i] = r[i - 1] /\ i - 1 < j - 1
        BY <1>2, <2>1, <3>1, <3>3
      <4> QED BY <3>1, <4>1 DEF Sorted
    <3> QED BY <3>2, <3>3
  <2> QED BY <2>1 DEF Sorted
<1>4. \A k \in DOMAIN r : k + 1 \in DOMAIN s /\ s[k + 1] = r[k]
  BY <1>1
<1>5. 1 \in DOMAIN s
  BY <1>1
<1>6. Prepended(s, topic, r)
  BY <1>1, <1>2, <1>3, <1>4, <1>5 DEF Prepended
<1> QED BY <1>6 DEF s

LEMMA SubSeqOfOne ==
    ASSUME NEW t \in Task
    PROVE  SubSeq(<<t>>, 1, 1) = <<t>>
<1> DEFINE q == <<t>>
<1>1. q \in Seq(Task) /\ Len(q) = 1
  OBVIOUS
<1> HIDE DEF q
<1>2. SubSeq(q, 1, Len(q)) = q
  BY <1>1, SubSeqFull
<1> QED BY <1>1, <1>2 DEF q

(* The last rounds are among the rounds, and never none.                   *)
LEMMA LastRoundsFact ==
    ASSUME NEW h \in Seq(Task), NEW t \in Task
    PROVE  LET r == LastRounds(Append(h, t))
           IN /\ r \in Seq(Task) /\ Len(r) \in 1..MaxRounds
              /\ \A n \in DOMAIN r : r[n] = t \/ \E m \in DOMAIN h : r[n] = h[m]
<1> DEFINE a == Append(h, t)
           b == IF Len(a) > MaxRounds THEN Len(a) - MaxRounds + 1 ELSE 1
           r == SubSeq(a, b, Len(a))
<1>1. /\ a \in Seq(Task) /\ Len(a) = Len(h) + 1 /\ Len(h) \in Nat
      /\ \A n \in 1..Len(a) : a[n] = t \/ \E m \in DOMAIN h : a[n] = h[m]
  OBVIOUS
<1> HIDE DEF a
<1>2. b \in 1..Len(a) /\ Len(a) - b + 1 \in 1..MaxRounds /\ MaxRounds \in Nat
  BY <1>1, TopicAssumption
<1> HIDE DEF b
<1>3. r \in Seq(Task) /\ Len(r) = Len(a) - b + 1 /\ DOMAIN r = 1..Len(r)
  BY <1>1, <1>2, SubSeqProperties
<1>4. \A n \in 1..Len(r) : r[n] = a[b + n - 1] /\ b + n - 1 \in 1..Len(a)
  BY <1>1, <1>2, <1>3, SubSeqProperties
<1> HIDE DEF r
<1>5. \A n \in DOMAIN r : r[n] = t \/ \E m \in DOMAIN h : r[n] = h[m]
  BY <1>1, <1>3, <1>4
<1>6. LastRounds(Append(h, t)) = r
  BY DEF LastRounds, r, b, a
<1> QED BY <1>2, <1>3, <1>5, <1>6

-----------------------------------------------------------------------------
(* The two ways the archive is written.                                    *)

(* What becomes of a topic: nothing, or its task extends it.               *)
Continued(topic, later) ==
    /\ later.id = topic.id
    /\ \/ later.history = topic.history
       \/ \E t \in Task : later.history = LastRounds(Append(topic.history, t))

LEMMA CleanedFact ==
    ASSUME ArchiveSound
    PROVE  LET s == Select(archive, FreshIn(archive))
           IN /\ s \in Seq(Topic) /\ Sorted(s)
              /\ \A k \in DOMAIN s : Sound(s[k])
              /\ \A i \in DOMAIN archive : Fresh(archive[i]) =>
                    \E k \in DOMAIN s : s[k] = archive[i]
              /\ \A k \in DOMAIN s : \E i \in DOMAIN archive :
                    Fresh(archive[i]) /\ s[k] = archive[i]
<1> DEFINE s == Select(archive, FreshIn(archive))
<1>1. archive \in Seq(Topic) /\ FreshIn(archive) \in SUBSET DOMAIN archive
  BY DEF ArchiveSound, FreshIn
<1>2. /\ s \in Seq(Topic) /\ LeftOf(s, archive)
      /\ \A k \in DOMAIN s : \E i \in FreshIn(archive) : s[k] = archive[i]
      /\ \A i \in FreshIn(archive) : \E k \in DOMAIN s : s[k] = archive[i]
  BY <1>1, SelectFact, Zenon
<1> HIDE DEF s
<1>3. Sorted(s)
  BY <1>1, <1>2, SelectSorted DEF ArchiveSound
<1>4. \A k \in DOMAIN s : Sound(s[k])
  BY <1>2 DEF ArchiveSound, FreshIn
<1>5. \A i \in DOMAIN archive : Fresh(archive[i]) => \E k \in DOMAIN s : s[k] = archive[i]
  BY <1>2 DEF FreshIn
<1>6. \A k \in DOMAIN s : \E i \in DOMAIN archive : Fresh(archive[i]) /\ s[k] = archive[i]
  BY <1>2 DEF FreshIn
<1> QED BY <1>2, <1>3, <1>4, <1>5, <1>6 DEF s

(* A topic t has just put its round in.                                    *)
Dated(topic, t) ==
    /\ topic \in Topic /\ topic.active = day
    /\ Len(topic.history) \in 1..MaxRounds
    /\ topic.id = t \/ TAt(topic.id, "over")
    /\ topic.id \in {t, task[t].chosen}
    /\ \A n \in DOMAIN topic.history :
          LET u == topic.history[n]
          IN u = t \/ (TAt(u, "over") /\ topic.id \in {u, task[u].chosen})

(* s is the archive with the topic id renewed, or added.                   *)
Renews(s, id, new) ==
    /\ new.id = id /\ \E k \in DOMAIN s : s[k] = new
    /\ \A k \in DOMAIN s :
          s[k] = new \/ \E i \in DOMAIN archive : archive[i].id # id /\ s[k] = archive[i]
    /\ \A i \in DOMAIN archive : archive[i].id # id => \E k \in DOMAIN s : s[k] = archive[i]

RoundsOf(id) == IF id \in Ids(archive) THEN archive[Find(archive, id)].history ELSE <<>>

Extends(s, t) ==
    \E id \in Ids(archive) \cup {t}, new \in Topic :
        /\ Renews(s, id, new)
        /\ new.active = day /\ new.history = LastRounds(Append(RoundsOf(id), t))

(* The round of t is put first, in the topic t chose if that is there.     *)
LEMMA UpdatedFact ==
    ASSUME TaskTypes, ArchiveSound, NEW t \in Task, ~TAt(t, "over")
    PROVE  LET s == Updated(archive, task[t].chosen, t)
           IN /\ s \in Seq(Topic) /\ Sorted(s)
              /\ \A i \in DOMAIN archive : \E k \in DOMAIN s : Continued(archive[i], s[k])
              /\ \A k \in DOMAIN s : Sound(s[k]) \/ Dated(s[k], t)
              /\ Extends(s, t)
<1> DEFINE id == task[t].chosen
           s == Updated(archive, id, t)
<1>1. archive \in Seq(Topic) /\ Sorted(archive) /\ \A i \in DOMAIN archive : Sound(archive[i])
  BY DEF ArchiveSound
<1>2. day \in Nat /\ MaxRounds \in Nat \ {0}
  BY TopicAssumption DEF TaskTypes
<1>3. \A i \in DOMAIN archive : /\ archive[i] \in Topic /\ archive[i].id \in Task
                                /\ archive[i].active \in Nat /\ day >= archive[i].active
  BY <1>1, <1>2 DEF Sound, Topic
<1>4. CASE id \in Ids(archive)
  <2> DEFINE place == Find(archive, id)
             old == archive[place]
             J == OthersIn(archive, id)
             r == Select(archive, J)
             h == LastRounds(Append(old.history, t))
             new == [old EXCEPT !.history = h, !.active = day]
  <2>1. place \in DOMAIN archive /\ old.id = id
    BY <1>4 DEF Find, Ids
  <2>2. s = <<new>> \o r
    BY <1>4 DEF Updated
  <2> HIDE DEF place
  <2>3. Sound(old) /\ old \in Topic /\ old.history \in Seq(Task)
    BY <1>1, <1>3, <2>1 DEF Topic
  <2>4. /\ h \in Seq(Task) /\ Len(h) \in 1..MaxRounds
        /\ \A n \in DOMAIN h : h[n] = t \/ \E m \in DOMAIN old.history : h[n] = old.history[m]
    BY <2>3, LastRoundsFact
  <2>5. new \in Topic /\ new.id = id /\ new.history = h /\ new.active = day
    BY <1>2, <2>1, <2>3, <2>4 DEF Topic
  <2>6. Dated(new, t)
    <3>1. TAt(id, "over")
      BY <2>1, <2>3 DEF Sound
    <3>2. ASSUME NEW n \in DOMAIN h
          PROVE  h[n] = t \/ (TAt(h[n], "over") /\ id \in {h[n], task[h[n]].chosen})
      BY <2>1, <2>3, <2>4 DEF Sound
    <3> HIDE DEF new, h
    <3> QED BY <2>4, <2>5, <3>1, <3>2 DEF Dated
  <2>7. J \in SUBSET DOMAIN archive
    BY DEF OthersIn
  <2>8. /\ r \in Seq(Topic) /\ LeftOf(r, archive)
        /\ \A k \in DOMAIN r : \E i \in J : r[k] = archive[i]
        /\ \A i \in J : \E k \in DOMAIN r : r[k] = archive[i]
    BY <1>1, <2>7, SelectFact, Zenon
  <2>9. \A k \in DOMAIN r : /\ Sound(r[k]) /\ r[k].id # id /\ day >= r[k].active
    BY <1>1, <1>3, <2>8 DEF OthersIn
  <2> HIDE DEF r, new, old, h
  <2>10. Sorted(r)
    BY <1>1, <2>8, SelectSorted
  <2>11. /\ s \in Seq(Topic) /\ Sorted(s)
         /\ \A k \in DOMAIN s : s[k] = new \/ \E m \in DOMAIN r : s[k] = r[m]
         /\ \E k \in DOMAIN s : s[k] = new
         /\ \A m \in DOMAIN r : \E k \in DOMAIN s : s[k] = r[m]
    <3>1. \A k \in DOMAIN r : r[k].id # new.id /\ new.active >= r[k].active
      BY <2>5, <2>9
    <3> HIDE DEF s
    <3>2. r \in Seq(Topic) /\ new \in Topic /\ Sorted(r) /\ s = <<new>> \o r
      BY <2>2, <2>5, <2>8, <2>10
    <3>3. Prepended(s, new, r)
      BY <3>1, <3>2, PutFirst
    <3> QED BY <3>3 DEF Prepended
  <2>12. ASSUME NEW i \in DOMAIN archive PROVE \E k \in DOMAIN s : Continued(archive[i], s[k])
    <3>1. CASE i \in J
      <4>1. PICK k \in DOMAIN s : s[k] = archive[i]
        BY <2>8, <2>11, <3>1
      <4> QED BY <4>1 DEF Continued
    <3>2. CASE i \notin J
      <4>1. archive[i].id = id
        BY <3>2 DEF OthersIn
      <4>2. i = place
        <5>1. i \in Nat /\ place \in Nat /\ archive[i].id = archive[place].id
          BY <1>1, <2>1, <4>1 DEF old
        <5>2. ~(i < place) /\ ~(place < i)
          BY <1>1, <2>1, <5>1 DEF Sorted
        <5> QED BY <5>1, <5>2
      <4>3. PICK k \in DOMAIN s : s[k] = new
        BY <2>11
      <4>4. Continued(archive[i], new)
        BY <2>5, <4>1, <4>2 DEF Continued, h, old
      <4> QED BY <4>3, <4>4
    <3> QED BY <3>1, <3>2
  <2>13. \A k \in DOMAIN s : Sound(s[k]) \/ Dated(s[k], t)
    <3> HIDE DEF s
    <3> QED BY <2>6, <2>9, <2>11
  <2>14. Extends(s, t)
    <3>1. new.active = day /\ new.history = LastRounds(Append(RoundsOf(id), t))
      BY <1>4, <2>5 DEF RoundsOf, h, old, place
    <3>2. Renews(s, id, new)
      <4> HIDE DEF s
      <4>1. \A k \in DOMAIN r : \E i \in DOMAIN archive : archive[i].id # id /\ r[k] = archive[i]
        BY <2>8 DEF OthersIn
      <4>2. \A i \in DOMAIN archive : archive[i].id # id => \E k \in DOMAIN r : r[k] = archive[i]
        BY <2>8 DEF OthersIn
      <4>3. \A k \in DOMAIN s :
               s[k] = new \/ \E i \in DOMAIN archive : archive[i].id # id /\ s[k] = archive[i]
        BY <2>11, <4>1
      <4>4. \A i \in DOMAIN archive : archive[i].id # id => \E k \in DOMAIN s : s[k] = archive[i]
        BY <2>11, <4>2
      <4> QED BY <2>5, <2>11, <4>3, <4>4 DEF Renews
    <3> HIDE DEF s
    <3> QED BY <1>4, <2>5, <3>1, <3>2 DEF Extends
  <2> QED BY <2>11, <2>12, <2>13, <2>14
<1>5. CASE id \notin Ids(archive)
  <2> DEFINE new == [id |-> t, history |-> <<t>>, active |-> day]
  <2>1. s = <<new>> \o archive
    BY <1>5 DEF Updated
  <2>2. new \in Topic /\ Dated(new, t)
    BY <1>2, TopicAssumption DEF Topic, Dated
  <2>3. \A i \in DOMAIN archive : archive[i].id # t
    BY <1>1 DEF Sound
  <2>4. new.id = t /\ new.active = day
    OBVIOUS
  <2> HIDE DEF new
  <2>5. /\ s \in Seq(Topic) /\ Sorted(s)
        /\ \A k \in DOMAIN s : s[k] = new \/ \E m \in DOMAIN archive : s[k] = archive[m]
        /\ \E k \in DOMAIN s : s[k] = new
        /\ \A m \in DOMAIN archive : \E k \in DOMAIN s : s[k] = archive[m]
    <3>1. \A k \in DOMAIN archive : archive[k].id # new.id /\ new.active >= archive[k].active
      BY <1>3, <2>3, <2>4
    <3> HIDE DEF s
    <3>2. archive \in Seq(Topic) /\ new \in Topic /\ Sorted(archive) /\ s = <<new>> \o archive
      BY <1>1, <2>1, <2>2
    <3>3. Prepended(s, new, archive)
      BY <3>1, <3>2, PutFirst
    <3> QED BY <3>3 DEF Prepended
  <2>6. \A i \in DOMAIN archive : \E k \in DOMAIN s : Continued(archive[i], s[k])
    BY <2>5 DEF Continued
  <2>7. \A k \in DOMAIN s : Sound(s[k]) \/ Dated(s[k], t)
    <3> HIDE DEF s
    <3> QED BY <1>1, <2>2, <2>5
  <2>8. t \notin Ids(archive) /\ new.history = <<t>>
    BY <2>3 DEF Ids, new
  <2>9. Extends(s, t)
    <3>1. RoundsOf(t) = <<>> /\ LastRounds(Append(<<>>, t)) = <<t>>
      <4>1. Append(<<>>, t) = <<t>> /\ Len(<<t>>) = 1
        OBVIOUS
      <4>2. LastRounds(<<t>>) = SubSeq(<<t>>, 1, 1)
        BY <1>2, <4>1 DEF LastRounds
      <4>3. SubSeq(<<t>>, 1, 1) = <<t>>
        BY SubSeqOfOne
      <4> QED BY <2>8, <4>1, <4>2, <4>3 DEF RoundsOf
    <3>2. Renews(s, t, new)
      <4> HIDE DEF s
      <4>1. \A k \in DOMAIN s :
               s[k] = new \/ \E i \in DOMAIN archive : archive[i].id # t /\ s[k] = archive[i]
        BY <2>3, <2>5
      <4>2. \A i \in DOMAIN archive : archive[i].id # t => \E k \in DOMAIN s : s[k] = archive[i]
        BY <2>5
      <4>3. new.id = t
        BY <2>4
      <4>4. \E k \in DOMAIN s : s[k] = new
        BY <2>5
      <4> QED BY <4>1, <4>2, <4>3, <4>4, Zenon DEF Renews
    <3> HIDE DEF s
    <3> QED BY <2>2, <2>4, <2>8, <3>1, <3>2 DEF Extends
  <2> QED BY <2>5, <2>6, <2>7, <2>9
<1> QED BY <1>4, <1>5

-----------------------------------------------------------------------------
(* The steps.                                                              *)

(* Steps that leave the archive alone: the types, who holds the lock, and  *)
(* that what is over stays over.                                           *)
LEMMA ArchiveUntouched ==
    ASSUME TopicInv, UNCHANGED archive, TaskTypes', OverForGood, HolderUpToDate'
    PROVE  TopicInv'
<1>1. \A i \in DOMAIN archive : Sound(archive[i])'
  BY SoundStays DEF TopicInv, ArchiveSound
<1>2. ArchiveSound'
  BY <1>1 DEF TopicInv, ArchiveSound, Sorted
<1> QED BY <1>2 DEF TopicInv

(* One task moves, the others stay where they are.                         *)
Moves(t, r) == task' = [task EXCEPT ![t] = r]

LEMMA OneMoves ==
    ASSUME TaskTypes, NEW t \in Task, ~TAt(t, "over"), NEW r \in TaskType, Moves(t, r),
           holder' \in Named, cleanedOn' \in {cleanedOn, day}, UNCHANGED <<day, restarts>>
    PROVE  /\ TaskTypes' /\ OverForGood
           /\ task'[t] = r /\ \A u \in Task : u # t => task'[u] = task[u]
<1>1. /\ task' \in [Task -> TaskType] /\ task'[t] = r
      /\ \A u \in Task : u # t => task'[u] = task[u]
  BY DEF TaskTypes, Moves
<1>2. TaskTypes'
  BY <1>1 DEF TaskTypes
<1>3. day <= day'
  BY TopicAssumption DEF TaskTypes
<1>4. OverForGood
  BY <1>1, <1>3 DEF OverForGood, TAt
<1> QED BY <1>1, <1>2, <1>4

(* What the steps of a task make of it.                                    *)
LEMMA WithFields ==
    ASSUME NEW q \in TaskType, NEW pc \in Pc, NEW list \in Listed, NEW chosen \in Named
    PROVE  /\ [q EXCEPT !.pc = pc] \in TaskType
           /\ [q EXCEPT !.pc = pc, !.list = list] \in TaskType
           /\ [q EXCEPT !.pc = pc, !.chosen = chosen] \in TaskType
  BY DEF TaskType

LEMMA NoneListed == <<>> \in Listed
  BY DEF Listed

LEMMA MovesTo ==
    ASSUME TaskTypes, NEW t \in Task, NEW pc \in Pc, task' = [task EXCEPT ![t].pc = pc]
    PROVE  \E r \in TaskType : Moves(t, r) /\ r.pc = pc
<1> DEFINE r == [task[t] EXCEPT !.pc = pc]
<1>1. task[t] \in TaskType
  BY DEF TaskTypes
<1>2. r \in TaskType
  BY <1>1, WithFields, NoneListed, Zenon DEF Named
<1>3. Moves(t, r) /\ r.pc = pc
  BY <1>1 DEF Moves, TaskTypes, TaskType
<1> QED BY <1>2, <1>3

GoesWith(t, pc, list) == task' = [task EXCEPT ![t].pc = pc, ![t].list = list]

LEMMA MovesWith ==
    ASSUME TaskTypes, NEW t \in Task, NEW pc \in Pc, NEW list \in Listed,
           GoesWith(t, pc, list)
    PROVE  \E r \in TaskType : /\ Moves(t, r) /\ r.pc = pc /\ r.list = list
                               /\ r.chosen = task[t].chosen
<1> DEFINE r == [task[t] EXCEPT !.pc = pc, !.list = list]
<1>1. task[t] \in TaskType
  BY DEF TaskTypes
<1>2. r \in TaskType
  BY <1>1, WithFields, Zenon DEF Named
<1>3. Moves(t, r) /\ r.pc = pc /\ r.list = list /\ r.chosen = task[t].chosen
  BY <1>1 DEF Moves, GoesWith, TaskTypes, TaskType
<1> QED BY <1>2, <1>3

LEMMA MovesChoosing ==
    ASSUME TaskTypes, NEW t \in Task, NEW pc \in Pc, NEW chosen \in Named,
           task' = [task EXCEPT ![t].pc = pc, ![t].chosen = chosen]
    PROVE  \E r \in TaskType : Moves(t, r) /\ r.pc = pc
<1> DEFINE r == [task[t] EXCEPT !.pc = pc, !.chosen = chosen]
<1>1. task[t] \in TaskType
  BY DEF TaskTypes
<1>2. r \in TaskType
  BY <1>1, WithFields, NoneListed, Zenon DEF Named
<1>3. Moves(t, r) /\ r.pc = pc
  BY <1>1 DEF Moves, TaskTypes, TaskType
<1> QED BY <1>2, <1>3

(* A task that is between its load and its save holds the lock and what it *)
(* loaded; one that is not, need not.                                      *)
LEMMA HolderStays ==
    ASSUME TaskTypes, HolderUpToDate, NEW t \in Task, holder \in {t, Nobody},
           \A u \in Task : u # t => task'[u] = task[u],
           task'[t].pc \in {"cleanup", "update"} => holder' = t /\ task'[t].list = archive'
    PROVE  HolderUpToDate'
<1>1. \A u \in Task : u # t => task'[u].pc \notin {"cleanup", "update"}
  BY TopicAssumption DEF HolderUpToDate
<1> QED BY <1>1 DEF HolderUpToDate

(* A task that does not touch the lock is not between its load and save.   *)
LEMMA OthersHold ==
    ASSUME TaskTypes, HolderUpToDate, NEW t \in Task, UNCHANGED <<holder, archive>>,
           \A u \in Task : u # t => task'[u] = task[u],
           task'[t].pc \notin {"cleanup", "update"}
    PROVE  HolderUpToDate'
  BY DEF HolderUpToDate

LEMMA BeginsKeep ==
    ASSUME TopicInv, NEW t \in Task, TBegins(t)
    PROVE  TopicInv'
<1>0. archive \in Listed /\ TaskTypes /\ HolderUpToDate /\ ~TAt(t, "over")
  BY DEF ArchiveSound, Listed, TopicInv, TBegins, CleanedAlready, CleanupBegins, TAt
<1>1. CASE CleanedAlready(t)
  <2>1. "choose" \in Pc /\ Nobody \in Named /\ task' = [task EXCEPT ![t].pc = "choose"]
    BY <1>1 DEF Pc, Named, CleanedAlready, TGoto
  <2>2. PICK r \in TaskType : Moves(t, r) /\ r.pc = "choose"
    BY <1>0, <2>1, MovesTo
  <2>3. UNCHANGED <<archive, holder, day, cleanedOn, restarts>> /\ holder \in Named
    BY <1>0, <1>1 DEF CleanedAlready, TaskTypes
  <2>4. /\ TaskTypes' /\ OverForGood
        /\ task'[t] = r /\ \A u \in Task : u # t => task'[u] = task[u]
    BY <1>0, <2>2, <2>3, OneMoves
  <2>5. HolderUpToDate'
    BY <1>0, <2>2, <2>3, <2>4, OthersHold
  <2> QED BY <2>3, <2>4, <2>5, ArchiveUntouched
<1>2. CASE CleanupBegins(t)
  <2>1. /\ "cleanup" \in Pc /\ Nobody \in Named
        /\ GoesWith(t, "cleanup", archive)
    BY <1>2 DEF Pc, Named, CleanupBegins, LocksAndLoads, GoesWith
  <2>2. PICK r \in TaskType : Moves(t, r) /\ r.pc = "cleanup" /\ r.list = archive
    BY <1>0, <2>1, MovesWith
  <2>3. /\ UNCHANGED <<archive, day, restarts>> /\ cleanedOn' = day
        /\ holder = Nobody /\ holder' = t /\ t \in Named
    BY <1>2 DEF CleanupBegins, LocksAndLoads, Named
  <2>4. /\ TaskTypes' /\ OverForGood
        /\ task'[t] = r /\ \A u \in Task : u # t => task'[u] = task[u]
    BY <1>0, <2>2, <2>3, OneMoves
  <2>5. HolderUpToDate'
    BY <1>0, <2>2, <2>3, <2>4, HolderStays
  <2> QED BY <2>3, <2>4, <2>5, ArchiveUntouched
<1> QED BY <1>1, <1>2 DEF TBegins

LEMMA CleanupKeeps ==
    ASSUME TopicInv, NEW t \in Task, CleanupSaves(t)
    PROVE  /\ TopicInv'
           /\ \A i \in DOMAIN archive : Fresh(archive[i]) =>
                 \E k \in DOMAIN archive' : Continued(archive[i], archive'[k])
<1> DEFINE s == Select(archive, FreshIn(archive))
<1>1. /\ task[t].list = archive /\ holder = t /\ archive' \in {archive, s}
      /\ holder' = Nobody /\ UNCHANGED <<day, cleanedOn, restarts>>
      /\ GoesWith(t, "choose", <<>>)
      /\ ~TAt(t, "over") /\ TaskTypes /\ HolderUpToDate
  BY DEF CleanupSaves, GoesWith, TAt, TopicInv, HolderUpToDate
<1>2. s \in Seq(Topic) /\ \A k \in DOMAIN s : Sound(s[k])
  BY CleanedFact DEF TopicInv
<1>3. /\ Sorted(s)
      /\ \A i \in DOMAIN archive : Fresh(archive[i]) => \E k \in DOMAIN s : s[k] = archive[i]
  BY CleanedFact DEF TopicInv
<1>4. "choose" \in Pc /\ Nobody \in Named /\ <<>> \in Listed
  BY NoneListed DEF Pc, Named
<1>5. PICK r \in TaskType : Moves(t, r) /\ r.pc = "choose"
  BY <1>1, <1>4, MovesWith
<1> HIDE DEF s
<1>6. /\ TaskTypes' /\ OverForGood
      /\ task'[t] = r /\ \A u \in Task : u # t => task'[u] = task[u]
  BY <1>1, <1>4, <1>5, OneMoves
<1>7. HolderUpToDate'
  BY <1>1, <1>5, <1>6, HolderStays
<1>8. CASE archive' = archive
  BY <1>6, <1>7, <1>8, ArchiveUntouched DEF Continued
<1>9. CASE archive' = s
  <2>1. ASSUME NEW topic, Sound(topic) PROVE Sound(topic)'
    BY <1>1, <1>6, <2>1, SoundStays
  <2>2. \A k \in DOMAIN archive' : Sound(archive'[k])
    BY <1>2, <1>9
  <2>3. (\A k \in DOMAIN archive : Sound(archive[k]))'
    BY <2>1, <2>2 DEF Sound
  <2>4. ArchiveSound'
    BY <1>2, <1>3, <1>9, <2>3 DEF ArchiveSound, Sorted
  <2> QED BY <1>3, <1>6, <1>7, <1>9, <2>4 DEF TopicInv, Continued
<1> QED BY <1>1, <1>8, <1>9

LEMMA UpdateKeeps ==
    ASSUME TopicInv, NEW t \in Task, UpdateSaves(t)
    PROVE  /\ TopicInv'
           /\ \A i \in DOMAIN archive :
                 \E k \in DOMAIN archive' : Continued(archive[i], archive'[k])
<1> DEFINE s == Updated(archive, task[t].chosen, t)
<1>1. /\ task[t].list = archive /\ holder = t /\ archive' \in {archive, s}
      /\ holder' = Nobody /\ UNCHANGED <<day, cleanedOn, restarts>>
      /\ GoesWith(t, "over", <<>>)
      /\ ~TAt(t, "over") /\ TaskTypes /\ HolderUpToDate
  BY DEF UpdateSaves, GoesWith, TEnds, TAt, TopicInv, HolderUpToDate
<1>2. s \in Seq(Topic) /\ Sorted(s)
  BY <1>1, UpdatedFact DEF TopicInv
<1>3. /\ \A i \in DOMAIN archive : \E k \in DOMAIN s : Continued(archive[i], s[k])
      /\ \A k \in DOMAIN s : Sound(s[k]) \/ Dated(s[k], t)
  BY <1>1, UpdatedFact DEF TopicInv
<1>4. "over" \in Pc /\ Nobody \in Named /\ <<>> \in Listed
  BY NoneListed DEF Pc, Named
<1>5. PICK r \in TaskType : Moves(t, r) /\ r.pc = "over" /\ r.chosen = task[t].chosen
  BY <1>1, <1>4, MovesWith
<1> HIDE DEF s
<1>7. /\ TaskTypes' /\ OverForGood
      /\ task'[t] = r /\ \A u \in Task : u # t => task'[u] = task[u]
  BY <1>1, <1>4, <1>5, OneMoves
<1>8. HolderUpToDate'
  BY <1>1, <1>5, <1>7, HolderStays
<1>9. CASE archive' = archive
  BY <1>7, <1>8, <1>9, ArchiveUntouched DEF Continued
<1>10. CASE archive' = s
  <2>1. ASSUME NEW topic, Dated(topic, t) PROVE Sound(topic)'
    <3>1. topic.id \in Task /\ \A n \in DOMAIN topic.history : topic.history[n] \in Task
      BY <2>1 DEF Dated, Topic
    <3>2. topic.active <= day'
      BY <1>1, <2>1, TopicAssumption DEF Dated, TaskTypes
    <3> QED BY <1>5, <1>7, <2>1, <3>1, <3>2 DEF Dated, Sound, TAt
  <2>2. ASSUME NEW topic, Sound(topic) PROVE Sound(topic)'
    BY <1>1, <1>7, <2>2, SoundStays
  <2>3. \A k \in DOMAIN archive' : Sound(archive'[k]) \/ Dated(archive'[k], t)
    BY <1>3, <1>10
  <2>4. (\A k \in DOMAIN archive : Sound(archive[k]))'
    BY <2>1, <2>2, <2>3
  <2>5. ArchiveSound'
    BY <1>2, <1>10, <2>4 DEF ArchiveSound, Sorted
  <2> QED BY <1>3, <1>7, <1>8, <1>10, <2>5 DEF TopicInv
<1> QED BY <1>1, <1>9, <1>10

LEMMA LoadKeeps ==
    ASSUME TopicInv, NEW t \in Task, UpdateLoads(t)
    PROVE  TopicInv'
<1>1. /\ archive \in Listed /\ TaskTypes /\ HolderUpToDate /\ ~TAt(t, "over")
      /\ UNCHANGED <<archive, day, cleanedOn, restarts>>
      /\ holder = Nobody /\ holder' = t /\ t \in Named
      /\ "update" \in Pc /\ Nobody \in Named
      /\ GoesWith(t, "update", archive)
  BY DEF ArchiveSound, Listed, TopicInv, UpdateLoads, LocksAndLoads, GoesWith, TAt, Named, Pc
<1>2. PICK r \in TaskType : Moves(t, r) /\ r.pc = "update" /\ r.list = archive
  BY <1>1, MovesWith
<1>3. /\ TaskTypes' /\ OverForGood
      /\ task'[t] = r /\ \A u \in Task : u # t => task'[u] = task[u]
  BY <1>1, <1>2, OneMoves
<1>4. HolderUpToDate'
  BY <1>1, <1>2, <1>3, HolderStays
<1> QED BY <1>1, <1>3, <1>4, ArchiveUntouched

(* The steps without the lock.                                             *)
LEMMA FreeStepsKeep ==
    ASSUME TopicInv, NEW t \in Task, Looks(t) \/ Chooses(t) \/ EndsWithout(t)
    PROVE  TopicInv'
<1>1. /\ archive \in Listed /\ TaskTypes /\ HolderUpToDate /\ ~TAt(t, "over")
      /\ UNCHANGED <<archive, holder, day, cleanedOn, restarts>>
      /\ Nobody \in Named /\ {"asked", "run", "over"} \subseteq Pc /\ <<>> \in Listed
  BY NoneListed DEF ArchiveSound, Listed, TopicInv, Looks, Chooses, EndsWithout, TAt, Named, Pc
<1>2. \E r \in TaskType : Moves(t, r) /\ r.pc \in {"asked", "run", "over"}
  <2>1. CASE Looks(t)
    <3>1. GoesWith(t, "asked", archive) /\ "asked" \in Pc
      BY <1>1, <2>1 DEF Looks, GoesWith
    <3> QED BY <1>1, <3>1, MovesWith
  <2>2. CASE Chooses(t)
    <3>1. Ids(task[t].list) \subseteq Task
      <4>1. task[t].list \in Seq(Topic)
        BY <1>1 DEF TaskTypes, TaskType, Listed
      <4>2. \A i \in DOMAIN task[t].list : task[t].list[i] \in Topic
        BY <4>1
      <4> QED BY <4>2 DEF Ids, Topic
    <3>2. PICK id \in Named : task' = [task EXCEPT ![t].pc = "run", ![t].chosen = id]
      BY <2>2, <3>1 DEF Chooses, Named
    <3>3. "run" \in Pc
      BY <1>1
    <3> QED BY <1>1, <3>2, <3>3, MovesChoosing
  <2>3. CASE EndsWithout(t)
    <3>1. GoesWith(t, "over", <<>>) /\ "over" \in Pc
      BY <1>1, <2>3 DEF EndsWithout, TEnds, GoesWith
    <3> QED BY <1>1, <3>1, MovesWith
  <2> QED BY <2>1, <2>2, <2>3
<1>3. PICK r \in TaskType : Moves(t, r) /\ r.pc \in {"asked", "run", "over"}
  BY <1>2
<1>4. holder' \in Named
  BY <1>1 DEF TaskTypes
<1>5. /\ TaskTypes' /\ OverForGood
      /\ task'[t] = r /\ \A u \in Task : u # t => task'[u] = task[u]
  BY <1>1, <1>3, <1>4, OneMoves
<1>6. HolderUpToDate'
  BY <1>1, <1>3, <1>5, OthersHold
<1> QED BY <1>1, <1>5, <1>6, ArchiveUntouched

LEMMA RestartKeeps ==
    ASSUME TopicInv, Restart
    PROVE  TopicInv'
<1>1. /\ TaskTypes /\ UNCHANGED <<archive, day>> /\ holder' = Nobody /\ cleanedOn' = Nobody
      /\ restarts' \in 0..MaxRestart /\ Nobody \in Named
  <2>1. restarts \in 0..MaxRestart /\ restarts < MaxRestart /\ restarts' = restarts + 1
    BY DEF TopicInv, TaskTypes, Restart
  <2>2. restarts' \in 0..MaxRestart
    BY <2>1, TopicAssumption
  <2> QED BY <2>2 DEF TopicInv, Restart, Named
<1>2. ASSUME NEW t \in Task
      PROVE  /\ task'[t] \in TaskType /\ task'[t].chosen = task[t].chosen
             /\ task'[t].pc \in {"new", "over"} /\ (TAt(t, "over") => task'[t].pc = "over")
  <2> DEFINE r == [task[t] EXCEPT !.pc = "over", !.list = <<>>]
  <2>1. "over" \in Pc /\ <<>> \in Listed /\ task[t] \in TaskType
    BY <1>1, NoneListed DEF Pc, TaskTypes
  <2>2. r \in TaskType
    BY <2>1, WithFields, Zenon DEF Named
  <2>3. r.pc = "over" /\ r.chosen = task[t].chosen
    BY <2>1 DEF TaskType
  <2>4. task'[t] = IF TAt(t, "new") THEN task[t] ELSE r
    BY DEF Restart
  <2> HIDE DEF r
  <2> QED BY <2>1, <2>2, <2>3, <2>4 DEF TAt
<1>3. task' \in [Task -> TaskType]
  <2>1. DOMAIN task' = Task /\ task' = [t \in Task |-> task'[t]]
    BY DEF Restart
  <2> QED BY <1>2, <2>1
<1>4. TaskTypes'
  BY <1>1, <1>3 DEF TaskTypes
<1>5. day <= day'
  BY <1>1, TopicAssumption DEF TaskTypes
<1>6. OverForGood
  BY <1>2, <1>5 DEF OverForGood
<1>7. HolderUpToDate'
  BY <1>2 DEF HolderUpToDate
<1> QED BY <1>1, <1>4, <1>6, <1>7, ArchiveUntouched

LEMMA WorldKeeps ==
    ASSUME TopicInv, NextDay \/ UNCHANGED tvars
    PROVE  TopicInv'
<1>1. /\ TaskTypes /\ UNCHANGED <<archive, holder, task, cleanedOn, restarts>>
      /\ day' \in 0..MaxDay /\ day <= day'
  BY TopicAssumption DEF TopicInv, TaskTypes, NextDay, tvars
<1>2. TaskTypes' /\ OverForGood /\ HolderUpToDate'
  BY <1>1 DEF TopicInv, TaskTypes, OverForGood, HolderUpToDate, TAt
<1> QED BY <1>1, <1>2, ArchiveUntouched

(* Every step keeps the invariant, and every topic that is not too old.    *)
LEMMA TopicNext ==
    ASSUME TopicInv, [TNext]_tvars
    PROVE  /\ TopicInv'
           /\ \A i \in DOMAIN archive : Fresh(archive[i]) =>
                 \E k \in DOMAIN archive' : Continued(archive[i], archive'[k])
<1>1. UNCHANGED archive => \A i \in DOMAIN archive :
         \E k \in DOMAIN archive' : Continued(archive[i], archive'[k])
  BY DEF Continued
<1>2. ASSUME NEW t \in Task, TBegins(t) PROVE TopicInv' /\ UNCHANGED archive
  BY <1>2, BeginsKeep DEF TBegins, CleanedAlready, CleanupBegins
<1>3. ASSUME NEW t \in Task, Looks(t) \/ Chooses(t) \/ EndsWithout(t) \/ UpdateLoads(t)
      PROVE  TopicInv' /\ UNCHANGED archive
  BY <1>3, FreeStepsKeep, LoadKeeps DEF Looks, Chooses, EndsWithout, UpdateLoads
<1>4. ASSUME NextDay \/ Restart \/ UNCHANGED tvars PROVE TopicInv' /\ UNCHANGED archive
  BY <1>4, RestartKeeps, WorldKeeps DEF NextDay, Restart, tvars
<1> QED BY <1>1, <1>2, <1>3, <1>4, CleanupKeeps, UpdateKeeps DEF TNext, TSteps

LEMMA TopicAlways == TSpec => []TopicInv
<1>1. TopicInv /\ [TNext]_tvars => TopicInv'
  BY TopicNext
<1> QED BY <1>1, TopicInit, PTL DEF TSpec

(* The file, the lock and the tasks keep their types, and no topic is      *)
(* without rounds or has too many of them (topic_state.py:197).            *)
THEOREM TTyped == TSpec => []TTypeOK
<1>1. TopicInv => TTypeOK
  <2> SUFFICES ASSUME TopicInv PROVE TTypeOK
    OBVIOUS
  <2>1. ASSUME NEW i \in DOMAIN archive
        PROVE  /\ archive[i] \in [id : Task, history : Seq(Task), active : 0..MaxDay]
               /\ Len(archive[i].history) \in 1..MaxRounds
    BY TopicAssumption DEF TopicInv, ArchiveSound, Sound, Topic, TaskTypes
  <2>2. \A t \in Task : task[t].pc \in Pc
    BY DEF TopicInv, TaskTypes, TaskType
  <2> QED BY <2>1, <2>2 DEF TTypeOK, TopicInv, TaskTypes, Pc, Named
<1> QED BY <1>1, TopicAlways, PTL

(* Every round is in the topic its task chose, or in one of its own, for   *)
(* any number of tasks that choose, clean up and extend at the same time.  *)
THEOREM WhereChosen == TSpec => []RoundWhereChosen
<1>1. TopicInv => RoundWhereChosen
  BY DEF TopicInv, ArchiveSound, Sound, RoundWhereChosen
<1> QED BY <1>1, TopicAlways, PTL

(* No two topics have one name, and the latest come first.                 *)
THEOREM LatestAreFirst == TSpec => []LatestFirst
<1>1. TopicInv => LatestFirst
  BY DEF TopicInv, ArchiveSound, Sorted, LatestFirst
<1> QED BY <1>1, TopicAlways, PTL

(* No round is lost but by age, or by later rounds of its own topic.       *)
THEOREM NoRoundLost == TSpec => RoundsKept
<1>1. TopicInv /\ [TNext]_tvars =>
        [\A i \in DOMAIN archive : Fresh(archive[i]) =>
            \E j \in DOMAIN archive' :
               /\ archive'[j].id = archive[i].id
               /\ \/ archive'[j].history = archive[i].history
                  \/ \E t \in Task :
                        archive'[j].history = LastRounds(Append(archive[i].history, t))]_tvars
  BY TopicNext DEF Continued
<1> QED BY <1>1, TopicAlways, PTL DEF TSpec, RoundsKept

-----------------------------------------------------------------------------
(* The book of topics.                                                     *)

BookOf(s) ==
    [id \in Ids(s) |-> [history |-> s[Find(s, id)].history, active |-> s[Find(s, id)].active]]

LEMMA BookOfFact ==
    ASSUME NEW s \in Seq(Topic), Sorted(s)
    PROVE  /\ DOMAIN BookOf(s) = Ids(s)
           /\ \A i \in DOMAIN s : /\ s[i].id \in Ids(s)
                                  /\ BookOf(s)[s[i].id].history = s[i].history
                                  /\ BookOf(s)[s[i].id].active = s[i].active
                                  /\ BookOf(s)[s[i].id]
                                        = [history |-> s[i].history, active |-> s[i].active]
           /\ \A id \in Ids(s) : \E i \in DOMAIN s : s[i].id = id
<1>1. ASSUME NEW i \in DOMAIN s  PROVE s[i].id \in Ids(s) /\ Find(s, s[i].id) = i
  <2>1. Find(s, s[i].id) \in DOMAIN s /\ s[Find(s, s[i].id)].id = s[i].id
    BY DEF Find
  <2>2. i \in Nat /\ Find(s, s[i].id) \in Nat
    BY <2>1
  <2> QED BY <2>1, <2>2 DEF Sorted, Ids
<1>2. DOMAIN BookOf(s) = Ids(s)
  BY DEF BookOf
<1>3. \A i \in DOMAIN s : BookOf(s)[s[i].id]
                             = [history |-> s[i].history, active |-> s[i].active]
  BY <1>1 DEF BookOf
<1>4. \A id \in Ids(s) : \E i \in DOMAIN s : s[i].id = id
  BY DEF Ids
<1> QED BY <1>1, <1>2, <1>3, <1>4

LEMMA BookCleaned ==
    ASSUME ArchiveSound
    PROVE  LET s == Select(archive, FreshIn(archive))
           IN BookOf(s) = [id \in {x \in DOMAIN BookOf(archive) :
                                     day - BookOf(archive)[x].active <= MaxAge}
                             |-> BookOf(archive)[id]]
<1> DEFINE s == Select(archive, FreshIn(archive))
           b == BookOf(archive)
           D == {x \in DOMAIN b : day - b[x].active <= MaxAge}
<1>1. archive \in Seq(Topic) /\ Sorted(archive) /\ s \in Seq(Topic) /\ Sorted(s)
  BY CleanedFact DEF ArchiveSound
<1>2. /\ \A i \in DOMAIN archive : Fresh(archive[i]) => \E k \in DOMAIN s : s[k] = archive[i]
      /\ \A k \in DOMAIN s : \E i \in DOMAIN archive : Fresh(archive[i]) /\ s[k] = archive[i]
  BY CleanedFact
<1> HIDE DEF s, b
<1>3. /\ DOMAIN b = Ids(archive)
      /\ \A i \in DOMAIN archive : /\ archive[i].id \in Ids(archive)
                                   /\ b[archive[i].id].active = archive[i].active
                                   /\ b[archive[i].id] = [history |-> archive[i].history,
                                                          active |-> archive[i].active]
      /\ \A id \in Ids(archive) : \E i \in DOMAIN archive : archive[i].id = id
  BY <1>1, BookOfFact DEF b
<1>4. /\ DOMAIN BookOf(s) = Ids(s)
      /\ \A k \in DOMAIN s : /\ s[k].id \in Ids(s)
                             /\ BookOf(s)[s[k].id]
                                   = [history |-> s[k].history, active |-> s[k].active]
      /\ \A id \in Ids(s) : \E k \in DOMAIN s : s[k].id = id
  BY <1>1, BookOfFact
<1>5. ASSUME NEW id \in Ids(s)  PROVE id \in D /\ BookOf(s)[id] = b[id]
  <2>1. PICK k \in DOMAIN s : s[k].id = id
    BY <1>4
  <2>2. PICK i \in DOMAIN archive : Fresh(archive[i]) /\ s[k] = archive[i]
    BY <1>2
  <2>3. id \in DOMAIN b /\ b[id].active = archive[i].active
    BY <1>3, <2>1, <2>2
  <2>4. BookOf(s)[id] = b[id]
    <3>1. BookOf(s)[id] = [history |-> s[k].history, active |-> s[k].active]
      BY <1>4, <2>1
    <3>2. b[id] = [history |-> archive[i].history, active |-> archive[i].active]
      BY <1>3, <2>1, <2>2
    <3> QED BY <2>2, <3>1, <3>2
  <2> QED BY <2>2, <2>3, <2>4 DEF Fresh
<1>6. ASSUME NEW id \in D  PROVE id \in Ids(s)
  <2>1. PICK i \in DOMAIN archive : archive[i].id = id
    BY <1>3
  <2>2. Fresh(archive[i])
    BY <1>3, <2>1 DEF Fresh
  <2>3. PICK k \in DOMAIN s : s[k] = archive[i]
    BY <1>2, <2>2
  <2> QED BY <1>4, <2>1, <2>3
<1>7. BookOf(s) = [id \in Ids(s) |-> BookOf(s)[id]]
  BY DEF BookOf
<1>8. Ids(s) = D
  BY <1>5, <1>6
<1> HIDE DEF D
<1>9. BookOf(s) = [id \in D |-> b[id]]
  BY <1>5, <1>7, <1>8
<1> QED BY <1>9 DEF D, s, b

LEMMA BookExtended ==
    ASSUME ArchiveSound, NEW t \in Task, NEW s \in Seq(Topic), Sorted(s), Extends(s, t)
    PROVE  \E id \in DOMAIN BookOf(archive) \cup {t} :
              BookOf(s) = [x \in DOMAIN BookOf(archive) \cup {id} |->
                             IF x = id
                             THEN [history |-> LastRounds(Append(RoundsOf(id), t)),
                                   active |-> day]
                             ELSE BookOf(archive)[x]]
<1> DEFINE b == BookOf(archive)
<1>1. archive \in Seq(Topic) /\ Sorted(archive)
  BY DEF ArchiveSound
<1>2. PICK id \in Ids(archive) \cup {t}, new \in Topic :
         /\ Renews(s, id, new)
         /\ new.active = day /\ new.history = LastRounds(Append(RoundsOf(id), t))
  BY DEF Extends
<1>3. /\ DOMAIN b = Ids(archive)
      /\ \A i \in DOMAIN archive : /\ archive[i].id \in Ids(archive)
                                   /\ b[archive[i].id] = [history |-> archive[i].history,
                                                          active |-> archive[i].active]
      /\ \A x \in Ids(archive) : \E i \in DOMAIN archive : archive[i].id = x
  BY <1>1, BookOfFact
<1>4. /\ DOMAIN BookOf(s) = Ids(s)
      /\ \A k \in DOMAIN s : /\ s[k].id \in Ids(s)
                             /\ BookOf(s)[s[k].id]
                                   = [history |-> s[k].history, active |-> s[k].active]
      /\ \A x \in Ids(s) : \E k \in DOMAIN s : s[k].id = x
  BY <1>1, BookOfFact
<1> DEFINE D == DOMAIN b \cup {id}
           e == [history |-> LastRounds(Append(RoundsOf(id), t)), active |-> day]
<1>5. Ids(s) = D
  <2>1. ASSUME NEW x \in Ids(s)  PROVE x \in D
    <3>1. PICK k \in DOMAIN s : s[k].id = x
      BY <1>4
    <3>2. s[k] = new \/ \E i \in DOMAIN archive : s[k] = archive[i]
      BY <1>2 DEF Renews
    <3> QED BY <1>2, <1>3, <3>1, <3>2 DEF Renews
  <2>2. ASSUME NEW x \in D  PROVE x \in Ids(s)
    <3>1. CASE x = id
      BY <1>2, <1>4, <3>1 DEF Renews
    <3>2. CASE x # id
      <4>1. PICK i \in DOMAIN archive : archive[i].id = x
        BY <1>3, <3>2
      <4>2. PICK k \in DOMAIN s : s[k] = archive[i]
        BY <1>2, <3>2, <4>1 DEF Renews
      <4> QED BY <1>4, <4>1, <4>2
    <3> QED BY <3>1, <3>2
  <2> QED BY <2>1, <2>2
<1>6. id \in Ids(s) /\ BookOf(s)[id] = e
  BY <1>2, <1>4 DEF Renews
<1>7. ASSUME NEW x \in Ids(s), x # id  PROVE BookOf(s)[x] = b[x]
  <2>1. PICK k \in DOMAIN s : s[k].id = x
    BY <1>4
  <2>2. PICK i \in DOMAIN archive : s[k] = archive[i]
    BY <1>2, <1>7, <2>1 DEF Renews
  <2>3. BookOf(s)[x] = [history |-> s[k].history, active |-> s[k].active]
    BY <1>4, <2>1
  <2>4. b[x] = [history |-> archive[i].history, active |-> archive[i].active]
    BY <1>3, <2>1, <2>2
  <2> QED BY <2>2, <2>3, <2>4
<1>8. BookOf(s) = [x \in Ids(s) |-> BookOf(s)[x]]
  BY DEF BookOf
<1> HIDE DEF D, e, b
<1>9. BookOf(s) = [x \in D |-> IF x = id THEN e ELSE b[x]]
  BY <1>5, <1>6, <1>7, <1>8
<1>10. id \in DOMAIN b \cup {t}
  BY <1>2, <1>3
<1> QED BY <1>9, <1>10 DEF D, e, b

(* The map of Book, as it is written there.                                *)
LEMMA BookIsBookOf ==
    /\ [id \in Ids(archive) |-> Entry(id)] = BookOf(archive)
    /\ [id \in Ids(archive) |-> Entry(id)]' = BookOf(archive')
  BY DEF BookOf, Entry, Ids, Find

(* A cleaning forgets what is too old.                                     *)
LEMMA CleanupForgets ==
    ASSUME TopicInv, NEW t \in Task, CleanupSaves(t)
    PROVE  UNCHANGED <<archive, day>> \/ Book!Forget
<1>1. /\ task[t].list = archive /\ UNCHANGED day
      /\ archive' \in {archive, Select(archive, FreshIn(archive))}
  BY DEF CleanupSaves, TAt, TopicInv, HolderUpToDate
<1>2. ASSUME archive' = Select(archive, FreshIn(archive))
      PROVE  BookOf(archive') = [id \in {x \in DOMAIN BookOf(archive) :
                                           day - BookOf(archive)[x].active <= MaxAge}
                                   |-> BookOf(archive)[id]]
  BY <1>2, BookCleaned DEF TopicInv
<1> QED BY <1>1, <1>2, BookIsBookOf DEF Book!Forget

(* A task that runs has no round yet.                                      *)
LEMMA NotRecordedYet ==
    ASSUME TopicInv, NEW t \in Task, ~TAt(t, "over")
    PROVE  ~Book!Recorded(t)
<1>1. archive \in Seq(Topic) /\ Sorted(archive) /\ \A i \in DOMAIN archive : Sound(archive[i])
  BY DEF TopicInv, ArchiveSound
<1>2. /\ DOMAIN BookOf(archive) = Ids(archive)
      /\ \A i \in DOMAIN archive : BookOf(archive)[archive[i].id].history = archive[i].history
      /\ \A id \in Ids(archive) : \E i \in DOMAIN archive : archive[i].id = id
  BY <1>1, BookOfFact
<1>3. ASSUME NEW id \in DOMAIN BookOf(archive), NEW n \in DOMAIN BookOf(archive)[id].history
      PROVE  BookOf(archive)[id].history[n] # t
  <2>1. PICK i \in DOMAIN archive : archive[i].id = id
    BY <1>2
  <2>2. BookOf(archive)[id].history = archive[i].history
    BY <1>2, <2>1
  <2>3. TAt(archive[i].history[n], "over")
    BY <1>1, <1>3, <2>2 DEF Sound
  <2> QED BY <2>2, <2>3
<1> QED BY <1>3, BookIsBookOf DEF Book!Recorded

(* An update records the round of its task.                                *)
LEMMA UpdateRecords ==
    ASSUME TopicInv, NEW t \in Task, UpdateSaves(t)
    PROVE  UNCHANGED <<archive, day>> \/ Book!Record(t)
<1> DEFINE s == Updated(archive, task[t].chosen, t)
           b == BookOf(archive)
<1>1. /\ task[t].list = archive /\ UNCHANGED day /\ archive' \in {archive, s}
      /\ ~TAt(t, "over") /\ TaskTypes /\ ArchiveSound
  BY DEF UpdateSaves, TAt, TopicInv, HolderUpToDate
<1>2. s \in Seq(Topic) /\ Sorted(s) /\ Extends(s, t)
  BY <1>1, UpdatedFact
<1> HIDE DEF s
<1>3. PICK id \in DOMAIN b \cup {t} :
         BookOf(s) = [x \in DOMAIN b \cup {id} |->
                        IF x = id
                        THEN [history |-> LastRounds(Append(RoundsOf(id), t)), active |-> day]
                        ELSE b[x]]
  BY <1>1, <1>2, BookExtended
<1>4. Book!Rounds(id) = RoundsOf(id)
  BY BookIsBookOf DEF Book!Rounds, RoundsOf, BookOf
<1>5. Book!Latest(Append(RoundsOf(id), t)) = LastRounds(Append(RoundsOf(id), t))
  BY DEF Book!Latest, LastRounds
<1>6. ~Book!Recorded(t)
  BY <1>1, NotRecordedYet
<1> HIDE DEF b
<1>7. ASSUME archive' = s PROVE Book!Record(t)
  BY <1>1, <1>3, <1>4, <1>5, <1>6, <1>7, BookIsBookOf DEF Book!Record, b
<1> QED BY <1>1, <1>7

(* Every step of the tasks, of the days and of the bridge's restarts is a  *)
(* step of the book, or none.                                              *)
LEMMA BookSteps ==
    ASSUME TopicInv, [TNext]_tvars
    PROVE  [Book!BookNext]_<<BookOf(archive), day>>
<1>1. UNCHANGED <<archive, day>> => UNCHANGED <<BookOf(archive), day>>
  BY DEF BookOf, Ids, Find
<1>2. ASSUME NEW t \in Task, CleanupSaves(t)
      PROVE  UNCHANGED <<archive, day>> \/ Book!BookNext
  BY <1>2, CleanupForgets DEF Book!BookNext
<1>3. ASSUME NEW t \in Task, UpdateSaves(t)
      PROVE  UNCHANGED <<archive, day>> \/ Book!BookNext
  BY <1>3, UpdateRecords DEF Book!BookNext
<1>4. ASSUME NextDay PROVE Book!BookNext
  <2>1. day' = day + 1 /\ BookOf(archive') = BookOf(archive)
    BY <1>4 DEF NextDay
  <2>2. Book!Dawn
    BY <2>1, BookIsBookOf DEF Book!Dawn
  <2> QED BY <2>2 DEF Book!BookNext
<1>5. ASSUME NEW t \in Task,
             TBegins(t) \/ Looks(t) \/ Chooses(t) \/ EndsWithout(t) \/ UpdateLoads(t)
      PROVE  UNCHANGED <<archive, day>>
  BY <1>5 DEF TBegins, CleanedAlready, CleanupBegins, Looks, Chooses, EndsWithout, UpdateLoads
<1>6. ASSUME Restart \/ UNCHANGED tvars PROVE UNCHANGED <<archive, day>>
  BY <1>6 DEF Restart, tvars
<1> QED BY <1>1, <1>2, <1>3, <1>4, <1>5, <1>6 DEF TNext, TSteps

(* The archive implements the book of topics: whatever list a task chose   *)
(* on and whoever has written the file since, its changes are those of a   *)
(* book changed by one task at a time; a restart changes nothing.          *)
THEOREM ImplementsBook == TSpec => ArchiveIsBook
<1>1. TInit => Book!BookInit
  <2> SUFFICES ASSUME TInit PROVE Book!BookInit
    OBVIOUS
  <2>1. archive = <<>> /\ day = 0
    BY DEF TInit
  <2>2. Ids(archive) = {}
    BY <2>1 DEF Ids
  <2>3. [id \in Ids(archive) |-> Entry(id)] = <<>>
    BY <2>2
  <2> QED BY <2>1, <2>3 DEF Book!BookInit
<1>2. TopicInv /\ [TNext]_tvars
        => [Book!BookNext]_<<[id \in Ids(archive) |-> Entry(id)], day>>
  BY BookSteps, BookIsBookOf
<1> QED BY <1>1, <1>2, TopicAlways, PTL DEF TSpec, ArchiveIsBook, Book!BookSpec
=============================================================================
