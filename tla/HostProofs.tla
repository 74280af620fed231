------------------------------- MODULE HostProofs -------------------------------
(***************************************************************************)
(* The host leaves the user's machine as it found it, its virtual devices  *)
(* follow the clients, what it sends can be decoded and no event is lost,  *)
(* for every value of the constants: the invariants of the parts hold of   *)
(* the host, and imply what is promised.                                   *)
(***************************************************************************)
EXTENDS MCHost, HostPartsProofs, FiniteSetTheorems, SequenceTheorems, WellFoundedInduction

-------------------------------------------------------------------------------
(* The announcement: messages that make the entries anew, or end the       *)
(* thread; those that withdraw them are followed by one that does.         *)
Groups ==
  [state : {"none", "empty", "uncommitted", "registering", "established"}, name : Names]
AvahiMessages ==
  [of : {"client"}, state : {"running", "registering", "gone"}]
    \cup [of : {"group"}, state : {"established", "taken", "failure"}]
Running(m) == m.of = "client" /\ m.state = "running"
Withdraws(m) == m.of = "client" /\ m.state = "registering"
Revives(m) == m.state \in {"running", "gone", "taken", "failure"}
PublishTypes ==
  /\ system \in {"avahi", "windows", "macos"} /\ usedHere \in SUBSET (0..(MaxNames - 1))
  /\ daemon \in {"running", "registering", "gone"} /\ waiting \in Seq(AvahiMessages)
  /\ entered \in Groups /\ instanceName \in Names
  /\ publisher \in {"none", "absent", "made", "polls", "processes", "over", "ended"}
  /\ quitAsked \in BOOLEAN /\ reference \in BOOLEAN /\ refusals \in BOOLEAN
  /\ belated \in BOOLEAN
Listens == system = "avahi" /\ publisher = "polls" /\ ~quitAsked /\ daemon = "running"
ReturnsToCome ==
  Listens =>
    /\ Holds(entered) \/ \E i \in DOMAIN waiting : Revives(waiting[i])
    /\ \A j \in DOMAIN waiting : Withdraws(waiting[j]) =>
         \E i \in DOMAIN waiting : i > j /\ Running(waiting[i])
Collided(messages) == {i \in DOMAIN messages : messages[i].state = "taken"}
TakenFrom(n) == {u \in usedHere : u >= n}
NamesLast ==
  system = "avahi" =>
    instanceName + Cardinality(Collided(waiting)) + Cardinality(TakenFrom(instanceName))
      <= MaxNames
PublishInv ==
  PublishTypes /\ ReturnsToCome /\ NamesLast /\ AnnouncedByName /\ ReferenceHeld

(* What Min picks is among them, and none is less.                         *)
LEMMA LeastName ==
  ASSUME NEW among, among \subseteq Nat, among # {}
  PROVE  Min(among) \in among /\ \A m \in among : Min(among) <= m
<1> DEFINE R == {ss \in Nat \X Nat : ss[1] < ss[2]}
<1>1. IsWellFoundedOn(R, Nat)
  BY NatLessThanWellFounded DEF OpToRel
<1> HIDE DEF R
<1>2. PICK i \in among : \A j \in among : ~ (<<j, i>> \in R)
  BY <1>1, WFMin
<1>3. \A j \in among : ~ (j < i)
  <2> TAKE j \in among
  <2>1. <<j, i>> \notin R /\ <<j, i>> \in Nat \X Nat /\ <<j, i>>[1] = j /\ <<j, i>>[2] = i
    BY <1>2
  <2> QED  BY <2>1 DEF R
<1>4. \E l \in among : \A j \in among : l <= j
  BY <1>3
<1> QED  BY <1>4 DEF Min

(* A name that is passed over is one that was counted.                     *)
LEMMA NamesPassedOver ==
  ASSUME usedHere \in SUBSET (0..(MaxNames - 1)), NEW n \in Names, NEW m \in Names,
         n <= m, n..(m - 1) \subseteq usedHere
  PROVE  m + Cardinality(TakenFrom(m)) = n + Cardinality(TakenFrom(n))
<1> USE AnnouncementAssumption DEF Names
<1>1. n \in Nat /\ m \in Nat /\ MaxNames \in Nat
  OBVIOUS
<1>2. IsFiniteSet(0..(MaxNames - 1)) /\ IsFiniteSet(n..(m - 1))
      /\ Cardinality(n..(m - 1)) = m - n
  <2>1. 0 \in Int /\ MaxNames - 1 \in Int /\ n \in Int /\ m - 1 \in Int
    BY <1>1
  <2>2. IsFiniteSet(0..(MaxNames - 1)) /\ IsFiniteSet(n..(m - 1))
        /\ Cardinality(n..(m - 1)) = IF n > m - 1 THEN 0 ELSE (m - 1) - n + 1
    BY <2>1, FS_Interval
  <2> QED  BY <1>1, <2>2
<1>3. IsFiniteSet(usedHere)
  BY <1>2, FS_Subset
<1> DEFINE high == TakenFrom(m)
<1>4. IsFiniteSet(high)
  BY <1>3, FS_Subset DEF TakenFrom
<1>5. TakenFrom(n) = high \cup (n..(m - 1)) /\ high \cap (n..(m - 1)) = {}
  <2>1. \A u \in usedHere : u \in Nat
    BY <1>1
  <2>2. \A u \in usedHere : u >= n <=> u >= m \/ u \in n..(m - 1)
    BY <1>1, <2>1
  <2>3. \A u \in n..(m - 1) : u \in usedHere /\ ~(u >= m)
    BY <1>1
  <2> QED  BY <2>2, <2>3 DEF TakenFrom
<1> HIDE DEF high
<1>6. Cardinality(TakenFrom(n)) = Cardinality(high) + Cardinality(n..(m - 1))
  <2>1. Cardinality(high \cup (n..(m - 1)))
          = Cardinality(high) + Cardinality(n..(m - 1)) - Cardinality(high \cap (n..(m - 1)))
    BY <1>2, <1>4, FS_Union
  <2>2. Cardinality(high) \in Nat /\ Cardinality(n..(m - 1)) \in Nat
    BY <1>2, <1>4, FS_CardinalityType
  <2>3. Cardinality(high \cap (n..(m - 1))) = 0
    BY <1>5, FS_EmptySet
  <2> QED  BY <1>5, <2>1, <2>2, <2>3
<1>7. Cardinality(high) \in Nat
  BY <1>4, FS_CardinalityType
<1> QED  BY <1>1, <1>2, <1>6, <1>7 DEF high

(* The names of other services are finitely many.                          *)
LEMMA FewUsed ==
  ASSUME usedHere \in SUBSET (0..(MaxNames - 1))
  PROVE  IsFiniteSet(usedHere) /\ Cardinality(usedHere) \in Nat
<1>1. IsFiniteSet(0..(MaxNames - 1))
  BY FS_Interval, AnnouncementAssumption
<1> QED  BY <1>1, FS_Subset, FS_CardinalityType

(* From a later name on, no more of them are counted.                      *)
LEMMA LaterFewer ==
  ASSUME usedHere \in SUBSET (0..(MaxNames - 1)), NEW n \in Nat
  PROVE  /\ Cardinality(TakenFrom(n)) \in Nat
         /\ Cardinality(TakenFrom(n + 1)) <= Cardinality(TakenFrom(n))
         /\ Cardinality(TakenFrom(n)) <= Cardinality(usedHere)
         /\ Cardinality(usedHere) <= MaxNames
<1> USE AnnouncementAssumption
<1>1. IsFiniteSet(0..(MaxNames - 1)) /\ Cardinality(0..(MaxNames - 1)) = MaxNames
  BY FS_Interval
<1>2. IsFiniteSet(usedHere) /\ Cardinality(usedHere) <= MaxNames
  BY <1>1, FS_Subset
<1>3. IsFiniteSet(TakenFrom(n)) /\ Cardinality(TakenFrom(n)) <= Cardinality(usedHere)
  BY <1>2, FS_Subset DEF TakenFrom
<1>4. TakenFrom(n + 1) \subseteq TakenFrom(n)
  <2>1. \A u \in usedHere : u \in Int /\ (u >= n + 1 => u >= n)
    OBVIOUS
  <2> QED  BY <2>1 DEF TakenFrom
<1> QED  BY <1>2, <1>3, <1>4, FS_Subset, FS_CardinalityType

(* What create_services() makes of a group.                                *)
Made(g, n, c) ==
  /\ c.entered \in Groups /\ c.name \in Names /\ c.quit \in BOOLEAN /\ c.fails \in BOOLEAN
  /\ n <= c.name /\ n..(c.name - 1) \subseteq usedHere
  /\ c.quit \/ Holds(c.entered)
  /\ Holds(g) => c.entered = g /\ c.name = n
  /\ ~Holds(g) /\ Holds(c.entered) => c.entered.name = c.name /\ c.name \notin usedHere
LEMMA ServicesMade ==
  ASSUME usedHere \in SUBSET (0..(MaxNames - 1)), NEW g \in Groups, NEW n \in Names,
         NEW c \in CreatedServices(g, n)
  PROVE  Made(g, n, c)
<1> USE AnnouncementAssumption DEF Names
<1> DEFINE F == {m \in Names : m >= n /\ m \notin usedHere}
<1>1. F \subseteq Nat /\ MaxNames \in F
  OBVIOUS
<1>2. NextFree(n) \in F /\ \A m \in F : NextFree(n) <= m
  BY <1>1, LeastName DEF NextFree
<1>3. NextFree(n) \in Names /\ n <= NextFree(n) /\ NextFree(n) \notin usedHere
      /\ n..(NextFree(n) - 1) \subseteq usedHere
  BY <1>2
<1> HIDE DEF F
<1>4. CASE Holds(g)
  <2>1. c = Created(g, n, FALSE, FALSE)
    BY <1>4 DEF CreatedServices
  <2>2. n \in Nat /\ n..(n - 1) = {}
    OBVIOUS
  <2> QED  BY <1>4, <2>1, <2>2 DEF Created, Made
<1>5. CASE ~Holds(g) /\ c = Created(g, n, TRUE, TRUE)
  BY <1>5 DEF Created, Made
<1>6. ASSUME ~Holds(g), NEW m \in n..NextFree(n), c = Created(EmptyGroup, m, TRUE, TRUE)
      PROVE  Made(g, n, c)
  <2>1. m \in Names /\ n <= m /\ n..(m - 1) \subseteq usedHere
    BY <1>3, <1>6
  <2>2. EmptyGroup \in Groups /\ ~Holds(EmptyGroup)
    BY DEF EmptyGroup, Groups, Holds
  <2> QED  BY <1>6, <2>1, <2>2 DEF Created, Made
<1>7. ASSUME ~Holds(g), NEW s \in {"uncommitted", "registering"},
             c = Created([state |-> s, name |-> NextFree(n)], NextFree(n), s = "uncommitted",
                         s = "uncommitted")
      PROVE  Made(g, n, c)
  <2>1. [state |-> s, name |-> NextFree(n)] \in Groups
        /\ Holds([state |-> s, name |-> NextFree(n)])
    BY <1>3 DEF Groups, Holds
  <2> QED  BY <1>3, <1>7, <2>1 DEF Created, Made
<1> QED  BY <1>4, <1>5, <1>6, <1>7 DEF CreatedServices

(* How many collisions are still to be told.                               *)
LEMMA CollisionsCount ==
  ASSUME NEW messages \in Seq(AvahiMessages)
  PROVE  /\ IsFiniteSet(Collided(messages)) /\ Cardinality(Collided(messages)) \in Nat
         /\ \A m \in AvahiMessages :
              Cardinality(Collided(Append(messages, m)))
                = Cardinality(Collided(messages)) + (IF m.state = "taken" THEN 1 ELSE 0)
         /\ messages # <<>> =>
              Cardinality(Collided(messages))
                = Cardinality(Collided(Tail(messages)))
                  + (IF Head(messages).state = "taken" THEN 1 ELSE 0)
<1>1. IsFiniteSet(Collided(messages)) /\ Cardinality(Collided(messages)) \in Nat
  <2>1. IsFiniteSet(1..Len(messages))
    BY FS_Interval
  <2>2. Collided(messages) \subseteq 1..Len(messages)
    BY DEF Collided
  <2> QED  BY <2>1, <2>2, FS_Subset, FS_CardinalityType
<1>2. ASSUME NEW m \in AvahiMessages
      PROVE  Cardinality(Collided(Append(messages, m)))
               = Cardinality(Collided(messages)) + (IF m.state = "taken" THEN 1 ELSE 0)
  <2>1. Collided(Append(messages, m))
          = IF m.state = "taken" THEN Collided(messages) \cup {Len(messages) + 1}
            ELSE Collided(messages)
    BY DEF Collided
  <2>2. Len(messages) + 1 \notin Collided(messages)
    BY DEF Collided
  <2>3. Cardinality(Collided(messages) \cup {Len(messages) + 1})
          = Cardinality(Collided(messages)) + 1
    BY <1>1, <2>2, FS_AddElement
  <2> QED  BY <1>1, <2>1, <2>3
<1>3. ASSUME messages # <<>>
      PROVE  Cardinality(Collided(messages))
               = Cardinality(Collided(Tail(messages)))
                 + (IF Head(messages).state = "taken" THEN 1 ELSE 0)
  <2> DEFINE rest == Tail(messages)
             moved == {i \in Collided(messages) : i # 1}
             back == [i \in moved |-> i - 1]
  <2>1. rest \in Seq(AvahiMessages) /\ Len(rest) = Len(messages) - 1
        /\ \A i \in 1..Len(rest) : rest[i] = messages[i + 1]
    BY <1>3
  <2>2. Collided(rest) = {i \in 1..Len(rest) : messages[i + 1].state = "taken"}
    BY <2>1 DEF Collided
  <2>3. moved = {i \in 2..Len(messages) : messages[i].state = "taken"}
    BY DEF Collided
  <2>4. back \in [moved -> Collided(rest)]
    <3> SUFFICES ASSUME NEW i \in moved PROVE i - 1 \in Collided(rest)
      OBVIOUS
    <3> QED  BY <2>1, <2>2, <2>3
  <2>5. \A i, j \in moved : i # j => back[i] # back[j]
    BY <2>3
  <2>6. \A k \in Collided(rest) : k + 1 \in moved /\ back[k + 1] = k
    <3> SUFFICES ASSUME NEW k \in Collided(rest) PROVE k + 1 \in moved /\ back[k + 1] = k
      OBVIOUS
    <3>1. k \in 1..Len(rest) /\ messages[k + 1].state = "taken"
      BY <2>2
    <3>2. k + 1 \in moved
      BY <2>1, <2>3, <3>1
    <3> QED  BY <3>1, <3>2
  <2>7. ExistsBijection(moved, Collided(rest))
    <3>1. back \in Injection(moved, Collided(rest))
      BY <2>4, <2>5 DEF Injection, IsInjective
    <3>2. back \in Surjection(moved, Collided(rest))
      BY <2>4, <2>6 DEF Surjection
    <3> QED  BY <3>1, <3>2 DEF ExistsBijection, Bijection
  <2>8. IsFiniteSet(moved)
    BY <1>1, FS_Subset
  <2>9. Cardinality(moved) = Cardinality(Collided(rest))
    BY <2>7, <2>8, FS_Bijection
  <2>10. Collided(messages) = IF Head(messages).state = "taken" THEN moved \cup {1} ELSE moved
    BY <1>3 DEF Collided
  <2>11. 1 \notin moved
    OBVIOUS
  <2>12. Cardinality(moved \cup {1}) = Cardinality(moved) + 1
    BY <2>8, <2>11, FS_AddElement
  <2>13. Cardinality(moved) \in Nat
    BY <2>8, FS_CardinalityType
  <2> HIDE DEF moved, rest, back
  <2>14. Cardinality(Collided(messages))
           = Cardinality(Collided(rest)) + (IF Head(messages).state = "taken" THEN 1 ELSE 0)
    BY <2>9, <2>10, <2>12, <2>13
  <2> QED  BY <2>14 DEF rest
<1> QED  BY <1>1, <1>2, <1>3

(* Nothing is announced yet.                                               *)
LEMMA PublishStarts == AnnouncementInit => PublishInv
<1> SUFFICES ASSUME AnnouncementInit PROVE PublishInv
  OBVIOUS
<1> USE AnnouncementAssumption DEF AnnouncementInit, Names
<1>1. PublishTypes
  <2>1. NoEntries \in Groups /\ <<>> \in Seq(AvahiMessages)
    BY DEF NoEntries, Groups
  <2>2. 0 \in Names
    OBVIOUS
  <2> HIDE DEF Names, NoEntries
  <2> QED  BY <2>1, <2>2 DEF PublishTypes
<1>2. ReturnsToCome
  BY DEF ReturnsToCome, Listens
<1>3. NamesLast
  <2>1. Collided(waiting) = {}
    BY DEF Collided
  <2>2. Cardinality(Collided(waiting)) = 0
    BY <2>1, FS_EmptySet
  <2>3. usedHere \in SUBSET (0..(MaxNames - 1)) /\ instanceName = 0 /\ 0 \in Nat
    OBVIOUS
  <2>4. /\ Cardinality(TakenFrom(0)) \in Nat
        /\ Cardinality(TakenFrom(0)) <= Cardinality(usedHere)
        /\ Cardinality(usedHere) <= MaxNames
    BY <2>3, LaterFewer
  <2>5. Cardinality(usedHere) \in Nat
    BY <2>3, FewUsed
  <2> QED  BY <2>2, <2>3, <2>4, <2>5 DEF NamesLast
<1>4. AnnouncedByName /\ ReferenceHeld
  BY DEF AnnouncedByName, ReferenceHeld, NoEntries, Holds
<1> QED  BY <1>1, <1>2, <1>3, <1>4 DEF PublishInv

(* The name stays what it is, or passes over names that were counted.      *)
LEMMA NameMoves ==
  ASSUME PublishTypes, NamesLast, instanceName' \in Names, UNCHANGED <<system, usedHere>>,
         NEW n \in Names, n \in {instanceName, instanceName + 1},
         n <= instanceName', n..(instanceName' - 1) \subseteq usedHere,
         (n - instanceName) + Cardinality(Collided(waiting')) <= Cardinality(Collided(waiting)),
         waiting' \in Seq(AvahiMessages)
  PROVE  NamesLast'
<1> SUFFICES ASSUME system = "avahi" PROVE NamesLast'
  BY DEF NamesLast
<1> USE AnnouncementAssumption DEF Names, PublishTypes
<1> DEFINE k == instanceName'
<1>1. /\ instanceName \in Nat /\ k \in Nat /\ n \in Nat /\ k \in Names
      /\ usedHere \in SUBSET (0..(MaxNames - 1)) /\ MaxNames \in Nat
      /\ n <= k /\ n..(k - 1) \subseteq usedHere
  <2>1. MaxNames \in Nat /\ Names \subseteq Nat
    OBVIOUS
  <2>2. instanceName \in Names /\ usedHere \in SUBSET (0..(MaxNames - 1))
    OBVIOUS
  <2> HIDE DEF PublishTypes, Names
  <2> QED  BY <2>1, <2>2
<1>2. k + Cardinality(TakenFrom(k)) = n + Cardinality(TakenFrom(n))
  BY <1>1, NamesPassedOver
<1>3. Cardinality(TakenFrom(n)) <= Cardinality(TakenFrom(instanceName))
  <2>1. Cardinality(TakenFrom(instanceName)) \in Nat
        /\ Cardinality(TakenFrom(instanceName + 1)) <= Cardinality(TakenFrom(instanceName))
    BY <1>1, LaterFewer
  <2> QED  BY <2>1
<1>4. /\ Cardinality(TakenFrom(n)) \in Nat /\ Cardinality(TakenFrom(instanceName)) \in Nat
      /\ Cardinality(TakenFrom(k)) \in Nat
  BY <1>1, LaterFewer
<1>5. Cardinality(Collided(waiting)) \in Nat /\ Cardinality(Collided(waiting')) \in Nat
  BY CollisionsCount
<1>6. instanceName + Cardinality(Collided(waiting)) + Cardinality(TakenFrom(instanceName))
        <= MaxNames
  BY DEF NamesLast
<1>7. k + Cardinality(Collided(waiting')) + Cardinality(TakenFrom(k)) <= MaxNames
  <2>1. \A a, b, c, d, e, p, q, r, M \in Nat :
          /\ b + p = e + q /\ q <= r /\ a + c + r <= M /\ (e - a) + d <= c
          => b + d + p <= M
    OBVIOUS
  <2>2. (n - instanceName) + Cardinality(Collided(waiting')) <= Cardinality(Collided(waiting))
    OBVIOUS
  <2> HIDE DEF PublishTypes, Names, k
  <2> QED  BY <1>1, <1>2, <1>3, <1>4, <1>5, <1>6, <2>1, <2>2
<1>8. TakenFrom(instanceName)' = TakenFrom(k)
  BY DEF TakenFrom
<1> QED  BY <1>7, <1>8 DEF NamesLast, Collided

(* What the thread is told by client_callback() and entry_group_callback().*)
AvahiTold(m) == IF m.of = "client" THEN ClientTold(m.state) ELSE GroupTold(m.state)
LEMMA ToldMakes ==
  ASSUME PublishTypes, NEW m \in AvahiMessages, NEW c \in AvahiTold(m),
         m.state = "taken" => instanceName + 1 \in Names
  PROVE  /\ c.entered \in Groups /\ c.name \in Names /\ c.quit \in BOOLEAN /\ c.fails \in BOOLEAN
         /\ LET n == IF m.state = "taken" THEN instanceName + 1 ELSE instanceName
            IN  n <= c.name /\ n..(c.name - 1) \subseteq usedHere
         /\ Revives(m) => c.quit \/ Holds(c.entered)
         /\ ~Withdraws(m) /\ Holds(entered) => c.quit \/ Holds(c.entered)
         /\ ~Revives(m) /\ ~Withdraws(m) => c.entered = entered
         /\ m.state # "taken" /\ Holds(entered) /\ Holds(c.entered) =>
              c.entered = entered /\ c.name = instanceName
         /\ ~Holds(entered) /\ Holds(c.entered) =>
              c.entered.name = c.name /\ c.name \notin usedHere
<1> DEFINE n == IF m.state = "taken" THEN instanceName + 1 ELSE instanceName
<1>1. m.of \in {"client", "group"} /\ instanceName \in Names /\ entered \in Groups
      /\ usedHere \in SUBSET (0..(MaxNames - 1))
  BY DEF PublishTypes, AvahiMessages
<1>2. instanceName \in Nat /\ n \in Nat /\ n..(n - 1) = {}
  BY <1>1, AnnouncementAssumption DEF Names
<1>3. CASE m.of = "client" /\ m.state = "running"
  <2>1. AvahiTold(m) = CreatedServices(entered, instanceName)
    BY <1>3, Zenon DEF AvahiTold, ClientTold
  <2>2. Made(entered, instanceName, c)
    BY <1>1, <2>1, ServicesMade
  <2> QED  BY <1>3, <2>2 DEF Made, Revives, Withdraws
<1>4. CASE m.of = "client" /\ m.state = "gone"
  <2>1. AvahiTold(m) = {Created(NoEntries, instanceName, TRUE, TRUE)}
    <3>1. m.state # "running"
      BY <1>4
    <3>2. ClientTold(m.state) = {Created(NoEntries, instanceName, TRUE, TRUE)}
      BY <1>4, <3>1, Zenon DEF ClientTold
    <3> QED  BY <1>4, <3>2 DEF AvahiTold
  <2>2. c = Created(NoEntries, instanceName, TRUE, TRUE)
    BY <2>1
  <2>3. /\ c.entered = NoEntries /\ c.name = instanceName /\ c.quit /\ c.quit \in BOOLEAN
        /\ c.fails \in BOOLEAN
    BY <2>2 DEF Created
  <2>4. NoEntries \in Groups /\ ~Holds(NoEntries)
    BY AnnouncementAssumption DEF NoEntries, Groups, Holds, Names
  <2>5. n = instanceName /\ ~Withdraws(m) /\ m.state # "taken"
    BY <1>4 DEF Withdraws
  <2> HIDE DEF n
  <2> QED  BY <1>1, <1>2, <1>4, <2>3, <2>4, <2>5 DEF Revives
<1>5. CASE m.of = "client" /\ m.state = "registering"
  <2>1. AvahiTold(m) = {Created(Reset(entered), instanceName, FALSE, FALSE)}
    BY <1>5, Zenon DEF AvahiTold, ClientTold
  <2>2. Reset(entered) \in Groups /\ ~Holds(Reset(entered))
    BY <1>1, AnnouncementAssumption DEF Reset, EmptyGroup, Groups, Holds, Names
  <2>3. c = Created(Reset(entered), instanceName, FALSE, FALSE)
    BY <2>1
  <2> QED  BY <1>1, <1>2, <1>5, <2>3, <2>2 DEF Created, Revives, Withdraws
<1>6. CASE m.of = "group" /\ m.state = "established"
  <2>1. c = Created(entered, instanceName, FALSE, FALSE)
    BY <1>6 DEF AvahiTold, GroupTold
  <2> QED  BY <1>1, <1>2, <1>6, <2>1 DEF Created, Revives, Withdraws
<1>7. CASE m.of = "group" /\ m.state = "failure"
  <2>1. c = Created(entered, instanceName, TRUE, TRUE)
    BY <1>7 DEF AvahiTold, GroupTold
  <2> QED  BY <1>1, <1>2, <1>7, <2>1 DEF Created, Revives, Withdraws
<1>8. CASE m.of = "group" /\ m.state = "taken"
  <2>1. AvahiTold(m) = CreatedServices(entered, instanceName + 1)
    BY <1>8 DEF AvahiTold, GroupTold
  <2>2. Made(entered, instanceName + 1, c)
    BY <1>1, <1>8, <2>1, ServicesMade
  <2> QED  BY <1>8, <2>2 DEF Made, Revives, Withdraws
<1> QED  BY <1>3, <1>4, <1>5, <1>6, <1>7, <1>8 DEF AvahiMessages

(* Being told keeps the invariant.                                         *)
LEMMA DispatchGoesOn ==
  ASSUME PublishInv, Dispatch PROVE PublishInv'
<1> DEFINE m == Head(waiting)
           n == IF m.state = "taken" THEN instanceName + 1 ELSE instanceName
<1>1. PublishTypes /\ ReturnsToCome /\ NamesLast /\ AnnouncedByName
  BY DEF PublishInv
<1>2. waiting \in Seq(AvahiMessages) /\ waiting # <<>> /\ m \in AvahiMessages
      /\ waiting' = Tail(waiting) /\ waiting' \in Seq(AvahiMessages)
      /\ Len(waiting') = Len(waiting) - 1 /\ waiting[1] = m /\ Len(waiting) \in Nat
      /\ \A i \in 1..Len(waiting') : waiting'[i] = waiting[i + 1]
  BY <1>1 DEF PublishTypes, Dispatch
<1>3. UNCHANGED <<system, usedHere, daemon, publisher, reference>> /\ system = "avahi"
      /\ publisher = "polls" /\ ~quitAsked
  BY DEF Dispatch, externalVars
<1>4. belated' = (belated \/ (m.state = "taken" /\ Holds(entered)))
  BY DEF Dispatch
<1>5. PICK c \in AvahiTold(m) : Yields(c)
  <2>1. \E c \in AvahiTold(m) : Yields(c)
    BY DEF Dispatch, AvahiTold
  <2> QED  BY <2>1
<1>6. entered' = c.entered /\ instanceName' = c.name
      /\ (quitAsked' <=> quitAsked \/ c.quit) /\ (refusals' <=> refusals \/ c.fails)
      /\ quitAsked' \in BOOLEAN /\ refusals' \in BOOLEAN
  BY <1>5 DEF Yields
<1>7. Cardinality(Collided(waiting)) \in Nat
      /\ Cardinality(Collided(waiting'))
           = Cardinality(Collided(waiting)) - (IF m.state = "taken" THEN 1 ELSE 0)
      /\ Cardinality(Collided(waiting')) \in Nat
  <2>1. Cardinality(Collided(waiting))
          = Cardinality(Collided(waiting')) + (IF m.state = "taken" THEN 1 ELSE 0)
    BY <1>2, CollisionsCount
  <2>2. Cardinality(Collided(waiting)) \in Nat /\ Cardinality(Collided(waiting')) \in Nat
    BY <1>2, CollisionsCount
  <2> QED  BY <2>1, <2>2
<1>8. instanceName \in Nat /\ instanceName \in Names /\ Cardinality(TakenFrom(instanceName)) \in Nat
      /\ MaxNames \in Nat
  <2>1. instanceName \in Names /\ instanceName \in Nat /\ MaxNames \in Nat
        /\ usedHere \in SUBSET (0..(MaxNames - 1))
    BY <1>1, AnnouncementAssumption DEF PublishTypes, Names
  <2> QED  BY <2>1, LaterFewer
<1>9. m.state = "taken" => instanceName + 1 \in Names
  <2>1. instanceName + Cardinality(Collided(waiting)) + Cardinality(TakenFrom(instanceName))
          <= MaxNames
    BY <1>1, <1>3 DEF NamesLast
  <2> HIDE DEF m
  <2> QED  BY <2>1, <1>7, <1>8 DEF Names
<1>10. /\ c.entered \in Groups /\ c.name \in Names /\ c.quit \in BOOLEAN /\ c.fails \in BOOLEAN
       /\ n <= c.name /\ n..(c.name - 1) \subseteq usedHere
       /\ Revives(m) => c.quit \/ Holds(c.entered)
       /\ ~Withdraws(m) /\ Holds(entered) => c.quit \/ Holds(c.entered)
       /\ ~Revives(m) /\ ~Withdraws(m) => c.entered = entered
       /\ m.state # "taken" /\ Holds(entered) /\ Holds(c.entered) =>
              c.entered = entered /\ c.name = instanceName
       /\ ~Holds(entered) /\ Holds(c.entered) =>
              c.entered.name = c.name /\ c.name \notin usedHere
  BY <1>1, <1>2, <1>5, <1>9, ToldMakes
<1>11. PublishTypes'
  BY <1>1, <1>2, <1>3, <1>4, <1>6, <1>10 DEF PublishTypes
<1>12. NamesLast'
  <2>1. n \in Names /\ n \in {instanceName, instanceName + 1}
        /\ (n - instanceName) + Cardinality(Collided(waiting')) <= Cardinality(Collided(waiting))
    BY <1>7, <1>8, <1>9
  <2>2. n <= instanceName' /\ n..(instanceName' - 1) \subseteq usedHere /\ instanceName' \in Names
    BY <1>6, <1>10
  <2>3. waiting' \in Seq(AvahiMessages) /\ UNCHANGED <<system, usedHere>>
    BY <1>2, <1>3
  <2> HIDE DEF n
  <2> QED  BY <1>1, <2>1, <2>2, <2>3, NameMoves
<1>13. ReturnsToCome'
  <2> SUFFICES ASSUME Listens' PROVE ReturnsToCome'
    BY DEF ReturnsToCome
  <2>1. Listens /\ ~c.quit
    BY <1>3, <1>6, <1>10 DEF Listens
  <2>2. Holds(entered) \/ \E i \in 1..Len(waiting) : Revives(waiting[i])
    BY <1>1, <1>2, <2>1 DEF ReturnsToCome
  <2>3. \A j \in 1..Len(waiting) : Withdraws(waiting[j]) =>
          \E i \in 1..Len(waiting) : i > j /\ Running(waiting[i])
    BY <1>1, <1>2, <2>1 DEF ReturnsToCome
  <2>4. DOMAIN waiting' = 1..Len(waiting') /\ Len(waiting') \in Nat
    BY <1>2
  <2>5. \A i \in 1..Len(waiting) : i > 1 =>
          i - 1 \in 1..Len(waiting') /\ waiting'[i - 1] = waiting[i]
    BY <1>2
  <2>6. \A j \in 1..Len(waiting') : Withdraws(waiting'[j]) =>
          \E i \in 1..Len(waiting') : i > j /\ Running(waiting'[i])
    <3> SUFFICES ASSUME NEW j \in 1..Len(waiting'), Withdraws(waiting'[j])
                 PROVE  \E i \in 1..Len(waiting') : i > j /\ Running(waiting'[i])
      OBVIOUS
    <3>1. j + 1 \in 1..Len(waiting) /\ Withdraws(waiting[j + 1])
      BY <1>2
    <3>2. PICK i \in 1..Len(waiting) : i > j + 1 /\ Running(waiting[i])
      BY <2>3, <3>1
    <3>3. i - 1 > j /\ i > 1
      BY <3>2
    <3>4. i - 1 \in 1..Len(waiting') /\ Running(waiting'[i - 1])
      BY <2>5, <3>2, <3>3
    <3> QED  BY <3>3, <3>4
  <2>7. Holds(entered)' \/ \E i \in 1..Len(waiting') : Revives(waiting'[i])
    <3>1. CASE Withdraws(m)
      <4>1. 1 \in 1..Len(waiting) /\ Withdraws(waiting[1])
        BY <1>2, <3>1
      <4>2. PICK i \in 1..Len(waiting) : i > 1 /\ Running(waiting[i])
        BY <2>3, <4>1
      <4>3. Revives(waiting[i])
        BY <4>2 DEF Running, Revives
      <4> QED  BY <2>5, <4>2, <4>3
    <3>2. CASE Revives(m)
      BY <1>6, <1>10, <2>1, <3>2 DEF Holds
    <3>3. CASE Holds(entered) /\ ~Withdraws(m)
      BY <1>6, <1>10, <2>1, <3>3 DEF Holds
    <3>4. CASE ~Holds(entered) /\ ~Withdraws(m) /\ ~Revives(m)
      <4>1. PICK i \in 1..Len(waiting) : Revives(waiting[i])
        BY <2>2, <3>4
      <4>2. i > 1
        BY <1>2, <3>4, <4>1
      <4> QED  BY <2>5, <4>1, <4>2
    <3> QED  BY <3>1, <3>2, <3>3, <3>4
  <2> QED  BY <2>4, <2>6, <2>7 DEF ReturnsToCome
<1>14. AnnouncedByName'
  <2> SUFFICES ASSUME Holds(entered)', ~belated' PROVE AnnouncedByName'
    BY DEF AnnouncedByName
  <2>1. ~belated /\ ~(m.state = "taken" /\ Holds(entered)) /\ Holds(c.entered)
    BY <1>4, <1>6 DEF Holds
  <2>2. entered'.name = instanceName' /\ entered'.name \notin usedHere
    <3>1. CASE Holds(entered)
      BY <1>1, <1>3, <1>6, <1>10, <2>1, <3>1 DEF AnnouncedByName
    <3>2. CASE ~Holds(entered)
      BY <1>6, <1>10, <2>1, <3>2
    <3> QED  BY <3>1, <3>2
  <2> QED  BY <1>3, <2>2 DEF AnnouncedByName
<1>15. ReferenceHeld'
  BY <1>3 DEF ReferenceHeld
<1> QED  BY <1>11, <1>12, <1>13, <1>14, <1>15 DEF PublishInv

(* So does what becomes of the server,                                     *)
LEMMA ServerGoesOn ==
  ASSUME PublishInv, ServerChanges PROVE PublishInv'
<1> DEFINE m == Message("client", daemon')
<1>1. PublishTypes /\ ReturnsToCome /\ NamesLast /\ AnnouncedByName /\ ReferenceHeld
  BY DEF PublishInv
<1>2. /\ system = "avahi" /\ daemon # "gone" /\ daemon' # daemon
      /\ daemon' \in {"running", "registering", "gone"}
      /\ entered' = (IF daemon' = "gone" THEN NoEntries ELSE entered)
      /\ waiting' = (IF publisher = "polls" THEN Append(waiting, m) ELSE waiting)
      /\ UNCHANGED <<system, usedHere, instanceName, publisher, quitAsked, reference, refusals,
                     belated>>
  BY DEF ServerChanges, Sends, externalVars
<1>3. m \in AvahiMessages /\ m.state = daemon' /\ m.of = "client" /\ m.state # "taken"
  BY <1>2 DEF Message, AvahiMessages
<1> HIDE DEF m
<1>4. waiting \in Seq(AvahiMessages) /\ waiting' \in Seq(AvahiMessages)
  BY <1>1, <1>2, <1>3 DEF PublishTypes
<1>5. NoEntries \in Groups /\ ~Holds(NoEntries)
  BY AnnouncementAssumption DEF NoEntries, Groups, Holds, Names
<1>6. PublishTypes'
  BY <1>1, <1>2, <1>4, <1>5 DEF PublishTypes
<1>7. NamesLast'
  <2>1. Cardinality(Collided(waiting')) = Cardinality(Collided(waiting))
    <3>1. Cardinality(Collided(Append(waiting, m))) = Cardinality(Collided(waiting)) + 0
      BY <1>3, <1>4, CollisionsCount
    <3>2. Cardinality(Collided(waiting)) \in Nat
      BY <1>4, CollisionsCount
    <3> QED  BY <1>2, <3>1, <3>2
  <2> QED  BY <1>1, <1>2, <2>1 DEF NamesLast, Collided, TakenFrom
<1>8. ReturnsToCome'
  <2> SUFFICES ASSUME Listens' PROVE ReturnsToCome'
    BY DEF ReturnsToCome
  <2>1. Running(m) /\ Revives(m) /\ ~Withdraws(m) /\ waiting' = Append(waiting, m)
    BY <1>2, <1>3 DEF Listens, Running, Revives, Withdraws
  <2>2. Len(waiting') = Len(waiting) + 1 /\ Len(waiting) \in Nat /\ waiting'[Len(waiting) + 1] = m
        /\ DOMAIN waiting' = 1..Len(waiting')
    BY <1>3, <1>4, <2>1
  <2>3. \A j \in DOMAIN waiting' : Withdraws(waiting'[j]) => j < Len(waiting')
    BY <2>1, <2>2
  <2> QED  BY <2>1, <2>2, <2>3 DEF ReturnsToCome
<1>9. AnnouncedByName'
  BY <1>1, <1>2, <1>5 DEF AnnouncedByName, Holds
<1>10. ReferenceHeld'
  BY <1>1, <1>2 DEF ReferenceHeld
<1> QED  BY <1>6, <1>7, <1>8, <1>9, <1>10 DEF PublishInv

(* what becomes of the entries,                                            *)
LEMMA EntriesGoOn ==
  ASSUME PublishInv, EntriesChange PROVE PublishInv'
<1>1. PublishTypes /\ ReturnsToCome /\ NamesLast /\ AnnouncedByName /\ ReferenceHeld
  BY DEF PublishInv
<1>2. /\ system = "avahi" /\ entered.state \in {"registering", "established"}
      /\ UNCHANGED <<system, usedHere, daemon, instanceName, publisher, quitAsked, reference,
                     refusals, belated>>
  BY DEF EntriesChange, externalVars
<1>3. PICK st \in {"established", "taken", "failure"} :
        /\ Sends(Message("group", st))
        /\ st = "established" => entered' = [entered EXCEPT !.state = "established"]
        /\ st # "established" => entered' = EmptyGroup
        /\ st = "taken" => instanceName + Renamings < MaxNames
  BY DEF EntriesChange
<1> DEFINE m == Message("group", st)
<1>4. m \in AvahiMessages /\ m.state = st /\ m.of = "group"
  BY DEF Message, AvahiMessages
<1>5. waiting' = IF publisher = "polls" THEN Append(waiting, m) ELSE waiting
  BY <1>3 DEF Sends
<1> HIDE DEF m
<1>6. waiting \in Seq(AvahiMessages) /\ waiting' \in Seq(AvahiMessages)
  BY <1>1, <1>4, <1>5 DEF PublishTypes
<1>7. entered \in Groups /\ entered' \in Groups /\ Holds(entered)
  <2>1. EmptyGroup \in Groups
    BY AnnouncementAssumption DEF EmptyGroup, Groups, Names
  <2>2. entered \in Groups /\ Holds(entered)
    BY <1>1, <1>2 DEF PublishTypes, Holds
  <2>3. [entered EXCEPT !.state = "established"] \in Groups
    BY <2>2 DEF Groups
  <2> QED  BY <1>3, <2>1, <2>2, <2>3
<1>8. PublishTypes'
  BY <1>1, <1>2, <1>6, <1>7 DEF PublishTypes
<1>9. NamesLast'
  <2>1. Cardinality(Collided(waiting)) \in Nat /\ Cardinality(Collided(waiting')) \in Nat
        /\ Cardinality(Collided(waiting')) <= Cardinality(Collided(waiting))
              + (IF st = "taken" THEN 1 ELSE 0)
    <3>1. Cardinality(Collided(Append(waiting, m)))
            = Cardinality(Collided(waiting)) + (IF m.state = "taken" THEN 1 ELSE 0)
      BY <1>4, <1>6, CollisionsCount
    <3>2. Cardinality(Collided(waiting)) \in Nat /\ Cardinality(Collided(waiting')) \in Nat
      BY <1>6, CollisionsCount
    <3> QED  BY <1>4, <1>5, <3>1, <3>2
  <2>2. instanceName \in Nat /\ MaxNames \in Nat /\ Cardinality(TakenFrom(instanceName)) \in Nat
        /\ Cardinality(usedHere) \in Nat
        /\ Cardinality(TakenFrom(instanceName)) <= Cardinality(usedHere)
    <3>1. instanceName \in Nat /\ MaxNames \in Nat /\ usedHere \in SUBSET (0..(MaxNames - 1))
      BY <1>1, AnnouncementAssumption DEF PublishTypes, Names
    <3>2. IsFiniteSet(0..(MaxNames - 1))
      BY <3>1, FS_Interval
    <3>3. IsFiniteSet(usedHere)
      BY <3>1, <3>2, FS_Subset
    <3> QED  BY <3>1, <3>3, LaterFewer, FS_CardinalityType
  <2>3. instanceName + Cardinality(Collided(waiting)) + Cardinality(TakenFrom(instanceName))
          <= MaxNames
    BY <1>1, <1>2 DEF NamesLast
  <2>4. st = "taken" =>
          instanceName + (Cardinality(Collided(waiting)) + Cardinality(usedHere)) < MaxNames
    BY <1>3 DEF Renamings, Collided
  <2>5. instanceName + Cardinality(Collided(waiting')) + Cardinality(TakenFrom(instanceName))
          <= MaxNames
    BY <2>1, <2>2, <2>3, <2>4
  <2> QED  BY <1>2, <2>5 DEF NamesLast, Collided, TakenFrom
<1>10. ReturnsToCome'
  <2> SUFFICES ASSUME Listens' PROVE ReturnsToCome'
    BY DEF ReturnsToCome
  <2>1. Listens /\ waiting' = Append(waiting, m)
    BY <1>2, <1>5 DEF Listens
  <2>2. Len(waiting') = Len(waiting) + 1 /\ Len(waiting) \in Nat /\ waiting'[Len(waiting) + 1] = m
        /\ DOMAIN waiting' = 1..Len(waiting') /\ DOMAIN waiting = 1..Len(waiting)
        /\ \A i \in 1..Len(waiting) : waiting'[i] = waiting[i]
    BY <1>4, <1>6, <2>1
  <2>3. ~Withdraws(m)
    BY <1>4 DEF Withdraws
  <2>4. Holds(entered)' \/ Revives(m)
    BY <1>3, <1>4, <1>7 DEF Holds, Revives, Groups
  <2>5. \A j \in DOMAIN waiting : Withdraws(waiting[j]) =>
          \E i \in DOMAIN waiting : i > j /\ Running(waiting[i])
    BY <1>1, <2>1 DEF ReturnsToCome
  <2>6. \A j \in DOMAIN waiting' : Withdraws(waiting'[j]) =>
          \E i \in DOMAIN waiting' : i > j /\ Running(waiting'[i])
    <3> SUFFICES ASSUME NEW j \in DOMAIN waiting', Withdraws(waiting'[j])
                 PROVE  \E i \in DOMAIN waiting' : i > j /\ Running(waiting'[i])
      OBVIOUS
    <3>1. j \in DOMAIN waiting /\ Withdraws(waiting[j])
      BY <2>2, <2>3
    <3>2. PICK i \in DOMAIN waiting : i > j /\ Running(waiting[i])
      BY <2>5, <3>1
    <3> QED  BY <2>2, <3>2
  <2>7. Holds(entered)' \/ \E i \in DOMAIN waiting' : Revives(waiting'[i])
    BY <2>2, <2>4
  <2> QED  BY <2>6, <2>7 DEF ReturnsToCome
<1>11. AnnouncedByName'
  <2>1. EmptyGroup.state = "empty"
    BY DEF EmptyGroup
  <2>2. entered'.name = entered.name \/ ~Holds(entered)'
    BY <1>3, <1>7, <2>1 DEF Holds, Groups
  <2> QED  BY <1>1, <1>2, <1>7, <2>2 DEF AnnouncedByName
<1>12. ReferenceHeld'
  BY <1>1, <1>2 DEF ReferenceHeld
<1> QED  BY <1>8, <1>9, <1>10, <1>11, <1>12 DEF PublishInv

(* and the start.                                                          *)
LEMMA StartsToPublish ==
  ASSUME PublishInv, StartAvahi PROVE PublishInv'
<1>1. PublishTypes /\ ReturnsToCome /\ NamesLast /\ AnnouncedByName /\ ReferenceHeld
  BY DEF PublishInv
<1>2. /\ system = "avahi" /\ publisher = "none" /\ waiting' = <<>>
      /\ UNCHANGED <<system, usedHere, daemon, reference, belated>>
  BY DEF StartAvahi, externalVars
<1>3. Cardinality(Collided(waiting')) = 0 /\ waiting' \in Seq(AvahiMessages)
  <2>1. Collided(<<>>) = {} /\ <<>> \in Seq(AvahiMessages)
    BY DEF Collided
  <2> QED  BY <1>2, <2>1, FS_EmptySet
<1>4. Cardinality(Collided(waiting)) \in Nat /\ instanceName \in Names /\ instanceName \in Nat
      /\ instanceName..(instanceName - 1) = {}
  BY <1>1, CollisionsCount, AnnouncementAssumption DEF PublishTypes, Names
<1>5. CASE publisher' = "absent" /\ refusals' = TRUE /\ UNCHANGED <<entered, instanceName, quitAsked>>
  <2>1. PublishTypes'
    BY <1>1, <1>2, <1>3, <1>5 DEF PublishTypes
  <2>2. NamesLast'
    <3>1. instanceName' \in Names /\ UNCHANGED <<system, usedHere>> /\ instanceName' = instanceName
          /\ instanceName..(instanceName' - 1) \subseteq usedHere
          /\ (instanceName - instanceName) + Cardinality(Collided(waiting'))
               <= Cardinality(Collided(waiting))
      BY <1>2, <1>3, <1>4, <1>5
    <3> QED  BY <1>1, <1>3, <1>4, <3>1, NameMoves
  <2>3. ReturnsToCome' /\ ReferenceHeld'
    BY <1>2, <1>5 DEF ReturnsToCome, Listens, ReferenceHeld
  <2>4. AnnouncedByName'
    BY <1>1, <1>2, <1>5 DEF AnnouncedByName, Holds
  <2> QED  BY <2>1, <2>2, <2>3, <2>4 DEF PublishInv
<1>6. CASE daemon # "gone" /\ publisher' = "polls" /\ \E c \in ClientTold(daemon) : Yields(c)
  <2> DEFINE m == Message("client", daemon)
  <2>1. PICK c \in ClientTold(daemon) : Yields(c)
    BY <1>6
  <2>2. m \in AvahiMessages /\ m.state = daemon /\ m.of = "client" /\ m.state # "taken"
        /\ AvahiTold(m) = ClientTold(daemon)
    BY <1>1 DEF Message, AvahiMessages, PublishTypes, AvahiTold
  <2> HIDE DEF m
  <2>3. entered' = c.entered /\ instanceName' = c.name
        /\ (quitAsked' <=> quitAsked \/ c.quit) /\ (refusals' <=> refusals \/ c.fails)
        /\ quitAsked' \in BOOLEAN /\ refusals' \in BOOLEAN
    BY <2>1 DEF Yields
  <2>4. /\ c.entered \in Groups /\ c.name \in Names /\ c.quit \in BOOLEAN /\ c.fails \in BOOLEAN
        /\ LET n == IF m.state = "taken" THEN instanceName + 1 ELSE instanceName
           IN  n <= c.name /\ n..(c.name - 1) \subseteq usedHere
        /\ Revives(m) => c.quit \/ Holds(c.entered)
        /\ m.state # "taken" /\ Holds(entered) /\ Holds(c.entered) =>
              c.entered = entered /\ c.name = instanceName
        /\ ~Holds(entered) /\ Holds(c.entered) =>
              c.entered.name = c.name /\ c.name \notin usedHere
    BY <1>1, <2>1, <2>2, ToldMakes
  <2>5. PublishTypes'
    BY <1>1, <1>2, <1>3, <1>6, <2>3, <2>4 DEF PublishTypes
  <2>6. NamesLast'
    <3>1. instanceName <= instanceName' /\ instanceName..(instanceName' - 1) \subseteq usedHere
          /\ instanceName' \in Names
      BY <2>2, <2>3, <2>4
    <3>2. (instanceName - instanceName) + Cardinality(Collided(waiting'))
             <= Cardinality(Collided(waiting)) /\ UNCHANGED <<system, usedHere>>
      BY <1>2, <1>3, <1>4
    <3> QED  BY <1>1, <1>3, <1>4, <3>1, <3>2, NameMoves
  <2>7. ReturnsToCome'
    <3> SUFFICES ASSUME Listens' PROVE ReturnsToCome'
      BY DEF ReturnsToCome
    <3>1. Revives(m) /\ ~c.quit
      BY <1>2, <2>2, <2>3, <2>4 DEF Listens, Revives
    <3>2. Holds(entered)'
      BY <2>3, <2>4, <3>1 DEF Holds
    <3> QED  BY <1>2, <3>2 DEF ReturnsToCome
  <2>8. AnnouncedByName'
    <3> SUFFICES ASSUME Holds(entered)', ~belated' PROVE AnnouncedByName'
      BY DEF AnnouncedByName
    <3>1. ~belated /\ Holds(c.entered)
      BY <1>2, <2>3 DEF Holds
    <3>2. entered'.name = instanceName' /\ entered'.name \notin usedHere
      <4>1. CASE Holds(entered)
        BY <1>1, <1>2, <2>2, <2>3, <2>4, <3>1, <4>1 DEF AnnouncedByName
      <4>2. CASE ~Holds(entered)
        BY <2>3, <2>4, <3>1, <4>2
      <4> QED  BY <4>1, <4>2
    <3> QED  BY <1>2, <3>2 DEF AnnouncedByName
  <2>9. ReferenceHeld'
    BY <1>2 DEF ReferenceHeld
  <2> QED  BY <2>5, <2>6, <2>7, <2>8, <2>9 DEF PublishInv
<1> QED  BY <1>5, <1>6 DEF StartAvahi

(* Every step of the announcement keeps the invariant,                     *)
LEMMA PublishGoesOn == PublishInv /\ [AnnouncementNext]_publishVars => PublishInv'
<1> SUFFICES ASSUME PublishInv, [AnnouncementNext]_publishVars PROVE PublishInv'
  OBVIOUS
<1>1. PublishTypes /\ ReturnsToCome /\ NamesLast /\ AnnouncedByName /\ ReferenceHeld
  BY DEF PublishInv
<1>2. NoEntries \in Groups /\ ~Holds(NoEntries)
  BY AnnouncementAssumption DEF NoEntries, Groups, Holds, Names
<1>3. CASE StartAvahi
  BY <1>3, StartsToPublish
<1>4. CASE ServerChanges
  BY <1>4, ServerGoesOn
<1>5. CASE EntriesChange
  BY <1>5, EntriesGoOn
<1>6. CASE Dispatch
  BY <1>6, DispatchGoesOn
<1>7. CASE PollEnds
  <2>1. UNCHANGED <<system, usedHere, daemon, waiting, entered, instanceName, quitAsked, reference,
                    refusals, belated>> /\ publisher' = "over" /\ system = "avahi"
    BY <1>7 DEF PollEnds, externalVars
  <2>2. PublishTypes'
    BY <1>1, <2>1 DEF PublishTypes
  <2> QED  BY <1>1, <2>1, <2>2
           DEF PublishInv, ReturnsToCome, Listens, NamesLast, AnnouncedByName, ReferenceHeld, Holds,
               Collided, TakenFrom
<1>8. CASE StopAvahi
  <2>1. UNCHANGED <<system, usedHere, daemon, waiting, instanceName, reference, refusals, belated>>
        /\ system = "avahi" /\ publisher' \in {publisher, "ended"}
        /\ entered' \in {entered, NoEntries} /\ quitAsked' \in {TRUE, quitAsked}
        /\ (quitAsked' \/ publisher' = "ended")
    BY <1>8 DEF StopAvahi, externalVars
  <2>2. PublishTypes'
    BY <1>1, <1>2, <2>1 DEF PublishTypes
  <2>3. ReturnsToCome' /\ ReferenceHeld'
    BY <2>1 DEF ReturnsToCome, Listens, ReferenceHeld
  <2>4. NamesLast' /\ AnnouncedByName'
    BY <1>1, <1>2, <2>1 DEF NamesLast, AnnouncedByName, Holds, Collided, TakenFrom
  <2> QED  BY <2>2, <2>3, <2>4 DEF PublishInv
<1>9. ASSUME system # "avahi", UNCHANGED <<system, usedHere, daemon, belated>>,
             PublishTypes', AnnouncedByName', ReferenceHeld'
      PROVE  PublishInv'
  BY <1>9 DEF PublishInv, ReturnsToCome, Listens, NamesLast
<1>10. CASE RegisterWindows
  <2>1. UNCHANGED <<system, usedHere, daemon, belated, waiting, quitAsked>> /\ system = "windows"
        /\ publisher' = "made" /\ reference' \in BOOLEAN
    BY <1>10 DEF RegisterWindows, externalVars
  <2>2. CASE \E n \in {instanceName, instanceName + 1} \cap Names :
               /\ instanceName' = n /\ entered' = [state |-> "established", name |-> n]
               /\ UNCHANGED refusals
    <3>1. PICK n \in {instanceName, instanceName + 1} \cap Names :
               /\ instanceName' = n /\ entered' = [state |-> "established", name |-> n]
               /\ UNCHANGED refusals
      BY <2>2
    <3>2. entered' \in Groups /\ entered'.name = n
      BY <3>1 DEF Groups
    <3>3. PublishTypes'
      BY <1>1, <2>1, <3>1, <3>2 DEF PublishTypes
    <3> QED  BY <1>9, <2>1, <3>1, <3>2, <3>3 DEF AnnouncedByName, ReferenceHeld
  <2>3. CASE refusals' = TRUE /\ UNCHANGED <<entered, instanceName>>
    <3>1. PublishTypes'
      BY <1>1, <2>1, <2>3 DEF PublishTypes
    <3> QED  BY <1>1, <1>9, <2>1, <2>3, <3>1 DEF AnnouncedByName, ReferenceHeld, Holds
  <2> QED  BY <1>10, <2>2, <2>3 DEF RegisterWindows
<1>11. CASE UnregisterWindows
  <2>1. UNCHANGED <<system, usedHere, daemon, belated, waiting, quitAsked, instanceName>>
        /\ system = "windows" /\ publisher' = "ended" /\ entered' \in {entered, NoEntries}
        /\ reference' \in {FALSE, reference} /\ refusals' \in {TRUE, refusals}
    BY <1>11 DEF UnregisterWindows, externalVars
  <2>2. PublishTypes'
    BY <1>1, <1>2, <2>1 DEF PublishTypes
  <2> QED  BY <1>1, <1>2, <1>9, <2>1, <2>2 DEF AnnouncedByName, ReferenceHeld, Holds
<1>12. CASE RegisterMac
  <2>1. UNCHANGED <<system, usedHere, daemon, belated, waiting, quitAsked, instanceName>>
        /\ system = "macos"
    BY <1>12 DEF RegisterMac, externalVars
  <2>2. CASE publisher' = "polls" /\ reference' = TRUE
               /\ entered' = [state |-> "registering", name |-> instanceName] /\ UNCHANGED refusals
    <3>1. entered' \in Groups /\ entered'.name = instanceName
      BY <1>1, <2>2 DEF Groups, PublishTypes
    <3>2. PublishTypes'
      BY <1>1, <2>1, <2>2, <3>1 DEF PublishTypes
    <3> QED  BY <1>9, <2>1, <2>2, <3>1, <3>2 DEF AnnouncedByName, ReferenceHeld
  <2>3. CASE publisher' = "ended" /\ refusals' = TRUE /\ UNCHANGED <<entered, reference>>
    <3>1. PublishTypes'
      BY <1>1, <2>1, <2>3 DEF PublishTypes
    <3> QED  BY <1>1, <1>9, <2>1, <2>3, <3>1 DEF AnnouncedByName, ReferenceHeld, Holds
  <2> QED  BY <1>12, <2>2, <2>3 DEF RegisterMac
<1>13. CASE AnswersMac
  <2>1. UNCHANGED <<system, usedHere, daemon, belated, instanceName, publisher, quitAsked,
                    reference, refusals>>
        /\ system = "macos" /\ entered.state = "registering"
    BY <1>13 DEF AnswersMac, externalVars
  <2>2. PICK st \in {"established", "failure"} : waiting' = <<Message("group", st)>>
    BY <1>13 DEF AnswersMac
  <2>3. waiting' \in Seq(AvahiMessages)
    <3>1. Message("group", st) \in AvahiMessages
      BY DEF Message, AvahiMessages
    <3> QED  BY <2>2, <3>1
  <2>4. entered' \in Groups /\ (Holds(entered') => entered'.name = entered.name) /\ Holds(entered)
    <3>1. entered' \in {NoEntries, [entered EXCEPT !.state = "established"]}
      BY <1>13 DEF AnswersMac
    <3>2. [entered EXCEPT !.state = "established"] \in Groups
          /\ [entered EXCEPT !.state = "established"].name = entered.name
      BY <1>1 DEF PublishTypes, Groups
    <3>3. Holds(entered)
      BY <2>1 DEF Holds
    <3> QED  BY <1>2, <3>1, <3>2, <3>3
  <2>5. PublishTypes'
    BY <1>1, <2>1, <2>3, <2>4 DEF PublishTypes
  <2>6. AnnouncedByName'
    BY <1>1, <2>1, <2>4 DEF AnnouncedByName, Holds
  <2> QED  BY <1>1, <1>9, <2>1, <2>5, <2>6 DEF ReferenceHeld
<1>14. CASE PollMac
  <2>1. UNCHANGED <<system, usedHere, daemon, belated, waiting, entered, instanceName, quitAsked,
                    reference>>
        /\ system = "macos" /\ publisher = "polls" /\ publisher' \in {"processes", "over"}
        /\ refusals' \in {TRUE, refusals}
    BY <1>14 DEF PollMac, externalVars
  <2>2. PublishTypes'
    BY <1>1, <2>1 DEF PublishTypes
  <2> QED  BY <1>1, <1>9, <2>1, <2>2 DEF AnnouncedByName, ReferenceHeld, Holds
<1>15. CASE ProcessMac
  <2>1. UNCHANGED <<system, usedHere, daemon, belated, entered, instanceName, quitAsked, reference>>
        /\ system = "macos" /\ publisher' = "over" /\ waiting' = <<>>
    BY <1>15 DEF ProcessMac, externalVars
  <2>2. refusals' \in BOOLEAN
    <3>1. refusals' = (refusals \/ \E i \in DOMAIN waiting : waiting[i].state = "failure")
      BY <1>15 DEF ProcessMac
    <3> QED  BY <3>1
  <2>3. PublishTypes'
    BY <1>1, <2>1, <2>2 DEF PublishTypes
  <2> QED  BY <1>1, <1>9, <2>1, <2>3 DEF AnnouncedByName, ReferenceHeld, Holds
<1>16. CASE AskMacToStop
  <2>1. UNCHANGED <<system, usedHere, daemon, belated, waiting, entered, instanceName, publisher,
                    reference, refusals>>
        /\ system = "macos" /\ quitAsked' = TRUE
    BY <1>16 DEF AskMacToStop, externalVars
  <2>2. PublishTypes'
    BY <1>1, <2>1 DEF PublishTypes
  <2> QED  BY <1>1, <1>9, <2>1, <2>2 DEF AnnouncedByName, ReferenceHeld, Holds
<1>17. CASE UnregisterMac
  <2>1. UNCHANGED <<system, usedHere, daemon, belated, waiting, instanceName, quitAsked, refusals>>
        /\ system = "macos" /\ publisher' = "ended" /\ reference' = FALSE /\ entered' = NoEntries
    BY <1>17 DEF UnregisterMac, externalVars
  <2>2. PublishTypes'
    BY <1>1, <1>2, <2>1 DEF PublishTypes
  <2> QED  BY <1>2, <1>9, <2>1, <2>2 DEF AnnouncedByName, ReferenceHeld, Holds
<1>18. CASE UNCHANGED publishVars
  BY <1>1, <1>18
  DEF publishVars, externalVars, PublishInv, PublishTypes, ReturnsToCome, Listens, NamesLast,
      AnnouncedByName, ReferenceHeld, Holds, Collided, TakenFrom
<1> QED
  BY <1>3, <1>4, <1>5, <1>6, <1>7, <1>8, <1>10, <1>11, <1>12, <1>13, <1>14, <1>15, <1>16, <1>17,
     <1>18
  DEF AnnouncementNext

(* which implies what is promised.                                         *)
LEMMA PublishHolds ==
  PublishInv => AnnouncementTypeOK /\ KeepsAnnouncing /\ AnnouncedByName /\ ReferenceHeld
<1> SUFFICES ASSUME PublishInv
             PROVE  AnnouncementTypeOK /\ KeepsAnnouncing /\ AnnouncedByName /\ ReferenceHeld
  OBVIOUS
<1>1. AnnouncementTypeOK
  <2>1. usedHere \subseteq Names
    BY AnnouncementAssumption DEF PublishInv, PublishTypes, Names
  <2> QED  BY <2>1 DEF PublishInv, PublishTypes, AnnouncementTypeOK, Groups
<1>2. KeepsAnnouncing
  BY DEF PublishInv, ReturnsToCome, Listens, KeepsAnnouncing
<1> QED  BY <1>1, <1>2 DEF PublishInv

-------------------------------------------------------------------------------
(* The requests of an RTSP handshake: what is read of one, and what the    *)
(* client was offered.                                                     *)
Offered ==
  [supported |-> {"control", "audio"} \cup (IF client.mode = "never" THEN {} ELSE {"video"}),
   requested |-> Asks(client.mode)]
RtspDomains ==
  /\ client \in Clients /\ verbNr \in 1..5 /\ received \in RtspRequests
  /\ got \in Nat /\ got <= BufSize /\ got <= Total /\ crlf \in 0..got
  /\ reading \in {"none", "head", "payload", "secret head", "secret", "closed"}
  /\ answer \in {0, 200, 400, 403, 404, 500} /\ heard \in BOOLEAN /\ split \in BOOLEAN
ReadSoFar ==
  /\ reading # "closed" => answer = 0
  /\ reading = "none" => got = 0 /\ crlf = 0 /\ ~split
  /\ reading = "head" =>
       ~received.secret /\ crlf = 0 /\ got < BufSize /\ (~split => got <= received.head)
  /\ reading = "payload" =>
       ~received.secret /\ crlf = received.head + BlankLine /\ got < crlf + received.body
  /\ reading \in {"secret head", "secret"} => received.secret
  /\ reading = "secret head" => got = 0
  /\ reading = "secret" => got = SecretHead /\ Total < BufSize
OfferMade ==
  /\ offer \in {NoOffer, Offered}
  /\ verbNr > 2 \/ (verbNr = 2 /\ answer = 200) => offer = Offered
  /\ session # {} => verbNr \in {4, 5}
SessionAsked ==
  session = {} \/ \E s : /\ session = {s} /\ s.profile \in Profiles
                        /\ s.bitrate = IF s.profile.chosen = 0 THEN Maximum
                             ELSE VideoBitrate(s.profile.chosen, s.profile.fec, s.profile.quality,
                                               s.profile.channels)
RtspInv ==
  /\ RtspDomains /\ ReadSoFar /\ OfferMade /\ SessionAsked
  /\ WholeRequest /\ RequestAnswered /\ EncryptionAgreed

(* Of two numbers, the lesser and the greater.                             *)
LEMMA LesserOf ==
  ASSUME NEW a \in Int, NEW b \in Int
  PROVE  /\ Min({a, b}) = IF a <= b THEN a ELSE b
         /\ Max({a, b}) = IF a <= b THEN b ELSE a
<1>1. \E x \in {a, b} : \A y \in {a, b} : x <= y
  OBVIOUS
<1>2. Min({a, b}) \in {a, b} /\ \A y \in {a, b} : Min({a, b}) <= y
  BY <1>1 DEF Min
<1>3. \E x \in {a, b} : \A y \in {a, b} : x >= y
  OBVIOUS
<1>4. Max({a, b}) \in {a, b} /\ \A y \in {a, b} : Max({a, b}) >= y
  BY <1>3 DEF Max
<1> QED  BY <1>2, <1>4

(* The bitrate of the video: parity, sound and overhead fit with it.       *)
RateFits(c, f, s, b) ==
  /\ s \in Nat /\ b \in Nat
  /\ c * (100 - f) >= 500 * s /\ c * (100 - f) >= 100 * (5000 + s) =>
       b + (b * f) \div 100 + s + 500 <= c
  /\ 100 * b >= 72 * ((c * (100 - f)) \div 100) - 100
LEMMA BitrateIs ==
  ASSUME NEW c \in Nat, NEW f \in 1..80, NEW q \in BOOLEAN, NEW n \in {2, 6, 8}
  PROVE  RateFits(c, f, SoundShare(q, n), VideoBitrate(c, f, q, n))
<1> DEFINE s == SoundShare(q, n)
           b == VideoBitrate(c, f, q, n)
           K == c * (100 - f)
           P == c * f
           data == K \div 100
           l == Min({s, data \div 5})
           rest == data - l
           o == Min({500, rest \div 10})
<1>1. s \in Nat
  BY DEF SoundShare
<1>2. K \in Nat /\ P \in Nat /\ K = 100 * c - P
  OBVIOUS
<1>3. b = rest - o
  <2>1. f <= 80
    OBVIOUS
  <2> QED  BY <2>1, Zenon DEF VideoBitrate
<1> HIDE DEF K, s, b
<1>4. data \in Nat /\ 100 * data <= K /\ K < 100 * data + 100
  BY <1>2
<1> HIDE DEF data
<1>5. data \div 5 \in Nat /\ 5 * (data \div 5) <= data /\ data < 5 * (data \div 5) + 5
  BY <1>4
<1>6. l = IF s <= data \div 5 THEN s ELSE data \div 5
  BY <1>1, <1>5, LesserOf
<1> HIDE DEF l
<1>7. rest \in Nat /\ 5 * rest >= 4 * data /\ rest <= data
  BY <1>1, <1>4, <1>5, <1>6
<1>8. rest \div 10 \in Nat /\ 10 * (rest \div 10) <= rest /\ rest < 10 * (rest \div 10) + 10
  BY <1>7
<1>9. o = IF 500 <= rest \div 10 THEN 500 ELSE rest \div 10
  BY <1>8, LesserOf
<1>10. (K >= 500 * s /\ K >= 100 * (5000 + s)) => rest = data - s /\ o = 500
  <2> SUFFICES ASSUME K >= 500 * s, K >= 100 * (5000 + s) PROVE rest = data - s /\ o = 500
    OBVIOUS
  <2>1. data >= 5 * s /\ data >= 5000 + s
    BY <1>1, <1>2, <1>4
  <2>2. l = s
    BY <1>1, <1>4, <1>5, <1>6, <2>1
  <2>3. rest = data - s /\ rest >= 5000
    BY <1>1, <1>4, <2>1, <2>2
  <2> HIDE DEF rest
  <2> QED  BY <1>7, <1>8, <1>9, <2>3
<1> HIDE DEF rest, o
<1>11. b \in Nat /\ b <= rest /\ 10 * b >= 9 * rest
  BY <1>3, <1>7, <1>8, <1>9
<1>12. 100 * b >= 72 * data - 100
  BY <1>4, <1>7, <1>11
<1>13. ASSUME K >= 500 * s, K >= 100 * (5000 + s) PROVE b + (b * f) \div 100 + s + 500 <= c
  <2> DEFINE B == b * f
             r == B \div 100
  <2>1. b <= c
    BY <1>2, <1>4, <1>7, <1>11
  <2>2. B \in Nat /\ B <= P
    <3>1. \A x, y \in Nat : x <= y => x * f \in Nat /\ x * f <= y * f
      OBVIOUS
    <3> QED  BY <1>11, <2>1, <3>1
  <2> HIDE DEF B, P
  <2>3. r \in Nat /\ 100 * r <= B
    BY <2>2
  <2> HIDE DEF r
  <2>4. b = data - s - 500
    BY <1>1, <1>3, <1>4, <1>10, <1>13
  <2>5. b + r + s + 500 <= c
    BY <1>1, <1>2, <1>4, <2>2, <2>3, <2>4
  <2> QED  BY <2>5 DEF r, B
<1> QED  BY <1>1, <1>11, <1>12, <1>13 DEF K, s, b, data, RateFits

(* The bitrate is a number.                                                *)
LEMMA BitrateCounts ==
  ASSUME NEW c \in Nat, NEW f \in 1..255, NEW q \in BOOLEAN, NEW n \in {2, 6, 8}
  PROVE  VideoBitrate(c, f, q, n) \in Nat
<1>1. CASE f <= 80
  <2>1. f \in 1..80
    BY <1>1
  <2>2. RateFits(c, f, SoundShare(q, n), VideoBitrate(c, f, q, n))
    BY <2>1, BitrateIs
  <2> QED  BY <2>2 DEF RateFits
<1>2. CASE f > 80
  <2> DEFINE s == SoundShare(q, n)
             l == Min({s, c \div 5})
             rest == c - l
             t == rest \div 10
             o == Min({500, t})
  <2>1. s \in Nat /\ c \div 5 \in Nat /\ c \div 5 <= c
    BY DEF SoundShare
  <2>2. VideoBitrate(c, f, q, n) = rest - o
    BY <1>2 DEF VideoBitrate
  <2> HIDE DEF s
  <2>3. l \in Nat /\ l <= c
    BY <2>1, LesserOf
  <2> HIDE DEF l
  <2>4. rest \in Nat
    BY <2>3
  <2> HIDE DEF rest
  <2>5. t \in Nat /\ t <= rest
    BY <2>4
  <2> HIDE DEF t
  <2>6. o = IF 500 <= t THEN 500 ELSE t
    BY <2>5, LesserOf
  <2> HIDE DEF o
  <2>7. o \in Nat /\ o <= rest
    BY <2>4, <2>5, <2>6
  <2> QED  BY <2>2, <2>4, <2>7
<1> QED  BY <1>1, <1>2

(* The lengths of a request.                                               *)
LEMMA RequestIs ==
  ASSUME NEW r \in RtspRequests
  PROVE  /\ r.secret \in BOOLEAN /\ r.intact \in BOOLEAN
         /\ r.head \in Nat \ {0} /\ r.body \in Nat /\ (r.secret => r.body > 0)
  BY RtspAssumption DEF RtspRequests

(* What comes of a request.                                                *)
LEMMA TotalIs ==
  ASSUME received \in RtspRequests
  PROVE  /\ Total \in Nat \ {0} /\ (received.secret => Total = received.body + 1)
         /\ (~received.secret => Total = received.head + 4 + received.body)
  BY RequestIs DEF Total, SecretHead, BlankLine

(* The first connection is not accepted yet.                               *)
LEMMA RtspStarts == RtspInit => RtspInv
<1> SUFFICES ASSUME RtspInit PROVE RtspInv
  OBVIOUS
<1>1. /\ client \in Clients /\ verbNr = 1 /\ received \in RtspRequests /\ got = 0 /\ crlf = 0
      /\ reading = "none" /\ answer = 0 /\ heard = FALSE /\ offer = NoOffer /\ session = {}
      /\ split = FALSE
  BY DEF RtspInit, FirstRequests
<1>2. Total \in Nat \ {0}
  BY <1>1, TotalIs
<1>3. RtspDomains
  <2>1. BufSize \in Nat
    BY RtspAssumption
  <2>2. got \in Nat /\ got <= BufSize /\ got <= Total /\ crlf \in 0..got /\ verbNr \in 1..5
    BY <1>1, <1>2, <2>1
  <2> QED  BY <1>1, <2>2 DEF RtspDomains
<1>4. ReadSoFar /\ OfferMade /\ SessionAsked
  BY <1>1 DEF ReadSoFar, OfferMade, SessionAsked
<1>5. WholeRequest /\ RequestAnswered /\ EncryptionAgreed
  BY <1>1, <1>2 DEF WholeRequest, RequestAnswered, EncryptionAgreed
<1> QED  BY <1>3, <1>4, <1>5 DEF RtspInv

(* What goes on while a request is read.                                   *)
SameRequest == UNCHANGED <<client, verbNr, received, codecs>>
LEMMA ReadsOn ==
  ASSUME RtspInv, SameRequest, UNCHANGED <<answer, heard, offer, session>>,
         RtspDomains', ReadSoFar', reading # "closed", answer = 0,
         got' = Total => split'
  PROVE  RtspInv'
<1> USE DEF RtspInv, SameRequest
<1>1. Offered' = Offered /\ Total' = Total /\ Needs(client.mode)' = Needs(client.mode)
  BY DEF Offered, Total, Asks, Needs
<1>2. OfferMade' /\ SessionAsked'
  BY <1>1 DEF OfferMade, SessionAsked
<1>3. WholeRequest' /\ EncryptionAgreed'
  BY <1>1 DEF WholeRequest, EncryptionAgreed
<1>4. RequestAnswered'
  BY <1>1 DEF RequestAnswered
<1> QED  BY <1>2, <1>3, <1>4

(* A reply that changes neither the offer nor the session.                 *)
LEMMA Replies ==
  ASSUME RtspInv, SameRequest, NEW code \in {0, 200, 400, 403, 404, 500},
         answer' = code, reading' = "closed", heard' \in BOOLEAN,
         UNCHANGED <<offer, session>>, reading # "closed",
         got' \in Nat, got' <= BufSize, got' <= Total, crlf' \in 0..got', split' \in BOOLEAN,
         code \in {200, 403, 404, 500} => got' = Total /\ crlf' # 0,
         code = 400 /\ got' = Total /\ ~split' =>
           ~received.intact \/ received.secret \/ verbNr = 4,
         code = 403 => ~client.knows,
         code = 200 => verbNr # 2
  PROVE  RtspInv'
<1> USE DEF SameRequest
<1>0. /\ RtspDomains /\ OfferMade /\ SessionAsked /\ EncryptionAgreed
  BY DEF RtspInv
<1>1. Offered' = Offered /\ Total' = Total /\ Needs(client.mode)' = Needs(client.mode)
  BY DEF Offered, Total, Asks, Needs
<1>2. RtspDomains'
  BY <1>0, <1>1 DEF RtspDomains
<1>3. ReadSoFar'
  BY DEF ReadSoFar
<1>4. OfferMade'
  BY <1>0, <1>1 DEF OfferMade
<1>5. SessionAsked'
  BY <1>0 DEF SessionAsked
<1>6. WholeRequest'
  BY <1>1 DEF WholeRequest
<1>7. verbNr = 4 => Verbs[verbNr] = "ANNOUNCE"
  BY DEF Verbs
<1>8. RequestAnswered'
  BY <1>1, <1>7 DEF RequestAnswered
<1>9. EncryptionAgreed'
  BY <1>0, <1>1 DEF EncryptionAgreed
<1> QED  BY <1>2, <1>3, <1>4, <1>5, <1>6, <1>8, <1>9 DEF RtspInv

(* What the client made of the offer.                                      *)
LEMMA EnabledIs ==
  ASSUME client \in Clients, offer = Offered
  PROVE  /\ Enabled \subseteq offer.supported
         /\ client.knows => Needs(client.mode) \subseteq Enabled
         /\ client.knows => client.wishes \cap offer.supported \subseteq Enabled
<1>1. /\ client.wishes \subseteq {"video", "audio"} /\ client.knows \in BOOLEAN
      /\ client.mode \in {"never", "opportunistic", "mandatory"}
  BY DEF Clients
<1>2. /\ offer.supported = {"control", "audio"} \cup (IF client.mode = "never" THEN {} ELSE {"video"})
      /\ offer.requested = {"control"} \cup Needs(client.mode)
  BY DEF Offered, Asks
<1>3. Needs(client.mode) = IF client.mode = "mandatory" THEN {"video", "audio"} ELSE {}
  BY DEF Needs
<1>4. Enabled \subseteq offer.supported
  BY <1>1, <1>2, <1>3 DEF Enabled, Enables
<1>5. client.knows => Needs(client.mode) \subseteq Enabled
  BY <1>1, <1>2, <1>3 DEF Enabled, Enables
<1>6. client.knows => client.wishes \cap offer.supported \subseteq Enabled
  BY <1>1, <1>2, <1>3 DEF Enabled, Enables
<1> QED  BY <1>4, <1>5, <1>6

(* A command that has come whole is handled.                               *)
LEMMA Handles ==
  ASSUME RtspInv, SameRequest, Handle, reading # "closed",
         got' = Total, got' <= BufSize, crlf' \in 1..got', split' \in BOOLEAN
  PROVE  RtspInv'
<1> USE DEF SameRequest
<1>0. /\ RtspDomains /\ OfferMade /\ SessionAsked /\ EncryptionAgreed
  BY DEF RtspInv
<1>1. /\ Offered' = Offered /\ Total' = Total /\ Needs(client.mode)' = Needs(client.mode)
      /\ Total \in Nat \ {0} /\ received \in RtspRequests /\ client \in Clients
  BY <1>0, TotalIs DEF Offered, Total, Asks, Needs, RtspDomains
<1>2. got' \in Nat /\ got' <= Total /\ crlf' \in 0..got' /\ crlf' # 0
  BY <1>1
<1>3. verbNr \in 1..5 /\ Verbs = <<"OPTIONS", "DESCRIBE", "SETUP", "ANNOUNCE", "PLAY">>
  BY <1>0 DEF RtspDomains, Verbs
<1>4. ASSUME NEW code \in {200, 400, 403, 404, 500}, Respond(code), UNCHANGED <<offer, session>>,
             verbNr # 2, code = 400 => verbNr = 4, code = 403 => ~client.knows
      PROVE  RtspInv'
  BY <1>2, <1>4, Replies DEF Respond
<1>5. CASE Verbs[verbNr] \in {"OPTIONS", "PLAY"} /\ Respond(200) /\ UNCHANGED <<offer, session>>
  <2>1. verbNr # 2
    BY <1>3, <1>5
  <2> QED  BY <1>4, <1>5, <2>1
<1>6. CASE Verbs[verbNr] = "SETUP" /\ SetUp /\ UNCHANGED <<offer, session>>
  <2>1. verbNr # 2
    BY <1>3, <1>6
  <2>2. PICK code \in {200, 404} : Respond(code)
    BY <1>6 DEF SetUp
  <2> QED  BY <1>4, <1>6, <2>1, <2>2
<1>7. CASE Verbs[verbNr] = "DESCRIBE" /\ Describe /\ UNCHANGED session
  <2>1. verbNr = 2
    BY <1>3, <1>7
  <2>2. answer' = 200 /\ reading' = "closed" /\ heard' \in BOOLEAN /\ offer' = Offered
        /\ session' = session /\ session = {}
    BY <1>0, <1>7, <2>1 DEF Describe, Respond, Offered, OfferMade
  <2>3. RtspDomains' /\ ReadSoFar'
    BY <1>0, <1>1, <1>2, <2>2 DEF RtspDomains, ReadSoFar
  <2>4. OfferMade' /\ SessionAsked'
    BY <1>0, <1>1, <2>2 DEF OfferMade, SessionAsked
  <2>5. WholeRequest' /\ RequestAnswered' /\ EncryptionAgreed'
    BY <1>1, <1>2, <2>2 DEF WholeRequest, RequestAnswered, EncryptionAgreed
  <2> QED  BY <2>3, <2>4, <2>5 DEF RtspInv
<1>8. CASE Verbs[verbNr] = "ANNOUNCE" /\ Announce /\ UNCHANGED offer
  <2>1. verbNr = 4 /\ offer = Offered
    BY <1>0, <1>3, <1>8 DEF OfferMade
  <2>2. PICK p \in Profiles, attributes \in {Required} \cup {Required \ {a} : a \in Required} :
          LET denial == Refusal(p, attributes)
          IN  \/ denial # 0 /\ Respond(denial) /\ UNCHANGED session
              \/ denial = 0 /\ Respond(500) /\ UNCHANGED session
              \/ denial = 0 /\ Respond(200) /\ StartSession(p)
    BY <1>8 DEF Announce
  <2>3. /\ Enabled \subseteq offer.supported
        /\ client.knows => Needs(client.mode) \subseteq Enabled
        /\ client.knows => client.wishes \cap offer.supported \subseteq Enabled
    BY <1>1, <2>1, EnabledIs
  <2>4. /\ Refusal(p, attributes) \in {0, 400, 403}
        /\ Refusal(p, attributes) = 403 => ~client.knows
        /\ Refusal(p, attributes) = 0 => Needs(client.mode) \subseteq Enabled
    BY <2>3 DEF Refusal
  <2>5. CASE UNCHANGED session /\ \E code \in {400, 403, 500} :
               Respond(code) /\ (code = 403 => ~client.knows)
    <3>1. PICK code \in {400, 403, 500} : Respond(code) /\ (code = 403 => ~client.knows)
      BY <2>5
    <3> QED  BY <1>4, <1>8, <2>1, <2>5, <3>1
  <2>6. CASE Refusal(p, attributes) = 0 /\ Respond(200) /\ StartSession(p)
    <3> DEFINE new == [encryption |-> Enabled, profile |-> p,
               bitrate |-> IF p.chosen = 0 THEN Maximum
                           ELSE VideoBitrate(p.chosen, p.fec, p.quality, p.channels),
               rateX100 |-> StrictRate(p.rateX100, 60),
               custom |-> p.channels # 2 /\ OwnLayout(p.layout, p.channels)]
    <3>1. answer' = 200 /\ reading' = "closed" /\ heard' \in BOOLEAN /\ session' = {new}
          /\ offer' = offer
      BY <1>8, <2>6 DEF Respond, StartSession
    <3>2. new.encryption = Enabled /\ new.profile = p
          /\ new.bitrate = IF p.chosen = 0 THEN Maximum
                           ELSE VideoBitrate(p.chosen, p.fec, p.quality, p.channels)
      OBVIOUS
    <3> HIDE DEF new
    <3>3. RtspDomains' /\ ReadSoFar'
      BY <1>0, <1>1, <1>2, <3>1 DEF RtspDomains, ReadSoFar
    <3>4. OfferMade'
      BY <1>0, <1>1, <2>1, <3>1 DEF OfferMade
    <3>5. SessionAsked'
      BY <3>1, <3>2 DEF SessionAsked
    <3>6. WholeRequest' /\ RequestAnswered'
      BY <1>1, <1>2, <3>1 DEF WholeRequest, RequestAnswered
    <3>7. EncryptionAgreed'
      BY <1>1, <2>3, <2>4, <2>6, <3>1, <3>2 DEF EncryptionAgreed
    <3> QED  BY <3>3, <3>4, <3>5, <3>6, <3>7 DEF RtspInv
  <2> QED  BY <2>2, <2>4, <2>5, <2>6
<1> QED  BY <1>5, <1>6, <1>7, <1>8 DEF Handle

(* A request that is denial for its form.                                 *)
LEMMA Refuses ==
  ASSUME RtspInv, SameRequest, BadRequest, reading # "closed",
         got' \in Nat, got' <= BufSize, got' <= Total, crlf' \in 0..got', split' \in BOOLEAN,
         got' = Total /\ ~split' => ~received.intact \/ received.secret
  PROVE  RtspInv'
<1>1. answer' = 400 /\ reading' = "closed" /\ heard' \in BOOLEAN /\ UNCHANGED <<offer, session>>
  BY DEF BadRequest, Respond
<1> QED  BY <1>1, Replies

(* The payload of a request that was parsed.                               *)
LEMMA PayloadGoesOn ==
  ASSUME RtspInv, SameRequest, NEW end \in Nat, got' = end, end <= BufSize, end <= Total, Payload(end),
         reading # "closed", answer = 0, ~received.secret,
         crlf' = received.head + BlankLine, crlf' <= end, split' \in BOOLEAN
  PROVE  RtspInv'
<1>0. received \in RtspRequests /\ RtspDomains
  BY DEF RtspInv, RtspDomains
<1>1. /\ received.head \in Nat \ {0} /\ received.body \in Nat /\ BlankLine = 4
      /\ Total = received.head + 4 + received.body
  BY <1>0, RequestIs, TotalIs DEF BlankLine
<1>2. crlf' \in 1..got' /\ got' \in Nat /\ crlf' \in 0..got'
  BY <1>1
<1>3. CASE ~received.intact
  BY <1>2, <1>3, Refuses DEF Payload
<1>4. CASE received.intact /\ Complete(end)
  <2>1. got' = Total
    BY <1>1, <1>4 DEF Complete
  <2>2. Handle
    BY <1>4 DEF Payload
  <2> QED  BY <1>2, <2>1, <2>2, Handles
<1>5. CASE received.intact /\ ~Complete(end)
  <2>1. got' < crlf' + received.body /\ got' # Total
    BY <1>1, <1>5 DEF Complete
  <2>2. CASE end = BufSize
    BY <1>2, <1>5, <2>1, <2>2, Refuses DEF Payload
  <2>3. CASE end # BufSize
    <3>1. reading' = "payload" /\ UNCHANGED <<answer, heard, offer, session>>
      BY <1>5, <2>3 DEF Payload
    <3>2. Total' = Total
      BY DEF Total, SameRequest
    <3>3. RtspDomains'
      BY <1>0, <1>2, <3>1, <3>2 DEF RtspDomains, SameRequest
    <3>4. ReadSoFar'
      BY <2>1, <3>1 DEF ReadSoFar, SameRequest
    <3> QED  BY <2>1, <3>1, <3>3, <3>4, ReadsOn
  <2> QED  BY <2>2, <2>3
<1> QED  BY <1>3, <1>4, <1>5

(* What is read of a header keeps the invariant,                           *)
LEMMA HeadGoesOn == ASSUME RtspInv, ReadHead PROVE RtspInv'
<1>0. /\ received \in RtspRequests /\ RtspDomains /\ ReadSoFar /\ got \in Nat
  BY DEF RtspInv, RtspDomains
<1>1. /\ reading = "head" /\ SameRequest /\ ~received.secret /\ crlf = 0 /\ answer = 0
      /\ got < BufSize /\ (~split => got <= received.head) /\ split \in BOOLEAN
      /\ BufSize \in Nat
  BY <1>0, RtspAssumption DEF ReadHead, SameRequest, ReadSoFar, RtspDomains
<1>2. /\ received.head \in Nat \ {0} /\ received.body \in Nat /\ BlankLine = 4
      /\ Total = received.head + 4 + received.body /\ Total \in Nat
  BY <1>0, <1>1, RequestIs, TotalIs DEF BlankLine
<1>3. PICK end \in 0..BufSize :
       /\ Arrives(end)
       /\ got' = end
       /\ IF received.head >= SearchFrom(got) /\ received.head + BlankLine <= end
          THEN crlf' = received.head + BlankLine /\ Payload(end) /\ UNCHANGED split
          ELSE /\ crlf' = crlf /\ NextRead(end)
               /\ split' = (split \/ end \in received.head + 1 .. received.head + BlankLine - 1)
  BY DEF ReadHead
<1>4. Min({Total, BufSize}) = (IF Total <= BufSize THEN Total ELSE BufSize)
      /\ SearchFrom(got) = got
  <2>1. Max({got - 4, got}) = got
    <3>1. got - 4 \in Int /\ got \in Int /\ got - 4 <= got
      BY <1>0
    <3>2. Max({got - 4, got}) = IF got - 4 <= got THEN got ELSE got - 4
      BY <3>1, LesserOf
    <3> QED  BY <3>1, <3>2
  <2>2. SearchFrom(got) = got
    BY <1>2, <2>1 DEF SearchFrom
  <2> QED  BY <1>1, <1>2, <2>2, LesserOf
<1>5. end \in Nat /\ end > got /\ end <= Total /\ end <= BufSize
  BY <1>0, <1>1, <1>2, <1>3, <1>4 DEF Arrives
<1>6. CASE received.head >= got /\ received.head + 4 <= end
  <2>1. crlf' = received.head + BlankLine /\ Payload(end) /\ UNCHANGED split
    BY <1>2, <1>3, <1>4, <1>6
  <2> QED  BY <1>1, <1>2, <1>3, <1>5, <1>6, <2>1, PayloadGoesOn
<1>7. CASE ~(received.head >= got /\ received.head + 4 <= end)
  <2>1. crlf' = 0 /\ NextRead(end)
        /\ (split' <=> split \/ end \in received.head + 1 .. received.head + 3)
        /\ split' \in BOOLEAN
    <3>1. ~(received.head >= SearchFrom(got) /\ received.head + BlankLine <= end)
      BY <1>2, <1>4, <1>7
    <3>2. /\ crlf' = crlf /\ NextRead(end)
          /\ split' = (split \/ end \in received.head + 1 .. received.head + BlankLine - 1)
      BY <1>3, <3>1
    <3>3. received.head + BlankLine - 1 = received.head + 3
      BY <1>2
    <3>4. split' = (split \/ end \in received.head + 1 .. received.head + 3)
      BY <3>2, <3>3
    <3> QED  BY <1>1, <3>2, <3>4
  <2>2. ~split' => end <= received.head
    BY <1>0, <1>1, <1>2, <1>5, <1>7, <2>1
  <2>3. end = Total => split'
    BY <1>2, <2>2
  <2>4. CASE end = BufSize
    <3>1. BadRequest
      BY <2>1, <2>4 DEF NextRead
    <3> QED  BY <1>1, <1>3, <1>5, <2>1, <2>3, <3>1, Refuses
  <2>5. CASE end # BufSize
    <3>1. reading' = "head" /\ UNCHANGED <<answer, heard, offer, session>>
      BY <2>1, <2>5 DEF NextRead
    <3>2. Total' = Total
      BY <1>1 DEF Total, SameRequest
    <3>3. RtspDomains'
      BY <1>0, <1>1, <1>3, <1>5, <2>1, <3>1, <3>2 DEF RtspDomains, SameRequest
    <3>4. ReadSoFar'
      BY <1>1, <1>3, <1>5, <2>1, <2>2, <2>5, <3>1 DEF ReadSoFar, SameRequest
    <3> QED  BY <1>1, <1>3, <2>3, <3>1, <3>3, <3>4, ReadsOn
  <2> QED  BY <2>4, <2>5
<1> QED  BY <1>6, <1>7

(* so does what is read of an encrypted message,                           *)
LEMMA SecretGoesOn == ASSUME RtspInv, ReadSecretHead \/ ReadSecret PROVE RtspInv'
<1>0. /\ received \in RtspRequests /\ RtspDomains /\ ReadSoFar /\ got \in Nat
      /\ crlf \in 0..got /\ split \in BOOLEAN
  BY DEF RtspInv, RtspDomains
<1>1. Total \in Nat \ {0} /\ BufSize \in Nat /\ BufSize > 4 /\ SecretHead = 1
  BY <1>0, TotalIs, RtspAssumption DEF BlankLine, SecretHead
<1>2. CASE ReadSecretHead
  <2>1. /\ reading # "closed" /\ SameRequest /\ received.secret /\ answer = 0 /\ got = 0
        /\ got' = 1 /\ crlf' = 0 /\ split' = split
    <3>1. /\ reading = "secret head" /\ SameRequest /\ got' = 1 /\ crlf' = crlf /\ split' = split
      BY <1>1, <1>2 DEF ReadSecretHead, SameRequest
    <3>2. received.secret /\ answer = 0 /\ got = 0
      BY <1>0, <3>1 DEF ReadSoFar
    <3>3. crlf = 0
      BY <1>0, <3>2
    <3> QED  BY <3>1, <3>2, <3>3
  <2>2. Total \in Nat /\ Total >= 2
    <3>1. received.body \in Nat /\ received.body > 0 /\ Total = received.body + 1
      BY <1>0, <2>1, RequestIs, TotalIs
    <3> QED  BY <3>1
  <2>3. CASE BadRequest
    <3>1. got' \in Nat /\ got' <= BufSize /\ got' <= Total
      BY <1>1, <2>1, <2>2
    <3>2. crlf' \in 0..got' /\ split' \in BOOLEAN
      BY <1>0, <2>1
    <3> QED  BY <2>1, <2>3, <3>1, <3>2, Refuses
  <2>4. CASE Total < BufSize /\ reading' = "secret" /\ UNCHANGED <<answer, heard, offer, session>>
    <3>1. Total' = Total
      BY <2>1 DEF Total, SameRequest
    <3>2. RtspDomains'
      <4>1. got' \in Nat /\ got' <= BufSize /\ got' <= Total
        BY <1>1, <2>1, <2>2
      <4>2. crlf' \in 0..got' /\ split' \in BOOLEAN
        BY <1>0, <2>1
      <4> QED  BY <1>0, <2>1, <2>4, <3>1, <4>1, <4>2 DEF RtspDomains, SameRequest
    <3>3. ReadSoFar'
      <4>1. UNCHANGED received /\ got' = SecretHead
        BY <1>1, <2>1 DEF SameRequest
      <4> QED  BY <2>1, <2>4, <3>1, <4>1 DEF ReadSoFar
    <3>4. got' # Total
      BY <2>1, <2>2
    <3> QED  BY <2>1, <2>4, <3>2, <3>3, <3>4, ReadsOn
  <2> QED  BY <1>2, <2>3, <2>4 DEF ReadSecretHead
<1>3. CASE ReadSecret
  <2>1. /\ reading = "secret" /\ SameRequest /\ received.secret /\ answer = 0 /\ Total < BufSize
        /\ got' = Total /\ crlf' = 1 /\ split' = split
    BY <1>0, <1>1, <1>3 DEF ReadSecret, SameRequest, ReadSoFar
  <2>2. crlf' \in 1..got' /\ crlf' \in 0..got' /\ got' \in Nat /\ got' <= BufSize /\ got' <= Total
    BY <1>1, <2>1
  <2>3. CASE Handle
    BY <1>0, <2>1, <2>2, <2>3, Handles
  <2>4. CASE BadRequest
    BY <1>0, <2>1, <2>2, <2>4, Refuses
  <2> QED  BY <1>3, <2>3, <2>4 DEF ReadSecret
<1> QED  BY <1>2, <1>3

(* and every other step.                                                   *)
LEMMA RtspGoesOn == RtspInv /\ [RtspNext]_rtspVars => RtspInv'
<1> SUFFICES ASSUME RtspInv, [RtspNext]_rtspVars PROVE RtspInv'
  OBVIOUS
<1>0. /\ received \in RtspRequests /\ RtspDomains /\ ReadSoFar /\ got \in Nat /\ got <= Total
      /\ crlf \in 0..got /\ split \in BOOLEAN /\ got <= BufSize /\ OfferMade
  BY DEF RtspInv, RtspDomains
<1>1. Total \in Nat \ {0} /\ BufSize \in Nat
  BY <1>0, TotalIs, RtspAssumption
<1>2. CASE Accept
  <2>1. /\ reading = "none" /\ answer = 0 /\ got = 0 /\ crlf = 0 /\ ~split /\ SameRequest
        /\ UNCHANGED <<answer, heard, offer, session, got, crlf, split>>
        /\ reading' = IF received.secret THEN "secret head" ELSE "head"
    BY <1>0, <1>2 DEF Accept, SameRequest, ReadSoFar
  <2>2. Total' = Total /\ received.head \in Nat /\ BufSize > 4
    BY <1>0, <2>1, RequestIs, RtspAssumption DEF Total, SameRequest, BlankLine
  <2>3. RtspDomains'
    BY <1>0, <2>1, <2>2 DEF RtspDomains, SameRequest
  <2>4. ReadSoFar'
    <3>0. 0 < BufSize /\ 0 <= received.head
      BY <1>1, <2>2
    <3>1. UNCHANGED received /\ got' = 0 /\ crlf' = 0 /\ 0 < BufSize /\ 0 <= received.head
      BY <2>1, <3>0 DEF SameRequest
    <3>2. received.secret \in BOOLEAN
      BY <1>0, RequestIs
    <3>3. CASE received.secret
      BY <2>1, <3>1, <3>3 DEF ReadSoFar
    <3>4. CASE ~received.secret
      BY <2>1, <3>1, <3>4 DEF ReadSoFar
    <3> QED  BY <3>2, <3>3, <3>4
  <2> QED  BY <1>1, <2>1, <2>3, <2>4, ReadsOn
<1>3. CASE ReadHead
  BY <1>3, HeadGoesOn
<1>4. CASE ReadPayload
  <2>1. PICK end \in 0..BufSize : Arrives(end) /\ got' = end /\ crlf' = crlf /\ Payload(end)
    BY <1>4 DEF ReadPayload
  <2>2. /\ reading = "payload" /\ answer = 0 /\ ~received.secret /\ split' = split /\ SameRequest
        /\ crlf = received.head + BlankLine
    BY <1>0, <1>4 DEF ReadPayload, ReadSoFar, SameRequest
  <2>3. end \in Nat /\ end > got /\ end <= Total /\ end <= BufSize
    <3>1. Min({Total, BufSize}) = IF Total <= BufSize THEN Total ELSE BufSize
      BY <1>1, LesserOf
    <3> QED  BY <1>0, <1>1, <2>1, <3>1 DEF Arrives
  <2>4. crlf' <= end
    BY <1>0, <2>1, <2>3
  <2> QED  BY <1>0, <2>1, <2>2, <2>3, <2>4, PayloadGoesOn
<1>5. CASE ReadSecretHead \/ ReadSecret
  BY <1>5, SecretGoesOn
<1>6. CASE Breaks
  <2>1. /\ reading' = "closed" /\ reading # "closed" /\ answer = 0 /\ SameRequest
        /\ UNCHANGED <<got, crlf, heard, offer, session, split>>
        /\ answer' \in {0, 400} /\ (answer' = 400 => received.secret)
    <3>1. /\ reading' = "closed" /\ reading # "closed" /\ SameRequest
          /\ UNCHANGED <<got, crlf, heard, offer, session, split>>
          /\ answer' = answer \/ (received.secret /\ answer' = 400)
      BY <1>6 DEF Breaks, SameRequest
    <3>2. answer = 0
      BY <1>0, <3>1 DEF ReadSoFar
    <3> QED  BY <3>1, <3>2
  <2>2. heard' \in BOOLEAN
    BY <2>1 DEF RtspInv, RtspDomains
  <2> QED  BY <1>0, <2>1, <2>2, Replies
<1>7. CASE NextRequest
  <2>1. /\ answer = 200 /\ verbNr < 5 /\ verbNr' = verbNr + 1 /\ received' \in RtspRequests
        /\ got' = 0 /\ crlf' = 0 /\ reading' = "none" /\ answer' = 0 /\ heard' = FALSE
        /\ split' = FALSE /\ UNCHANGED <<client, offer, codecs, session>>
    BY <1>7 DEF NextRequest, Verbs
  <2>2. (Total \in Nat \ {0})'
    <3>1. (received \in RtspRequests)'
      BY <2>1 DEF RtspRequests
    <3> QED  BY <3>1, TotalIs, PTL
  <2>3. RtspDomains'
    <3>1. (received \in RtspRequests)'
      BY <2>1 DEF RtspRequests
    <3>2. verbNr' \in 1..5
      <4>1. verbNr \in 1..5
        BY <1>0 DEF RtspDomains
      <4> QED  BY <2>1, <4>1
    <3>3. (got \in Nat /\ got <= BufSize /\ got <= Total /\ crlf \in 0..got)'
      BY <1>1, <2>1, <2>2
    <3>4. (client \in Clients)'
      <4>1. client \in Clients /\ client' = client
        BY <1>0, <2>1 DEF RtspDomains
      <4> QED  BY <4>1, Zenon DEF Clients
    <3> QED  BY <2>1, <3>1, <3>2, <3>3, <3>4 DEF RtspDomains
  <2>4. ReadSoFar'
    BY <2>1 DEF ReadSoFar
  <2>5. Offered' = Offered /\ Needs(client.mode)' = Needs(client.mode)
    BY <2>1 DEF Offered, Asks, Needs
  <2>6. verbNr \in 1..5
    BY <1>0 DEF RtspDomains
  <2>7. OfferMade'
    BY <1>0, <2>1, <2>5, <2>6 DEF OfferMade
  <2>8. SessionAsked' /\ EncryptionAgreed'
    BY <2>1, <2>5 DEF RtspInv, SessionAsked, EncryptionAgreed
  <2>9. WholeRequest' /\ RequestAnswered'
    BY <2>1, <2>2 DEF WholeRequest, RequestAnswered
  <2> QED  BY <2>3, <2>4, <2>7, <2>8, <2>9 DEF RtspInv
<1>8. CASE UNCHANGED rtspVars
  <2>1. UNCHANGED <<client, verbNr, received, got, crlf, reading, answer, heard, offer, codecs,
                    session, split>>
    BY <1>8 DEF rtspVars
  <2>2. Total' = Total /\ Offered' = Offered /\ Needs(client.mode)' = Needs(client.mode)
    BY <2>1 DEF Total, Offered, Asks, Needs
  <2>3. RtspDomains' /\ ReadSoFar'
    BY <1>0, <2>1, <2>2 DEF RtspDomains, ReadSoFar
  <2>4. OfferMade' /\ SessionAsked' /\ EncryptionAgreed'
    BY <2>1, <2>2 DEF RtspInv, OfferMade, SessionAsked, EncryptionAgreed
  <2>5. WholeRequest' /\ RequestAnswered'
    BY <2>1, <2>2 DEF RtspInv, WholeRequest, RequestAnswered
  <2> QED  BY <2>3, <2>4, <2>5 DEF RtspInv
<1> QED  BY <1>2, <1>3, <1>4, <1>5, <1>6, <1>7, <1>8 DEF RtspNext

(* What was asked for is what the session has.                             *)
LEMMA RateOfSession ==
  ASSUME NEW p \in Profiles, NEW rate,
         rate = IF p.chosen = 0 THEN Maximum
                ELSE VideoBitrate(p.chosen, p.fec, p.quality, p.channels)
  PROVE  /\ rate \in Nat
         /\ p.chosen > 0 /\ p.fec <= 80 =>
              RateFits(p.chosen, p.fec, SoundShare(p.quality, p.channels), rate)
<1>1. /\ p.chosen \in Nat /\ p.fec \in 1..255 /\ p.channels \in {2, 6, 8}
      /\ p.quality \in BOOLEAN /\ Maximum \in Nat
  BY RtspAssumption
<1>2. VideoBitrate(p.chosen, p.fec, p.quality, p.channels) \in Nat
  BY <1>1, BitrateCounts
<1>3. rate \in Nat
  BY <1>1, <1>2
<1>4. ASSUME p.chosen > 0, p.fec <= 80
      PROVE  RateFits(p.chosen, p.fec, SoundShare(p.quality, p.channels), rate)
  <2>1. p.fec \in 1..80 /\ p.chosen # 0
    BY <1>1, <1>4
  <2>2. rate = VideoBitrate(p.chosen, p.fec, p.quality, p.channels)
    BY <2>1
  <2>3. RateFits(p.chosen, p.fec, SoundShare(p.quality, p.channels),
                 VideoBitrate(p.chosen, p.fec, p.quality, p.channels))
    <3>1. \A c \in Nat, f \in 1..80, q \in BOOLEAN, n \in {2, 6, 8} :
            RateFits(c, f, SoundShare(q, n), VideoBitrate(c, f, q, n))
      BY BitrateIs
    <3>2. p.chosen \in Nat /\ p.fec \in 1..80 /\ p.quality \in BOOLEAN /\ p.channels \in {2, 6, 8}
      BY <1>1, <2>1
    <3> QED  BY <3>1, <3>2, Zenon
  <2> QED  BY <2>2, <2>3, Zenon
<1> QED  BY <1>3, <1>4

(* As BitrateFits says it.                                                 *)
RateFitsIn(c, f, sound, b) ==
  /\ c * (100 - f) >= 100 * Max({5 * sound, 5000 + sound}) =>
       b + (b * f) \div 100 + sound + 500 <= c
  /\ 100 * b >= 72 * ((c * (100 - f)) \div 100) - 100
LEMMA RateFitsThere ==
  ASSUME NEW c \in Nat, NEW f \in 1..255, NEW sound, NEW b, RateFits(c, f, sound, b)
  PROVE  RateFitsIn(c, f, sound, b)
<1> DEFINE K == c * (100 - f)
           left == b + (b * f) \div 100 + sound + 500 <= c
           most == 100 * b >= 72 * (K \div 100) - 100
<1>1. sound \in Nat /\ (K >= 500 * sound /\ K >= 100 * (5000 + sound) => left) /\ most
  BY Zenon DEF RateFits
<1>2. K \in Int
  OBVIOUS
<1> HIDE DEF K, left, most
<1>3. Max({5 * sound, 5000 + sound}) = IF 5 * sound <= 5000 + sound THEN 5000 + sound ELSE 5 * sound
  <2>1. 5 * sound \in Int /\ 5000 + sound \in Int
    BY <1>1
  <2> DEFINE x == 5 * sound
             y == 5000 + sound
  <2> HIDE DEF x, y
  <2>2. x \in Int /\ y \in Int
    BY <2>1 DEF x, y
  <2>3. Max({x, y}) = IF x <= y THEN y ELSE x
    BY <2>2, LesserOf
  <2> QED  BY <2>3 DEF x, y
<1>4. K >= 100 * Max({5 * sound, 5000 + sound}) => K >= 500 * sound /\ K >= 100 * (5000 + sound)
  BY <1>1, <1>2, <1>3
<1>5. (K >= 100 * Max({5 * sound, 5000 + sound}) => left) /\ most
  BY <1>1, <1>4
<1> QED  BY <1>5, Zenon DEF K, left, most, RateFitsIn

(* The invariant implies what is promised.                                 *)
LEMMA RtspIsRight ==
  RtspInv => RtspTypeOK /\ WholeRequest /\ RequestAnswered /\ EncryptionAgreed /\ BitrateFits
<1> SUFFICES ASSUME RtspInv
             PROVE  RtspTypeOK /\ BitrateFits
  BY DEF RtspInv
<1>1. RtspDomains /\ OfferMade /\ SessionAsked
  BY DEF RtspInv
<1>2. RtspTypeOK
  <2>1. verbNr \in DOMAIN Verbs
    <3>1. verbNr \in 1..5
      BY <1>1 DEF RtspDomains
    <3> QED  BY <3>1 DEF Verbs
  <2>2. offer.requested \subseteq offer.supported /\ offer.supported \subseteq {"control", "video", "audio"}
    <3>1. NoOffer.requested = {} /\ NoOffer.supported = {}
      BY DEF NoOffer
    <3>2. /\ Offered.supported = {"control", "audio"} \cup (IF client.mode = "never" THEN {} ELSE {"video"})
          /\ Offered.requested = {"control"} \cup Needs(client.mode)
      BY DEF Offered, Asks
    <3>3. Offered.requested \subseteq Offered.supported
          /\ Offered.supported \subseteq {"control", "video", "audio"}
      BY <3>2 DEF Needs
    <3>4. offer = NoOffer \/ offer = Offered
      BY <1>1 DEF OfferMade
    <3> QED  BY <3>1, <3>3, <3>4
  <2>3. Cardinality(session) < 2 /\ \A s \in session : s.profile \in Profiles /\ s.bitrate \in Nat
    <3>1. CASE session = {}
      BY <3>1, FS_EmptySet
    <3>2. CASE session # {}
      <4>1. PICK s : /\ session = {s} /\ s.profile \in Profiles
                     /\ s.bitrate = IF s.profile.chosen = 0 THEN Maximum
                          ELSE VideoBitrate(s.profile.chosen, s.profile.fec, s.profile.quality,
                                            s.profile.channels)
        BY <1>1, <3>2 DEF SessionAsked
      <4>2. Cardinality({s}) = 1
        BY FS_Singleton
      <4>3. s.bitrate \in Nat
        BY <4>1, RateOfSession
      <4> QED  BY <4>1, <4>2, <4>3
    <3> QED  BY <3>1, <3>2
  <2>4. got \in 0..BufSize
    <3>1. got \in Nat /\ got <= BufSize
      BY <1>1 DEF RtspDomains
    <3>2. BufSize \in Nat
      BY RtspAssumption
    <3> QED  BY <3>1, <3>2
  <2> QED  BY <1>1, <2>1, <2>2, <2>3, <2>4 DEF RtspDomains, RtspTypeOK
<1>3. ASSUME NEW s \in session, s.profile.chosen > 0, s.profile.fec <= 80
      PROVE  RateFitsIn(s.profile.chosen, s.profile.fec,
                        (IF s.profile.quality THEN 256 ELSE 96) * s.profile.channels, s.bitrate)
  <2>1. /\ s.profile \in Profiles
        /\ s.bitrate = IF s.profile.chosen = 0 THEN Maximum
               ELSE VideoBitrate(s.profile.chosen, s.profile.fec, s.profile.quality,
                                 s.profile.channels)
    BY <1>1 DEF SessionAsked
  <2>2. RateFits(s.profile.chosen, s.profile.fec,
                 SoundShare(s.profile.quality, s.profile.channels), s.bitrate)
    BY <1>3, <2>1, RateOfSession
  <2>3. s.profile.chosen \in Nat /\ s.profile.fec \in 1..255
    BY <2>1, RtspAssumption
  <2>4. RateFitsIn(s.profile.chosen, s.profile.fec,
                   SoundShare(s.profile.quality, s.profile.channels), s.bitrate)
    BY <2>2, <2>3, RateFitsThere
  <2> QED  BY <2>4, Zenon DEF SoundShare
<1>4. BitrateFits
  BY <1>3, Zenon DEF BitrateFits, RateFitsIn
<1> QED  BY <1>2, <1>4

-------------------------------------------------------------------------------
(* The invariant of the part that goes on.                                 *)
HostInv ==
  /\ Of("display", DisplayInv) /\ Of("audio", AudioInv) /\ Of("ports", PortInv)
  /\ Of("driver", NvInv) /\ Of("sound", SinkInv) /\ Of("life", LifeInv)
  /\ Of("pulse", PulseInv) /\ Of("announcement", AnnouncementInv)
  /\ Of("pointers", PointerInv) /\ Of("gamepads", PadsInv)
  /\ Of("mail", MailInv) /\ Of("packets", PacketInv) /\ Of("references", RefInv)
  /\ Of("encoder", ProbeInv) /\ Of("session", EncodeInv)
  /\ Of("rtsp", RtspInv) /\ Of("announcement", PublishInv)

(* A part that goes on takes a step of its own.                            *)
LEMMA StepOfPart ==
  ASSUME [Next]_vars
  PROVE  /\ part' = part
         /\ part = "display" => [DisplayNext]_displayVars
         /\ part = "audio" => [AudioNext]_contextVars
         /\ part = "ports" => [PortNext]_portVars
         /\ part = "driver" => [NvNext]_nvVars
         /\ part = "sound" => [SoundNext]_soundVars
         /\ part = "life" => [LifeNext]_lifeVars
         /\ part = "pulse" => [PulseNext]_pulseVars
         /\ part = "announcement" => [AnnouncementNext]_publishVars
         /\ part = "pointers" => [PointerNext]_pointerVars
         /\ part = "gamepads" => [PadsNext]_padVars
         /\ part = "mail" => [MailNext]_mailVars
         /\ part = "packets" => [PacketNext]_packetVars
         /\ part = "references" => [RefNext]_refVars
         /\ part = "encoder" => [ProbeNext]_probeVars
         /\ part = "session" => [EncodeNext]_esVars
         /\ part = "rtsp" => [RtspNext]_rtspVars
<1>1. CASE UNCHANGED vars
  BY <1>1 DEF vars
<1>2. CASE Next
  BY <1>2 DEF Next
<1> QED  BY <1>1, <1>2

(* Each part starts in its invariant.                                      *)
LEMMA HostStarts == Init => HostInv
  BY DisplayStarts, AudioStarts, PortsStart, NvStarts, SoundStarts, LifeStarts,
     PulseStarts, AnnouncementStarts, PointersStart, PadsStart, MailStarts,
     PacketsStart, RefStarts, ProbeStarts, EncodeStarts, RtspStarts, PublishStarts
  DEF Init, HostInv, Of, FirstOf, PulseStart

(* A step of the host keeps the invariant of the part that takes it.       *)
LEMMA HostGoesOn == HostInv /\ [Next]_vars => HostInv'
<1> SUFFICES ASSUME HostInv, [Next]_vars PROVE HostInv'
  OBVIOUS
<1>0. part' = part
  BY StepOfPart
<1>1. Of("display", DisplayInv)'
  BY <1>0, StepOfPart, DisplayGoesOn DEF HostInv, Of
<1>2. Of("audio", AudioInv)'
  BY <1>0, StepOfPart, AudioGoesOn DEF HostInv, Of
<1>3. Of("ports", PortInv)'
  BY <1>0, StepOfPart, PortsGoOn DEF HostInv, Of
<1>4. Of("driver", NvInv)'
  BY <1>0, StepOfPart, NvGoesOn DEF HostInv, Of
<1>5. Of("sound", SinkInv)'
  BY <1>0, StepOfPart, SoundGoesOn DEF HostInv, Of
<1>6. Of("life", LifeInv)'
  BY <1>0, StepOfPart, LifeGoesOn DEF HostInv, Of
<1>7. Of("pulse", PulseInv)'
  BY <1>0, StepOfPart, PulseGoesOn DEF HostInv, Of
<1>8. Of("announcement", AnnouncementInv)'
  BY <1>0, StepOfPart, AnnouncementGoesOn DEF HostInv, Of
<1>9. Of("pointers", PointerInv)'
  BY <1>0, StepOfPart, PointersGoOn DEF HostInv, Of
<1>10. Of("gamepads", PadsInv)'
  BY <1>0, StepOfPart, PadsGoOn DEF HostInv, Of
<1>11. Of("mail", MailInv)'
  BY <1>0, StepOfPart, MailGoesOn DEF HostInv, Of
<1>12. Of("packets", PacketInv)'
  BY <1>0, StepOfPart, PacketsGoOn DEF HostInv, Of
<1>13. Of("references", RefInv)'
  BY <1>0, StepOfPart, RefGoesOn DEF HostInv, Of
<1>14. Of("encoder", ProbeInv)'
  BY <1>0, StepOfPart, ProbeGoesOn DEF HostInv, Of
<1>15. Of("session", EncodeInv)'
  BY <1>0, StepOfPart, EncodeGoesOn DEF HostInv, Of
<1>16. Of("rtsp", RtspInv)'
  BY <1>0, StepOfPart, RtspGoesOn DEF HostInv, Of
<1>17. Of("announcement", PublishInv)'
  BY <1>0, StepOfPart, PublishGoesOn DEF HostInv, Of
<1> QED  BY <1>1, <1>2, <1>3, <1>4, <1>5, <1>6, <1>7, <1>8, <1>9, <1>10, <1>11, <1>12, <1>13,
            <1>14, <1>15, <1>16, <1>17 DEF HostInv

(* The invariants give back what was changed.                              *)
LEMMA HostGivesBack == HostInv => LeftAsFound
  BY DisplayIsGivenBack, AudioGivenBack, NvGivenBack, PulseGivesBack
  DEF HostInv, Of, LeftAsFound, PortInv, SinkInv, AnnouncementInv

(* The invariant holds of the host.                                        *)
LEMMA HostInvariant == Spec => []HostInv
<1>1. Init => HostInv
  BY HostStarts
<1>2. HostInv /\ [Next]_vars => HostInv'
  BY HostGoesOn
<1> QED  BY <1>1, <1>2, PTL DEF Spec

(* The display, the default sound device and sink, the ports of the router *)
(* and the announcement are given back when no call for it failed, and can *)
(* be after a crash; the setting of the graphics driver is the user's or   *)
(* can be restored from the undo file, whatever fails and whenever the     *)
(* host dies, unless that file was deleted after its restoration failed    *)
(* (display_device.cpp, audio.cpp, upnp.cpp, nvprefs, the sound and        *)
(* publish.cpp of the platforms).                                          *)
THEOREM HostLeftAsFound == Spec => []LeftAsFound
  BY HostInvariant, HostGivesBack, PTL

(* The pointers and gamepads of a client do what it does with its own:     *)
(* what is in contact are its fingers, each in a slot of its own, whatever *)
(* is refused; it knows how its pad rumbles, and its touches are shown     *)
(* (windows/input.cpp).                                                    *)
THEOREM HostDevicesFollow == Spec => []DevicesFollow
<1>1. HostInv => DevicesFollow
  BY PointersFollow, PadsFollow DEF HostInv, Of, DevicesFollow
<1> QED  BY <1>1, HostInvariant, PTL

(* No null sink is there twice, but for one more each time the host went   *)
(* by an incomplete list of sinks; and the sound of a client is that of    *)
(* the sink that is the default then (linux/audio.cpp).                    *)
THEOREM HostHearsItsSink == Spec => []Of("pulse", NullSinksOnce /\ HearsItsSink)
<1>1. HostInv => Of("pulse", NullSinksOnce /\ HearsItsSink)
  BY PulseGivesBack DEF HostInv, Of
<1> QED  BY <1>1, HostInvariant, PTL

(* Clients can put together the frames and sound they are sent, with the   *)
(* parity they compute themselves if they ask for a minimum of up to two,  *)
(* recover from a lost frame, decode from the frame they asked for with    *)
(* the parameter sets it needs, and are told of nothing the encoder was    *)
(* not seen to encode, except HDR that the configuration insists on        *)
(* (stream.cpp, nvenc_base.cpp, video.cpp).                                *)
THEOREM HostStreamIsDecodable == Spec => []StreamIsDecodable
<1>1. HostInv => StreamIsDecodable
  BY FramesDoArrive, EncoderIsFit, EncodingIsRight DEF HostInv, Of, StreamIsDecodable, RefInv
<1> QED  BY <1>1, HostInvariant, PTL

(* Nobody sleeps on an event or an element that is there, those taken are  *)
(* taken in their order, and who holds a post, or what is shared, holds    *)
(* the same and it lives (thread_safe.h, sync.h).                          *)
THEOREM HostMailIsSeen ==
  Spec => []Of("mail", NobodySleepsOn /\ TakenInOrder /\ PostShared /\ SharedAlive)
<1>1. HostInv => Of("mail", NobodySleepsOn /\ TakenInOrder /\ PostShared /\ SharedAlive)
  BY MailIsSeen DEF HostInv, Of
<1> QED  BY <1>1, HostInvariant, PTL

(* A host that is quit ends, and its service with it; one that is to       *)
(* restart does, if the system starts the other one; on Windows it runs in *)
(* the session of the console (main.cpp, platform/windows/misc.cpp, the    *)
(* service of tools/sunshinesvc.cpp, system_tray.cpp).                     *)
THEOREM HostLifeHeeded ==
  Spec => []Of("life", QuitIsHeeded /\ RestartIsHeeded /\ InConsoleSession /\ LoopLeftInTime)
<1>1. HostInv => Of("life", QuitIsHeeded /\ RestartIsHeeded /\ InConsoleSession /\ LoopLeftInTime)
  BY LifeIsHeeded DEF HostInv, Of
<1> QED  BY <1>1, HostInvariant, PTL

(* A request of the RTSP handshake is handled whole, however TCP cut it up,*)
(* and answered, unless its blank line came in two reads; a session has    *)
(* the encryption both sides agreed on, and a bitrate that leaves room for *)
(* parity and sound in what the user chose (rtsp.cpp).                     *)
THEOREM HostRequestsAnswered ==
  Spec => []Of("rtsp", WholeRequest /\ RequestAnswered /\ EncryptionAgreed /\ BitrateFits)
<1>1. HostInv => Of("rtsp", WholeRequest /\ RequestAnswered /\ EncryptionAgreed /\ BitrateFits)
  BY RtspIsRight DEF HostInv, Of
<1> QED  BY <1>1, HostInvariant, PTL

(* While Avahi has nothing more to tell, the service is entered with it or *)
(* its thread ends; it is announced by the name the host knows it by, which*)
(* no other service of the machine has, unless a collision of entries that *)
(* were reset was told; and on macOS a thread waits only with a reference  *)
(* (publish.cpp of the platforms).                                         *)
THEOREM HostIsAnnounced ==
  Spec => []Of("announcement", KeepsAnnouncing /\ AnnouncedByName /\ ReferenceHeld)
<1>1. HostInv => Of("announcement", KeepsAnnouncing /\ AnnouncedByName /\ ReferenceHeld)
  BY PublishHolds DEF HostInv, Of
<1> QED  BY <1>1, HostInvariant, PTL
===============================================================================
