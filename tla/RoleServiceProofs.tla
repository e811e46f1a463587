------------------------- MODULE RoleServiceProofs -------------------------
(***************************************************************************)
(* Proofs about RoleService for any instances, roles, permissions and      *)
(* bounds.                                                                 *)
(***************************************************************************)
EXTENDS RoleService, SequenceTheorems, TLAPS

USE RoleServiceAssumption

\* An event that takes no role out of a cache that is kept; m says whether the
\* owner role has been written anew.
Harmless(m) ==
  {e \in Events : /\ e.role = Absent => e.name # User
                  /\ e.prev \in Mandatory => e.prev = e.name
                  /\ e.name = Owner => m}

\* Nobody has written the owner role: it is the one that was seeded, or gone.
OwnersAs(roles) == roles[Owner] \in {Absent, Protected}

OwnerProtected ==
  ~remade =>
    /\ OwnersAs(db)
    /\ \A i \in Instances :
         OwnersAs(cache[i]) /\ OwnersAs(load[i].roles) /\ OwnersAs(sync[i].roles)

(***************************************************************************)
(* Why an instance that serves keeps the mandatory roles: no call under    *)
(* way and no event on its way can take one out of a cache, and whatever   *)
(* replaces a whole cache has been looked at before.  The owner role is    *)
(* safe as long as every copy of it is the protected one.                  *)
(***************************************************************************)
OnlyServingResyncs ==
  \A i \in Instances : sync[i].step # "off" => status[i] \in {"serving", "broken"}

SafeInv ==
  /\ TypeOK
  /\ OnlyServingResyncs
  /\ \A c \in calls : c.event \in Harmless(remade)
  /\ inbox \in [Instances -> Seq(Harmless(remade))]
  /\ ServesMandatory

MInv == SafeInv /\ OwnerProtected

LEMMA RemoveAtType ==
  ASSUME NEW S, NEW s \in Seq(S), NEW k \in DOMAIN s
  PROVE  RemoveAt(s, k) \in Seq(S)
<1>1. k \in 1..Len(s)
  BY LenProperties
<1>2. SubSeq(s, 1, k - 1) \in Seq(S)
  BY <1>1, LenProperties, SubSeqProperties
<1>3. SubSeq(s, k + 1, Len(s)) \in Seq(S)
  BY <1>1, LenProperties, SubSeqProperties
<1> QED
  BY <1>2, <1>3, ConcatProperties DEF RemoveAt

LEMMA EmptyType == Empty \in Roles
  BY DEF Empty, Roles

LEMMA AppliedType ==
  ASSUME NEW roles \in Roles, NEW e \in Events
  PROVE  Applied(roles, e) \in Roles
  BY DEF Applied, Roles, Events

\* A harmless event leaves a cache its mandatory roles.
LEMMA AppliedKeeps ==
  ASSUME NEW roles \in Roles, remade \in BOOLEAN, NEW e \in Harmless(remade),
         Kept \subseteq Present(roles)
  PROVE  Kept \subseteq Present(Applied(roles, e))
  BY DEF Applied, Roles, Events, Harmless, Present, Kept, Mandatory

\* What is harmless stays so.
LEMMA HarmlessStays ==
  ASSUME NEW m \in BOOLEAN, NEW o \in BOOLEAN, m => o
  PROVE  Harmless(m) \subseteq Harmless(o) /\ Seq(Harmless(m)) \subseteq Seq(Harmless(o))
<1>1. Harmless(m) \subseteq Harmless(o)
  BY DEF Harmless
<1>2. ASSUME NEW s \in Seq(Harmless(m)) PROVE s \in Seq(Harmless(o))
  <2>1. Len(s) \in Nat /\ s = [k \in 1..Len(s) |-> s[k]]
    BY LenProperties, SeqDef
  <2>2. \A k \in 1..Len(s) : s[k] \in Harmless(o)
    BY <1>1, ElementOfSeq
  <2> QED BY <2>1, <2>2, SeqDef
<1> QED BY <1>1, <1>2

LEMMA ToSeedType == ASSUME NEW roles PROVE ToSeed(roles) \in SUBSET Defaults
  BY DEF ToSeed

LEMMA MovedType ==
  ASSUME NEW i \in Instances, sync \in [Instances -> Syncs], Moved(i)
  PROVE  /\ sync' \in [Instances -> Syncs]
         /\ \A j \in Instances : sync'[j].step = sync[j].step
  BY DEF Moved, Syncs

LEMMA InitMInv == Init => MInv
<1> SUFFICES ASSUME Init PROVE MInv
  OBVIOUS
<1>1. db \in Roles
  BY DEF Init, Roles, SeededAs
<1>2. NotLoading \in Loads /\ NoSync \in Syncs
  BY EmptyType DEF NotLoading, NoSync, Loads, Syncs
<1>3. inbox \in [Instances -> Seq(Events)] /\ inbox \in [Instances -> Seq(Harmless(remade))]
  BY DEF Init
<1>4. happened \in 0..MaxHappenings /\ orderly \in BOOLEAN /\ remade \in BOOLEAN
  <2>1. happened = 0 /\ orderly = TRUE /\ remade = FALSE
    BY DEF Init
  <2>2. 0 \in 0..MaxHappenings
    OBVIOUS
  <2> QED BY <2>1, <2>2
<1>5. OwnerProtected
  BY DEF Init, OwnerProtected, OwnersAs, SeededAs, Empty, NotLoading, NoSync, Mandatory
<1> QED
  BY <1>1, <1>2, <1>3, <1>4, <1>5, EmptyType
  DEF Init, SeededAs, MInv, SafeInv, TypeOK, ServesMandatory, OnlyServingResyncs, NoSync

\* What is counted stays within its bound.
LEMMA HappensType ==
  ASSUME TypeOK, Happens
  PROVE  happened' \in 0..MaxHappenings
  BY DEF TypeOK, Happens

\* Every way to ask for a change.
LEMMA AskSafeInv ==
  ASSUME MInv, NEW i \in Instances, NEW o \in {"save", "rename", "delete"},
         NEW e \in Events, Ask(i, o, e), e \in Harmless(remade')
  PROVE  SafeInv'
<1>1. [at |-> i, op |-> o, written |-> FALSE, event |-> e] \in Calls
  BY DEF Calls
<1>2. happened' \in 0..MaxHappenings /\ orderly' \in BOOLEAN /\ remade' \in BOOLEAN
  BY HappensType DEF MInv, SafeInv, TypeOK, Ask
<1>3. TypeOK'
  BY <1>1, <1>2 DEF MInv, SafeInv, Ask, TypeOK
<1>4. remade \in BOOLEAN /\ (remade => remade')
  BY DEF MInv, SafeInv, TypeOK, Ask
<1>5. /\ Harmless(remade) \subseteq Harmless(remade')
      /\ Seq(Harmless(remade)) \subseteq Seq(Harmless(remade'))
  BY <1>2, <1>4, HarmlessStays
<1>6. \A c \in calls' : c.event \in Harmless(remade')
  BY <1>5 DEF MInv, SafeInv, Ask
<1>7. inbox' \in [Instances -> Seq(Harmless(remade'))]
  BY <1>5 DEF MInv, SafeInv, Ask
<1>8. Kept' \subseteq Kept
  BY <1>4 DEF Kept, Mandatory
<1>9. OnlyServingResyncs' /\ ServesMandatory'
  <2>1. UNCHANGED <<status, cache, sync>>
    BY DEF Ask
  <2> QED BY <1>8, <2>1 DEF MInv, SafeInv, OnlyServingResyncs, ServesMandatory, Present
<1> QED
  BY <1>3, <1>6, <1>7, <1>9 DEF SafeInv

LEMMA NextSafeInv == MInv /\ [Next]_vars => SafeInv'
<1> SUFFICES ASSUME MInv, [Next]_vars PROVE SafeInv'
  OBVIOUS
<1>t. TypeOK
  BY DEF MInv, SafeInv
<1>r. db \in Roles /\ cache \in [Instances -> Roles]
  BY <1>t DEF TypeOK
<1>k. {User} \subseteq Mandatory
  BY DEF Mandatory
<1> USE DEF MInv, SafeInv, TypeOK, ServesMandatory, Kept, Serving, OnlyServingResyncs
<1>1. ASSUME NEW i \in Instances, SeedRead(i) PROVE SafeInv'
  <2>1. /\ [step |-> "read", todo |-> {}, roles |-> db] \in Loads
        /\ [step |-> "seeding", todo |-> ToSeed(db), roles |-> Empty] \in Loads
    BY <1>r, EmptyType, ToSeedType DEF Loads
  <2> QED BY <1>1, <2>1 DEF SeedRead
<1>2. ASSUME NEW i \in Instances, NEW n \in Defaults, SeedRole(i, n) PROVE SafeInv'
  <2>1. db' \in Roles
    BY <1>2, <1>r DEF SeedRole, Roles, SeededAs
  <2>2. [step |-> IF load[i].todo = {n} THEN "rereading" ELSE "seeding",
         todo |-> load[i].todo \ {n}, roles |-> Empty] \in Loads
    BY EmptyType DEF Loads
  <2> QED BY <1>2, <2>1, <2>2 DEF SeedRole
<1>3. ASSUME NEW i \in Instances, SeedReread(i) PROVE SafeInv'
  <2>1. [step |-> "read", todo |-> {}, roles |-> db] \in Loads
    BY <1>r DEF Loads
  <2> QED BY <1>3, <2>1 DEF SeedReread
<1>4. ASSUME NEW i \in Instances, FinishInit(i) PROVE SafeInv'
  <2>1. NotLoading \in Loads
    BY EmptyType DEF NotLoading, Loads
  <2>2. Booted(i) \in Roles
    BY <1>r DEF Booted, Roles, Loads
  <2>3. CASE Mandatory \subseteq Present(Booted(i))
    <3>1. /\ cache' = [cache EXCEPT ![i] = Booted(i)]
          /\ status' = [status EXCEPT ![i] = "serving"]
          /\ UNCHANGED <<inbox, sync, calls, db, happened, orderly, remade>>
      BY <1>4, <2>3 DEF FinishInit
    <3>2. /\ load' = [load EXCEPT ![i] = NotLoading]
          /\ deleted' = [deleted EXCEPT ![i] = {}]
      BY <1>4 DEF FinishInit
    <3>3. TypeOK'
      BY <2>1, <2>2, <3>1, <3>2
    <3>4. ServesMandatory'
      BY <1>k, <1>r, <2>3, <3>1
    <3>5. OnlyServingResyncs'
      BY <3>1
    <3> QED BY <3>1, <3>3, <3>4, <3>5
  <2>4. CASE ~(Mandatory \subseteq Present(Booted(i)))
    <3>1. <<>> \in Seq(Events) /\ <<>> \in Seq(Harmless(remade))
      OBVIOUS
    <3>2. /\ cache' = [cache EXCEPT ![i] = Empty]
          /\ status' = [status EXCEPT ![i] = "down"]
          /\ inbox' = [inbox EXCEPT ![i] = <<>>]
      BY <1>4, <2>4 DEF FinishInit
    <3> QED BY <1>4, <2>1, <3>1, <3>2, EmptyType DEF FinishInit
  <2> QED BY <2>3, <2>4
<1>5. ASSUME NEW i \in Instances, FinishReload(i) PROVE SafeInv'
  <2>1. NotLoading \in Loads
    BY EmptyType DEF NotLoading, Loads
  <2>2. sync' \in [Instances -> Syncs]
    BY <1>5, MovedType DEF FinishReload
  <2>3. load[i].roles \in Roles
    BY DEF Loads
  <2>4. TypeOK'
    BY <1>5, <2>1, <2>2, <2>3 DEF FinishReload
  <2>5. ServesMandatory'
    BY <1>k, <1>5, <1>r DEF FinishReload
  <2>6. OnlyServingResyncs'
    BY <1>5 DEF FinishReload, Moved, Syncs
  <2> QED BY <1>5, <2>4, <2>5, <2>6 DEF FinishReload
<1>6. ASSUME NEW i \in Instances, Subscribe(i) \/ Reload(i) PROVE SafeInv'
  <2>1. [load[i] EXCEPT !.step = "reading"] \in Loads
    BY DEF Loads
  <2>2. CASE Subscribe(i)
    BY <2>1, <2>2 DEF Subscribe
  <2>3. CASE Reload(i)
    <3>1. happened' \in 0..MaxHappenings /\ orderly' \in BOOLEAN /\ remade' = remade
      BY <1>t, <2>3, HappensType DEF Reload, Incident
    <3> QED BY <2>1, <2>3, <3>1 DEF Reload
  <2> QED BY <1>6, <2>2, <2>3
<1>7. ASSUME NEW i \in Instances, NEW n \in Names, NEW v \in Values, upsertRole(i, n, v)
      PROVE  SafeInv'
  <2>1. [name |-> n, prev |-> n, role |-> v] \in Harmless(remade')
    BY <1>7, <1>r DEF Harmless, Events, Roles, upsertRole, Ask, OwnerProtected, OwnersAs, Mandatory
  <2>2. [name |-> n, prev |-> n, role |-> v] \in Events
    BY DEF Events
  <2> HIDE DEF MInv, SafeInv, TypeOK, ServesMandatory, Kept, Serving, OnlyServingResyncs
  <2> QED BY <1>7, <2>1, <2>2, AskSafeInv DEF upsertRole
<1>8. ASSUME NEW i \in Instances, NEW n \in Names, NEW to \in Names, renameRole(i, n, to)
      PROVE  SafeInv'
  <2>1. [name |-> to, prev |-> n, role |-> cache[i][n]] \in Events
    BY <1>8, <1>r DEF Events, Roles, renameRole
  <2>2. [name |-> to, prev |-> n, role |-> cache[i][n]] \in Harmless(remade')
    BY <1>8, <2>1 DEF Harmless, renameRole, Ask
  <2> HIDE DEF MInv, SafeInv, TypeOK, ServesMandatory, Kept, Serving, OnlyServingResyncs
  <2> QED BY <1>8, <2>1, <2>2, AskSafeInv DEF renameRole
<1>9. ASSUME NEW i \in Instances, NEW n \in Names, deleteRole(i, n) PROVE SafeInv'
  <2>1. [name |-> n, prev |-> n, role |-> Absent] \in Events
    BY DEF Events
  <2>2. [name |-> n, prev |-> n, role |-> Absent] \in Harmless(remade')
    BY <1>9, <1>r, <2>1 DEF Harmless, deleteRole, Ask, OwnerProtected, OwnersAs
  <2> HIDE DEF MInv, SafeInv, TypeOK, ServesMandatory, Kept, Serving, OnlyServingResyncs
  <2> QED BY <1>9, <2>1, <2>2, AskSafeInv DEF deleteRole
<1>10. ASSUME NEW c \in calls, Refuse(c) PROVE SafeInv'
  BY <1>10 DEF Refuse
<1>11. ASSUME NEW c \in calls, Write(c) PROVE SafeInv'
  <2>1. Written(c) \in Roles
    BY <1>r DEF Written, Roles, Calls, Events
  <2>2. [c EXCEPT !.written = TRUE] \in Calls /\ [c EXCEPT !.written = TRUE].event = c.event
    BY DEF Calls
  <2> QED BY <1>11, <2>1, <2>2 DEF Write
<1>12. ASSUME NEW c \in calls, Acknowledge(c) PROVE SafeInv'
  <2>1. c.at \in Instances /\ c.event \in Harmless(remade) /\ c.event \in Events
    BY DEF Calls
  <2>2. cache' \in [Instances -> Roles]
    BY <1>12, <1>r, <2>1, AppliedType DEF Acknowledge
  <2>3. sync' \in [Instances -> Syncs]
    BY <1>12, <2>1, MovedType DEF Acknowledge
  <2>4. \A i \in Instances : /\ Append(inbox[i], c.event) \in Seq(Events)
                             /\ Append(inbox[i], c.event) \in Seq(Harmless(remade))
    BY <2>1, AppendProperties
  <2>5. ServesMandatory'
    <3> HIDE DEF Kept
    <3>1. Kept' = Kept
      BY <1>12 DEF Acknowledge, Kept
    <3>2. cache' = [cache EXCEPT ![c.at] = Applied(cache[c.at], c.event)] /\ status' = status
      BY <1>12 DEF Acknowledge
    <3>3. ASSUME status[c.at] = "serving"
          PROVE  Kept \subseteq Present(Applied(cache[c.at], c.event))
      BY <1>r, <2>1, <3>3, AppliedKeeps
    <3> QED BY <1>r, <2>1, <3>1, <3>2, <3>3 DEF Present
  <2>6. OnlyServingResyncs'
    BY <1>12, <2>1, MovedType DEF Acknowledge
  <2> QED BY <1>12, <2>2, <2>3, <2>4, <2>5, <2>6 DEF Acknowledge
<1>13. ASSUME NEW i \in Instances, Deliver(i) PROVE SafeInv'
  <2>1. inbox[i] \in Seq(Events) /\ inbox[i] \in Seq(Harmless(remade)) /\ inbox[i] # <<>>
    BY <1>13 DEF Deliver
  <2>2. Head(inbox[i]) \in Harmless(remade) /\ Head(inbox[i]) \in Events
    BY <2>1, HeadTailProperties
  <2>3. Tail(inbox[i]) \in Seq(Events) /\ Tail(inbox[i]) \in Seq(Harmless(remade))
    BY <2>1, HeadTailProperties
  <2>4. cache' \in [Instances -> Roles]
    BY <1>13, <1>r, <2>2, AppliedType DEF Deliver
  <2>5. sync' \in [Instances -> Syncs]
    BY <1>13, MovedType DEF Deliver
  <2>6. ServesMandatory'
    BY <1>13, <1>r, <2>2, AppliedKeeps DEF Deliver
  <2>7. /\ deleted' \in [Instances -> SUBSET Names]
        /\ \A j \in Instances : deleted'[j] # {} => status[j] = "booting"
    BY <1>13, <2>2 DEF Deliver, Remembered, Events
  <2>8. OnlyServingResyncs'
    BY <1>13, MovedType DEF Deliver
  <2> QED BY <1>13, <2>3, <2>4, <2>5, <2>6, <2>7, <2>8 DEF Deliver
<1>14. ASSUME NEW i \in Instances, NEW k \in DOMAIN inbox[i], Lose(i, k) PROVE SafeInv'
  <2>1. RemoveAt(inbox[i], k) \in Seq(Events) /\ RemoveAt(inbox[i], k) \in Seq(Harmless(remade))
    <3>1. inbox[i] \in Seq(Events) /\ inbox[i] \in Seq(Harmless(remade))
      OBVIOUS
    <3> QED BY <3>1, RemoveAtType
  <2>2. happened' \in 0..MaxHappenings /\ orderly' \in BOOLEAN /\ remade' = remade
    BY <1>14 DEF Lose
  <2> QED BY <1>14, <2>1, <2>2 DEF Lose
<1>15. ASSUME NEW i \in Instances, ResyncStart(i) \/ ResyncRead(i) \/ ResyncFails(i)
       PROVE  SafeInv'
  <2>1. /\ NoSync \in Syncs
        /\ [sync[i] EXCEPT !.step = "reading"] \in Syncs
        /\ [sync[i] EXCEPT !.step = "read", !.roles = db] \in Syncs
    BY <1>r, EmptyType DEF NoSync, Syncs
  <2>2. sync' \in [Instances -> Syncs]
    BY <1>15, <2>1 DEF ResyncStart, ResyncRead, ResyncFails
  <2>3. OnlyServingResyncs'
    BY <1>15, <2>1 DEF ResyncStart, ResyncRead, ResyncFails, NoSync
  <2> QED BY <1>15, <2>2, <2>3 DEF ResyncStart, ResyncRead, ResyncFails
<1>16. ASSUME NEW i \in Instances, ResyncApply(i) PROVE SafeInv'
  <2>1. NoSync \in Syncs /\ sync[i].roles \in Roles
    BY EmptyType DEF NoSync, Syncs
  <2>2. CASE ResyncDropped(i)
    BY <1>16, <2>1, <2>2 DEF ResyncApply
  <2>3. CASE ~ResyncDropped(i)
    <3>1. deleted[i] = {} \/ status[i] = "booting"
      OBVIOUS
    <3>2. /\ cache' = [cache EXCEPT ![i] = sync[i].roles]
          /\ status' = [status EXCEPT ![i] = "serving"]
          /\ sync' = [sync EXCEPT ![i] = NoSync]
          /\ UNCHANGED <<db, load, deleted, inbox, calls, happened, orderly, remade>>
      BY <1>16, <2>3 DEF ResyncApply
    <3>d. deleted[i] = {}
      BY <1>16, <3>1 DEF ResyncApply
    <3>3. TypeOK'
      <4>1. \A j \in Instances : deleted'[j] # {} => status'[j] = "booting"
        BY <3>d, <3>2
      <4> QED BY <1>r, <2>1, <3>2, <4>1
    <3>4. Mandatory \subseteq Present(sync[i].roles)
      BY <2>3 DEF ResyncDropped
    <3>5. ServesMandatory'
      BY <1>k, <1>r, <3>2, <3>4
    <3>6. OnlyServingResyncs'
      BY <3>2
    <3> QED BY <3>2, <3>3, <3>5, <3>6
  <2> QED BY <2>2, <2>3
<1>17. ASSUME NEW i \in Instances, Crash(i) PROVE SafeInv'
  <2>1. NoSync \in Syncs /\ NotLoading \in Loads
    BY EmptyType DEF NoSync, Syncs, NotLoading, Loads
  <2>2. happened' \in 0..MaxHappenings /\ orderly' \in BOOLEAN /\ remade' = remade
    BY <1>t, <1>17, HappensType DEF Crash, Incident
  <2>3. <<>> \in Seq(Events) /\ <<>> \in Seq(Harmless(remade))
    OBVIOUS
  <2>4. TypeOK'
    BY <1>17, <2>1, <2>2, <2>3, EmptyType DEF Crash
  <2>5. OnlyServingResyncs' /\ ServesMandatory'
    BY <1>17, <2>2 DEF Crash, NoSync
  <2>6. (inbox \in [Instances -> Seq(Harmless(remade))])' /\ \A c \in calls' : c.event \in Harmless(remade')
    BY <1>17, <2>2, <2>3 DEF Crash
  <2> QED BY <2>4, <2>5, <2>6
<1>18. CASE Wipe
  <2>1. happened' \in 0..MaxHappenings /\ orderly' \in BOOLEAN /\ remade' = remade
    BY <1>t, <1>18, HappensType DEF Wipe, Incident
  <2> QED BY <1>18, <2>1, EmptyType DEF Wipe
<1>19. CASE UNCHANGED vars
  BY <1>19 DEF vars
<1> HIDE DEF MInv, SafeInv, TypeOK, ServesMandatory, Kept, Serving, OnlyServingResyncs
<1> QED
  BY <1>1, <1>2, <1>3, <1>4, <1>5, <1>6, <1>7, <1>8, <1>9, <1>10, <1>11, <1>12,
     <1>13, <1>14, <1>15, <1>16, <1>17, <1>18, <1>19
  DEF Next, Load, Resync

LEMMA RemadeStays ==
  ASSUME [Next]_vars, remade
  PROVE  remade'
<1>1. ASSUME NEW i \in Instances, NEW o, NEW e, Ask(i, o, e) PROVE remade'
  BY <1>1 DEF Ask
<1>2. ASSUME NEW i \in Instances, Load(i) \/ Resync(i) PROVE remade'
  BY <1>2
  DEF Load, SeedRead, SeedRole, SeedReread, FinishInit, FinishReload,
     Resync, ResyncStart, ResyncRead, ResyncFails, ResyncApply
<1>3. ASSUME NEW i \in Instances, \/ Subscribe(i) \/ Reload(i) \/ Deliver(i) \/ Crash(i)
                                  \/ \E k \in DOMAIN inbox[i] : Lose(i, k)
      PROVE  remade'
  BY <1>3 DEF Subscribe, Reload, Deliver, Crash, Lose, Incident
<1>4. ASSUME NEW c \in calls, Refuse(c) \/ Write(c) \/ Acknowledge(c) PROVE remade'
  BY <1>4 DEF Refuse, Write, Acknowledge
<1>5. CASE Wipe \/ UNCHANGED vars
  BY <1>5 DEF Wipe, Incident, vars
<1> QED
  BY <1>1, <1>2, <1>3, <1>4, <1>5 DEF Next, upsertRole, renameRole, deleteRole

\* Who may write the owner role's name, and what: the ways to a copy of it
\* that is not protected.
LEMMA OwnerProtectedStep == MInv /\ [Next]_vars => OwnerProtected'
<1> SUFFICES ASSUME MInv, [Next]_vars, ~remade' PROVE OwnerProtected'
  BY DEF OwnerProtected
<1>t. TypeOK
  BY DEF MInv, SafeInv
<1>r. ~remade
  BY RemadeStays
<1>o. /\ OwnersAs(db)
      /\ \A i \in Instances :
           OwnersAs(cache[i]) /\ OwnersAs(load[i].roles) /\ OwnersAs(sync[i].roles)
  BY <1>r DEF MInv, OwnerProtected
<1>e. OwnersAs(Empty) /\ OwnersAs(NotLoading.roles) /\ OwnersAs(NoSync.roles)
  BY DEF OwnersAs, Empty, NotLoading, NoSync, Mandatory
<1>a. ASSUME NEW roles \in Roles, OwnersAs(roles), NEW e \in Harmless(remade)
      PROVE  OwnersAs(Applied(roles, e))
  BY <1>r, <1>a DEF OwnersAs, Applied, Harmless, Roles, Events, Mandatory
<1>m. ASSUME NEW i \in Instances, Moved(i)
      PROVE  \A j \in Instances : OwnersAs(sync'[j].roles)
  BY <1>t, <1>o, <1>m DEF Moved, TypeOK, Syncs
<1> USE DEF OwnerProtected
<1>1. ASSUME NEW i \in Instances, Load(i) PROVE OwnerProtected'
  <2>1. OwnersAs(Booted(i))
    BY <1>o DEF Booted, OwnersAs, Mandatory
  <2>2. CASE SeedRead(i) \/ SeedReread(i)
    <3>1. /\ UNCHANGED <<db, cache, sync>>
          /\ \/ load' = [load EXCEPT ![i] = [step |-> "read", todo |-> {}, roles |-> db]]
             \/ load' = [load EXCEPT ![i] =
                           [step |-> "seeding", todo |-> ToSeed(db), roles |-> Empty]]
      BY <2>2 DEF SeedRead, SeedReread
    <3>2. ASSUME NEW j \in Instances
          PROVE  load'[j].roles \in {load[j].roles, db, Empty}
      <4>1. ASSUME NEW l, load' = [load EXCEPT ![i] = l] PROVE load'[j] \in {load[j], l}
        BY <1>t, <4>1 DEF TypeOK
      <4> QED BY <3>1, <4>1
    <3>3. \A j \in Instances : OwnersAs(load'[j].roles)
      BY <1>o, <1>e, <3>2
    <3> QED BY <1>o, <3>1, <3>3 DEF OwnersAs
  <2>3. ASSUME NEW n \in Defaults, SeedRole(i, n) PROVE OwnerProtected'
    <3>1. OwnersAs(db')
      BY <1>t, <1>o, <2>3 DEF SeedRole, SeededAs, OwnersAs, TypeOK, Roles
    <3> QED BY <1>t, <1>o, <1>e, <2>3, <3>1 DEF SeedRole, TypeOK, OwnersAs
  <2>4. CASE FinishInit(i)
    BY <1>t, <1>o, <1>e, <2>1, <2>4 DEF FinishInit, TypeOK, OwnersAs
  <2>5. CASE FinishReload(i)
    <3>1. \A j \in Instances : OwnersAs(sync'[j].roles)
      BY <1>m, <2>5 DEF FinishReload
    <3> QED BY <1>t, <1>o, <1>e, <2>5, <3>1 DEF FinishReload, TypeOK, OwnersAs
  <2> QED BY <1>1, <2>2, <2>3, <2>4, <2>5 DEF Load
<1>2. ASSUME NEW i \in Instances, Subscribe(i) \/ Reload(i) PROVE OwnerProtected'
  <2>1. /\ UNCHANGED <<db, cache, sync>>
        /\ load' = [load EXCEPT ![i] = [@ EXCEPT !.step = "reading"]]
    BY <1>2 DEF Subscribe, Reload
  <2>2. \A j \in Instances : load'[j].roles = load[j].roles
    BY <1>t, <2>1 DEF TypeOK, Loads
  <2> QED BY <1>o, <2>1, <2>2 DEF OwnersAs
<1>3. ASSUME NEW i \in Instances, NEW o, NEW e, Ask(i, o, e) PROVE OwnerProtected'
  BY <1>o, <1>3 DEF Ask, OwnersAs
<1>4. ASSUME NEW c \in calls, Refuse(c) PROVE OwnerProtected'
  BY <1>o, <1>4 DEF Refuse, OwnersAs
<1>5. ASSUME NEW c \in calls, Write(c) PROVE OwnerProtected'
  <2>1. c.event \in Harmless(remade) /\ c.event \in Events
    BY <1>t DEF MInv, SafeInv, TypeOK, Calls
  <2>2. OwnersAs(Written(c))
    BY <1>t, <1>r, <1>o, <2>1 DEF Written, OwnersAs, Harmless, TypeOK, Roles, Events, Mandatory
  <2> QED BY <1>o, <1>5, <2>2 DEF Write, OwnersAs
<1>6. ASSUME NEW c \in calls, Acknowledge(c) PROVE OwnerProtected'
  <2>1. c.event \in Harmless(remade) /\ c.at \in Instances
    BY <1>t DEF MInv, SafeInv, TypeOK, Calls
  <2>2. OwnersAs(Applied(cache[c.at], c.event))
    BY <1>t, <1>o, <1>a, <2>1 DEF TypeOK
  <2>3. \A j \in Instances : OwnersAs(sync'[j].roles)
    BY <1>m, <1>6, <2>1 DEF Acknowledge
  <2> QED BY <1>t, <1>o, <1>6, <2>2, <2>3 DEF Acknowledge, TypeOK, OwnersAs
<1>7. ASSUME NEW i \in Instances, Deliver(i) PROVE OwnerProtected'
  <2>1. Head(inbox[i]) \in Harmless(remade)
    BY <1>7, HeadTailProperties DEF Deliver, MInv, SafeInv
  <2>2. OwnersAs(Applied(cache[i], Head(inbox[i])))
    BY <1>t, <1>o, <1>a, <2>1 DEF TypeOK
  <2>3. \A j \in Instances : OwnersAs(sync'[j].roles)
    BY <1>m, <1>7 DEF Deliver
  <2> QED BY <1>t, <1>o, <1>7, <2>2, <2>3 DEF Deliver, TypeOK, OwnersAs
<1>8. ASSUME NEW i \in Instances, NEW k \in DOMAIN inbox[i], Lose(i, k) PROVE OwnerProtected'
  BY <1>o, <1>8 DEF Lose, OwnersAs
<1>9. ASSUME NEW i \in Instances, Resync(i) PROVE OwnerProtected'
  <2>1. UNCHANGED <<db, load>>
    BY <1>9 DEF Resync, ResyncStart, ResyncRead, ResyncFails, ResyncApply
  <2>2. \A j \in Instances : sync'[j].roles \in {sync[j].roles, db, NoSync.roles}
    <3>1. CASE ResyncStart(i)
      BY <1>t, <3>1 DEF ResyncStart, TypeOK, Syncs
    <3>2. CASE ResyncRead(i)
      BY <1>t, <3>2 DEF ResyncRead, TypeOK, Syncs
    <3>3. CASE ResyncFails(i) \/ ResyncApply(i)
      <4>1. sync' = [sync EXCEPT ![i] = NoSync]
        BY <3>3 DEF ResyncFails, ResyncApply
      <4> QED BY <1>t, <4>1 DEF TypeOK
    <3> QED BY <1>9, <3>1, <3>2, <3>3 DEF Resync
  <2>3. \A j \in Instances : cache'[j] \in {cache[j], sync[j].roles}
    BY <1>t, <1>9 DEF Resync, ResyncStart, ResyncRead, ResyncFails, ResyncApply, TypeOK
  <2>4. \A j \in Instances : OwnersAs(cache'[j]) /\ OwnersAs(sync'[j].roles)
    BY <1>o, <1>e, <2>2, <2>3
  <2> QED BY <1>o, <2>1, <2>4 DEF OwnersAs
<1>10. ASSUME NEW i \in Instances, Crash(i) PROVE OwnerProtected'
  BY <1>t, <1>o, <1>e, <1>10 DEF Crash, TypeOK, OwnersAs
<1>11. CASE Wipe
  BY <1>o, <1>e, <1>11 DEF Wipe, OwnersAs
<1>12. CASE UNCHANGED vars
  BY <1>o, <1>12 DEF vars, OwnersAs
<1> QED
  BY <1>1, <1>2, <1>3, <1>4, <1>5, <1>6, <1>7, <1>8, <1>9, <1>10, <1>11, <1>12
  DEF Next, upsertRole, renameRole, deleteRole

LEMMA NextMInv == MInv /\ [Next]_vars => MInv'
  BY NextSafeInv, OwnerProtectedStep DEF MInv

(***************************************************************************)
(* The variables keep their types, and deletedDuringInit is empty except   *)
(* during a boot.                                                          *)
(***************************************************************************)
THEOREM TypeCorrect == Spec => []TypeOK
<1>1. MInv => TypeOK
  BY DEF MInv, SafeInv
<1> QED
  BY InitMInv, NextMInv, <1>1, PTL DEF Spec

(***************************************************************************)
(* An instance that serves has the owner and the baseline role in its      *)
(* cache (RoleService.ts:108 and 150), unless its last reload has thrown.  *)
(***************************************************************************)
THEOREM ServesMandatoryHolds == Spec => []ServesMandatory
<1>1. MInv => ServesMandatory
  BY DEF MInv, SafeInv
<1> QED
  BY InitMInv, NextMInv, <1>1, PTL DEF Spec

-----------------------------------------------------------------------------
(***************************************************************************)
(* What a sequence of events makes of the name n: the role in the last     *)
(* event on it, or what it was before them.                                *)
(***************************************************************************)
Silent(s, n) == \A k \in 1..Len(s) : s[k].name # n

LastOn(s, n, k) == s[k].name = n /\ \A m \in 1..Len(s) : m > k => s[m].name # n

Latest(s, n, before, v) ==
  /\ Silent(s, n) => before = v
  /\ \A k \in 1..Len(s) : LastOn(s, n, k) => s[k].role = v

LEMMA LatestOfNothing ==
  ASSUME NEW n, NEW b, NEW v
  PROVE  Latest(<<>>, n, b, v) <=> b = v
  BY DEF Latest, Silent, LastOn

\* An event more on the same name settles it, one on another changes nothing.
LEMMA LatestAppend ==
  ASSUME NEW s \in Seq(Events), NEW e \in Events, NEW n, NEW b, NEW v
  PROVE  /\ e.name = n => Latest(Append(s, e), n, b, e.role)
         /\ e.name # n /\ Latest(s, n, b, v) => Latest(Append(s, e), n, b, v)
<1> DEFINE t == Append(s, e)
<1>1. /\ Len(s) \in Nat /\ Len(t) = Len(s) + 1 /\ t[Len(s) + 1] = e
      /\ \A k \in 1..Len(s) : t[k] = s[k]
  BY AppendProperties, LenProperties
<1> HIDE DEF t
<1>2. ASSUME e.name = n PROVE Latest(t, n, b, e.role)
  <2>1. ~Silent(t, n)
    BY <1>1, <1>2 DEF Silent
  <2>2. \A k \in 1..Len(t) : LastOn(t, n, k) => k = Len(s) + 1
    BY <1>1, <1>2 DEF LastOn
  <2> QED BY <1>1, <2>1, <2>2 DEF Latest
<1>3. ASSUME e.name # n, Latest(s, n, b, v) PROVE Latest(t, n, b, v)
  <2>1. Silent(t, n) => Silent(s, n)
    BY <1>1 DEF Silent
  <2>2. ASSUME NEW k \in 1..Len(t), LastOn(t, n, k)
        PROVE  k \in 1..Len(s) /\ LastOn(s, n, k) /\ t[k] = s[k]
    BY <1>1, <1>3, <2>2 DEF LastOn
  <2> QED BY <1>3, <2>1, <2>2 DEF Latest
<1> QED BY <1>2, <1>3 DEF t

\* Hearing the first event takes it from what is to come into what was before.
LEMMA LatestTail ==
  ASSUME NEW s \in Seq(Events), s # <<>>, NEW n, NEW b, NEW v, Latest(s, n, b, v)
  PROVE  /\ Head(s).name = n => Latest(Tail(s), n, Head(s).role, v)
         /\ Head(s).name # n => Latest(Tail(s), n, b, v)
<1> DEFINE t == Tail(s)
<1>1. /\ Len(s) \in Nat /\ Len(s) >= 1 /\ Len(t) = Len(s) - 1 /\ Head(s) = s[1]
      /\ \A k \in 1..Len(t) : t[k] = s[k + 1]
  BY HeadTailProperties, LenProperties, EmptySeq
<1> HIDE DEF t
<1>2. ASSUME NEW k \in 1..Len(t), LastOn(t, n, k) PROVE t[k].role = v
  <2>1. k + 1 \in 1..Len(s) /\ s[k + 1] = t[k]
    BY <1>1
  <2>2. ASSUME NEW m \in 1..Len(s), m > k + 1 PROVE s[m].name # n
    <3>1. m - 1 \in 1..Len(t) /\ m - 1 > k /\ t[m - 1] = s[m]
      BY <1>1, <2>2
    <3> QED BY <1>2, <3>1 DEF LastOn
  <2>3. LastOn(s, n, k + 1)
    BY <1>2, <2>1, <2>2 DEF LastOn
  <2> QED BY <2>1, <2>3 DEF Latest
<1>3. ASSUME Silent(t, n), NEW m \in 1..Len(s), m > 1 PROVE s[m].name # n
  <2>1. m - 1 \in 1..Len(t) /\ t[m - 1] = s[m]
    BY <1>1, <1>3
  <2> QED BY <1>3, <2>1 DEF Silent
<1>4. ASSUME Head(s).name = n, Silent(t, n) PROVE Head(s).role = v
  <2>1. 1 \in 1..Len(s) /\ LastOn(s, n, 1)
    BY <1>1, <1>3, <1>4 DEF LastOn
  <2> QED BY <1>1, <2>1 DEF Latest
<1>5. ASSUME Head(s).name # n, Silent(t, n) PROVE b = v
  <2>1. Silent(s, n)
    BY <1>1, <1>3, <1>5 DEF Silent
  <2> QED BY <2>1 DEF Latest
<1> QED BY <1>2, <1>4, <1>5 DEF Latest, t

\* Events that leave v leave it as well if v was there before.
LEMMA LatestBefore ==
  ASSUME NEW s, NEW n, NEW b, NEW v, Latest(s, n, b, v)
  PROVE  Latest(s, n, v, v)
  BY DEF Latest

(***************************************************************************)
(* Why an instance that has heard everything agrees with the database, as  *)
(* long as nothing has gone wrong.  What it has of a name, with the events *)
(* still to come, is what the database has - but for the one change that   *)
(* is written and not yet published.  A boot has, of a name it has heard   *)
(* nothing of, what it has read; until it reads, that is the database.     *)
(* Seeds are published to nobody, and need not be: as long as there is     *)
(* something to seed, nobody serves.                                       *)
(***************************************************************************)
Has(i, n) ==
  IF status[i] = "serving" \/ cache[i][n] # Absent THEN cache[i][n]
  ELSE IF n \in deleted[i] THEN Absent
  ELSE IF load[i].step = "read" THEN load[i].roles[n]
  ELSE db[n]

Pending(n) == \E c \in calls : c.written /\ c.event.name = n

InLine(i, n) == Pending(n) \/ Latest(inbox[i], n, Has(i, n), db[n])

OneAtATime ==
  /\ \A c, d \in calls : c = d
  /\ \A c \in calls : /\ c.op # "rename" /\ c.event.prev = c.event.name
                      /\ status[c.at] = "serving"
                      /\ c.written => db[c.event.name] = c.event.role

EventsKeepNames ==
  \A i \in Instances : \A k \in 1..Len(inbox[i]) : inbox[i][k].prev = inbox[i][k].name

BootsOnly ==
  \A i \in Instances :
    /\ status[i] \in {"down", "booting", "serving"}
    /\ load[i].step # "off" => status[i] = "booting"
    /\ status[i] = "down" => cache[i] = Empty /\ inbox[i] = <<>>

SeedsMandatory ==
  /\ Present(db) # {}
  /\ \A i \in Instances :
       /\ load[i].step = "seeding" =>
            load[i].todo \subseteq Mandatory /\ Mandatory \ Present(db) \subseteq load[i].todo
       /\ load[i].step \in {"rereading", "read"} => Mandatory \subseteq Present(db)

QuietUntilSeeded ==
  ~(Mandatory \subseteq Present(db)) =>
    /\ calls = {}
    /\ \A i \in Instances : /\ status[i] # "serving" /\ cache[i] = Empty
                            /\ deleted[i] = {} /\ inbox[i] = <<>>

HasInLine ==
  \A i \in Instances : status[i] # "down" => \A n \in Names : InLine(i, n)

ResyncInLine ==
  \A i \in Instances : sync[i].step = "read" /\ ~sync[i].moved =>
    \A n \in Names : Pending(n) \/ Latest(inbox[i], n, sync[i].roles[n], db[n])

Orderly ==
  /\ OneAtATime /\ EventsKeepNames /\ BootsOnly /\ SeedsMandatory
  /\ QuietUntilSeeded /\ HasInLine /\ ResyncInLine

LEMMA InitOrderly ==
  ASSUME Stored # {}, Init
  PROVE  Orderly
<1>1. /\ calls = {} /\ \A i \in Instances : /\ status[i] = "down" /\ cache[i] = Empty
                                            /\ inbox[i] = <<>> /\ load[i].step = "off"
                                            /\ deleted[i] = {} /\ sync[i].step = "off"
  BY DEF Init, NotLoading, NoSync
<1>2. Present(db) # {}
  BY DEF Init, Present, SeededAs
<1> QED BY <1>1, <1>2 DEF Orderly, OneAtATime, EventsKeepNames, BootsOnly,
     SeedsMandatory, QuietUntilSeeded, HasInLine, ResyncInLine

\* A boot that goes on reading has what it had.
LEMMA LoadGoesOn ==
  ASSUME MInv, Orderly, NEW i \in Instances,
         UNCHANGED <<db, status, cache, deleted, inbox, sync, calls>>,
         NEW l \in Loads, load' = [load EXCEPT ![i] = l], status[i] = "booting",
         l.step = "read" => l.roles = db /\ load[i].step # "read",
         l.step = "seeding" => /\ l.todo \subseteq Mandatory
                               /\ Mandatory \ Present(db) \subseteq l.todo,
         l.step \in {"rereading", "read"} => Mandatory \subseteq Present(db),
         l.step # "read" => load[i].step # "read"
  PROVE  Orderly'
<1>1. load'[i] = l /\ \A j \in Instances \ {i} : load'[j] = load[j]
  BY DEF MInv, SafeInv, TypeOK
<1>2. /\ OneAtATime' /\ EventsKeepNames' /\ BootsOnly' /\ SeedsMandatory'
      /\ QuietUntilSeeded' /\ ResyncInLine'
  BY <1>1 DEF Orderly, OneAtATime, EventsKeepNames, BootsOnly, SeedsMandatory,
     QuietUntilSeeded, ResyncInLine, Pending
<1>3. \A j \in Instances, n \in Names : Has(j, n)' = Has(j, n)
  BY <1>1 DEF Has
<1>4. HasInLine'
  BY <1>3 DEF Orderly, HasInLine, InLine, Pending
<1> QED BY <1>2, <1>4 DEF Orderly

LEMMA SeedReadOrderly ==
  ASSUME MInv, Orderly, NEW i \in Instances, SeedRead(i) PROVE Orderly'
<1>1. /\ load[i].step = "reading" /\ status[i] = "booting"
      /\ UNCHANGED <<db, status, cache, deleted, inbox, sync, calls>>
  BY DEF SeedRead, Orderly, BootsOnly
<1>2. ToSeed(db) = Mandatory \ Present(db)
  BY DEF ToSeed, Orderly, SeedsMandatory
<1>3. CASE ToSeed(db) = {}
  <2> DEFINE l == [step |-> "read", todo |-> {}, roles |-> db]
  <2>1. l \in Loads /\ load' = [load EXCEPT ![i] = l]
    BY <1>3 DEF SeedRead, Loads, MInv, SafeInv, TypeOK
  <2>2. l.step = "read" /\ l.roles = db
    OBVIOUS
  <2> HIDE DEF l
  <2> QED BY <1>1, <1>2, <1>3, <2>1, <2>2, LoadGoesOn
<1>4. CASE ToSeed(db) # {}
  <2> DEFINE l == [step |-> "seeding", todo |-> ToSeed(db), roles |-> Empty]
  <2>1. l \in Loads /\ load' = [load EXCEPT ![i] = l]
    BY <1>4, ToSeedType, EmptyType DEF SeedRead, Loads
  <2>2. l.step = "seeding" /\ l.todo = ToSeed(db)
    OBVIOUS
  <2> HIDE DEF l
  <2> QED BY <1>1, <1>2, <2>1, <2>2, LoadGoesOn
<1> QED BY <1>3, <1>4

LEMMA SeedRereadOrderly ==
  ASSUME MInv, Orderly, NEW i \in Instances, SeedReread(i) PROVE Orderly'
<1>1. /\ load[i].step = "rereading" /\ status[i] = "booting"
      /\ UNCHANGED <<db, status, cache, deleted, inbox, sync, calls>>
  BY DEF SeedReread, Orderly, BootsOnly
<1> DEFINE l == [step |-> "read", todo |-> {}, roles |-> db]
<1>2. l \in Loads /\ load' = [load EXCEPT ![i] = l]
  BY DEF SeedReread, Loads, MInv, SafeInv, TypeOK
<1>3. l.step = "read" /\ l.roles = db
  OBVIOUS
<1>4. Mandatory \subseteq Present(db)
  BY <1>1 DEF Orderly, SeedsMandatory
<1> HIDE DEF l
<1> QED BY <1>1, <1>2, <1>3, <1>4, LoadGoesOn

LEMMA SeedRoleOrderly ==
  ASSUME MInv, Orderly, NEW i \in Instances, NEW n \in Defaults, SeedRole(i, n)
  PROVE  Orderly'
<1> DEFINE l == [step |-> IF load[i].todo = {n} THEN "rereading" ELSE "seeding",
                 todo |-> load[i].todo \ {n}, roles |-> Empty]
<1>1. /\ load[i].step = "seeding" /\ status[i] = "booting" /\ n \in load[i].todo
      /\ UNCHANGED <<status, cache, deleted, inbox, sync, calls>>
      /\ load' = [load EXCEPT ![i] = l]
  BY DEF SeedRole, Orderly, BootsOnly
<1>2. load[i].todo \subseteq Mandatory /\ Mandatory \ Present(db) \subseteq load[i].todo
  BY <1>1 DEF Orderly, SeedsMandatory
<1>3. l \in Loads
  BY EmptyType DEF MInv, SafeInv, TypeOK, Loads
<1>4. /\ l.step \in {"rereading", "seeding"} /\ l.todo = load[i].todo \ {n}
      /\ l.step = "rereading" => load[i].todo = {n}
  OBVIOUS
<1> HIDE DEF l
<1>5. CASE db[n] # Absent
  <2>1. db' = db /\ n \in Present(db)
    BY <1>5 DEF SeedRole, Present, MInv, SafeInv, TypeOK, Roles
  <2> QED BY <1>1, <1>2, <1>3, <1>4, <2>1, LoadGoesOn
<1>6. CASE db[n] = Absent
  <2>1. n \in Mandatory /\ ~(Mandatory \subseteq Present(db))
    BY <1>1, <1>2, <1>6 DEF Present
  <2>2. /\ calls = {}
        /\ \A j \in Instances : /\ status[j] # "serving" /\ cache[j] = Empty
                                /\ deleted[j] = {} /\ inbox[j] = <<>>
    BY <2>1 DEF Orderly, QuietUntilSeeded
  <2>3. Present(db') = Present(db) \cup {n}
    BY <1>6 DEF SeedRole, SeededAs, Present, MInv, SafeInv, TypeOK, Roles
  <2>4. load'[i] = l /\ \A j \in Instances \ {i} : load'[j] = load[j]
    BY <1>1 DEF MInv, SafeInv, TypeOK
  <2>5. \A j \in Instances : load'[j].step # "read"
    BY <1>4, <2>1, <2>4 DEF Orderly, SeedsMandatory
  <2>6. SeedsMandatory'
    <3>1. (Present(db))' # {}
      BY <2>3 DEF Present
    <3>2. (Present(db))' = Present(db) \cup {n}
      BY <2>3 DEF Present
    <3> QED BY <1>2, <1>4, <2>1, <2>4, <3>1, <3>2 DEF Orderly, SeedsMandatory
  <2>7. OneAtATime' /\ EventsKeepNames' /\ BootsOnly'
    BY <1>1, <1>4, <2>2, <2>4 DEF Orderly, OneAtATime, EventsKeepNames, BootsOnly
  <2>8. QuietUntilSeeded'
    BY <1>1, <2>2 DEF QuietUntilSeeded
  <2>9. HasInLine'
    <3> SUFFICES ASSUME NEW j \in Instances, NEW m \in Names
                 PROVE  Latest(inbox'[j], m, Has(j, m)', db'[m])
      BY DEF HasInLine, InLine
    <3>1. Has(j, m)' = db'[m] /\ inbox'[j] = <<>>
      BY <1>1, <2>2, <2>5 DEF Has, Empty
    <3> QED BY <3>1, LatestOfNothing
  <2>10. ResyncInLine'
    <3>1. \A j \in Instances : sync[j].step = "off"
      BY <2>2 DEF MInv, SafeInv, OnlyServingResyncs, TypeOK, Syncs, Orderly, BootsOnly
    <3> QED BY <1>1, <3>1 DEF ResyncInLine
  <2> QED BY <2>6, <2>7, <2>8, <2>9, <2>10 DEF Orderly
<1> QED BY <1>5, <1>6

LEMMA SubscribeOrderly ==
  ASSUME MInv, Orderly, NEW i \in Instances, Subscribe(i) PROVE Orderly'
<1>1. /\ status[i] = "down" /\ UNCHANGED <<db, cache, deleted, inbox, sync, calls>>
      /\ status'[i] = "booting" /\ \A j \in Instances \ {i} : status'[j] = status[j]
      /\ load'[i].step = "reading" /\ \A j \in Instances \ {i} : load'[j] = load[j]
  BY DEF Subscribe, MInv, SafeInv, TypeOK, Loads
<1>2. cache[i] = Empty /\ deleted[i] = {} /\ inbox[i] = <<>>
  BY <1>1 DEF Orderly, BootsOnly, MInv, SafeInv, TypeOK
<1>3. OneAtATime'
  BY <1>1 DEF Orderly, OneAtATime, MInv, SafeInv, TypeOK, Calls
<1>4. EventsKeepNames' /\ BootsOnly' /\ SeedsMandatory' /\ QuietUntilSeeded' /\ ResyncInLine'
  BY <1>1 DEF Orderly, EventsKeepNames, BootsOnly, SeedsMandatory, QuietUntilSeeded,
     ResyncInLine, Pending
<1>5. ASSUME NEW j \in Instances, status'[j] # "down", NEW n \in Names PROVE InLine(j, n)'
  <2>1. CASE j = i
    <3>1. Has(i, n)' = db'[n] /\ inbox'[i] = <<>>
      BY <1>1, <1>2 DEF Has, Empty
    <3> QED BY <2>1, <3>1, LatestOfNothing DEF InLine
  <2>2. CASE j # i
    <3>1. Has(j, n)' = Has(j, n) /\ status[j] # "down"
      BY <1>1, <1>5, <2>2 DEF Has
    <3> QED BY <1>1, <3>1 DEF Orderly, HasInLine, InLine, Pending
  <2> QED BY <2>1, <2>2
<1>6. HasInLine'
  BY <1>5 DEF HasInLine
<1> QED BY <1>3, <1>4, <1>6 DEF Orderly

LEMMA FinishInitOrderly ==
  ASSUME MInv, Orderly, NEW i \in Instances, FinishInit(i) PROVE Orderly'
<1>1. /\ status[i] = "booting" /\ load[i].step = "read"
      /\ UNCHANGED <<db, sync, calls>>
      /\ load'[i].step = "off" /\ deleted'[i] = {}
      /\ \A j \in Instances \ {i} : /\ load'[j] = load[j] /\ deleted'[j] = deleted[j]
                                    /\ cache'[j] = cache[j] /\ status'[j] = status[j]
                                    /\ inbox'[j] = inbox[j]
  BY DEF FinishInit, MInv, SafeInv, TypeOK, NotLoading
<1>2. \/ cache'[i] = Booted(i) /\ status'[i] = "serving" /\ inbox'[i] = inbox[i]
      \/ cache'[i] = Empty /\ status'[i] = "down" /\ inbox'[i] = <<>>
  BY DEF FinishInit, MInv, SafeInv, TypeOK
<1>3. Mandatory \subseteq Present(db)
  BY <1>1 DEF Orderly, SeedsMandatory
<1>4. OneAtATime'
  BY <1>1 DEF Orderly, OneAtATime, MInv, SafeInv, TypeOK, Calls
<1>5. EventsKeepNames'
  BY <1>1, <1>2 DEF Orderly, EventsKeepNames
<1>6. BootsOnly'
  BY <1>1, <1>2 DEF Orderly, BootsOnly
<1>7. SeedsMandatory' /\ QuietUntilSeeded'
  BY <1>1, <1>3 DEF Orderly, SeedsMandatory, QuietUntilSeeded, Present
<1>8. HasInLine'
  <2> SUFFICES ASSUME NEW j \in Instances, status'[j] # "down", NEW n \in Names
               PROVE  InLine(j, n)'
    BY DEF HasInLine
  <2>1. CASE j = i
    <3>1. cache'[i] = Booted(i) /\ status'[i] = "serving" /\ inbox'[i] = inbox[i]
      BY <1>2, <2>1
    <3>2. Has(i, n)' = Has(i, n)
      BY <1>1, <3>1 DEF Has, Booted
    <3> QED BY <1>1, <2>1, <3>1, <3>2 DEF Orderly, HasInLine, InLine, Pending
  <2>2. CASE j # i
    <3>1. Has(j, n)' = Has(j, n) /\ status[j] # "down"
      BY <1>1, <2>2 DEF Has
    <3> QED BY <1>1, <2>2, <3>1 DEF Orderly, HasInLine, InLine, Pending
  <2> QED BY <2>1, <2>2
<1>9. ResyncInLine'
  <2>1. sync[i].step = "off"
    BY <1>1 DEF MInv, SafeInv, OnlyServingResyncs, TypeOK, Syncs
  <2> QED BY <1>1, <2>1 DEF Orderly, ResyncInLine, Pending
<1> QED BY <1>4, <1>5, <1>6, <1>7, <1>8, <1>9 DEF Orderly

\* Asking changes nothing yet.
LEMMA AskOrderly ==
  ASSUME MInv, Orderly, NEW i \in Instances, NEW o \in {"save", "delete"},
         NEW e \in Events, e.prev = e.name, Ask(i, o, e), calls = {}
  PROVE  Orderly'
<1> DEFINE c == [at |-> i, op |-> o, written |-> FALSE, event |-> e]
<1>1. /\ status[i] = "serving" /\ UNCHANGED <<db, status, cache, load, deleted, inbox, sync>>
      /\ calls' = {c}
  BY DEF Ask, Serving, Orderly, BootsOnly
<1>2. c.at = i /\ c.op # "rename" /\ ~c.written /\ c.event = e
  OBVIOUS
<1> HIDE DEF c
<1>3. \A n \in Names : ~Pending(n) /\ ~Pending(n)'
  BY <1>1, <1>2 DEF Pending
<1>4. OneAtATime'
  BY <1>1, <1>2 DEF OneAtATime
<1>5. EventsKeepNames' /\ BootsOnly' /\ SeedsMandatory' /\ QuietUntilSeeded'
  BY <1>1 DEF Orderly, EventsKeepNames, BootsOnly, SeedsMandatory, QuietUntilSeeded
<1>6. \A j \in Instances, n \in Names : Has(j, n)' = Has(j, n)
  BY <1>1 DEF Has
<1>7. HasInLine' /\ ResyncInLine'
  BY <1>1, <1>3, <1>6 DEF Orderly, HasInLine, ResyncInLine, InLine
<1> QED BY <1>4, <1>5, <1>7 DEF Orderly

LEMMA RefuseOrderly ==
  ASSUME MInv, Orderly, NEW c \in calls, Refuse(c) PROVE Orderly'
<1>1. /\ calls' = {} /\ ~c.written
      /\ UNCHANGED <<db, status, cache, load, deleted, inbox, sync>>
  BY DEF Refuse, Orderly, OneAtATime
<1>2. \A n \in Names : ~Pending(n) /\ ~Pending(n)'
  BY <1>1 DEF Pending, Orderly, OneAtATime
<1>3. \A j \in Instances, n \in Names : Has(j, n)' = Has(j, n)
  BY <1>1 DEF Has
<1>4. HasInLine' /\ ResyncInLine'
  BY <1>1, <1>2, <1>3 DEF Orderly, HasInLine, ResyncInLine, InLine
<1>5. OneAtATime' /\ EventsKeepNames' /\ BootsOnly' /\ SeedsMandatory' /\ QuietUntilSeeded'
  BY <1>1 DEF Orderly, OneAtATime, EventsKeepNames, BootsOnly, SeedsMandatory,
     QuietUntilSeeded
<1> QED BY <1>4, <1>5 DEF Orderly

\* A call that is under way was asked of an instance that serves.
LEMMA CallsWhenSeeded ==
  ASSUME Orderly, NEW c \in calls
  PROVE  Mandatory \subseteq Present(db)
  BY DEF Orderly, QuietUntilSeeded

LEMMA WriteOrderly ==
  ASSUME MInv, Orderly, ~remade, NEW c \in calls, Write(c) PROVE Orderly'
<1> DEFINE e == c.event
           d == [c EXCEPT !.written = TRUE]
<1>1. /\ c \in Calls /\ e \in Events /\ e \in Harmless(remade) /\ c.op # "rename"
      /\ c.at \in Instances /\ status[c.at] = "serving" /\ e.prev = e.name
  BY DEF MInv, SafeInv, TypeOK, Orderly, OneAtATime, Calls
<1>2. d.event = e /\ d.at = c.at /\ d.op = c.op /\ d.written
  BY <1>1 DEF Calls
<1>3. calls' = {d} /\ UNCHANGED <<status, cache, load, deleted, inbox, sync>>
  BY DEF Write, Orderly, OneAtATime
<1>4. db' = [db EXCEPT ![e.name] = e.role]
  BY <1>1 DEF Write, Written
<1>5. e.name \in Names /\ db'[e.name] = e.role
      /\ \A n \in Names \ {e.name} : db'[n] = db[n]
  BY <1>1, <1>4 DEF MInv, SafeInv, TypeOK, Roles, Events
<1>6. \A n \in Names : n = e.name => Pending(n)'
  BY <1>2, <1>3 DEF Pending
<1>7. ~c.written
  BY DEF Write
<1>8. \A n \in Names : ~Pending(n)
  BY <1>7 DEF Pending, Orderly, OneAtATime
<1> HIDE DEF d, e
<1>9. Mandatory \subseteq (Present(db))'
  <2>1. Mandatory \subseteq Present(db) /\ Absent \notin Values
    BY CallsWhenSeeded
  <2>2. e.role = Absent => e.name \notin Mandatory
    BY <1>1 DEF Harmless, Mandatory
  <2> QED BY <1>5, <2>1, <2>2 DEF Present
<1>10. (Present(db))' # {}
  BY <1>9 DEF Mandatory
<1>11. OneAtATime'
  BY <1>1, <1>2, <1>3, <1>5 DEF OneAtATime
<1>12. EventsKeepNames' /\ BootsOnly'
  BY <1>3 DEF Orderly, EventsKeepNames, BootsOnly
<1>13. SeedsMandatory' /\ QuietUntilSeeded'
  BY <1>3, <1>9, <1>10 DEF Orderly, SeedsMandatory, QuietUntilSeeded
<1>14. HasInLine'
  <2> SUFFICES ASSUME NEW j \in Instances, status'[j] # "down", NEW n \in Names, n # e.name
               PROVE  InLine(j, n)'
    BY <1>6 DEF HasInLine, InLine
  <2>1. Has(j, n)' = Has(j, n)
    BY <1>3, <1>5 DEF Has
  <2> QED BY <1>3, <1>5, <1>8, <2>1 DEF Orderly, HasInLine, InLine
<1>15. ResyncInLine'
  BY <1>3, <1>5, <1>6, <1>8 DEF Orderly, ResyncInLine
<1> QED BY <1>11, <1>12, <1>13, <1>14, <1>15 DEF Orderly

LEMMA AcknowledgeOrderly ==
  ASSUME MInv, Orderly, NEW c \in calls, Acknowledge(c) PROVE Orderly'
<1> DEFINE e == c.event
<1>1. /\ c \in Calls /\ e \in Events /\ c.at \in Instances /\ status[c.at] = "serving"
      /\ e.prev = e.name /\ c.written /\ db[e.name] = e.role
  BY DEF Acknowledge, MInv, SafeInv, TypeOK, Orderly, OneAtATime, Calls
<1>2. calls' = {} /\ UNCHANGED <<db, status, load, deleted>>
  BY DEF Acknowledge, Orderly, OneAtATime
<1>3. \A n \in Names : n # e.name => ~Pending(n)
  BY DEF Pending, Orderly, OneAtATime
<1>4. /\ \A j \in Instances : inbox[j] \in Seq(Events)
      /\ \A j \in Instances : inbox'[j] =
           IF status[j] = "down" THEN inbox[j] ELSE Append(inbox[j], e)
  BY DEF Acknowledge, MInv, SafeInv, TypeOK
<1>5. /\ \A j \in Instances \ {c.at} : cache'[j] = cache[j]
      /\ \A n \in Names \ {e.name} : cache'[c.at][n] = cache[c.at][n]
  BY <1>1 DEF Acknowledge, Applied, MInv, SafeInv, TypeOK, Roles
<1>6. /\ \A j \in Instances \ {c.at} : sync'[j] = sync[j]
      /\ sync'[c.at].step = "read" => sync'[c.at].moved
  BY <1>1 DEF Acknowledge, Moved, MInv, SafeInv, TypeOK, Syncs
<1>7. Mandatory \subseteq Present(db)
  BY CallsWhenSeeded
<1> HIDE DEF e
<1>8. ASSUME NEW j \in Instances, status[j] # "down", NEW n \in Names, NEW b,
             Pending(n) \/ Latest(inbox[j], n, b, db[n])
      PROVE  Latest(inbox'[j], n, b, db'[n])
  <2>1. inbox'[j] = Append(inbox[j], e) /\ inbox[j] \in Seq(Events)
    BY <1>4, <1>8
  <2>2. CASE n = e.name
    BY <1>1, <1>2, <2>1, <2>2, LatestAppend
  <2>3. CASE n # e.name
    BY <1>1, <1>2, <1>3, <1>8, <2>1, <2>3, LatestAppend
  <2> QED BY <2>2, <2>3
<1>9. EventsKeepNames'
  <2> SUFFICES ASSUME NEW j \in Instances, NEW k \in 1..Len(inbox'[j])
               PROVE  inbox'[j][k].prev = inbox'[j][k].name
    BY DEF EventsKeepNames
  <2>1. CASE status[j] = "down"
    BY <1>4, <2>1 DEF Orderly, EventsKeepNames
  <2>2. CASE status[j] # "down"
    <3>1. inbox'[j] = Append(inbox[j], e) /\ inbox[j] \in Seq(Events)
      BY <1>4, <2>2
    <3>2. /\ Len(inbox[j]) \in Nat /\ Len(inbox'[j]) = Len(inbox[j]) + 1
          /\ inbox'[j][Len(inbox[j]) + 1] = e
          /\ \A m \in 1..Len(inbox[j]) : inbox'[j][m] = inbox[j][m]
      BY <1>1, <3>1, AppendProperties, LenProperties
    <3>3. k \in 1..Len(inbox[j]) \/ k = Len(inbox[j]) + 1
      BY <3>2
    <3> QED BY <1>1, <3>2, <3>3 DEF Orderly, EventsKeepNames
  <2> QED BY <2>1, <2>2
<1>10. OneAtATime' /\ SeedsMandatory' /\ QuietUntilSeeded'
  BY <1>2, <1>7 DEF Orderly, OneAtATime, SeedsMandatory, QuietUntilSeeded, Present
<1>11. BootsOnly'
  <2>1. \A j \in Instances : status[j] = "down" => cache'[j] = cache[j] /\ inbox'[j] = inbox[j]
    BY <1>1, <1>4, <1>5
  <2> QED BY <1>2, <2>1 DEF Orderly, BootsOnly
<1>12. HasInLine'
  <2> SUFFICES ASSUME NEW j \in Instances, status[j] # "down", NEW n \in Names
               PROVE  Latest(inbox'[j], n, Has(j, n)', db'[n])
    BY <1>2 DEF HasInLine, InLine
  <2>1. CASE n = e.name
    <3>1. inbox'[j] = Append(inbox[j], e) /\ inbox[j] \in Seq(Events)
      BY <1>4
    <3> QED BY <1>1, <1>2, <2>1, <3>1, LatestAppend
  <2>2. CASE n # e.name
    <3>1. Has(j, n)' = Has(j, n)
      BY <1>2, <1>5, <2>2 DEF Has
    <3>2. Pending(n) \/ Latest(inbox[j], n, Has(j, n), db[n])
      BY DEF Orderly, HasInLine, InLine
    <3> QED BY <1>8, <3>1, <3>2
  <2> QED BY <2>1, <2>2
<1>13. ResyncInLine'
  <2> SUFFICES ASSUME NEW j \in Instances, sync'[j].step = "read", ~sync'[j].moved,
                      NEW n \in Names
               PROVE  Latest(inbox'[j], n, sync'[j].roles[n], db'[n])
    BY DEF ResyncInLine
  <2>1. sync'[j] = sync[j] /\ status[j] # "down"
    BY <1>6 DEF MInv, SafeInv, OnlyServingResyncs
  <2>2. Pending(n) \/ Latest(inbox[j], n, sync[j].roles[n], db[n])
    BY <2>1 DEF Orderly, ResyncInLine
  <2> QED BY <1>8, <2>1, <2>2
<1> QED BY <1>9, <1>10, <1>11, <1>12, <1>13 DEF Orderly

LEMMA DeliverOrderly ==
  ASSUME MInv, Orderly, NEW i \in Instances, Deliver(i) PROVE Orderly'
<1> DEFINE e == Head(inbox[i])
<1>1. /\ inbox[i] \in Seq(Events) /\ inbox[i] # <<>> /\ e \in Events
      /\ Len(inbox[i]) \in Nat /\ Len(inbox[i]) >= 1 /\ e = inbox[i][1]
      /\ Len(Tail(inbox[i])) = Len(inbox[i]) - 1
      /\ \A k \in 1..Len(Tail(inbox[i])) : Tail(inbox[i])[k] = inbox[i][k + 1]
  BY HeadTailProperties, LenProperties, EmptySeq DEF Deliver, MInv, SafeInv, TypeOK
<1>2. e.prev = e.name
  BY <1>1 DEF Orderly, EventsKeepNames
<1>3. /\ UNCHANGED <<db, status, load, calls>>
      /\ inbox'[i] = Tail(inbox[i]) /\ \A j \in Instances \ {i} : inbox'[j] = inbox[j]
      /\ cache'[i] = Applied(cache[i], e) /\ \A j \in Instances \ {i} : cache'[j] = cache[j]
      /\ deleted'[i] = IF Remembered(i, e) THEN deleted[i] \cup {e.name} ELSE deleted[i]
      /\ \A j \in Instances \ {i} : deleted'[j] = deleted[j]
  BY DEF Deliver, MInv, SafeInv, TypeOK
<1>4. /\ \A j \in Instances \ {i} : sync'[j] = sync[j]
      /\ sync'[i].step = "read" => sync'[i].moved
  BY DEF Deliver, Moved, MInv, SafeInv, TypeOK, Syncs
<1>5. status[i] \in {"booting", "serving"} /\ Mandatory \subseteq Present(db)
  BY <1>1 DEF Orderly, BootsOnly, QuietUntilSeeded
<1> HIDE DEF e
<1>6. /\ cache'[i][e.name] = e.role
      /\ \A n \in Names \ {e.name} : cache'[i][n] = cache[i][n]
      /\ e.name \in Names
  BY <1>1, <1>2, <1>3 DEF Applied, MInv, SafeInv, TypeOK, Roles, Events
<1>7. OneAtATime' /\ SeedsMandatory' /\ QuietUntilSeeded'
  BY <1>3, <1>5 DEF Orderly, OneAtATime, SeedsMandatory, QuietUntilSeeded, Present
<1>8. BootsOnly'
  BY <1>3, <1>5 DEF Orderly, BootsOnly
<1>9. EventsKeepNames'
  <2> SUFFICES ASSUME NEW j \in Instances, NEW k \in 1..Len(inbox'[j])
               PROVE  inbox'[j][k].prev = inbox'[j][k].name
    BY DEF EventsKeepNames
  <2>1. CASE j = i
    <3>1. inbox'[j] = Tail(inbox[i])
      BY <1>3, <2>1
    <3>2. k \in 1..Len(Tail(inbox[i]))
      BY <3>1
    <3>3. k + 1 \in 1..Len(inbox[i]) /\ inbox'[j][k] = inbox[i][k + 1]
      BY <1>1, <3>1, <3>2
    <3> QED BY <3>3 DEF Orderly, EventsKeepNames
  <2>2. CASE j # i
    BY <1>3, <2>2 DEF Orderly, EventsKeepNames
  <2> QED BY <2>1, <2>2
<1>10. HasInLine'
  <2> SUFFICES ASSUME NEW j \in Instances, status[j] # "down", NEW n \in Names
               PROVE  InLine(j, n)'
    BY <1>3 DEF HasInLine
  <2>0. Pending(n)' <=> Pending(n)
    BY <1>3 DEF Pending
  <2>1. CASE j # i
    <3>1. Has(j, n)' = Has(j, n)
      BY <1>3, <2>1 DEF Has
    <3> QED BY <1>3, <2>0, <2>1, <3>1 DEF Orderly, HasInLine, InLine
  <2>2. CASE j = i /\ n # e.name
    <3>1. Has(i, n)' = Has(i, n)
      BY <1>3, <1>6, <2>2 DEF Has
    <3>2. Pending(n) \/ Latest(inbox[i], n, Has(i, n), db[n])
      BY <2>2 DEF Orderly, HasInLine, InLine
    <3>3. Latest(inbox[i], n, Has(i, n), db[n]) => Latest(Tail(inbox[i]), n, Has(i, n), db[n])
      BY <1>1, <2>2, LatestTail DEF e
    <3> QED BY <1>3, <2>0, <2>2, <3>1, <3>2, <3>3 DEF InLine
  <2>3. CASE j = i /\ n = e.name
    <3>1. Has(i, n)' = e.role
      BY <1>3, <1>5, <1>6, <2>3 DEF Has, Remembered
    <3>2. Pending(n) \/ Latest(inbox[i], n, Has(i, n), db[n])
      BY <2>3 DEF Orderly, HasInLine, InLine
    <3>3. Latest(inbox[i], n, Has(i, n), db[n]) => Latest(Tail(inbox[i]), n, e.role, db[n])
      BY <1>1, <2>3, LatestTail DEF e
    <3> QED BY <1>3, <2>0, <2>3, <3>1, <3>2, <3>3 DEF InLine
  <2> QED BY <2>1, <2>2, <2>3
<1>11. ResyncInLine'
  BY <1>3, <1>4 DEF Orderly, ResyncInLine, Pending
<1> QED BY <1>7, <1>8, <1>9, <1>10, <1>11 DEF Orderly

LEMMA ResyncOrderly ==
  ASSUME MInv, Orderly, NEW i \in Instances, Resync(i) PROVE Orderly'
<1>1. UNCHANGED <<db, load, deleted, inbox, calls>>
  BY DEF Resync, ResyncStart, ResyncRead, ResyncFails, ResyncApply
<1>2. \A n \in Names : Pending(n)' <=> Pending(n)
  BY <1>1 DEF Pending
<1>3. ASSUME UNCHANGED <<status, cache>>
      PROVE  /\ OneAtATime' /\ EventsKeepNames' /\ BootsOnly' /\ SeedsMandatory'
             /\ QuietUntilSeeded' /\ HasInLine'
  <2>1. \A j \in Instances, n \in Names : Has(j, n)' = Has(j, n)
    BY <1>1, <1>3 DEF Has
  <2>2. HasInLine'
    BY <1>1, <1>2, <1>3, <2>1 DEF Orderly, HasInLine, InLine
  <2> QED BY <1>1, <1>3, <2>2 DEF Orderly, OneAtATime, EventsKeepNames, BootsOnly,
       SeedsMandatory, QuietUntilSeeded
<1>4. CASE ResyncStart(i) \/ ResyncFails(i)
  <2>1. /\ UNCHANGED <<status, cache>> /\ sync'[i].step # "read"
        /\ \A j \in Instances \ {i} : sync'[j] = sync[j]
    BY <1>4 DEF ResyncStart, ResyncFails, NoSync, MInv, SafeInv, TypeOK, Syncs
  <2>2. ResyncInLine'
    BY <1>1, <1>2, <2>1 DEF Orderly, ResyncInLine
  <2> QED BY <1>3, <2>1, <2>2 DEF Orderly
<1>5. CASE ResyncRead(i)
  <2>1. /\ UNCHANGED <<status, cache>> /\ sync'[i].roles = db
        /\ sync[i].step = "reading"
        /\ \A j \in Instances \ {i} : sync'[j] = sync[j]
    BY <1>5 DEF ResyncRead, MInv, SafeInv, TypeOK, Syncs
  <2>2. \A n \in Names : Pending(n) \/ Latest(inbox[i], n, db[n], db[n])
    <3>1. status[i] # "down"
      BY <2>1 DEF MInv, SafeInv, OnlyServingResyncs
    <3>2. \A n \in Names : Pending(n) \/ Latest(inbox[i], n, Has(i, n), db[n])
      BY <3>1 DEF Orderly, HasInLine, InLine
    <3> QED BY <3>2, LatestBefore
  <2>3. ResyncInLine'
    BY <1>1, <1>2, <2>1, <2>2 DEF Orderly, ResyncInLine
  <2> QED BY <1>3, <2>1, <2>3 DEF Orderly
<1>6. CASE ResyncApply(i)
  <2>1. /\ sync[i].step = "read" /\ sync'[i].step = "off"
        /\ \A j \in Instances \ {i} : sync'[j] = sync[j]
    BY <1>6 DEF ResyncApply, NoSync, MInv, SafeInv, TypeOK
  <2>2. ResyncInLine'
    BY <1>1, <1>2, <2>1 DEF Orderly, ResyncInLine
  <2>3. CASE ResyncDropped(i)
    BY <1>3, <1>6, <2>2, <2>3 DEF ResyncApply, Orderly
  <2>4. CASE ~ResyncDropped(i)
    <3>1. status[i] = "serving" /\ ~sync[i].moved
      BY <2>1, <2>4 DEF MInv, SafeInv, OnlyServingResyncs, ResyncDropped, Orderly, BootsOnly
    <3>2. /\ cache'[i] = sync[i].roles /\ \A j \in Instances \ {i} : cache'[j] = cache[j]
          /\ \A j \in Instances : status'[j] = status[j]
      BY <1>6, <2>4, <3>1 DEF ResyncApply, MInv, SafeInv, TypeOK
    <3>3. OneAtATime'
      BY <1>1, <3>2 DEF Orderly, OneAtATime, MInv, SafeInv, TypeOK, Calls
    <3>4. EventsKeepNames' /\ BootsOnly' /\ SeedsMandatory'
      BY <1>1, <3>1, <3>2 DEF Orderly, EventsKeepNames, BootsOnly, SeedsMandatory
    <3>5. QuietUntilSeeded'
      BY <1>1, <3>1, <3>2 DEF Orderly, QuietUntilSeeded
    <3>6. HasInLine'
      <4> SUFFICES ASSUME NEW j \in Instances, status[j] # "down", NEW n \in Names
                   PROVE  InLine(j, n)'
        BY <3>2 DEF HasInLine
      <4>1. CASE j = i
        <5>1. Has(i, n)' = sync[i].roles[n]
          BY <3>1, <3>2 DEF Has
        <5>2. Pending(n) \/ Latest(inbox[i], n, sync[i].roles[n], db[n])
          BY <2>1, <3>1 DEF Orderly, ResyncInLine
        <5> QED BY <1>1, <1>2, <4>1, <5>1, <5>2 DEF InLine
      <4>2. CASE j # i
        <5>1. Has(j, n)' = Has(j, n)
          BY <1>1, <3>2, <4>2 DEF Has
        <5> QED BY <1>1, <1>2, <5>1 DEF Orderly, HasInLine, InLine
      <4> QED BY <4>1, <4>2
    <3> QED BY <2>2, <3>3, <3>4, <3>5, <3>6 DEF Orderly
  <2> QED BY <2>3, <2>4
<1> QED BY <1>4, <1>5, <1>6 DEF Resync

\* As long as all is orderly every cache that serves has the owner role, so
\* nobody writes it anew.
LEMMA NotRemadeStep ==
  ASSUME MInv, orderly => Orderly /\ ~remade, [Next]_vars, orderly'
  PROVE  ~remade'
<1>1. ASSUME NEW i \in Instances, NEW n \in Names, NEW v \in Values, upsertRole(i, n, v)
      PROVE  ~remade'
  <2>1. Orderly /\ ~remade /\ status[i] = "serving"
    BY <1>1 DEF upsertRole, Ask, Serving, Orderly, BootsOnly
  <2>2. cache[i][Owner] # Absent
    BY <2>1 DEF MInv, SafeInv, ServesMandatory, Kept, Mandatory, Present
  <2> QED BY <1>1, <2>1, <2>2 DEF upsertRole, Ask
<1>2. ASSUME NEW i \in Instances, NEW n \in Names, deleteRole(i, n) PROVE ~remade'
  BY <1>2 DEF deleteRole, Ask
<1>3. ASSUME NEW i \in Instances, NEW n \in Names, NEW to \in Names, renameRole(i, n, to)
      PROVE  ~remade'
  BY <1>3 DEF renameRole, Ask
<1>4. ASSUME UNCHANGED <<orderly, remade>> PROVE ~remade'
  BY <1>4
<1>5. ASSUME Incident PROVE ~remade'
  BY <1>5 DEF Incident
<1> QED
  BY <1>1, <1>2, <1>3, <1>4, <1>5
  DEF Next, Load, Resync, SeedRead, SeedRole, SeedReread, FinishInit, Subscribe, Reload,
     FinishReload, Refuse, Write, Acknowledge, Deliver, Lose, ResyncStart, ResyncRead,
     ResyncFails, ResyncApply, Crash, Wipe, vars

LEMMA OrderlyStep ==
  MInv /\ (orderly => Orderly /\ ~remade) /\ [Next]_vars => (orderly => Orderly /\ ~remade)'
<1> SUFFICES ASSUME MInv, orderly => Orderly /\ ~remade, [Next]_vars, orderly' PROVE Orderly'
  BY NotRemadeStep
<1>1. ASSUME NEW i \in Instances, Load(i) PROVE Orderly'
  <2>1. orderly' = orderly
    BY <1>1 DEF Load, SeedRead, SeedReread, FinishInit, FinishReload, SeedRole
  <2>2. Orderly
    BY <2>1
  <2>3. ~FinishReload(i)
    BY <2>2 DEF FinishReload, Serving, Orderly, BootsOnly
  <2> QED BY <1>1, <2>2, <2>3, SeedReadOrderly, SeedRereadOrderly, FinishInitOrderly,
       SeedRoleOrderly DEF Load
<1>2. ASSUME NEW i \in Instances, Subscribe(i) PROVE Orderly'
  BY <1>2, SubscribeOrderly DEF Subscribe
<1>3. ASSUME NEW i \in Instances, NEW n \in Names, NEW v \in Values, upsertRole(i, n, v)
      PROVE  Orderly'
  <2> DEFINE e == [name |-> n, prev |-> n, role |-> v]
  <2>1. e \in Events /\ e.prev = e.name /\ Ask(i, "save", e)
    BY <1>3 DEF upsertRole, Events
  <2>2. Orderly /\ calls = {}
    BY <2>1 DEF Ask
  <2> HIDE DEF e
  <2> QED BY <2>1, <2>2, AskOrderly
<1>4. ASSUME NEW i \in Instances, NEW n \in Names, NEW to \in Names, renameRole(i, n, to)
      PROVE  Orderly'
  BY <1>4 DEF renameRole, Ask
<1>5. ASSUME NEW i \in Instances, NEW n \in Names, deleteRole(i, n) PROVE Orderly'
  <2> DEFINE e == [name |-> n, prev |-> n, role |-> Absent]
  <2>1. e \in Events /\ e.prev = e.name /\ Ask(i, "delete", e)
    BY <1>5 DEF deleteRole, Events
  <2>2. Orderly /\ calls = {}
    BY <2>1 DEF Ask
  <2> HIDE DEF e
  <2> QED BY <2>1, <2>2, AskOrderly
<1>6. ASSUME NEW c \in calls, Refuse(c) \/ Write(c) \/ Acknowledge(c) PROVE Orderly'
  <2>1. Orderly /\ ~remade
    BY <1>6 DEF Refuse, Write, Acknowledge
  <2> QED BY <1>6, <2>1, RefuseOrderly, WriteOrderly, AcknowledgeOrderly
<1>7. ASSUME NEW i \in Instances, Deliver(i) PROVE Orderly'
  BY <1>7, DeliverOrderly DEF Deliver
<1>8. ASSUME NEW i \in Instances, Resync(i) PROVE Orderly'
  <2>1. orderly' = orderly
    BY <1>8 DEF Resync, ResyncStart, ResyncRead, ResyncFails, ResyncApply
  <2> QED BY <1>8, <2>1, ResyncOrderly
<1>9. ASSUME NEW i \in Instances,
             Reload(i) \/ Crash(i) \/ \E k \in DOMAIN inbox[i] : Lose(i, k)
      PROVE  FALSE
  BY <1>9 DEF Reload, Crash, Lose, Incident
<1>10. CASE Wipe
  BY <1>10 DEF Wipe, Incident
<1>11. CASE UNCHANGED vars
  <2>1. Orderly /\ UNCHANGED <<db, status, cache, load, deleted, inbox, sync, calls>>
    BY <1>11 DEF vars
  <2> QED BY <2>1 DEF Orderly, OneAtATime, EventsKeepNames, BootsOnly, SeedsMandatory,
       QuietUntilSeeded, HasInLine, ResyncInLine, InLine, Has, Pending, Present
<1> QED
  BY <1>1, <1>2, <1>3, <1>4, <1>5, <1>6, <1>7, <1>8, <1>9, <1>10, <1>11 DEF Next

(***************************************************************************)
(* As long as only changes have happened, one at a time and no renames, an *)
(* instance that has heard everything agrees with the database, wherever   *)
(* its boot and its resyncs fell - unless it boots on an empty database,   *)
(* where another instance may still be seeding when this one serves.       *)
(***************************************************************************)
THEOREM HeardAllInLineHolds ==
  ASSUME Stored # {}
  PROVE  Spec => []HeardAllInLine
<1>1. Init => (orderly => Orderly /\ ~remade)
  BY InitOrderly DEF Init
<1>2. MInv /\ (orderly => Orderly /\ ~remade) => HeardAllInLine
  <2> SUFFICES ASSUME MInv, Orderly, calls = {}, NEW i \in Instances,
                      status[i] = "serving", inbox[i] = <<>>
               PROVE  cache[i] = db
    BY DEF HeardAllInLine
  <2>1. \A n \in Names : Latest(<<>>, n, cache[i][n], db[n])
    BY DEF Orderly, HasInLine, InLine, Pending, Has
  <2>2. \A n \in Names : cache[i][n] = db[n]
    BY <2>1, LatestOfNothing
  <2> QED BY <2>2 DEF MInv, SafeInv, TypeOK, Roles
<1> QED BY <1>1, <1>2, InitMInv, NextMInv, OrderlyStep, PTL DEF Spec
=============================================================================
