--------------------- MODULE SubscriptionContextProofs ---------------------
(***************************************************************************)
(* For any number of subscriptions, caches and changes: a viewer that is   *)
(* taken for fresh covers everything the process has heard of, and what    *)
(* was heard of when an event went through has been read when the next one *)
(* of its subscription does.                                               *)
(***************************************************************************)
EXTENDS SubscriptionContext, TLAPS

USE SubscriptionAssumption

LEMMA ReadType ==
  ASSUME TypeOK, NEW opening \in BOOLEAN
  PROVE  Read(opening) \in Reads
BY DEF TypeOK, Read, Reads

LEMMA SpendType ==
  ASSUME NEW what \in Bounds, NEW bound, Spend(what, bound), spent \in [Bounds -> Nat]
  PROVE  spent' \in [Bounds -> Nat]
BY DEF Spend

(***************************************************************************)
(* Types hold in every behaviour (TypeOK): events wait only for a refresh  *)
(* that is under way, whichever way it ends.                               *)
(***************************************************************************)
LEMMA TypeInit == Init => TypeOK
<1> SUFFICES ASSUME Init PROVE TypeOK
    OBVIOUS
<1>1. [c \in Caches |-> 0] \in [Caches -> Nat]
    OBVIOUS
<1>2. viewer \in Revisions /\ loadedEpoch \in [user : Int, caches : [Caches -> Nat]]
    BY <1>1 DEF Init, Revisions
<1>3. \A s \in Streams : waiting[s] = None
    BY DEF Init
<1>4. spent \in [Bounds -> Nat] /\ passed \in [Streams -> Revisions]
    BY <1>1 DEF Init, Revisions
<1> QED BY <1>1, <1>2, <1>3, <1>4 DEF Init, TypeOK

LEMMA TypeStep == TypeOK /\ [Next]_vars => TypeOK'
<1> SUFFICES ASSUME TypeOK, [Next]_vars PROVE TypeOK'
    OBVIOUS
<1> USE DEF world, socket, events
<1>1. CASE publishPrincipalChanged
    BY <1>1 DEF publishPrincipalChanged, TypeOK
<1>2. ASSUME NEW c \in Caches, Version(c) PROVE TypeOK'
    BY <1>2 DEF Version, TypeOK
<1>3. ASSUME NEW v \in wire, listenForPrincipalChanges(v) PROVE TypeOK'
    BY <1>3 DEF listenForPrincipalChanges, TypeOK
<1>4. CASE OtherChanged
    BY <1>4, SpendType DEF OtherChanged, TypeOK, Bounds
<1>5. ASSUME NEW v \in wire, Lose(v) PROVE TypeOK'
    BY <1>5, SpendType DEF Lose, TypeOK, Bounds
<1>6. CASE decode
  <2>1. reading' \in Reads /\ reading'.opening = reading.opening
      BY <1>6 DEF decode, TypeOK, Reads
  <2>2. reading' # None
      BY <2>1 DEF Reads
  <2> QED BY <1>6, <2>1, <2>2 DEF decode, TypeOK
<1>7. CASE getSubscriptionContext
  <2>1. reading' \in Reads /\ reading'.opening = TRUE
      BY <1>7, ReadType DEF getSubscriptionContext, Read
  <2> QED BY <1>7, <2>1 DEF getSubscriptionContext, TypeOK
<1>8. ASSUME reading # None, reading.done PROVE Built \in Revisions
    BY <1>8 DEF Built, TypeOK, Reads, Revisions
<1>9. CASE Opened
  <2>1. loadedEpoch' \in [user : Int, caches : [Caches -> Nat]]
      BY <1>9 DEF Opened, TypeOK, Reads
  <2>2. ~open
      BY <1>9 DEF Opened, TypeOK
  <2>3. viewer' \in Revisions
      BY <1>8, <1>9 DEF Opened
  <2> QED BY <1>9, <2>1, <2>2, <2>3 DEF Opened, TypeOK
<1>10. CASE OpenFails
  <2>1. spent' \in [Bounds -> Nat]
      BY <1>10, SpendType DEF OpenFails, TypeOK, Bounds
  <2>2. ~open
      BY <1>10 DEF OpenFails, TypeOK
  <2> QED BY <1>10, <2>1, <2>2 DEF OpenFails, TypeOK
<1>11. ASSUME NEW s \in Streams, refresh(s) PROVE TypeOK'
  <2>1. Now \in Revisions
      BY DEF Now, TypeOK, Revisions
  <2>2. waiting' \in [Streams -> Revisions \cup {None}]
      BY <1>11, <2>1 DEF refresh, TypeOK
  <2>3. reading' \in Reads /\ reading'.opening = FALSE
    <3>1. CASE reading = None
        BY <1>11, <3>1, ReadType DEF refresh, Read
    <3>2. CASE reading # None
        BY <1>11, <3>2 DEF refresh, TypeOK
    <3> QED BY <3>1, <3>2
  <2>4. reading' # None
      BY <2>3 DEF Reads
  <2> QED BY <1>11, <2>2, <2>3, <2>4 DEF refresh, TypeOK
<1>12. ASSUME Released
       PROVE  /\ waiting' = [s \in Streams |-> None]
              /\ passed' \in [Streams -> Revisions]
    BY <1>12 DEF Released, Now, TypeOK, Revisions
<1>13. CASE Refreshed
  <2>1. loadedEpoch' \in [user : Int, caches : [Caches -> Nat]]
      BY <1>13 DEF Refreshed, TypeOK, Reads
  <2>2. viewer' \in Revisions
      BY <1>8, <1>13 DEF Refreshed
  <2> QED BY <1>12, <1>13, <2>1, <2>2 DEF Refreshed, TypeOK
<1>14. CASE RefreshFails
  <2>1. spent' \in [Bounds -> Nat]
      BY <1>14, SpendType DEF RefreshFails, TypeOK, Bounds
  <2> QED BY <1>12, <1>14, <2>1 DEF RefreshFails, TypeOK
<1>15. CASE Expire
    BY <1>15 DEF Expire, TypeOK
<1>16. CASE UNCHANGED vars
    BY <1>16 DEF vars, TypeOK
<1> QED
    BY <1>1, <1>2, <1>3, <1>4, <1>5, <1>6, <1>7, <1>9, <1>10, <1>11, <1>13, <1>14, <1>15, <1>16
    DEF Next, Change

THEOREM TypeCorrect == Spec => []TypeOK
BY TypeInit, TypeStep, PTL DEF Spec

-----------------------------------------------------------------------------
(***************************************************************************)
(* The counts taken before a read never run ahead, and as long as they are *)
(* still the counts, the read covers what is known.                        *)
(***************************************************************************)
Heard ==
  /\ known <= user
  /\ \A v \in wire : v <= user

ReadInTime ==
  reading # None =>
    /\ reading.heard <= epoch /\ reading.changes <= changes
    /\ \A c \in Caches : reading.epoch[c] <= caches[c]
    /\ reading.done /\ (reading.heard = epoch \/ reading.changes = changes) =>
         reading.user >= known

Loaded ==
  open =>
    /\ loadedEpoch.user <= epoch
    /\ loadedEpoch.user = epoch => viewer.user >= known
    /\ \A c \in Caches : loadedEpoch.caches[c] <= viewer.caches[c]

IInv == Heard /\ ReadInTime /\ Loaded

LEMMA IInvInit == Init => IInv
BY DEF Init, IInv, Heard, ReadInTime, Loaded

LEMMA HeardStep == TypeOK /\ Heard /\ [Next]_vars => Heard'
<1> SUFFICES ASSUME TypeOK, Heard, [Next]_vars PROVE Heard'
    OBVIOUS
<1> USE DEF Heard, TypeOK
<1>1. CASE publishPrincipalChanged
    BY <1>1 DEF publishPrincipalChanged
<1>2. ASSUME NEW v \in wire, listenForPrincipalChanges(v) \/ Lose(v) PROVE Heard'
    BY <1>2 DEF listenForPrincipalChanges, Lose
<1>3. CASE UNCHANGED <<user, wire, known>>
    BY <1>3
<1>4. ASSUME NEW c \in Caches, Version(c) PROVE Heard'
    BY <1>4 DEF Version
<1>5. ASSUME NEW s \in Streams, refresh(s) PROVE Heard'
    BY <1>5 DEF refresh, world
<1> QED
    BY <1>1, <1>2, <1>3, <1>4, <1>5
    DEF Next, Change, OtherChanged, decode, getSubscriptionContext, Opened, OpenFails,
        Refreshed, RefreshFails, Expire, vars, world

LEMMA ReadStep == TypeOK /\ Heard /\ ReadInTime /\ [Next]_vars => ReadInTime'
<1> SUFFICES ASSUME TypeOK, Heard, ReadInTime, [Next]_vars PROVE ReadInTime'
    OBVIOUS
<1>1. CASE publishPrincipalChanged
    BY <1>1 DEF publishPrincipalChanged, ReadInTime, socket
<1>2. ASSUME NEW c \in Caches, Version(c) PROVE ReadInTime'
    BY <1>2 DEF Version, ReadInTime, TypeOK, Reads, socket
<1>3. ASSUME NEW v \in wire, listenForPrincipalChanges(v) PROVE ReadInTime'
    BY <1>3 DEF listenForPrincipalChanges, ReadInTime, TypeOK, Reads, socket
<1>4. CASE OtherChanged
    BY <1>4 DEF OtherChanged, ReadInTime, TypeOK, Reads, socket
<1>5. ASSUME NEW v \in wire, Lose(v) PROVE ReadInTime'
    BY <1>5 DEF Lose, ReadInTime
<1>6. CASE decode
    BY <1>6 DEF decode, ReadInTime, Heard, TypeOK, Reads, world
<1>7. CASE getSubscriptionContext
    BY <1>7 DEF getSubscriptionContext, Read, ReadInTime, TypeOK, world
<1>8. ASSUME NEW s \in Streams, refresh(s) PROVE ReadInTime'
  <2>1. CASE reading = None
      BY <1>8, <2>1 DEF refresh, Read, ReadInTime, TypeOK, world
  <2>2. CASE reading # None
      BY <1>8, <2>2 DEF refresh, ReadInTime, world
  <2> QED BY <2>1, <2>2
<1>9. CASE reading' = None
    BY <1>9 DEF ReadInTime
<1>10. CASE UNCHANGED <<world, reading>>
    BY <1>10 DEF ReadInTime, world
<1> QED
    BY <1>1, <1>2, <1>3, <1>4, <1>5, <1>6, <1>7, <1>8, <1>9, <1>10
    DEF Next, Change, Opened, OpenFails, Refreshed, RefreshFails, Expire, vars

LEMMA LoadedStep == TypeOK /\ IInv /\ [Next]_vars => Loaded'
<1> SUFFICES ASSUME TypeOK, IInv, [Next]_vars PROVE Loaded'
    OBVIOUS
<1>1. CASE publishPrincipalChanged
    BY <1>1 DEF publishPrincipalChanged, IInv, Loaded, socket
<1>2. ASSUME NEW c \in Caches, Version(c) PROVE Loaded'
    BY <1>2 DEF Version, IInv, Loaded, socket
<1>3. ASSUME NEW v \in wire, listenForPrincipalChanges(v) PROVE Loaded'
    BY <1>3 DEF listenForPrincipalChanges, IInv, Loaded, TypeOK, socket
<1>4. CASE OtherChanged
    BY <1>4 DEF OtherChanged, IInv, Loaded, socket
<1>5. ASSUME NEW v \in wire, Lose(v) PROVE Loaded'
    BY <1>5 DEF Lose, IInv, Loaded, socket
<1>6. CASE Opened
  <2>1. reading.user \in Nat /\ reading.changes <= changes
      BY <1>6 DEF Opened, TypeOK, Reads, IInv, ReadInTime
  <2>2. loadedEpoch'.user <= epoch'
      BY <1>6 DEF Opened, TypeOK, world
  <2>3. loadedEpoch'.user = epoch' => viewer'.user >= known'
      BY <1>6, <2>1 DEF Opened, Built, IInv, ReadInTime, TypeOK, world
  <2>4. \A c \in Caches : loadedEpoch'.caches[c] <= viewer'.caches[c]
      BY <1>6 DEF Opened, Built, IInv, ReadInTime
  <2> QED BY <2>2, <2>3, <2>4 DEF Loaded
<1>7. CASE Refreshed
  <2>1. loadedEpoch'.user <= epoch'
      BY <1>7 DEF Refreshed, IInv, ReadInTime, world
  <2>2. loadedEpoch'.user = epoch' => viewer'.user >= known'
      BY <1>7 DEF Refreshed, Built, IInv, ReadInTime, world
  <2>3. \A c \in Caches : loadedEpoch'.caches[c] <= viewer'.caches[c]
      BY <1>7 DEF Refreshed, Built, IInv, ReadInTime
  <2> QED BY <2>1, <2>2, <2>3 DEF Loaded
<1>8. ASSUME NEW s \in Streams, refresh(s) PROVE Loaded'
    BY <1>8 DEF refresh, IInv, Loaded, world, socket
<1>9. CASE UNCHANGED <<world, open, viewer, loadedEpoch>>
    BY <1>9 DEF IInv, Loaded, world
<1> QED
    BY <1>1, <1>2, <1>3, <1>4, <1>5, <1>6, <1>7, <1>8, <1>9
    DEF Next, Change, decode, getSubscriptionContext, OpenFails, RefreshFails, Expire, vars,
        socket

(***************************************************************************)
(* No change the process has heard of is ever taken as seen by a viewer    *)
(* that was read before it (FreshIsCurrent).                               *)
(***************************************************************************)
LEMMA LoadedIsCurrent == TypeOK /\ IInv => FreshIsCurrent
<1> SUFFICES ASSUME TypeOK, IInv, open, ~moved PROVE Covers(viewer, Now)
    BY DEF FreshIsCurrent
<1>1. loadedEpoch.user = epoch /\ loadedEpoch.caches = caches
    BY DEF moved
<1>2. viewer.user >= known
    BY <1>1 DEF IInv, Loaded
<1>3. ASSUME NEW c \in Caches PROVE viewer.caches[c] >= caches[c]
  <2>1. loadedEpoch.caches[c] <= viewer.caches[c]
      BY <1>3 DEF IInv, Loaded
  <2>2. viewer.caches[c] \in Nat /\ caches[c] \in Nat
      BY <1>3 DEF TypeOK, Revisions
  <2> QED BY <1>1, <2>1, <2>2
<1> QED BY <1>2, <1>3 DEF Covers, Now

THEOREM FreshIsCurrentHolds == Spec => []FreshIsCurrent
<1>1. Init => TypeOK /\ IInv
    BY TypeInit, IInvInit
<1>2. TypeOK /\ IInv /\ [Next]_vars => (TypeOK /\ IInv)'
    BY TypeStep, HeardStep, ReadStep, LoadedStep DEF IInv
<1> QED BY <1>1, <1>2, LoadedIsCurrent, PTL DEF Spec

-----------------------------------------------------------------------------
(***************************************************************************)
(* A read is begun after the one before has ended, and those who waited    *)
(* for that one have gone on: what was known then is read by this one.     *)
(***************************************************************************)
PassedIsRead ==
  \A s \in Streams :
    /\ passed[s].user <= user
    /\ \A c \in Caches : passed[s].caches[c] <= caches[c]
    /\ reading # None /\ reading.done /\ ~reading.opening => reading.user >= passed[s].user

LEMMA PassedInit == Init => PassedIsRead
BY DEF Init, PassedIsRead

LEMMA PassedStep == TypeOK /\ Heard /\ PassedIsRead /\ [Next]_vars => PassedIsRead'
<1> SUFFICES ASSUME TypeOK, Heard, PassedIsRead, [Next]_vars, NEW s \in Streams
             PROVE  /\ passed'[s].user <= user'
                    /\ \A c \in Caches : passed'[s].caches[c] <= caches'[c]
                    /\ reading' # None /\ reading'.done /\ ~reading'.opening =>
                         reading'.user >= passed'[s].user
    BY DEF PassedIsRead
<1>1. passed[s].user \in Nat /\ \A c \in Caches : passed[s].caches[c] \in Nat
    BY DEF TypeOK, Revisions
<1>2. CASE publishPrincipalChanged
    BY <1>1, <1>2 DEF publishPrincipalChanged, PassedIsRead, TypeOK, events
<1>3. ASSUME NEW c \in Caches, Version(c)
      PROVE  /\ passed'[s].user <= user'
             /\ \A d \in Caches : passed'[s].caches[d] <= caches'[d]
             /\ reading' # None /\ reading'.done /\ ~reading'.opening =>
                  reading'.user >= passed'[s].user
    BY <1>1, <1>3 DEF Version, PassedIsRead, TypeOK, events
<1>4. CASE UNCHANGED <<user, caches, reading, passed>>
    BY <1>4 DEF PassedIsRead
<1>5. CASE decode
  <2>1. reading'.user = user /\ passed' = passed /\ user' = user /\ caches' = caches
      BY <1>5 DEF decode, TypeOK, Reads, events, world
  <2> QED BY <1>1, <2>1 DEF PassedIsRead, TypeOK
<1>6. CASE getSubscriptionContext
    BY <1>6 DEF getSubscriptionContext, PassedIsRead, Read, events, world
<1>7. ASSUME NEW t \in Streams, refresh(t)
      PROVE  /\ passed'[s].user <= user'
             /\ \A c \in Caches : passed'[s].caches[c] <= caches'[c]
             /\ reading' # None /\ reading'.done /\ ~reading'.opening =>
                  reading'.user >= passed'[s].user
  <2>1. reading'.done => reading' = reading /\ reading # None
      BY <1>7 DEF refresh, Read
  <2> QED BY <1>7, <2>1 DEF refresh, PassedIsRead, world
<1>8. CASE Opened \/ OpenFails
    BY <1>8 DEF Opened, OpenFails, PassedIsRead, events, world
<1>9. CASE Refreshed \/ RefreshFails
  <2>1. reading' = None /\ user' = user /\ caches' = caches
      BY <1>9 DEF Refreshed, RefreshFails, world
  <2>2. passed'[s] = Now \/ passed'[s] = passed[s]
      BY <1>9 DEF Refreshed, RefreshFails, Released
  <2>3. Now.user <= user /\ \A c \in Caches : Now.caches[c] <= caches[c]
      BY DEF Now, Heard, TypeOK
  <2> QED BY <2>1, <2>2, <2>3 DEF PassedIsRead
<1> QED
    BY <1>2, <1>3, <1>4, <1>5, <1>6, <1>7, <1>8, <1>9
    DEF Next, Change, listenForPrincipalChanges, OtherChanged, Lose, Expire, vars, world, events

(***************************************************************************)
(* However many subscriptions share the context, what was heard of when an *)
(* event went through has been read when the next one of the same          *)
(* subscription does, unless that read fails (LaterEventReads).            *)
(***************************************************************************)
THEOREM LaterEventReadsHolds == Spec => LaterEventReads
<1>1. Init => TypeOK /\ Heard /\ PassedIsRead
    BY TypeInit, IInvInit, PassedInit DEF IInv
<1>2. TypeOK /\ Heard /\ PassedIsRead /\ [Next]_vars => (TypeOK /\ Heard /\ PassedIsRead)'
    BY TypeStep, HeardStep, PassedStep
<1>3. TypeOK /\ Heard /\ PassedIsRead /\ [Next]_vars =>
        [\A s \in Streams :
           waiting[s] # None /\ waiting'[s] = None /\ spent' = spent =>
             Covers(viewer', passed[s])]_vars
  <2> SUFFICES ASSUME TypeOK, Heard, PassedIsRead, Next, NEW s \in Streams,
                      waiting[s] # None, waiting'[s] = None, spent' = spent
               PROVE  Covers(viewer', passed[s])
      OBVIOUS
  <2>1. ASSUME NEW what \in Bounds, NEW bound, Spend(what, bound) PROVE FALSE
      BY <2>1 DEF Spend, TypeOK
  <2>2. ~RefreshFails
      BY <2>1 DEF RefreshFails, Bounds
  <2>3. Refreshed
      BY <2>2 DEF Next, Change, publishPrincipalChanged, Version, listenForPrincipalChanges,
        OtherChanged, Lose, decode, getSubscriptionContext, Opened, OpenFails, refresh,
        Expire, TypeOK, events
  <2> QED BY <2>3 DEF Refreshed, Built, PassedIsRead, Covers
<1> QED BY <1>1, <1>2, <1>3, PTL DEF Spec, LaterEventReads
=============================================================================
