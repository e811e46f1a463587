----------------------------- MODULE CallProofs -----------------------------
(***************************************************************************)
(* Proofs about the video calls: about the sessions of a group's chat      *)
(* (CallSession), for any number of users, rooms and sessions, and at the  *)
(* end about the counts that are shown of the calls (CallCount), for any   *)
(* rooms and bounds.                                                       *)
(***************************************************************************)
EXTENDS CallSession, Sequences, TLAPS

(***************************************************************************)
(* Why one session at most is running.  Only the holder of the group's     *)
(* lock has a decision, so only the holder can open a session.  Its        *)
(* decision accounts for every session that is running - sessions may end  *)
(* behind its back, none can be opened - and so nothing but the session    *)
(* carried on, or the one just opened, is running once it is committed.    *)
(***************************************************************************)
HolderDecides == \A u \in Users : request[u].phase = "decided" => lock = u

RunningIsOpened == \A s \in Running : s <= opened

DecisionCoversRunning ==
  \A u \in Users : request[u].phase = "decided" =>
    Running \subseteq request[u].over \cup {request[u].carried}

IInv ==
  /\ TypeOK
  /\ HolderDecides
  /\ RunningIsOpened
  /\ DecisionCoversRunning
  /\ OneRunningSession

USE CallSessionAssumption

LEMMA IdleType == Idle \in Requests
  BY DEF Idle, Requests, NoRoom, NoSession

LEMMA NoPollType == NoPoll \in Polls
  BY DEF NoPoll, Polls

\* What becomes of a request when its transaction has decided, or is retried.
LEMMA RequestType ==
  ASSUME NEW r \in Requests, NEW c \in Sessions \cup {NoSession},
         NEW o \in SUBSET Sessions, NEW p \in {"idle", "asked", "decided"}
  PROVE  [r EXCEPT !.phase = p, !.carried = c, !.over = o] \in Requests
  BY DEF Requests

\* Ending sessions keeps the states of sessions what they are.
LEMMA EndedInType ==
  ASSUME NEW st \in [Sessions -> {"none", "running", "ended"}], NEW ended
  PROVE  EndedIn(st, ended) \in [Sessions -> {"none", "running", "ended"}]
  BY DEF EndedIn

\* The initial state satisfies the inductive invariant.
LEMMA InitIInv == Init => IInv
<1> SUFFICES ASSUME Init PROVE IInv
  OBVIOUS
<1>1. TypeOK
  <2>1. /\ liveSid \in Sids \cup {NoRoom} /\ lastSid \in 0..MaxSid
        /\ present \subseteq Users /\ members \subseteq Users
        /\ finished \subseteq Sids
        /\ opened \in 0..MaxSessions
    BY DEF Init
  <2>2. /\ together \in [Sids -> SUBSET SUBSET Users]
        /\ status \in [Sessions -> {"none", "running", "ended"}]
        /\ sidOf \in [Sessions -> Sids \cup {NoRoom}]
        /\ chatsIn \in [Sessions -> SUBSET Users]
        /\ everIn \in [Sessions -> SUBSET Users]
    BY DEF Init
  <2>3. /\ due \subseteq Sessions
        /\ lock \in Users \cup {NoUser}
        /\ restarts \in 0..MaxRestarts
    BY DEF Init
  <2>4. request \in [Users -> Requests]
    BY IdleType DEF Init
  <2>5. poll \in Polls /\ lastSeen \in BOOLEAN /\ told \in BOOLEAN
    BY NoPollType DEF Init
  <2> QED BY <2>1, <2>2, <2>3, <2>4, <2>5 DEF TypeOK
<1>2. Running = {}
  BY DEF Init, Running
<1>3. \A u \in Users : request[u].phase = "idle"
  BY DEF Init, Idle
<1> QED BY <1>1, <1>2, <1>3 DEF IInv, HolderDecides, RunningIsOpened,
     DecisionCoversRunning, OneRunningSession

(***************************************************************************)
(* Every step keeps the types.                                             *)
(***************************************************************************)
LEMMA TypeStep == TypeOK /\ [Next]_vars => TypeOK'
<1> SUFFICES ASSUME TypeOK, [Next]_vars PROVE TypeOK'
  OBVIOUS
<1> USE DEF TypeOK, media, sessions, poller
<1>1. ASSUME NEW u \in Users, Enter(u) PROVE TypeOK'
  BY <1>1 DEF Enter, Sids, NoRoom
<1>2. ASSUME NEW u \in Users, Exit(u) PROVE TypeOK'
  BY <1>2 DEF Exit
<1>3. CASE CloseRoom
  BY <1>3 DEF CloseRoom
<1>4. ASSUME NEW u \in Users, joinGroupVideoCallChat(u) PROVE TypeOK'
  BY <1>4, IdleType DEF joinGroupVideoCallChat, Requests
<1>5. ASSUME NEW u \in Users, LockAndRead(u) PROVE TypeOK'
  <2> PICK c \in Running \cup {NoSession} : Decide(u, c, Running \ {c})
    BY <1>5 DEF LockAndRead
  <2>1. request' \in [Users -> Requests]
    BY RequestType DEF Decide, Running
  <2> QED BY <2>1 DEF Decide
<1>6. ASSUME NEW u \in Users, CommitJoin(u) PROVE TypeOK'
  <2>1. request' \in [Users -> Requests] /\ lock' \in Users \cup {NoUser}
    BY <1>6, IdleType DEF CommitJoin
  <2>2. CASE request[u].carried # NoSession /\ CarryOn(u)
    <3>1. status' \in [Sessions -> {"none", "running", "ended"}]
      BY <2>2, EndedInType DEF CarryOn
    <3>2. /\ chatsIn' \in [Sessions -> SUBSET Users]
          /\ everIn' \in [Sessions -> SUBSET Users]
      BY <2>2 DEF CarryOn
    <3> QED BY <1>6, <2>1, <2>2, <3>1, <3>2 DEF CommitJoin, CarryOn
  <2>3. ASSUME NEW s \in Sessions, OpenSession(u, s) PROVE TypeOK'
    <3>1. request[u].sid \in Sids \cup {NoRoom}
      BY DEF Requests
    <3>2. status' \in [Sessions -> {"none", "running", "ended"}]
      BY <2>3, EndedInType DEF OpenSession
    <3>3. poll' \in Polls
      BY <2>3 DEF OpenSession, Polls
    <3>4. /\ opened' \in 0..MaxSessions
          /\ sidOf' \in [Sessions -> Sids \cup {NoRoom}]
          /\ chatsIn' \in [Sessions -> SUBSET Users]
          /\ everIn' \in [Sessions -> SUBSET Users]
      BY <2>3, <3>1 DEF OpenSession, Sessions
    <3> QED BY <1>6, <2>1, <2>3, <3>2, <3>3, <3>4 DEF CommitJoin, OpenSession
  <2> QED BY <1>6, <2>2, <2>3 DEF CommitJoin
<1>7. ASSUME NEW u \in Users, JoinFails(u) PROVE TypeOK'
  <2>1. request' \in [Users -> Requests]
    <3>1. [request[u] EXCEPT !.phase = "asked", !.carried = NoSession,
             !.over = {}] \in Requests
      BY RequestType
    <3> QED BY <1>7, <3>1, IdleType DEF JoinFails
  <2> QED BY <1>7, <2>1 DEF JoinFails
<1>8. ASSUME NEW u \in Users, LeaveGroup(u) PROVE TypeOK'
  BY <1>8 DEF LeaveGroup
<1>9. ASSUME NEW u \in Users, JoinGroup(u) PROVE TypeOK'
  BY <1>9 DEF JoinGroup
<1>10. ASSUME NEW x \in Sids, handleWebhook(x) PROVE TypeOK'
  <2>1. /\ status' \in [Sessions -> {"none", "running", "ended"}]
        /\ UNCHANGED <<opened, sidOf, due, chatsIn, everIn>>
    BY <1>10, EndedInType DEF handleWebhook, End
  <2>2. told' \in BOOLEAN
    BY <1>10 DEF handleWebhook
  <2> QED BY <1>10, <2>1, <2>2 DEF handleWebhook
<1>11. ASSUME NEW x \in Sids, WebhookLost(x) PROVE TypeOK'
  BY <1>11 DEF WebhookLost
<1>12. CASE PollList
  BY <1>12 DEF PollList, Polls
<1>13. CASE PollFails
  BY <1>13, NoPollType DEF PollFails, Polls
<1>14. CASE PollSeesRoom
  BY <1>14, NoPollType DEF PollSeesRoom
<1>15. CASE PollMissesRoom
  <2>1. /\ status' \in [Sessions -> {"none", "running", "ended"}]
        /\ UNCHANGED <<opened, sidOf, due, chatsIn, everIn>>
    BY <1>15, EndedInType DEF PollMissesRoom, End
  <2>2. lastSeen' \in BOOLEAN
    BY <1>15 DEF PollMissesRoom
  <2> QED BY <1>15, <2>1, <2>2, NoPollType DEF PollMissesRoom
<1>16. CASE PollCannotEnd
  BY <1>16, NoPollType DEF PollCannotEnd
<1>17. ASSUME NEW s \in Sessions, Age(s) PROVE TypeOK'
  BY <1>17 DEF Age
<1>18. CASE Restart
  <2>1. request' \in [Users -> Requests] /\ poll' \in Polls
    BY <1>18, NoPollType, IdleType DEF Restart
  <2>2. restarts' \in 0..MaxRestarts
    BY <1>18 DEF Restart
  <2> QED BY <1>18, <2>1, <2>2 DEF Restart
<1>19. CASE UNCHANGED vars
  BY <1>19 DEF vars
<1> QED
  BY <1>1, <1>2, <1>3, <1>4, <1>5, <1>6, <1>7, <1>8, <1>9, <1>10, <1>11,
     <1>12, <1>13, <1>14, <1>15, <1>16, <1>17, <1>18, <1>19 DEF Next

(***************************************************************************)
(* Every step keeps the rest of the inductive invariant.  Sessions change  *)
(* hands in three ways only: they end, one is opened by the holder of the  *)
(* lock, or nothing happens to them.                                       *)
(***************************************************************************)
Rest == HolderDecides /\ RunningIsOpened /\ DecisionCoversRunning /\ OneRunningSession

LEMMA RestWhenSessionsOnlyEnd ==
  ASSUME IInv, Running' \subseteq Running, opened' = opened, lock' = lock,
         request' = request
  PROVE  Rest'
  BY DEF IInv, Rest, HolderDecides, RunningIsOpened, DecisionCoversRunning,
     OneRunningSession

LEMMA EndOnlyEnds ==
  ASSUME NEW e, End(e)
  PROVE  Running' \subseteq Running /\ opened' = opened
  BY DEF End, EndedIn, Running

LEMMA RestStep == IInv /\ [Next]_vars => Rest'
<1> SUFFICES ASSUME IInv, [Next]_vars PROVE Rest'
  OBVIOUS
<1> USE DEF media, sessions, poller
<1>1. ASSUME UNCHANGED <<sessions, lock, request>> PROVE Rest'
  BY <1>1, RestWhenSessionsOnlyEnd DEF Running
<1>2. ASSUME NEW u \in Users, joinGroupVideoCallChat(u) PROVE Rest'
  <2>1. Running' = Running /\ opened' = opened /\ lock' = lock
    BY <1>2 DEF joinGroupVideoCallChat, Running
  <2>2. \A v \in Users : request'[v].phase = "decided" =>
          request'[v] = request[v] /\ request[v].phase = "decided"
    BY <1>2 DEF joinGroupVideoCallChat, IInv, TypeOK, Idle
  <2> QED BY <2>1, <2>2 DEF IInv, Rest, HolderDecides, RunningIsOpened,
       DecisionCoversRunning, OneRunningSession
<1>3. ASSUME NEW u \in Users, LockAndRead(u) PROVE Rest'
  <2> PICK c \in Running \cup {NoSession} : Decide(u, c, Running \ {c})
    BY <1>3 DEF LockAndRead
  <2>1. Running' = Running /\ opened' = opened /\ lock' = u
    BY DEF Decide, Running
  <2>2. \A v \in Users \ {u} : request'[v] = request[v]
    BY DEF Decide, IInv, TypeOK
  <2>3. \A v \in Users \ {u} : request'[v].phase # "decided"
    BY <1>3, <2>2 DEF LockAndRead, IInv, HolderDecides
  <2>4. request'[u].over = Running \ {c} /\ request'[u].carried = c
    BY DEF Decide, IInv, TypeOK, Requests
  <2> QED BY <2>1, <2>3, <2>4 DEF IInv, Rest, HolderDecides, RunningIsOpened,
       DecisionCoversRunning, OneRunningSession
<1>4. ASSUME NEW u \in Users, CommitJoin(u) PROVE Rest'
  <2>1. \A v \in Users : request'[v].phase # "decided"
    BY <1>4 DEF CommitJoin, IInv, TypeOK, HolderDecides, Idle
  <2>2. Running \ request[u].over \subseteq {request[u].carried}
    BY <1>4 DEF CommitJoin, IInv, DecisionCoversRunning
  <2>3. CASE request[u].carried # NoSession /\ CarryOn(u)
    <3>1. Running' \subseteq Running \ request[u].over /\ opened' = opened
      BY <2>3 DEF CarryOn, EndedIn, Running
    <3> QED BY <2>1, <2>2, <3>1 DEF IInv, Rest, HolderDecides, RunningIsOpened,
         DecisionCoversRunning, OneRunningSession
  <2>4. ASSUME request[u].carried = NoSession, NEW s \in Sessions, OpenSession(u, s)
        PROVE  Rest'
    <3>1. Running \ request[u].over = {}
      BY <2>2, <2>4 DEF Running, Sessions, NoSession
    <3>2. Running' \subseteq {s} /\ opened' = s
      BY <2>4, <3>1 DEF OpenSession, EndedIn, Running
    <3> QED BY <2>1, <3>2 DEF Rest, HolderDecides, RunningIsOpened,
         DecisionCoversRunning, OneRunningSession, Sessions
  <2> QED BY <1>4, <2>3, <2>4 DEF CommitJoin
<1>5. ASSUME NEW u \in Users, JoinFails(u) PROVE Rest'
  <2>1. Running' = Running /\ opened' = opened
    BY <1>5 DEF JoinFails, Running
  <2>2. request'[u].phase # "decided" /\ \A v \in Users \ {u} : request'[v] = request[v]
    <3>1. request \in [Users -> Requests]
      BY DEF IInv, TypeOK
    <3>2. [request[u] EXCEPT !.phase = "asked", !.carried = NoSession,
             !.over = {}].phase = "asked"
      BY <3>1 DEF Requests
    <3>3. Idle.phase = "idle"
      BY DEF Idle
    <3>4. CASE request' = [request EXCEPT ![u] = Idle]
      BY <3>1, <3>3, <3>4
    <3>5. CASE request' = [request EXCEPT ![u] = [@ EXCEPT !.phase = "asked",
                             !.carried = NoSession, !.over = {}]]
      BY <3>1, <3>2, <3>5
    <3> QED BY <1>5, <3>4, <3>5 DEF JoinFails
  <2>3. \A v \in Users \ {u} : lock = v => lock' = v
    BY <1>5 DEF JoinFails
  <2> QED BY <2>1, <2>2, <2>3 DEF IInv, Rest, HolderDecides, RunningIsOpened,
       DecisionCoversRunning, OneRunningSession
<1>6. ASSUME NEW u \in Users, LeaveGroup(u) PROVE Rest'
  BY <1>6, RestWhenSessionsOnlyEnd DEF LeaveGroup, Running
<1>7. ASSUME NEW x \in Sids, handleWebhook(x) PROVE Rest'
  <2>1. \/ \E e : End(e)
        \/ UNCHANGED sessions
    BY <1>7 DEF handleWebhook
  <2> QED BY <1>7, <2>1, EndOnlyEnds, RestWhenSessionsOnlyEnd
       DEF handleWebhook, Running
<1>8. CASE PollMissesRoom
  <2>1. \/ \E e : End(e)
        \/ UNCHANGED sessions
    BY <1>8 DEF PollMissesRoom
  <2> QED BY <1>8, <2>1, EndOnlyEnds, RestWhenSessionsOnlyEnd
       DEF PollMissesRoom, Running
<1>9. ASSUME NEW s \in Sessions, Age(s) PROVE Rest'
  BY <1>9, RestWhenSessionsOnlyEnd DEF Age, Running
<1>10. CASE Restart
  <2>1. \A v \in Users : request'[v].phase # "decided"
    BY <1>10 DEF Restart, Idle
  <2> QED BY <1>10, <2>1 DEF Restart, IInv, Rest, HolderDecides,
       RunningIsOpened, DecisionCoversRunning, OneRunningSession, Running
<1>11. ASSUME NEW u \in Users, Enter(u) \/ Exit(u) \/ JoinGroup(u) PROVE Rest'
  BY <1>1, <1>11 DEF Enter, Exit, JoinGroup
<1>12. ASSUME NEW x \in Sids, WebhookLost(x) PROVE Rest'
  BY <1>1, <1>12 DEF WebhookLost
<1>13. CASE CloseRoom \/ PollList \/ PollFails \/ PollSeesRoom \/ PollCannotEnd
  BY <1>1, <1>13 DEF CloseRoom, PollList, PollFails, PollSeesRoom, PollCannotEnd
<1>14. CASE UNCHANGED vars
  BY <1>1, <1>14 DEF vars
<1> QED
  BY <1>2, <1>3, <1>4, <1>5, <1>6, <1>7, <1>8, <1>9, <1>10, <1>11, <1>12,
     <1>13, <1>14 DEF Next

\* IInv is an inductive invariant of the specification.
LEMMA IInvInvariant == Spec => []IInv
<1>1. IInv /\ [Next]_vars => IInv'
  BY TypeStep, RestStep DEF IInv, Rest
<1> QED BY <1>1, InitIInv, PTL DEF Spec

(***************************************************************************)
(* The variables keep their types, whatever the bounds.                    *)
(***************************************************************************)
THEOREM TypeCorrect == Spec => []TypeOK
  BY IInvInvariant, PTL DEF IInv

(***************************************************************************)
(* At most one session of the group is running, for any number of people   *)
(* asking for its chat at once, however their transactions fall between    *)
(* the reports, the polls and the restarts (joinCallSession).              *)
(***************************************************************************)
THEOREM OneRunningSessionHolds == Spec => []OneRunningSession
  BY IInvInvariant, PTL DEF IInv

-----------------------------------------------------------------------------
(***************************************************************************)
(* Why the sessions are the calls of GroupCall.  The holder of the lock    *)
(* that opens a session ends every other one, so that only the newest ever *)
(* runs; and a holder that carries one on has nothing to end, because      *)
(* nothing but that one was running when it decided.                       *)
(***************************************************************************)
OnlyNewestRuns == Running \subseteq {opened}

CarriedIsKnown ==
  \A u \in Users : request[u].phase = "decided" =>
    /\ request[u].carried <= opened
    /\ request[u].carried # NoSession => Running \cap request[u].over = {}

Carrying == OnlyNewestRuns /\ CarriedIsKnown

LEMMA InitCarrying == Init => Carrying
<1> SUFFICES ASSUME Init PROVE Carrying
  OBVIOUS
<1>1. Running = {}
  BY DEF Init, Running
<1>2. \A u \in Users : request[u].phase = "idle"
  BY DEF Init, Idle
<1> QED BY <1>1, <1>2 DEF Carrying, OnlyNewestRuns, CarriedIsKnown

LEMMA CarryingWhenSessionsOnlyEnd ==
  ASSUME Carrying, Running' \subseteq Running, opened' = opened,
         \A v \in Users : request'[v].phase = "decided" => request'[v] = request[v]
  PROVE  Carrying'
  BY DEF Carrying, OnlyNewestRuns, CarriedIsKnown

LEMMA CarryingStep == IInv /\ Carrying /\ [Next]_vars => Carrying'
<1> SUFFICES ASSUME IInv, Carrying, [Next]_vars PROVE Carrying'
  OBVIOUS
<1> USE DEF media, sessions, poller
<1>1. ASSUME UNCHANGED <<sessions, request>> PROVE Carrying'
  BY <1>1, CarryingWhenSessionsOnlyEnd DEF Running
<1>2. ASSUME NEW u \in Users, joinGroupVideoCallChat(u) PROVE Carrying'
  <2>1. Running' = Running /\ opened' = opened
    BY <1>2 DEF joinGroupVideoCallChat, Running
  <2>2. \A v \in Users : request'[v].phase = "decided" => request'[v] = request[v]
    BY <1>2 DEF joinGroupVideoCallChat, IInv, TypeOK, Idle
  <2> QED BY <2>1, <2>2, CarryingWhenSessionsOnlyEnd
<1>3. ASSUME NEW u \in Users, LockAndRead(u) PROVE Carrying'
  <2> PICK c \in Running \cup {NoSession} : Decide(u, c, Running \ {c})
    BY <1>3 DEF LockAndRead
  <2>1. Running' = Running /\ opened' = opened
    BY DEF Decide, Running
  <2>2. \A v \in Users \ {u} : request'[v] = request[v]
    BY DEF Decide, IInv, TypeOK
  <2>3. request'[u].over = Running \ {c} /\ request'[u].carried = c
    BY DEF Decide, IInv, TypeOK, Requests
  <2>4. c <= opened
    BY DEF Carrying, OnlyNewestRuns, IInv, TypeOK, NoSession
  <2>5. c # NoSession => Running \cap (Running \ {c}) = {}
    BY DEF Carrying, OnlyNewestRuns
  <2> QED BY <2>1, <2>2, <2>3, <2>4, <2>5
       DEF Carrying, OnlyNewestRuns, CarriedIsKnown
<1>4. ASSUME NEW u \in Users, CommitJoin(u) PROVE Carrying'
  <2>1. \A v \in Users : request'[v].phase # "decided"
    BY <1>4 DEF CommitJoin, IInv, TypeOK, HolderDecides, Idle
  <2>2. CASE request[u].carried # NoSession /\ CarryOn(u)
    <3>1. Running' \subseteq Running /\ opened' = opened
      BY <2>2 DEF CarryOn, EndedIn, Running
    <3> QED BY <2>1, <3>1 DEF Carrying, OnlyNewestRuns, CarriedIsKnown
  <2>3. ASSUME request[u].carried = NoSession, NEW s \in Sessions, OpenSession(u, s)
        PROVE  Carrying'
    <3>1. Running \subseteq request[u].over
      BY <1>4, <2>3 DEF CommitJoin, IInv, DecisionCoversRunning, Running,
         Sessions, NoSession
    <3>2. Running' \subseteq {s} /\ opened' = s
      BY <2>3, <3>1 DEF OpenSession, EndedIn, Running
    <3> QED BY <2>1, <3>2 DEF Carrying, OnlyNewestRuns, CarriedIsKnown
  <2> QED BY <1>4, <2>2, <2>3 DEF CommitJoin
<1>5. ASSUME NEW u \in Users, JoinFails(u) PROVE Carrying'
  <2>1. Running' = Running /\ opened' = opened
    BY <1>5 DEF JoinFails, Running
  <2>2. \A v \in Users : request'[v].phase = "decided" => request'[v] = request[v]
    <3>1. request \in [Users -> Requests]
      BY DEF IInv, TypeOK
    <3>2. [request[u] EXCEPT !.phase = "asked", !.carried = NoSession,
             !.over = {}].phase = "asked"
      BY <3>1 DEF Requests
    <3>3. Idle.phase = "idle"
      BY DEF Idle
    <3>4. CASE request' = [request EXCEPT ![u] = Idle]
      BY <3>1, <3>3, <3>4
    <3>5. CASE request' = [request EXCEPT ![u] = [@ EXCEPT !.phase = "asked",
                             !.carried = NoSession, !.over = {}]]
      BY <3>1, <3>2, <3>5
    <3> QED BY <1>5, <3>4, <3>5 DEF JoinFails
  <2> QED BY <2>1, <2>2, CarryingWhenSessionsOnlyEnd
<1>6. ASSUME NEW u \in Users, LeaveGroup(u) PROVE Carrying'
  BY <1>6, CarryingWhenSessionsOnlyEnd DEF LeaveGroup, Running
<1>7. ASSUME NEW x \in Sids, handleWebhook(x) PROVE Carrying'
  <2>1. \/ \E e : End(e)
        \/ UNCHANGED sessions
    BY <1>7 DEF handleWebhook
  <2> QED BY <1>7, <2>1, EndOnlyEnds, CarryingWhenSessionsOnlyEnd
       DEF handleWebhook, Running
<1>8. CASE PollMissesRoom
  <2>1. \/ \E e : End(e)
        \/ UNCHANGED sessions
    BY <1>8 DEF PollMissesRoom
  <2> QED BY <1>8, <2>1, EndOnlyEnds, CarryingWhenSessionsOnlyEnd
       DEF PollMissesRoom, Running
<1>9. ASSUME NEW s \in Sessions, Age(s) PROVE Carrying'
  BY <1>9, CarryingWhenSessionsOnlyEnd DEF Age, Running
<1>10. CASE Restart
  <2>1. \A v \in Users : request'[v].phase # "decided"
    BY <1>10 DEF Restart, Idle
  <2>2. Running' = Running /\ opened' = opened
    BY <1>10 DEF Restart, Running
  <2> QED BY <2>1, <2>2 DEF Carrying, OnlyNewestRuns, CarriedIsKnown
<1>11. ASSUME NEW u \in Users, Enter(u) \/ Exit(u) \/ JoinGroup(u) PROVE Carrying'
  BY <1>1, <1>11 DEF Enter, Exit, JoinGroup
<1>12. ASSUME NEW x \in Sids, WebhookLost(x) PROVE Carrying'
  BY <1>1, <1>12 DEF WebhookLost
<1>13. CASE CloseRoom \/ PollList \/ PollFails \/ PollSeesRoom \/ PollCannotEnd
  BY <1>1, <1>13 DEF CloseRoom, PollList, PollFails, PollSeesRoom, PollCannotEnd
<1>14. CASE UNCHANGED vars
  BY <1>1, <1>14 DEF vars
<1> QED
  BY <1>2, <1>3, <1>4, <1>5, <1>6, <1>7, <1>8, <1>9, <1>10, <1>11, <1>12,
     <1>13, <1>14 DEF Next

LEMMA CarryingInvariant == Spec => []Carrying
<1>1. IInv /\ Carrying /\ [Next]_vars => Carrying'
  BY CarryingStep
<1> QED BY <1>1, InitCarrying, IInvInvariant, PTL DEF Spec

(***************************************************************************)
(* Every step of the sessions is a step of GroupCall, or changes nothing   *)
(* it can see.                                                             *)
(***************************************************************************)
LEMMA InitAbstract == Init => Abstract!Init
  BY DEF Init, Abstract!Init, Running

LEMMA EndIsAbstract ==
  ASSUME Carrying, NEW e, End(e)
  PROVE  Abstract!End \/ UNCHANGED <<opened, Running, chatsIn>>
  BY DEF End, EndedIn, Running, Carrying, OnlyNewestRuns, Abstract!End

LEMMA AbstractStep ==
  IInv /\ Carrying /\ [Next]_vars => [Abstract!Next]_(Abstract!calls)
<1> SUFFICES ASSUME IInv, Carrying, [Next]_vars
             PROVE  Abstract!Next \/ UNCHANGED <<opened, Running, chatsIn>>
  BY DEF Abstract!calls
<1> USE DEF media, sessions, poller
<1>1. ASSUME UNCHANGED sessions PROVE UNCHANGED <<opened, Running, chatsIn>>
  BY <1>1 DEF Running
<1>2. ASSUME NEW u \in Users, CommitJoin(u)
      PROVE  Abstract!Next
  <2>1. CASE request[u].carried # NoSession /\ CarryOn(u)
    <3>1. request[u].carried \in Sessions /\ request[u].carried <= opened
      BY <1>2, <2>1 DEF CommitJoin, Carrying, CarriedIsKnown, IInv, TypeOK, Requests
    <3>2. Running' = Running
      BY <1>2, <2>1 DEF CommitJoin, Carrying, CarriedIsKnown, CarryOn, EndedIn, Running
    <3>3. Abstract!Enter(u, request[u].carried)
      BY <2>1, <3>1, <3>2 DEF Abstract!Enter, CarryOn
    <3> QED BY <3>1, <3>3 DEF Abstract!Next
  <2>2. ASSUME request[u].carried = NoSession, NEW s \in Sessions, OpenSession(u, s)
        PROVE  Abstract!Next
    <3>1. Running \subseteq request[u].over
      BY <1>2, <2>2 DEF CommitJoin, IInv, DecisionCoversRunning, Running,
         Sessions, NoSession
    <3>2. Running' = {s}
      BY <2>2, <3>1 DEF OpenSession, EndedIn, Running, IInv, TypeOK
    <3>3. Abstract!Open(u, s)
      BY <2>2, <3>2 DEF Abstract!Open, OpenSession
    <3> QED BY <3>3 DEF Abstract!Next
  <2> QED BY <1>2, <2>1, <2>2 DEF CommitJoin
<1>3. ASSUME NEW u \in Users, LeaveGroup(u) PROVE Abstract!Next
  <2>1. Abstract!Leave(u)
    BY <1>3 DEF LeaveGroup, Abstract!Leave, Running
  <2> QED BY <2>1 DEF Abstract!Next
<1>4. ASSUME NEW x \in Sids, handleWebhook(x)
      PROVE  Abstract!Next \/ UNCHANGED <<opened, Running, chatsIn>>
  <2>1. \/ \E e : End(e)
        \/ UNCHANGED sessions
    BY <1>4 DEF handleWebhook
  <2> QED BY <1>1, <2>1, EndIsAbstract DEF Abstract!Next
<1>5. ASSUME PollMissesRoom
      PROVE  Abstract!Next \/ UNCHANGED <<opened, Running, chatsIn>>
  <2>1. \/ \E e : End(e)
        \/ UNCHANGED sessions
    BY <1>5 DEF PollMissesRoom
  <2> QED BY <1>1, <2>1, EndIsAbstract DEF Abstract!Next
<1>6. ASSUME NEW s \in Sessions, Age(s) PROVE UNCHANGED <<opened, Running, chatsIn>>
  BY <1>6 DEF Age, Running
<1>7. ASSUME NEW u \in Users,
             \/ Enter(u) \/ Exit(u) \/ JoinGroup(u)
             \/ joinGroupVideoCallChat(u) \/ LockAndRead(u) \/ JoinFails(u)
      PROVE  UNCHANGED sessions
  BY <1>7 DEF Enter, Exit, JoinGroup, joinGroupVideoCallChat, LockAndRead,
     Decide, JoinFails
<1>8. ASSUME NEW x \in Sids, WebhookLost(x) PROVE UNCHANGED sessions
  BY <1>8 DEF WebhookLost
<1>9. ASSUME \/ CloseRoom \/ PollList \/ PollFails \/ PollSeesRoom
             \/ PollCannotEnd \/ Restart
      PROVE  UNCHANGED sessions
  BY <1>9 DEF CloseRoom, PollList, PollFails, PollSeesRoom, PollCannotEnd, Restart
<1>10. ASSUME UNCHANGED vars PROVE UNCHANGED sessions
  BY <1>10 DEF vars
<1> QED
  BY <1>1, <1>2, <1>3, <1>4, <1>5, <1>6, <1>7, <1>8, <1>9, <1>10 DEF Next

(***************************************************************************)
(* The sessions of the database are the calls of GroupCall, for any number *)
(* of people, rooms, sessions and restarts: only the newest is ever        *)
(* running, and one that has ended never runs again.                       *)
(***************************************************************************)
THEOREM GroupCallImplemented == Spec => ImplementsGroupCall
<1>1. IInv /\ Carrying /\ [Next]_vars => [Abstract!Next]_(Abstract!calls)
  BY AbstractStep
<1> QED BY <1>1, InitAbstract, IInvInvariant, CarryingInvariant, PTL
     DEF Spec, ImplementsGroupCall, Abstract!Spec

-----------------------------------------------------------------------------
(***************************************************************************)
(* Why the chat is only for those in the call.  Whoever is in the room has *)
(* been there with everybody else in it.  A request keeps what it learned  *)
(* of the room, so its user has been in that room with all it was told of; *)
(* and the session it carries on is of that room and has had one of them.  *)
(***************************************************************************)
Meeting ==
  /\ liveSid = NoRoom => present = {}
  /\ \A u, v \in present : {u, v} \in together[liveSid]

Met ==
  \A u \in Users : request[u].phase # "idle" =>
    /\ request[u].sid \in Sids
    /\ u \in request[u].there
    /\ \A v \in request[u].there : {u, v} \in together[request[u].sid]

Admitted ==
  \A u \in Users : request[u].phase = "decided" /\ request[u].carried # NoSession =>
    /\ sidOf[request[u].carried] = request[u].sid
    /\ everIn[request[u].carried] \cap request[u].there # {}

ChatsAreHad == \A s \in Sessions : chatsIn[s] \subseteq everIn[s]

InCall == Meeting /\ Met /\ Admitted /\ ChatsAreHad /\ ChatOnlyForThoseInTheCall

LEMMA InitInCall == Init => InCall
  BY DEF Init, InCall, Meeting, Met, Admitted, ChatsAreHad, ChatOnlyForThoseInTheCall, Idle

\* Steps that open no session and no chat, and leave no new request behind.
LEMMA InCallWhenNothingOpens ==
  ASSUME InCall, UNCHANGED <<media, sidOf, everIn>>,
         \A s \in Sessions : chatsIn'[s] \subseteq chatsIn[s],
         \A v \in Users : \/ request'[v].phase = "idle"
                          \/ request'[v] = request[v]
                          \/ /\ request'[v].phase = "asked" /\ request[v].phase # "idle"
                             /\ request'[v].sid = request[v].sid
                             /\ request'[v].there = request[v].there
  PROVE  InCall'
<1>1. Meeting' /\ ChatOnlyForThoseInTheCall' /\ ChatsAreHad'
  BY DEF InCall, Meeting, ChatOnlyForThoseInTheCall, ChatsAreHad, media
<1>2. Met'
  BY DEF InCall, Met, media
<1>3. Admitted'
  BY DEF InCall, Admitted
<1> QED BY <1>1, <1>2, <1>3 DEF InCall

LEMMA InCallStep == IInv /\ InCall /\ [Next]_vars => InCall'
<1> SUFFICES ASSUME IInv, InCall, [Next]_vars PROVE InCall'
  OBVIOUS
<1>0. TypeOK
  BY DEF IInv
<1>1. ASSUME UNCHANGED <<media, sessions, request>> PROVE InCall'
  BY <1>1, InCallWhenNothingOpens DEF sessions
<1>2. ASSUME NEW u \in Users, Enter(u) PROVE InCall'
  <2>1. liveSid' \in Sids /\ (liveSid # NoRoom => liveSid' = liveSid)
    BY <1>0, <1>2 DEF Enter, TypeOK, Sids, NoRoom
  <2>2. together' = [together EXCEPT ![liveSid'] = @ \cup {{u, v} : v \in present'}]
    BY <1>2 DEF Enter
  <2>3. \A x \in Sids : together[x] \subseteq together'[x]
    BY <1>0, <2>1, <2>2 DEF TypeOK
  <2>4. \A v \in present' : {u, v} \in together'[liveSid']
    BY <1>0, <2>1, <2>2 DEF TypeOK
  <2>5. present' = present \cup {u}
    BY <1>2 DEF Enter
  <2>6. \A v, w \in present : {v, w} \in together'[liveSid']
    BY <2>1, <2>3 DEF InCall, Meeting
  <2>7. \A v \in present : {v, u} = {u, v}
    OBVIOUS
  <2>8. Meeting'
    BY <2>1, <2>4, <2>5, <2>6, <2>7 DEF Meeting, Sids, NoRoom
  <2>9. UNCHANGED <<sessions, request>>
    BY <1>2 DEF Enter
  <2>10. Met'
    BY <2>3, <2>9 DEF InCall, Met
  <2>11. Admitted' /\ ChatsAreHad'
    BY <2>9 DEF InCall, Admitted, ChatsAreHad, sessions
  <2>12. ChatOnlyForThoseInTheCall'
    <3> SUFFICES ASSUME NEW s \in Sessions, NEW v \in everIn[s]
                 PROVE  /\ {v} \in together'[sidOf[s]]
                        /\ \/ everIn[s] = {v}
                           \/ \E w \in everIn[s] \ {v} : {v, w} \in together'[sidOf[s]]
      BY <2>9 DEF ChatOnlyForThoseInTheCall, sessions
    <3>1. /\ {v} \in together[sidOf[s]]
          /\ \/ everIn[s] = {v}
             \/ \E w \in everIn[s] \ {v} : {v, w} \in together[sidOf[s]]
      BY DEF InCall, ChatOnlyForThoseInTheCall
    <3>2. CASE sidOf[s] \in Sids
      BY <2>3, <3>1, <3>2
    <3>3. CASE sidOf[s] \notin Sids
      BY <2>1, <2>2, <3>1, <3>3, <1>0 DEF TypeOK
    <3> QED BY <3>2, <3>3
  <2> QED BY <2>8, <2>10, <2>11, <2>12 DEF InCall
<1>3. ASSUME NEW u \in Users, Exit(u) PROVE InCall'
  <2>1. Meeting'
    BY <1>3 DEF Exit, InCall, Meeting
  <2>2. UNCHANGED <<together, sessions, request>>
    BY <1>3 DEF Exit
  <2> QED BY <2>1, <2>2 DEF InCall, Met, Admitted, ChatsAreHad,
       ChatOnlyForThoseInTheCall, sessions
<1>4. CASE CloseRoom
  <2>1. Meeting'
    BY <1>4 DEF CloseRoom, InCall, Meeting
  <2>2. UNCHANGED <<together, sessions, request>>
    BY <1>4 DEF CloseRoom
  <2> QED BY <2>1, <2>2 DEF InCall, Met, Admitted, ChatsAreHad,
       ChatOnlyForThoseInTheCall, sessions
<1>5. ASSUME NEW u \in Users, joinGroupVideoCallChat(u) PROVE InCall'
  <2>1. /\ request'[u].phase = "asked" /\ request'[u].sid = liveSid
        /\ request'[u].there = present
        /\ \A v \in Users \ {u} : request'[v] = request[v]
    BY <1>0, <1>5 DEF joinGroupVideoCallChat, TypeOK, Idle
  <2>2. liveSid \in Sids /\ u \in present /\ UNCHANGED <<media, sessions>>
    BY <1>0, <1>5 DEF joinGroupVideoCallChat, TypeOK
  <2>3. Met'
    BY <2>1, <2>2 DEF InCall, Met, Meeting, media
  <2>4. Admitted'
    BY <2>1, <2>2 DEF InCall, Admitted, sessions
  <2> QED BY <2>2, <2>3, <2>4 DEF InCall, Meeting, ChatsAreHad,
       ChatOnlyForThoseInTheCall, media, sessions
<1>6. ASSUME NEW u \in Users, LockAndRead(u) PROVE InCall'
  <2> PICK c \in Running \cup {NoSession} : Decide(u, c, Running \ {c})
    BY <1>6 DEF LockAndRead
  <2>1. /\ request[u].phase = "asked"
        /\ request'[u].sid = request[u].sid /\ request'[u].there = request[u].there
        /\ request'[u].carried = c
        /\ \A v \in Users \ {u} : request'[v] = request[v]
    BY <1>0, <1>6 DEF LockAndRead, Decide, TypeOK, Requests
  <2>2. UNCHANGED <<media, sessions>>
    BY DEF Decide
  <2>3. Met'
    BY <2>1, <2>2 DEF InCall, Met, media
  <2>4. c # NoSession => /\ c \in Sessions /\ sidOf[c] = request[u].sid
                         /\ chatsIn[c] \cap request[u].there # {}
    BY DEF Decide, Carried, CarriedOn, Running
  <2>5. Admitted'
    BY <2>1, <2>2, <2>4 DEF InCall, Admitted, ChatsAreHad, sessions
  <2> QED BY <2>2, <2>3, <2>5 DEF InCall, Meeting, ChatsAreHad,
       ChatOnlyForThoseInTheCall, media, sessions
<1>7. ASSUME NEW u \in Users, CommitJoin(u) PROVE InCall'
  <2>1. /\ request[u].phase = "decided" /\ UNCHANGED media
        /\ request'[u].phase = "idle" /\ \A v \in Users \ {u} : request'[v] = request[v]
    BY <1>0, <1>7 DEF CommitJoin, TypeOK, Idle
  <2>2. \A v \in Users : request'[v].phase # "decided"
    BY <1>7, <2>1 DEF IInv, HolderDecides
  <2>3. Meeting' /\ Met' /\ Admitted'
    BY <2>1, <2>2 DEF InCall, Meeting, Met, Admitted, media
  <2>4. /\ u \in request[u].there
        /\ \A v \in request[u].there : {u, v} \in together[request[u].sid]
    BY <2>1 DEF InCall, Met
  <2>5. {u} \in together[request[u].sid]
    <3>1. {u, u} = {u}
      OBVIOUS
    <3> QED BY <2>4, <3>1
  <2>6. CASE request[u].carried # NoSession /\ CarryOn(u)
    <3> DEFINE c == request[u].carried
    <3>1. c \in Sessions
      BY <1>0, <2>6 DEF TypeOK, Requests
    <3>2. /\ everIn' = [everIn EXCEPT ![c] = @ \cup {u}]
          /\ chatsIn' = [chatsIn EXCEPT ![c] = @ \cup {u}]
          /\ UNCHANGED <<sidOf, together>>
      BY <2>1, <2>6 DEF CarryOn, media
    <3>3. sidOf[c] = request[u].sid
      BY <2>1, <2>6 DEF InCall, Admitted
    <3>4. PICK v \in everIn[c] : v \in request[u].there
      BY <2>1, <2>6 DEF InCall, Admitted
    <3>5. {u, v} \in together[sidOf[c]] /\ {u} \in together[sidOf[c]]
      BY <2>4, <2>5, <3>3, <3>4
    <3>6. ChatsAreHad'
      BY <1>0, <3>1, <3>2 DEF InCall, ChatsAreHad, TypeOK
    <3>7. everIn'[c] = everIn[c] \cup {u} /\ \A s \in Sessions \ {c} : everIn'[s] = everIn[s]
      BY <1>0, <3>1, <3>2 DEF TypeOK
    <3>8. ASSUME NEW w \in everIn'[c]
          PROVE  /\ {w} \in together[sidOf[c]]
                 /\ \/ everIn'[c] = {w}
                    \/ \E x \in everIn'[c] \ {w} : {w, x} \in together[sidOf[c]]
      <4>1. CASE u \in everIn[c]
        <5>1. everIn'[c] = everIn[c]
          BY <3>7, <4>1
        <5> QED BY <3>1, <3>8, <5>1 DEF InCall, ChatOnlyForThoseInTheCall
      <4>2. CASE u \notin everIn[c] /\ w = u
        BY <3>4, <3>5, <3>7, <4>2
      <4>3. CASE w # u
        <5>1. /\ w \in everIn[c] /\ {w} \in together[sidOf[c]]
              /\ \/ everIn[c] = {w}
                 \/ \E x \in everIn[c] \ {w} : {w, x} \in together[sidOf[c]]
          BY <3>1, <3>7, <3>8, <4>3 DEF InCall, ChatOnlyForThoseInTheCall
        <5>2. CASE everIn[c] = {w}
          <6>1. v = w /\ {w, u} = {u, v}
            BY <3>4, <5>2
          <6> QED BY <3>5, <3>7, <4>3, <5>1, <6>1
        <5>3. CASE \E x \in everIn[c] \ {w} : {w, x} \in together[sidOf[c]]
          BY <3>7, <5>1, <5>3
        <5> QED BY <5>1, <5>2, <5>3
      <4> QED BY <4>1, <4>2, <4>3
    <3>9. ChatOnlyForThoseInTheCall'
      BY <3>2, <3>7, <3>8 DEF InCall, ChatOnlyForThoseInTheCall
    <3> QED BY <2>3, <3>6, <3>9 DEF InCall
  <2>7. ASSUME NEW s \in Sessions, OpenSession(u, s) PROVE InCall'
    <3>1. /\ everIn'[s] = {u} /\ chatsIn'[s] = {u} /\ sidOf'[s] = request[u].sid
          /\ \A t \in Sessions \ {s} : /\ everIn'[t] = everIn[t] /\ chatsIn'[t] = chatsIn[t]
                                       /\ sidOf'[t] = sidOf[t]
          /\ together' = together
      BY <1>0, <2>1, <2>7 DEF OpenSession, TypeOK, media
    <3>2. ChatsAreHad'
      BY <3>1 DEF InCall, ChatsAreHad
    <3>3. ChatOnlyForThoseInTheCall'
      BY <2>5, <3>1 DEF InCall, ChatOnlyForThoseInTheCall
    <3> QED BY <2>3, <3>2, <3>3 DEF InCall
  <2> QED BY <1>7, <2>6, <2>7 DEF CommitJoin
<1>8. ASSUME NEW u \in Users, JoinFails(u) PROVE InCall'
  <2>1. request \in [Users -> Requests] /\ request[u].phase # "idle"
    BY <1>0, <1>8 DEF JoinFails, TypeOK
  <2>2. UNCHANGED <<media, sidOf, everIn, chatsIn>>
    BY <1>8 DEF JoinFails, sessions
  <2>3. CASE request' = [request EXCEPT ![u] = Idle]
    <3>1. \A v \in Users : request'[v].phase = "idle" \/ request'[v] = request[v]
      BY <2>1, <2>3 DEF Idle
    <3> QED BY <2>2, <3>1, InCallWhenNothingOpens
  <2>4. CASE request' = [request EXCEPT ![u] = [@ EXCEPT !.phase = "asked",
                           !.carried = NoSession, !.over = {}]]
    <3>1. /\ \A v \in Users \ {u} : request'[v] = request[v]
          /\ request'[u].phase = "asked" /\ request'[u].sid = request[u].sid
          /\ request'[u].there = request[u].there
      BY <2>1, <2>4 DEF Requests
    <3> QED BY <2>1, <2>2, <3>1, InCallWhenNothingOpens
  <2> QED BY <1>8, <2>3, <2>4 DEF JoinFails
<1>9. ASSUME NEW u \in Users, LeaveGroup(u) PROVE InCall'
  <2>1. UNCHANGED <<media, sidOf, everIn, request>>
        /\ \A s \in Sessions : chatsIn'[s] \subseteq chatsIn[s]
    BY <1>9 DEF LeaveGroup
  <2> QED BY <2>1, InCallWhenNothingOpens
<1>10. ASSUME NEW x \in Sids, handleWebhook(x) PROVE InCall'
  <2>1. UNCHANGED <<media, sidOf, everIn, chatsIn, request>>
    BY <1>10 DEF handleWebhook, End, sessions
  <2> QED BY <2>1, InCallWhenNothingOpens
<1>11. CASE PollMissesRoom
  <2>1. UNCHANGED <<media, sidOf, everIn, chatsIn, request>>
    BY <1>11 DEF PollMissesRoom, End, sessions
  <2> QED BY <2>1, InCallWhenNothingOpens
<1>12. ASSUME NEW s \in Sessions, Age(s) PROVE InCall'
  <2>1. UNCHANGED <<media, sidOf, everIn, chatsIn, request>>
    BY <1>12 DEF Age
  <2> QED BY <2>1, InCallWhenNothingOpens
<1>13. CASE Restart
  <2>1. UNCHANGED <<media, sidOf, everIn, chatsIn>>
        /\ \A v \in Users : request'[v].phase = "idle"
    BY <1>13 DEF Restart, Idle, sessions
  <2> QED BY <2>1, InCallWhenNothingOpens
<1>14. ASSUME NEW u \in Users, JoinGroup(u) PROVE InCall'
  BY <1>1, <1>14 DEF JoinGroup
<1>15. ASSUME NEW x \in Sids, WebhookLost(x) PROVE InCall'
  BY <1>1, <1>15 DEF WebhookLost
<1>16. CASE PollList \/ PollFails \/ PollSeesRoom \/ PollCannotEnd
  BY <1>1, <1>16 DEF PollList, PollFails, PollSeesRoom, PollCannotEnd
<1>17. CASE UNCHANGED vars
  BY <1>1, <1>17 DEF vars
<1> QED
  BY <1>2, <1>3, <1>4, <1>5, <1>6, <1>7, <1>8, <1>9, <1>10, <1>11, <1>12,
     <1>13, <1>14, <1>15, <1>16, <1>17 DEF Next

(***************************************************************************)
(* Whoever ever got into a session's chat was in its room, and together    *)
(* with somebody else of it, for any number of people, rooms and sessions. *)
(***************************************************************************)
THEOREM ChatOnlyForThoseInTheCallHolds == Spec => []ChatOnlyForThoseInTheCall
<1>1. IInv /\ InCall /\ [Next]_vars => InCall'
  BY InCallStep
<1>2. InCall => ChatOnlyForThoseInTheCall
  BY DEF InCall
<1> QED BY <1>1, <1>2, InitInCall, IInvInvariant, PTL DEF Spec

-----------------------------------------------------------------------------
(***************************************************************************)
(* Why nothing but a join ends a session whose room is open.  A report is  *)
(* of a room that is closed, and rooms are never opened again under the    *)
(* same sid.  A poll that did not find the room listed before it was       *)
(* opened, so every running session of it was opened since, and is young   *)
(* enough to be spared.                                                    *)
(***************************************************************************)
RoomsAreNew ==
  /\ liveSid \in {NoRoom, lastSid}
  /\ \A x \in finished : x <= lastSid /\ x # liveSid
  /\ \A u \in Users : request[u].phase # "idle" => request[u].sid \in 1..lastSid
  /\ \A s \in Running : sidOf[s] \in 1..lastSid

DueAreOpened ==
  /\ \A s \in Sessions : status[s] # "none" => s <= opened
  /\ \A s \in due : s <= opened
  /\ \A u \in Users : request[u].phase = "decided" =>
       \A s \in request[u].over : s <= opened

MissedAreSpared ==
  /\ poll.since \cap due = {}
  /\ poll.phase = "listed" /\ ~poll.seen =>
       \A s \in Running : sidOf[s] = liveSid => s \in poll.since

Timely == RoomsAreNew /\ DueAreOpened /\ MissedAreSpared

LEMMA InitTimely == Init => Timely
  BY DEF Init, Timely, RoomsAreNew, DueAreOpened, MissedAreSpared, Running,
     Idle, NoPoll, NoRoom

\* Sessions that end, and requests that go or stay what they are, disturb nothing.
LEMMA TimelyWhenSessionsOnlyEnd ==
  ASSUME TypeOK, Timely, UNCHANGED <<media, opened, sidOf>>,
         finished' \subseteq finished,
         Running' \subseteq Running,
         DueAreOpened',
         due' = due \/ due' \cap poll.since = {},
         \A u \in Users : request'[u].phase # "idle" =>
           request[u].phase # "idle" /\ request'[u].sid = request[u].sid,
         poll' \in {poll, NoPoll}
  PROVE  Timely'
<1>1. RoomsAreNew'
  BY DEF Timely, RoomsAreNew, media, Running
<1>2. MissedAreSpared'
  BY DEF Timely, MissedAreSpared, NoPoll, media, Running
<1> QED BY <1>1, <1>2 DEF Timely

\* Only what is running is ended, so nothing is known of a session to come.
LEMMA EndKeepsOpened ==
  ASSUME IInv, Timely, NEW e \in SUBSET Running, End(e), request' = request
  PROVE  Running' \subseteq Running /\ DueAreOpened'
<1>1. \A s \in Sessions : status'[s] = status[s] \/ s \in Running
  BY DEF End, EndedIn
<1>2. UNCHANGED <<opened, due>> /\ Running' \subseteq Running
  BY DEF End, EndedIn, Running
<1> QED BY <1>1, <1>2 DEF Timely, DueAreOpened, IInv, RunningIsOpened

LEMMA TimelyStep ==
  ASSUME PollWithinGrace
  PROVE  IInv /\ Timely /\ [Next]_vars => Timely'
<1> SUFFICES ASSUME IInv, Timely, [Next]_vars PROVE Timely'
  OBVIOUS
<1>0. TypeOK
  BY DEF IInv
<1>1. ASSUME UNCHANGED <<media, sessions, request>>, finished' \subseteq finished,
             poll' \in {poll, NoPoll}
      PROVE  Timely'
  <2>1. Running' = Running
    BY <1>1 DEF Running, sessions
  <2>2. DueAreOpened'
    BY <1>1 DEF Timely, DueAreOpened, sessions
  <2> QED BY <1>0, <1>1, <2>1, <2>2, TimelyWhenSessionsOnlyEnd DEF sessions
<1>2. ASSUME NEW u \in Users, Enter(u) PROVE Timely'
  <2>1. UNCHANGED <<finished, sessions, request, poll>> /\ Running' = Running
    BY <1>2 DEF Enter, poller, sessions, Running
  <2>2. CASE liveSid' = liveSid /\ lastSid' = lastSid
    BY <2>1, <2>2 DEF Timely, RoomsAreNew, DueAreOpened, MissedAreSpared, Running, sessions
  <2>3. CASE liveSid' = lastSid + 1 /\ lastSid' = lastSid + 1
    <3>1. lastSid \in Nat
      BY <1>0 DEF TypeOK
    <3>2. RoomsAreNew'
      BY <1>0, <2>1, <2>3, <3>1 DEF TypeOK, Timely, RoomsAreNew, Sids, sessions, Requests, NoRoom
    <3>3. \A s \in Running : sidOf[s] # liveSid'
      BY <2>3, <3>1 DEF Timely, RoomsAreNew
    <3>4. MissedAreSpared'
      BY <2>1, <3>3 DEF Timely, MissedAreSpared, sessions
    <3>5. DueAreOpened'
      BY <2>1 DEF Timely, DueAreOpened, sessions
    <3> QED BY <3>2, <3>4, <3>5 DEF Timely
  <2> QED BY <1>2, <2>2, <2>3 DEF Enter
<1>3. ASSUME NEW u \in Users, Exit(u) PROVE Timely'
  <2>1. UNCHANGED <<liveSid, lastSid, finished, sessions, request, poll>> /\ Running' = Running
    BY <1>3 DEF Exit, poller, sessions, Running
  <2> QED BY <2>1 DEF Timely, RoomsAreNew, DueAreOpened, MissedAreSpared, sessions
<1>4. CASE CloseRoom
  <2>1. /\ liveSid # NoRoom /\ liveSid' = NoRoom /\ finished' = finished \cup {liveSid}
        /\ UNCHANGED <<lastSid, sessions, request, poll>> /\ Running' = Running
    BY <1>4 DEF CloseRoom, poller, sessions, Running
  <2>2. finished \subseteq Sids /\ lastSid \in Nat
    BY <1>0 DEF TypeOK
  <2>3. RoomsAreNew'
    BY <2>1, <2>2 DEF Timely, RoomsAreNew, Sids, NoRoom, sessions
  <2>4. \A s \in Running : sidOf[s] # liveSid'
    BY <2>1 DEF Timely, RoomsAreNew, NoRoom
  <2>5. MissedAreSpared' /\ DueAreOpened'
    BY <2>1, <2>4 DEF Timely, MissedAreSpared, DueAreOpened, sessions
  <2> QED BY <2>3, <2>5 DEF Timely
<1>5. ASSUME NEW u \in Users, joinGroupVideoCallChat(u) PROVE Timely'
  <2>1. /\ UNCHANGED <<media, finished, sessions, poll>> /\ Running' = Running
        /\ request'[u].sid = liveSid /\ liveSid # NoRoom /\ request'[u].phase = "asked"
        /\ \A v \in Users \ {u} : request'[v] = request[v]
    BY <1>0, <1>5 DEF joinGroupVideoCallChat, poller, sessions, Running, TypeOK, Idle
  <2>2. lastSid \in Nat /\ liveSid \in 1..lastSid
    BY <1>0, <2>1 DEF TypeOK, Timely, RoomsAreNew, NoRoom, Sids
  <2> QED BY <2>1, <2>2 DEF Timely, RoomsAreNew, DueAreOpened, MissedAreSpared, sessions, media
<1>6. ASSUME NEW u \in Users, LockAndRead(u) PROVE Timely'
  <2> PICK c \in Running \cup {NoSession} : Decide(u, c, Running \ {c})
    BY <1>6 DEF LockAndRead
  <2>1. /\ request[u].phase = "asked" /\ request'[u].sid = request[u].sid
        /\ request'[u].over \subseteq Running
        /\ \A v \in Users \ {u} : request'[v] = request[v]
    BY <1>0, <1>6 DEF LockAndRead, Decide, TypeOK, Requests
  <2>2. UNCHANGED <<media, finished, opened, sidOf, due, status, poll>> /\ Running' = Running
    BY DEF Decide, sessions, poller, Running
  <2>3. DueAreOpened'
    BY <2>1, <2>2 DEF Timely, DueAreOpened, IInv, RunningIsOpened
  <2> QED BY <1>0, <2>1, <2>2, <2>3, TimelyWhenSessionsOnlyEnd
<1>7. ASSUME NEW u \in Users, CommitJoin(u) PROVE Timely'
  <2>1. /\ request[u].phase = "decided" /\ UNCHANGED <<media, finished>>
        /\ request'[u].phase = "idle" /\ \A v \in Users \ {u} : request'[v] = request[v]
    BY <1>0, <1>7 DEF CommitJoin, TypeOK, Idle
  <2>2. \A s \in request[u].over : s <= opened
    BY <2>1 DEF Timely, DueAreOpened
  <2>3. CASE request[u].carried # NoSession /\ CarryOn(u)
    <3>1. UNCHANGED <<opened, sidOf, due, poll>> /\ Running' \subseteq Running
      BY <2>3 DEF CarryOn, EndedIn, Running
    <3>2. \A s \in Sessions : status'[s] = status[s] \/ s \in request[u].over
      BY <2>3 DEF CarryOn, EndedIn
    <3>3. DueAreOpened'
      BY <2>1, <2>2, <3>1, <3>2 DEF Timely, DueAreOpened
    <3> QED BY <1>0, <2>1, <3>1, <3>3, TimelyWhenSessionsOnlyEnd
  <2>4. ASSUME NEW s \in Sessions, OpenSession(u, s) PROVE Timely'
    <3>1. /\ s = opened + 1 /\ opened' = s /\ due' = due
          /\ sidOf'[s] = request[u].sid
          /\ \A t \in Sessions \ {s} : sidOf'[t] = sidOf[t]
          /\ \A t \in Sessions \ {s} : status'[t] = status[t] \/ t \in request[u].over
          /\ Running' \subseteq Running \cup {s}
      BY <1>0, <2>4 DEF OpenSession, EndedIn, Running, TypeOK
    <3>2. opened \in Nat /\ \A t \in Sessions : t \in Nat
      BY <1>0 DEF TypeOK, Sessions
    <3>3. RoomsAreNew'
      BY <2>1, <3>1 DEF Timely, RoomsAreNew, media, Running
    <3>4. \A t \in Sessions : t <= opened => t <= opened'
      BY <3>1, <3>2
    <3>5. DueAreOpened'
      <4>1. \A t \in due : t <= opened'
        BY <1>0, <3>4 DEF Timely, DueAreOpened, TypeOK
      <4>2. ASSUME NEW t \in Sessions, status'[t] # "none" PROVE t <= opened'
        BY <2>2, <3>1, <3>2, <3>4, <4>2 DEF Timely, DueAreOpened
      <4>3. ASSUME NEW v \in Users, request'[v].phase = "decided", NEW t \in request'[v].over
            PROVE  t <= opened'
        <5>1. t <= opened /\ t \in Sessions
          BY <1>0, <2>1, <4>3 DEF Timely, DueAreOpened, TypeOK, Requests
        <5> QED BY <3>4, <5>1
      <4> QED BY <3>1, <4>1, <4>2, <4>3 DEF DueAreOpened
    <3>6. s \notin due
      BY <3>1, <3>2 DEF Timely, DueAreOpened
    <3>7. MissedAreSpared'
      <4>1. CASE poll.phase = "listed"
        <5>1. /\ poll'.phase = poll.phase /\ poll'.seen = poll.seen
              /\ poll'.since = poll.since \cup {s}
          BY <1>0, <2>4, <4>1 DEF OpenSession, TypeOK, Polls
        <5> QED BY <2>1, <3>1, <3>6, <5>1 DEF Timely, MissedAreSpared, media, Running
      <4>2. CASE poll.phase # "listed"
        <5>1. poll'.phase = poll.phase /\ poll'.since = poll.since
          BY <1>0, <2>4, <4>2 DEF OpenSession, TypeOK, Polls
        <5> QED BY <3>1, <4>2, <5>1 DEF Timely, MissedAreSpared
      <4> QED BY <4>1, <4>2
    <3> QED BY <3>3, <3>5, <3>7 DEF Timely
  <2> QED BY <1>7, <2>3, <2>4 DEF CommitJoin
<1>8. ASSUME NEW u \in Users, JoinFails(u) PROVE Timely'
  <2>1. request \in [Users -> Requests] /\ request[u].phase # "idle"
    BY <1>0, <1>8 DEF JoinFails, TypeOK
  <2>2. UNCHANGED <<media, finished, opened, sidOf, due, status, poll>> /\ Running' = Running
    BY <1>8 DEF JoinFails, sessions, poller, Running
  <2>3. CASE request' = [request EXCEPT ![u] = Idle]
    <3>1. \A v \in Users : request'[v].phase = "idle" \/ request'[v] = request[v]
      BY <2>1, <2>3 DEF Idle
    <3>2. DueAreOpened'
      BY <2>2, <3>1 DEF Timely, DueAreOpened
    <3> QED BY <1>0, <2>2, <3>1, <3>2, TimelyWhenSessionsOnlyEnd
  <2>4. CASE request' = [request EXCEPT ![u] = [@ EXCEPT !.phase = "asked",
                           !.carried = NoSession, !.over = {}]]
    <3>1. /\ \A v \in Users \ {u} : request'[v] = request[v]
          /\ request'[u].phase = "asked" /\ request'[u].sid = request[u].sid
      BY <2>1, <2>4 DEF Requests
    <3>2. DueAreOpened'
      BY <2>2, <3>1 DEF Timely, DueAreOpened
    <3> QED BY <1>0, <2>1, <2>2, <3>1, <3>2, TimelyWhenSessionsOnlyEnd
  <2> QED BY <1>8, <2>3, <2>4 DEF JoinFails
<1>9. ASSUME NEW u \in Users, LeaveGroup(u) PROVE Timely'
  <2>1. UNCHANGED <<media, finished, opened, sidOf, due, status, poll, request>>
        /\ Running' = Running
    BY <1>9 DEF LeaveGroup, poller, Running
  <2>2. DueAreOpened'
    BY <2>1 DEF Timely, DueAreOpened
  <2> QED BY <1>0, <2>1, <2>2, TimelyWhenSessionsOnlyEnd
<1>10. ASSUME NEW x \in Sids, handleWebhook(x) PROVE Timely'
  <2>1. /\ finished' \subseteq finished
        /\ UNCHANGED <<media, opened, sidOf, due, poll, request>>
    BY <1>10 DEF handleWebhook, End, sessions
  <2>2. \/ \E e \in SUBSET Running : End(e)
        \/ UNCHANGED sessions
    BY <1>10 DEF handleWebhook, endCallSession, endCallSessionsOfMissingRoom
  <2>3. Running' \subseteq Running /\ DueAreOpened'
    <3>1. CASE UNCHANGED sessions
      BY <2>1, <3>1 DEF Timely, DueAreOpened, sessions, Running
    <3> QED BY <2>1, <2>2, <3>1, EndKeepsOpened
  <2> QED BY <1>0, <2>1, <2>3, TimelyWhenSessionsOnlyEnd
<1>11. CASE PollMissesRoom
  <2>1. /\ UNCHANGED <<media, finished, opened, sidOf, due, request>> /\ poll' = NoPoll
    BY <1>11 DEF PollMissesRoom, End, sessions
  <2>2. \/ \E e \in SUBSET Running : End(e)
        \/ UNCHANGED sessions
    BY <1>11 DEF PollMissesRoom, endCallSessionsOfMissingRoom
  <2>3. Running' \subseteq Running /\ DueAreOpened'
    <3>1. CASE UNCHANGED sessions
      BY <2>1, <3>1 DEF Timely, DueAreOpened, sessions, Running
    <3> QED BY <2>1, <2>2, <3>1, EndKeepsOpened
  <2> QED BY <1>0, <2>1, <2>3, TimelyWhenSessionsOnlyEnd
<1>12. ASSUME NEW s \in Sessions, Age(s) PROVE Timely'
  <2>1. /\ UNCHANGED <<media, finished, opened, sidOf, status, poll, request>>
        /\ due' = due \cup {s} /\ status[s] # "none" /\ Running' = Running
        /\ s \notin poll.since
    BY <1>12 DEF Age, poller, Running
  <2>2. DueAreOpened'
    BY <2>1 DEF Timely, DueAreOpened
  <2>3. RoomsAreNew' /\ MissedAreSpared'
    BY <2>1 DEF Timely, RoomsAreNew, MissedAreSpared, media
  <2> QED BY <2>2, <2>3 DEF Timely
<1>13. CASE Restart
  <2>1. UNCHANGED <<media, finished, opened, sidOf, due, status>> /\ Running' = Running
        /\ poll' = NoPoll /\ \A v \in Users : request'[v].phase = "idle"
    BY <1>13 DEF Restart, Idle, sessions, Running
  <2>2. DueAreOpened'
    BY <2>1 DEF Timely, DueAreOpened
  <2> QED BY <1>0, <2>1, <2>2, TimelyWhenSessionsOnlyEnd
<1>14. CASE PollList
  <2>1. /\ UNCHANGED <<media, finished, sessions, request>> /\ Running' = Running
        /\ poll'.since = {} /\ (~poll'.seen => liveSid = NoRoom)
    BY <1>14 DEF PollList, sessions, Running
  <2>2. ~poll'.seen => \A s \in Running : sidOf[s] # liveSid
    <3>1. \A s \in Running : sidOf[s] # NoRoom
      BY <1>0 DEF TypeOK, Timely, RoomsAreNew, NoRoom
    <3> QED BY <2>1, <3>1
  <2>3. MissedAreSpared'
    BY <2>1, <2>2 DEF MissedAreSpared, media, sessions
  <2>4. RoomsAreNew' /\ DueAreOpened'
    BY <2>1 DEF Timely, RoomsAreNew, DueAreOpened, media, sessions
  <2> QED BY <2>3, <2>4 DEF Timely
<1>15. ASSUME NEW u \in Users, JoinGroup(u) PROVE Timely'
  BY <1>1, <1>15 DEF JoinGroup, poller
<1>16. ASSUME NEW x \in Sids, WebhookLost(x) PROVE Timely'
  BY <1>1, <1>16 DEF WebhookLost, poller
<1>17. CASE PollFails \/ PollSeesRoom \/ PollCannotEnd
  BY <1>1, <1>17 DEF PollFails, PollSeesRoom, PollCannotEnd
<1>18. CASE UNCHANGED vars
  BY <1>1, <1>18 DEF vars, poller
<1> QED
  BY <1>2, <1>3, <1>4, <1>5, <1>6, <1>7, <1>8, <1>9, <1>10, <1>11, <1>12,
     <1>13, <1>14, <1>15, <1>16, <1>17, <1>18 DEF Next

\* What a step may do to a session whose room is open.
EndsByJoin ==
  \A s \in Running : status'[s] = "ended" /\ sidOf[s] = liveSid
    => \E u \in Users : s \in request[u].over /\ request'[u] = Idle

LEMMA EndsByJoinStep ==
  ASSUME ReportsCarrySid
  PROVE  IInv /\ Timely /\ [Next]_vars => EndsByJoin
<1> SUFFICES ASSUME IInv, Timely, [Next]_vars, NEW s \in Running,
                    status'[s] = "ended", sidOf[s] = liveSid
             PROVE  \E u \in Users : s \in request[u].over /\ request'[u] = Idle
  BY DEF EndsByJoin
<1>0. TypeOK /\ s \in Sessions /\ status[s] = "running"
  BY DEF IInv, Running
<1>1. status' # status
  BY <1>0
<1>2. ASSUME NEW u \in Users, CommitJoin(u)
      PROVE  s \in request[u].over /\ request'[u] = Idle
  <2>1. request'[u] = Idle
    BY <1>0, <1>2 DEF CommitJoin, TypeOK
  <2>2. CASE CarryOn(u)
    BY <1>0, <2>1, <2>2 DEF CarryOn, EndedIn
  <2>3. ASSUME NEW t \in Sessions, OpenSession(u, t) PROVE s \in request[u].over
    BY <1>0, <2>3 DEF OpenSession, EndedIn, TypeOK
  <2> QED BY <1>2, <2>1, <2>2, <2>3 DEF CommitJoin
<1>3. ASSUME NEW x \in Sids, handleWebhook(x) PROVE FALSE
  <2>1. End(endCallSession(x)) /\ x \in finished
    BY <1>1, <1>3 DEF handleWebhook, sessions
  <2>2. s \in endCallSession(x)
    BY <1>0, <2>1 DEF End, EndedIn
  <2> QED BY <2>1, <2>2 DEF endCallSession, Timely, RoomsAreNew
<1>4. CASE PollMissesRoom
  <2>1. End(endCallSessionsOfMissingRoom) /\ poll.phase = "listed" /\ ~poll.seen
    BY <1>1, <1>4 DEF PollMissesRoom, sessions
  <2>2. s \in due
    BY <1>0, <2>1 DEF End, EndedIn, endCallSessionsOfMissingRoom
  <2> QED BY <2>1, <2>2 DEF Timely, MissedAreSpared
<1>5. ASSUME NEW u \in Users,
             \/ Enter(u) \/ Exit(u) \/ joinGroupVideoCallChat(u) \/ LockAndRead(u)
             \/ JoinFails(u) \/ LeaveGroup(u) \/ JoinGroup(u)
      PROVE  FALSE
  BY <1>1, <1>5 DEF Enter, Exit, joinGroupVideoCallChat, LockAndRead, Decide, JoinFails,
     LeaveGroup, JoinGroup, sessions
<1>6. ASSUME NEW x \in Sids, WebhookLost(x) PROVE FALSE
  BY <1>1, <1>6 DEF WebhookLost, sessions
<1>7. ASSUME NEW t \in Sessions, Age(t) PROVE FALSE
  BY <1>1, <1>7 DEF Age
<1>8. CASE CloseRoom \/ PollList \/ PollFails \/ PollSeesRoom \/ PollCannotEnd \/ Restart
  BY <1>1, <1>8 DEF CloseRoom, PollList, PollFails, PollSeesRoom, PollCannotEnd, Restart,
     sessions
<1>9. CASE UNCHANGED vars
  BY <1>1, <1>9 DEF vars, sessions
<1> QED
  BY <1>2, <1>3, <1>4, <1>5, <1>6, <1>7, <1>8, <1>9 DEF Next

(***************************************************************************)
(* Where reports name their room and a poll does not outlast the grace     *)
(* period, nobody but a user who joins the chat ends a session while its   *)
(* room is open.                                                           *)
(***************************************************************************)
THEOREM LiveSessionEndsByJoinOnlyHolds ==
  ASSUME ReportsCarrySid, PollWithinGrace
  PROVE  Spec => LiveSessionEndsByJoinOnly
<1>1. IInv /\ Timely /\ [Next]_vars => Timely'
  BY TimelyStep
<1>2. IInv /\ Timely /\ [Next]_vars => [EndsByJoin]_vars
  BY EndsByJoinStep
<1>3. LiveSessionEndsByJoinOnly <=> [][EndsByJoin]_vars
  BY DEF LiveSessionEndsByJoinOnly, EndsByJoin
<1> QED BY <1>1, <1>2, <1>3, InitTimely, IInvInvariant, PTL DEF Spec

-----------------------------------------------------------------------------
(***************************************************************************)
(* The counts.  They have constants and variables of their own: Closed     *)
(* stands for CallCount's NoRoom, and seenCounts, toldRooms and polling    *)
(* for its lastSeen, told and poll.                                        *)
(***************************************************************************)
CONSTANTS
  Rooms, Closed, Nothing, NoQuery, MaxCount, MaxMoves, MaxAsks, MaxFailures,
  MaxDisturbed

VARIABLES
  room, hooks, handling, seenCounts, toldRooms, polling, query, wire, page, spent, disturbed

Count == INSTANCE CallCount
           WITH NoRoom <- Closed, lastSeen <- seenCounts, told <- toldRooms, poll <- polling

\* What CallCount assumes of its constants.
CountAssumption ==
  /\ Closed \notin Nat /\ Nothing \notin Nat /\ Closed # Nothing
  /\ MaxCount \in Nat \ {0} /\ MaxMoves \in Nat /\ MaxAsks \in Nat
  /\ {MaxFailures, MaxDisturbed} \subseteq Nat

USE DEF CountAssumption

\* What most handlers leave alone keeps its type.
LEMMA SpendType ==
  ASSUME NEW what \in {"moves", "asks", "failures"}, NEW bound, Count!Spend(what, bound),
         spent \in [{"moves", "asks", "failures"} -> Nat]
  PROVE  spent' \in [{"moves", "asks", "failures"} -> Nat]
BY DEF Count!Spend

LEMMA DisturbsType ==
  ASSUME Count!TypeOK, NEW so, Count!Disturbs(so)
  PROVE  disturbed' \in Nat
BY DEF Count!Disturbs, Count!TypeOK

\* What is sent or published comes out again.
LEMMA HeadOf ==
  ASSUME NEW S, NEW s \in Seq(S), s # <<>>
  PROVE  Head(s) \in S /\ Tail(s) \in Seq(S)
OBVIOUS

LEMMA HooksHead ==
  ASSUME Count!TypeOK, hooks # <<>>
  PROVE  Head(hooks).room \in Rooms /\ Tail(hooks) \in Seq([room : Rooms, kind : Count!Kinds])
<1>1. hooks \in Seq([room : Rooms, kind : Count!Kinds]) BY DEF Count!TypeOK
<1>2. Head(hooks) \in [room : Rooms, kind : Count!Kinds] BY <1>1, HeadOf
<1> QED BY <1>1, <1>2, HeadOf

LEMMA WireHead ==
  ASSUME Count!TypeOK, wire # <<>>
  PROVE  /\ Head(wire).room \in Rooms /\ Head(wire).count \in Count!Counts
         /\ Tail(wire) \in Seq([room : Rooms, count : Count!Counts])
<1>1. wire \in Seq([room : Rooms, count : Count!Counts]) BY DEF Count!TypeOK
<1>2. Head(wire) \in [room : Rooms, count : Count!Counts] BY <1>1, HeadOf
<1> QED BY <1>1, <1>2, HeadOf

LEMMA LiveType ==
  ASSUME CountAssumption, Count!TypeOK, NEW r \in Rooms
  PROVE  Count!Live(r) \in Count!Counts
BY DEF Count!TypeOK, Count!Live, Count!Counts

\* The queue of counts takes what is published.
LEMMA PublishedType ==
  ASSUME Count!TypeOK, NEW r \in Rooms, NEW n \in Count!Counts, Count!Published(r, n)
  PROVE  /\ wire' \in Seq([room : Rooms, count : Count!Counts])
         /\ Len(wire') = Len(wire) + 1
         /\ wire'[Len(wire')].room = r
<1>1. wire \in Seq([room : Rooms, count : Count!Counts]) BY DEF Count!TypeOK
<1>2. wire' = Append(wire, [room |-> r, count |-> n]) BY DEF Count!Published
<1>3. [room |-> r, count |-> n] \in [room : Rooms, count : Count!Counts] OBVIOUS
<1> QED BY <1>1, <1>2, <1>3

LEMMA CountIdleType ==
  /\ Count!Idle \in Count!Polls /\ Count!Idle.step = "idle"
  /\ Count!Idle.owed = {} /\ Count!Idle.told = {} /\ Count!Idle.todo = {}
BY DEF Count!Idle, Count!Polls, Count!Counts

\* A room that is done with leaves the lists and nothing else.
LEMMA DoneType ==
  ASSUME Count!TypeOK, NEW r \in Rooms, Count!Done(r)
  PROVE  /\ polling' \in Count!Polls /\ polling'.owed \subseteq polling'.told
         /\ polling'.owed = polling.owed \ {r}
         /\ polling'.step = polling.step
         /\ polling'.todo \subseteq polling.todo /\ polling'.list = polling.list
BY DEF Count!TypeOK, Count!Polls, Count!Done

\* Types hold in every behaviour.
LEMMA CountTypeInit == CountAssumption /\ Count!Init => Count!TypeOK
BY CountIdleType DEF Count!Init, Count!TypeOK, Count!Counts

LEMMA CountTypeStep ==
  ASSUME CountAssumption, Count!TypeOK, [Count!Next]_(Count!vars)
  PROVE  Count!TypeOK'
<1>1. ASSUME NEW r \in Rooms, NEW n \in Count!Counts \cup {Closed},
             NEW kind \in Count!Kinds, Count!Moves(r, n, kind)
      PROVE  Count!TypeOK'
  <2>1. hooks' \in Seq([room : Rooms, kind : Count!Kinds])
    <3>1. hooks \in Seq([room : Rooms, kind : Count!Kinds]) BY DEF Count!TypeOK
    <3>2. [room |-> r, kind |-> kind] \in [room : Rooms, kind : Count!Kinds] BY <1>1
    <3>3. Append(hooks, [room |-> r, kind |-> kind]) \in
            Seq([room : Rooms, kind : Count!Kinds])
        BY <3>1, <3>2
    <3> QED BY <1>1, <3>1, <3>3 DEF Count!Moves
  <2>2. spent' \in [{"moves", "asks", "failures"} -> Nat]
      BY <1>1, SpendType DEF Count!Moves, Count!TypeOK
  <2>3. disturbed' \in Nat
      BY <1>1, DisturbsType DEF Count!Moves
  <2> QED BY <1>1, <2>1, <2>2, <2>3 DEF Count!Moves, Count!TypeOK
<1>2. ASSUME NEW r \in Rooms, Count!Open(r) PROVE Count!TypeOK'
    BY <1>1, <1>2 DEF Count!Open, Count!Kinds, Count!Counts
<1>3. ASSUME NEW r \in Rooms, Count!Join(r) PROVE Count!TypeOK'
  <2>1. room[r] + 1 \in Count!Counts
      BY <1>3 DEF Count!Join, Count!TypeOK, Count!Counts
  <2> QED BY <1>1, <1>3, <2>1 DEF Count!Join, Count!Kinds
<1>4. ASSUME NEW r \in Rooms, Count!Leave(r) PROVE Count!TypeOK'
  <2>1. room[r] - 1 \in Count!Counts
      BY <1>4 DEF Count!Leave, Count!TypeOK, Count!Counts
  <2> QED BY <1>1, <1>4, <2>1 DEF Count!Leave, Count!Kinds
<1>5. ASSUME NEW r \in Rooms, Count!Close(r) PROVE Count!TypeOK'
    BY <1>1, <1>5 DEF Count!Close, Count!Kinds
<1>6. ASSUME NEW r \in Rooms, Count!Ask(r) PROVE Count!TypeOK'
  <2>1. [count |-> Count!Live(r), noted |-> FALSE] \in Count!Queries
      BY LiveType DEF Count!Queries
  <2>2. spent' \in [{"moves", "asks", "failures"} -> Nat]
      BY <1>6, SpendType DEF Count!Ask, Count!TypeOK
  <2> QED BY <1>6, <2>1, <2>2 DEF Count!Ask, Count!TypeOK
<1>7. ASSUME NEW r \in Rooms, Count!videoCallParticipantCount(r) PROVE Count!TypeOK'
  <2>1. query[r] \in Count!Queries
      BY <1>7 DEF Count!videoCallParticipantCount, Count!TypeOK
  <2>2. [count |-> query[r].count, noted |-> TRUE] \in Count!Queries
      BY <2>1 DEF Count!Queries
  <2> QED BY <1>7, <2>2 DEF Count!videoCallParticipantCount, Count!noteCountTold, Count!TypeOK
<1>8. ASSUME NEW r \in Rooms, Count!Answer(r) PROVE Count!TypeOK'
  <2>1. query[r].count \in Count!Counts
      BY <1>8 DEF Count!Answer, Count!TypeOK, Count!Queries
  <2> QED BY <1>8, <2>1 DEF Count!Answer, Count!TypeOK
<1>9. ASSUME Count!publishCount PROVE Count!TypeOK'
  <2>1. Head(hooks).room \in Rooms
      BY <1>9, HooksHead DEF Count!publishCount
  <2> QED BY <1>9, <2>1, LiveType DEF Count!publishCount, Count!TypeOK
<1>10. ASSUME Count!Handled, spent' \in [{"moves", "asks", "failures"} -> Nat], hooks # <<>>,
              wire' \in Seq([room : Rooms, count : Count!Counts])
       PROVE  Count!TypeOK'
  <2>1. Head(hooks).room \in Rooms /\ Tail(hooks) \in Seq([room : Rooms, kind : Count!Kinds])
      BY <1>10, HooksHead
  <2> QED BY <1>10, <2>1 DEF Count!Handled, Count!ToldByWebhook, Count!TypeOK
<1>11. ASSUME Count!handleWebhook PROVE Count!TypeOK'
  <2>1. Head(hooks).room \in Rooms
      BY <1>11, HooksHead DEF Count!handleWebhook
  <2>2. 0 \in Count!Counts /\ (handling # Nothing => handling \in Count!Counts)
      BY DEF Count!TypeOK, Count!Counts
  <2>3. wire' \in Seq([room : Rooms, count : Count!Counts])
      BY <1>11, <2>1, <2>2, PublishedType DEF Count!handleWebhook
  <2> QED BY <1>10, <1>11, <2>3 DEF Count!handleWebhook, Count!TypeOK
<1>12. ASSUME Count!WebhookFails PROVE Count!TypeOK'
  <2>1. spent' \in [{"moves", "asks", "failures"} -> Nat]
      BY <1>12, SpendType DEF Count!WebhookFails, Count!TypeOK
  <2> QED BY <1>10, <1>12, <2>1 DEF Count!WebhookFails, Count!TypeOK
<1>13. ASSUME Count!Swallow PROVE Count!TypeOK'
  <2>1. spent' \in [{"moves", "asks", "failures"} -> Nat]
      BY <1>13, SpendType DEF Count!Swallow, Count!TypeOK
  <2>2. disturbed' \in Nat
      BY <1>13, DisturbsType DEF Count!Swallow
  <2> QED BY <1>13, <2>1, <2>2, WireHead DEF Count!Swallow, Count!TypeOK
<1>14. ASSUME Count!Receive PROVE Count!TypeOK'
  <2>1. /\ Head(wire).room \in Rooms /\ Head(wire).count \in Count!Counts
        /\ Tail(wire) \in Seq([room : Rooms, count : Count!Counts])
      BY <1>14, WireHead DEF Count!Receive
  <2>2. disturbed' \in Nat
      BY <1>14, DisturbsType DEF Count!Receive
  <2> QED BY <1>14, <2>1, <2>2 DEF Count!Receive, Count!TypeOK
<1>15. ASSUME Count!takeToldRooms PROVE Count!TypeOK'
  <2>1. /\ polling' \in Count!Polls /\ polling'.step = "listing"
        /\ polling'.owed = toldRooms /\ polling'.told = toldRooms
      BY <1>15, CountIdleType DEF Count!takeToldRooms, Count!TypeOK, Count!Polls
  <2> QED BY <1>15, <2>1 DEF Count!takeToldRooms, Count!TypeOK
<1>16. ASSUME Count!listRooms PROVE Count!TypeOK'
  <2>1. /\ polling' \in Count!Polls
        /\ polling'.owed = polling.owed /\ polling'.told = polling.told
        /\ polling'.step = "listed" /\ \A r \in polling'.todo : polling'.list[r] # Closed
      BY <1>16 DEF Count!listRooms, Count!TypeOK, Count!Polls
  <2> QED BY <1>16, <2>1 DEF Count!listRooms, Count!TypeOK
<1>17. ASSUME Count!EndPoll PROVE toldRooms' \subseteq Rooms /\ polling' = Count!Idle
    BY <1>17 DEF Count!EndPoll, Count!TypeOK, Count!Polls
<1>18. ASSUME Count!ListFails PROVE Count!TypeOK'
  <2>1. spent' \in [{"moves", "asks", "failures"} -> Nat]
      BY <1>18, SpendType DEF Count!ListFails, Count!TypeOK
  <2> QED BY <1>17, <1>18, <2>1, CountIdleType DEF Count!ListFails, Count!TypeOK
<1>19. ASSUME Count!PublishFails PROVE Count!TypeOK'
  <2>1. spent' \in [{"moves", "asks", "failures"} -> Nat]
      BY <1>19, SpendType DEF Count!PublishFails, Count!TypeOK
  <2> QED BY <1>17, <1>19, <2>1, CountIdleType DEF Count!PublishFails, Count!TypeOK
<1>20. ASSUME Count!PollDone PROVE Count!TypeOK'
    BY <1>17, <1>20, CountIdleType DEF Count!PollDone, Count!TypeOK
<1>21. ASSUME Count!LookForMissing PROVE Count!TypeOK'
  <2>1. /\ polling' \in Count!Polls
        /\ polling'.owed = polling.owed /\ polling'.told = polling.told
        /\ polling'.step = "missing"
      BY <1>21 DEF Count!LookForMissing, Count!TypeOK, Count!Polls
  <2> QED BY <1>21, <2>1 DEF Count!LookForMissing, Count!TypeOK
<1>22. ASSUME NEW r \in Rooms, Count!Unchanged(r) PROVE Count!TypeOK'
    BY <1>22, DoneType DEF Count!Unchanged, Count!TypeOK
<1>23. ASSUME NEW r \in Rooms, Count!listParticipants(r) PROVE Count!TypeOK'
  <2>1. /\ polling' \in Count!Polls
        /\ polling'.owed = polling.owed /\ polling'.told = polling.told
        /\ polling'.step = polling.step /\ polling'.list = polling.list
        /\ polling'.todo \subseteq polling.todo
    <3>1. CASE polling' = [polling EXCEPT !.asked[r] = room[r]] /\ room[r] # Closed
        BY <3>1 DEF Count!TypeOK, Count!Polls
    <3>2. CASE polling' = [polling EXCEPT !.todo = polling.todo \ {r}]
        BY <3>2 DEF Count!TypeOK, Count!Polls
    <3> QED BY <1>23, <3>1, <3>2 DEF Count!listParticipants
  <2>2. spent' \in [{"moves", "asks", "failures"} -> Nat]
      BY <1>23, SpendType DEF Count!listParticipants, Count!TypeOK
  <2> QED BY <1>23, <2>1, <2>2 DEF Count!listParticipants, Count!TypeOK
<1>24. ASSUME NEW r \in Rooms, Count!Correct(r) PROVE Count!TypeOK'
  <2>1. polling.list[r] \in Count!Counts
      BY <1>24 DEF Count!Correct, Count!ToCorrect, Count!TypeOK, Count!Polls
  <2>2. (IF r \in polling.told THEN polling.asked[r] ELSE polling.list[r]) \in Count!Counts
      BY <1>24, <2>1 DEF Count!Correct, Count!ToCorrect, Count!TypeOK, Count!Polls
  <2>3. wire' \in Seq([room : Rooms, count : Count!Counts])
      BY <1>24, <2>2, PublishedType DEF Count!Correct
  <2> QED BY <1>24, <2>1, <2>3, DoneType DEF Count!Correct, Count!TypeOK
<1>25. ASSUME NEW r \in Rooms, Count!Gone(r) PROVE Count!TypeOK'
  <2>0. 0 \in Count!Counts
      BY DEF Count!Counts
  <2>1. wire' \in Seq([room : Rooms, count : Count!Counts])
    <3>1. CASE Count!Missing(r)
        BY <1>25, <2>0, <3>1, PublishedType DEF Count!Gone
    <3>2. CASE ~Count!Missing(r)
        BY <1>25, <3>2 DEF Count!Gone, Count!TypeOK
    <3> QED BY <3>1, <3>2
  <2>2. seenCounts' \in [Rooms -> Count!Counts \cup {Nothing}]
      BY <1>25 DEF Count!Gone, Count!TypeOK, Count!Counts
  <2> QED BY <1>25, <2>1, <2>2, DoneType DEF Count!Gone, Count!TypeOK
<1>26. CASE UNCHANGED Count!vars
    BY <1>26 DEF Count!vars, Count!TypeOK
<1> QED
    BY <1>2, <1>3, <1>4, <1>5, <1>6, <1>7, <1>8, <1>9, <1>11, <1>12, <1>13, <1>14,
       <1>15, <1>16, <1>18, <1>19, <1>20, <1>21, <1>22, <1>23, <1>24, <1>25, <1>26
    DEF Count!Next, Count!pollOnce, Count!Fails

(***************************************************************************)
(* The types of the counts hold in every behaviour (TypeOK of CallCount):  *)
(* no poll owes a room a correction that it was not told of.               *)
(***************************************************************************)
THEOREM CountTypeCorrect ==
  ASSUME CountAssumption
  PROVE  Count!Spec => []Count!TypeOK
<1>1. Count!Init => Count!TypeOK
  BY CountTypeInit
<1>2. Count!TypeOK /\ [Count!Next]_(Count!vars) => Count!TypeOK'
  BY CountTypeStep
<1> QED
  BY <1>1, <1>2, PTL DEF Count!Spec

(***************************************************************************)
(* No room that is owed its correction is forgotten before a count for it  *)
(* is published (OwedUntilOut), whatever fails, is lost or overtaken.      *)
(***************************************************************************)
LEMMA OwedStep ==
  ASSUME CountAssumption, Count!TypeOK, [Count!Next]_(Count!vars), NEW r \in Rooms,
         r \in (toldRooms \cup polling.owed) \ (toldRooms' \cup polling'.owed)
  PROVE  Len(wire') = Len(wire) + 1 /\ wire'[Len(wire')].room = r
<1>1. CASE Count!EndPoll
    BY <1>1 DEF Count!EndPoll
<1>2. CASE Count!takeToldRooms
    BY <1>2, CountIdleType DEF Count!takeToldRooms, Count!TypeOK, Count!Idle
<1>3. CASE Count!listRooms \/ Count!LookForMissing
    BY <1>3 DEF Count!listRooms, Count!LookForMissing, Count!TypeOK, Count!Polls
<1>4. CASE UNCHANGED <<toldRooms, polling>>
    BY <1>4
<1>5. ASSUME NEW q \in Rooms,
             \/ Count!Open(q) \/ Count!Join(q) \/ Count!Leave(q) \/ Count!Close(q)
             \/ Count!Ask(q) \/ Count!Answer(q)
      PROVE  UNCHANGED <<toldRooms, polling>>
    BY <1>5 DEF Count!Open, Count!Join, Count!Leave, Count!Close, Count!Moves, Count!Ask,
         Count!Answer
<1>6. ASSUME NEW q \in Rooms, Count!videoCallParticipantCount(q)
      PROVE  toldRooms \subseteq toldRooms' /\ polling' = polling
    BY <1>6 DEF Count!videoCallParticipantCount, Count!noteCountTold
<1>7. CASE Count!handleWebhook \/ Count!WebhookFails
    BY <1>7 DEF Count!handleWebhook, Count!WebhookFails, Count!Handled, Count!ToldByWebhook
<1>8. CASE Count!publishCount \/ Count!Receive \/ Count!Swallow
    BY <1>8 DEF Count!publishCount, Count!Receive, Count!Swallow
<1>9. ASSUME NEW q \in Rooms, Count!listParticipants(q)
      PROVE  polling'.owed = polling.owed /\ toldRooms' = toldRooms
    BY <1>9 DEF Count!listParticipants, Count!TypeOK, Count!Polls
<1>10. ASSUME NEW q \in Rooms, Count!Unchanged(q) PROVE FALSE
  <2>1. polling'.owed = polling.owed \ {q} /\ toldRooms' = toldRooms
      BY <1>10, DoneType DEF Count!Unchanged
  <2>2. q \notin polling.owed
      BY <1>10 DEF Count!Unchanged, Count!TypeOK
  <2> QED BY <2>1, <2>2
<1>11. ASSUME NEW q \in Rooms, Count!Correct(q)
       PROVE  Len(wire') = Len(wire) + 1 /\ wire'[Len(wire')].room = r
  <2>1. r = q
      BY <1>11, DoneType DEF Count!Correct
  <2>2. (IF q \in polling.told THEN polling.asked[q] ELSE polling.list[q]) \in Count!Counts
      BY <1>11 DEF Count!Correct, Count!ToCorrect, Count!TypeOK, Count!Polls
  <2> QED BY <1>11, <2>1, <2>2, PublishedType DEF Count!Correct
<1>12. ASSUME NEW q \in Rooms, Count!Gone(q)
       PROVE  Len(wire') = Len(wire) + 1 /\ wire'[Len(wire')].room = r
  <2>1. r = q /\ q \in polling.owed
      BY <1>12, DoneType DEF Count!Gone
  <2>2. Count!Missing(q)
      BY <2>1 DEF Count!Missing, Count!TypeOK
  <2>3. 0 \in Count!Counts
      BY DEF Count!Counts
  <2> QED BY <1>12, <2>1, <2>2, <2>3, PublishedType DEF Count!Gone
<1>13. CASE Count!ListFails \/ Count!PublishFails \/ Count!PollDone
    BY <1>1, <1>13 DEF Count!ListFails, Count!PublishFails, Count!PollDone
<1>14. CASE UNCHANGED Count!vars
    BY <1>4, <1>14 DEF Count!vars
<1> QED
    BY <1>2, <1>3, <1>4, <1>5, <1>6, <1>7, <1>8, <1>9, <1>10, <1>11, <1>12, <1>13, <1>14
    DEF Count!Next, Count!pollOnce, Count!Fails

THEOREM OwedUntilOutHolds ==
  ASSUME CountAssumption
  PROVE  Count!Spec => Count!OwedUntilOut
<1>1. Count!TypeOK /\ [Count!Next]_(Count!vars) =>
        [\A r \in Rooms :
           r \in (toldRooms \cup polling.owed) \ (toldRooms' \cup polling'.owed) =>
             Len(wire') = Len(wire) + 1 /\ wire'[Len(wire')].room = r]_(Count!vars)
    BY OwedStep
<1> QED BY <1>1, CountTypeCorrect, PTL DEF Count!Spec, Count!OwedUntilOut
=============================================================================
