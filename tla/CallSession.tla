---------------------------- MODULE CallSession ----------------------------
(***************************************************************************)
(* The conference chat of one group's video calls: the VideoCallSession    *)
(* nodes of backend/src/livekit/callSession.ts, the mutation               *)
(* joinGroupVideoCallChat that opens and carries on a session, and the     *)
(* three things that end one: the group's next call, the media server's    *)
(* room_finished webhook, and the poller that finds the room gone.         *)
(*                                                                         *)
(* The media server is modelled from how the backend uses it: a room of    *)
(* the group has an id (sid) never used again, is there while somebody is  *)
(* connected and for a while after, and is then closed and reported.       *)
(*                                                                         *)
(* Every transaction commits in one step.  joinCallSession is two steps,   *)
(* because the statements that end sessions elsewhere do not take the      *)
(* lock on the group and can fall between what it reads and what it        *)
(* writes.  What a request learned from the media server is kept in the    *)
(* request, and may be old by the time the transaction runs.               *)
(***************************************************************************)
EXTENDS Naturals, FiniteSets

CONSTANTS
  Users,            \* the people who have been members of the group
  NoUser,           \* nobody: the group's lock is free
  MaxSid,           \* bound: rooms the media server opens for the group
  MaxSessions,      \* bound: sessions ever opened
  MaxRestarts,      \* bound: restarts of the backend process
  ReportsCarrySid,  \* TRUE: every room_finished report names the room's sid
  PollWithinGrace   \* TRUE: a poll is over before a session opened since its
                    \* listing is MISSING_ROOM_GRACE_SECONDS old

ASSUME CallSessionAssumption ==
  /\ NoUser \notin Users
  /\ MaxSid \in Nat
  /\ MaxSessions \in Nat
  /\ MaxRestarts \in Nat
  /\ ReportsCarrySid \in BOOLEAN
  /\ PollWithinGrace \in BOOLEAN

Sids == 1..MaxSid
Sessions == 1..MaxSessions
NoRoom == 0
NoSession == 0

VARIABLES
  liveSid,      \* the room the media server has open for the group, or NoRoom
  lastSid,      \* how many rooms it has opened so far
  present,      \* who is connected to the room
  finished,     \* room_finished reports on their way to the webhook
  members,      \* who has a membership in the group
  opened,       \* how many sessions have been opened; session ids are 1..opened
  status,       \* status[s]: "none" before s is opened, then "running", "ended"
  sidOf,        \* the livekitSid stored with the session
  due,          \* the sessions older than the grace period
  chatsIn,      \* chatsIn[s]: who has a CHATS_IN edge to the session's room
  lock,         \* who holds the write lock on the group node
  request,      \* request[u]: u's joinGroupVideoCallChat, if one is running
  poll,         \* the poller's run in progress
  lastSeen,     \* the poller remembers the room (lastSeenCounts)
  told,         \* the room is noted in toldRooms
  restarts,     \* how often the backend has been restarted
  together,     \* history: pairs of users who have been in the room at once
  everIn        \* history: everybody who ever chatted in the session

media == <<liveSid, lastSid, present, together>>
sessions == <<opened, status, sidOf, due, chatsIn, everIn>>
poller == <<poll, lastSeen, told>>
vars == <<media, finished, members, sessions, lock, request, poller, restarts>>

(***************************************************************************)
(* A request is idle; has asked the media server (sid and there are what   *)
(* it answered); or holds the lock and has decided which running session   *)
(* to carry on and which are over.                                         *)
(***************************************************************************)
Idle == [phase |-> "idle", sid |-> NoRoom, there |-> {},
         carried |-> NoSession, over |-> {}]

Requests == [phase : {"idle", "asked", "decided"}, sid : Sids \cup {NoRoom},
             there : SUBSET Users, carried : Sessions \cup {NoSession},
             over : SUBSET Sessions]

(***************************************************************************)
(* A poll holds what it took from toldRooms, whether the list had the      *)
(* room, and the sessions opened since the list was taken.                 *)
(***************************************************************************)
NoPoll == [phase |-> "idle", told |-> FALSE, seen |-> FALSE, since |-> {}]

Polls == [phase : {"idle", "listed"}, told : BOOLEAN, seen : BOOLEAN,
          since : SUBSET Sessions]

Running == {s \in Sessions : status[s] = "running"}
Waiting == {u \in Users : request[u].phase # "idle"}

Init ==
  /\ liveSid = NoRoom /\ lastSid = 0 /\ present = {}
  /\ together = [x \in Sids |-> {}]
  /\ finished = {}
  /\ members = Users
  /\ opened = 0
  /\ status = [s \in Sessions |-> "none"]
  /\ sidOf = [s \in Sessions |-> NoRoom]
  /\ due = {}
  /\ chatsIn = [s \in Sessions |-> {}]
  /\ everIn = [s \in Sessions |-> {}]
  /\ lock = NoUser
  /\ request = [u \in Users |-> Idle]
  /\ poll = NoPoll /\ lastSeen = FALSE /\ told = FALSE
  /\ restarts = 0

-----------------------------------------------------------------------------
(***************************************************************************)
(* The media server.  A join token outlives the membership it was issued   *)
(* for (JOIN_TOKEN_TTL), so anybody who has been a member may connect.     *)
(***************************************************************************)
Enter(u) ==
  /\ u \notin present
  /\ \/ /\ liveSid # NoRoom
        /\ UNCHANGED <<liveSid, lastSid>>
     \/ /\ liveSid = NoRoom
        /\ lastSid < MaxSid
        /\ liveSid' = lastSid + 1
        /\ lastSid' = lastSid + 1
  /\ present' = present \cup {u}
  /\ together' = [together EXCEPT ![liveSid'] = @ \cup {{u, v} : v \in present'}]
  /\ UNCHANGED <<finished, members, sessions, lock, request, poller, restarts>>

Exit(u) ==
  /\ u \in present
  /\ present' = present \ {u}
  /\ UNCHANGED <<liveSid, lastSid, together, finished, members, sessions,
                 lock, request, poller, restarts>>

CloseRoom ==
  /\ liveSid # NoRoom
  /\ present = {}
  /\ finished' = finished \cup {liveSid}
  /\ liveSid' = NoRoom
  /\ UNCHANGED <<lastSid, present, together, members, sessions, lock, request,
                 poller, restarts>>

-----------------------------------------------------------------------------
(***************************************************************************)
(* joinGroupVideoCallChat.  The shield lets members ask; getLiveCall       *)
(* answers with the room and who is in it, or the mutation fails.  The     *)
(* room list and the participants are two calls made at once, each given   *)
(* four seconds; the media server keeps an emptied room longer than that,  *)
(* so both speak of the same room, and they are one step here.             *)
(***************************************************************************)
joinGroupVideoCallChat(u) ==
  /\ u \in members
  /\ request[u].phase = "idle"
  /\ opened + Cardinality(Waiting) < MaxSessions
  /\ liveSid # NoRoom
  /\ u \in present
  /\ request' = [request EXCEPT ![u] =
       [Idle EXCEPT !.phase = "asked", !.sid = liveSid, !.there = present]]
  /\ UNCHANGED <<media, finished, members, sessions, lock, poller, restarts>>

\* Fault: carried on by the room alone, whoever is in it.
CarriedOn_ByRoomAlone(u, s) == sidOf[s] = request[u].sid

CarriedOn(u, s) ==
  /\ sidOf[s] = request[u].sid
  /\ chatsIn[s] \cap request[u].there # {}

(***************************************************************************)
(* Among the running sessions, the newest that is carried on - if any.     *)
(***************************************************************************)
Carried(u, c) ==
  IF c = NoSession
    THEN \A s \in Running : ~CarriedOn(u, s)
    ELSE CarriedOn(u, c) /\ \A s \in Running : CarriedOn(u, s) => s <= c

Decide(u, c, over) ==
  /\ Carried(u, c)
  /\ lock' = u
  /\ request' = [request EXCEPT ![u] = [@ EXCEPT !.phase = "decided",
                   !.carried = c, !.over = over]]
  /\ UNCHANGED <<media, finished, members, sessions, poller, restarts>>

\* Fault: the sessions are read without waiting for the group's lock.
LockAndRead_NoLock(u) ==
  /\ request[u].phase = "asked"
  /\ \E c \in Running \cup {NoSession} : Decide(u, c, Running \ {c})

(***************************************************************************)
(* The transaction of joinCallSession: take the group's lock, read the     *)
(* running sessions, decide which is carried on and which are over.        *)
(***************************************************************************)
LockAndRead(u) ==
  /\ request[u].phase = "asked"
  /\ lock = NoUser
  /\ \E c \in Running \cup {NoSession} : Decide(u, c, Running \ {c})

(***************************************************************************)
(* ... then end the sessions that are over, open a new one unless one is   *)
(* carried on, and give the user the edge to its room.                     *)
(***************************************************************************)
EndedIn(st, ended) == [s \in Sessions |-> IF s \in ended THEN "ended" ELSE st[s]]

\* Fault: a session carried on is marked as running once more.
CarryOn_Revives(u) ==
  /\ status' = [EndedIn(status, request[u].over) EXCEPT ![request[u].carried] = "running"]
  /\ chatsIn' = [chatsIn EXCEPT ![request[u].carried] = @ \cup {u}]
  /\ everIn' = [everIn EXCEPT ![request[u].carried] = @ \cup {u}]
  /\ UNCHANGED <<opened, sidOf, due, poll>>

CarryOn(u) ==
  /\ status' = EndedIn(status, request[u].over)
  /\ chatsIn' = [chatsIn EXCEPT ![request[u].carried] = @ \cup {u}]
  /\ everIn' = [everIn EXCEPT ![request[u].carried] = @ \cup {u}]
  /\ UNCHANGED <<opened, sidOf, due, poll>>

OpenSession(u, s) ==
  /\ s = opened + 1
  /\ opened' = s
  /\ status' = [EndedIn(status, request[u].over) EXCEPT ![s] = "running"]
  /\ sidOf' = [sidOf EXCEPT ![s] = request[u].sid]
  /\ chatsIn' = [chatsIn EXCEPT ![s] = {u}]
  /\ everIn' = [everIn EXCEPT ![s] = {u}]
  /\ poll' = [poll EXCEPT !.since = IF poll.phase = "listed" THEN @ \cup {s} ELSE @]
  /\ UNCHANGED due

CommitJoin(u) ==
  /\ request[u].phase = "decided"
  /\ \/ request[u].carried # NoSession /\ CarryOn(u)
     \/ request[u].carried = NoSession /\ \E s \in Sessions : OpenSession(u, s)
  /\ lock' = NoUser
  /\ request' = [request EXCEPT ![u] = Idle]
  /\ UNCHANGED <<media, finished, members, lastSeen, told, restarts>>

\* The transaction is rolled back and the lock goes with it; the driver tries
\* it again with the same parameters, or gives up and the request fails.
JoinFails(u) ==
  /\ request[u].phase # "idle"
  /\ \/ request' = [request EXCEPT ![u] = Idle]
     \/ request' = [request EXCEPT ![u] = [@ EXCEPT !.phase = "asked",
                       !.carried = NoSession, !.over = {}]]
  /\ lock' = IF lock = u THEN NoUser ELSE lock
  /\ UNCHANGED <<media, finished, members, sessions, poller, restarts>>

-----------------------------------------------------------------------------
(***************************************************************************)
(* The group's door.  Leaving, or being removed, deletes the membership    *)
(* and every edge to the chats of the group's calls in one transaction.    *)
(***************************************************************************)
LeaveGroup(u) ==
  /\ u \in members
  /\ members' = members \ {u}
  /\ chatsIn' = [s \in Sessions |-> chatsIn[s] \ {u}]
  /\ UNCHANGED <<media, finished, opened, status, sidOf, due, everIn, lock,
                 request, poller, restarts>>

JoinGroup(u) ==
  /\ u \notin members
  /\ members' = members \cup {u}
  /\ UNCHANGED <<media, finished, sessions, lock, request, poller, restarts>>

-----------------------------------------------------------------------------
(***************************************************************************)
(* Ending what the media server says is over.  A report names the sid; if  *)
(* it does not, all that is known is that no such room exists any more.    *)
(***************************************************************************)
\* Fault: by the room's name, which the next call shares.
endCallSession_ByName(x) == Running

endCallSession(x) == {s \in Running : sidOf[s] = x}
endCallSessionsOfMissingRoom == Running \cap due
Spared == Running \ due

End(ended) ==
  /\ status' = EndedIn(status, ended)
  /\ UNCHANGED <<opened, sidOf, due, chatsIn, everIn>>

handleWebhook(x) ==
  /\ x \in finished
  /\ finished' = finished \ {x}
  /\ \/ End(endCallSession(x)) /\ UNCHANGED told
     \/ /\ ~ReportsCarrySid
        /\ End(endCallSessionsOfMissingRoom)
        /\ told' = (told \/ Spared # {})
     \/ told' = TRUE /\ UNCHANGED sessions      \* the database fails
  /\ UNCHANGED <<media, members, lock, request, poll, lastSeen, restarts>>

\* The report never arrives.
WebhookLost(x) ==
  /\ x \in finished
  /\ finished' = finished \ {x}
  /\ UNCHANGED <<media, members, sessions, lock, request, poller, restarts>>

-----------------------------------------------------------------------------
(***************************************************************************)
(* The poller, for this group's room: it takes what was told, asks for the *)
(* list, and later goes through it.                                        *)
(***************************************************************************)
PollList ==
  /\ poll.phase = "idle"
  /\ poll' = [phase |-> "listed", told |-> told, seen |-> liveSid # NoRoom,
              since |-> {}]
  /\ told' = FALSE
  /\ UNCHANGED <<media, finished, members, sessions, lock, request, lastSeen,
                 restarts>>

\* Listing failed, or the run stopped halfway: what was told goes back.
PollFails ==
  /\ poll.phase = "listed"
  /\ poll' = NoPoll
  /\ told' = (told \/ poll.told)
  /\ UNCHANGED <<media, finished, members, sessions, lock, request, lastSeen,
                 restarts>>

PollSeesRoom ==
  /\ poll.phase = "listed" /\ poll.seen
  /\ poll' = NoPoll
  /\ lastSeen' = TRUE
  /\ UNCHANGED <<media, finished, members, sessions, lock, request, told,
                 restarts>>

\* Fault: the room is dropped even though one of its sessions was spared.
PollMissesRoom_Forgets ==
  /\ poll.phase = "listed" /\ ~poll.seen
  /\ poll' = NoPoll
  /\ IF lastSeen \/ poll.told
       THEN End(endCallSessionsOfMissingRoom) /\ lastSeen' = FALSE
       ELSE UNCHANGED <<sessions, lastSeen>>
  /\ UNCHANGED <<media, finished, members, lock, request, told, restarts>>

PollMissesRoom ==
  /\ poll.phase = "listed" /\ ~poll.seen
  /\ poll' = NoPoll
  /\ IF lastSeen \/ poll.told
       THEN End(endCallSessionsOfMissingRoom) /\ lastSeen' = (Spared # {})
       ELSE UNCHANGED <<sessions, lastSeen>>
  /\ UNCHANGED <<media, finished, members, lock, request, told, restarts>>

\* The database fails while the sessions of a missing room are to be ended.
PollCannotEnd ==
  /\ poll.phase = "listed" /\ ~poll.seen
  /\ lastSeen \/ poll.told
  /\ poll' = NoPoll
  /\ lastSeen' = TRUE
  /\ UNCHANGED <<media, finished, members, sessions, lock, request, told,
                 restarts>>

\* MISSING_ROOM_GRACE_SECONDS have passed since s was opened.
Age(s) ==
  /\ status[s] # "none" /\ s \notin due
  /\ PollWithinGrace => s \notin poll.since
  /\ due' = due \cup {s}
  /\ UNCHANGED <<media, finished, members, opened, status, sidOf, chatsIn,
                 everIn, lock, request, poller, restarts>>

\* The backend restarts: what only the process knew is gone.
Restart ==
  /\ restarts < MaxRestarts
  /\ restarts' = restarts + 1
  /\ request' = [u \in Users |-> Idle]
  /\ lock' = NoUser
  /\ poll' = NoPoll /\ lastSeen' = FALSE /\ told' = FALSE
  /\ UNCHANGED <<media, finished, members, sessions>>

Next ==
  \/ \E u \in Users :
       \/ Enter(u) \/ Exit(u)
       \/ joinGroupVideoCallChat(u) \/ LockAndRead(u) \/ CommitJoin(u)
       \/ JoinFails(u)
       \/ LeaveGroup(u) \/ JoinGroup(u)
  \/ \E x \in Sids : handleWebhook(x) \/ WebhookLost(x)
  \/ \E s \in Sessions : Age(s)
  \/ CloseRoom \/ PollList \/ PollFails \/ PollSeesRoom \/ PollMissesRoom
  \/ PollCannotEnd \/ Restart

Spec == Init /\ [][Next]_vars

(***************************************************************************)
(* Fairness: the poller's timer keeps firing and every poll ends; a        *)
(* database that is asked again and again answers once in a while; time    *)
(* passes.  Nothing is assumed of people, of requests or of the webhook.   *)
(***************************************************************************)
Fairness ==
  /\ WF_vars(PollList)
  /\ SF_vars(PollSeesRoom)
  /\ SF_vars(PollMissesRoom)
  /\ \A s \in Sessions : WF_vars(Age(s))

FairSpec == Spec /\ Fairness

-----------------------------------------------------------------------------
TypeOK ==
  /\ liveSid \in Sids \cup {NoRoom} /\ lastSid \in 0..MaxSid
  /\ present \subseteq Users /\ members \subseteq Users
  /\ together \in [Sids -> SUBSET SUBSET Users]
  /\ finished \subseteq Sids
  /\ opened \in 0..MaxSessions
  /\ status \in [Sessions -> {"none", "running", "ended"}]
  /\ sidOf \in [Sessions -> Sids \cup {NoRoom}]
  /\ due \subseteq Sessions
  /\ chatsIn \in [Sessions -> SUBSET Users]
  /\ everIn \in [Sessions -> SUBSET Users]
  /\ lock \in Users \cup {NoUser}
  /\ request \in [Users -> Requests]
  /\ poll \in Polls /\ lastSeen \in BOOLEAN /\ told \in BOOLEAN
  /\ restarts \in 0..MaxRestarts

(***************************************************************************)
(* A group has one call at a time: however requests, reports and polls     *)
(* interleave, at most one session of the group is running                 *)
(* (joinCallSession, callSession.ts:50-65).                                *)
(***************************************************************************)
OneRunningSession == \A s, t \in Running : s = t

(***************************************************************************)
(* The conference chat is for those in the call (videoCalls.ts:481): the   *)
(* one who opened a session was in its room, and everybody else who ever   *)
(* got into it was in that very room together with somebody else of it.    *)
(* Nobody walks into a room the others have left and reads what they       *)
(* wrote (callSession.ts:43-48).                                           *)
(***************************************************************************)
ChatOnlyForThoseInTheCall ==
  \A s \in Sessions : \A u \in everIn[s] :
    /\ {u} \in together[sidOf[s]]
    /\ everIn[s] = {u} \/ \E v \in everIn[s] \ {u} : {u, v} \in together[sidOf[s]]

(***************************************************************************)
(* While its room is open, a session is ended by nobody but a user who     *)
(* joins the chat: no late report about an earlier call, and no poll that  *)
(* listed the rooms before this one was opened (webhook.ts:102-108,        *)
(* callSession.ts:174-177).                                                *)
(***************************************************************************)
LiveSessionEndsByJoinOnly ==
  [][\A s \in Running : status'[s] = "ended" /\ sidOf[s] = liveSid
       => \E u \in Users : s \in request[u].over /\ request'[u] = Idle]_vars

(***************************************************************************)
(* What the poller remembers of a closed room is settled: no session stays *)
(* running in it, unless a room has been opened again (poller.ts:140-172). *)
(* A restart forgets, so this is said of the process that does not.        *)
(***************************************************************************)
GoneCallIsEnded ==
  (/\ liveSid = NoRoom /\ restarts = MaxRestarts
   /\ lastSeen \/ told \/ poll.told)
    ~> (Running = {} \/ liveSid # NoRoom)

(***************************************************************************)
(* All this is how the calls of GroupCall are kept: the sessions are its   *)
(* calls, one per number, and the running sessions are the call that is    *)
(* going on.  So only the newest session ever runs, and one that has ended *)
(* is never carried on as running, although a join may write into it after *)
(* a report has ended it.                                                  *)
(***************************************************************************)
Abstract == INSTANCE GroupCall
  WITH Calls <- Sessions, running <- Running, chat <- chatsIn

ImplementsGroupCall == Abstract!Spec
=============================================================================
