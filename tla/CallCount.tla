----------------------------- MODULE CallCount -----------------------------
(***************************************************************************)
(* How many are in a group's call, as LiveKit has it and as the page of a  *)
(* group shows it: the count query (resolvers/videoCalls.ts), the webhook  *)
(* (livekit/webhook.ts), the poller behind it (livekit/poller.ts) and the  *)
(* rooms it owes a correction for (livekit/toldRooms.ts).                  *)
(*                                                                         *)
(* One backend instance and one page per room.  A page shows what it was   *)
(* told last, be it the answer to its query or a published count.          *)
(***************************************************************************)
EXTENDS Naturals, Sequences

CONSTANTS
  Rooms,         \* the LiveKit rooms of the groups
  NoRoom,        \* there is no such room
  Nothing,       \* no count: the poller knows none, a page shows none
  NoQuery,       \* a page has no query under way
  MaxCount,      \* bounds: on the participants of a room,
  MaxMoves,      \*   what happens in the rooms,
  MaxAsks,       \*   the queries,
  MaxFailures,   \*   what does not get through,
  MaxDisturbed   \*   and what the poller does not make up for

ASSUME CallCountAssumption ==
  /\ NoRoom \notin Nat /\ Nothing \notin Nat /\ NoRoom # Nothing
  /\ MaxCount \in Nat \ {0} /\ MaxMoves \in Nat /\ MaxAsks \in Nat
  /\ {MaxFailures, MaxDisturbed} \subseteq Nat

VARIABLES
  room,      \* room[r]: how many are in r, or NoRoom
  hooks,     \* the webhooks LiveKit has sent, delivered one after the other
  handling,  \* the count the webhook at the head has read, or Nothing
  lastSeen,  \* lastSeenCounts[r], or Nothing
  told,      \* toldRooms
  poll,      \* the poll under way
  query,     \* query[r]: the count LiveKit answered, and whether it is noted
  wire,      \* the counts published and not yet received
  page,      \* page[r]: the count r's page shows, or Nothing
  spent,     \* how much of each bound is used up
  disturbed  \* how often LiveKit has sent a webhook, something has happened in
             \* a room while a poll ran, a published count was swallowed or has
             \* overtaken the answer to a query

vars == <<room, hooks, handling, lastSeen, told, poll, query, wire, page, spent, disturbed>>

Counts == 0..MaxCount
Idle == [step |-> "idle", told |-> {}, owed |-> {}, todo |-> {},
         list |-> [r \in Rooms |-> NoRoom], asked |-> [r \in Rooms |-> Nothing]]
Polls == [step : {"idle", "listing", "listed", "missing"},
          told : SUBSET Rooms, owed : SUBSET Rooms, todo : SUBSET Rooms,
          list : [Rooms -> Counts \cup {NoRoom}],
          asked : [Rooms -> Counts \cup {Nothing}]]
Kinds == {"changed", "finished"}
Queries == [count : Counts, noted : BOOLEAN]

Init ==
  /\ room = [r \in Rooms |-> NoRoom]
  /\ hooks = <<>>
  /\ handling = Nothing
  /\ lastSeen = [r \in Rooms |-> Nothing]
  /\ told = {}
  /\ poll = Idle
  /\ query = [r \in Rooms |-> NoQuery]
  /\ wire = <<>>
  /\ page = [r \in Rooms |-> Nothing]
  /\ spent = [moves |-> 0, asks |-> 0, failures |-> 0]
  /\ disturbed = 0

Spend(what, bound) ==
  /\ spent[what] < bound
  /\ spent' = [spent EXCEPT ![what] = @ + 1]

Disturbs(so) ==
  /\ so => disturbed < MaxDisturbed
  /\ disturbed' = IF so THEN disturbed + 1 ELSE disturbed

\* What listParticipants answers: a room that is not found is empty.
Live(r) == IF room[r] = NoRoom THEN 0 ELSE room[r]

\* A count goes out to every subscriber.
Published(r, n) == wire' = Append(wire, [room |-> r, count |-> n])

-----------------------------------------------------------------------------
(***************************************************************************)
(* LiveKit: people come and go, an empty room closes after a while.  Of    *)
(* each it sends a webhook, which may be lost, if it is told where to.     *)
(***************************************************************************)
Moves(r, n, kind) ==
  /\ Spend("moves", MaxMoves)
  /\ room' = [room EXCEPT ![r] = n]
  /\ hooks' \in {hooks, Append(hooks, [room |-> r, kind |-> kind])}
  /\ Disturbs(poll.step # "idle" \/ hooks' # hooks)
  /\ UNCHANGED <<handling, lastSeen, told, poll, query, wire, page>>

\* The first one opens the room and is in it a moment later.
Open(r) == room[r] = NoRoom /\ Moves(r, 0, "changed")
Join(r) == room[r] # NoRoom /\ room[r] < MaxCount /\ Moves(r, room[r] + 1, "changed")
Leave(r) == room[r] \in 1..MaxCount /\ Moves(r, room[r] - 1, "changed")
Close(r) == room[r] = 0 /\ Moves(r, NoRoom, "finished")

-----------------------------------------------------------------------------
(***************************************************************************)
(* handleWebhook: publishCount asks for the participants and publishes     *)
(* their number; a finished room is 0 without asking.  Its session may     *)
(* have to be left to the poller.                                          *)
(***************************************************************************)
publishCount ==
  /\ hooks # <<>> /\ Head(hooks).kind = "changed" /\ handling = Nothing
  /\ handling' = Live(Head(hooks).room)
  /\ UNCHANGED <<room, hooks, lastSeen, told, poll, query, wire, page, spent, disturbed>>

ToldByWebhook ==
  IF Head(hooks).kind = "finished" THEN {told, told \cup {Head(hooks).room}} ELSE {told}

Handled ==
  /\ hooks' = Tail(hooks)
  /\ handling' = Nothing
  /\ told' \in ToldByWebhook
  /\ UNCHANGED <<room, lastSeen, poll, query, page, disturbed>>

handleWebhook ==
  /\ hooks # <<>>
  /\ IF Head(hooks).kind = "finished"
     THEN Published(Head(hooks).room, 0)
     ELSE handling # Nothing /\ Published(Head(hooks).room, handling)
  /\ Handled
  /\ UNCHANGED spent

\* LiveKit cannot be asked or the publish throws: that is logged, and no more.
WebhookFails ==
  /\ hooks # <<>>
  /\ Handled
  /\ Spend("failures", MaxFailures)
  /\ UNCHANGED wire

-----------------------------------------------------------------------------
(***************************************************************************)
(* The page and its query.  A running call that is told is noted.          *)
(***************************************************************************)
noteCountTold_Forgets(r, n) == told
  \* Fault: nothing is noted.

noteCountTold(r, n) == IF n > 0 THEN told \cup {r} ELSE told

Ask(r) ==
  /\ query[r] = NoQuery
  /\ Spend("asks", MaxAsks)
  /\ query' = [query EXCEPT ![r] = [count |-> Live(r), noted |-> FALSE]]
  /\ UNCHANGED <<room, hooks, handling, lastSeen, told, poll, wire, page, disturbed>>

videoCallParticipantCount(r) ==
  /\ query[r] # NoQuery /\ ~query[r].noted
  /\ query' = [query EXCEPT ![r] = [count |-> query[r].count, noted |-> TRUE]]
  /\ told' = noteCountTold(r, query[r].count)
  /\ UNCHANGED <<room, hooks, handling, lastSeen, poll, wire, page, spent, disturbed>>

Answer(r) ==
  /\ query[r] # NoQuery /\ query[r].noted
  /\ page' = [page EXCEPT ![r] = query[r].count]
  /\ query' = [query EXCEPT ![r] = NoQuery]
  /\ UNCHANGED <<room, hooks, handling, lastSeen, told, poll, wire, spent, disturbed>>

\* The broker cannot be reached, and the publish does not say so (Redis).
Swallow ==
  /\ wire # <<>> /\ wire' = Tail(wire)
  /\ Spend("failures", MaxFailures)
  /\ Disturbs(TRUE)
  /\ UNCHANGED <<room, hooks, handling, lastSeen, told, poll, query, page>>

\* A page that is open takes what is published, be it older than its answer.
Receive ==
  /\ wire # <<>>
  /\ LET e == Head(wire)
     IN /\ page' = [page EXCEPT ![e.room] = IF @ = Nothing /\ query[e.room] = NoQuery
                                            THEN Nothing ELSE e.count]
        /\ Disturbs(query[e.room] # NoQuery)
  /\ wire' = Tail(wire)
  /\ UNCHANGED <<room, hooks, handling, lastSeen, told, poll, query, spent>>

-----------------------------------------------------------------------------
(***************************************************************************)
(* pollOnce: take the told rooms, list the rooms, look at each of them,    *)
(* then at those that are missing.                                         *)
(***************************************************************************)
takeToldRooms ==
  /\ poll.step = "idle"
  /\ poll' = [Idle EXCEPT !.step = "listing", !.told = told, !.owed = told]
  /\ told' = {}
  /\ UNCHANGED <<room, hooks, handling, lastSeen, query, wire, page, spent, disturbed>>

listRooms ==
  /\ poll.step = "listing"
  /\ poll' = [poll EXCEPT !.step = "listed", !.list = room,
                          !.todo = {r \in Rooms : room[r] # NoRoom}]
  /\ UNCHANGED <<room, hooks, handling, lastSeen, told, query, wire, page, spent, disturbed>>

\* The poll ends; what is still owed goes back.
EndPoll_Drops ==
  /\ told' = told
  /\ poll' = Idle
  \* Fault: what is still owed is forgotten.

EndPoll ==
  /\ told' = told \cup poll.owed
  /\ poll' = Idle

ListFails ==
  /\ poll.step = "listing"
  /\ Spend("failures", MaxFailures)
  /\ EndPoll
  /\ UNCHANGED <<room, hooks, handling, lastSeen, query, wire, page, disturbed>>

Done(r) == poll' = [poll EXCEPT !.todo = poll.todo \ {r}, !.owed = poll.owed \ {r}]

\* No change, and nobody was told.
Unchanged(r) ==
  /\ poll.step = "listed" /\ r \in poll.todo \ poll.told
  /\ lastSeen[r] = poll.list[r]
  /\ Done(r)
  /\ UNCHANGED <<room, hooks, handling, lastSeen, told, query, wire, page, spent, disturbed>>

\* A told room's correction asks the participants themselves; it stays owed if
\* they cannot be asked or the room is gone by now.
listParticipants(r) ==
  /\ poll.step = "listed" /\ r \in poll.todo \cap poll.told
  /\ poll.asked[r] = Nothing
  /\ \/ /\ room[r] # NoRoom
        /\ poll' = [poll EXCEPT !.asked[r] = room[r]]
        /\ UNCHANGED spent
     \/ /\ poll' = [poll EXCEPT !.todo = poll.todo \ {r}]
        /\ IF room[r] = NoRoom THEN UNCHANGED spent ELSE Spend("failures", MaxFailures)
  /\ UNCHANGED <<room, hooks, handling, lastSeen, told, query, wire, page, disturbed>>

ToCorrect(r) ==
  /\ poll.step = "listed" /\ r \in poll.todo
  /\ IF r \in poll.told THEN poll.asked[r] # Nothing ELSE lastSeen[r] # poll.list[r]

Correct(r) ==
  /\ ToCorrect(r)
  /\ Published(r, IF r \in poll.told THEN poll.asked[r] ELSE poll.list[r])
  /\ lastSeen' = [lastSeen EXCEPT ![r] = poll.list[r]]
  /\ Done(r)
  /\ UNCHANGED <<room, hooks, handling, told, query, page, spent, disturbed>>

\* Every room that is listed has been looked at: on to those that are not.
LookForMissing ==
  /\ poll.step = "listed" /\ poll.todo = {}
  /\ poll' = [poll EXCEPT !.step = "missing",
                !.todo = {r \in Rooms : /\ poll.list[r] = NoRoom
                                        /\ lastSeen[r] # Nothing \/ r \in poll.told}]
  /\ UNCHANGED <<room, hooks, handling, lastSeen, told, query, wire, page, spent, disturbed>>

\* A room that is gone is 0, if it was seen running or a page was told so.
\* It is remembered at 0 as long as its session is not settled.
Missing(r) == (lastSeen[r] # Nothing /\ lastSeen[r] > 0) \/ r \in poll.told

Gone(r) ==
  /\ poll.step = "missing" /\ r \in poll.todo
  /\ IF Missing(r) THEN Published(r, 0) ELSE UNCHANGED wire
  /\ \E settled \in BOOLEAN :
       lastSeen' = [lastSeen EXCEPT ![r] = IF settled THEN Nothing ELSE 0]
  /\ Done(r)
  /\ UNCHANGED <<room, hooks, handling, told, query, page, spent, disturbed>>

PollDone ==
  /\ poll.step = "missing" /\ poll.todo = {}
  /\ EndPoll
  /\ UNCHANGED <<room, hooks, handling, lastSeen, query, wire, page, spent, disturbed>>

\* A publish that throws ends the poll where it is.
PublishFails ==
  /\ \E r \in Rooms :
       ToCorrect(r) \/ (poll.step = "missing" /\ r \in poll.todo /\ Missing(r))
  /\ Spend("failures", MaxFailures)
  /\ EndPoll
  /\ UNCHANGED <<room, hooks, handling, lastSeen, query, wire, page, disturbed>>

-----------------------------------------------------------------------------
pollOnce ==
  \/ takeToldRooms \/ listRooms \/ LookForMissing \/ PollDone
  \/ \E r \in Rooms : Unchanged(r) \/ listParticipants(r) \/ Correct(r) \/ Gone(r)

Fails == ListFails \/ PublishFails \/ WebhookFails \/ Swallow

Next ==
  \/ \E r \in Rooms : \/ Open(r) \/ Join(r) \/ Leave(r) \/ Close(r)
                      \/ Ask(r) \/ videoCallParticipantCount(r) \/ Answer(r)
  \/ publishCount \/ handleWebhook
  \/ Receive
  \/ pollOnce
  \/ Fails

(***************************************************************************)
(* The interval goes on polling, and LiveKit and the broker work most of   *)
(* the time (what fails is bounded); webhooks that are not lost, answers   *)
(* and published counts arrive.                                            *)
(***************************************************************************)
Fairness ==
  /\ WF_vars(pollOnce)
  /\ WF_vars(publishCount) /\ WF_vars(handleWebhook)
  /\ WF_vars(Receive)
  /\ \A r \in Rooms : WF_vars(videoCallParticipantCount(r)) /\ WF_vars(Answer(r))

Spec == Init /\ [][Next]_vars /\ Fairness

-----------------------------------------------------------------------------
(***************************************************************************)
(* The types; and a room that is owed its correction is one the poll was   *)
(* told of and has not finished with: between polls there is none.         *)
(***************************************************************************)
TypeOK ==
  /\ room \in [Rooms -> Counts \cup {NoRoom}]
  /\ hooks \in Seq([room : Rooms, kind : Kinds])
  /\ handling \in Counts \cup {Nothing}
  /\ lastSeen \in [Rooms -> Counts \cup {Nothing}]
  /\ told \subseteq Rooms
  /\ poll \in Polls /\ poll.owed \subseteq poll.told
  /\ poll.step = "idle" => poll.owed = {}
  /\ poll.step = "listed" => \A r \in poll.todo : poll.list[r] # NoRoom
  /\ query \in [Rooms -> Queries \cup {NoQuery}]
  /\ wire \in Seq([room : Rooms, count : Counts])
  /\ page \in [Rooms -> Counts \cup {Nothing}]
  /\ spent \in [{"moves", "asks", "failures"} -> Nat]
  /\ disturbed \in Nat

(***************************************************************************)
(* What a page was told stays owed its correction until a count for that   *)
(* room is published, however the poll in between ends (poller.ts:57).     *)
(***************************************************************************)
OwedUntilOut ==
  [][\A r \in Rooms :
       r \in (told \cup poll.owed) \ (told' \cup poll'.owed) =>
         Len(wire') = Len(wire) + 1 /\ wire'[Len(wire')].room = r]_vars

(***************************************************************************)
(* A page is not left for good with a running call that is not so: what a  *)
(* query was told is noted, and the poller publishes the truth for it      *)
(* whether it has seen a change or not (toldRooms.ts:3, videoCalls.ts:422, *)
(* poller.ts:57).  This needs no webhook, however polls fail.  It is said  *)
(* of what the poller makes up for alone: a webhook or an answer that is   *)
(* older than a poll's count and arrives after it, a publish that failed   *)
(* silently and what happens in a room between a poll's questions are      *)
(* wrong until the next change.                                            *)
(***************************************************************************)
RunningIsCorrected ==
  <>[](disturbed = 0 => \A r \in Rooms : page[r] \in 1..MaxCount => page[r] = Live(r))
=============================================================================
