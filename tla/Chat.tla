-------------------------------- MODULE Chat --------------------------------
(***************************************************************************)
(* One open chat page and the messages it shows                            *)
(* (webapp/components/Chat/Chat.vue) beside the messages there are         *)
(* (backend/src/graphql/resolvers/messages.ts).                            *)
(*                                                                         *)
(* The page asks for the messages of the room it has opened, a page of     *)
(* them at a time, the newest first; it shows its own messages before the  *)
(* server has them; it is told by events, in any order, of messages others *)
(* have written and of what others have received or seen; and it reports   *)
(* in batches what its reader has had before the eyes.  Answers, events    *)
(* and reports are on their way while rooms are opened and left.           *)
(*                                                                         *)
(* Everybody is in every room, and every room is a group's: one of two     *)
(* people differs in that its messages are never kept back.  A message is  *)
(* named by its place among all of them, which orders those of a room as   *)
(* their indexId does, because CreateMessage takes it from a counter under *)
(* the lock on the room.  Who has muted or blocked whom changes while the  *)
(* page is open; whether that silences a message is open with each.  The   *)
(* list of the rooms with its counts, and rooms that come about with their *)
(* first message, are left out.                                            *)
(***************************************************************************)
EXTENDS Naturals, Sequences, FiniteSets

CONSTANTS
  Me,            \* whose page it is
  Others,
  Rooms, NoRoom,
  PageSize,      \* messages per answer
  MaxAsking,     \* bound: questions for messages on their way at once
  MaxMessages,   \* bound: messages written
  MaxHappenings  \* bound: rooms opened, the page left, messages written, received and
                 \* seen by others, failures

ASSUME ChatAssumption ==
  /\ Me \notin Others /\ NoRoom \notin Rooms
  /\ PageSize \in Nat \ {0}
  /\ {MaxAsking, MaxMessages, MaxHappenings} \subseteq Nat

Ids == 1..MaxMessages
Newest == MaxMessages + 1     \* the cursor before anything is loaded

\* What is on the page of a message: one of the server's by its id, one
\* written on the page, until it is loaded, by its local number.
Entries == [id : {0} \cup Ids, local : {0} \cup Ids, seen : BOOLEAN, distributed : BOOLEAN]
Entry(id, local, seen, distributed) ==
  [id |-> id, local |-> local, seen |-> seen, distributed |-> distributed]

VARIABLES
  sent,         \* the messages: [room, by]
  unseen,       \* unseen[m]: who has not seen m
  distributed,  \* my messages that somebody has received
  events,       \* on their way to the page: [kind, room, ids]
  fetches,      \* questions for messages, and their answers
  locals,       \* locals[l]: what became of the l-th message written here
  marks,        \* reports of what was seen, on their way
  selected,     \* the room that is open
  switches,     \* how often one has been opened
  shown,        \* the messages on the page
  oldest,       \* oldestLoadedIndexId
  loaded,       \* messagesLoaded: there are no older ones
  watched,      \* unseenMessageIds: reported once they come into view
  viewed,       \* have been in view: their elements are not observed again
  batch,        \* _seenBatch: in view, to be reported when the timer fires
  queued,       \* pendingStatusUpdates
  happenings,   \* how many of those there have been
  missed,       \* history: own messages of which an event was lost, or came
                \* together with one the page could place and it could not
  gone,         \* history: messages the page was not told of since the room was
                \* opened, was refused, or has dropped
  unreported    \* history: messages of failed reports since then

server == <<sent, unseen, distributed>>
wire == <<events, fetches, locals, marks>>
room == <<selected, switches>>
page == <<shown, oldest, loaded, watched, viewed, batch, queued>>
history == <<missed, gone, unreported>>
vars == <<server, wire, room, page, happenings, history>>

Init ==
  /\ sent = <<>> /\ unseen = [m \in Ids |-> {}] /\ distributed = {}
  /\ events = {} /\ fetches = {} /\ locals = <<>> /\ marks = {}
  /\ selected = NoRoom /\ switches = 0
  /\ shown = {} /\ oldest = Newest /\ loaded = FALSE
  /\ watched = {} /\ viewed = {} /\ batch = {} /\ queued = {}
  /\ happenings = 0
  /\ missed = {} /\ gone = {} /\ unreported = {}

Happens == happenings < MaxHappenings /\ happenings' = happenings + 1

Messages(r) == {m \in 1..Len(sent) : sent[m].room = r}
Mine(m) == sent[m].by = Me

\* Another message is written: of mine those count that are being sent.
Writes == Happens /\ Len(locals) + Cardinality({m \in 1..Len(sent) : ~Mine(m)}) < MaxMessages

\* The message of an entry, as the server names it; 0 if it has none yet.
MessageOf(x) == IF x.local = 0 THEN x.id ELSE locals[x.local].id

-----------------------------------------------------------------------------
(***************************************************************************)
(* The server, and what others do with it.                                 *)
(***************************************************************************)
Created(by, r) ==
  /\ sent' = Append(sent, [room |-> r, by |-> by])
  /\ unseen' = [unseen EXCEPT ![Len(sent) + 1] = ({Me} \cup Others) \ {by}]

\* Nobody is told who has muted the author, or blocked or been blocked by
\* the author, when the recipients are looked up.
CreateMessage(by, r, told) ==
  /\ Writes
  /\ Created(by, r)
  /\ events' = IF told
               THEN events \cup {[kind |-> "added", room |-> r, ids |-> {Len(sent) + 1}]}
               ELSE events
  /\ gone' = IF ~told /\ r = selected THEN gone \cup {Len(sent) + 1} ELSE gone
  /\ UNCHANGED <<distributed, fetches, locals, marks, room, page, missed, unreported>>

\* Somebody receives messages of mine, by an event or by asking for them.
setMessagesAsDistributed(r, ids) ==
  /\ Happens
  /\ ids # {} /\ ids \subseteq {m \in Messages(r) : Mine(m)} \ distributed
  /\ distributed' = distributed \cup ids
  /\ events' = events \cup {[kind |-> "distributed", room |-> r, ids |-> ids]}
  /\ UNCHANGED <<sent, unseen, fetches, locals, marks, room, page, history>>

\* Somebody has seen messages, having received them, perhaps in two rooms.
\* The author of any of them hears of all, once for each room.
SeenByOther(o, ids) ==
  /\ Happens
  /\ ids # {}
  /\ \A m \in ids : o \in unseen[m] /\ (Mine(m) => m \in distributed)
  /\ unseen' = [m \in Ids |-> IF m \in ids THEN unseen[m] \ {o} ELSE unseen[m]]
  /\ events' = events \cup {[kind |-> "seen", room |-> sent[m].room, ids |-> ids] :
                             m \in {n \in ids : Mine(n)}}
  /\ UNCHANGED <<sent, distributed, fetches, locals, marks, room, page, history>>

MarkMessagesAsSeen(ids) ==
  /\ unseen' = [m \in Ids |-> IF m \in ids THEN unseen[m] \ {Me} ELSE unseen[m]]
  /\ marks' = marks \ {ids}
  /\ UNCHANGED <<sent, distributed, events, fetches, locals, room, page, happenings, history>>

Current_ByRoom(f) == f.room = selected
  \* Fault: the room is compared, and not how often one has been opened.
Current_Any(f) == TRUE
  \* Fault: an answer is taken whatever is open by now.

\* No other room has been opened since.
Current(f) == f.switches = switches

\* The answer: the newest messages before the cursor, as they are now.  One
\* of mine counts as seen when everybody has seen it.
Loaded(m) ==
  Entry(m, 0, IF Mine(m) THEN unseen[m] = {} ELSE Me \notin unseen[m], m \in distributed)

Before(f) == {m \in Messages(f.room) : m < f.before}
Answered(f) == {m \in Before(f) : Cardinality({n \in Before(f) : n > m}) < PageSize}

Answer(f, answer) ==
  /\ ~f.answered
  /\ fetches' = (fetches \ {f}) \cup
                {[room |-> f.room, switches |-> f.switches, before |-> f.before,
                  answered |-> TRUE, answer |-> answer]}

Message(f) ==
  /\ Answer(f, {Loaded(m) : m \in Answered(f)})
  /\ UNCHANGED <<server, events, locals, marks, room, page, happenings, history>>

\* While the groups are switched off the answer is empty, and no refusal.
MessageGated(f) ==
  /\ Happens
  /\ Answer(f, {})
  /\ gone' = IF Current(f) THEN gone \cup Before(f) ELSE gone
  /\ UNCHANGED <<server, events, locals, marks, room, page, missed, unreported>>

-----------------------------------------------------------------------------
(***************************************************************************)
(* Opening a room and loading its messages.                                *)
(***************************************************************************)
Fetch(r, n, before) ==
  fetches' = fetches \cup {[room |-> r, switches |-> n, before |-> before,
                            answered |-> FALSE, answer |-> {}]}

OwnShown == {x.local : x \in {y \in shown : y.local # 0}}

openRoom_EmptiesBatch(r) ==
  /\ r # selected /\ Cardinality(fetches) < MaxAsking /\ Happens
  /\ selected' = r /\ switches' = switches + 1
  /\ Fetch(r, switches + 1, Newest)
  /\ shown' = {} /\ oldest' = Newest /\ loaded' = FALSE /\ watched' = {} /\ batch' = {}
  /\ viewed' = {} /\ gone' = {} /\ unreported' = {}
  /\ UNCHANGED <<server, events, locals, marks, queued, missed>>
  \* Fault: what was in view, and is not yet reported, goes with the room.

\* fetchMessages for another room.
openRoom(r) ==
  /\ r # selected /\ Cardinality(fetches) < MaxAsking /\ Happens
  /\ selected' = r /\ switches' = switches + 1
  /\ Fetch(r, switches + 1, Newest)
  /\ shown' = {} /\ oldest' = Newest /\ loaded' = FALSE /\ watched' = {}
  /\ viewed' = {} /\ gone' = {} /\ unreported' = {}
  /\ UNCHANGED <<server, events, locals, marks, batch, queued, missed>>

\* Leaving the page stops the timer and drops what it waits for.
beforeDestroy ==
  /\ selected # NoRoom /\ Happens
  /\ selected' = NoRoom /\ switches' = 0 /\ fetches' = {}
  /\ shown' = {} /\ oldest' = Newest /\ loaded' = FALSE
  /\ watched' = {} /\ batch' = {} /\ queued' = {}
  /\ viewed' = {} /\ gone' = {} /\ unreported' = {}
  /\ UNCHANGED <<server, events, locals, marks, missed>>

\* fetchMessages for the room that is open: older ones.
fetchMessages(r) ==
  /\ r = selected /\ ~loaded /\ Cardinality(fetches) < MaxAsking
  /\ Fetch(r, switches, oldest)
  /\ UNCHANGED <<server, events, locals, marks, room, page, happenings, history>>

\* Merged by indexId, which a message written here has not.
Kept(answer) == {x \in shown : x.id # 0 /\ \A y \in answer : y.id # x.id}

Untracked(answer) == {}
  \* Fault: what is loaded is not watched.

ToWatch(answer) == {x.id : x \in {y \in answer : ~y.seen /\ ~Mine(y.id)}}

LowestOf(ids) == CHOOSE m \in ids : \A n \in ids : m <= n

mergeMessages(f) ==
  LET ids == {x.id : x \in f.answer} IN
  /\ f.answered /\ Current(f)
  /\ fetches' = fetches \ {f}
  /\ shown' = Kept(f.answer) \cup f.answer
  /\ watched' = watched \cup ToWatch(f.answer)
  /\ oldest' = LowestOf(ids \cup {oldest})
  /\ loaded' = (loaded \/ Cardinality(f.answer) < PageSize)
  /\ UNCHANGED <<server, events, locals, marks, room, viewed, batch, queued,
                 happenings, history>>

\* The answer comes too late: another room is open, or this one anew.
LateAnswer(f) ==
  /\ f.answered /\ ~Current(f)
  /\ fetches' = fetches \ {f}
  /\ UNCHANGED <<server, events, locals, marks, room, page, happenings, history>>

\* The page is emptied, its cursor stays.
FetchFails(f) ==
  /\ Happens
  /\ fetches' = fetches \ {f}
  /\ IF Current(f)
     THEN /\ shown' = {} /\ viewed' = {}
          /\ gone' = gone \cup ({x.id : x \in shown} \ {0})
     ELSE UNCHANGED <<shown, viewed, gone>>
  /\ UNCHANGED <<server, events, locals, marks, room, oldest, loaded, watched, batch,
                 queued, missed, unreported>>

-----------------------------------------------------------------------------
(***************************************************************************)
(* Writing a message: it is shown at once, stored, and answered.           *)
(***************************************************************************)
sendMessage ==
  /\ selected # NoRoom /\ Writes
  /\ locals' = Append(locals, [stage |-> "out", room |-> selected, id |-> 0])
  /\ shown' = shown \cup {Entry(0, Len(locals) + 1, FALSE, FALSE)}
  /\ UNCHANGED <<server, events, fetches, marks, room, oldest, loaded, watched, viewed,
                 batch, queued, history>>

Store(l) ==
  /\ locals[l].stage = "out"
  /\ Created(Me, locals[l].room)
  /\ locals' = [locals EXCEPT ![l] = [stage |-> "stored", room |-> @.room,
                                      id |-> Len(sent) + 1]]
  /\ UNCHANGED <<distributed, events, fetches, marks, room, page, happenings, history>>

Applied_Not(x, m) == x
  \* Fault: what has been queued is thrown away.

\* What has been queued for a message is applied when it gets its id.
Applied(x, m) ==
  [x EXCEPT !.seen = @ \/ <<m, "seen">> \in queued,
            !.distributed = @ \/ <<m, "distributed">> \in queued]

replaceLocalMessage(l) ==
  LET m == locals[l].id IN
  /\ locals[l].stage = "stored"
  /\ locals' = [locals EXCEPT ![l].stage = "known"]
  /\ shown' = {IF x.local = l THEN Applied(x, m) ELSE x : x \in shown}
  /\ queued' = IF l \in OwnShown THEN queued \ ({m} \X {"seen", "distributed"}) ELSE queued
  /\ UNCHANGED <<server, events, fetches, marks, room, oldest, loaded, watched, viewed,
                 batch, happenings, history>>

\* The call fails before or after the message was stored.
SendFails(l) ==
  /\ Happens
  /\ locals[l].stage \in {"out", "stored"}
  /\ locals' = [locals EXCEPT ![l].stage = "failed"]
  /\ shown' = {x \in shown : x.local # l}
  /\ UNCHANGED <<server, events, fetches, marks, room, oldest, loaded, watched, viewed,
                 batch, queued, history>>

-----------------------------------------------------------------------------
(***************************************************************************)
(* Events.                                                                 *)
(***************************************************************************)
addSocketMessage(e) ==
  /\ e.kind = "added"
  /\ events' = events \ {e}
  /\ IF e.room = selected /\ \A x \in shown : x.id \notin e.ids
     THEN /\ shown' = shown \cup {Entry(m, 0, FALSE, FALSE) : m \in e.ids}
          /\ watched' = watched \cup e.ids
     ELSE UNCHANGED <<shown, watched>>
  /\ UNCHANGED <<server, fetches, locals, marks, room, oldest, loaded, viewed, batch,
                 queued, happenings, history>>

\* The entry is of one of those messages, by its id or by the one it was
\* stored under.
Affected(x, ids) ==
  \/ x.id \in ids
  \/ x.local # 0 /\ locals[x.local].stage = "known" /\ locals[x.local].id \in ids

Updated_Both(x, kind) == [x EXCEPT !.seen = TRUE, !.distributed = TRUE]
  \* Fault: what was received counts as seen.

Updated(x, kind) ==
  IF kind = "seen" THEN [x EXCEPT !.seen = TRUE] ELSE [x EXCEPT !.distributed = TRUE]

Placed(ids) == \E x \in shown : Affected(x, ids)

\* Updates are queued if none of the messages shown is meant.
handleMessageStatusUpdated(e) ==
  /\ e.kind # "added"
  /\ events' = events \ {e}
  /\ IF e.room = selected
     THEN /\ shown' = {IF Affected(x, e.ids) THEN Updated(x, e.kind) ELSE x : x \in shown}
          /\ queued' = IF Placed(e.ids) THEN queued ELSE queued \cup (e.ids \X {e.kind})
          /\ missed' = missed \cup {m \in e.ids \cap Messages(e.room) :
                                  Placed(e.ids) /\ ~Placed({m})}
     ELSE UNCHANGED <<shown, queued, missed>>
  /\ UNCHANGED <<server, fetches, locals, marks, room, oldest, loaded, watched, viewed,
                 batch, happenings, gone, unreported>>

Lose(e) ==
  /\ Happens
  /\ events' = events \ {e}
  /\ IF e.kind = "added"
     THEN /\ gone' = IF e.room = selected THEN gone \cup e.ids ELSE gone
          /\ UNCHANGED missed
     ELSE missed' = missed \cup e.ids /\ UNCHANGED gone
  /\ UNCHANGED <<server, fetches, locals, marks, room, page, unreported>>

-----------------------------------------------------------------------------
(***************************************************************************)
(* Reporting what has been seen.                                           *)
(***************************************************************************)
\* An element is observed once: it keeps its data-unseen-id.
ComesIntoView(m) ==
  /\ m \in watched \ viewed /\ \E x \in shown : x.id = m
  /\ watched' = watched \ {m} /\ viewed' = viewed \cup {m}
  /\ batch' = batch \cup {m}
  /\ UNCHANGED <<server, wire, room, shown, oldest, loaded, queued, happenings,
                 history>>

markAsSeen_Unasked ==
  /\ selected # NoRoom
  /\ batch' = {}
  /\ shown' = {IF x.id \in batch THEN [x EXCEPT !.seen = TRUE] ELSE x : x \in shown}
  /\ marks' = marks \cup {batch}
  /\ UNCHANGED <<server, events, fetches, locals, room, oldest, loaded, watched, viewed,
                 queued, happenings, history>>
  \* Fault: the timer reports what is not there.

\* The timer fires.
markAsSeen ==
  /\ batch # {}
  /\ batch' = {}
  /\ shown' = {IF x.id \in batch THEN [x EXCEPT !.seen = TRUE] ELSE x : x \in shown}
  /\ marks' = marks \cup {batch}
  /\ UNCHANGED <<server, events, fetches, locals, room, oldest, loaded, watched, viewed,
                 queued, happenings, history>>

MarkFails(ids) ==
  /\ Happens
  /\ marks' = marks \ {ids} /\ unreported' = unreported \cup ids
  /\ UNCHANGED <<server, events, fetches, locals, room, page, missed, gone>>

Next ==
  \/ \E r \in Rooms :
       \/ openRoom(r) \/ fetchMessages(r)
       \/ \E o \in Others, told \in BOOLEAN : CreateMessage(o, r, told)
       \/ \E ids \in SUBSET Messages(r) : setMessagesAsDistributed(r, ids)
  \/ \E o \in Others, ids \in SUBSET (1..Len(sent)) : SeenByOther(o, ids)
  \/ \E f \in fetches :
       \/ Message(f) \/ MessageGated(f)
       \/ mergeMessages(f) \/ LateAnswer(f) \/ FetchFails(f)
  \/ sendMessage \/ beforeDestroy
  \/ \E l \in 1..Len(locals) : Store(l) \/ replaceLocalMessage(l) \/ SendFails(l)
  \/ \E e \in events : addSocketMessage(e) \/ handleMessageStatusUpdated(e) \/ Lose(e)
  \/ \E m \in watched : ComesIntoView(m)
  \/ markAsSeen
  \/ \E ids \in marks : MarkMessagesAsSeen(ids) \/ MarkFails(ids)

Spec == Init /\ [][Next]_vars

-----------------------------------------------------------------------------
TypeOK ==
  /\ sent \in Seq([room : Rooms, by : {Me} \cup Others])
  /\ unseen \in [Ids -> SUBSET ({Me} \cup Others)]
  /\ distributed \subseteq Ids
  /\ events \subseteq [kind : {"added", "distributed", "seen"}, room : Rooms,
                       ids : (SUBSET Ids) \ {{}}]
  /\ \A f \in fetches : /\ f.room \in Rooms /\ f.switches \in 1..MaxHappenings
                        /\ f.before \in Ids \cup {Newest} /\ f.answer \subseteq Entries
  /\ locals \in Seq([stage : {"out", "stored", "known", "failed"}, room : Rooms,
                     id : {0} \cup Ids])
  /\ marks \subseteq (SUBSET Ids) \ {{}}
  /\ selected \in Rooms \cup {NoRoom} /\ switches \in 0..MaxHappenings
  /\ shown \subseteq Entries
  /\ oldest \in Ids \cup {Newest} /\ loaded \in BOOLEAN
  /\ {watched, viewed, batch} \subseteq SUBSET Ids
  /\ queued \subseteq Ids \X {"seen", "distributed"}
  /\ happenings \in 0..MaxHappenings
  /\ {missed, gone, unreported} \subseteq SUBSET Ids

(***************************************************************************)
(* The page shows messages of the room that is open, and each of them      *)
(* once: an answer that comes after another room was opened does not end   *)
(* up there (Chat.vue:969-972), and a message written here is not there a  *)
(* second time when it is loaded.                                          *)
(***************************************************************************)
ShownOnceInItsRoom ==
  /\ \A x \in shown :
       IF x.local = 0 THEN x.id \in Messages(selected) ELSE locals[x.local].room = selected
  /\ \A x, y \in shown : MessageOf(x) = MessageOf(y) /\ MessageOf(x) # 0 => x = y

(***************************************************************************)
(* The page does not say of a message of mine what is not so: it was       *)
(* received or seen by somebody, whichever of answers, events and queued   *)
(* updates said it last.                                                   *)
(***************************************************************************)
StatusIsTrue ==
  \A x \in shown : LET m == MessageOf(x) IN
    /\ x.local # 0 /\ m = 0 => ~x.seen /\ ~x.distributed
    /\ m # 0 /\ Mine(m) => /\ x.seen => unseen[m] # Others \/ Others = {}
                           /\ x.distributed => m \in distributed

(***************************************************************************)
(* And it says what is so: of a message written here, from its answer on,  *)
(* the page shows that it was received or seen, or the event is on its way *)
(* - though events come before that answer (Chat.vue:1069-1076).  What is  *)
(* forgotten is the update that came in one event with that of a message   *)
(* the page could place already.                                           *)
(***************************************************************************)
Coming(m, kind) == \E e \in events : e.kind = kind /\ m \in e.ids

StatusArrives ==
  \A x \in shown : LET m == MessageOf(x) IN
    x.local # 0 /\ locals[x.local].stage = "known" /\ m \notin missed =>
      /\ unseen[m] # Others => x.seen \/ Coming(m, "seen")
      /\ m \in distributed => x.distributed \/ Coming(m, "distributed")

(***************************************************************************)
(* What the reader has had before the eyes is reported, though the room    *)
(* was left before the timer fired (Chat.vue:670-677): it is seen, as the  *)
(* server has it, when it is no longer owed.  Only a report that fails is  *)
(* not repeated, and leaving the page drops what is not yet reported.      *)
(***************************************************************************)
Owed == batch \cup (UNION marks)

ReadIsReported ==
  [][\A m \in Owed \ Owed' :
       Me \notin unseen'[m] \/ beforeDestroy \/ \E ids \in marks : MarkFails(ids)]_vars

(***************************************************************************)
(* And it can be: a message of others that the page shows as not seen will *)
(* be reported when it comes into view, or has been in view, as one that   *)
(* an older answer has shown anew (Chat.vue:697 does not observe it        *)
(* again), and then its report is owed, was made or has failed.            *)
(***************************************************************************)
UnseenIsWatched ==
  \A x \in shown : x.id # 0 /\ ~Mine(x.id) /\ ~x.seen =>
    \/ x.id \in (watched \ viewed) \cup Owed \cup unreported
    \/ Me \notin unseen[x.id]

(***************************************************************************)
(* The page has no gaps: from the oldest message it has loaded on, it      *)
(* shows what others have written in the room, or will be told, whatever   *)
(* questions are still out.  Of each message that is not so, since the     *)
(* room was opened: the event was lost; or there was none, because reader  *)
(* and author have muted or blocked one another                            *)
(* (notificationsMiddleware.ts:662-663); or an answer that should have had *)
(* it was empty, because the groups were off (messages.ts:91-100); or a    *)
(* failed fetch has taken it off the page, the cursor staying where it was *)
(* (Chat.vue:995-998).                                                     *)
(***************************************************************************)
NoGaps ==
  selected # NoRoom =>
    \A m \in Messages(selected) \ gone : ~Mine(m) /\ (loaded \/ m >= oldest) =>
      (\E x \in shown : x.id = m) \/ Coming(m, "added")
=============================================================================
