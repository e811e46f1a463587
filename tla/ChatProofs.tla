----------------------------- MODULE ChatProofs -----------------------------
(***************************************************************************)
(* Proofs about Chat, for any rooms, people, page size and bounds.         *)
(*                                                                         *)
(* First, for every variable, the actions that move it.  Then, layer by    *)
(* layer, what the properties rest on: the types; where the messages,      *)
(* answers and events on their way come from; what the page shows; what it *)
(* says of its own messages; and that nothing is left out.                 *)
(***************************************************************************)
EXTENDS Chat, FiniteSetTheorems, FunctionTheorems, SequenceTheorems, WellFoundedInduction, TLAPS

USE ChatAssumption

-----------------------------------------------------------------------------
(***************************************************************************)
(* Which actions move which variable.                                      *)
(***************************************************************************)
LEMMA SentMoves ==
  ASSUME [Next]_vars
  PROVE  \/ UNCHANGED sent
         \/ \E r \in Rooms, o \in Others, t \in BOOLEAN : CreateMessage(o, r, t)
         \/ \E l \in 1..Len(locals) : Store(l)
BY DEF Next, vars, server, wire, room, page, history, openRoom, beforeDestroy, fetchMessages,
       setMessagesAsDistributed, SeenByOther, MarkMessagesAsSeen, Message, MessageGated,
       mergeMessages,
       LateAnswer, FetchFails, sendMessage, replaceLocalMessage, SendFails, addSocketMessage,
       handleMessageStatusUpdated, Lose, ComesIntoView, markAsSeen, MarkFails

LEMMA UnseenMoves ==
  ASSUME [Next]_vars
  PROVE  \/ UNCHANGED <<sent, unseen>>
         \/ \E r \in Rooms, o \in Others, t \in BOOLEAN : CreateMessage(o, r, t)
         \/ \E l \in 1..Len(locals) : Store(l)
         \/ \E o \in Others, ids \in SUBSET (1..Len(sent)) : SeenByOther(o, ids)
         \/ \E ids \in marks : MarkMessagesAsSeen(ids)
BY DEF Next, vars, server, wire, room, page, history, openRoom, beforeDestroy, fetchMessages,
       setMessagesAsDistributed, Message, MessageGated, mergeMessages,
       LateAnswer, FetchFails, sendMessage, replaceLocalMessage, SendFails, addSocketMessage,
       handleMessageStatusUpdated, Lose, ComesIntoView, markAsSeen, MarkFails

LEMMA DistributedMoves ==
  ASSUME [Next]_vars
  PROVE  \/ UNCHANGED distributed
         \/ \E r \in Rooms : \E ids \in SUBSET Messages(r) : setMessagesAsDistributed(r, ids)
BY DEF Next, vars, server, wire, room, page, history, openRoom, beforeDestroy, fetchMessages,
       CreateMessage, SeenByOther, MarkMessagesAsSeen, Message, MessageGated,
       mergeMessages,
       LateAnswer, FetchFails, sendMessage, Store, replaceLocalMessage, SendFails,
       addSocketMessage, handleMessageStatusUpdated, Lose, ComesIntoView, markAsSeen, MarkFails

\* Events are added by the server; the others only take one away.
LEMMA EventsMove ==
  ASSUME [Next]_vars
  PROVE  \/ \E r \in Rooms, o \in Others, t \in BOOLEAN : CreateMessage(o, r, t)
         \/ \E r \in Rooms : \E ids \in SUBSET Messages(r) : setMessagesAsDistributed(r, ids)
         \/ \E o \in Others, ids \in SUBSET (1..Len(sent)) : SeenByOther(o, ids)
         \/ \E e \in events : \/ addSocketMessage(e) \/ handleMessageStatusUpdated(e)
                              \/ Lose(e)
         \/ UNCHANGED events
BY DEF Next, vars, server, wire, room, page, history, openRoom, beforeDestroy, fetchMessages,
       MarkMessagesAsSeen, Message, MessageGated, mergeMessages,
       LateAnswer, FetchFails, sendMessage, Store, replaceLocalMessage, SendFails,
       ComesIntoView, markAsSeen, MarkFails

LEMMA FetchesMove ==
  ASSUME [Next]_vars
  PROVE  \/ \E r \in Rooms : openRoom(r) \/ fetchMessages(r)
         \/ beforeDestroy
         \/ \E f \in fetches : \/ Message(f) \/ MessageGated(f)
                               \/ mergeMessages(f) \/ LateAnswer(f) \/ FetchFails(f)
         \/ UNCHANGED fetches
BY DEF Next, vars, server, wire, room, page, history, CreateMessage,
       setMessagesAsDistributed, SeenByOther, MarkMessagesAsSeen,
       sendMessage, Store, replaceLocalMessage, SendFails, addSocketMessage,
       handleMessageStatusUpdated, Lose, ComesIntoView, markAsSeen, MarkFails

LEMMA LocalsMove ==
  ASSUME [Next]_vars
  PROVE  \/ sendMessage
         \/ \E l \in 1..Len(locals) : Store(l) \/ replaceLocalMessage(l) \/ SendFails(l)
         \/ UNCHANGED locals
BY DEF Next, vars, server, wire, room, page, history, openRoom, beforeDestroy, fetchMessages,
       CreateMessage, setMessagesAsDistributed, SeenByOther, MarkMessagesAsSeen, Message,
       MessageGated,
       mergeMessages, LateAnswer, FetchFails, addSocketMessage,
       handleMessageStatusUpdated, Lose, ComesIntoView, markAsSeen, MarkFails

LEMMA MarksMove ==
  ASSUME [Next]_vars
  PROVE  \/ \E ids \in marks : MarkMessagesAsSeen(ids) \/ MarkFails(ids)
         \/ markAsSeen
         \/ UNCHANGED marks
BY DEF Next, vars, server, wire, room, page, history, openRoom, beforeDestroy, fetchMessages,
       CreateMessage, setMessagesAsDistributed, SeenByOther, Message, MessageGated, mergeMessages,
       LateAnswer, FetchFails, sendMessage, Store, replaceLocalMessage, SendFails,
       addSocketMessage, handleMessageStatusUpdated, Lose, ComesIntoView

LEMMA RoomMoves ==
  ASSUME [Next]_vars
  PROVE  \/ \E r \in Rooms : openRoom(r)
         \/ beforeDestroy
         \/ UNCHANGED <<selected, switches>>
BY DEF Next, vars, server, wire, room, page, history, fetchMessages,
       CreateMessage, setMessagesAsDistributed, SeenByOther, MarkMessagesAsSeen, Message,
       MessageGated,
       mergeMessages, LateAnswer, FetchFails, sendMessage, Store, replaceLocalMessage,
       SendFails, addSocketMessage, handleMessageStatusUpdated, Lose, ComesIntoView,
       markAsSeen, MarkFails

LEMMA ShownMoves ==
  ASSUME [Next]_vars
  PROVE  \/ \E r \in Rooms : openRoom(r)
         \/ beforeDestroy
         \/ \E f \in fetches : mergeMessages(f) \/ FetchFails(f)
         \/ sendMessage
         \/ \E l \in 1..Len(locals) : replaceLocalMessage(l) \/ SendFails(l)
         \/ \E e \in events : addSocketMessage(e) \/ handleMessageStatusUpdated(e)
         \/ markAsSeen
         \/ UNCHANGED shown
BY DEF Next, vars, server, wire, room, page, history, fetchMessages,
       CreateMessage, setMessagesAsDistributed, SeenByOther, MarkMessagesAsSeen, Message,
       MessageGated,
       LateAnswer, Store, Lose, ComesIntoView, MarkFails

LEMMA CursorMoves ==
  ASSUME [Next]_vars
  PROVE  \/ \E r \in Rooms : openRoom(r)
         \/ beforeDestroy
         \/ \E f \in fetches : mergeMessages(f)
         \/ UNCHANGED <<oldest, loaded>>
BY DEF Next, vars, server, wire, room, page, history, fetchMessages,
       CreateMessage, setMessagesAsDistributed, SeenByOther, MarkMessagesAsSeen, Message,
       MessageGated,
       LateAnswer, FetchFails, sendMessage, Store, replaceLocalMessage,
       SendFails, addSocketMessage, handleMessageStatusUpdated, Lose, ComesIntoView,
       markAsSeen, MarkFails

LEMMA WatchMoves ==
  ASSUME [Next]_vars
  PROVE  \/ \E r \in Rooms : openRoom(r)
         \/ beforeDestroy
         \/ \E f \in fetches : mergeMessages(f) \/ FetchFails(f)
         \/ \E e \in events : addSocketMessage(e)
         \/ \E m \in watched : ComesIntoView(m)
         \/ markAsSeen
         \/ UNCHANGED <<watched, viewed, batch>>
BY DEF Next, vars, server, wire, room, page, history, fetchMessages,
       CreateMessage, setMessagesAsDistributed, SeenByOther, MarkMessagesAsSeen, Message,
       MessageGated,
       LateAnswer, sendMessage, Store, replaceLocalMessage,
       SendFails, handleMessageStatusUpdated, Lose, MarkFails

LEMMA QueuedMoves ==
  ASSUME [Next]_vars
  PROVE  \/ beforeDestroy
         \/ \E l \in 1..Len(locals) : replaceLocalMessage(l)
         \/ \E e \in events : handleMessageStatusUpdated(e)
         \/ UNCHANGED queued
BY DEF Next, vars, server, wire, room, page, history, openRoom, fetchMessages,
       CreateMessage, setMessagesAsDistributed, SeenByOther, MarkMessagesAsSeen, Message,
       MessageGated,
       mergeMessages, LateAnswer, FetchFails, sendMessage, Store,
       SendFails, addSocketMessage, Lose, ComesIntoView, markAsSeen, MarkFails

LEMMA HistoryMoves ==
  ASSUME [Next]_vars
  PROVE  \/ \E r \in Rooms : openRoom(r)
         \/ beforeDestroy
         \/ \E r \in Rooms, o \in Others, t \in BOOLEAN : CreateMessage(o, r, t)
         \/ \E f \in fetches : MessageGated(f) \/ FetchFails(f)
         \/ \E e \in events : handleMessageStatusUpdated(e) \/ Lose(e)
         \/ \E ids \in marks : MarkFails(ids)
         \/ UNCHANGED <<missed, gone, unreported>>
BY DEF Next, vars, server, wire, room, page, history, fetchMessages,
       setMessagesAsDistributed, SeenByOther, MarkMessagesAsSeen, Message,
       mergeMessages, LateAnswer, sendMessage, Store, replaceLocalMessage,
       SendFails, addSocketMessage, ComesIntoView, markAsSeen

LEMMA HappeningsMove ==
  ASSUME [Next]_vars
  PROVE  \/ Happens
         \/ UNCHANGED <<happenings, selected, switches>>
BY DEF Next, vars, server, wire, room, page, history, openRoom, beforeDestroy, fetchMessages,
       CreateMessage, setMessagesAsDistributed, SeenByOther, MarkMessagesAsSeen, Message,
       MessageGated,
       mergeMessages, LateAnswer, FetchFails, sendMessage, Store, replaceLocalMessage,
       SendFails, addSocketMessage, handleMessageStatusUpdated, Lose, ComesIntoView,
       markAsSeen, MarkFails, Writes

-----------------------------------------------------------------------------
(***************************************************************************)
(* The types, and where what is on its way comes from.                     *)
(***************************************************************************)
MessageType == [room : Rooms, by : {Me} \cup Others]
LocalType == [stage : {"out", "stored", "known", "failed"}, room : Rooms, id : {0} \cup Ids]
FetchType == [room : Rooms, switches : 1..MaxHappenings, before : Ids \cup {Newest},
              answered : BOOLEAN, answer : SUBSET Entries]

OthersWrote == {m \in 1..Len(sent) : ~Mine(m)}
Stored == {l \in 1..Len(locals) : locals[l].id # 0}

\* Every message of mine is one that was written here; with those that are
\* still being sent there are no more than MaxMessages.
Counted ==
  /\ Len(locals) + Cardinality(OthersWrote) <= MaxMessages
  /\ Len(sent) = Cardinality(OthersWrote) + Cardinality(Stored)

LocalsAreMine ==
  \A l \in 1..Len(locals) :
    /\ locals[l].stage = "out" => locals[l].id = 0
    /\ locals[l].stage \in {"stored", "known"} => locals[l].id # 0
    /\ locals[l].id # 0 => locals[l].id \in Messages(locals[l].room) /\ Mine(locals[l].id)
    /\ \A k \in 1..Len(locals) : locals[k].id = locals[l].id /\ locals[l].id # 0 => k = l

AnswersInRoom ==
  \A f \in fetches :
    /\ \A x \in f.answer : x.local = 0 /\ x.id \in Messages(f.room)
    /\ \A x, y \in f.answer : x.id = y.id => x = y

EventsNameMessages ==
  \A e \in events :
    /\ e.ids \subseteq 1..Len(sent)
    /\ e.kind = "added" => \E m \in Messages(e.room) : ~Mine(m) /\ e.ids = {m}

OthersWatched == (watched \cup viewed \cup batch) \subseteq OthersWrote

Typed ==
  /\ TypeOK
  /\ fetches \subseteq FetchType
  /\ switches <= happenings /\ (selected # NoRoom => switches >= 1)

Sources ==
  /\ Counted /\ LocalsAreMine /\ AnswersInRoom /\ EventsNameMessages /\ OthersWatched

LEMMA SentType ==
  ASSUME TypeOK
  PROVE  /\ Len(sent) \in Nat /\ sent \in Seq(MessageType)
         /\ \A m \in 1..Len(sent) : sent[m] \in MessageType
<1>1. sent \in Seq(MessageType)
  BY DEF TypeOK, MessageType
<1> HIDE DEF MessageType
<1> QED
  BY <1>1, LenProperties, ElementOfSeq

LEMMA LocalsType ==
  ASSUME TypeOK
  PROVE  /\ Len(locals) \in Nat /\ locals \in Seq(LocalType)
         /\ \A l \in 1..Len(locals) : locals[l] \in LocalType
<1>1. locals \in Seq(LocalType)
  BY DEF TypeOK, LocalType
<1> HIDE DEF LocalType
<1> QED
  BY <1>1, LenProperties, ElementOfSeq

\* The next message takes its place after all the others.
LEMMA CreatedNext ==
  ASSUME TypeOK, NEW by \in {Me} \cup Others, NEW r \in Rooms, Created(by, r)
  PROVE  /\ sent' \in Seq(MessageType) /\ Len(sent') = Len(sent) + 1
         /\ \A m \in 1..Len(sent) : sent'[m] = sent[m]
         /\ sent'[Len(sent) + 1].room = r /\ sent'[Len(sent) + 1].by = by
         /\ unseen' \in [Ids -> SUBSET ({Me} \cup Others)]
         /\ Len(sent) + 1 \in Ids => unseen'[Len(sent) + 1] = ({Me} \cup Others) \ {by}
         /\ \A m \in 1..Len(sent) : m \in Ids => unseen'[m] = unseen[m]
<1> DEFINE new == [room |-> r, by |-> by]
<1>1. new \in MessageType
  BY DEF MessageType
<1>2. sent' = Append(sent, new)
  BY DEF Created
<1>3. Len(sent) \in Nat /\ sent \in Seq(MessageType)
  BY SentType
<1>4. /\ unseen' \in [Ids -> SUBSET ({Me} \cup Others)]
      /\ Len(sent) + 1 \in Ids => unseen'[Len(sent) + 1] = ({Me} \cup Others) \ {by}
      /\ \A m \in 1..Len(sent) : m \in Ids => unseen'[m] = unseen[m]
  <2>1. /\ unseen \in [Ids -> SUBSET ({Me} \cup Others)]
        /\ unseen' = [unseen EXCEPT ![Len(sent) + 1] = ({Me} \cup Others) \ {by}]
    BY DEF Created, TypeOK
  <2>2. \A m \in 1..Len(sent) : m # Len(sent) + 1
    BY <1>3
  <2> HIDE DEF Ids
  <2> QED
    BY <2>1, <2>2
<1> HIDE DEF new, MessageType
<1>5. /\ sent' \in Seq(MessageType) /\ Len(sent') = Len(sent) + 1
      /\ \A m \in 1..Len(sent) : sent'[m] = sent[m]
      /\ sent'[Len(sent) + 1] = new
  BY <1>1, <1>2, <1>3
<1> QED
  BY <1>4, <1>5 DEF new

\* A message, once written, stays as it is.
LEMMA SentGrows ==
  ASSUME TypeOK, [Next]_vars
  PROVE  /\ Len(sent) \in Nat /\ Len(sent') \in Nat
         /\ 1..Len(sent) \subseteq 1..Len(sent')
         /\ \A m \in 1..Len(sent) : sent'[m] = sent[m] /\ (Mine(m)' <=> Mine(m))
         /\ \A r : \A m \in 1..Len(sent) : m \in Messages(r)' <=> m \in Messages(r)
         /\ \A r : Messages(r) \subseteq Messages(r)'
         /\ OthersWrote \subseteq OthersWrote'
<1> DEFINE Grows == /\ Len(sent) \in Nat /\ Len(sent') \in Nat
                    /\ 1..Len(sent) \subseteq 1..Len(sent')
                    /\ \A m \in 1..Len(sent) : sent'[m] = sent[m]
<1>1. Grows
  <2>0. ASSUME NEW by \in {Me} \cup Others, NEW r \in Rooms, Created(by, r)
        PROVE  Grows
    <3>1. /\ Len(sent) \in Nat /\ Len(sent') = Len(sent) + 1
          /\ \A m \in 1..Len(sent) : sent'[m] = sent[m]
      BY <2>0, CreatedNext, SentType
    <3> QED
      BY <3>1
  <2>1. CASE UNCHANGED sent
    BY <2>1, SentType
  <2>2. ASSUME NEW r \in Rooms, NEW o \in Others, NEW t \in BOOLEAN, CreateMessage(o, r, t)
        PROVE  Grows
    BY <2>0, <2>2 DEF CreateMessage
  <2>3. ASSUME NEW l \in 1..Len(locals), Store(l)
        PROVE  Grows
    <3>1. locals[l].room \in Rooms
      BY LocalsType DEF LocalType
    <3>2. Created(Me, locals[l].room)
      BY <2>3 DEF Store
    <3> QED
      BY <2>0, <3>1, <3>2
  <2> QED
    BY <2>1, <2>2, <2>3, SentMoves
<1>2. \A m \in 1..Len(sent) : Mine(m)' <=> Mine(m)
  BY <1>1 DEF Mine
<1> QED
  BY <1>1, <1>2 DEF Messages, OthersWrote

LEMMA Staged ==
  \A x \in LocalType : \A s : [x EXCEPT !.stage = s] = [stage |-> s, room |-> x.room, id |-> x.id]
BY DEF LocalType

\* What becomes of the messages written here.
LEMMA sendMessageLocals ==
  ASSUME TypeOK, sendMessage
  PROVE  /\ locals' \in Seq(LocalType) /\ Len(locals') = Len(locals) + 1
         /\ \A k \in 1..Len(locals) : locals'[k] = locals[k]
         /\ locals'[Len(locals) + 1].stage = "out"
         /\ locals'[Len(locals) + 1].room = selected
         /\ locals'[Len(locals) + 1].id = 0
<1> DEFINE new == [stage |-> "out", room |-> selected, id |-> 0]
<1>1. locals' = Append(locals, new)
  BY DEF sendMessage
<1>2. new \in LocalType
  BY DEF sendMessage, TypeOK, LocalType
<1>3. Len(locals) \in Nat /\ locals \in Seq(LocalType)
  BY LocalsType
<1> HIDE DEF new, LocalType
<1>4. /\ locals' \in Seq(LocalType) /\ Len(locals') = Len(locals) + 1
      /\ \A k \in 1..Len(locals) : locals'[k] = locals[k]
      /\ locals'[Len(locals) + 1] = new
  BY <1>1, <1>2, <1>3
<1> QED
  BY <1>4 DEF new

LEMMA StoreLocals ==
  ASSUME TypeOK, NEW l \in 1..Len(locals), Store(l), Len(sent) + 1 \in Ids
  PROVE  /\ locals' \in Seq(LocalType) /\ Len(locals') = Len(locals)
         /\ \A k \in 1..Len(locals) : k # l => locals'[k] = locals[k]
         /\ locals'[l].stage = "stored" /\ locals'[l].room = locals[l].room
         /\ locals'[l].id = Len(sent) + 1
<1> DEFINE new == [stage |-> "stored", room |-> locals[l].room, id |-> Len(sent) + 1]
<1>1. locals[l] \in LocalType /\ locals \in Seq(LocalType)
  BY LocalsType
<1>2. new \in LocalType
  BY <1>1 DEF LocalType
<1>3. locals' = [locals EXCEPT ![l] = new]
  BY DEF Store
<1> HIDE DEF new, LocalType
<1>4. /\ locals' \in Seq(LocalType) /\ Len(locals') = Len(locals)
      /\ \A k \in 1..Len(locals) : k # l => locals'[k] = locals[k]
      /\ locals'[l] = new
  BY <1>1, <1>2, <1>3, ExceptSeq
<1> QED
  BY <1>4 DEF new

LEMMA StageLocals ==
  ASSUME TypeOK, NEW l \in 1..Len(locals), NEW stage \in {"known", "failed"},
         locals' = [locals EXCEPT ![l].stage = stage]
  PROVE  /\ locals' \in Seq(LocalType) /\ Len(locals') = Len(locals)
         /\ \A k \in 1..Len(locals) : k # l => locals'[k] = locals[k]
         /\ locals'[l].stage = stage /\ locals'[l].room = locals[l].room
         /\ locals'[l].id = locals[l].id
<1> DEFINE new == [stage |-> stage, room |-> locals[l].room, id |-> locals[l].id]
<1>1. locals[l] \in LocalType /\ locals \in Seq(LocalType)
  BY LocalsType
<1>2. new \in LocalType
  BY <1>1 DEF LocalType
<1>3. locals' = [locals EXCEPT ![l] = new]
  <2> DEFINE x == locals[l]
  <2>1. [x EXCEPT !.stage = stage] = [stage |-> stage, room |-> x.room, id |-> x.id]
    <3> HIDE DEF LocalType
    <3> QED
      BY <1>1, Staged, Zenon
  <2>2. [locals EXCEPT ![l].stage = stage] =
          [locals EXCEPT ![l] = [locals[l] EXCEPT !.stage = stage]]
    BY Zenon
  <2> QED
    BY <2>1, <2>2, Zenon
<1> HIDE DEF new, LocalType
<1>4. /\ locals' \in Seq(LocalType) /\ Len(locals') = Len(locals)
      /\ \A k \in 1..Len(locals) : k # l => locals'[k] = locals[k]
      /\ locals'[l] = new
  BY <1>1, <1>2, <1>3, ExceptSeq
<1> QED
  BY <1>4 DEF new

\* An answer, or a failure, leaves a message its room and what it is stored as.
LEMMA AnsweredLocals ==
  ASSUME TypeOK, NEW l \in 1..Len(locals), replaceLocalMessage(l) \/ SendFails(l)
  PROVE  /\ locals' \in Seq(LocalType) /\ Len(locals') = Len(locals)
         /\ \A k \in 1..Len(locals) : k # l => locals'[k] = locals[k]
         /\ locals'[l].room = locals[l].room /\ locals'[l].id = locals[l].id
         /\ \/ locals'[l].stage = "failed"
            \/ locals'[l].stage = "known" /\ locals[l].stage = "stored"
<1>1. CASE replaceLocalMessage(l)
  <2>1. locals[l].stage = "stored"
    BY <1>1 DEF replaceLocalMessage
  <2>2. locals' = [locals EXCEPT ![l].stage = "known"] /\ "known" \in {"known", "failed"}
    BY <1>1 DEF replaceLocalMessage
  <2>3. /\ locals' \in Seq(LocalType) /\ Len(locals') = Len(locals)
        /\ \A k \in 1..Len(locals) : k # l => locals'[k] = locals[k]
        /\ locals'[l].stage = "known" /\ locals'[l].room = locals[l].room
        /\ locals'[l].id = locals[l].id
    BY <2>2, StageLocals, Zenon
  <2> QED
    BY <2>1, <2>3
<1>2. CASE SendFails(l)
  <2>1. locals' = [locals EXCEPT ![l].stage = "failed"] /\ "failed" \in {"known", "failed"}
    BY <1>2 DEF SendFails
  <2>2. /\ locals' \in Seq(LocalType) /\ Len(locals') = Len(locals)
        /\ \A k \in 1..Len(locals) : k # l => locals'[k] = locals[k]
        /\ locals'[l].stage = "failed" /\ locals'[l].room = locals[l].room
        /\ locals'[l].id = locals[l].id
    BY <2>1, StageLocals, Zenon
  <2> QED
    BY <2>2
<1> QED
  BY <1>1, <1>2

\* There is a number for the message that is written.
LEMMA StoredFits ==
  ASSUME TypeOK
  PROVE  /\ IsFiniteSet(Stored) /\ Cardinality(Stored) \in Nat
         /\ Cardinality(Stored) <= Len(locals)
         /\ \A l \in 1..Len(locals) : locals[l].id = 0 => Cardinality(Stored) < Len(locals)
         /\ IsFiniteSet(OthersWrote) /\ Cardinality(OthersWrote) \in Nat
<1> DEFINE all == 1..Len(locals)
<1>0. Len(locals) \in Nat /\ Len(sent) \in Nat
  BY SentType, LocalsType
<1>1. /\ IsFiniteSet(all) /\ Cardinality(all) = Len(locals)
      /\ IsFiniteSet(1..Len(sent))
  <2>1. ASSUME NEW n \in Nat PROVE IsFiniteSet(1..n) /\ Cardinality(1..n) = n
    <3>1. 1 \in Int /\ n \in Int
      OBVIOUS
    <3>2. /\ IsFiniteSet(1..n)
          /\ Cardinality(1..n) = IF 1 > n THEN 0 ELSE n - 1 + 1
      BY <3>1, FS_Interval, Zenon
    <3> QED
      BY <3>2
  <2> QED
    BY <1>0, <2>1
<1>2. Stored \in SUBSET all
  BY DEF Stored
<1>3. IsFiniteSet(Stored) /\ Cardinality(Stored) <= Len(locals)
  BY <1>1, <1>2, FS_Subset
<1>4. ASSUME NEW l \in all, locals[l].id = 0 PROVE Cardinality(Stored) < Len(locals)
  <2>1. l \notin Stored
    BY <1>4 DEF Stored
  <2>2. Cardinality(all) # Cardinality(Stored)
    BY <1>1, <1>2, <2>1, FS_Subset
  <2>3. Cardinality(Stored) \in Nat
    BY <1>3, FS_CardinalityType
  <2> QED
    BY <1>0, <1>1, <1>3, <2>2, <2>3
<1>5. IsFiniteSet(OthersWrote)
  <2>1. OthersWrote \in SUBSET (1..Len(sent))
    BY DEF OthersWrote
  <2> QED
    BY <1>1, <2>1, FS_Subset
<1> QED
  BY <1>3, <1>4, <1>5, FS_CardinalityType

LEMMA NextIsNumbered ==
  ASSUME TypeOK, Counted, LocalsAreMine,
         \/ \E r \in Rooms, o \in Others, t \in BOOLEAN : CreateMessage(o, r, t)
         \/ \E l \in 1..Len(locals) : Store(l)
  PROVE  Len(sent) + 1 \in Ids
<1>0. Len(locals) \in Nat /\ Len(sent) \in Nat
  BY SentType, LocalsType
<1>1. ASSUME NEW r \in Rooms, NEW o \in Others, NEW t \in BOOLEAN, CreateMessage(o, r, t)
      PROVE  Len(sent) < MaxMessages
  <2>1. Len(locals) + Cardinality(OthersWrote) < MaxMessages
    BY <1>1 DEF CreateMessage, Writes, OthersWrote
  <2> QED
    BY <1>0, <2>1, StoredFits DEF Counted
<1>2. ASSUME NEW l \in 1..Len(locals), Store(l)
      PROVE  Len(sent) < MaxMessages
  <2>1. locals[l].id = 0
    BY <1>2 DEF Store, LocalsAreMine
  <2> QED
    BY <1>0, <2>1, StoredFits DEF Counted
<1> QED
  BY <1>0, <1>1, <1>2 DEF Ids

LEMMA IdsOfSent ==
  ASSUME TypeOK, Counted
  PROVE  /\ Len(sent) <= MaxMessages /\ 1..Len(sent) \subseteq Ids
         /\ \A r : Messages(r) \subseteq Ids
<1>1. Len(locals) \in Nat /\ Len(sent) \in Nat
  BY SentType, LocalsType
<1>2. Len(sent) <= MaxMessages
  BY <1>1, StoredFits DEF Counted
<1> QED
  BY <1>1, <1>2 DEF Ids, Messages

-----------------------------------------------------------------------------
(***************************************************************************)
(* What becomes of an entry, and of a question.                            *)
(***************************************************************************)
LEMMA EntryIs ==
  ASSUME NEW i \in {0} \cup Ids, NEW l \in {0} \cup Ids, NEW s \in BOOLEAN, NEW d \in BOOLEAN
  PROVE  /\ Entry(i, l, s, d) \in Entries
         /\ Entry(i, l, s, d).id = i /\ Entry(i, l, s, d).local = l
         /\ Entry(i, l, s, d).seen = s /\ Entry(i, l, s, d).distributed = d
BY DEF Entry, Entries

LEMMA FreshIs ==
  ASSUME NEW i \in {0} \cup Ids, NEW l \in {0} \cup Ids
  PROVE  /\ Entry(i, l, FALSE, FALSE) \in Entries
         /\ Entry(i, l, FALSE, FALSE).id = i /\ Entry(i, l, FALSE, FALSE).local = l
         /\ ~Entry(i, l, FALSE, FALSE).seen /\ ~Entry(i, l, FALSE, FALSE).distributed
BY DEF Entry, Entries

LEMMA SeenIs ==
  ASSUME NEW x \in Entries
  PROVE  /\ [x EXCEPT !.seen = TRUE] \in Entries
         /\ [x EXCEPT !.seen = TRUE].id = x.id /\ [x EXCEPT !.seen = TRUE].local = x.local
         /\ [x EXCEPT !.seen = TRUE].seen
         /\ [x EXCEPT !.seen = TRUE].distributed = x.distributed
BY DEF Entries

LEMMA UpdatedIs ==
  ASSUME NEW x \in Entries, NEW kind
  PROVE  /\ Updated(x, kind) \in Entries
         /\ Updated(x, kind).id = x.id /\ Updated(x, kind).local = x.local
         /\ Updated(x, kind).seen = (x.seen \/ kind = "seen")
         /\ Updated(x, kind).distributed = (x.distributed \/ kind # "seen")
BY DEF Entries, Updated

LEMMA AppliedIs ==
  ASSUME NEW x \in Entries, NEW m
  PROVE  /\ Applied(x, m) \in Entries
         /\ Applied(x, m).id = x.id /\ Applied(x, m).local = x.local
         /\ Applied(x, m).seen = (x.seen \/ <<m, "seen">> \in queued)
         /\ Applied(x, m).distributed = (x.distributed \/ <<m, "distributed">> \in queued)
BY DEF Entries, Applied

\* The messages an answer carries.
LEMMA LoadedIs ==
  ASSUME TypeOK, Counted, NEW m \in 1..Len(sent)
  PROVE  /\ Loaded(m) \in Entries /\ Loaded(m).id = m /\ Loaded(m).local = 0
         /\ Mine(m) => Loaded(m).seen = (unseen[m] = {})
         /\ ~Mine(m) => Loaded(m).seen = (Me \notin unseen[m])
         /\ Loaded(m).distributed = (m \in distributed)
<1> DEFINE d == m \in distributed
           all == unseen[m] = {}
           me == Me \notin unseen[m]
<1>1. m \in Ids
  BY IdsOfSent
<1>2. all \in BOOLEAN /\ me \in BOOLEAN /\ d \in BOOLEAN
  OBVIOUS
<1>3. /\ Mine(m) => Loaded(m) = Entry(m, 0, all, d)
      /\ ~Mine(m) => Loaded(m) = Entry(m, 0, me, d)
  BY DEF Loaded
<1> HIDE DEF all, me, d
<1>4. /\ Loaded(m) \in Entries /\ Loaded(m).id = m /\ Loaded(m).local = 0
      /\ Mine(m) => Loaded(m).seen = all
      /\ ~Mine(m) => Loaded(m).seen = me
      /\ Loaded(m).distributed = d
  BY <1>1, <1>2, <1>3, EntryIs
<1> QED
  BY <1>4 DEF all, me, d

LEMMA MessageAnswers ==
  ASSUME Typed, Counted, NEW f \in fetches, Message(f) \/ MessageGated(f)
  PROVE  \E g \in FetchType :
           /\ fetches' = (fetches \ {f}) \cup {g}
           /\ g.room = f.room /\ g.switches = f.switches /\ g.before = f.before
           /\ g.answered
           /\ \/ Message(f) /\ g.answer = {Loaded(m) : m \in Answered(f)}
              \/ MessageGated(f) /\ g.answer = {}
<1> DEFINE g(answer) == [room |-> f.room, switches |-> f.switches, before |-> f.before,
                         answered |-> TRUE, answer |-> answer]
           all == {Loaded(m) : m \in Answered(f)}
<1>1. all \subseteq Entries
  <2>1. \A m \in Answered(f) : m \in 1..Len(sent)
    BY DEF Answered, Before, Messages
  <2> QED
    BY <2>1, LoadedIs DEF Typed
<1>2. f \in FetchType
  BY DEF Typed
<1>3. \/ Message(f) /\ fetches' = (fetches \ {f}) \cup {g(all)}
      \/ MessageGated(f) /\ fetches' = (fetches \ {f}) \cup {g({})}
  BY DEF Message, MessageGated, Answer
<1> HIDE DEF all
<1>4. g(all) \in FetchType /\ g({}) \in FetchType
  BY <1>1, <1>2 DEF FetchType
<1>5. CASE Message(f) /\ fetches' = (fetches \ {f}) \cup {g(all)}
  BY <1>4, <1>5 DEF all
<1>6. CASE MessageGated(f) /\ fetches' = (fetches \ {f}) \cup {g({})}
  BY <1>4, <1>6
<1> QED
  BY <1>3, <1>5, <1>6

\* A question that is asked, by openRoom and fetchMessages.
LEMMA FetchIs ==
  ASSUME NEW r \in Rooms, NEW n \in 1..MaxHappenings, NEW before \in Ids \cup {Newest},
         Fetch(r, n, before)
  PROVE  \E g \in FetchType :
           /\ fetches' = fetches \cup {g}
           /\ g.room = r /\ g.switches = n /\ g.before = before
           /\ ~g.answered /\ g.answer = {}
<1> DEFINE g == [room |-> r, switches |-> n, before |-> before,
                 answered |-> FALSE, answer |-> {}]
<1>1. fetches' = fetches \cup {g}
  BY DEF Fetch
<1>2. g \in FetchType
  BY DEF FetchType
<1> QED
  BY <1>1, <1>2

LEMMA LowestIs ==
  ASSUME NEW S, S \subseteq Nat, S # {}
  PROVE  LowestOf(S) \in S /\ \A n \in S : LowestOf(S) <= n
<1>1. PICK m \in S : \A n \in S : <<n, m>> \notin OpToRel(<, Nat)
  BY WFMin, NatLessThanWellFounded, Zenon
<1>2. \A n \in S : ~(n < m)
  BY <1>1, Zenon DEF OpToRel
<1>3. \A n \in S : m <= n
  BY <1>2
<1> QED
  BY <1>3 DEF LowestOf

\* The cursor goes back to the oldest message there is on the page.
LEMMA CursorMerged ==
  ASSUME Typed, Counted, AnswersInRoom, NEW f \in fetches, mergeMessages(f)
  PROVE  /\ oldest' \in {x.id : x \in f.answer} \cup {oldest}
         /\ oldest' \in Ids \cup {Newest} /\ oldest' <= oldest
         /\ \A x \in f.answer : x.id \in Ids /\ oldest' <= x.id
<1> DEFINE ids == {x.id : x \in f.answer}
<1>1. \A x \in f.answer : x.id \in Ids
  BY IdsOfSent DEF Typed, AnswersInRoom
<1>2. oldest \in Ids \cup {Newest} /\ Ids \cup {Newest} \subseteq Nat
  BY DEF Typed, TypeOK, Ids, Newest
<1>3. oldest' = LowestOf(ids \cup {oldest})
  BY DEF mergeMessages
<1>4. ids \cup {oldest} \subseteq Ids \cup {Newest}
  BY <1>1, <1>2
<1>5. oldest' \in ids \cup {oldest} /\ \A n \in ids \cup {oldest} : oldest' <= n
  <2> HIDE DEF ids
  <2> QED
    BY <1>2, <1>3, <1>4, LowestIs
<1> QED
  BY <1>1, <1>4, <1>5

-----------------------------------------------------------------------------
(***************************************************************************)
(* The types, variable by variable.                                        *)
(***************************************************************************)
LEMMA ServerTyped ==
  ASSUME TypeOK, Counted, LocalsAreMine, [Next]_vars
  PROVE  /\ sent' \in Seq(MessageType)
         /\ unseen' \in [Ids -> SUBSET ({Me} \cup Others)]
         /\ distributed' \subseteq Ids
<1> DEFINE Fits == /\ sent' \in Seq(MessageType)
                   /\ unseen' \in [Ids -> SUBSET ({Me} \cup Others)]
<1>0. /\ sent \in Seq(MessageType)
      /\ unseen \in [Ids -> SUBSET ({Me} \cup Others)]
  BY SentType DEF TypeOK
<1>1. ASSUME UNCHANGED <<sent, unseen>>
      PROVE  Fits
  BY <1>0, <1>1
<1>2. ASSUME NEW r \in Rooms, NEW o \in Others, NEW t \in BOOLEAN, CreateMessage(o, r, t)
      PROVE  Fits
  BY <1>2, CreatedNext DEF CreateMessage
<1>3. ASSUME NEW l \in 1..Len(locals), Store(l)
      PROVE  Fits
  <2>1. locals[l].room \in Rooms
    BY LocalsType DEF LocalType
  <2> QED
    BY <1>3, <2>1, CreatedNext DEF Store
<1>4. ASSUME NEW o \in Others, NEW ids \in SUBSET (1..Len(sent)), SeenByOther(o, ids)
      PROVE  Fits
  <2>1. UNCHANGED sent
    BY <1>4 DEF SeenByOther
  <2>2. unseen' = [m \in Ids |-> IF m \in ids THEN unseen[m] \ {o} ELSE unseen[m]]
    BY <1>4 DEF SeenByOther
  <2> HIDE DEF Ids
  <2> QED
    BY <1>0, <2>1, <2>2
<1>5. ASSUME NEW ids \in marks, MarkMessagesAsSeen(ids)
      PROVE  Fits
  <2>1. UNCHANGED sent
    BY <1>5 DEF MarkMessagesAsSeen
  <2>2. unseen' = [m \in Ids |-> IF m \in ids THEN unseen[m] \ {Me} ELSE unseen[m]]
    BY <1>5 DEF MarkMessagesAsSeen
  <2> HIDE DEF Ids
  <2> QED
    BY <1>0, <2>1, <2>2
<1>6. distributed' \subseteq Ids
  <2>1. ASSUME NEW r \in Rooms, NEW ids \in SUBSET Messages(r),
               setMessagesAsDistributed(r, ids)
        PROVE  distributed' \subseteq Ids
    BY <2>1, IdsOfSent DEF setMessagesAsDistributed, TypeOK
  <2> QED
    BY <2>1, DistributedMoves DEF TypeOK
<1> QED
  BY <1>1, <1>2, <1>3, <1>4, <1>5, <1>6, UnseenMoves

LEMMA EventsTyped ==
  ASSUME TypeOK, Counted, LocalsAreMine, [Next]_vars
  PROVE  events' \subseteq [kind : {"added", "distributed", "seen"}, room : Rooms,
                            ids : (SUBSET Ids) \ {{}}]
<1> DEFINE Type == [kind : {"added", "distributed", "seen"}, room : Rooms,
                    ids : (SUBSET Ids) \ {{}}]
<1>0. events \subseteq Type
  BY DEF TypeOK
<1>1. ASSUME NEW r \in Rooms, NEW o \in Others, NEW t \in BOOLEAN, CreateMessage(o, r, t)
      PROVE  events' \subseteq Type
  <2>1. Len(sent) + 1 \in Ids
    BY <1>1, NextIsNumbered
  <2>2. events' \subseteq events \cup {[kind |-> "added", room |-> r, ids |-> {Len(sent) + 1}]}
    BY <1>1 DEF CreateMessage
  <2> QED
    BY <1>0, <2>1, <2>2
<1>2. ASSUME NEW r \in Rooms, NEW ids \in SUBSET Messages(r), setMessagesAsDistributed(r, ids)
      PROVE  events' \subseteq Type
  <2>1. ids \subseteq Ids /\ ids # {}
    BY <1>2, IdsOfSent DEF setMessagesAsDistributed
  <2>2. events' = events \cup {[kind |-> "distributed", room |-> r, ids |-> ids]}
    BY <1>2 DEF setMessagesAsDistributed
  <2> QED
    BY <1>0, <2>1, <2>2
<1>3. ASSUME NEW o \in Others, NEW ids \in SUBSET (1..Len(sent)), SeenByOther(o, ids)
      PROVE  events' \subseteq Type
  <2>1. ids \subseteq Ids /\ ids # {}
    BY <1>3, IdsOfSent DEF SeenByOther
  <2>2. events' = events \cup {[kind |-> "seen", room |-> sent[m].room, ids |-> ids] :
                                m \in {n \in ids : Mine(n)}}
    BY <1>3 DEF SeenByOther
  <2>3. \A m \in ids : sent[m].room \in Rooms
    BY SentType DEF MessageType
  <2> QED
    BY <1>0, <2>1, <2>2, <2>3
<1>4. ASSUME NEW e \in events,
             addSocketMessage(e) \/ handleMessageStatusUpdated(e) \/ Lose(e)
      PROVE  events' \subseteq Type
  <2>1. events' = events \ {e}
    BY <1>4 DEF addSocketMessage, handleMessageStatusUpdated, Lose
  <2> QED
    BY <1>0, <2>1
<1> QED
  BY <1>0, <1>1, <1>2, <1>3, <1>4, EventsMove

LEMMA FetchesTyped ==
  ASSUME Typed, Counted, [Next]_vars
  PROVE  fetches' \subseteq FetchType
<1>0. fetches \subseteq FetchType
  BY DEF Typed
<1>1. ASSUME NEW r \in Rooms, openRoom(r)
      PROVE  fetches' \subseteq FetchType
  <2>1. switches + 1 \in 1..MaxHappenings
    BY <1>1 DEF openRoom, Happens, Typed, TypeOK
  <2>2. Fetch(r, switches + 1, Newest)
    BY <1>1 DEF openRoom
  <2> QED
    BY <1>0, <2>1, <2>2, FetchIs
<1>2. ASSUME NEW r \in Rooms, fetchMessages(r)
      PROVE  fetches' \subseteq FetchType
  <2>1. selected # NoRoom
    BY <1>2 DEF fetchMessages
  <2>2. switches \in 1..MaxHappenings /\ oldest \in Ids \cup {Newest}
    BY <2>1 DEF Typed, TypeOK
  <2>3. Fetch(r, switches, oldest)
    BY <1>2 DEF fetchMessages
  <2> QED
    BY <1>0, <2>2, <2>3, FetchIs
<1>3. CASE beforeDestroy
  BY <1>3 DEF beforeDestroy
<1>4. ASSUME NEW f \in fetches, Message(f) \/ MessageGated(f)
      PROVE  fetches' \subseteq FetchType
  BY <1>0, <1>4, MessageAnswers
<1>5. ASSUME NEW f \in fetches, mergeMessages(f) \/ LateAnswer(f) \/ FetchFails(f)
      PROVE  fetches' \subseteq FetchType
  BY <1>0, <1>5 DEF mergeMessages, LateAnswer, FetchFails
<1> QED
  BY <1>0, <1>1, <1>2, <1>3, <1>4, <1>5, FetchesMove

LEMMA LocalsTyped ==
  ASSUME TypeOK, Counted, LocalsAreMine, [Next]_vars
  PROVE  locals' \in Seq(LocalType)
<1>1. CASE sendMessage
  BY <1>1, sendMessageLocals
<1>2. ASSUME NEW l \in 1..Len(locals), Store(l)
      PROVE  locals' \in Seq(LocalType)
  BY <1>2, StoreLocals, NextIsNumbered
<1>3. ASSUME NEW l \in 1..Len(locals), replaceLocalMessage(l) \/ SendFails(l)
      PROVE  locals' \in Seq(LocalType)
  BY <1>3, AnsweredLocals
<1>4. CASE UNCHANGED locals
  BY <1>4, LocalsType
<1> QED
  BY <1>1, <1>2, <1>3, <1>4, LocalsMove

LEMMA ShownTyped ==
  ASSUME Typed, Counted, [Next]_vars
  PROVE  shown' \subseteq Entries
<1>0. shown \subseteq Entries
  BY DEF Typed, TypeOK
<1>1. ASSUME NEW f \in fetches, mergeMessages(f) \/ FetchFails(f)
      PROVE  shown' \subseteq Entries
  <2>1. f.answer \subseteq Entries
    BY DEF Typed, FetchType
  <2> QED
    BY <1>0, <1>1, <2>1 DEF mergeMessages, FetchFails, Kept
<1>2. CASE sendMessage
  <2>1. Len(locals) + 1 \in {0} \cup Ids
    <3>1. Len(locals) + Cardinality(OthersWrote) < MaxMessages
      BY <1>2 DEF sendMessage, Writes, OthersWrote
    <3> QED
      BY <3>1, StoredFits, LocalsType DEF Typed, Ids
  <2> QED
    BY <1>0, <1>2, <2>1, EntryIs DEF sendMessage
<1>3. ASSUME NEW l \in 1..Len(locals), replaceLocalMessage(l) \/ SendFails(l)
      PROVE  shown' \subseteq Entries
  <2>1. CASE SendFails(l)
    BY <1>0, <2>1 DEF SendFails
  <2>2. CASE replaceLocalMessage(l)
    <3> DEFINE m == locals[l].id
    <3>1. shown' = {IF x.local = l THEN Applied(x, m) ELSE x : x \in shown}
      BY <2>2 DEF replaceLocalMessage
    <3>2. \A x \in shown : Applied(x, m) \in Entries
      BY <1>0, AppliedIs
    <3> HIDE DEF m
    <3> QED
      BY <1>0, <3>1, <3>2
  <2> QED
    BY <1>3, <2>1, <2>2
<1>4. ASSUME NEW e \in events, addSocketMessage(e)
      PROVE  shown' \subseteq Entries
  <2>1. e.ids \subseteq Ids
    BY DEF Typed, TypeOK
  <2>2. \A m \in e.ids : Entry(m, 0, FALSE, FALSE) \in Entries
    BY <2>1, EntryIs
  <2>3. \/ shown' = shown \cup {Entry(m, 0, FALSE, FALSE) : m \in e.ids}
        \/ shown' = shown
    BY <1>4 DEF addSocketMessage
  <2> QED
    BY <1>0, <2>2, <2>3, Zenon
<1>5. ASSUME NEW e \in events, handleMessageStatusUpdated(e)
      PROVE  shown' \subseteq Entries
  BY <1>0, <1>5, UpdatedIs DEF handleMessageStatusUpdated
<1>6. CASE markAsSeen
  BY <1>0, <1>6, SeenIs DEF markAsSeen
<1> QED
  BY <1>0, <1>1, <1>2, <1>3, <1>4, <1>5, <1>6, ShownMoves DEF openRoom, beforeDestroy

LEMMA PageTyped ==
  ASSUME Typed, Counted, AnswersInRoom, EventsNameMessages, OthersWatched, [Next]_vars
  PROVE  /\ marks' \subseteq (SUBSET Ids) \ {{}}
         /\ oldest' \in Ids \cup {Newest} /\ loaded' \in BOOLEAN
         /\ watched' \subseteq Ids /\ viewed' \subseteq Ids /\ batch' \subseteq Ids
         /\ queued' \subseteq Ids \X {"seen", "distributed"}
<1>0. /\ marks \subseteq (SUBSET Ids) \ {{}}
      /\ oldest \in Ids \cup {Newest} /\ loaded \in BOOLEAN
      /\ watched \subseteq Ids /\ viewed \subseteq Ids /\ batch \subseteq Ids
      /\ queued \subseteq Ids \X {"seen", "distributed"}
      /\ \A e \in events : e.ids \subseteq Ids /\ e.kind \in {"added", "distributed", "seen"}
  BY DEF Typed, TypeOK
<1>1. marks' \subseteq (SUBSET Ids) \ {{}}
  BY <1>0, MarksMove DEF MarkMessagesAsSeen, MarkFails, markAsSeen
<1>2. oldest' \in Ids \cup {Newest} /\ loaded' \in BOOLEAN
  <2>1. ASSUME NEW f \in fetches, mergeMessages(f)
        PROVE  oldest' \in Ids \cup {Newest} /\ loaded' \in BOOLEAN
    BY <1>0, <2>1, CursorMerged DEF mergeMessages
  <2> QED
    BY <1>0, <2>1, CursorMoves DEF openRoom, beforeDestroy
<1>3. watched' \subseteq Ids /\ viewed' \subseteq Ids /\ batch' \subseteq Ids
  <2>1. ASSUME NEW f \in fetches, mergeMessages(f)
        PROVE  watched' \subseteq Ids /\ viewed' \subseteq Ids /\ batch' \subseteq Ids
    BY <1>0, <2>1, CursorMerged DEF mergeMessages, ToWatch
  <2>2. ASSUME NEW e \in events, addSocketMessage(e)
        PROVE  watched' \subseteq Ids /\ viewed' \subseteq Ids /\ batch' \subseteq Ids
    BY <1>0, <2>2 DEF addSocketMessage
  <2>3. ASSUME NEW m \in watched, ComesIntoView(m)
        PROVE  watched' \subseteq Ids /\ viewed' \subseteq Ids /\ batch' \subseteq Ids
    BY <1>0, <2>3 DEF ComesIntoView
  <2>4. ASSUME NEW f \in fetches, FetchFails(f)
        PROVE  watched' \subseteq Ids /\ viewed' \subseteq Ids /\ batch' \subseteq Ids
    BY <1>0, <2>4 DEF FetchFails
  <2> QED
    BY <1>0, <2>1, <2>2, <2>3, <2>4, WatchMoves DEF openRoom, beforeDestroy, markAsSeen
<1>4. queued' \subseteq Ids \X {"seen", "distributed"}
  <2>1. ASSUME NEW e \in events, handleMessageStatusUpdated(e)
        PROVE  queued' \subseteq Ids \X {"seen", "distributed"}
    <3>1. e.ids \subseteq Ids /\ e.kind \in {"seen", "distributed"}
      BY <1>0, <2>1 DEF handleMessageStatusUpdated
    <3> QED
      BY <1>0, <2>1, <3>1 DEF handleMessageStatusUpdated
  <2>2. ASSUME NEW l \in 1..Len(locals), replaceLocalMessage(l)
        PROVE  queued' \subseteq Ids \X {"seen", "distributed"}
    BY <1>0, <2>2 DEF replaceLocalMessage
  <2> QED
    BY <1>0, <2>1, <2>2, QueuedMoves DEF beforeDestroy
<1> QED
  BY <1>1, <1>2, <1>3, <1>4

LEMMA RestTyped ==
  ASSUME Typed, Counted, LocalsAreMine, [Next]_vars
  PROVE  /\ selected' \in Rooms \cup {NoRoom} /\ switches' \in 0..MaxHappenings
         /\ happenings' \in 0..MaxHappenings
         /\ switches' <= happenings' /\ (selected' # NoRoom => switches' >= 1)
         /\ missed' \subseteq Ids /\ gone' \subseteq Ids /\ unreported' \subseteq Ids
<1>0. /\ selected \in Rooms \cup {NoRoom} /\ switches \in 0..MaxHappenings
      /\ happenings \in 0..MaxHappenings
      /\ switches <= happenings /\ (selected # NoRoom => switches >= 1)
      /\ missed \subseteq Ids /\ gone \subseteq Ids /\ unreported \subseteq Ids
      /\ \A e \in events : e.ids \subseteq Ids
      /\ marks \subseteq SUBSET Ids /\ shown \subseteq Entries /\ TypeOK
  BY DEF Typed, TypeOK
<1>1. /\ happenings' \in 0..MaxHappenings
      /\ happenings' = happenings + 1 \/ UNCHANGED <<happenings, selected, switches>>
  BY <1>0, HappeningsMove DEF Happens
<1>2. /\ selected' \in Rooms \cup {NoRoom} /\ switches' \in 0..MaxHappenings
      /\ switches' <= happenings' /\ (selected' # NoRoom => switches' >= 1)
  <2>1. ASSUME NEW r \in Rooms, openRoom(r)
        PROVE  /\ selected' \in Rooms \cup {NoRoom} /\ switches' \in 0..MaxHappenings
               /\ switches' <= happenings' /\ (selected' # NoRoom => switches' >= 1)
    BY <1>0, <2>1 DEF openRoom, Happens
  <2>2. CASE beforeDestroy
    BY <1>0, <1>1, <2>2 DEF beforeDestroy
  <2>3. CASE UNCHANGED <<selected, switches>>
    BY <1>0, <1>1, <2>3
  <2> QED
    BY <2>1, <2>2, <2>3, RoomMoves
<1>3. missed' \subseteq Ids /\ gone' \subseteq Ids /\ unreported' \subseteq Ids
  <2>1. ASSUME NEW f \in fetches, FetchFails(f)
        PROVE  missed' \subseteq Ids /\ gone' \subseteq Ids /\ unreported' \subseteq Ids
    <3>1. ({x.id : x \in shown} \ {0}) \subseteq Ids
      BY <1>0 DEF Entries
    <3> QED
      BY <1>0, <2>1, <3>1 DEF FetchFails
  <2>2. ASSUME NEW e \in events, handleMessageStatusUpdated(e) \/ Lose(e)
        PROVE  missed' \subseteq Ids /\ gone' \subseteq Ids /\ unreported' \subseteq Ids
    BY <1>0, <2>2 DEF handleMessageStatusUpdated, Lose
  <2>3. ASSUME NEW r \in Rooms, NEW o \in Others, NEW t \in BOOLEAN, CreateMessage(o, r, t)
        PROVE  missed' \subseteq Ids /\ gone' \subseteq Ids /\ unreported' \subseteq Ids
    <3>1. Len(sent) + 1 \in Ids
      BY <1>0, <2>3, NextIsNumbered
    <3> QED
      BY <1>0, <2>3, <3>1 DEF CreateMessage
  <2>4. ASSUME NEW f \in fetches, MessageGated(f)
        PROVE  missed' \subseteq Ids /\ gone' \subseteq Ids /\ unreported' \subseteq Ids
    <3>1. Before(f) \subseteq Ids
      BY <1>0, IdsOfSent DEF Before
    <3> QED
      BY <1>0, <2>4, <3>1 DEF MessageGated
  <2>5. ASSUME NEW ids \in marks, MarkFails(ids)
        PROVE  missed' \subseteq Ids /\ gone' \subseteq Ids /\ unreported' \subseteq Ids
    BY <1>0, <2>5 DEF MarkFails
  <2>6. ASSUME (\E r \in Rooms : openRoom(r)) \/ beforeDestroy
        PROVE  missed' \subseteq Ids /\ gone' \subseteq Ids /\ unreported' \subseteq Ids
    BY <1>0, <2>6 DEF openRoom, beforeDestroy
  <2>7. CASE UNCHANGED <<missed, gone, unreported>>
    BY <1>0, <2>7
  <2>8. ASSUME NEW f \in fetches, MessageGated(f) \/ FetchFails(f)
        PROVE  missed' \subseteq Ids /\ gone' \subseteq Ids /\ unreported' \subseteq Ids
    BY <2>1, <2>4, <2>8
  <2> QED
    BY <2>2, <2>3, <2>5, <2>6, <2>7, <2>8, HistoryMoves
<1> QED
  BY <1>1, <1>2, <1>3

LEMMA TypedStep ==
  ASSUME Typed, Sources, [Next]_vars
  PROVE  Typed'
<1>1. TypeOK /\ Counted /\ LocalsAreMine /\ AnswersInRoom /\ EventsNameMessages /\ OthersWatched
  BY DEF Typed, Sources
<1>2. \A f \in fetches' : /\ f.room \in Rooms /\ f.switches \in 1..MaxHappenings
                          /\ f.before \in Ids \cup {Newest} /\ f.answer \subseteq Entries
  BY <1>1, FetchesTyped DEF FetchType
<1>3. TypeOK'
  BY <1>1, <1>2, ServerTyped, EventsTyped, LocalsTyped, ShownTyped, PageTyped, RestTyped
     DEF TypeOK, MessageType, LocalType
<1> QED
  BY <1>1, <1>3, FetchesTyped, RestTyped DEF Typed

-----------------------------------------------------------------------------
(***************************************************************************)
(* Where the messages come from.                                           *)
(***************************************************************************)
LEMMA OthersWroteMoves ==
  ASSUME TypeOK, Counted, LocalsAreMine, [Next]_vars
  PROVE  /\ (\E r \in Rooms, o \in Others, t \in BOOLEAN : CreateMessage(o, r, t)) =>
              /\ OthersWrote' = OthersWrote \cup {Len(sent) + 1}
              /\ Len(sent') = Len(sent) + 1
         /\ (\E l \in 1..Len(locals) : Store(l)) =>
              OthersWrote' = OthersWrote /\ Len(sent') = Len(sent) + 1
         /\ UNCHANGED sent => UNCHANGED OthersWrote
<1>0. Len(sent) \in Nat
  BY SentType
<1>1. ASSUME NEW r \in Rooms, NEW o \in Others, NEW t \in BOOLEAN, CreateMessage(o, r, t)
      PROVE  OthersWrote' = OthersWrote \cup {Len(sent) + 1} /\ Len(sent') = Len(sent) + 1
  <2>1. /\ Len(sent') = Len(sent) + 1
        /\ \A m \in 1..Len(sent) : sent'[m] = sent[m]
        /\ sent'[Len(sent) + 1].by = o
    BY <1>1, CreatedNext DEF CreateMessage
  <2> QED
    BY <1>0, <2>1 DEF OthersWrote, Mine
<1>2. ASSUME NEW l \in 1..Len(locals), Store(l)
      PROVE  OthersWrote' = OthersWrote /\ Len(sent') = Len(sent) + 1
  <2>1. locals[l].room \in Rooms
    BY LocalsType DEF LocalType
  <2>2. /\ Len(sent') = Len(sent) + 1
        /\ \A m \in 1..Len(sent) : sent'[m] = sent[m]
        /\ sent'[Len(sent) + 1].by = Me
    BY <1>2, <2>1, CreatedNext DEF Store
  <2> QED
    BY <1>0, <2>2 DEF OthersWrote, Mine
<1>3. UNCHANGED sent => UNCHANGED OthersWrote
  BY DEF OthersWrote, Mine
<1> QED
  BY <1>1, <1>2, <1>3

LEMMA CountedStep ==
  ASSUME TypeOK, Counted, LocalsAreMine, [Next]_vars
  PROVE  Counted'
<1>0. /\ Len(locals) \in Nat /\ Len(sent) \in Nat
      /\ IsFiniteSet(Stored) /\ Cardinality(Stored) \in Nat
      /\ IsFiniteSet(OthersWrote) /\ Cardinality(OthersWrote) \in Nat
      /\ Len(locals) + Cardinality(OthersWrote) <= MaxMessages
      /\ Len(sent) = Cardinality(OthersWrote) + Cardinality(Stored)
  BY SentType, LocalsType, StoredFits DEF Counted
<1>1. ASSUME NEW r \in Rooms, NEW o \in Others, NEW t \in BOOLEAN, CreateMessage(o, r, t)
      PROVE  Counted'
  <2>1. /\ OthersWrote' = OthersWrote \cup {Len(sent) + 1} /\ Len(sent') = Len(sent) + 1
        /\ Len(sent) + 1 \notin OthersWrote
    BY <1>0, <1>1, OthersWroteMoves DEF OthersWrote
  <2>2. Cardinality(OthersWrote') = Cardinality(OthersWrote) + 1
    BY <1>0, <2>1, FS_AddElement
  <2>3. UNCHANGED <<locals, Stored>>
    BY <1>1 DEF CreateMessage, Stored
  <2>4. Len(locals) + Cardinality(OthersWrote) < MaxMessages
    BY <1>1 DEF CreateMessage, Writes, OthersWrote
  <2> QED
    BY <1>0, <2>1, <2>2, <2>3, <2>4 DEF Counted
<1>2. ASSUME NEW l \in 1..Len(locals), Store(l)
      PROVE  Counted'
  <2>1. OthersWrote' = OthersWrote /\ Len(sent') = Len(sent) + 1
    BY <1>2, OthersWroteMoves
  <2>2. /\ Len(locals') = Len(locals)
        /\ \A k \in 1..Len(locals) : k # l => locals'[k] = locals[k]
        /\ locals'[l].id = Len(sent) + 1
    BY <1>2, StoreLocals, NextIsNumbered
  <2>3. Stored' = Stored \cup {l}
    BY <1>0, <2>2 DEF Stored
  <2>4. l \notin Stored
    BY <1>2 DEF Store, LocalsAreMine, Stored
  <2>5. Cardinality(Stored') = Cardinality(Stored) + 1
    BY <1>0, <2>3, <2>4, FS_AddElement
  <2> QED
    BY <1>0, <2>1, <2>2, <2>5 DEF Counted
<1>3. CASE sendMessage
  <2>1. UNCHANGED <<sent, OthersWrote>>
    BY <1>3, OthersWroteMoves DEF sendMessage, server
  <2>2. /\ Len(locals') = Len(locals) + 1
        /\ \A k \in 1..Len(locals) : locals'[k] = locals[k]
        /\ locals'[Len(locals) + 1].id = 0
    BY <1>3, sendMessageLocals
  <2>3. Stored' = Stored
    BY <1>0, <2>2 DEF Stored
  <2>4. Len(locals) + Cardinality(OthersWrote) < MaxMessages
    BY <1>3 DEF sendMessage, Writes, OthersWrote
  <2> QED
    BY <1>0, <2>1, <2>2, <2>3, <2>4 DEF Counted
<1>4. ASSUME NEW l \in 1..Len(locals), replaceLocalMessage(l) \/ SendFails(l)
      PROVE  Counted'
  <2>1. UNCHANGED <<sent, OthersWrote>>
    BY <1>4, OthersWroteMoves DEF replaceLocalMessage, SendFails, server
  <2>2. /\ Len(locals') = Len(locals)
        /\ \A k \in 1..Len(locals) : locals'[k].id = locals[k].id
    BY <1>4, AnsweredLocals
  <2>3. Stored' = Stored
    BY <1>0, <2>2 DEF Stored
  <2> QED
    BY <1>0, <2>1, <2>2, <2>3 DEF Counted
<1>5. CASE UNCHANGED <<sent, locals>>
  BY <1>0, <1>5, OthersWroteMoves DEF Counted, Stored
<1> QED
  BY <1>1, <1>2, <1>3, <1>4, <1>5, SentMoves, LocalsMove

LEMMA LocalsAreMineStep ==
  ASSUME TypeOK, Counted, LocalsAreMine, [Next]_vars
  PROVE  LocalsAreMine'
<1>0. /\ Len(locals) \in Nat /\ Len(sent) \in Nat
      /\ \A m \in 1..Len(sent) : m \in 1..Len(sent') /\ sent'[m] = sent[m]
  BY SentGrows, LocalsType
<1>1. ASSUME NEW l \in 1..Len(locals), Store(l)
      PROVE  LocalsAreMine'
  <2>1. PICK n \in Ids : n = Len(sent) + 1
    BY <1>1, NextIsNumbered
  <2>2. /\ Len(locals') = Len(locals)
        /\ \A k \in 1..Len(locals) : k # l => locals'[k] = locals[k]
        /\ locals'[l].stage = "stored" /\ locals'[l].room = locals[l].room
        /\ locals'[l].id = n
    BY <1>1, <2>1, StoreLocals
  <2>3. /\ Len(sent') = n /\ sent'[n].room = locals[l].room /\ sent'[n].by = Me
    <3>1. Created(Me, locals[l].room) /\ locals[l].room \in Rooms
      BY <1>1, LocalsType DEF Store, LocalType
    <3> QED
      BY <2>1, <3>1, CreatedNext
  <2>4. n \in 1..Len(sent') /\ n # 0 /\ n \notin 1..Len(sent)
    BY <1>0, <2>1, <2>3
  <2>5. \A k \in 1..Len(locals) : locals[k].id # n
    BY <2>1, <2>4 DEF LocalsAreMine, Messages, Ids
  <2>6. \A k \in 1..Len(locals) :
          /\ locals'[k].id # 0 => /\ locals'[k].id \in 1..Len(sent')
                                 /\ sent'[locals'[k].id].room = locals'[k].room
                                 /\ sent'[locals'[k].id].by = Me
          /\ locals'[k].stage = "out" => locals'[k].id = 0
          /\ locals'[k].stage \in {"stored", "known"} => locals'[k].id # 0
    BY <1>0, <2>2, <2>3, <2>4 DEF LocalsAreMine, Messages, Mine
  <2>7. \A j, k \in 1..Len(locals) :
          locals'[j].id = locals'[k].id /\ locals'[k].id # 0 => j = k
    BY <2>2, <2>5 DEF LocalsAreMine
  <2> QED
    BY <2>2, <2>6, <2>7 DEF LocalsAreMine, Messages, Mine
<1>2. CASE sendMessage
  <2>1. /\ Len(locals') = Len(locals) + 1
        /\ \A k \in 1..Len(locals) : locals'[k] = locals[k]
        /\ locals'[Len(locals) + 1].id = 0 /\ locals'[Len(locals) + 1].stage = "out"
    BY <1>2, sendMessageLocals
  <2>2. \A k \in 1..Len(locals)' : k \in 1..Len(locals) \/ k = Len(locals) + 1
    BY <1>0, <2>1
  <2> QED
    BY <1>0, <2>1, <2>2 DEF LocalsAreMine, Messages, Mine
<1>3. ASSUME NEW l \in 1..Len(locals), replaceLocalMessage(l) \/ SendFails(l)
      PROVE  LocalsAreMine'
  <2>1. /\ Len(locals') = Len(locals)
        /\ \A k \in 1..Len(locals) :
             /\ locals'[k].room = locals[k].room /\ locals'[k].id = locals[k].id
             /\ \/ locals'[k].stage = locals[k].stage
                \/ locals'[k].stage = "failed"
                \/ locals'[k].stage = "known" /\ locals[k].stage = "stored"
    BY <1>3, AnsweredLocals
  <2>2. \A k \in 1..Len(locals) :
          /\ locals'[k].stage = "out" => locals'[k].id = 0
          /\ locals'[k].stage \in {"stored", "known"} => locals'[k].id # 0
    BY <2>1 DEF LocalsAreMine
  <2>3. \A j, k \in 1..Len(locals) :
          locals'[j].id = locals'[k].id /\ locals'[k].id # 0 => j = k
    BY <2>1 DEF LocalsAreMine
  <2>4. \A k \in 1..Len(locals) :
          locals'[k].id # 0 => /\ locals'[k].id \in 1..Len(sent')
                              /\ sent'[locals'[k].id].room = locals'[k].room
                              /\ sent'[locals'[k].id].by = Me
    BY <1>0, <2>1 DEF LocalsAreMine, Messages, Mine
  <2> QED
    BY <2>1, <2>2, <2>3, <2>4 DEF LocalsAreMine, Messages, Mine
<1>4. CASE UNCHANGED locals
  BY <1>0, <1>4 DEF LocalsAreMine, Messages, Mine
<1> QED
  BY <1>1, <1>2, <1>3, <1>4, LocalsMove

\* What is loaded is what there is of the room, each message once.
LEMMA AnswersInRoomStep ==
  ASSUME Typed, Counted, AnswersInRoom, [Next]_vars
  PROVE  AnswersInRoom'
<1> DEFINE Fits(f) == /\ \A x \in f.answer : x.local = 0 /\ x.id \in Messages(f.room)
                      /\ \A x, y \in f.answer : x.id = y.id => x = y
<1>0. \A f \in fetches : Fits(f)
  BY DEF AnswersInRoom
<1>1. \A f \in fetches' : Fits(f)
  <2>1. ASSUME NEW r \in Rooms, openRoom(r) \/ fetchMessages(r)
        PROVE  \A f \in fetches' : f \in fetches \/ f.answer = {}
    BY <2>1 DEF openRoom, fetchMessages, Fetch
  <2>2. ASSUME NEW f \in fetches, Message(f) \/ MessageGated(f)
        PROVE  \A g \in fetches' : Fits(g)
    <3>1. PICK g : /\ fetches' = (fetches \ {f}) \cup {g}
                   /\ g.room = f.room
                   /\ g.answer \subseteq {Loaded(m) : m \in Answered(f)}
      BY <2>2, MessageAnswers
    <3>2. \A m \in Answered(f) : /\ m \in 1..Len(sent) /\ m \in Messages(f.room)
                                 /\ Loaded(m).local = 0 /\ Loaded(m).id = m
      BY LoadedIs DEF Answered, Before, Messages, Typed
    <3>3. Fits(g)
      BY <3>1, <3>2
    <3> QED
      BY <1>0, <3>1, <3>3
  <2>3. ASSUME NEW f \in fetches, mergeMessages(f) \/ LateAnswer(f) \/ FetchFails(f)
        PROVE  fetches' \subseteq fetches
    BY <2>3 DEF mergeMessages, LateAnswer, FetchFails
  <2> QED
    BY <1>0, <2>1, <2>2, <2>3, FetchesMove DEF beforeDestroy
<1>2. \A r : Messages(r) \subseteq Messages(r)'
  BY SentGrows DEF Typed
<1> QED
  BY <1>1, <1>2 DEF AnswersInRoom

LEMMA EventsNameMessagesStep ==
  ASSUME TypeOK, EventsNameMessages, [Next]_vars
  PROVE  EventsNameMessages'
<1> DEFINE Fits(e) == /\ e.ids \subseteq 1..Len(sent)
                      /\ e.kind = "added" => \E m \in Messages(e.room) : ~Mine(m) /\ e.ids = {m}
<1>0. \A e \in events : Fits(e)'
  BY SentGrows DEF EventsNameMessages, Messages
<1>1. ASSUME NEW r \in Rooms, NEW o \in Others, NEW t \in BOOLEAN, CreateMessage(o, r, t)
      PROVE  \A e \in events' : Fits(e)'
  <2>1. PICK n : n = Len(sent) + 1
    OBVIOUS
  <2>2. PICK e : events' \subseteq events \cup {e} /\ e.room = r /\ e.ids = {n}
    <3> DEFINE new == [kind |-> "added", room |-> r, ids |-> {n}]
    <3>1. events' \subseteq events \cup {new} /\ new.room = r /\ new.ids = {n}
      BY <1>1, <2>1 DEF CreateMessage
    <3> HIDE DEF new
    <3> QED
      BY <3>1
  <2>3. Len(sent') = n /\ sent'[n].room = r /\ sent'[n].by = o /\ Len(sent) \in Nat
    BY <1>1, <2>1, CreatedNext, SentType DEF CreateMessage
  <2>4. n \in Messages(r)' /\ ~Mine(n)' /\ n \in 1..Len(sent')
    BY <2>1, <2>3 DEF Messages, Mine
  <2>5. Fits(e)'
    BY <2>2, <2>4
  <2> QED
    BY <1>0, <2>2, <2>5
<1>2. ASSUME NEW r \in Rooms, NEW ids \in SUBSET Messages(r), setMessagesAsDistributed(r, ids)
      PROVE  \A e \in events' : Fits(e)'
  <2>1. ids \subseteq 1..Len(sent')
    BY SentGrows DEF Messages
  <2>2. \A e \in events' : e \in events \/ (e.kind # "added" /\ e.ids = ids)
    <3> DEFINE new == [kind |-> "distributed", room |-> r, ids |-> ids]
    <3>1. events' = events \cup {new} /\ new.kind # "added" /\ new.ids = ids
      BY <1>2 DEF setMessagesAsDistributed
    <3> HIDE DEF new
    <3> QED
      BY <3>1
  <2> QED
    BY <1>0, <2>1, <2>2
<1>3. ASSUME NEW o \in Others, NEW ids \in SUBSET (1..Len(sent)), SeenByOther(o, ids)
      PROVE  \A e \in events' : Fits(e)'
  <2>1. ids \subseteq 1..Len(sent')
    BY SentGrows
  <2>2. \A e \in events' : e \in events \/ (e.kind # "added" /\ e.ids = ids)
    <3> DEFINE new(m) == [kind |-> "seen", room |-> sent[m].room, ids |-> ids]
    <3>1. events' = events \cup {new(m) : m \in {n \in ids : Mine(n)}}
      BY <1>3 DEF SeenByOther
    <3>2. \A m : new(m).kind # "added" /\ new(m).ids = ids
      OBVIOUS
    <3> HIDE DEF new
    <3> QED
      BY <3>1, <3>2
  <2> QED
    BY <1>0, <2>1, <2>2
<1>4. ASSUME NEW e \in events,
             addSocketMessage(e) \/ handleMessageStatusUpdated(e) \/ Lose(e)
      PROVE  \A d \in events' : Fits(d)'
  <2>1. events' \subseteq events
    BY <1>4 DEF addSocketMessage, handleMessageStatusUpdated, Lose
  <2> QED
    BY <1>0, <2>1
<1>5. CASE UNCHANGED events
  BY <1>0, <1>5 DEF EventsNameMessages
<1>6. \A e \in events' : Fits(e)'
  BY <1>0, <1>1, <1>2, <1>3, <1>4, EventsMove
<1> QED
  BY <1>6 DEF EventsNameMessages

LEMMA OthersWatchedStep ==
  ASSUME TypeOK, AnswersInRoom, EventsNameMessages, OthersWatched, [Next]_vars
  PROVE  OthersWatched'
<1>0. (watched \cup viewed \cup batch) \subseteq OthersWrote /\ OthersWrote \subseteq OthersWrote'
  BY SentGrows DEF OthersWatched
<1>1. (watched' \cup viewed' \cup batch') \subseteq OthersWrote
  <2>1. ASSUME NEW f \in fetches, mergeMessages(f)
        PROVE  (watched' \cup viewed' \cup batch') \subseteq OthersWrote
    <3>1. ToWatch(f.answer) \subseteq OthersWrote
      BY DEF ToWatch, AnswersInRoom, Messages, OthersWrote
    <3> QED
      BY <1>0, <2>1, <3>1 DEF mergeMessages
  <2>2. ASSUME NEW e \in events, addSocketMessage(e)
        PROVE  (watched' \cup viewed' \cup batch') \subseteq OthersWrote
    <3>1. e.ids \subseteq OthersWrote
      BY <2>2 DEF addSocketMessage, EventsNameMessages, Messages, OthersWrote
    <3> QED
      BY <1>0, <2>2, <3>1 DEF addSocketMessage
  <2>3. ASSUME NEW m \in watched, ComesIntoView(m)
        PROVE  (watched' \cup viewed' \cup batch') \subseteq OthersWrote
    BY <1>0, <2>3 DEF ComesIntoView
  <2>4. ASSUME NEW f \in fetches, FetchFails(f)
        PROVE  (watched' \cup viewed' \cup batch') \subseteq OthersWrote
    BY <1>0, <2>4 DEF FetchFails
  <2> QED
    BY <1>0, <2>1, <2>2, <2>3, <2>4, WatchMoves DEF openRoom, beforeDestroy, markAsSeen
<1> QED
  BY <1>0, <1>1 DEF OthersWatched

LEMMA SourcesStep ==
  ASSUME Typed, Sources, [Next]_vars
  PROVE  Sources'
BY CountedStep, LocalsAreMineStep, AnswersInRoomStep, EventsNameMessagesStep,
   OthersWatchedStep DEF Sources, Typed

LEMMA TypedInit ==
  ASSUME Init
  PROVE  Typed /\ Sources
<1>1. /\ sent = <<>> /\ locals = <<>> /\ Len(sent) = 0 /\ Len(locals) = 0
      /\ fetches = {} /\ events = {} /\ watched = {} /\ viewed = {} /\ batch = {} /\ marks = {}
      /\ distributed = {} /\ shown = {} /\ queued = {} /\ missed = {}
      /\ gone = {} /\ unreported = {}
  BY DEF Init
<1>2. OthersWrote = {} /\ Stored = {}
  BY <1>1 DEF OthersWrote, Stored
<1>3. Sources
  BY <1>1, <1>2, FS_EmptySet
     DEF Sources, Counted, LocalsAreMine, AnswersInRoom, EventsNameMessages, OthersWatched
<1>4. /\ selected \in Rooms \cup {NoRoom} /\ switches \in 0..MaxHappenings
      /\ happenings \in 0..MaxHappenings /\ switches <= happenings /\ selected = NoRoom
      /\ oldest \in Ids \cup {Newest} /\ loaded \in BOOLEAN
  <2>1. 0 \in 0..MaxHappenings
    BY DEF ChatAssumption
  <2>2. /\ selected = NoRoom /\ switches = 0 /\ happenings = 0 /\ oldest = Newest
        /\ loaded = FALSE
    BY DEF Init
  <2>3. loaded \in BOOLEAN
    BY <2>2, Zenon
  <2>4. 0 <= 0
    OBVIOUS
  <2> QED
    BY <2>1, <2>2, <2>3, <2>4, Zenon
<1>5. unseen \in [Ids -> SUBSET ({Me} \cup Others)]
  BY DEF Init
<1> QED
  BY <1>1, <1>3, <1>4, <1>5 DEF Typed, TypeOK

(***************************************************************************)
(* Every variable keeps its type: the messages that are written, and those *)
(* that are being sent, do not outgrow their numbers, because each of mine *)
(* is counted from when it is written on the page.                         *)
(***************************************************************************)
THEOREM TypeCorrect == Spec => []TypeOK
<1>1. Init => Typed /\ Sources
  BY TypedInit
<1>2. Typed /\ Sources /\ [Next]_vars => (Typed /\ Sources)'
  BY TypedStep, SourcesStep
<1>3. Typed => TypeOK
  BY DEF Typed
<1> QED
  BY <1>1, <1>2, <1>3, PTL DEF Spec

-----------------------------------------------------------------------------
(***************************************************************************)
(* What the page shows.                                                    *)
(***************************************************************************)
FetchesInOrder ==
  \A f \in fetches :
    /\ f.switches <= switches
    /\ f.switches = switches => f.room = selected /\ oldest <= f.before

ShownApart ==
  /\ \A x \in shown : x.local = 0 => x.id \in Messages(selected)
  /\ \A x \in shown : x.local # 0 =>
       /\ x.id = 0 /\ x.local \in 1..Len(locals)
       /\ locals[x.local].room = selected /\ locals[x.local].stage # "failed"
  /\ \A x, y \in shown : x.local = y.local /\ x.id = y.id => x = y
  /\ \A x, y \in shown : x.local = 0 /\ y.local # 0 => x.id # locals[y.local].id

LEMMA FetchesInOrderStep ==
  ASSUME Typed, Counted, AnswersInRoom, FetchesInOrder, [Next]_vars
  PROVE  FetchesInOrder'
<1>0. /\ switches \in Nat /\ oldest \in Nat /\ Newest \in Nat
      /\ (selected # NoRoom => switches \in 1..MaxHappenings)
      /\ oldest \in Ids \cup {Newest}
      /\ \A f \in fetches : f.switches \in Nat /\ f.before \in Nat
  BY DEF Typed, TypeOK, FetchType, Ids, Newest
<1>1. ASSUME NEW r \in Rooms, openRoom(r)
      PROVE  FetchesInOrder'
  <2>1. switches + 1 \in 1..MaxHappenings
    BY <1>1 DEF openRoom, Happens, Typed, TypeOK
  <2>2. PICK g \in FetchType : /\ fetches' = fetches \cup {g}
                               /\ g.room = r /\ g.switches = switches + 1 /\ g.before = Newest
    BY <1>1, <2>1, FetchIs DEF openRoom
  <2>3. selected' = r /\ switches' = switches + 1 /\ oldest' = Newest
    BY <1>1 DEF openRoom
  <2> QED
    BY <1>0, <2>2, <2>3 DEF FetchesInOrder
<1>2. ASSUME NEW r \in Rooms, fetchMessages(r)
      PROVE  FetchesInOrder'
  <2>1. r = selected /\ selected # NoRoom /\ Fetch(r, switches, oldest)
    BY <1>2 DEF fetchMessages
  <2>2. PICK g \in FetchType : /\ fetches' = fetches \cup {g}
                               /\ g.room = r /\ g.switches = switches /\ g.before = oldest
    BY <1>0, <2>1, FetchIs
  <2>3. UNCHANGED <<selected, switches, oldest>>
    BY <1>2 DEF fetchMessages, room, page
  <2> QED
    BY <1>0, <2>1, <2>2, <2>3 DEF FetchesInOrder
<1>3. CASE beforeDestroy
  BY <1>3 DEF beforeDestroy, FetchesInOrder
<1>4. ASSUME NEW f \in fetches, Message(f) \/ MessageGated(f)
      PROVE  FetchesInOrder'
  <2>1. PICK g \in FetchType : /\ fetches' = (fetches \ {f}) \cup {g}
                               /\ g.room = f.room /\ g.switches = f.switches
                               /\ g.before = f.before
    BY <1>4, MessageAnswers
  <2>2. UNCHANGED <<selected, switches, oldest>>
    BY <1>4 DEF Message, MessageGated, room, page
  <2> QED
    BY <2>1, <2>2 DEF FetchesInOrder
<1>5. ASSUME NEW f \in fetches, mergeMessages(f)
      PROVE  FetchesInOrder'
  <2>1. fetches' \subseteq fetches /\ UNCHANGED <<selected, switches>>
    BY <1>5 DEF mergeMessages, room
  <2>2. oldest' <= oldest /\ oldest' \in Nat
    BY <1>5, CursorMerged DEF Ids, Newest
  <2> QED
    BY <1>0, <2>1, <2>2 DEF FetchesInOrder
<1>6. ASSUME fetches' \subseteq fetches, UNCHANGED <<selected, switches, oldest>>
      PROVE  FetchesInOrder'
  BY <1>6 DEF FetchesInOrder
<1>7. ASSUME NEW f \in fetches, LateAnswer(f) \/ FetchFails(f)
      PROVE  fetches' \subseteq fetches /\ UNCHANGED <<selected, switches, oldest>>
  BY <1>7 DEF LateAnswer, FetchFails, room, page
<1> QED
  BY <1>1, <1>2, <1>3, <1>4, <1>5, <1>6, <1>7, FetchesMove, RoomMoves, CursorMoves

\* A message written here gets its number once, and keeps its room.
LEMMA LocalsGrow ==
  ASSUME TypeOK, Counted, LocalsAreMine, [Next]_vars
  PROVE  /\ 1..Len(locals) \subseteq 1..Len(locals')
         /\ \A l \in 1..Len(locals) :
              /\ locals'[l].room = locals[l].room
              /\ \/ locals'[l].id = locals[l].id
                 \/ locals[l].id = 0 /\ locals'[l].id = Len(sent) + 1
              /\ locals'[l].stage = "failed" => locals[l].stage = "failed" \/ SendFails(l)
<1>0. Len(locals) \in Nat
  BY LocalsType
<1>1. CASE sendMessage
  BY <1>0, <1>1, sendMessageLocals
<1>2. ASSUME NEW l \in 1..Len(locals), Store(l)
      PROVE  /\ Len(locals') = Len(locals)
             /\ \A k \in 1..Len(locals) : k # l => locals'[k] = locals[k]
             /\ locals'[l].stage = "stored" /\ locals'[l].room = locals[l].room
             /\ locals'[l].id = Len(sent) + 1 /\ locals[l].id = 0
  BY <1>2, StoreLocals, NextIsNumbered DEF Store, LocalsAreMine
<1>3. ASSUME NEW l \in 1..Len(locals), replaceLocalMessage(l) \/ SendFails(l)
      PROVE  /\ Len(locals') = Len(locals)
             /\ \A k \in 1..Len(locals) : k # l => locals'[k] = locals[k]
             /\ locals'[l].room = locals[l].room /\ locals'[l].id = locals[l].id
             /\ locals'[l].stage = "failed" => SendFails(l)
  <2>1. CASE SendFails(l)
    BY <2>1, AnsweredLocals
  <2>2. CASE replaceLocalMessage(l)
    <3>1. locals' = [locals EXCEPT ![l].stage = "known"] /\ "known" \in {"known", "failed"}
      BY <2>2 DEF replaceLocalMessage
    <3>2. locals'[l].stage = "known"
      BY <3>1, StageLocals, Zenon
    <3> QED
      BY <2>2, <3>2, AnsweredLocals
  <2> QED
    BY <1>3, <2>1, <2>2
<1>4. CASE UNCHANGED locals
  BY <1>4
<1>5. CASE \E l \in 1..Len(locals) : Store(l)
  BY <1>2, <1>5
<1>6. CASE \E l \in 1..Len(locals) : replaceLocalMessage(l) \/ SendFails(l)
  BY <1>3, <1>6
<1> QED
  BY <1>1, <1>4, <1>5, <1>6, LocalsMove

\* Entries of messages that were shown before stay apart.
LEMMA ApartKept ==
  ASSUME TypeOK, Counted, LocalsAreMine, ShownApart, [Next]_vars, UNCHANGED selected,
         \A x \in shown' : \E y \in shown : x.id = y.id /\ x.local = y.local,
         \A x \in shown' : x.local # 0 => locals'[x.local].stage # "failed",
         \A x, y \in shown' : x.local = y.local /\ x.id = y.id => x = y
  PROVE  ShownApart'
<1>0. /\ Len(locals) \in Nat /\ Len(sent) \in Nat
      /\ Messages(selected) \subseteq Messages(selected)' /\ Messages(selected) \subseteq 1..Len(sent)
  BY LocalsType, SentGrows DEF Messages
<1>1. \A x \in shown' : x.local = 0 => x.id \in Messages(selected)'
  BY <1>0 DEF ShownApart
<1>2. \A x \in shown' : x.local # 0 =>
        /\ x.id = 0 /\ x.local \in 1..Len(locals')
        /\ locals'[x.local].room = selected /\ locals'[x.local].stage # "failed"
  BY LocalsGrow DEF ShownApart
<1>3. \A x, y \in shown' : x.local = 0 /\ y.local # 0 => x.id # locals'[y.local].id
  BY <1>0, LocalsGrow DEF ShownApart
<1> QED
  BY <1>1, <1>2, <1>3 DEF ShownApart

LEMMA ShownApartStep ==
  ASSUME Typed, Sources, FetchesInOrder, ShownApart, [Next]_vars
  PROVE  ShownApart'
<1>0. /\ TypeOK /\ Counted /\ LocalsAreMine /\ AnswersInRoom /\ EventsNameMessages
      /\ Len(locals) \in Nat /\ Len(sent) \in Nat /\ shown \subseteq Entries
      /\ \A r : Messages(r) \subseteq 1..Len(sent)
  BY SentType, LocalsType DEF Typed, TypeOK, Sources, Messages
<1>1. CASE shown' = {}
  BY <1>1 DEF ShownApart
<1>2. ASSUME NEW f \in fetches, mergeMessages(f)
      PROVE  ShownApart'
  <2>1. /\ UNCHANGED <<sent, locals, selected>> /\ f.room = selected
        /\ shown' = Kept(f.answer) \cup f.answer
    BY <1>2 DEF mergeMessages, server, room, Current, FetchesInOrder
  <2>2. \A x \in shown' : x.local = 0 /\ x.id \in Messages(selected)
    BY <1>0, <2>1 DEF Kept, ShownApart, AnswersInRoom
  <2>3. \A x, y \in shown' : x.id = y.id => x = y
    <3>1. \A x, y \in Kept(f.answer) : x.id = y.id => x = y
      BY <1>0, <2>2, <2>1 DEF Kept, ShownApart
    <3>2. \A x, y \in f.answer : x.id = y.id => x = y
      BY <1>0 DEF AnswersInRoom
    <3>3. \A x \in Kept(f.answer), y \in f.answer : x.id # y.id
      BY DEF Kept
    <3> QED
      BY <2>1, <3>1, <3>2, <3>3
  <2> QED
    BY <2>1, <2>2, <2>3 DEF ShownApart, Messages
<1>3. ASSUME NEW f \in fetches, FetchFails(f)
      PROVE  ShownApart'
  <2>1. UNCHANGED <<locals, selected>> /\ shown' \subseteq shown
    BY <1>3 DEF FetchFails, room
  <2> QED
    BY <1>0, <2>1, ApartKept DEF ShownApart
<1>4. CASE sendMessage
  <2>1. PICK n \in Ids : n = Len(locals) + 1
    <3>1. Len(locals) + Cardinality(OthersWrote) < MaxMessages
      BY <1>4 DEF sendMessage, Writes, OthersWrote
    <3> QED
      BY <1>0, <3>1, StoredFits DEF Ids
  <2>2. PICK new \in Entries : /\ shown' = shown \cup {new}
                               /\ new.id = 0 /\ new.local = n /\ n # 0
    <3>1. shown' = shown \cup {Entry(0, n, FALSE, FALSE)} /\ n # 0
      BY <1>4, <2>1 DEF sendMessage, Ids
    <3>2. /\ Entry(0, n, FALSE, FALSE) \in Entries
          /\ Entry(0, n, FALSE, FALSE).id = 0 /\ Entry(0, n, FALSE, FALSE).local = n
      BY <2>1, FreshIs, 0 \in {0} \cup Ids, n \in {0} \cup Ids, Zenon
    <3> QED
      BY <3>1, <3>2, Zenon
  <2>3. /\ Len(locals') = n /\ \A k \in 1..Len(locals) : locals'[k] = locals[k]
        /\ locals'[n].stage = "out" /\ locals'[n].room = selected /\ locals'[n].id = 0
    BY <1>0, <1>4, <2>1, sendMessageLocals
  <2>4. UNCHANGED <<sent, selected>> /\ \A r : 0 \notin Messages(r)
    BY <1>4 DEF sendMessage, server, room, Messages
  <2>5. \A x \in shown : x.local # n
    BY <1>0, <2>1 DEF ShownApart, Ids
  <2>6. \A x \in shown : x.local # 0 => x.local \in 1..n /\ locals'[x.local] = locals[x.local]
    BY <1>0, <2>1, <2>3 DEF ShownApart
  <2>7. Messages(selected)' = Messages(selected)
    BY <2>4 DEF Messages
  <2> QED
    BY <2>2, <2>3, <2>4, <2>5, <2>6, <2>7 DEF ShownApart
<1>5. ASSUME NEW l \in 1..Len(locals), replaceLocalMessage(l)
      PROVE  ShownApart'
  <2>1. /\ UNCHANGED selected
        /\ shown' = {IF x.local = l THEN Applied(x, locals[l].id) ELSE x : x \in shown}
    BY <1>5 DEF replaceLocalMessage, room
  <2>2. \A x \in shown : \A m : Applied(x, m).id = x.id /\ Applied(x, m).local = x.local
    BY <1>0, AppliedIs
  <2>3. \A x \in shown' : \E y \in shown : /\ x.id = y.id /\ x.local = y.local
                                         /\ x = IF y.local = l THEN Applied(y, locals[l].id)
                                                ELSE y
    BY <2>1, <2>2
  <2>4. \A x, y \in shown' : x.local = y.local /\ x.id = y.id => x = y
    BY <2>3 DEF ShownApart
  <2>5. \A k \in 1..Len(locals) : locals'[k].stage = "failed" => locals[k].stage = "failed"
    <3>1. locals' = [locals EXCEPT ![l].stage = "known"] /\ "known" \in {"known", "failed"}
      BY <1>5 DEF replaceLocalMessage
    <3>2. locals'[l].stage = "known"
      BY <1>0, <3>1, StageLocals, Zenon
    <3> QED
      BY <1>0, <1>5, <3>2, AnsweredLocals
  <2> QED
    BY <1>0, <2>1, <2>3, <2>4, <2>5, ApartKept DEF ShownApart
<1>6. ASSUME NEW l \in 1..Len(locals), SendFails(l)
      PROVE  ShownApart'
  <2>1. UNCHANGED selected /\ shown' = {x \in shown : x.local # l}
    BY <1>6 DEF SendFails, room
  <2>2. \A k \in 1..Len(locals) : k # l => locals'[k] = locals[k]
    BY <1>0, <1>6, AnsweredLocals
  <2> QED
    BY <1>0, <2>1, <2>2, ApartKept DEF ShownApart
<1>7. ASSUME NEW e \in events, addSocketMessage(e)
      PROVE  ShownApart'
  <2>1. UNCHANGED <<sent, locals, selected>>
    BY <1>7 DEF addSocketMessage, server, room
  <2>2. PICK m \in Messages(e.room) : ~Mine(m) /\ e.ids = {m}
    BY <1>0, <1>7 DEF addSocketMessage, EventsNameMessages
  <2>3. CASE shown' = shown
    BY <1>0, <2>1, <2>3, ApartKept DEF ShownApart
  <2>4. CASE shown' # shown
    <3>1. /\ e.room = selected /\ \A x \in shown : x.id # m
          /\ shown' = shown \cup {Entry(n, 0, FALSE, FALSE) : n \in e.ids}
      BY <1>7, <2>2, <2>4 DEF addSocketMessage
    <3>2. PICK new \in Entries : /\ shown' = shown \cup {new}
                                 /\ new.id = m /\ new.local = 0
      <4>1. m \in {0} \cup Ids
        BY <1>0, <2>2, IdsOfSent
      <4>2. /\ Entry(m, 0, FALSE, FALSE) \in Entries
            /\ Entry(m, 0, FALSE, FALSE).id = m /\ Entry(m, 0, FALSE, FALSE).local = 0
        BY <4>1, FreshIs, 0 \in {0} \cup Ids, Zenon
      <4>3. shown' = shown \cup {Entry(m, 0, FALSE, FALSE)}
        BY <2>2, <3>1, Zenon
      <4> QED
        BY <4>2, <4>3, Zenon
    <3>3. \A k \in 1..Len(locals) : locals[k].id # m
      BY <1>0, <2>2 DEF LocalsAreMine, Messages
    <3>4. Messages(selected)' = Messages(selected)
      BY <2>1 DEF Messages
    <3>5. m \in Messages(selected)' /\ m # 0
      BY <2>2, <3>1, <3>4 DEF Messages
    <3>6. \A x \in shown' : x.local = 0 => x.id \in Messages(selected)'
      BY <3>2, <3>4, <3>5 DEF ShownApart
    <3>7. \A x \in shown' : x.local # 0 => x \in shown
      BY <3>2
    <3>8. \A x, y \in shown' : x.local = y.local /\ x.id = y.id => x = y
      BY <3>1, <3>2 DEF ShownApart
    <3>9. \A x, y \in shown' : x.local = 0 /\ y.local # 0 => x.id # locals[y.local].id
      BY <3>2, <3>3, <3>7 DEF ShownApart
    <3> QED
      BY <2>1, <3>6, <3>7, <3>8, <3>9 DEF ShownApart
  <2> QED
    BY <2>3, <2>4
<1>8. ASSUME UNCHANGED <<locals, selected>>,
             \A x \in shown' : \E y \in shown :
               /\ x.id = y.id /\ x.local = y.local
               /\ \A z \in shown' : z.id = y.id /\ z.local = y.local => x = z
      PROVE  ShownApart'
  BY <1>0, <1>8, ApartKept DEF ShownApart
<1>9. ASSUME NEW e \in events, handleMessageStatusUpdated(e)
      PROVE  ShownApart'
  <2>1. UNCHANGED <<locals, selected>>
    BY <1>9 DEF handleMessageStatusUpdated, room
  <2>2. CASE shown' = shown
    BY <1>8, <2>1, <2>2 DEF ShownApart
  <2>3. CASE shown' # shown
    <3> DEFINE g(x) == IF Affected(x, e.ids) THEN Updated(x, e.kind) ELSE x
    <3>1. shown' = {g(x) : x \in shown}
      BY <1>9, <2>3 DEF handleMessageStatusUpdated
    <3>2. \A x \in shown : g(x).id = x.id /\ g(x).local = x.local
      BY <1>0, UpdatedIs
    <3> HIDE DEF g
    <3> QED
      BY <1>8, <2>1, <3>1, <3>2 DEF ShownApart
  <2> QED
    BY <2>2, <2>3
<1>10. CASE markAsSeen
  <2> DEFINE g(x) == IF x.id \in batch THEN [x EXCEPT !.seen = TRUE] ELSE x
  <2>1. UNCHANGED <<locals, selected>> /\ shown' = {g(x) : x \in shown}
    BY <1>10 DEF markAsSeen, room
  <2>2. \A x \in shown : g(x).id = x.id /\ g(x).local = x.local
    BY <1>0, SeenIs
  <2> HIDE DEF g
  <2> QED
    BY <1>8, <2>1, <2>2 DEF ShownApart
<1>11. ASSUME UNCHANGED <<shown, selected>>, ~\E l \in 1..Len(locals) : SendFails(l)
       PROVE  ShownApart'
  BY <1>0, <1>11, ApartKept, LocalsGrow DEF ShownApart
<1> QED
  BY <1>1, <1>2, <1>3, <1>4, <1>5, <1>6, <1>7, <1>9, <1>10, <1>11, ShownMoves, RoomMoves
     DEF openRoom, beforeDestroy

PageInv == Typed /\ Sources /\ FetchesInOrder /\ ShownApart

LEMMA PageInvHolds == Spec => []PageInv
<1>1. Init => PageInv
  BY TypedInit DEF Init, PageInv, FetchesInOrder, ShownApart
<1>2. PageInv /\ [Next]_vars => PageInv'
  BY TypedStep, SourcesStep, FetchesInOrderStep, ShownApartStep DEF PageInv, Sources
<1> QED
  BY <1>1, <1>2, PTL DEF Spec

(***************************************************************************)
(* The page shows messages of the room that is open, each of them once.    *)
(* An answer is merged only if no room was opened since it was asked for   *)
(* (Chat.vue:969-972), and drops the entries of what was written here; a   *)
(* message written here is shown without its id, which no other has.       *)
(***************************************************************************)
THEOREM ShownOnceInItsRoomHolds == Spec => []ShownOnceInItsRoom
<1>1. ASSUME PageInv
      PROVE  ShownOnceInItsRoom
  <2>1. LocalsAreMine /\ ShownApart
    BY <1>1 DEF PageInv, Sources
  <2>2. \A x \in shown : IF x.local = 0 THEN x.id \in Messages(selected)
                         ELSE locals[x.local].room = selected
    BY <2>1 DEF ShownApart
  <2>3. ASSUME NEW x \in shown, NEW y \in shown,
               MessageOf(x) = MessageOf(y), MessageOf(x) # 0
        PROVE  x = y
    BY <2>1, <2>3 DEF ShownApart, LocalsAreMine, MessageOf
  <2> QED
    BY <2>2, <2>3 DEF ShownOnceInItsRoom
<1> QED
  BY <1>1, PageInvHolds, PTL

-----------------------------------------------------------------------------
(***************************************************************************)
(* What was received or seen stays so, wherever the word of it is.         *)
(***************************************************************************)
OwnUnseenByOthers ==
  /\ \A m \in 1..Len(sent) : Mine(m) => unseen[m] \subseteq Others
  /\ distributed \subseteq 1..Len(sent)

Happened(m, kind) ==
  IF kind = "seen" THEN unseen[m] # Others \/ Others = {} ELSE m \in distributed

EventsTrue ==
  \A e \in events : e.kind # "added" => \A m \in e.ids : Mine(m) => Happened(m, e.kind)

QueuedTrue ==
  \A m \in Ids, kind \in {"seen", "distributed"} : <<m, kind>> \in queued =>
    m \in 1..Len(sent) /\ (Mine(m) => Happened(m, kind))

AnswersTrue ==
  \A f \in fetches : \A x \in f.answer : Mine(x.id) =>
    /\ x.seen => Happened(x.id, "seen")
    /\ x.distributed => Happened(x.id, "distributed")

LEMMA UnseenShrinks ==
  ASSUME TypeOK, Counted, LocalsAreMine, [Next]_vars
  PROVE  /\ \A m \in 1..Len(sent) : unseen'[m] \subseteq unseen[m]
         /\ distributed \subseteq distributed'
<1>0. 1..Len(sent) \subseteq Ids
  BY IdsOfSent
<1>1. ASSUME NEW r \in Rooms, NEW o \in Others, NEW t \in BOOLEAN, CreateMessage(o, r, t)
      PROVE  \A m \in 1..Len(sent) : unseen'[m] = unseen[m]
  BY <1>0, <1>1, CreatedNext DEF CreateMessage
<1>2. ASSUME NEW l \in 1..Len(locals), Store(l)
      PROVE  \A m \in 1..Len(sent) : unseen'[m] = unseen[m]
  <2>1. locals[l].room \in Rooms /\ Created(Me, locals[l].room)
    BY <1>2, LocalsType DEF LocalType, Store
  <2> QED
    BY <1>0, <2>1, CreatedNext
<1>3. ASSUME NEW o \in Others, NEW ids \in SUBSET (1..Len(sent)), SeenByOther(o, ids)
      PROVE  \A m \in 1..Len(sent) : unseen'[m] \subseteq unseen[m]
  <2>1. unseen' = [m \in Ids |-> IF m \in ids THEN unseen[m] \ {o} ELSE unseen[m]]
    BY <1>3 DEF SeenByOther
  <2> QED
    BY <1>0, <2>1
<1>4. ASSUME NEW ids \in marks, MarkMessagesAsSeen(ids)
      PROVE  \A m \in 1..Len(sent) : unseen'[m] \subseteq unseen[m]
  <2>1. unseen' = [m \in Ids |-> IF m \in ids THEN unseen[m] \ {Me} ELSE unseen[m]]
    BY <1>4 DEF MarkMessagesAsSeen
  <2> QED
    BY <1>0, <2>1
<1>5. \A m \in 1..Len(sent) : unseen'[m] \subseteq unseen[m]
  BY <1>1, <1>2, <1>3, <1>4, UnseenMoves
<1>6. distributed \subseteq distributed'
  BY DistributedMoves DEF setMessagesAsDistributed
<1> QED
  BY <1>5, <1>6

LEMMA OwnUnseenStep ==
  ASSUME TypeOK, Counted, LocalsAreMine, OwnUnseenByOthers, [Next]_vars
  PROVE  OwnUnseenByOthers'
<1> DEFINE Own == \A m \in 1..Len(sent') : Mine(m)' => unseen'[m] \subseteq Others
<1>0. /\ Len(sent) \in Nat /\ Len(sent') \in Nat
      /\ 1..Len(sent) \subseteq 1..Len(sent')
      /\ \A m \in 1..Len(sent) : (Mine(m)' <=> Mine(m)) /\ unseen'[m] \subseteq unseen[m]
  BY SentGrows, UnseenShrinks
<1>1. ASSUME NEW r \in Rooms, NEW o \in Others, NEW t \in BOOLEAN, CreateMessage(o, r, t)
      PROVE  Own
  <2>1. /\ Len(sent') = Len(sent) + 1 /\ sent'[Len(sent) + 1].by = o /\ o # Me
    BY <1>1, CreatedNext DEF CreateMessage, ChatAssumption
  <2>2. \A m \in 1..Len(sent') : m \in 1..Len(sent) \/ ~Mine(m)'
    BY <1>0, <2>1 DEF Mine
  <2> QED
    BY <1>0, <2>2 DEF OwnUnseenByOthers
<1>2. ASSUME NEW l \in 1..Len(locals), Store(l)
      PROVE  Own
  <2>1. locals[l].room \in Rooms /\ Created(Me, locals[l].room)
    BY <1>2, LocalsType DEF LocalType, Store
  <2>2. Len(sent') = Len(sent) + 1 /\ unseen'[Len(sent) + 1] = ({Me} \cup Others) \ {Me}
    BY <1>2, <2>1, CreatedNext, NextIsNumbered
  <2>3. \A m \in 1..Len(sent') : m \in 1..Len(sent) \/ unseen'[m] \subseteq Others
    BY <1>0, <2>2
  <2> QED
    BY <1>0, <2>3 DEF OwnUnseenByOthers
<1>3. ASSUME UNCHANGED sent
      PROVE  Own
  BY <1>0, <1>3 DEF OwnUnseenByOthers
<1>4. distributed' \subseteq 1..Len(sent')
  <2>1. ASSUME NEW r \in Rooms, NEW ids \in SUBSET Messages(r),
               setMessagesAsDistributed(r, ids)
        PROVE  distributed' \subseteq 1..Len(sent)
    BY <2>1 DEF setMessagesAsDistributed, Messages, OwnUnseenByOthers
  <2> QED
    BY <1>0, <2>1, DistributedMoves DEF OwnUnseenByOthers
<1> QED
  BY <1>1, <1>2, <1>3, <1>4, SentMoves DEF OwnUnseenByOthers

LEMMA HappenedStays ==
  ASSUME TypeOK, Counted, LocalsAreMine, OwnUnseenByOthers, [Next]_vars
  PROVE  \A m \in 1..Len(sent) :
           /\ m \in 1..Len(sent') /\ (Mine(m)' <=> Mine(m))
           /\ \A kind : Mine(m) /\ Happened(m, kind) => Happened(m, kind)'
BY SentGrows, UnseenShrinks DEF Happened, OwnUnseenByOthers

LEMMA EventsTrueStep ==
  ASSUME TypeOK, Counted, LocalsAreMine, EventsNameMessages, OwnUnseenByOthers, EventsTrue,
         [Next]_vars
  PROVE  EventsTrue'
<1> DEFINE Fits(e) == e.kind # "added" => \A m \in e.ids : Mine(m) => Happened(m, e.kind)
<1>0. \A e \in events : Fits(e)'
  BY HappenedStays DEF EventsTrue, EventsNameMessages
<1>1. ASSUME NEW r \in Rooms, NEW o \in Others, NEW t \in BOOLEAN, CreateMessage(o, r, t)
      PROVE  \A e \in events' : Fits(e)'
  <2>1. \A e \in events' : e \in events \/ e.kind = "added"
    BY <1>1 DEF CreateMessage
  <2> QED
    BY <1>0, <2>1
<1>2. ASSUME NEW r \in Rooms, NEW ids \in SUBSET Messages(r), setMessagesAsDistributed(r, ids)
      PROVE  \A e \in events' : Fits(e)'
  <2>1. ids \subseteq distributed'
    BY <1>2 DEF setMessagesAsDistributed
  <2>2. \A e \in events' : e \in events \/ (e.kind = "distributed" /\ e.ids = ids)
    <3> DEFINE new == [kind |-> "distributed", room |-> r, ids |-> ids]
    <3>1. events' = events \cup {new} /\ new.kind = "distributed" /\ new.ids = ids
      BY <1>2 DEF setMessagesAsDistributed
    <3> HIDE DEF new
    <3> QED
      BY <3>1
  <2> QED
    BY <1>0, <2>1, <2>2 DEF Happened
<1>3. ASSUME NEW o \in Others, NEW ids \in SUBSET (1..Len(sent)), SeenByOther(o, ids)
      PROVE  \A e \in events' : Fits(e)'
  <2>1. unseen' = [m \in Ids |-> IF m \in ids THEN unseen[m] \ {o} ELSE unseen[m]]
    BY <1>3 DEF SeenByOther
  <2>2. \A m \in ids : unseen'[m] # Others
    BY <2>1, IdsOfSent
  <2>3. \A e \in events' : e \in events \/ (e.kind = "seen" /\ e.ids = ids)
    <3> DEFINE new(m) == [kind |-> "seen", room |-> sent[m].room, ids |-> ids]
    <3>1. events' = events \cup {new(m) : m \in {n \in ids : Mine(n)}}
      BY <1>3 DEF SeenByOther
    <3>2. \A m : new(m).kind = "seen" /\ new(m).ids = ids
      OBVIOUS
    <3> HIDE DEF new
    <3> QED
      BY <3>1, <3>2
  <2> QED
    BY <1>0, <2>2, <2>3 DEF Happened
<1>4. ASSUME NEW e \in events,
             addSocketMessage(e) \/ handleMessageStatusUpdated(e) \/ Lose(e)
      PROVE  \A d \in events' : Fits(d)'
  <2>1. events' \subseteq events
    BY <1>4 DEF addSocketMessage, handleMessageStatusUpdated, Lose
  <2> QED
    BY <1>0, <2>1
<1>5. ASSUME UNCHANGED events
      PROVE  \A e \in events' : Fits(e)'
  BY <1>0, <1>5
<1>6. \A e \in events' : Fits(e)'
  BY <1>1, <1>2, <1>3, <1>4, <1>5, EventsMove
<1> QED
  BY <1>6 DEF EventsTrue

LEMMA QueuedTrueStep ==
  ASSUME TypeOK, Counted, LocalsAreMine, EventsNameMessages, OwnUnseenByOthers, EventsTrue,
         QueuedTrue, [Next]_vars
  PROVE  QueuedTrue'
<1> DEFINE True(m, kind) == m \in 1..Len(sent) /\ (Mine(m) => Happened(m, kind))
<1>0. \A m \in Ids, kind \in {"seen", "distributed"} : True(m, kind) => True(m, kind)'
  BY HappenedStays
<1>1. ASSUME NEW e \in events, handleMessageStatusUpdated(e),
             NEW m \in Ids, NEW kind \in {"seen", "distributed"}, <<m, kind>> \in queued'
      PROVE  True(m, kind)
  <2>1. CASE <<m, kind>> \in queued
    BY <2>1 DEF QueuedTrue
  <2>2. CASE <<m, kind>> \notin queued
    <3>1. m \in e.ids /\ kind = e.kind /\ e.kind # "added"
      BY <1>1, <2>2 DEF handleMessageStatusUpdated
    <3> QED
      BY <3>1 DEF EventsNameMessages, EventsTrue
  <2> QED
    BY <2>1, <2>2
<1>2. ASSUME NEW l \in 1..Len(locals), replaceLocalMessage(l)
      PROVE  queued' \subseteq queued
  BY <1>2 DEF replaceLocalMessage
<1>3. \A m \in Ids, kind \in {"seen", "distributed"} : <<m, kind>> \in queued' => True(m, kind)
  BY <1>1, <1>2, QueuedMoves DEF beforeDestroy, QueuedTrue
<1> QED
  BY <1>0, <1>3 DEF QueuedTrue

LEMMA AnswersTrueStep ==
  ASSUME Typed, Counted, LocalsAreMine, AnswersInRoom, OwnUnseenByOthers, AnswersTrue,
         [Next]_vars
  PROVE  AnswersTrue'
<1> DEFINE Fits(f) == \A x \in f.answer : Mine(x.id) =>
                        /\ x.seen => Happened(x.id, "seen")
                        /\ x.distributed => Happened(x.id, "distributed")
<1>0. \A f \in fetches : Fits(f) /\ Fits(f)'
  BY HappenedStays DEF AnswersTrue, AnswersInRoom, Messages, Typed
<1>1. ASSUME NEW r \in Rooms, openRoom(r) \/ fetchMessages(r)
      PROVE  \A f \in fetches' : f \in fetches \/ f.answer = {}
  BY <1>1 DEF openRoom, fetchMessages, Fetch
<1>2. ASSUME NEW f \in fetches, Message(f) \/ MessageGated(f)
      PROVE  \A g \in fetches' : Fits(g)'
  <2>1. PICK g : /\ fetches' = (fetches \ {f}) \cup {g}
                 /\ g.answer \subseteq {Loaded(m) : m \in Answered(f)}
    BY <1>2, MessageAnswers
  <2>2. \A m \in Answered(f) : /\ m \in 1..Len(sent) /\ Loaded(m).id = m
                               /\ Mine(m) /\ Loaded(m).seen => unseen[m] = {}
                               /\ Loaded(m).distributed => m \in distributed
    BY LoadedIs DEF Answered, Before, Messages, Typed
  <2>3. UNCHANGED <<sent, unseen, distributed>>
    BY <1>2 DEF Message, MessageGated, server
  <2>4. Fits(g)'
    BY <2>1, <2>2, <2>3 DEF Happened, Mine
  <2> QED
    BY <1>0, <2>1, <2>4
<1>3. ASSUME NEW f \in fetches, mergeMessages(f) \/ LateAnswer(f) \/ FetchFails(f)
      PROVE  fetches' \subseteq fetches
  BY <1>3 DEF mergeMessages, LateAnswer, FetchFails
<1>4. \A f \in fetches' : Fits(f)'
  BY <1>0, <1>1, <1>2, <1>3, FetchesMove DEF beforeDestroy
<1> QED
  BY <1>4 DEF AnswersTrue

Honest(x) == LET m == MessageOf(x) IN
  /\ x.local # 0 /\ m = 0 => ~x.seen /\ ~x.distributed
  /\ m # 0 /\ Mine(m) => /\ x.seen => Happened(m, "seen")
                         /\ x.distributed => Happened(m, "distributed")

HonestInv == PageInv /\ OwnUnseenByOthers /\ EventsTrue /\ QueuedTrue /\ AnswersTrue
               /\ StatusIsTrue

LEMMA StatusIsHonest == StatusIsTrue <=> \A x \in shown : Honest(x)
BY DEF StatusIsTrue, Honest, Happened

\* The message of an entry that is shown, before a step and after it.
LEMMA MessageOfShown ==
  ASSUME PageInv, [Next]_vars, NEW x \in shown
  PROVE  /\ MessageOf(x) # 0 => MessageOf(x) \in 1..Len(sent) /\ MessageOf(x)' = MessageOf(x)
         /\ x.local = 0 => MessageOf(x) = x.id /\ MessageOf(x) # 0
         /\ x.local # 0 => /\ x.id = 0 /\ x.local \in 1..Len(locals)
                           /\ MessageOf(x) = locals[x.local].id
<1>0. TypeOK /\ Counted /\ LocalsAreMine /\ ShownApart
  BY DEF PageInv, Typed, Sources
<1>1. CASE x.local = 0
  BY <1>0, <1>1 DEF MessageOf, ShownApart, Messages
<1>2. CASE x.local # 0
  BY <1>0, <1>2, LocalsGrow DEF MessageOf, ShownApart, LocalsAreMine, Messages
<1> QED
  BY <1>1, <1>2

\* An entry stays honest, and more is said of it only when it is so.
LEMMA HonestKept ==
  ASSUME PageInv, OwnUnseenByOthers, [Next]_vars, NEW x \in shown, Honest(x),
         NEW y, y.id = x.id, y.local = x.local,
         y.seen => x.seen \/ (/\ MessageOf(x) # 0
                              /\ Mine(MessageOf(x)) => Happened(MessageOf(x), "seen")),
         y.distributed =>
           x.distributed \/ (/\ MessageOf(x) # 0
                             /\ Mine(MessageOf(x)) => Happened(MessageOf(x), "distributed"))
  PROVE  Honest(y)'
<1>0. TypeOK /\ Counted /\ LocalsAreMine
  BY DEF PageInv, Typed, Sources
<1>1. MessageOf(y)' = MessageOf(x)'
  BY DEF MessageOf
<1>2. CASE MessageOf(x) # 0
  <2>1. PICK m \in 1..Len(sent) : MessageOf(x) = m /\ MessageOf(y)' = m
    BY <1>1, <1>2, MessageOfShown
  <2>2. (Mine(m)' <=> Mine(m)) /\ m # 0
    BY <1>0, <1>2, <2>1, HappenedStays
  <2>3. Mine(m) /\ y.seen => Happened(m, "seen")'
    BY <1>0, <1>2, <2>1, HappenedStays DEF Honest
  <2>4. Mine(m) /\ y.distributed => Happened(m, "distributed")'
    BY <1>0, <1>2, <2>1, HappenedStays DEF Honest
  <2> QED
    BY <2>1, <2>2, <2>3, <2>4 DEF Honest
<1>3. CASE MessageOf(x) = 0
  <2>1. x.local # 0
    BY <1>3, MessageOfShown
  <2>2. ~y.seen /\ ~y.distributed
    BY <1>3, <2>1 DEF Honest
  <2> QED
    BY <2>2 DEF Honest
<1> QED
  BY <1>2, <1>3

LEMMA StatusIsTrueStep ==
  ASSUME HonestInv, [Next]_vars
  PROVE  StatusIsTrue'
<1>0. /\ TypeOK /\ Counted /\ LocalsAreMine /\ AnswersInRoom /\ EventsNameMessages
      /\ OthersWatched /\ ShownApart /\ PageInv /\ OwnUnseenByOthers /\ AnswersTrue
      /\ EventsTrue /\ QueuedTrue
      /\ shown \subseteq Entries /\ 1..Len(sent) \subseteq Ids
      /\ \A e \in events : e.kind \in {"added", "distributed", "seen"} /\ e.ids \subseteq Ids
  BY IdsOfSent DEF HonestInv, PageInv, Typed, TypeOK, Sources
<1>1. \A x \in shown : Honest(x)
  BY StatusIsHonest DEF HonestInv
<1>2. \A x \in shown : Honest(x)'
  BY <1>0, <1>1, HonestKept
<1>3. ASSUME NEW y, ~y.seen, ~y.distributed
      PROVE  Honest(y)'
  BY <1>3 DEF Honest
<1>4. ASSUME NEW f \in fetches, mergeMessages(f)
      PROVE  \A y \in shown' : Honest(y)'
  <2>1. \A x \in f.answer : /\ MessageOf(x)' = x.id /\ x.id \in 1..Len(sent)
                            /\ Mine(x.id) /\ x.seen => Happened(x.id, "seen")
                            /\ Mine(x.id) /\ x.distributed => Happened(x.id, "distributed")
                            /\ x.local = 0
    BY <1>0 DEF AnswersInRoom, AnswersTrue, MessageOf, Messages
  <2>2. \A x \in f.answer : Honest(x)'
    BY <1>0, <2>1, HappenedStays DEF Honest
  <2> QED
    BY <1>2, <1>4, <2>2 DEF mergeMessages, Kept
<1>5. ASSUME sendMessage
      PROVE  \A y \in shown' : Honest(y)'
  <2> DEFINE n == Len(locals) + 1
  <2>1. shown' = shown \cup {Entry(0, n, FALSE, FALSE)}
    BY <1>5 DEF sendMessage
  <2>2. ~Entry(0, n, FALSE, FALSE).seen /\ ~Entry(0, n, FALSE, FALSE).distributed
    BY DEF Entry
  <2>3. PICK new : /\ shown' = shown \cup {new} /\ ~new.seen /\ ~new.distributed
    BY <2>1, <2>2, Zenon
  <2> QED
    BY <1>2, <1>3, <2>3
<1>6. ASSUME NEW l \in 1..Len(locals), replaceLocalMessage(l)
      PROVE  \A y \in shown' : Honest(y)'
  <2>1. PICK m \in Ids : m = locals[l].id /\ m # 0
    BY <1>0, <1>6 DEF replaceLocalMessage, LocalsAreMine, Messages
  <2>2. shown' = {IF x.local = l THEN Applied(x, m) ELSE x : x \in shown}
    BY <1>6, <2>1 DEF replaceLocalMessage
  <2>3. ASSUME NEW x \in shown, x.local = l
        PROVE  \A y : y = Applied(x, m) => Honest(y)'
    <3>1. MessageOf(x) = m
      BY <1>0, <2>1, <2>3, MessageOfShown
    <3>2. ASSUME NEW y, y = Applied(x, m)
          PROVE  Honest(y)'
      <4>1. /\ y.id = x.id /\ y.local = x.local
            /\ y.seen => x.seen \/ <<m, "seen">> \in queued
            /\ y.distributed => x.distributed \/ <<m, "distributed">> \in queued
        BY <1>0, <3>2, AppliedIs
      <4> QED
        BY <1>0, <1>1, <2>1, <3>1, <4>1, HonestKept DEF QueuedTrue
    <3> QED
      BY <3>2
  <2>4. \A y \in shown' : \/ y \in shown
                          \/ \E x \in shown : x.local = l /\ y = Applied(x, m)
    BY <2>2
  <2> QED
    BY <1>2, <2>3, <2>4
<1>7. ASSUME NEW e \in events, addSocketMessage(e)
      PROVE  \A y \in shown' : Honest(y)'
  <2>1. \/ shown' = shown \cup {Entry(m, 0, FALSE, FALSE) : m \in e.ids}
        \/ shown' = shown
    BY <1>7 DEF addSocketMessage
  <2>2. \A m : ~Entry(m, 0, FALSE, FALSE).seen /\ ~Entry(m, 0, FALSE, FALSE).distributed
    BY DEF Entry
  <2>3. \A y \in shown' : y \in shown \/ (~y.seen /\ ~y.distributed)
    BY <2>1, <2>2, Zenon
  <2> QED
    BY <1>2, <1>3, <2>3
<1>8. ASSUME NEW e \in events, handleMessageStatusUpdated(e)
      PROVE  \A y \in shown' : Honest(y)'
  <2>1. e.kind \in {"seen", "distributed"}
    BY <1>0, <1>8 DEF handleMessageStatusUpdated
  <2>2. ASSUME NEW x \in shown, Affected(x, e.ids)
        PROVE  MessageOf(x) # 0 /\ MessageOf(x) \in e.ids
    BY <1>0, <2>2, MessageOfShown DEF Affected, EventsNameMessages
  <2>3. ASSUME NEW x \in shown, Affected(x, e.ids)
        PROVE  \A y : y = Updated(x, e.kind) => Honest(y)'
    <3>1. MessageOf(x) # 0 /\ (Mine(MessageOf(x)) => Happened(MessageOf(x), e.kind))
      BY <1>0, <2>1, <2>2, <2>3 DEF EventsTrue
    <3>2. ASSUME NEW y, y = Updated(x, e.kind)
          PROVE  Honest(y)'
      <4>1. /\ y.id = x.id /\ y.local = x.local
            /\ y.seen => x.seen \/ e.kind = "seen"
            /\ y.distributed => x.distributed \/ e.kind = "distributed"
        BY <1>0, <2>1, <3>2, UpdatedIs
      <4> QED
        BY <1>0, <1>1, <3>1, <4>1, HonestKept
    <3> QED
      BY <3>2
  <2>4. \A y \in shown' : \/ y \in shown
                          \/ \E x \in shown : Affected(x, e.ids) /\ y = Updated(x, e.kind)
    BY <1>8 DEF handleMessageStatusUpdated
  <2> QED
    BY <1>2, <2>3, <2>4
<1>9. ASSUME markAsSeen
      PROVE  \A y \in shown' : Honest(y)'
  <2>1. ASSUME NEW x \in shown, x.id \in batch
        PROVE  MessageOf(x) # 0 /\ ~Mine(MessageOf(x))
    BY <1>0, <2>1, MessageOfShown DEF OthersWatched, OthersWrote
  <2>2. ASSUME NEW x \in shown, x.id \in batch
        PROVE  \A y : y = [x EXCEPT !.seen = TRUE] => Honest(y)'
    <3>1. ASSUME NEW y, y = [x EXCEPT !.seen = TRUE]
          PROVE  Honest(y)'
      <4>1. y.id = x.id /\ y.local = x.local /\ y.distributed = x.distributed
        BY <1>0, <3>1, SeenIs
      <4> QED
        BY <1>0, <1>1, <2>1, <2>2, <4>1, HonestKept
    <3> QED
      BY <3>1
  <2>3. \A y \in shown' : \/ y \in shown
                          \/ \E x \in shown : x.id \in batch /\ y = [x EXCEPT !.seen = TRUE]
    BY <1>9 DEF markAsSeen
  <2> QED
    BY <1>2, <2>2, <2>3
<1>10. ASSUME shown' \subseteq shown
       PROVE  \A y \in shown' : Honest(y)'
  BY <1>2, <1>10
<1>11. ASSUME \/ \E r \in Rooms : openRoom(r)
              \/ beforeDestroy
              \/ \E f \in fetches : FetchFails(f)
              \/ \E l \in 1..Len(locals) : SendFails(l)
       PROVE  shown' \subseteq shown
  BY <1>11 DEF openRoom, beforeDestroy, FetchFails, SendFails
<1>12. \A y \in shown' : Honest(y)'
  BY <1>4, <1>5, <1>6, <1>7, <1>8, <1>9, <1>10, <1>11, ShownMoves
<1> QED
  BY <1>12 DEF StatusIsTrue, Honest, Happened

LEMMA HonestInvHolds == Spec => []HonestInv
<1>1. Init => HonestInv
  <2>1. ASSUME Init
        PROVE  PageInv
    BY <2>1, TypedInit DEF Init, PageInv, FetchesInOrder, ShownApart
  <2>2. ASSUME Init
        PROVE  OwnUnseenByOthers /\ EventsTrue /\ QueuedTrue /\ AnswersTrue /\ StatusIsTrue
    <3>1. /\ sent = <<>> /\ distributed = {} /\ events = {} /\ queued = {} /\ fetches = {}
          /\ shown = {} /\ Len(sent) = 0
      BY <2>2 DEF Init
    <3> QED
      BY <3>1 DEF OwnUnseenByOthers, EventsTrue, QueuedTrue, AnswersTrue, StatusIsTrue
  <2> QED
    BY <2>1, <2>2 DEF HonestInv
<1>2. HonestInv /\ [Next]_vars => HonestInv'
  <2> SUFFICES ASSUME HonestInv, [Next]_vars
               PROVE  HonestInv'
    OBVIOUS
  <2>1. PageInv'
    BY TypedStep, SourcesStep, FetchesInOrderStep, ShownApartStep
       DEF HonestInv, PageInv, Sources
  <2>2. OwnUnseenByOthers' /\ EventsTrue' /\ QueuedTrue' /\ AnswersTrue'
    BY OwnUnseenStep, EventsTrueStep, QueuedTrueStep, AnswersTrueStep
       DEF HonestInv, PageInv, Typed, Sources
  <2> QED
    BY <2>1, <2>2, StatusIsTrueStep DEF HonestInv
<1> QED
  BY <1>1, <1>2, PTL DEF Spec

(***************************************************************************)
(* The page does not say of a message of mine what is not so, because      *)
(* nothing on its way to it does: not an answer, which may be old when it  *)
(* comes, nor an event, nor an update that is queued - and what was        *)
(* received or seen stays so.                                              *)
(***************************************************************************)
THEOREM StatusIsTrueHolds == Spec => []StatusIsTrue
<1>1. HonestInv => StatusIsTrue
  BY DEF HonestInv
<1> QED
  BY <1>1, HonestInvHolds, PTL

-----------------------------------------------------------------------------
(***************************************************************************)
(* What has been seen is reported, and what is to be is watched for.       *)
(***************************************************************************)
LEMMA OwedUntilReported ==
  ASSUME TypeOK, [Next]_vars, NEW m \in Owed, m \notin Owed'
  PROVE  \/ Me \notin unseen'[m]
         \/ beforeDestroy
         \/ \E ids \in marks : MarkFails(ids) /\ m \in ids
<1>1. ASSUME NEW ids \in marks, MarkFails(ids)
      PROVE  m \in ids
  BY <1>1 DEF MarkFails, page, Owed
<1>2. ASSUME NEW ids \in marks, MarkMessagesAsSeen(ids)
      PROVE  Me \notin unseen'[m]
  <2>1. /\ unseen' = [n \in Ids |-> IF n \in ids THEN unseen[n] \ {Me} ELSE unseen[n]]
        /\ marks' = marks \ {ids} /\ UNCHANGED batch
    BY <1>2 DEF MarkMessagesAsSeen, page
  <2>2. m \in ids
    BY <2>1 DEF Owed
  <2>3. m \in Ids
    BY DEF Owed, TypeOK
  <2> QED
    BY <2>1, <2>2, <2>3
<1>3. ASSUME markAsSeen
      PROVE  FALSE
  <2>1. marks' = marks \cup {batch}
    BY <1>3 DEF markAsSeen
  <2> QED
    BY <2>1 DEF Owed
<1>4. ASSUME UNCHANGED marks
      PROVE  beforeDestroy
  <2>1. ~(batch \subseteq batch')
    BY <1>4 DEF Owed
  <2>2. ASSUME \/ \E r \in Rooms : openRoom(r)
               \/ \E f \in fetches : mergeMessages(f) \/ FetchFails(f)
               \/ \E e \in events : addSocketMessage(e)
               \/ \E n \in watched : ComesIntoView(n)
               \/ UNCHANGED <<watched, viewed, batch>>
        PROVE  batch \subseteq batch'
    BY <2>2 DEF openRoom, mergeMessages, FetchFails, addSocketMessage, ComesIntoView
  <2> QED
    BY <1>3, <2>1, <2>2, WatchMoves
<1> QED
  BY <1>1, <1>2, <1>3, <1>4, MarksMove

(***************************************************************************)
(* What the reader has had before the eyes is owed to the server until it  *)
(* is told: it goes from the batch into a report when the timer fires, and *)
(* from the report when the server has marked it as seen.  Opening another *)
(* room leaves the batch alone (Chat.vue:670-677).                         *)
(***************************************************************************)
THEOREM ReadIsReportedHolds == Spec => ReadIsReported
<1> DEFINE Told == \A m \in Owed \ Owed' :
                     Me \notin unseen'[m] \/ beforeDestroy \/ \E ids \in marks : MarkFails(ids)
<1>1. TypeOK /\ [Next]_vars => [Told]_vars
  BY OwedUntilReported
<1> QED
  BY <1>1, TypeCorrect, PTL DEF Spec, ReadIsReported

UnseenAtHand ==
  \A x \in shown : x.id # 0 /\ ~Mine(x.id) /\ ~x.seen => x.id \in watched \cup batch

\* What has been in view is owed to the server, or it has it, or was not told.
ViewedIsReported ==
  \A m \in viewed : m \in Owed \cup unreported \/ Me \notin unseen[m]

LEMMA UnseenAtHandStep ==
  ASSUME PageInv, UnseenAtHand, [Next]_vars
  PROVE  UnseenAtHand'
<1> DEFINE Fits(x, ids) == x.id # 0 /\ ~Mine(x.id) /\ ~x.seen => x.id \in ids
<1>0. /\ TypeOK /\ AnswersInRoom /\ EventsNameMessages /\ ShownApart /\ shown \subseteq Entries
      /\ \A m \in 1..Len(sent) : Mine(m)' <=> Mine(m)
      /\ \A r : Messages(r) \subseteq 1..Len(sent)
  BY SentGrows DEF PageInv, Typed, TypeOK, Sources, Messages
<1>1. \A x \in shown : x.id # 0 => (Mine(x.id)' <=> Mine(x.id))
  BY <1>0 DEF ShownApart
<1>2. \A x \in shown : Fits(x, watched \cup batch)
  BY DEF UnseenAtHand
<1>3. CASE shown' = {}
  BY <1>3 DEF UnseenAtHand
<1>4. ASSUME NEW f \in fetches, mergeMessages(f)
      PROVE  UnseenAtHand'
  <2>1. /\ shown' = Kept(f.answer) \cup f.answer /\ UNCHANGED <<sent, batch>>
        /\ watched' = watched \cup ToWatch(f.answer)
    BY <1>4 DEF mergeMessages, server
  <2>2. \A x \in f.answer : Fits(x, watched' \cup batch')
    BY <2>1 DEF ToWatch
  <2>3. \A x \in Kept(f.answer) : Fits(x, watched' \cup batch')
    BY <1>2, <2>1 DEF Kept
  <2> QED
    BY <2>1, <2>2, <2>3 DEF UnseenAtHand, Mine
<1>5. ASSUME \A y \in shown' : \/ y.id = 0
                               \/ \E x \in shown : x.id = y.id /\ (x.seen => y.seen),
             watched \cup batch \subseteq watched' \cup batch'
      PROVE  UnseenAtHand'
  BY <1>1, <1>2, <1>5 DEF UnseenAtHand
<1>6. ASSUME NEW e \in events, addSocketMessage(e)
      PROVE  UnseenAtHand'
  <2>1. UNCHANGED <<sent, batch>>
    BY <1>6 DEF addSocketMessage, server
  <2>2. CASE shown' = shown /\ watched' = watched
    BY <2>1, <2>2 DEF UnseenAtHand, Mine
  <2>3. CASE ~(shown' = shown /\ watched' = watched)
    <3>1. /\ shown' = shown \cup {Entry(m, 0, FALSE, FALSE) : m \in e.ids}
          /\ watched' = watched \cup e.ids
      BY <1>6, <2>3 DEF addSocketMessage
    <3>2. \A m : Entry(m, 0, FALSE, FALSE).id = m
      BY DEF Entry
    <3>3. \A y \in shown' : y \in shown \/ y.id \in e.ids
      BY <3>1, <3>2, Zenon
    <3> QED
      BY <1>2, <2>1, <3>1, <3>3 DEF UnseenAtHand, Mine
  <2> QED
    BY <2>2, <2>3
<1>7. ASSUME NEW m \in watched, ComesIntoView(m)
      PROVE  shown' = shown /\ watched \cup batch \subseteq watched' \cup batch'
  BY <1>7 DEF ComesIntoView
<1>8. CASE markAsSeen
  <2>1. /\ shown' = {IF x.id \in batch THEN [x EXCEPT !.seen = TRUE] ELSE x : x \in shown}
        /\ UNCHANGED <<sent, watched>>
    BY <1>8 DEF markAsSeen, server
  <2>2. \A x \in shown : [x EXCEPT !.seen = TRUE].seen
    BY <1>0, SeenIs
  <2>3. \A y \in shown' : y.seen \/ (y \in shown /\ y.id \notin batch)
    BY <2>1, <2>2
  <2> QED
    BY <1>2, <2>1, <2>3 DEF UnseenAtHand, Mine
<1>9. CASE sendMessage
  <2> DEFINE new == Entry(0, Len(locals) + 1, FALSE, FALSE)
  <2>1. shown' = shown \cup {new} /\ UNCHANGED <<watched, batch>>
    BY <1>9 DEF sendMessage
  <2>2. new.id = 0
    BY DEF Entry
  <2> HIDE DEF new
  <2> QED
    BY <1>5, <2>1, <2>2
<1>10. ASSUME NEW f \in fetches, FetchFails(f)
       PROVE  UnseenAtHand'
  BY <1>5, <1>10 DEF FetchFails
<1>11. ASSUME NEW l \in 1..Len(locals), replaceLocalMessage(l) \/ SendFails(l)
       PROVE  UnseenAtHand'
  <2>1. UNCHANGED <<watched, batch>>
    BY <1>11 DEF replaceLocalMessage, SendFails
  <2>2. CASE SendFails(l)
    BY <1>5, <2>1, <2>2 DEF SendFails
  <2>3. CASE replaceLocalMessage(l)
    <3> DEFINE m == locals[l].id
    <3>1. shown' = {IF x.local = l THEN Applied(x, m) ELSE x : x \in shown}
      BY <2>3 DEF replaceLocalMessage
    <3>2. \A x \in shown : Applied(x, m).id = x.id /\ (x.seen => Applied(x, m).seen)
      BY <1>0, AppliedIs
    <3> HIDE DEF m
    <3> QED
      BY <1>5, <2>1, <3>1, <3>2
  <2> QED
    BY <1>11, <2>2, <2>3
<1>12. ASSUME NEW e \in events, handleMessageStatusUpdated(e)
       PROVE  UnseenAtHand'
  <2>1. \A x \in shown : /\ Updated(x, e.kind).id = x.id
                         /\ x.seen => Updated(x, e.kind).seen
    BY <1>0, UpdatedIs
  <2>2. UNCHANGED <<watched, batch>>
    BY <1>12 DEF handleMessageStatusUpdated
  <2>3. \A y \in shown' : \/ y \in shown
                          \/ \E x \in shown : y = Updated(x, e.kind)
    BY <1>12 DEF handleMessageStatusUpdated
  <2> QED
    BY <1>5, <2>1, <2>2, <2>3
<1>13. CASE UNCHANGED <<shown, watched, viewed, batch>>
  BY <1>5, <1>13
<1>14. ASSUME UNCHANGED shown, NEW m \in watched, ComesIntoView(m)
       PROVE  UnseenAtHand'
  BY <1>5, <1>7, <1>14
<1> QED
  BY <1>3, <1>4, <1>6, <1>8, <1>9, <1>10, <1>11, <1>12, <1>13, <1>14, ShownMoves, WatchMoves
     DEF openRoom, beforeDestroy

LEMMA ViewedIsReportedStep ==
  ASSUME PageInv, ViewedIsReported, [Next]_vars
  PROVE  ViewedIsReported'
<1>0. /\ TypeOK /\ viewed \subseteq 1..Len(sent)
      /\ \A m \in 1..Len(sent) : unseen'[m] \subseteq unseen[m]
  BY UnseenShrinks DEF PageInv, Typed, Sources, OthersWatched, OthersWrote
<1>1. CASE viewed' = {}
  BY <1>1 DEF ViewedIsReported
<1>2. ASSUME NEW m \in watched, ComesIntoView(m), NEW n \in viewed', n \notin viewed
      PROVE  n \in Owed'
  BY <1>2 DEF ComesIntoView, Owed
<1>3. \A n \in viewed' : n \in viewed \/ n \in Owed'
  <2>1. ASSUME \/ \E f \in fetches : mergeMessages(f) \/ FetchFails(f)
               \/ \E e \in events : addSocketMessage(e)
               \/ markAsSeen
        PROVE  viewed' \subseteq viewed
    BY <2>1 DEF mergeMessages, FetchFails, addSocketMessage, markAsSeen
  <2> QED
    BY <1>2, <2>1, WatchMoves DEF openRoom, beforeDestroy
<1>4. ASSUME viewed' # {}
      PROVE  unreported \subseteq unreported'
  BY <1>4, HistoryMoves DEF openRoom, beforeDestroy, CreateMessage, MessageGated, FetchFails,
     handleMessageStatusUpdated, Lose, MarkFails
<1>5. ASSUME NEW n \in viewed, viewed' # {}
      PROVE  n \in Owed' \cup unreported' \/ Me \notin unseen'[n]
  <2>1. CASE n \in unreported
    BY <1>4, <1>5, <2>1
  <2>2. CASE Me \notin unseen[n]
    BY <1>0, <2>2
  <2>3. CASE n \in Owed /\ n \notin Owed'
    <3>1. ~beforeDestroy
      BY <1>5 DEF beforeDestroy
    <3>2. ASSUME NEW ids \in marks, MarkFails(ids), n \in ids
          PROVE  n \in unreported'
      BY <3>2 DEF MarkFails
    <3> QED
      BY <1>0, <2>3, <3>1, <3>2, OwedUntilReported
  <2> QED
    BY <2>1, <2>2, <2>3 DEF ViewedIsReported
<1> QED
  BY <1>1, <1>3, <1>5 DEF ViewedIsReported

(***************************************************************************)
(* A message of others that the page shows as not seen is watched for,     *)
(* from when it is shown, until it comes into view.  From then on its      *)
(* report is owed, made or has failed, so that an element the page does    *)
(* not observe again (Chat.vue:697) hides no message from the server.      *)
(***************************************************************************)
THEOREM UnseenIsWatchedHolds == Spec => []UnseenIsWatched
<1>1. Init => UnseenAtHand /\ ViewedIsReported
  BY DEF Init, UnseenAtHand, ViewedIsReported
<1>2. PageInv /\ UnseenAtHand /\ ViewedIsReported /\ [Next]_vars
        => UnseenAtHand' /\ ViewedIsReported'
  BY UnseenAtHandStep, ViewedIsReportedStep
<1>3. UnseenAtHand /\ ViewedIsReported => UnseenIsWatched
  BY DEF UnseenAtHand, ViewedIsReported, UnseenIsWatched, Owed
<1> QED
  BY <1>1, <1>2, <1>3, PageInvHolds, PTL DEF Spec

-----------------------------------------------------------------------------
(***************************************************************************)
(* What was received or seen gets to the page: the word of it is on its    *)
(* way, or is queued until the message has its id.                         *)
(***************************************************************************)
Heading(m, kind) == \E e \in events : e.kind = kind /\ e.room = sent[m].room /\ m \in e.ids

Reaches(l, kind) ==
  \/ Heading(locals[l].id, kind)
  \/ locals[l].stage = "stored" /\ <<locals[l].id, kind>> \in queued

Follows(x) ==
  (/\ x.local # 0 /\ locals[x.local].stage \in {"stored", "known"}
   /\ locals[x.local].id \notin missed) =>
    /\ unseen[locals[x.local].id] # Others => x.seen \/ Reaches(x.local, "seen")
    /\ locals[x.local].id \in distributed => x.distributed \/ Reaches(x.local, "distributed")

StatusFollows == \A x \in shown : Follows(x)

FollowsInv == PageInv /\ OwnUnseenByOthers /\ StatusFollows

\* Whatever becomes of a message of mine is told to this page.
LEMMA NewsTravels ==
  ASSUME TypeOK, Counted, LocalsAreMine, OwnUnseenByOthers, [Next]_vars,
         NEW m \in 1..Len(sent), Mine(m)
  PROVE  /\ unseen'[m] # Others => unseen[m] # Others \/ Heading(m, "seen")'
         /\ m \in distributed' => m \in distributed \/ Heading(m, "distributed")'
<1>0. m \in Ids /\ unseen[m] \subseteq Others /\ Me \notin Others
  BY IdsOfSent DEF OwnUnseenByOthers, ChatAssumption
<1> DEFINE Goal == unseen'[m] # Others => unseen[m] # Others \/ Heading(m, "seen")'
<1>1. ASSUME NEW r \in Rooms, NEW o \in Others, NEW t \in BOOLEAN, CreateMessage(o, r, t)
      PROVE  unseen'[m] = unseen[m]
  BY <1>0, <1>1, CreatedNext DEF CreateMessage
<1>2. ASSUME NEW l \in 1..Len(locals), Store(l)
      PROVE  unseen'[m] = unseen[m]
  <2>1. locals[l].room \in Rooms /\ Created(Me, locals[l].room)
    BY <1>2, LocalsType DEF LocalType, Store
  <2> QED
    BY <1>0, <2>1, CreatedNext
<1>3. ASSUME NEW o \in Others, NEW ids \in SUBSET (1..Len(sent)), SeenByOther(o, ids)
      PROVE  Goal
  <2>1. CASE m \notin ids
    <3>1. unseen' = [n \in Ids |-> IF n \in ids THEN unseen[n] \ {o} ELSE unseen[n]]
      BY <1>3 DEF SeenByOther
    <3> QED
      BY <1>0, <2>1, <3>1
  <2>2. CASE m \in ids
    <3> DEFINE new(n) == [kind |-> "seen", room |-> sent[n].room, ids |-> ids]
    <3>1. events' = events \cup {new(n) : n \in {k \in ids : Mine(k)}} /\ UNCHANGED sent
      BY <1>3 DEF SeenByOther
    <3>2. new(m).kind = "seen" /\ new(m).room = sent[m].room /\ new(m).ids = ids
      OBVIOUS
    <3> HIDE DEF new
    <3> QED
      BY <2>2, <3>1, <3>2 DEF Heading
  <2> QED
    BY <2>1, <2>2
<1>4. ASSUME NEW ids \in marks, MarkMessagesAsSeen(ids)
      PROVE  unseen'[m] = unseen[m]
  <2>1. unseen' = [n \in Ids |-> IF n \in ids THEN unseen[n] \ {Me} ELSE unseen[n]]
    BY <1>4 DEF MarkMessagesAsSeen
  <2> QED
    BY <1>0, <2>1
<1>5. Goal
  BY <1>1, <1>2, <1>3, <1>4, UnseenMoves
<1>6. ASSUME NEW r \in Rooms, NEW ids \in SUBSET Messages(r), setMessagesAsDistributed(r, ids),
             m \in distributed'
      PROVE  m \in distributed \/ Heading(m, "distributed")'
  <2> DEFINE new == [kind |-> "distributed", room |-> r, ids |-> ids]
  <2>1. /\ events' = events \cup {new} /\ distributed' = distributed \cup ids /\ UNCHANGED sent
        /\ new.kind = "distributed" /\ new.room = r /\ new.ids = ids
    BY <1>6 DEF setMessagesAsDistributed
  <2>2. \A n \in ids : sent[n].room = r
    BY DEF Messages
  <2> HIDE DEF new
  <2> QED
    BY <1>6, <2>1, <2>2 DEF Heading
<1> QED
  BY <1>5, <1>6, DistributedMoves

\* The word of it stays on its way until the page takes it, or it is lost.
LEMMA HeadingStays ==
  ASSUME TypeOK, [Next]_vars, NEW m \in 1..Len(sent), NEW kind, kind # "added",
         Heading(m, kind)
  PROVE  \/ Heading(m, kind)'
         \/ \E e \in events : /\ handleMessageStatusUpdated(e)
                              /\ e.kind = kind /\ e.room = sent[m].room /\ m \in e.ids
         \/ m \in missed'
<1>1. PICK e \in events : e.kind = kind /\ e.room = sent[m].room /\ m \in e.ids
  BY DEF Heading
<1>2. sent'[m] = sent[m]
  BY SentGrows
<1>3. CASE e \in events'
  BY <1>1, <1>2, <1>3 DEF Heading
<1>4. CASE e \notin events'
  <2>1. \E d \in events : addSocketMessage(d) \/ handleMessageStatusUpdated(d) \/ Lose(d)
    BY <1>4, EventsMove DEF CreateMessage, setMessagesAsDistributed, SeenByOther
  <2>2. PICK d \in events : addSocketMessage(d) \/ handleMessageStatusUpdated(d) \/ Lose(d)
    BY <2>1
  <2>3. events' = events \ {d}
    BY <2>2 DEF addSocketMessage, handleMessageStatusUpdated, Lose
  <2>4. d = e
    BY <1>4, <2>3
  <2>5. CASE Lose(e)
    BY <1>1, <2>5 DEF Lose
  <2>6. CASE addSocketMessage(e)
    BY <1>1, <2>6 DEF addSocketMessage
  <2> QED
    BY <1>1, <2>2, <2>4, <2>5, <2>6
<1> QED
  BY <1>3, <1>4

\* The message of a local entry, once it is stored.
LEMMA StoredShown ==
  ASSUME PageInv, NEW x \in shown, x.local # 0,
         locals[x.local].stage \in {"stored", "known"}
  PROVE  /\ x.id = 0 /\ x.local \in 1..Len(locals)
         /\ locals[x.local].id \in 1..Len(sent) /\ Mine(locals[x.local].id)
         /\ sent[locals[x.local].id].room = selected
         /\ locals[x.local].id # 0
         /\ locals[x.local].id \in Messages(selected)
BY DEF PageInv, Sources, ShownApart, LocalsAreMine, Messages

\* An entry whose message keeps its place goes on following it.
LEMMA FollowsKept ==
  ASSUME FollowsInv, [Next]_vars, NEW x \in shown,
         ~\E e \in events : handleMessageStatusUpdated(e),
         ~\E l \in 1..Len(locals) : replaceLocalMessage(l),
         ~beforeDestroy,
         NEW y, y.local = x.local, x.seen => y.seen, x.distributed => y.distributed
  PROVE  Follows(y)'
<1>0. /\ TypeOK /\ Counted /\ LocalsAreMine /\ OwnUnseenByOthers /\ ShownApart
      /\ Len(locals) \in Nat /\ Len(sent) \in Nat /\ PageInv
  BY SentType, LocalsType DEF FollowsInv, PageInv, Typed, Sources
<1>1. CASE x.local = 0
  BY <1>1 DEF Follows
<1>2. CASE x.local # 0
  <2>1. PICK l \in 1..Len(locals) : l = x.local
    BY <1>0, <1>2 DEF ShownApart
  <2>2. CASE Store(l)
    <3>1. PICK n \in Ids : n = Len(sent) + 1
      BY <1>0, <2>2, NextIsNumbered
    <3>2. locals'[l].id = n /\ UNCHANGED distributed /\ n \notin 1..Len(sent)
      BY <1>0, <2>2, <3>1, StoreLocals DEF Store
    <3>3. unseen'[n] = Others
      <4>1. locals[l].room \in Rooms /\ Created(Me, locals[l].room)
        BY <1>0, <2>2, LocalsType DEF LocalType, Store
      <4>2. unseen'[n] = ({Me} \cup Others) \ {Me}
        BY <1>0, <3>1, <4>1, CreatedNext
      <4> QED
        BY <4>2 DEF ChatAssumption
    <3> QED
      BY <1>0, <2>1, <3>2, <3>3 DEF Follows, OwnUnseenByOthers
  <2>3. CASE SendFails(l)
    <3>1. locals' = [locals EXCEPT ![l].stage = "failed"] /\ "failed" \in {"known", "failed"}
      BY <2>3 DEF SendFails
    <3>2. locals'[l].stage = "failed"
      BY <1>0, <3>1, StageLocals, Zenon
    <3> QED
      BY <2>1, <3>2 DEF Follows
  <2>4. CASE ~Store(l) /\ ~SendFails(l)
    <3>1. locals'[l] = locals[l]
      BY <1>0, <2>4, LocalsMove, sendMessageLocals, StoreLocals, NextIsNumbered, AnsweredLocals
    <3>2. CASE locals[l].stage \notin {"stored", "known"}
      BY <2>1, <3>1, <3>2 DEF Follows
    <3>3. CASE locals[l].stage \in {"stored", "known"}
      <4>1. PICK m \in 1..Len(sent) : m = locals[l].id /\ Mine(m)
        BY <1>0, <1>2, <2>1, <3>3, StoredShown
      <4>2. missed \subseteq missed' /\ UNCHANGED queued
        BY HistoryMoves, QueuedMoves
           DEF openRoom, CreateMessage, MessageGated, FetchFails, Lose, MarkFails
      <4>3. ASSUME NEW kind, kind # "added", Reaches(l, kind), m \notin missed'
            PROVE  Reaches(l, kind)'
        BY <1>0, <3>1, <4>1, <4>2, <4>3, HeadingStays DEF Reaches
      <4>4. \A kind : Heading(m, kind)' => Reaches(l, kind)'
        BY <3>1, <4>1 DEF Reaches
      <4>5. m \notin missed' /\ unseen'[m] # Others => y.seen \/ Reaches(l, "seen")'
        BY <1>0, <1>2, <2>1, <3>3, <4>1, <4>2, <4>3, <4>4, NewsTravels
           DEF FollowsInv, StatusFollows, Follows
      <4>6. m \notin missed' /\ m \in distributed' =>
              y.distributed \/ Reaches(l, "distributed")'
        BY <1>0, <1>2, <2>1, <3>3, <4>1, <4>2, <4>3, <4>4, NewsTravels
           DEF FollowsInv, StatusFollows, Follows
      <4> QED
        BY <2>1, <3>1, <4>1, <4>5, <4>6 DEF Follows
    <3> QED
      BY <3>2, <3>3
  <2> QED
    BY <2>2, <2>3, <2>4
<1> QED
  BY <1>1, <1>2

\* None of the entries shown is placed by the id of a message whose answer
\* is still out.
LEMMA StoredNotPlaced ==
  ASSUME PageInv, NEW x \in shown, x.local # 0, locals[x.local].stage = "stored"
  PROVE  ~Placed({locals[x.local].id})
<1>1. PICK m \in 1..Len(sent) : m = locals[x.local].id /\ m # 0
  BY StoredShown
<1>2. ASSUME NEW y \in shown, Affected(y, {m})
      PROVE  FALSE
  <2>1. CASE y.id = m
    BY <1>1, <2>1 DEF PageInv, ShownApart
  <2>2. CASE y.id # m
    <3>1. y.local # 0 /\ locals[y.local].stage = "known" /\ locals[y.local].id = m
      BY <1>2, <2>2 DEF Affected
    <3>2. y.local \in 1..Len(locals) /\ x.local \in 1..Len(locals)
      BY <3>1 DEF PageInv, ShownApart
    <3>3. y.local = x.local
      BY <1>1, <3>1, <3>2 DEF PageInv, Sources, LocalsAreMine
    <3> QED
      BY <3>1, <3>3
  <2> QED
    BY <2>1, <2>2
<1> QED
  BY <1>1, <1>2 DEF Placed

\* An event that comes is applied to the entry, or queued for it, or counted
\* among those that are missed.
LEMMA FollowsUpdated ==
  ASSUME FollowsInv, [Next]_vars, NEW e \in events, handleMessageStatusUpdated(e),
         NEW x \in shown,
         NEW y, y.local = x.local, x.seen => y.seen, x.distributed => y.distributed,
         e.room = selected /\ Affected(x, e.ids) =>
           (e.kind = "seen" => y.seen) /\ (e.kind = "distributed" => y.distributed)
  PROVE  Follows(y)'
<1>0. /\ TypeOK /\ PageInv /\ UNCHANGED <<sent, unseen, distributed, locals, selected>>
      /\ events' = events \ {e} /\ missed \subseteq missed' /\ queued \subseteq queued'
  BY DEF FollowsInv, PageInv, Typed, handleMessageStatusUpdated, server, room
<1>1. CASE ~(x.local # 0 /\ locals[x.local].stage \in {"stored", "known"})
  BY <1>0, <1>1 DEF Follows
<1>2. CASE x.local # 0 /\ locals[x.local].stage \in {"stored", "known"}
  <2>1. PICK l \in 1..Len(locals) : l = x.local
    BY <1>0, <1>2, StoredShown
  <2>2. PICK m \in 1..Len(sent) : /\ m = locals[l].id /\ sent[m].room = selected
                                  /\ m \in Messages(selected)
    BY <1>0, <1>2, <2>1, StoredShown
  <2>3. ASSUME NEW kind, kind # "added", Reaches(l, kind), m \notin missed',
               ~(kind = e.kind /\ e.room = selected /\ Affected(x, e.ids))
        PROVE  Reaches(l, kind)'
    <3>1. CASE locals[l].stage = "stored" /\ <<m, kind>> \in queued
      BY <1>0, <2>2, <3>1 DEF Reaches
    <3>2. CASE Heading(m, kind)'
      BY <1>0, <2>2, <3>2 DEF Reaches
    <3>3. CASE Heading(m, kind) /\ ~Heading(m, kind)'
      <4>1. kind = e.kind /\ e.room = selected /\ m \in e.ids
        BY <1>0, <2>2, <3>3 DEF Heading
      <4>2. locals[l].stage = "stored"
        BY <1>2, <2>1, <2>2, <2>3, <4>1 DEF Affected
      <4>3. ~Placed({m})
        BY <1>0, <1>2, <2>1, <2>2, <4>2, StoredNotPlaced
      <4>4. ~Placed(e.ids)
        BY <2>2, <2>3, <4>1, <4>3 DEF handleMessageStatusUpdated
      <4>5. <<m, kind>> \in queued'
        BY <4>1, <4>4 DEF handleMessageStatusUpdated
      <4> QED
        BY <1>0, <2>2, <4>2, <4>5 DEF Reaches
    <3> QED
      BY <2>2, <2>3, <3>1, <3>2, <3>3 DEF Reaches
  <2>4. m \notin missed' /\ unseen[m] # Others => y.seen \/ Reaches(l, "seen")'
    BY <1>0, <1>2, <2>1, <2>2, <2>3 DEF FollowsInv, StatusFollows, Follows
  <2>5. m \notin missed' /\ m \in distributed => y.distributed \/ Reaches(l, "distributed")'
    BY <1>0, <1>2, <2>1, <2>2, <2>3 DEF FollowsInv, StatusFollows, Follows
  <2> QED
    BY <1>0, <2>1, <2>2, <2>4, <2>5 DEF Follows
<1> QED
  BY <1>1, <1>2

\* The answer brings the id, and what was queued under it is applied.
LEMMA FollowsReplaced ==
  ASSUME FollowsInv, [Next]_vars, NEW l \in 1..Len(locals), replaceLocalMessage(l),
         NEW x \in shown,
         NEW y, y.local = x.local, x.seen => y.seen, x.distributed => y.distributed,
         x.local = l =>
           /\ <<locals[l].id, "seen">> \in queued => y.seen
           /\ <<locals[l].id, "distributed">> \in queued => y.distributed
  PROVE  Follows(y)'
<1>0. /\ TypeOK /\ PageInv /\ LocalsAreMine
      /\ UNCHANGED <<sent, unseen, distributed, events, missed>>
  BY DEF FollowsInv, PageInv, Typed, Sources, replaceLocalMessage, server, history
<1>1. /\ Len(locals') = Len(locals) /\ locals[l].stage = "stored"
      /\ \A k \in 1..Len(locals) : k # l => locals'[k] = locals[k]
      /\ locals'[l].id = locals[l].id
  BY <1>0, AnsweredLocals DEF replaceLocalMessage
<1>2. \A m, kind : Heading(m, kind) => Heading(m, kind)'
  BY <1>0 DEF Heading
<1>3. CASE ~(x.local # 0 /\ locals[x.local].stage \in {"stored", "known"})
  <2>1. CASE x.local = 0
    BY <2>1 DEF Follows
  <2>2. CASE x.local # 0
    <3>1. x.local \in 1..Len(locals) /\ x.local # l
      BY <1>0, <1>1, <1>3, <2>2 DEF PageInv, ShownApart
    <3> QED
      BY <1>1, <1>3, <2>2, <3>1 DEF Follows
  <2> QED
    BY <2>1, <2>2
<1>4. CASE x.local # 0 /\ locals[x.local].stage \in {"stored", "known"}
  <2>1. PICK k \in 1..Len(locals) : k = x.local
    BY <1>0, <1>4, StoredShown
  <2>2. PICK m \in 1..Len(sent) : m = locals[k].id /\ m = locals'[k].id
    BY <1>0, <1>1, <1>4, <2>1, StoredShown
  <2>3. /\ m \notin missed /\ unseen[m] # Others => x.seen \/ Reaches(k, "seen")
        /\ m \notin missed /\ m \in distributed => x.distributed \/ Reaches(k, "distributed")
    BY <1>4, <2>1, <2>2 DEF FollowsInv, StatusFollows, Follows
  <2>4. CASE k = l
    <3>1. /\ Reaches(k, "seen") => Heading(m, "seen") \/ y.seen
          /\ Reaches(k, "distributed") => Heading(m, "distributed") \/ y.distributed
      BY <2>1, <2>2, <2>4 DEF Reaches
    <3>2. \A kind : Heading(m, kind)' => Reaches(k, kind)'
      BY <2>2 DEF Reaches
    <3>3. m \notin missed /\ unseen[m] # Others => y.seen \/ Reaches(k, "seen")'
      BY <1>2, <2>3, <3>1, <3>2
    <3>4. m \notin missed /\ m \in distributed => y.distributed \/ Reaches(k, "distributed")'
      BY <1>2, <2>3, <3>1, <3>2
    <3> QED
      BY <1>0, <2>1, <2>2, <3>3, <3>4 DEF Follows
  <2>5. CASE k # l
    <3>1. locals[l].id # m
      BY <1>0, <1>1, <2>1, <2>2, <2>5, <1>4 DEF LocalsAreMine
    <3>2. locals'[k] = locals[k]
      BY <1>1, <2>5
    <3>3. \A kind : <<m, kind>> \in queued => <<m, kind>> \in queued'
      BY <3>1 DEF replaceLocalMessage
    <3>4. \A kind : Reaches(k, kind) => Reaches(k, kind)'
      BY <1>2, <2>2, <3>2, <3>3 DEF Reaches
    <3>5. m \notin missed /\ unseen[m] # Others => y.seen \/ Reaches(k, "seen")'
      BY <2>3, <3>4
    <3>6. m \notin missed /\ m \in distributed => y.distributed \/ Reaches(k, "distributed")'
      BY <2>3, <3>4
    <3> QED
      BY <1>0, <2>1, <2>2, <3>5, <3>6 DEF Follows
  <2> QED
    BY <2>4, <2>5
<1> QED
  BY <1>3, <1>4

LEMMA StatusFollowsStep ==
  ASSUME FollowsInv, [Next]_vars
  PROVE  StatusFollows'
<1>0. /\ TypeOK /\ Counted /\ AnswersInRoom /\ ShownApart /\ PageInv /\ shown \subseteq Entries
      /\ Len(locals) \in Nat
  BY LocalsType DEF FollowsInv, PageInv, Typed, TypeOK, Sources
<1>1. CASE shown' = {}
  BY <1>1 DEF StatusFollows
<1>2. ASSUME NEW e \in events, handleMessageStatusUpdated(e), NEW y \in shown'
      PROVE  Follows(y)'
  <2>1. PICK x \in shown : /\ e.room # selected => y = x
                           /\ e.room = selected =>
                                y = IF Affected(x, e.ids) THEN Updated(x, e.kind) ELSE x
    BY <1>2 DEF handleMessageStatusUpdated
  <2>2. /\ y.local = x.local /\ (x.seen => y.seen) /\ (x.distributed => y.distributed)
        /\ e.room = selected /\ Affected(x, e.ids) =>
             (e.kind = "seen" => y.seen) /\ (e.kind = "distributed" => y.distributed)
    <3>1. CASE y = x /\ ~(e.room = selected /\ Affected(x, e.ids))
      BY <3>1
    <3>2. CASE y = Updated(x, e.kind)
      BY <1>0, <3>2, UpdatedIs
    <3> QED
      BY <2>1, <3>1, <3>2
  <2> QED
    BY <1>2, <2>2, FollowsUpdated
<1>3. ASSUME NEW l \in 1..Len(locals), replaceLocalMessage(l), NEW y \in shown'
      PROVE  Follows(y)'
  <2> DEFINE m == locals[l].id
  <2>1. shown' = {IF x.local = l THEN Applied(x, m) ELSE x : x \in shown}
    BY <1>3 DEF replaceLocalMessage
  <2>2. PICK x \in shown : y = IF x.local = l THEN Applied(x, m) ELSE x
    BY <2>1
  <2>3. /\ y.local = x.local /\ (x.seen => y.seen) /\ (x.distributed => y.distributed)
        /\ x.local = l => /\ <<m, "seen">> \in queued => y.seen
                          /\ <<m, "distributed">> \in queued => y.distributed
    BY <1>0, <2>2, AppliedIs
  <2> QED
    BY <1>3, <2>3, FollowsReplaced
<1>4. ASSUME ~\E e \in events : handleMessageStatusUpdated(e),
             ~\E l \in 1..Len(locals) : replaceLocalMessage(l),
             ~beforeDestroy
      PROVE  \A y : \A x \in shown : /\ y.local = x.local /\ (x.seen => y.seen)
                                     /\ x.distributed => y.distributed
                                     => Follows(y)'
  BY <1>4, FollowsKept
<1>5. ASSUME NEW y, y.local = 0
      PROVE  Follows(y)'
  BY <1>5 DEF Follows
<1>6. ASSUME NEW f \in fetches, mergeMessages(f), NEW y \in shown'
      PROVE  Follows(y)'
  <2>1. y.local = 0
    BY <1>0, <1>6 DEF mergeMessages, Kept, AnswersInRoom, ShownApart
  <2> QED
    BY <1>5, <2>1
<1>7. ASSUME NEW e \in events, addSocketMessage(e)
      PROVE  \A y \in shown' : y \in shown \/ y.local = 0
  <2>1. \/ shown' = shown \cup {Entry(m, 0, FALSE, FALSE) : m \in e.ids}
        \/ shown' = shown
    BY <1>7 DEF addSocketMessage
  <2>2. \A m : Entry(m, 0, FALSE, FALSE).local = 0
    BY DEF Entry
  <2> QED
    BY <2>1, <2>2, Zenon
<1>8. ASSUME sendMessage, NEW y \in shown'
      PROVE  y \in shown \/ Follows(y)'
  <2> DEFINE new == Entry(0, Len(locals) + 1, FALSE, FALSE)
  <2>1. shown' = shown \cup {new}
    BY <1>8 DEF sendMessage
  <2>2. new.local = Len(locals) + 1
    BY DEF Entry
  <2>3. locals'[Len(locals) + 1].stage = "out"
    BY <1>0, <1>8, sendMessageLocals
  <2> HIDE DEF new
  <2>4. y \in shown \/ y = new
    BY <1>8, <2>1
  <2>5. y = new => locals'[y.local].stage = "out"
    BY <2>2, <2>3
  <2> QED
    BY <2>4, <2>5 DEF Follows
<1>9. ASSUME markAsSeen, NEW y \in shown'
      PROVE  \E x \in shown : /\ y.local = x.local /\ (x.seen => y.seen)
                              /\ x.distributed => y.distributed
  BY <1>0, <1>9, SeenIs DEF markAsSeen
<1>10. ASSUME \/ \E f \in fetches : FetchFails(f)
              \/ \E l \in 1..Len(locals) : SendFails(l)
              \/ UNCHANGED shown
       PROVE  shown' \subseteq shown
  BY <1>10 DEF FetchFails, SendFails
<1>11. ASSUME ~\E e \in events : handleMessageStatusUpdated(e),
              ~\E l \in 1..Len(locals) : replaceLocalMessage(l),
              ~beforeDestroy, ~\E r \in Rooms : openRoom(r),
              NEW y \in shown'
       PROVE  Follows(y)'
  <2>1. y \in shown => Follows(y)'
    BY <1>4, <1>11
  <2>2. CASE markAsSeen
    BY <1>4, <1>9, <1>11, <2>2
  <2>3. CASE sendMessage
    BY <1>8, <1>11, <2>1, <2>3
  <2>4. CASE \E f \in fetches : mergeMessages(f)
    BY <1>6, <1>11, <2>4
  <2>5. CASE \E e \in events : addSocketMessage(e)
    BY <1>5, <1>7, <1>11, <2>1, <2>5
  <2> QED
    BY <1>10, <1>11, <2>1, <2>2, <2>3, <2>4, <2>5, ShownMoves
<1>12. CASE beforeDestroy \/ \E r \in Rooms : openRoom(r)
  BY <1>1, <1>12 DEF beforeDestroy, openRoom
<1>13. CASE \E e \in events : handleMessageStatusUpdated(e)
  BY <1>2, <1>13 DEF StatusFollows
<1>14. CASE \E l \in 1..Len(locals) : replaceLocalMessage(l)
  BY <1>3, <1>14 DEF StatusFollows
<1> QED
  BY <1>11, <1>12, <1>13, <1>14 DEF StatusFollows

(***************************************************************************)
(* And what was received or seen of a message written here is said from    *)
(* its answer on, or the event is on its way.  Before that answer it is    *)
(* queued (Chat.vue:1069-1076) under the id that no entry shown has, so    *)
(* none but an event that also names a message that can be placed is       *)
(* dropped; such a message is in missed, and so is one whose event is lost.*)
(***************************************************************************)
THEOREM StatusArrivesHolds == Spec => []StatusArrives
<1>1. Init => OwnUnseenByOthers /\ StatusFollows
  <2>1. Init => sent = <<>> /\ distributed = {} /\ shown = {} /\ Len(sent) = 0
    BY DEF Init
  <2> QED
    BY <2>1 DEF OwnUnseenByOthers, StatusFollows
<1>2. PageInv /\ OwnUnseenByOthers /\ StatusFollows /\ [Next]_vars =>
        (OwnUnseenByOthers /\ StatusFollows)'
  BY OwnUnseenStep, StatusFollowsStep DEF FollowsInv, PageInv, Typed, Sources
<1>3. PageInv /\ StatusFollows => StatusArrives
  <2> SUFFICES ASSUME PageInv, StatusFollows, NEW x \in shown,
                      x.local # 0, locals[x.local].stage = "known",
                      MessageOf(x) \notin missed
               PROVE  /\ unseen[MessageOf(x)] # Others =>
                           x.seen \/ Coming(MessageOf(x), "seen")
                      /\ MessageOf(x) \in distributed =>
                           x.distributed \/ Coming(MessageOf(x), "distributed")
    BY DEF StatusArrives
  <2>1. MessageOf(x) = locals[x.local].id
    BY DEF MessageOf
  <2>2. \A kind : Reaches(x.local, kind) => Coming(MessageOf(x), kind)
    BY <2>1 DEF Reaches, Heading, Coming
  <2> QED
    BY <2>1, <2>2 DEF StatusFollows, Follows
<1> QED
  BY <1>1, <1>2, <1>3, PageInvHolds, PTL DEF Spec

-----------------------------------------------------------------------------
(***************************************************************************)
(* Nothing others have written is left out.                                *)
(***************************************************************************)
OnPage(m) == (\E x \in shown : x.id = m) \/ Coming(m, "added")

\* The messages an answer speaks for: from the oldest it carries on, or all.
Covers(f, m) ==
  m < f.before /\ (Cardinality(f.answer) < PageSize \/ \E y \in f.answer : y.id <= m)

AnswersFull ==
  \A f \in fetches : f.answered /\ f.switches = switches =>
    \A m \in Messages(selected) \ gone :
      ~Mine(m) /\ Covers(f, m) => (\E x \in f.answer : x.id = m) \/ OnPage(m)

GapInv == PageInv /\ NoGaps /\ AnswersFull

LEMMA GreatestIs ==
  ASSUME NEW S, S \subseteq 1..MaxMessages, S # {}
  PROVE  \E m \in S : \A n \in S : n <= m
<1> DEFINE T == {MaxMessages - n : n \in S}
<1>1. MaxMessages \in Nat
  BY DEF ChatAssumption
<1>2. T \subseteq Nat /\ T # {}
  <2>1. \A n \in S : MaxMessages - n \in Nat
    BY <1>1
  <2> QED
    BY <2>1
<1>3. LowestOf(T) \in T /\ \A t \in T : LowestOf(T) <= t
  <2> HIDE DEF T
  <2> QED
    BY <1>2, LowestIs
<1>4. PICK m \in S : LowestOf(T) = MaxMessages - m
  BY <1>3
<1>5. \A n \in S : MaxMessages - m <= MaxMessages - n
  BY <1>3, <1>4
<1> QED
  BY <1>1, <1>5

\* The messages that are before the cursor, and those an answer carries.
LEMMA AnsweredFinite ==
  ASSUME TypeOK, Counted, NEW f
  PROVE  /\ Before(f) \subseteq Ids
         /\ \A S \in SUBSET Before(f) : IsFiniteSet(S) /\ Cardinality(S) \in Nat
<1>1. Before(f) \subseteq Ids
  BY IdsOfSent DEF Before
<1>2. IsFiniteSet(Ids)
  <2>1. 1 \in Int /\ MaxMessages \in Int
    BY DEF ChatAssumption
  <2> QED
    BY <2>1, FS_Interval, Zenon DEF Ids
<1>3. ASSUME NEW S \in SUBSET Before(f)
      PROVE  IsFiniteSet(S) /\ Cardinality(S) \in Nat
  <2>1. S \in SUBSET Ids
    BY <1>1
  <2> QED
    BY <1>2, <2>1, FS_Subset, FS_CardinalityType
<1> QED
  BY <1>1, <1>3

\* An answer carries all the messages before the cursor, from one of them on.
LEMMA AnsweredUp ==
  ASSUME TypeOK, Counted, NEW f, NEW n \in Answered(f), NEW m \in Before(f), n <= m
  PROVE  m \in Answered(f)
<1> DEFINE above(k) == {j \in Before(f) : j > k}
<1>1. n \in Nat /\ m \in Nat /\ \A j \in Before(f) : j \in Nat
  BY AnsweredFinite DEF Answered, Ids
<1>2. above(m) \in SUBSET above(n)
  <2>1. \A j \in Before(f) : j > m => j > n
    BY <1>1
  <2> QED
    BY <2>1
<1>3. /\ IsFiniteSet(above(n)) /\ Cardinality(above(n)) \in Nat
      /\ IsFiniteSet(above(m)) /\ Cardinality(above(m)) \in Nat
  <2>1. above(n) \in SUBSET Before(f) /\ above(m) \in SUBSET Before(f)
    OBVIOUS
  <2> HIDE DEF above
  <2> QED
    BY <2>1, AnsweredFinite
<1>4. Cardinality(above(n)) < PageSize
  BY DEF Answered
<1>5. Cardinality(above(m)) <= Cardinality(above(n))
  <2> HIDE DEF above
  <2> QED
    BY <1>2, <1>3, FS_Subset
<1>6. Cardinality(above(m)) < PageSize
  <2>1. PageSize \in Nat
    BY DEF ChatAssumption
  <2> HIDE DEF above
  <2> QED
    BY <1>3, <1>4, <1>5, <2>1
<1> QED
  BY <1>6 DEF Answered

\* It carries all there are, if it carries less than a page.
LEMMA AnsweredAll ==
  ASSUME TypeOK, Counted, NEW f, Cardinality(Answered(f)) < PageSize
  PROVE  Answered(f) = Before(f)
<1> DEFINE left == Before(f) \ Answered(f)
<1>1. CASE left = {}
  BY <1>1 DEF Answered
<1>2. CASE left # {}
  <2>1. left \subseteq 1..MaxMessages
    BY AnsweredFinite DEF Ids
  <2>2. PICK m \in left : \A n \in left : n <= m
    <3> HIDE DEF left
    <3> QED
      BY <1>2, <2>1, GreatestIs
  <2> DEFINE above == {n \in Before(f) : n > m}
  <2>3. above \in SUBSET Answered(f)
    BY <2>1, <2>2, AnsweredFinite DEF Ids
  <2>4. /\ IsFiniteSet(Answered(f)) /\ Cardinality(Answered(f)) \in Nat
        /\ IsFiniteSet(above) /\ Cardinality(above) \in Nat
    <3>1. Answered(f) \in SUBSET Before(f) /\ above \in SUBSET Before(f)
      BY DEF Answered
    <3> HIDE DEF above
    <3> QED
      BY <3>1, AnsweredFinite
  <2>5. Cardinality(above) <= Cardinality(Answered(f))
    <3> HIDE DEF above
    <3> QED
      BY <2>3, <2>4, FS_Subset
  <2>6. Cardinality(above) < PageSize
    <3>1. PageSize \in Nat
      BY DEF ChatAssumption
    <3> HIDE DEF above
    <3> QED
      BY <2>4, <2>5, <3>1
  <2>7. m \in Answered(f)
    BY <2>2, <2>6 DEF Answered
  <2> QED
    BY <2>2, <2>7
<1> QED
  BY <1>1, <1>2

\* As many entries as messages.
LEMMA AnswerSize ==
  ASSUME TypeOK, Counted, NEW f, NEW answer, answer = {Loaded(m) : m \in Answered(f)}
  PROVE  Cardinality(answer) = Cardinality(Answered(f))
<1> DEFINE S == Answered(f)
           load == [m \in S |-> Loaded(m)]
<1>1. \A m \in S : Loaded(m).id = m
  BY LoadedIs DEF Answered, Before, Messages
<1>2. S \in SUBSET Before(f)
  BY DEF Answered
<1>3. IsFiniteSet(S)
  <2> HIDE DEF S
  <2> QED
    BY <1>2, AnsweredFinite
<1>4. load \in Bijection(S, answer)
  <2> HIDE DEF S
  <2>1. load \in [S -> answer]
    BY DEF S
  <2>2. \A a, b \in S : load[a] = load[b] => a = b
    BY <1>1
  <2>3. \A t \in answer : \E s \in S : load[s] = t
    BY DEF S
  <2> HIDE DEF load
  <2> QED
    BY <2>1, <2>2, <2>3, Fun_IsBij
<1>5. ExistsBijection(S, answer)
  BY <1>4, Zenon DEF ExistsBijection
<1> HIDE DEF S
<1>6. Cardinality(answer) = Cardinality(S)
  BY <1>3, <1>5, FS_Bijection, Zenon
<1> QED
  BY <1>6 DEF S

LEMMA AnswerCovers ==
  ASSUME Typed, Counted, FetchesInOrder, NEW f \in fetches, f.switches = switches,
         NEW g, g.before = f.before, g.answer = {Loaded(m) : m \in Answered(f)},
         NEW m \in Messages(selected), Covers(g, m)
  PROVE  \E x \in g.answer : x.id = m
<1>0. TypeOK
  BY DEF Typed
<1>1. m \in Before(f)
  BY DEF FetchesInOrder, Before, Covers
<1>2. m \in Answered(f)
  <2>1. CASE Cardinality(g.answer) < PageSize
    BY <1>0, <1>1, <2>1, AnswerSize, AnsweredAll
  <2>2. CASE \E y \in g.answer : y.id <= m
    <3>1. PICK n \in Answered(f) : Loaded(n).id <= m
      BY <2>2
    <3>2. Loaded(n).id = n
      BY <1>0, LoadedIs DEF Answered, Before, Messages
    <3> QED
      BY <1>0, <1>1, <3>1, <3>2, AnsweredUp
  <2> QED
    BY <2>1, <2>2 DEF Covers
<1>3. Loaded(m).id = m /\ Loaded(m) \in g.answer
  BY <1>0, <1>2, LoadedIs DEF Messages
<1> QED
  BY <1>3

\* While the room stays open and nothing is lost, what is shown stays shown.
LEMMA ShownStays ==
  ASSUME PageInv, [Next]_vars, UNCHANGED <<selected, switches>>,
         NEW x \in shown, x.id # 0, x.id \notin gone'
  PROVE  \E y \in shown' : y.id = x.id
<1>0. ShownApart /\ shown \subseteq Entries /\ switches \in Nat /\ x.local = 0
  BY DEF PageInv, Typed, TypeOK, ShownApart
<1>1. ASSUME NEW r \in Rooms, openRoom(r)
      PROVE  FALSE
  BY <1>0, <1>1 DEF openRoom
<1>2. ASSUME beforeDestroy
      PROVE  FALSE
  BY <1>2 DEF beforeDestroy
<1>3. ASSUME NEW f \in fetches, mergeMessages(f)
      PROVE  \E y \in shown' : y.id = x.id
  BY <1>3 DEF mergeMessages, Kept
<1>4. ASSUME NEW f \in fetches, FetchFails(f)
      PROVE  x \in shown'
  BY <1>4 DEF FetchFails, Current
<1>5. CASE sendMessage
  BY <1>5 DEF sendMessage
<1>6. ASSUME NEW l \in 1..Len(locals), replaceLocalMessage(l)
      PROVE  x \in shown'
  <2>1. shown' = {IF y.local = l THEN Applied(y, locals[l].id) ELSE y : y \in shown}
    BY <1>6 DEF replaceLocalMessage
  <2> QED
    BY <1>0, <2>1
<1>7. ASSUME NEW l \in 1..Len(locals), SendFails(l)
      PROVE  x \in shown'
  BY <1>0, <1>7 DEF SendFails
<1>8. ASSUME NEW e \in events, addSocketMessage(e)
      PROVE  x \in shown'
  BY <1>8 DEF addSocketMessage
<1>9. ASSUME NEW e \in events, handleMessageStatusUpdated(e)
      PROVE  \E y \in shown' : y.id = x.id
  <2>1. Updated(x, e.kind).id = x.id
    BY <1>0, UpdatedIs
  <2> QED
    BY <1>9, <2>1 DEF handleMessageStatusUpdated
<1>10. CASE markAsSeen
  <2>1. [x EXCEPT !.seen = TRUE].id = x.id
    BY <1>0, SeenIs
  <2> QED
    BY <1>10, <2>1 DEF markAsSeen
<1>11. CASE UNCHANGED shown
  BY <1>11
<1>12. CASE \E l \in 1..Len(locals) : replaceLocalMessage(l) \/ SendFails(l)
  BY <1>6, <1>7, <1>12
<1>13. CASE \E f \in fetches : mergeMessages(f) \/ FetchFails(f)
  BY <1>3, <1>4, <1>13
<1>14. CASE \E e \in events : addSocketMessage(e) \/ handleMessageStatusUpdated(e)
  BY <1>8, <1>9, <1>14
<1> QED
  BY <1>1, <1>2, <1>5, <1>10, <1>11, <1>12, <1>13, <1>14, ShownMoves

\* And what the page will be told of, it shows when it is told.
LEMMA ComingStays ==
  ASSUME PageInv, [Next]_vars, UNCHANGED <<selected, switches>>,
         NEW m \in Messages(selected), m \notin gone', Coming(m, "added")
  PROVE  OnPage(m)'
<1>1. PICK e \in events : e.kind = "added" /\ m \in e.ids
  BY DEF Coming
<1>2. e.ids = {m} /\ e.room = selected /\ m \in {0} \cup Ids
  <2>1. PICK n \in Messages(e.room) : e.ids = {n}
    BY <1>1 DEF PageInv, Sources, EventsNameMessages
  <2>2. m \in Ids
    BY IdsOfSent DEF PageInv, Typed, Sources
  <2> QED
    BY <1>1, <2>1, <2>2 DEF Messages
<1>3. CASE e \in events'
  BY <1>1, <1>3 DEF OnPage, Coming
<1>4. CASE e \notin events'
  <2>1. PICK d \in events : addSocketMessage(d) \/ handleMessageStatusUpdated(d) \/ Lose(d)
    <3>1. \E d \in events : addSocketMessage(d) \/ handleMessageStatusUpdated(d) \/ Lose(d)
      BY <1>4, EventsMove DEF CreateMessage, setMessagesAsDistributed, SeenByOther
    <3> QED
      BY <3>1
  <2>2. d = e
    BY <1>4, <2>1 DEF addSocketMessage, handleMessageStatusUpdated, Lose
  <2>3. ~Lose(e) /\ ~handleMessageStatusUpdated(e)
    BY <1>1, <1>2 DEF Lose, handleMessageStatusUpdated
  <2>4. addSocketMessage(e)
    BY <2>1, <2>2, <2>3
  <2>5. CASE \A x \in shown : x.id \notin e.ids
    <3>1. shown' = shown \cup {Entry(n, 0, FALSE, FALSE) : n \in e.ids}
      BY <1>2, <2>4, <2>5 DEF addSocketMessage
    <3>2. Entry(m, 0, FALSE, FALSE).id = m
      BY <1>2, FreshIs, 0 \in {0} \cup Ids, Zenon
    <3>3. Entry(m, 0, FALSE, FALSE) \in shown'
      BY <1>1, <3>1, Zenon
    <3> QED
      BY <3>2, <3>3, Zenon DEF OnPage
  <2>6. CASE \E x \in shown : x.id \in e.ids
    BY <1>2, <2>4, <2>6 DEF addSocketMessage, OnPage
  <2> QED
    BY <2>5, <2>6
<1> QED
  BY <1>3, <1>4

\* What others write is on its way to the page, unless it is not told of it.
LEMMA NewIsComing ==
  ASSUME PageInv, [Next]_vars, UNCHANGED selected,
         NEW m \in Messages(selected)', m \notin 1..Len(sent), ~Mine(m)', m \notin gone'
  PROVE  Coming(m, "added")'
<1>0. TypeOK /\ Len(sent) \in Nat /\ m \in 1..Len(sent')
  BY SentType DEF PageInv, Typed, Messages
<1>1. ASSUME NEW r \in Rooms, NEW o \in Others, NEW t \in BOOLEAN, CreateMessage(o, r, t)
      PROVE  Coming(m, "added")'
  <2>1. Len(sent') = Len(sent) + 1 /\ sent'[Len(sent) + 1].room = r
    BY <1>0, <1>1, CreatedNext DEF CreateMessage
  <2>2. m = Len(sent) + 1 /\ r = selected
    BY <1>0, <2>1 DEF Messages
  <2> DEFINE new == [kind |-> "added", room |-> r, ids |-> {m}]
  <2>3. new \in events' /\ new.kind = "added" /\ m \in new.ids
    BY <1>1, <2>2 DEF CreateMessage
  <2> HIDE DEF new
  <2> QED
    BY <2>3 DEF Coming
<1>2. ASSUME NEW l \in 1..Len(locals), Store(l)
      PROVE  FALSE
  <2>1. locals[l].room \in Rooms /\ Created(Me, locals[l].room)
    BY <1>0, <1>2, LocalsType DEF Store, LocalType
  <2>2. Len(sent') = Len(sent) + 1 /\ sent'[Len(sent) + 1].by = Me
    BY <1>0, <2>1, CreatedNext
  <2>3. m = Len(sent) + 1
    BY <1>0, <2>2
  <2> QED
    BY <2>2, <2>3 DEF Mine
<1>3. ~UNCHANGED sent
  BY <1>0
<1> QED
  BY <1>1, <1>2, <1>3, SentMoves

LEMMA OnPageStays ==
  ASSUME PageInv, [Next]_vars, UNCHANGED <<selected, switches>>,
         NEW m \in Messages(selected)', ~Mine(m)', m \notin gone',
         m \in Messages(selected) => OnPage(m)
  PROVE  OnPage(m)'
<1>1. m \in 1..Len(sent') /\ selected' = selected
  BY DEF Messages
<1>2. CASE m \notin 1..Len(sent)
  BY <1>1, <1>2, NewIsComing DEF OnPage
<1>3. CASE m \in 1..Len(sent)
  <2>1. m \in Messages(selected)
    <3>1. m \in Messages(selected)' <=> m \in Messages(selected)
      <4>1. sent'[m] = sent[m] /\ m \in 1..Len(sent')
        BY <1>1, <1>3, SentGrows DEF PageInv, Typed
      <4> QED
        BY <1>1, <1>3, <4>1 DEF Messages
    <3> QED
      BY <3>1
  <2>2. CASE Coming(m, "added")
    BY <2>1, <2>2, ComingStays
  <2>3. CASE \E x \in shown : x.id = m
    <3>1. m # 0
      BY <2>1 DEF Messages
    <3>2. \E y \in shown' : y.id = m
      BY <2>3, <3>1, ShownStays
    <3> QED
      BY <3>2 DEF OnPage
  <2> QED
    BY <2>1, <2>2, <2>3 DEF OnPage
<1> QED
  BY <1>2, <1>3

\* While the room stays open, what the page misses is not forgotten.
LEMMA GoneStays ==
  ASSUME TypeOK, [Next]_vars, UNCHANGED <<selected, switches>>
  PROVE  gone \subseteq gone'
<1>1. ASSUME NEW r \in Rooms, openRoom(r)
      PROVE  FALSE
  BY <1>1 DEF openRoom, TypeOK
<1>2. ASSUME beforeDestroy
      PROVE  FALSE
  BY <1>2 DEF beforeDestroy
<1> QED
  BY <1>1, <1>2, HistoryMoves
     DEF CreateMessage, MessageGated, FetchFails, handleMessageStatusUpdated, Lose, MarkFails

LEMMA NoGapsStep ==
  ASSUME GapInv, [Next]_vars
  PROVE  NoGaps'
<1> SUFFICES ASSUME selected' # NoRoom, NEW m \in Messages(selected)', m \notin gone',
                    ~Mine(m)', loaded' \/ m >= oldest'
             PROVE  OnPage(m)'
  BY DEF NoGaps, OnPage
<1>0. /\ PageInv /\ NoGaps /\ AnswersFull /\ Typed /\ TypeOK /\ Counted
      /\ AnswersInRoom /\ FetchesInOrder /\ oldest \in Nat
      /\ \A r : Messages(r) \subseteq Ids
      /\ \A f \in fetches : f.before \in Nat
  <2>1. PageInv /\ NoGaps /\ AnswersFull /\ Typed /\ TypeOK /\ Sources /\ FetchesInOrder
    BY DEF GapInv, PageInv, Typed
  <2>2. oldest \in Ids \cup {Newest} /\ \A f \in fetches : f.before \in Ids \cup {Newest}
    BY <2>1 DEF TypeOK
  <2>3. Ids \cup {Newest} \subseteq Nat
    BY DEF Ids, Newest
  <2> QED
    BY <2>1, <2>2, <2>3, IdsOfSent DEF Sources
<1>1. ASSUME NEW r \in Rooms, openRoom(r)
      PROVE  OnPage(m)'
  <2>1. UNCHANGED sent /\ oldest' = Newest /\ ~loaded'
    BY <1>1 DEF openRoom, server
  <2>2. m \in Ids
    BY <1>0, <2>1 DEF Messages
  <2> QED
    BY <2>1, <2>2 DEF Ids, Newest
<1>2. CASE beforeDestroy
  BY <1>2 DEF beforeDestroy
<1>3. ASSUME UNCHANGED <<selected, switches>>,
             m \in Messages(selected) => OnPage(m)
      PROVE  OnPage(m)'
  BY <1>0, <1>3, OnPageStays
<1>4. ASSUME UNCHANGED <<selected, switches>>
      PROVE  /\ m \notin gone /\ selected # NoRoom
             /\ m \in Messages(selected) /\ (loaded \/ m >= oldest) => OnPage(m)
  <2>1. m \notin gone /\ selected # NoRoom
    BY <1>0, <1>4, GoneStays
  <2>2. m \in Messages(selected) => ~Mine(m)
    BY <1>0, SentGrows DEF Messages
  <2> QED
    BY <1>0, <2>1, <2>2 DEF NoGaps, OnPage
<1>5. ASSUME NEW f \in fetches, mergeMessages(f)
      PROVE  OnPage(m)'
  <2>1. /\ UNCHANGED <<sent, selected, switches>> /\ f.answered /\ f.switches = switches
        /\ loaded' = (loaded \/ Cardinality(f.answer) < PageSize)
        /\ f.answer \subseteq shown'
    BY <1>5 DEF mergeMessages, server, room, Current
  <2>2. m \in Messages(selected) /\ ~Mine(m) /\ m \in Nat
    BY <2>1 DEF Messages, Mine
  <2>3. CASE loaded \/ m >= oldest
    BY <1>3, <1>4, <2>1, <2>2, <2>3
  <2>4. CASE ~(loaded \/ m >= oldest)
    <3>1. m < oldest /\ oldest <= f.before
      BY <1>0, <2>1, <2>2, <2>4 DEF FetchesInOrder
    <3>2. m < f.before
      BY <1>0, <2>2, <3>1
    <3>3. oldest' \in {x.id : x \in f.answer} \cup {oldest}
      BY <1>0, <1>5, CursorMerged
    <3>4. Cardinality(f.answer) < PageSize \/ \E y \in f.answer : y.id <= m
      BY <2>1, <2>4, <3>1, <3>3
    <3>5. Covers(f, m)
      BY <3>2, <3>4 DEF Covers
    <3>6. (\E x \in f.answer : x.id = m) \/ OnPage(m)
      BY <1>0, <1>4, <2>1, <2>2, <3>5 DEF AnswersFull
    <3>7. CASE \E x \in f.answer : x.id = m
      BY <2>1, <3>7 DEF OnPage
    <3>8. CASE OnPage(m)
      BY <1>3, <2>1, <3>8
    <3> QED
      BY <3>6, <3>7, <3>8
  <2> QED
    BY <2>3, <2>4
<1>6. ASSUME UNCHANGED <<selected, switches, oldest, loaded>>
      PROVE  OnPage(m)'
  BY <1>3, <1>4, <1>6
<1> QED
  BY <1>1, <1>2, <1>5, <1>6, RoomMoves, CursorMoves

LEMMA AnswersFullStep ==
  ASSUME GapInv, [Next]_vars
  PROVE  AnswersFull'
<1> SUFFICES ASSUME NEW f \in fetches', f.answered, f.switches = switches',
                    NEW m \in Messages(selected)', m \notin gone', ~Mine(m)', Covers(f, m)
             PROVE  (\E x \in f.answer : x.id = m) \/ OnPage(m)'
  BY DEF AnswersFull
<1>0. /\ PageInv /\ AnswersFull /\ Typed /\ TypeOK /\ Counted /\ FetchesInOrder
      /\ switches \in Nat /\ oldest \in Ids \cup {Newest}
      /\ (selected # NoRoom => switches \in 1..MaxHappenings)
      /\ \A g \in fetches : g.switches \in Nat
  BY DEF GapInv, PageInv, Typed, TypeOK, Sources, FetchType
<1>1. ASSUME NEW r \in Rooms, openRoom(r)
      PROVE  FALSE
  <2>1. switches + 1 \in 1..MaxHappenings /\ Newest \in Ids \cup {Newest}
    BY <1>0, <1>1 DEF openRoom, Happens, Typed, TypeOK
  <2>2. PICK g \in FetchType : fetches' = fetches \cup {g} /\ ~g.answered
    BY <1>1, <2>1, FetchIs DEF openRoom
  <2>3. f \in fetches
    BY <2>2
  <2>4. switches' = switches + 1
    BY <1>1 DEF openRoom
  <2> QED
    BY <1>0, <2>3, <2>4 DEF FetchesInOrder
<1>2. ASSUME beforeDestroy
      PROVE  FALSE
  BY <1>2 DEF beforeDestroy
<1>3. ASSUME UNCHANGED <<selected, switches>>, f \in fetches
      PROVE  (\E x \in f.answer : x.id = m) \/ OnPage(m)'
  <2>1. m \notin gone
    BY <1>0, <1>3, GoneStays
  <2>2. m \in Messages(selected) => ~Mine(m)
    BY <1>0, SentGrows DEF Messages
  <2>3. m \in Messages(selected) => (\E x \in f.answer : x.id = m) \/ OnPage(m)
    BY <1>0, <1>3, <2>1, <2>2 DEF AnswersFull
  <2> QED
    BY <1>0, <1>3, <2>3, OnPageStays
<1>4. ASSUME NEW r \in Rooms, fetchMessages(r)
      PROVE  f \in fetches
  <2>1. r = selected /\ selected # NoRoom /\ Fetch(r, switches, oldest)
    BY <1>0, <1>4 DEF fetchMessages, ChatAssumption
  <2>2. PICK g \in FetchType : fetches' = fetches \cup {g} /\ ~g.answered
    BY <1>0, <2>1, FetchIs
  <2> QED
    BY <2>2
<1>5. ASSUME NEW d \in fetches, Message(d) \/ MessageGated(d), f \notin fetches
      PROVE  \E x \in f.answer : x.id = m
  <2>1. PICK g : /\ fetches' = (fetches \ {d}) \cup {g}
                 /\ g.room = d.room /\ g.switches = d.switches
                 /\ g.before = d.before
                 /\ \/ Message(d) /\ g.answer = {Loaded(n) : n \in Answered(d)}
                    \/ MessageGated(d) /\ g.answer = {}
    BY <1>0, <1>5, MessageAnswers
  <2>2. f = g
    BY <1>5, <2>1
  <2>3. UNCHANGED <<sent, selected, switches>>
    BY <1>5 DEF Message, MessageGated, server, room
  <2>4. m \in Messages(selected)
    BY <2>3 DEF Messages
  <2>5. CASE g.answer = {Loaded(n) : n \in Answered(d)}
    BY <1>0, <2>1, <2>2, <2>3, <2>4, <2>5, AnswerCovers
  \* The groups are off: what the answer should have had is gone.
  <2>6. CASE MessageGated(d)
    <3>1. m \in Before(d) /\ Current(d)
      BY <1>0, <2>1, <2>2, <2>3, <2>4 DEF FetchesInOrder, Before, Covers, Current
    <3> QED
      BY <2>6, <3>1 DEF MessageGated
  <2> QED
    BY <2>1, <2>5, <2>6
<1>6. ASSUME NEW d \in fetches, mergeMessages(d) \/ LateAnswer(d) \/ FetchFails(d)
      PROVE  f \in fetches
  BY <1>6 DEF mergeMessages, LateAnswer, FetchFails
<1>7. CASE UNCHANGED <<selected, switches>>
  <2>1. CASE f \in fetches
    BY <1>3, <1>7, <2>1
  <2>2. CASE f \notin fetches
    BY <1>1, <1>2, <1>4, <1>5, <1>6, <2>2, FetchesMove
  <2> QED
    BY <2>1, <2>2
<1> QED
  BY <1>1, <1>2, <1>7, RoomMoves

(***************************************************************************)
(* The page has no gaps: from the oldest message it has loaded on, what    *)
(* others have written in the room is shown, or an event will tell of it,  *)
(* but for the messages each of whose absence has its own reason.  What    *)
(* the cursor passes when an answer is merged, the answer carried, or it   *)
(* was written after that and is on the page already: an answer is the     *)
(* newest messages before its cursor, which the page has not passed since  *)
(* it was asked for (Chat.vue:969-989, messages.ts:112-128), or it is the  *)
(* empty one of a group's room while the groups are off.                   *)
(***************************************************************************)
THEOREM NoGapsHolds == Spec => []NoGaps
<1>1. Init => NoGaps /\ AnswersFull
  BY DEF Init, NoGaps, AnswersFull
<1>2. PageInv /\ NoGaps /\ AnswersFull /\ [Next]_vars => NoGaps' /\ AnswersFull'
  BY NoGapsStep, AnswersFullStep DEF GapInv
<1> QED
  BY <1>1, <1>2, PageInvHolds, PTL DEF Spec
=============================================================================
