# TLA+ specification of Ocelot-Social

Ocelot-Social is a social network: a Vue/Nuxt client (`webapp/`), a UI library
(`packages/`), and a TypeScript backend (`backend/`) that serves GraphQL over HTTP and
WebSocket. The backend keeps its data in Neo4j, tells its instances about changes over
Redis (or an in-process emitter), lets calls run on a LiveKit media server and stores
files in S3. This directory models the parts in which something can go wrong between two
steps: transactions that interleave, edits that are sequences of writes, caches that
several instances keep of one database, events that are lost or late, polls that read what
has changed since, a page whose answers arrive when another room is open. Source paths below are relative to `backend/src/` unless they begin with `src/`.

## The system's parts

| Part | State it keeps | Operations | What is hard | What makes it correct |
| --- | --- | --- | --- | --- |
| Call sessions (`livekit/callSession.ts`, `graphql/resolvers/videoCalls.ts`) | `VideoCallSession`, its chat room, `CHATS_IN` edges | join the chat, end by sid, end by room name, leave the group | requests, webhook and poller end and open sessions without one lock; what the media server answered is old when it is used | one running session per group; the chat only for those who were in the call; only the next joiner ends a session whose room is open; what is gone is ended |
| Call counts (`livekit/poller.ts`, `webhook.ts`, `toldRooms.ts`) | last seen counts, told rooms (process memory) | poll, webhook, count query | a client told a count nobody ever corrects; failing calls and publishes | what a client was told stays owed until a count is out; a running call that is over is corrected |
| Network policy (`policy/`) | one cache per instance, `Setting` nodes | boot, set, reset, event, resync, reload | writes of several instances, lost and reordered events, a read overtaken by a change | only valid values are served; a resync never goes back; caches converge |
| Network roles, cache (`role/`) | one cache per instance, `Role` nodes | boot with seeding, upsert, rename, delete, event, resync, reload | the same, plus keys that come, go and change their name | owner and user are always there; who has heard everything agrees with the database; caches converge |
| Network roles, holders (`graphql/resolvers/roles.ts`, `role/RoleService.ts`, `db/owner.ts`) | `HAS_ROLE` edges | assign, delete, rename, sign up, delete account, promote | count-then-delete, count-then-demote | everybody holds a role that exists; there is an owner |
| Subscription viewers (`context/`) | viewer of each socket, principal epochs | open, event, refresh, announce a change | a change between the read of a viewer and its use | no change heard of is taken as seen by an older read |
| Group membership (`graphql/resolvers/groups.ts`, `groupRole/authority.ts`) | `MEMBER_OF`, `CHATS_IN` of the group chat, elevation | create, join, leave, change role, remove, redeem a code, elevate | edges that must agree; rights read before the write; roles that go while somebody is given them | members are in the group's chat, nobody else is; every membership names a role; power is handed on, never made |
| Group roles (`groupRole/`, `groupPermission/`, `graphql/resolvers/groupRoles.ts`) | `GroupRole`, templates, derived columns, the mark of an edited group | edit, rename, delete, reset, apply a template, save the group, seed at boot | sequences of separate writes; read-modify-write; implied and mandatory rights | derived columns follow the rights; an edit is marked; nobody makes a group more private than they may |
| Invite codes (`graphql/resolvers/inviteCodes.ts`) | codes, who redeemed them | generate, redeem, invalidate | limits and uniqueness checked before a write; expiry | limits hold; a code belongs to one issuer |
| Sign-up, addresses, passwords (`registration.ts`, `emails.ts`, `passwordReset.ts`) | nonces, addresses, accounts | sign up, verify, reset | single use; partial failure after a commit | one account per address; a nonce works once |
| Chat (`messages.ts`, `rooms.ts`, `src/webapp/components/Chat/Chat.vue`) | rooms, messages, unseen edges; the page's messages, cursor and batch of what was seen | open a room, load, write, see, events | answers for a room that was left, events before answers, a timer that fires in another room | the page stays in its room, without doubles and gaps; its statuses are true; what was read is reported |
| Images and attachments (`images/`, `attachments/`, `uploads/`) | S3 objects and nodes | upload, replace, delete | a transaction and an object store that cannot commit together | no node without its file |
| Posts, comments, users, reports, notifications, badges, donations, API keys | nodes and edges | CRUD resolvers | mostly one transaction each | - |
| Migrations (`db/migrate/`) | `Migration` nodes | up, down | a crash between a migration and its record | - |

How they interact. The *shield* (`middleware/permissionsMiddleware.ts`) lets a request
through by the rights its viewer has; those come from the role cache, and what a feature
allows from the policy cache. Both caches are filled at boot, changed by the instance's own
writes, by events of the others and by a resync on one timer (`context/cacheResync.ts`).
Their versions and the announcements of changed users tell an open *subscription* that its
viewer is old. `videoCalls.ts` asks LiveKit for the truth and hands it to `callSession.ts`
as parameters of a transaction; LiveKit's *webhook* and the *poller* end sessions and publish
counts; leaving a group (`groups.ts`) removes the edges to the chats of its calls in the same
transaction. `PROJECT.json` lists every part with its status, and under `hazards` what each
of them is exposed to.

## Modules

Each component is one module with its state, one action per handler or await-free piece of
one, `Spec`, and its properties; `MC<Module>` gives TLC its constants; `<Module>Proofs`
holds the theorems. Those of `CallSession` and `CallCount` are together in `CallProofs`, where
`CallCount` is an instance (`Count`) with constants and variables of its own, and what it assumes of
its constants is a hypothesis (`CountAssumption`). Operators named `X_Something` next to an operator `X`, marked *Fault*,
are plausible bugs used to see that a property notices them; no specification uses them.

A step of a model is what the code does between two awaits, or one transaction. Write
transactions of Neo4j are taken as atomic, except where another statement can fall between
the reads and the writes of one (`CallSession`). A call of two statements outside a
transaction is two steps.

### CallSession

One group. `status`, `sidOf`, `chatsIn` are the `VideoCallSession` nodes, their `livekitSid`
and the edges to their rooms; `due` are those older than `MISSING_ROOM_GRACE_SECONDS`. The
mutation `joinGroupVideoCallChat` is three steps: what LiveKit answers is kept in the request
(`joinGroupVideoCallChat`), the transaction takes the group's lock and decides
(`LockAndRead`), and it writes (`CommitJoin`); it may also be retried or fail (`JoinFails`).
The webhook (`handleWebhook`), the poller (`PollList`, `PollSeesRoom`, `PollMissesRoom`, and
its failures) and leaving (`LeaveGroup`) do not take the lock. LiveKit is external: rooms with
an id that is never used again, closed some time after they are empty. `getLiveCall` makes two
calls to LiveKit at once, each with four seconds; as an empty room is kept longer than that,
both speak of the same room and are one step here.

Two constants name what the runs assume of the surroundings. `ReportsCarrySid`: every
`room_finished` names the room's sid, as LiveKit's do; the liveness run leaves it open.
`PollWithinGrace`: a poll does not take longer than the grace period that protects sessions
opened since its listing. Without the second a poll that is slow enough ends a session whose
room is open, which the comment at `callSession.ts:174` excludes only by the length of the
period. `together` and `everIn` are history: who was in a room with whom, and who ever got
into a chat.

`GroupCall` is what all this is for, without requests, sids, locks and polls: calls follow one
another, only the newest is ever going on, one that is over never goes on again, and leaving
takes the access to all chats away. `ImplementsGroupCall` is that `CallSession` implements it,
its sessions being the calls and `running` those with status "running".

### CallCount

One backend instance, and per room one page that shows what it was told last. `lastSeen` and
`told` are `lastSeenCounts` and `toldRooms`; `poll` is `pollOnce` with its local `told`,
`owed` and `seen`, in four stages (take, list, go through the list, go through what is
missing), each of which can fail. Webhooks are delivered one after another and may get lost,
published counts travel in order, and the broker may lose one without saying so
(`context/pubsub.ts:71-78` logs a failed publish and goes on).

`OwedUntilOut` is asked of all of that. `RunningIsCorrected` is about what the poller makes up for
alone; what it does not is counted by the history `disturbed`, and a behaviour with one of these is
excused, because the code leaves it behind and its comments do not name it. What a webhook publishes
is not noted, so a late answer that lands after a poll stays until the list changes. The poll notes
the list's count while it publishes the participants' (`poller.ts:124`), so a room that changes in
between and back is not published again. A publish is swallowed. A published count reaches the page
before an older answer (`videoCalls.ts:424`). A count of 0 is told without being noted
(`toldRooms.ts:18`), so a call that begins at that moment is shown only with its next change; the
property is therefore about pages that show a running call.

### PolicyService

`db` are the `Setting` rows, `cache`, `phase`, `serving`, `load`, `resync` belong to each
instance. `init` subscribes, reads a snapshot and goes key by key: keep what an event has set
(`KeepKey`), take the row (`AdoptKey`), or seed (`SeedKey`, `SeedDone`). The loop's order is
left open. `set` and `reset` commit in one step (`Commit`) and reach the own cache and the
pubsub in another (`Acknowledged`). `Valid[i]` is what instance `i`'s schema accepts: two
instances on different versions are two different sets. The inbox is a set from which any
event may be delivered or lost at any time, which covers Redis, the in-process emitter, and
publishers that do not wait for each other. `ver` is history: the number of the write a
value comes from.

### RoleService

The same for `Role` nodes. A boot is subscribe, read, seed one role after another, read again,
and merge with what events have set (`Booted`, with `deletedDuringInit`). A change is asked
for against the cache, written, and acknowledged, three steps; a write can be refused. Events
keep the order of publication and may be lost (`Lose`). `Wipe` is what `db:reset` does behind
the backend's back. `broken` is an instance whose last `reload` threw because a mandatory role
was missing: it keeps serving. A role's permissions are one value. `orderly` is history: only
changes, one at a time, no renames, and nothing lost so far.

What is refused to change is a role that is `protected`, not one with a certain name
(`RoleService.ts:222`, `:254`, `:283`), and only the owner role as it is seeded is. So `Protected` is a
value of its own, and `remade` is history: a role has been saved, or renamed, to the owner's name
where the cache had none. Such a role is not protected and may be deleted. It takes five happenings
to get there: a reload on an emptied database that is emptied again between two of the seeds finds no
owner and leaves the instance broken, the role is saved by hand, a resync makes the instance serve,
and the role is deleted. `ServesMandatory` asks for the baseline role only from there on, and is
violated without that exception; `roles_cache` does not go that far, the theorem does.

### RoleAssignment

`holds` are the `HAS_ROLE` edges. `setUserRole` and `deleteRole` read and decide in one step
and write in another, from the set `calls`; everything else that moves an edge or a node is
one statement. Which roles a caller may hand out is left open but for the owner's rule, so the
properties do not lean on the shield. A request's look into the cache is left out as well: the
cache can be behind (`RoleService`), so it protects nothing. `overlapped` is history:
something has come between a call's read and its write.

Two scripts that write edges beside the server's statements are not modelled: `createDefaultOwnerUser`
(`db/owner.ts`, "intended for local development and CI only", `backend/README.md:151-156`) and
`ensureUserRoleEdges` (`role/userRoleEdges.ts:72`), which the seeding of a development database calls. The first one merges an
owner edge onto its account, also if that account has been given another role since; `owner.ts:36`
calls running it again a no-op.

### SubscriptionContext

One context with its streams: one with graphql-ws, several with the legacy protocol, where
`server.ts:96` builds one per socket; the webapp speaks the legacy one. `reading` is the
`buildContext` under way; `refresh` is an event that finds the viewer old and starts or joins it;
events that find it fresh change nothing. The user's record and the caches are revisions, so "built
from" can be compared. `waiting` keeps what was known when an event began to wait, `passed` what was
known when the last one that waited went through. The viewer is signed in when the socket opens.
`buildContext`'s last look at the caches and the assignment of its result are one step, as nothing is
awaited in between.

`NextEventReads` is what the comments promise, and with two streams it does not hold: an event of one
joins the read the other has begun before the change. `LaterEventReads` is what is left of it: that
happens to one event of a stream and not to the next.

### GroupMembership

One group. `member` is the role each `MEMBER_OF` edge names, `chats` the edges to the group's
room, `customs` and `rights` its roles and what power over others they list (assigning,
removing, managing roles). The shield reads rights in transactions of their own
(`requestScope.ts`), so a request about somebody else is two steps: asking (`AskTo...`,
`RemoveUserFromGroup`, `ChangeGroupMemberRole` with the rules of `authority.ts` as guards) and
writing, from the set `requests`. Requests about oneself are one. A reset rewrites the template's
roles one after another (`rewriteGroupRole`), and members of roles that go are moved to `usual`
by the write that deletes the role. `elevated` are network admins who have asked to act in the
group. `raced` and `invited` are history: roles that vanished while a request named them, and who
came with a code and was not added to the chat, which `inviteCodes.ts:172` leaves out.

### GroupAccess

What one group lets strangers do: the rights of its `none` role, the columns that mirror them for
queries, the template it runs on, the mark `rolesCustomizedAt`, and the stored templates. Every
request is the sequence of writes it is in the code, each a stage of a slot in `doing`, and may
break off after any of them: `updateGroupRole`, an edit of another role, `resetGroupRoles`,
`applyGroupRoleTemplates`, `UpdateGroup` (one transaction that holds the group's lock, but whose
check was made before it), and the boot that seeds groups restored without roles.
`syncNonMemberAccess` reads the role and writes the columns in two steps. A boot that opens a member
list reads the role twice: whether the group can be seen (`keepMemberListOpen`, `repository.ts:556`)
and what the list is added to (`readMemberList`, `:526`), and then writes (`openMemberList`).
`UpdateGroup` reads the columns (`Begin`), waits for the lock (`Lock`), and reads the role only then.
`torn` and `crossed` are history, and name the excuses the properties have: the columns were last written from an old
reading, behind the role's back or not at all; a request broke off or wrote over what it had not
seen. `hiddenSince` names a third one: sight was taken away between a boot's two readings. The
boot's write is then no older than what it read last, nothing is crossed, and still it leaves the
right to the member list in a group that cannot be seen, which `repository.ts:547-550` means to
exclude; it can add no other right (`none = {"members"}`).
Three things follow that the comments do not say. A form saved while the group is being
hidden can open a hidden group's member list as well. `showMembers` set
by a form is not an edit that marks the group, so the next template undoes it. A boot's `SET
template` may put an older template back.

### Chat

One chat page (`Chat.vue`) and the server's messages. `shown`, `oldest`, `loaded`, `watched`,
`batch`, `queued` are its `messages`, `oldestLoadedIndexId`, `messagesLoaded`,
`unseenMessageIds`, `_seenBatch` and `pendingStatusUpdates`; `switches` is `roomSwitches`.
`fetches` are questions with, later, their answers, `events` what the page has not heard yet, in
any order, `marks` the reports under way, `locals` the messages written here (out, stored, known,
failed). `beforeDestroy` is leaving the page. Everybody is in every room; a message's number among
all of them stands for its `indexId`, which orders those of its room alike. The library may ask for
older messages a second time while the first answer is out. `viewed` are the messages whose element
has been in view: it carries no `data-unseen-id` any more and is not observed again (`Chat.vue:697`).

Not everybody is told of a message: `notificationsMiddleware.ts:662-663` publishes nothing to whom has
muted the author or blocked or been blocked by them, while `Query.Message` serves that message like any
other; so `CreateMessage` leaves open whether the reader is told. While the groups are switched off,
`Query.Message` answers with an empty list (`MessageGated`, `messages.ts:91-100`), from which the page
concludes that it has everything.

`missed`, `gone` and `unreported` are history: status updates that were lost or dropped; single
messages of the open room the page was not told of, was refused, or has dropped; and messages whose
report failed. An exception is a set of messages and not a flag, so that one lost event excuses no other
gap.

The properties name what the code gives up. A status update that comes in one event with that of a
message the page can place is dropped for a message it cannot place yet, though
`Chat.vue:1069` means to queue those (`foundAny` is one flag for all). One that arrives while the
answer with its message is on its way is queued and never applied, because only
`replaceLocalMessage` looks into the queue. Own messages carry no `indexId`, so merging loaded
messages drops them from the page (`Chat.vue:713`) until they are loaded themselves; `knownEmpty`
(`:429`) can be true of a room with messages. A failed fetch empties the page and keeps the cursor,
so what was shown is not loaded again. Leaving the page within half a second after a message came
into view drops its report. Beyond the model: the flush takes the number of reported messages off
the unread count of whatever room is open by then (`:534`), and a `seen` event speaks of the first
reader while the loaded field waits for the last (`messages.ts:397`).

## Runs

| Run | What it asks | Bounds |
| --- | --- | --- |
| `call_session` | the safety of the sessions; they implement `GroupCall` | 2 users, 2 rooms in a row, 2 sessions |
| `call_session_live` | a closed room's session is ended in the end | 1 user, 2 rooms, 2 sessions, 1 restart, reports without a sid |
| `counts` | nothing owed is forgotten, whatever fails; a page is not left with a call that is over | 2 rooms, 1 person each, 4 moves, 1 query, 1 failure, 1 thing the poller does not make up for |
| `policy` | valid values, no way back, convergence | 2 instances, the second older by one value; 1 key; 2 writes, crashes or reloads |
| `roles_cache` | mandatory roles, agreement, convergence | 2 instances, 4 names, owner missing at first; 2 happenings |
| `roles_held` | everybody holds a role; the owner remains | 3 accounts, 4 roles, 3 calls at once |
| `viewer` | no change is taken as seen by an older read; only one event goes through with one; convergence | 2 streams, 2 caches, 2 changes, versions to 1, 1 failure |
| `viewer_shared` | violated: the event after a change reads the viewer | as `viewer` |
| `group_members` | chat, memberships and roles agree; power has a source | 2 people, 1 network admin among them, 2 roles of the group's own, 2 requests at once, 1 edit |
| `group_access` | columns, marks, templates and the privacy cap | 2 requests at once, 3 in all, lists of rights for each level, two kinds of editors |
| `group_access_form` | violated: the form's `showMembers` changes nothing outside a closed group | 1 request |
| `chat` | the page and its reports | 2 rooms, 1 other person, 2 messages, 1 per answer, 2 questions at once, 5 happenings |

The types of the modules are theorems (`TypeCorrect`); runs check them only where they say more than
types: the names remembered during a boot, the events that wait for a refresh, the reports of the
chat page, none of which is empty.

Why these bounds are enough to be of interest: each admits the overlaps its properties are
about at least once, with one actor to spare. Two users and two rooms give a stale request, a
late report and a carried-on session; two instances give a writer, a reader and an echo; two
happenings give a write that a crash, a reload or a second write comes across; three accounts
give two owners and somebody to be given a role; three requests of two slots give one that
overlaps both others; two messages on pages of one give a cursor, and five happenings a room
that is left and opened again while two messages are written. Bounds on counters (`Max...`) are guards of
the actions that use them up. `roles_cache` has a single value for a role's permissions: it
tells roles that exist from those that do not, which is what creating, renaming, deleting and
seeding are about; an update takes the same path as a creation. Symmetry is used for users,
accounts, rooms, slots and made-up roles, in runs without liveness only. Deadlock is checked in
`group_members`, where people can always come and go; in all others the bounds stop the model,
and a backend nobody calls may rest.

Two runs end in a violation, each of a comment by the code:

* `groups.ts:606-609` says that the form's `showMembers` changes nothing outside a closed group. It
  stays in the parameters that `SET group += $params` (`groups.ts:559`) writes, so saving a public
  group closes the column of its member list, while its `none` role still grants it.
* `subscription.ts:16` says that after a change "the next event reads the viewer at once", and `:93`
  that a change during a read "is read with the next event". With two subscriptions on one context
  (`server.ts:96`) the next event of the second finds the read of the first under way, begun before
  the change, and takes its result (`:91`): it is let through or kept back by the old rights.

Further places where code and comment part, found on the way and described here only:

* `callSession.ts:219` says leaving a group ends the access to what was written in its calls. A
  join that passed the shield before its user left writes the edge afterwards (`:135`).
* `PolicyService.ts:179` grants that a boot's seed may overwrite a change in the database but holds
  that the caches stay correct. `resync`, added later, spreads the row.
* `roles.ts:273` says the last owner is never demoted. Two demotions at once each count the other;
  a deleted account's edge counts as an owner's. `OwnerEdgeRemains` says what is left.
* `repository.ts:547-550` means to keep the right to the member list out of groups that cannot be seen.
  Sight taken away between the two readings of a boot puts it there (`hiddenSince`).
* `RoleService.ts:108` rests on an owner role that cannot be deleted. One that was written by hand
  where the cache had lost it can (`remade`).
* `permissionsMiddleware.ts:711` says assigning the role somebody already holds changes nothing.
  When they step down or leave between the check and the write, it gives the role back, an
  owner's too (`groups.ts:732`, `groupRoles.ts:630`).
* `types.ts:61` says the network path never writes a membership for the person using it. An elevated
  admin may give themselves a role.
* `integrity.ts:42` and `:54` count groups whose memberships name no role, or whose columns are not
  their role's, as damaged; races of single requests lead there (`raced`, `torn`).
* `repository.ts:650` applies templates to groups that have not edited their roles, of which one may
  just have been edited and not marked yet.
* `messages.ts:200`: two first messages at once create two direct rooms; a later message to that
  person is created in each of them.
* A session is opened with a sid that is no longer live (`callSession.ts:106`, comment at `:50`); a
  boot keeps an event older than its snapshot (`PolicyService.ts:152`, comment at `:150`); the echo
  of an own change puts an older value back (`:459`, comment at `:441`); `resetMany` skips a key by a
  stale cache (`:406`, comment at `:395`); a rename heard during a boot leaves the role under both
  names (`RoleService.ts:82`, comment at `:331`); a first boot that ends between two seeds never
  seeds its optional roles (`userRoleEdges.ts:17`, comment at `:11`).
* Two instances that boot at once on an empty database: seeds are not published, so the second may read
  between two seeds of the first and serve without the optional roles until its first resync
  (`RoleService.ts:93`). `RoleService.cfg` starts with a database that is not empty.
* Whether a call runs is asked before the right to open one is checked (`videoCalls.ts:509`), and the
  call may be over when the token is used.

## Fairness

Nothing is assumed of people: nobody has to ask, join, leave or change anything.

* Timers fire and what they start goes on (`PollList`, `pollOnce`, `ResyncStart`, `Expire`,
  `Age`): weak fairness, as an interval is not stopped while the process lives.
* A database or LiveKit that is asked again and again answers once in a while: strong fairness
  of `ResyncRead`, `PollSeesRoom`, `PollMissesRoom`, as each try may fail and the next interval
  tries again. In `CallCount` and `SubscriptionContext` the failures are bounded instead.
* A call or boot under way goes on, and an event is delivered or lost: weak fairness. The pubsub
  is never assumed to deliver, except in `CallCount` and `SubscriptionContext`, where losses are
  bounded.
* A read that neither answers nor fails is excluded. It would stop the resync of its process for
  good: `running` in `cacheResync.ts:16` is reset only when both reads have settled.

## What is proved

`tlapm` checks every theorem below for any value of the constants that meets the module's
assumption (bounds are natural numbers, special values are not members of the sets they stand
beside, mandatory roles are among the defaults, the default is valid everywhere).

* **CallSession**: `TypeOK`, `OneRunningSession`. Inductive invariant: who has decided holds the
  lock; a running session has been opened before; a decision accounts for every session that is
  running (`DecisionCoversRunning`). `OneRunningSession` alone is not inductive: it says nothing
  of what a request is about to write. From the same invariant and that the running session is
  the newest: `ImplementsGroupCall`, every step being a step of `GroupCall` or a stutter.
  `ChatOnlyForThoseInTheCall` needs that who is in the room has met everybody in it, that a request
  has met those it was told of, and that the session it carries on is of that room and had one of
  them. `LiveSessionEndsByJoinOnly`, where reports name their room and polls stay within the grace
  period: rooms are never opened again under a sid, and a running session of an open room that a
  poll has missed was opened since that poll listed the rooms, so it is too young to be ended.
* **CallCount**: `TypeOK`, `OwedUntilOut`. The types include that nothing is owed between polls
  and that a room still to be gone through was listed; the action property then follows action
  by action.
* **PolicyService**: `TypeOK`, `ResyncGoesForward`, `ServesValidValues`. For the second: nothing
  an instance holds, has pending, hears or has read is ahead of its row, rows only grow, and a
  read of which no change was noted is at least as new as the cache (`UnmovedReadIsNewer`). For
  the third: what is cached is valid, and while a boot runs every key it is through with is set.
* **RoleService**: `TypeOK`, `ServesMandatory`. Strengthened by: no call under way and no event
  on its way can take a mandatory role out of a cache (`Harmless`), and only a serving instance
  resyncs. For the owner role that rests on its protection, and so on every copy of it, in the
  database, in caches and in what has been read, being the seeded one as long as nobody has written
  it anew (`OwnerProtected`). `HeardAllInLine`, on a database that is not empty: the last event on its way about a role,
  or what the instance has of it if there is none, is what the database has, but for the one change
  that is written and not yet published; a boot has of a role it heard nothing of what it has read,
  and while there is something to seed nobody serves. The assumption was found by the proof: see the
  two first boots above.
* **RoleAssignment**: `TypeOK`, `OnlyADeletionOrphans`, `EveryoneHasARole`, `OwnerEdgeRemains`.
  The last two by: while nothing has overlapped, there is one call at most and what it decided
  still holds (`DecisionsHold`).
* **SubscriptionContext**: `TypeOK`, `FreshIsCurrent`, `LaterEventReads`, for any number of streams
  on one context. Strengthened by: what is known is in the epoch, a read covers what was known when
  it was begun, a viewer covers the counts it was loaded at. For `LaterEventReads`: when an event
  goes through, the read it waited for is over, so the read the next one waits for is begun later
  and covers what was known then (`PassedIsRead`).
* **GroupMembership**: all its properties. Strengthened by: a request under way names a role that is
  defined or has been raced; who hands out the owner role has the whole authority, who handles a peer
  does so only to make an owner, and a reset carries the template's rights (`Fits`). For the chat:
  only members are in it, and who is missing came by a code.
* **GroupAccess**: all its properties but the one the code violates. The invariant says of every
  request, by its stage, what it is going to write and which of the group's roles it has behind it
  (`Fits`); each property then needs a strengthening of its own, about requests that have written
  the role and not yet the columns, or not yet the mark. For `NothingWithoutSight` that is what has
  been read, and what a boot is about to write: both give no right without sight, but for the member
  list after `hiddenSince`.
* **Chat**: all its properties, in layers. The types need a count: with the messages written here
  that are still being sent, there are no more messages than numbers (`Counted`), so the next one
  always finds its own. `Sources` says where things on their way come from: an answer carries
  messages of the room it was asked for, each once; an event of a new message names one message of
  others in its room; a message stored is mine and has one local number. On that rests what is shown:
  a question that is not outdated is about the open room and begins no later than the oldest message
  loaded (`FetchesInOrder`), and entries are told apart by their ids, or by their local numbers
  without one (`ShownApart`) - which is `ShownOnceInItsRoom`. `StatusIsTrue`: no answer, event or
  queued update says what has not happened, and what has happened stays so (`HonestInv`).
  `StatusArrives`: of a message stored, each thing that happened is on its entry, on its way, or in
  the queue until the entry gets its id (`Follows`); the invariant speaks of the time before the
  answer, when the property says nothing yet. `NoGaps`: an answer that may still be merged carries
  every message it speaks for - those from its oldest on, or all before its cursor if it is less
  than a page - unless that is on the page already or the page was never told of it
  (`AnswersFull`). That an answer is the newest page
  before the cursor for every page size is a lemma about cardinalities (`AnswerCovers`).
  `UnseenIsWatched` needs that what has been in view is owed to the server, known to it, or failed
  (`ViewedIsReported`); `ReadIsReported` follows action by action.

Only model-checked: liveness (`GoneCallIsEnded`, `RunningIsCorrected`, the `EventuallyInLine` of
policies and roles, `EventuallyCurrent`), which is out of this prover's reach under fairness.

## What the properties excuse

Some properties are false of the code as it is without an exception. The exception is then a history
variable that names the window, and what such a property says about that window is nothing: the
hazard is described, and not caught. `PROJECT.json` repeats this at each hazard.

| History | Excused | What is still caught |
| --- | --- | --- |
| `disturbed` (`CallCount`) | a page left with a wrong count by a late webhook, an overtaken answer, a silently lost publish or a change during a poll | a count told and not noted, a poll that forgets what it owes |
| `broken`, `remade` (`RoleService`) | a reload that finds no owner or user; an owner role written by hand and deleted | every other way to lose one of them: an event, a resync of an emptied database, a delete or rename |
| `orderly` (`RoleService`) | disagreement after lost events, renames and changes at once | a boot that mixes its read and the events wrongly |
| `overlapped` (`RoleAssignment`) | two demotions of the last owners, an assignment between count and delete | a wrong count; that only a deletion takes a role away holds without it |
| `raced`, `invited` (`GroupMembership`) | a role deleted under a request that names it; a member who came by a code and is not in the chat | all other dangling roles; strangers in the chat |
| `torn`, `crossed`, `hiddenSince` (`GroupAccess`) | requests that break off half way or write over what they have not seen; a boot that looked before the group was hidden | a request that runs through alone, or beside others it does not write over, and forgets a column, a mark or the list |
| `missed`, `gone`, `unreported` (`Chat`) | single messages whose event, answer or report was lost, kept back or refused | every other message of the same room |

## Plan

The modules above were written in the order of how much of the system leans on them: calls and
their counts, the two caches, who holds roles, viewers, then groups and the chat page. What would
come next, in this order:

1. Sign-up, addresses and password resets, with failures between the transactions: one account per
   address, nonces used once, codes within their limits.
2. The chat's list of rooms: its unread counts, its search, and rooms made by a first message.
3. `PolicyService` and `RoleService` as implementations of one abstract cache that serves, at any
   time, a value the database has had.

## Not modelled

Parts that decide without keeping state (the shield, queries, text processing), parts that only
read or only write one record in one transaction (posts, reports, badges, donations, API keys),
services reached over the network beyond what the code sees of them (S3, mail, Mapbox, LiveKit's
inside), clock time other than "the period has passed", and the client, but for its chat page and
the page that shows a count. `PROJECT.json` gives the reason part by part.
