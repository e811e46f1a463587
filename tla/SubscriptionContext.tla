------------------------ MODULE SubscriptionContext ------------------------
(***************************************************************************)
(* The viewer of an open socket (context/subscription.ts): when it is read *)
(* again, so that what the subscriptions on that socket let through does   *)
(* not stay with old rights.  What a viewer may do follows from the user's *)
(* record, whose changes are announced (context/principalEpoch.ts), and    *)
(* from the caches of the process, which count their own changes           *)
(* (RoleService.version, PolicyService.version).                           *)
(*                                                                         *)
(* One context, of a viewer who is signed in, and the event streams that   *)
(* share it: one with graphql-ws, which builds a context per subscription, *)
(* several with the legacy protocol, which builds one per socket           *)
(* (server.ts:96) and is the one the webapp speaks.                        *)
(***************************************************************************)
EXTENDS Integers, FiniteSets

CONSTANTS
  Streams,      \* the subscriptions that share the context
  Caches,       \* the caches that have a version
  None,         \* no read under way, no event waiting
  MaxChanges,   \* bounds: on the changes of the user,
  MaxVersion,   \*   of each cache,
  MaxOthers,    \*   of other users,
  MaxFailures   \*   and on what fails or is lost

ASSUME SubscriptionAssumption ==
  /\ MaxChanges \in Nat /\ MaxVersion \in Nat /\ MaxOthers \in Nat
  /\ MaxFailures \in Nat
  /\ None \notin [opening : BOOLEAN, done : BOOLEAN, user : Nat, epoch : [Caches -> Nat],
                  heard : Nat, changes : Nat]
  /\ None \notin [user : Nat, caches : [Caches -> Nat]]

VARIABLES
  user,         \* the revision of the user's record in the database
  caches,       \* caches[c]: the version of cache c, and so of its contents
  wire,         \* the revisions announced (PRINCIPAL_CHANGED) and not yet heard
  known,        \* the latest revision that was heard of
  epoch,        \* principalEpoch(userId)
  changes,      \* principalChanges()
  open,         \* the context is built
  viewer,       \* the revisions the context was built from
  loadedEpoch,  \* the counts it was built at
  expired,      \* SUBSCRIPTION_PRINCIPAL_TTL_MS have passed since loadedAt
  reading,      \* the buildContext under way
  waiting,      \* waiting[s]: what was known when s's event asked to be let through
  passed,       \* history: what was known when s's last event that waited went through
  spent         \* how much of each bound is used up

world == <<user, caches, wire, known, epoch, changes>>
socket == <<open, viewer, loadedEpoch, expired>>
events == <<waiting, passed>>
vars == <<world, socket, reading, events, spent>>

Revisions == [user : Nat, caches : [Caches -> Nat]]
Reads == [opening : BOOLEAN, done : BOOLEAN, user : Nat, epoch : [Caches -> Nat],
          heard : Nat, changes : Nat]
Bounds == {"others", "failures"}

Init ==
  /\ user = 0
  /\ caches = [c \in Caches |-> 0]
  /\ wire = {}
  /\ known = 0
  /\ epoch = 0
  /\ changes = 0
  /\ open = FALSE
  /\ viewer = [user |-> 0, caches |-> [c \in Caches |-> 0]]
  /\ loadedEpoch = [user |-> 0, caches |-> [c \in Caches |-> 0]]
  /\ expired = FALSE
  /\ reading = None
  /\ waiting = [s \in Streams |-> None]
  /\ passed = [s \in Streams |-> [user |-> 0, caches |-> [c \in Caches |-> 0]]]
  /\ spent = [b \in Bounds |-> 0]

Spend(what, bound) ==
  /\ spent[what] < bound
  /\ spent' = [spent EXCEPT ![what] = @ + 1]

-----------------------------------------------------------------------------
(***************************************************************************)
(* What changes: the user's record, announced once it has committed; the   *)
(* caches, which move their version in the same step.                      *)
(***************************************************************************)
publishPrincipalChanged ==
  /\ user < MaxChanges
  /\ user' = user + 1
  /\ wire' = wire \cup {user'}
  /\ UNCHANGED <<caches, known, epoch, changes, socket, reading, events, spent>>

Version(c) ==
  /\ caches[c] < MaxVersion
  /\ caches' = [caches EXCEPT ![c] = @ + 1]
  /\ UNCHANGED <<user, wire, known, epoch, changes, socket, reading, events, spent>>

listenForPrincipalChanges(v) ==
  /\ v \in wire
  /\ wire' = wire \ {v}
  /\ known' = IF v > known THEN v ELSE known
  /\ epoch' = epoch + 1
  /\ changes' = changes + 1
  /\ UNCHANGED <<user, caches, socket, reading, events, spent>>

OtherChanged ==
  /\ Spend("others", MaxOthers)
  /\ changes' = changes + 1
  /\ UNCHANGED <<user, caches, wire, known, epoch, socket, reading, events>>

Lose(v) ==
  /\ v \in wire
  /\ Spend("failures", MaxFailures)
  /\ wire' = wire \ {v}
  /\ UNCHANGED <<user, caches, known, epoch, changes, socket, reading, events>>

-----------------------------------------------------------------------------
(***************************************************************************)
(* buildContext decodes the token against the database and then builds the *)
(* permissions from the caches.  The counts are taken before.              *)
(***************************************************************************)
Read(opening) == [opening |-> opening, done |-> FALSE, user |-> 0, epoch |-> caches,
                  heard |-> epoch, changes |-> changes]

Built == [user |-> reading.user, caches |-> caches]

decode ==
  /\ reading # None /\ ~reading.done
  /\ reading' = [reading EXCEPT !.done = TRUE, !.user = user]
  /\ UNCHANGED <<world, socket, events, spent>>

getSubscriptionContext ==
  /\ ~open /\ reading = None
  /\ reading' = Read(TRUE)
  /\ UNCHANGED <<world, socket, events, spent>>

\* Any user's change during the first read may have been this one's.
Opened_Blind ==
  /\ reading # None /\ reading.opening /\ reading.done
  /\ open' = TRUE
  /\ viewer' = Built
  /\ loadedEpoch' = [user |-> epoch, caches |-> reading.epoch]
  /\ expired' = FALSE
  /\ reading' = None
  /\ UNCHANGED <<world, events, spent>>
  \* Fault: the changes that landed during the read count as seen.

Opened ==
  /\ reading # None /\ reading.opening /\ reading.done
  /\ open' = TRUE
  /\ viewer' = Built
  /\ loadedEpoch' = [user |-> IF changes # reading.changes THEN -1 ELSE epoch,
                     caches |-> reading.epoch]
  /\ expired' = FALSE
  /\ reading' = None
  /\ UNCHANGED <<world, events, spent>>

OpenFails ==
  /\ reading # None /\ reading.opening
  /\ Spend("failures", MaxFailures)
  /\ reading' = None
  /\ UNCHANGED <<world, socket, events>>

-----------------------------------------------------------------------------
(***************************************************************************)
(* refresh: before every event.  One read at a time; those who come while  *)
(* it runs wait for it, and for no other.                                  *)
(***************************************************************************)
moved == loadedEpoch # [user |-> epoch, caches |-> caches]

Due_Moved == moved
  \* Fault: nothing but a change that was heard of has the viewer read again.

Due == expired \/ moved

Now == [user |-> known, caches |-> caches]

\* An event that finds the viewer fresh is let through and changes nothing.
refresh(s) ==
  /\ open /\ waiting[s] = None
  /\ Due
  /\ waiting' = [waiting EXCEPT ![s] = Now]
  /\ reading' = IF reading = None THEN Read(FALSE) ELSE reading
  /\ UNCHANGED <<world, socket, passed, spent>>

\* Everybody who waits goes on.
Released ==
  /\ waiting' = [s \in Streams |-> None]
  /\ passed' = [s \in Streams |-> IF waiting[s] = None THEN passed[s] ELSE Now]

Refreshed_Copy ==
  /\ reading # None /\ ~reading.opening /\ reading.done
  /\ viewer' = viewer
  /\ loadedEpoch' = [user |-> reading.heard, caches |-> reading.epoch]
  /\ expired' = FALSE
  /\ reading' = None
  /\ Released
  /\ UNCHANGED <<world, open, spent>>
  \* Fault: the fresh values are written into a copy of the context.

Refreshed ==
  /\ reading # None /\ ~reading.opening /\ reading.done
  /\ viewer' = Built
  /\ loadedEpoch' = [user |-> reading.heard, caches |-> reading.epoch]
  /\ expired' = FALSE
  /\ reading' = None
  /\ Released
  /\ UNCHANGED <<world, open, spent>>

RefreshFails_Hangs ==
  /\ reading # None /\ ~reading.opening
  /\ Spend("failures", MaxFailures)
  /\ reading' = None
  /\ UNCHANGED <<world, socket, events>>
  \* Fault: those who wait for a read that failed wait on.

\* The viewer is kept, and the events go through with it.
RefreshFails ==
  /\ reading # None /\ ~reading.opening
  /\ Spend("failures", MaxFailures)
  /\ reading' = None
  /\ Released
  /\ UNCHANGED <<world, socket>>

Expire ==
  /\ open /\ ~expired
  /\ expired' = TRUE
  /\ UNCHANGED <<world, open, viewer, loadedEpoch, reading, events, spent>>

-----------------------------------------------------------------------------
Change == publishPrincipalChanged \/ OtherChanged \/ \E c \in Caches : Version(c)

Next ==
  \/ Change
  \/ \E v \in wire : listenForPrincipalChanges(v) \/ Lose(v)
  \/ getSubscriptionContext \/ decode \/ Opened \/ OpenFails
  \/ \E s \in Streams : refresh(s)
  \/ Refreshed \/ RefreshFails
  \/ Expire

(***************************************************************************)
(* The socket stays open, events keep coming on some stream, time passes   *)
(* and a database that is asked answers most of the time.                  *)
(***************************************************************************)
Fairness ==
  /\ WF_vars(getSubscriptionContext) /\ WF_vars(decode)
  /\ WF_vars(Opened) /\ WF_vars(Refreshed)
  /\ WF_vars(\E s \in Streams : refresh(s))
  /\ WF_vars(Expire)
  /\ WF_vars(\E v \in wire : listenForPrincipalChanges(v))

Spec == Init /\ [][Next]_vars /\ Fairness

-----------------------------------------------------------------------------
(***************************************************************************)
(* The types; and events wait exactly while a refresh runs, which runs on  *)
(* an open socket only.                                                    *)
(***************************************************************************)
TypeOK ==
  /\ user \in Nat /\ caches \in [Caches -> Nat]
  /\ wire \subseteq Nat
  /\ known \in Nat /\ epoch \in Nat /\ changes \in Nat
  /\ open \in BOOLEAN /\ expired \in BOOLEAN
  /\ viewer \in Revisions
  /\ loadedEpoch \in [user : Int, caches : [Caches -> Nat]]
  /\ reading \in Reads \cup {None}
  /\ waiting \in [Streams -> Revisions \cup {None}]
  /\ passed \in [Streams -> Revisions]
  /\ spent \in [Bounds -> Nat]
  /\ reading # None => reading.opening = ~open
  /\ (\E s \in Streams : waiting[s] # None) => reading # None /\ open

Covers(v, needs) ==
  v.user >= needs.user /\ \A c \in Caches : v.caches[c] >= needs.caches[c]

(***************************************************************************)
(* A viewer is taken for fresh only if it was read after every change the  *)
(* process has heard of (subscription.ts:93): no change that lands during  *)
(* a read, the first one included, is ever taken as seen.                  *)
(***************************************************************************)
FreshIsCurrent == open /\ ~moved => Covers(viewer, Now)

(***************************************************************************)
(* "The next event reads the viewer at once" (subscription.ts:16): an      *)
(* event that comes after a change was heard of goes through with a viewer *)
(* read after that change, unless the read fails.                          *)
(***************************************************************************)
NextEventReads ==
  [][\A s \in Streams :
       waiting[s] # None /\ waiting'[s] = None /\ spent' = spent =>
         Covers(viewer', waiting[s])]_vars

(***************************************************************************)
(* An event that joins a read begun before a change goes through without   *)
(* it (subscription.ts:91), but only one does: what was heard of by the    *)
(* time an event went through has been read when the next one of the same  *)
(* subscription does, however many share the viewer and though the last    *)
(* read failed - unless the one it waits for fails too.                    *)
(***************************************************************************)
LaterEventReads ==
  [][\A s \in Streams :
       waiting[s] # None /\ waiting'[s] = None /\ spent' = spent =>
         Covers(viewer', passed[s])]_vars

(***************************************************************************)
(* Whatever is lost or fails, a window that runs out makes up for it: the  *)
(* viewer of an open socket is in the end the one in the database          *)
(* (subscription.ts:16: the window stays the net for everything else).     *)
(***************************************************************************)
EventuallyCurrent == <>[](open => viewer = [user |-> user, caches |-> caches])
=============================================================================
