---------------------------- MODULE RoleService ----------------------------
(***************************************************************************)
(* The role cache of every backend instance (role/RoleService.ts): boot    *)
(* with its seeding, saving, renaming and deleting a role, the events that *)
(* carry a change to the other instances, the reload and the resync.       *)
(*                                                                         *)
(* The pubsub keeps the order of publication and may lose any event; what  *)
(* an instance writes, it publishes only when the write is acknowledged.   *)
(* A role's permissions are one value: nothing here looks inside them.     *)
(* Only the owner role as it is seeded is protected: written in any other  *)
(* way, under whatever name, a role is not.                                *)
(***************************************************************************)
EXTENDS Naturals, Sequences, SequencesExt

CONSTANTS
  Instances,    \* the backend processes
  Names,        \* the names of roles there are or may be
  Owner, User,  \* the mandatory roles
  Defaults,     \* the names of the roles a fresh database is seeded with
  Values,       \* what a role may permit that is not protected
  Seeded,       \* what a seeded role permits
  Protected,    \* the owner role as it is seeded
  Absent,       \* no such role
  Stored,       \* the roles in the database at the beginning
  MaxHappenings \* bound: on what happens - a change asked for, a reload, a
                \*   process that ends, the database emptied from outside

Mandatory == {Owner, User}

ASSUME RoleServiceAssumption ==
  /\ Owner # User /\ Mandatory \subseteq Defaults /\ Defaults \subseteq Names
  /\ Stored \subseteq Names
  /\ Seeded \in Values /\ {Absent, Protected} \cap Values = {} /\ Absent # Protected
  /\ MaxHappenings \in Nat

VARIABLES
  db,        \* db[n]: the Role node of that name, or Absent
  status,    \* status[i]: "down", "booting", "serving", or "broken": the last
             \*   reload has thrown
  cache,     \* cache[i][n]: the role i has of that name, or Absent
  load,      \* load[i]: seedDefaultRoleNodes, for a boot or a reload
  deleted,   \* deleted[i]: the names in deletedDuringInit
  inbox,     \* inbox[i]: the events on their way to i
  sync,      \* sync[i]: the resync under way
  calls,     \* the changes asked for and not yet acknowledged
  happened,  \* how much has happened
  orderly,   \* history: only changes have happened, one at a time and no
             \*   renames, and no event has been lost
  remade     \* history: a role named as the owner has been asked for where the
             \*   cache had none

vars == <<db, status, cache, load, deleted, inbox, sync, calls, happened, orderly, remade>>

Roles == [Names -> Values \cup {Protected, Absent}]
Empty == [n \in Names |-> Absent]
Present(roles) == {n \in Names : roles[n] # Absent}

NotLoading == [step |-> "off", todo |-> {}, roles |-> Empty]
NoSync == [step |-> "off", roles |-> Empty, moved |-> FALSE]

Loads == [step : {"off", "reading", "seeding", "rereading", "read"},
          todo : SUBSET Defaults, roles : Roles]
Syncs == [step : {"off", "reading", "read"}, roles : Roles, moved : BOOLEAN]
Events == [name : Names, prev : Names, role : Values \cup {Absent}]
Calls == [at : Instances, op : {"save", "rename", "delete"},
          written : BOOLEAN, event : Events]

SeededAs(n) == IF n = Owner THEN Protected ELSE Seeded

Init ==
  /\ db = [n \in Names |-> IF n \in Stored THEN SeededAs(n) ELSE Absent]
  /\ status = [i \in Instances |-> "down"]
  /\ cache = [i \in Instances |-> Empty]
  /\ load = [i \in Instances |-> NotLoading]
  /\ deleted = [i \in Instances |-> {}]
  /\ inbox = [i \in Instances |-> <<>>]
  /\ sync = [i \in Instances |-> NoSync]
  /\ calls = {}
  /\ happened = 0 /\ orderly = TRUE /\ remade = FALSE

Serving == {i \in Instances : status[i] \in {"serving", "broken"}}

Happens ==
  /\ happened < MaxHappenings
  /\ happened' = happened + 1

Incident == Happens /\ orderly' = FALSE /\ UNCHANGED remade

\* changes += 1: a resync under way will see it.
Moved(i) ==
  sync' = [sync EXCEPT ![i] = [@ EXCEPT !.moved = sync[i].step # "off"]]

-----------------------------------------------------------------------------
(***************************************************************************)
(* seedDefaultRoleNodes: read, write what is missing, read again.          *)
(***************************************************************************)

\* selectRolesToSeed: everything in an empty database, else the mandatory
\* roles that are missing.
ToSeed(roles) ==
  IF Present(roles) = {} THEN Defaults ELSE Mandatory \ Present(roles)

SeedRead(i) ==
  /\ load[i].step = "reading"
  /\ load' = [load EXCEPT ![i] =
       IF ToSeed(db) = {}
       THEN [step |-> "read", todo |-> {}, roles |-> db]
       ELSE [step |-> "seeding", todo |-> ToSeed(db), roles |-> Empty]]
  /\ UNCHANGED <<db, status, cache, deleted, inbox, sync, calls, happened, orderly, remade>>

\* seedRole merges: a role that is there by now keeps what it permits.
SeedRole(i, n) ==
  /\ load[i].step = "seeding"
  /\ n \in load[i].todo
  /\ db' = [db EXCEPT ![n] = IF @ = Absent THEN SeededAs(n) ELSE @]
  /\ load' = [load EXCEPT ![i] =
       [step |-> IF load[i].todo = {n} THEN "rereading" ELSE "seeding",
        todo |-> load[i].todo \ {n}, roles |-> Empty]]
  /\ UNCHANGED <<status, cache, deleted, inbox, sync, calls, happened, orderly, remade>>

SeedReread(i) ==
  /\ load[i].step = "rereading"
  /\ load' = [load EXCEPT ![i] = [step |-> "read", todo |-> {}, roles |-> db]]
  /\ UNCHANGED <<db, status, cache, deleted, inbox, sync, calls, happened, orderly, remade>>

-----------------------------------------------------------------------------
(***************************************************************************)
(* init and reload.                                                        *)
(***************************************************************************)
Subscribe(i) ==
  /\ status[i] = "down"
  /\ status' = [status EXCEPT ![i] = "booting"]
  /\ load' = [load EXCEPT ![i] = [@ EXCEPT !.step = "reading"]]
  /\ UNCHANGED <<db, cache, deleted, inbox, sync, calls, happened, orderly, remade>>

\* What a boot makes of the read: events it has had win over it.
Booted_Resurrects(i) ==
  [n \in Names |-> IF cache[i][n] # Absent THEN cache[i][n] ELSE load[i].roles[n]]
  \* Fault: a deletion during the boot is not remembered.

Booted(i) ==
  [n \in Names |-> IF cache[i][n] # Absent THEN cache[i][n]
                   ELSE IF n \in deleted[i] THEN Absent
                   ELSE load[i].roles[n]]

\* Without a mandatory role the process ends.
FinishInit(i) ==
  /\ status[i] = "booting" /\ load[i].step = "read"
  /\ IF Mandatory \subseteq Present(Booted(i))
     THEN /\ cache' = [cache EXCEPT ![i] = Booted(i)]
          /\ status' = [status EXCEPT ![i] = "serving"]
          /\ UNCHANGED inbox
     ELSE /\ cache' = [cache EXCEPT ![i] = Empty]
          /\ status' = [status EXCEPT ![i] = "down"]
          /\ inbox' = [inbox EXCEPT ![i] = <<>>]
  /\ load' = [load EXCEPT ![i] = NotLoading]
  /\ deleted' = [deleted EXCEPT ![i] = {}]
  /\ UNCHANGED <<db, sync, calls, happened, orderly, remade>>

Reload(i) ==
  /\ i \in Serving
  /\ load[i].step = "off"
  /\ Incident
  /\ load' = [load EXCEPT ![i] = [@ EXCEPT !.step = "reading"]]
  /\ UNCHANGED <<db, status, cache, deleted, inbox, sync, calls>>

\* The cache is replaced before anybody asks for the mandatory roles.
FinishReload(i) ==
  /\ i \in Serving /\ load[i].step = "read"
  /\ cache' = [cache EXCEPT ![i] = load[i].roles]
  /\ status' = [status EXCEPT ![i] =
       IF Mandatory \subseteq Present(load[i].roles) THEN "serving" ELSE "broken"]
  /\ load' = [load EXCEPT ![i] = NotLoading]
  /\ Moved(i)
  /\ UNCHANGED <<db, deleted, inbox, calls, happened, orderly, remade>>

-----------------------------------------------------------------------------
(***************************************************************************)
(* upsertRole, renameRole, deleteRole: look into the cache, write, then    *)
(* change the cache and publish.                                           *)
(***************************************************************************)
Ask(i, o, e) ==
  /\ i \in Serving
  /\ Happens
  /\ orderly' = (orderly /\ calls = {} /\ o # "rename")
  /\ remade' = (remade \/ (e.name = Owner /\ o # "delete" /\ cache[i][Owner] = Absent))
  /\ calls' = calls \cup {[at |-> i, op |-> o, written |-> FALSE, event |-> e]}
  /\ UNCHANGED <<db, status, cache, load, deleted, inbox, sync>>

\* createRole and updateRole.  A cache without the owner role leaves its name
\* free, and what is written under it is not protected.
upsertRole(i, n, v) ==
  /\ cache[i][n] # Protected
  /\ Ask(i, "save", [name |-> n, prev |-> n, role |-> v])

\* The event carries the permissions the cache has for the old name.
renameRole(i, n, to) ==
  /\ cache[i][n] \notin {Absent, Protected} /\ n \notin Mandatory
  /\ cache[i][to] = Absent
  /\ Ask(i, "rename", [name |-> to, prev |-> n, role |-> cache[i][n]])

deleteRole(i, n) ==
  /\ cache[i][n] \notin {Absent, Protected} /\ n # User
  /\ Ask(i, "delete", [name |-> n, prev |-> n, role |-> Absent])

\* The write.  A rename finds no node, or is refused by the constraint on
\* the name; deleting counts the members before, so it may be refused too.
Refused(c) ==
  \/ c.op = "delete"
  \/ c.op = "rename" /\ {c.event.prev, c.event.name} \subseteq Present(db)

Written(c) ==
  LET e == c.event
  IN CASE c.op = "rename" ->
            IF db[e.prev] = Absent THEN db
            ELSE [db EXCEPT ![e.name] = db[e.prev], ![e.prev] = Absent]
       [] OTHER -> [db EXCEPT ![e.name] = e.role]

Refuse(c) ==
  /\ ~c.written /\ Refused(c)
  /\ calls' = calls \ {c}
  /\ UNCHANGED <<db, status, cache, load, deleted, inbox, sync, happened, orderly, remade>>

Write(c) ==
  /\ ~c.written
  /\ ~(c.op = "rename" /\ Refused(c))
  /\ db' = Written(c)
  /\ calls' = (calls \ {c}) \cup {[c EXCEPT !.written = TRUE]}
  /\ UNCHANGED <<status, cache, load, deleted, inbox, sync, happened, orderly, remade>>

\* What an event makes of a cache; the caller's own cache changes likewise.
Applied(roles, e) ==
  [roles EXCEPT ![e.prev] = Absent, ![e.name] = e.role]

Acknowledge(c) ==
  /\ c.written
  /\ cache' = [cache EXCEPT ![c.at] = Applied(@, c.event)]
  /\ Moved(c.at)
  /\ inbox' = [i \in Instances |->
                 IF status[i] = "down" THEN inbox[i] ELSE Append(inbox[i], c.event)]
  /\ calls' = calls \ {c}
  /\ UNCHANGED <<db, status, load, deleted, happened, orderly, remade>>

-----------------------------------------------------------------------------
(***************************************************************************)
(* The pubsub: events arrive in the order of publication, or not at all.   *)
(***************************************************************************)
Remembered_Always(i, e) == e.role = Absent
  \* Fault: deletions are remembered after the boot as well.

Remembered(i, e) == status[i] = "booting" /\ e.role = Absent

Deliver(i) ==
  /\ inbox[i] # <<>>
  /\ LET e == Head(inbox[i])
     IN /\ cache' = [cache EXCEPT ![i] = Applied(@, e)]
        /\ deleted' = [deleted EXCEPT ![i] =
             IF Remembered(i, e) THEN @ \cup {e.name} ELSE @]
  /\ Moved(i)
  /\ inbox' = [inbox EXCEPT ![i] = Tail(@)]
  /\ UNCHANGED <<db, status, load, calls, happened, orderly, remade>>

Lose(i, k) ==
  /\ orderly' = FALSE
  /\ inbox' = [inbox EXCEPT ![i] = RemoveAt(@, k)]
  /\ UNCHANGED <<db, status, cache, load, deleted, sync, calls, happened, remade>>

-----------------------------------------------------------------------------
(***************************************************************************)
(* The resync every instance runs on a timer, one at a time.               *)
(***************************************************************************)
ResyncStart(i) ==
  /\ i \in Serving
  /\ sync[i].step = "off"
  /\ sync' = [sync EXCEPT ![i] = [@ EXCEPT !.step = "reading"]]
  /\ UNCHANGED <<db, status, cache, load, deleted, inbox, calls, happened, orderly, remade>>

ResyncRead(i) ==
  /\ sync[i].step = "reading"
  /\ sync' = [sync EXCEPT ![i] = [@ EXCEPT !.step = "read", !.roles = db]]
  /\ UNCHANGED <<db, status, cache, load, deleted, inbox, calls, happened, orderly, remade>>

ResyncFails(i) ==
  /\ sync[i].step = "reading"
  /\ sync' = [sync EXCEPT ![i] = NoSync]
  /\ UNCHANGED <<db, status, cache, load, deleted, inbox, calls, happened, orderly, remade>>

ResyncDropped(i) == sync[i].moved \/ ~(Mandatory \subseteq Present(sync[i].roles))

\* Without the mandatory roles the cache stays what it is.
ResyncApply_Blind(i) ==
  /\ sync[i].step = "read"
  /\ cache' = IF sync[i].moved THEN cache ELSE [cache EXCEPT ![i] = sync[i].roles]
  /\ sync' = [sync EXCEPT ![i] = NoSync]
  /\ UNCHANGED <<db, status, load, deleted, inbox, calls, happened, orderly, remade>>
  \* Fault: a read without the mandatory roles is believed.

ResyncApply_OnlyAdds(i) ==
  /\ sync[i].step = "read"
  /\ cache' = IF ResyncDropped(i) THEN cache
              ELSE [cache EXCEPT ![i] =
                      [n \in Names |-> IF sync[i].roles[n] = Absent THEN cache[i][n]
                                       ELSE sync[i].roles[n]]]
  /\ sync' = [sync EXCEPT ![i] = NoSync]
  /\ UNCHANGED <<db, status, load, deleted, inbox, calls, happened, orderly, remade>>
  \* Fault: the cache is not cleared, so roles that are gone stay in it.

ResyncApply(i) ==
  /\ sync[i].step = "read"
  /\ IF ResyncDropped(i)
     THEN UNCHANGED <<cache, status>>
     ELSE /\ cache' = [cache EXCEPT ![i] = sync[i].roles]
          /\ status' = [status EXCEPT ![i] = "serving"]
  /\ sync' = [sync EXCEPT ![i] = NoSync]
  /\ UNCHANGED <<db, load, deleted, inbox, calls, happened, orderly, remade>>

-----------------------------------------------------------------------------
\* The process ends; of its calls the database may still get the writes.
Crash(i) ==
  /\ status[i] # "down"
  /\ Incident
  /\ status' = [status EXCEPT ![i] = "down"]
  /\ cache' = [cache EXCEPT ![i] = Empty]
  /\ load' = [load EXCEPT ![i] = NotLoading]
  /\ deleted' = [deleted EXCEPT ![i] = {}]
  /\ inbox' = [inbox EXCEPT ![i] = <<>>]
  /\ sync' = [sync EXCEPT ![i] = NoSync]
  /\ calls' = {c \in calls : c.at # i}
  /\ UNCHANGED db

\* A command line tool empties the database behind the backend's back.
Wipe ==
  /\ Incident
  /\ db' = Empty
  /\ UNCHANGED <<status, cache, load, deleted, inbox, sync, calls>>

Load(i) ==
  \/ SeedRead(i) \/ SeedReread(i) \/ FinishInit(i) \/ FinishReload(i)
  \/ \E n \in Defaults : SeedRole(i, n)

Resync(i) == ResyncStart(i) \/ ResyncRead(i) \/ ResyncFails(i) \/ ResyncApply(i)

Next ==
  \/ \E i \in Instances :
       \/ Subscribe(i) \/ Reload(i) \/ Load(i)
       \/ \E n \in Names : \/ \E v \in Values : upsertRole(i, n, v)
                           \/ \E to \in Names : renameRole(i, n, to)
                           \/ deleteRole(i, n)
       \/ Deliver(i) \/ \E k \in DOMAIN inbox[i] : Lose(i, k)
       \/ Resync(i)
       \/ Crash(i)
  \/ \E c \in calls : Refuse(c) \/ Write(c) \/ Acknowledge(c)
  \/ Wipe

Spec == Init /\ [][Next]_vars

(***************************************************************************)
(* What is under way goes on: a load, a call, an event - it arrives or is  *)
(* lost - and a resync, which the timer starts and whose read works again  *)
(* and again.                                                              *)
(***************************************************************************)
Fairness ==
  /\ \A i \in Instances :
       /\ WF_vars(Load(i))
       /\ WF_vars(Deliver(i) \/ \E k \in DOMAIN inbox[i] : Lose(i, k))
       /\ WF_vars(ResyncStart(i)) /\ SF_vars(ResyncRead(i)) /\ WF_vars(ResyncApply(i))
  /\ WF_vars(\E c \in calls : Refuse(c) \/ Write(c) \/ Acknowledge(c))

FairSpec == Spec /\ Fairness

-----------------------------------------------------------------------------
(***************************************************************************)
(* The types; and deletedDuringInit is kept during a boot only, as it      *)
(* would grow for ever otherwise (RoleService.ts:72).                      *)
(***************************************************************************)
TypeOK ==
  /\ db \in Roles
  /\ status \in [Instances -> {"down", "booting", "serving", "broken"}]
  /\ cache \in [Instances -> Roles]
  /\ load \in [Instances -> Loads]
  /\ deleted \in [Instances -> SUBSET Names]
  /\ \A i \in Instances : deleted[i] # {} => status[i] = "booting"
  /\ inbox \in [Instances -> Seq(Events)]
  /\ sync \in [Instances -> Syncs]
  /\ calls \subseteq Calls
  /\ happened \in 0..MaxHappenings
  /\ orderly \in BOOLEAN /\ remade \in BOOLEAN

(***************************************************************************)
(* An instance that serves has both mandatory roles, unless a reload has   *)
(* just told the operator that they are missing: authorization and sign-up *)
(* rest on them (RoleService.ts:108 and 150), even when the database is    *)
(* emptied, and whatever events and resyncs come in whatever order.  What  *)
(* keeps the owner role is that it is protected (RoleService.ts:222, 254   *)
(* and 283), and one written anew, where a cache had lost it, is not: from *)
(* then on only the baseline role is kept.                                 *)
(***************************************************************************)
Kept == IF remade THEN {User} ELSE Mandatory

ServesMandatory ==
  \A i \in Instances : status[i] = "serving" => Kept \subseteq Present(cache[i])

(***************************************************************************)
(* As long as nothing has gone wrong and no two changes were under way at  *)
(* once, an instance that has heard everything agrees with the database,   *)
(* also one that booted in the middle: that is what subscribing before the *)
(* read, and letting events win over it, is for (RoleService.ts:70-78).    *)
(* Renames are left out: one heard during the boot leaves the role under   *)
(* its old name as well, although RoleService.ts:331 says it does not.     *)
(* So is an empty database: the optional roles one boot seeds are not      *)
(* published, and another may have read before them.                       *)
(***************************************************************************)
HeardAllInLine ==
  orderly /\ calls = {} =>
    \A i \in Instances : status[i] = "serving" /\ inbox[i] = <<>> => cache[i] = db

(***************************************************************************)
(* Once nobody changes anything any more, every instance that serves ends  *)
(* up with the roles of the database and stays there, whatever events were *)
(* lost and wherever a boot, a reload or a crash fell - unless the         *)
(* database has lost a mandatory role, which a resync does not believe.    *)
(***************************************************************************)
EventuallyInLine ==
  <>[](Mandatory \subseteq Present(db) =>
         \A i \in Instances : status[i] # "down" => cache[i] = db)
=============================================================================
