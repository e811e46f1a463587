--------------------------- MODULE PolicyService ---------------------------
(***************************************************************************)
(* The network policy of backend/src/policy/PolicyService.ts: one row per  *)
(* key in the database (repository.ts), a cache of all keys in every       *)
(* backend instance, change events between the instances over a pubsub     *)
(* that keeps nothing, and the resync of context/cacheResync.ts.           *)
(*                                                                         *)
(* Each await is a place where other steps fall in between: a change is    *)
(* committed in one step and reaches the writer's own cache in another, a  *)
(* boot reads the rows, then goes through them, and a resync compares what *)
(* it read with what the cache has become.                                 *)
(*                                                                         *)
(* Every row and every cached value carries the number of the write it     *)
(* comes from (ver).  The code has none: it is history, for the properties *)
(* only.                                                                   *)
(***************************************************************************)
EXTENDS Naturals, FiniteSets

CONSTANTS
  Instances,    \* the backend processes
  Keys,         \* the keys of the policy schema
  Values,       \* what a row or an event can hold
  Valid,        \* Valid[i]: the values the schema of instance i accepts
  Default,      \* what a key resets to: the ENV seed, or the schema's default
  None,         \* no row in the database; no value in the cache
  NoKey,        \* no key is being seeded
  MaxHappenings \* bound: writes committed, and instances that go down or
                \*   reload their cache

ASSUME PolicyAssumption ==
  /\ Valid \in [Instances -> SUBSET Values]
  /\ \A i \in Instances : Default \in Valid[i]
  /\ Default \in Values
  /\ None \notin Values
  /\ NoKey \notin Keys
  /\ MaxHappenings \in Nat

VARIABLES
  db,         \* db[k]: the Setting row of k, or None and who deleted it
  writes,     \* how many writes have been committed
  phase,      \* phase[i]: "down", "subscribed", "loading" or "up"
  serving,    \* initialised: the instance answers requests
  cache,      \* cache[i][k]: the cached value of k, or None
  load,       \* load[i]: the loadFromDb under way
  pending,    \* pending[i]: committed by i, not yet in its cache
  inbox,      \* inbox[i]: change events on their way to i
  resync,     \* resync[i]: the resync under way
  incidents   \* how often an instance has gone down or reloaded

vars == <<db, writes, phase, serving, cache, load, pending, inbox, resync,
          incidents>>

Vers == 0..MaxHappenings
Cells == [ver : Vers, val : Values \cup {None}]
Rows == [Keys -> Cells]

\* Nothing cached.
Unset == [ver |-> 0, val |-> None]
Empty == [k \in Keys |-> Unset]

\* A change as its writer holds it after the commit, and as it is published.
\* Each carries its own number, so one set can hold those in flight.
Changes == [key : Keys, cell : [ver : Vers, val : Values]]

\* What a row says the value is: no row is what reset leaves behind.
Served(row) == IF row.val = None THEN [row EXCEPT !.val = Default] ELSE row

NotLoading == [rows |-> Empty, todo |-> {}, seed |-> NoKey, written |-> Unset]
Loads == [rows : Rows, todo : SUBSET Keys, seed : Keys \cup {NoKey},
          written : Cells]

NoResync == [step |-> "idle", moved |-> FALSE, rows |-> Empty]
Resyncs == [step : {"idle", "reading", "read"}, moved : BOOLEAN, rows : Rows]

Init ==
  /\ db \in {[k \in Keys |-> [ver |-> 0, val |-> f[k]]] :
               f \in [Keys -> Values \cup {None}]}
  /\ writes = 0
  /\ phase = [i \in Instances |-> "down"]
  /\ serving = [i \in Instances |-> FALSE]
  /\ cache = [i \in Instances |-> Empty]
  /\ load = [i \in Instances |-> NotLoading]
  /\ pending = [i \in Instances |-> {}]
  /\ inbox = [i \in Instances |-> {}]
  /\ resync = [i \in Instances |-> NoResync]
  /\ incidents = 0

\* changes += 1, as the resync under way will find it.
Moved(i) == resync' = [resync EXCEPT ![i].moved = resync[i].step # "idle"]

\* The next write, by the seed or by an admin.
Seed(k) == [ver |-> writes + 1, val |-> Default]
Wish(v) == [ver |-> writes + 1, val |-> v]

Listening == {i \in Instances : phase[i] # "down"}

-----------------------------------------------------------------------------
(***************************************************************************)
(* init and loadFromDb.                                                    *)
(***************************************************************************)
Subscribe(i) ==
  /\ phase[i] = "down"
  /\ phase' = [phase EXCEPT ![i] = "subscribed"]
  /\ UNCHANGED <<db, writes, serving, cache, load, pending, inbox, resync, incidents>>

ReadSnapshot(i) ==
  /\ phase[i] = "subscribed"
  /\ phase' = [phase EXCEPT ![i] = "loading"]
  /\ load' = [load EXCEPT ![i] = [NotLoading EXCEPT !.rows = db, !.todo = Keys]]
  /\ UNCHANGED <<db, writes, serving, cache, pending, inbox, resync, incidents>>

\* The next key of the loop, while no seed of it is being written.
AtKey(i, k) ==
  /\ phase[i] = "loading"
  /\ load[i].seed = NoKey
  /\ k \in load[i].todo

\* An event has set the key since the boot began: the row read is not used.
KeepKey(i, k) ==
  /\ AtKey(i, k)
  /\ cache[i][k].val # None
  /\ load' = [load EXCEPT ![i] = [@ EXCEPT !.todo = load[i].todo \ {k}]]
  /\ UNCHANGED <<db, writes, phase, serving, cache, pending, inbox, resync, incidents>>

AdoptKey(i, k) ==
  /\ AtKey(i, k)
  /\ cache[i][k].val = None
  /\ load[i].rows[k].val \in Valid[i]
  /\ cache' = [cache EXCEPT ![i][k] = load[i].rows[k]]
  /\ load' = [load EXCEPT ![i] = [@ EXCEPT !.todo = load[i].todo \ {k}]]
  /\ UNCHANGED <<db, writes, phase, serving, pending, inbox, resync, incidents>>

\* No row, or one the schema refuses: the default is written in its place.
SeedKey(i, k) ==
  /\ AtKey(i, k)
  /\ cache[i][k].val = None
  /\ load[i].rows[k].val \notin Valid[i]
  /\ writes + incidents < MaxHappenings
  /\ writes' = writes + 1
  /\ db' = [db EXCEPT ![k] = Seed(k)]
  /\ load' = [load EXCEPT ![i] = [@ EXCEPT !.seed = k, !.written = Seed(k)]]
  /\ UNCHANGED <<phase, serving, cache, pending, inbox, resync, incidents>>

\* After the await: ??= keeps what an event has set in the meantime.
SeedDone(i) ==
  LET k == load[i].seed
  IN /\ k # NoKey
     /\ cache' = [cache EXCEPT ![i][k] =
                     IF cache[i][k].val = None THEN load[i].written ELSE @]
     /\ load' = [load EXCEPT ![i] =
                    [@ EXCEPT !.seed = NoKey, !.todo = load[i].todo \ {k}]]
     /\ UNCHANGED <<db, writes, phase, serving, pending, inbox, resync, incidents>>

\* The loop is through: the instance serves.  A reload counts as a change;
\* at the first load there is no resync yet that could tell.
FinishLoad(i) ==
  /\ phase[i] = "loading"
  /\ load[i].todo = {}
  /\ phase' = [phase EXCEPT ![i] = "up"]
  /\ serving' = [serving EXCEPT ![i] = TRUE]
  /\ load' = [load EXCEPT ![i] = NotLoading]
  /\ Moved(i)
  /\ UNCHANGED <<db, writes, cache, pending, inbox, incidents>>

\* The mutation resyncCaches, refused in production: empty the cache, load.
Reload(i) ==
  /\ phase[i] = "up"
  /\ writes + incidents < MaxHappenings
  /\ incidents' = incidents + 1
  /\ phase' = [phase EXCEPT ![i] = "subscribed"]
  /\ cache' = [cache EXCEPT ![i] = Empty]
  /\ UNCHANGED <<db, writes, serving, load, pending, inbox, resync>>

-----------------------------------------------------------------------------
(***************************************************************************)
(* set and reset: commit, then cache and publish.  resetMany is a reset of *)
(* each key it does not skip.                                              *)
(***************************************************************************)
Commit(i, k, v) ==
  /\ serving[i]
  /\ writes + incidents < MaxHappenings
  /\ writes' = writes + 1
  /\ db' = [db EXCEPT ![k] = Wish(v)]
  /\ pending' = [pending EXCEPT ![i] =
                   @ \cup {[key |-> k, cell |-> Served(Wish(v))]}]
  /\ UNCHANGED <<phase, serving, cache, load, inbox, resync, incidents>>

Set(i, k, v) == v \in Valid[i] /\ Commit(i, k, v)

Reset(i, k) == Commit(i, k, None)

\* The write is acknowledged: the cache takes the value, and the event goes
\* to every instance that listens now, the publisher among them.
Acknowledged(i, c) ==
  /\ c \in pending[i]
  /\ pending' = [pending EXCEPT ![i] = @ \ {c}]
  /\ cache' = [cache EXCEPT ![i][c.key] = c.cell]
  /\ inbox' = [j \in Instances |->
                 IF j \in Listening THEN inbox[j] \cup {c} ELSE inbox[j]]
  /\ Moved(i)
  /\ UNCHANGED <<db, writes, phase, serving, load, incidents>>

-----------------------------------------------------------------------------
(***************************************************************************)
(* applyExternalChange, and the pubsub.  Nothing orders the events of      *)
(* different publishers; the model orders none.  Any event may be lost.    *)
(***************************************************************************)
applyExternalChange_Unchecked(i, e) ==
  \/ /\ cache' = [cache EXCEPT ![i][e.key] = e.cell]
     /\ Moved(i)
  \/ /\ e.cell.val \notin Values
     /\ UNCHANGED <<cache, resync>>
  \* Fault: the event of an instance on another schema is believed.

applyExternalChange(i, e) ==
  \/ /\ e.cell.val \in Valid[i]
     /\ cache' = [cache EXCEPT ![i][e.key] = e.cell]
     /\ Moved(i)
  \/ /\ e.cell.val \notin Valid[i]
     /\ UNCHANGED <<cache, resync>>

Deliver(i, e) ==
  /\ e \in inbox[i]
  /\ inbox' = [inbox EXCEPT ![i] = @ \ {e}]
  /\ applyExternalChange(i, e)
  /\ UNCHANGED <<db, writes, phase, serving, load, pending, incidents>>

Lose(i, e) ==
  /\ e \in inbox[i]
  /\ inbox' = [inbox EXCEPT ![i] = @ \ {e}]
  /\ UNCHANGED <<db, writes, phase, serving, cache, load, pending, resync, incidents>>

-----------------------------------------------------------------------------
(***************************************************************************)
(* The resync every instance runs on a timer, one at a time.               *)
(***************************************************************************)
ResyncStart(i) ==
  /\ serving[i]
  /\ resync[i].step = "idle"
  /\ resync' = [resync EXCEPT ![i] = [NoResync EXCEPT !.step = "reading"]]
  /\ UNCHANGED <<db, writes, phase, serving, cache, load, pending, inbox, incidents>>

ResyncRead(i) ==
  /\ resync[i].step = "reading"
  /\ resync' = [resync EXCEPT ![i] = [@ EXCEPT !.step = "read", !.rows = db]]
  /\ UNCHANGED <<db, writes, phase, serving, cache, load, pending, inbox, incidents>>

\* The read failed: the cache stays, and the next interval tries again.
ResyncFails(i) ==
  /\ resync[i].step = "reading"
  /\ resync' = [resync EXCEPT ![i] = NoResync]
  /\ UNCHANGED <<db, writes, phase, serving, cache, load, pending, inbox, incidents>>

\* What a key becomes: a missing row is the default, a value the schema
\* refuses leaves what the cache holds.
Resynced_KeepsMissing(i, k) ==
  LET row == resync[i].rows[k]
  IN IF row.val \in Valid[i] THEN row ELSE cache[i][k]
  \* Fault: a missing row is taken for one that cannot be read.

Resynced(i, k) ==
  LET row == Served(resync[i].rows[k])
  IN IF row.val \in Valid[i] THEN row ELSE cache[i][k]

\* The swap, left out when no value differs.
Swap(i) ==
  IF \A k \in Keys : Resynced(i, k).val = cache[i][k].val
  THEN UNCHANGED cache
  ELSE cache' = [cache EXCEPT ![i] = [k \in Keys |-> Resynced(i, k)]]

\* A change since the read was begun drops the read.
ResyncApply_NotDropped(i) ==
  /\ resync[i].step = "read"
  /\ Swap(i)
  /\ resync' = [resync EXCEPT ![i] = NoResync]
  /\ UNCHANGED <<db, writes, phase, serving, load, pending, inbox, incidents>>
  \* Fault: no look at whether the cache has changed during the read.

ResyncApply(i) ==
  /\ resync[i].step = "read"
  /\ IF resync[i].moved THEN UNCHANGED cache ELSE Swap(i)
  /\ resync' = [resync EXCEPT ![i] = NoResync]
  /\ UNCHANGED <<db, writes, phase, serving, load, pending, inbox, incidents>>

-----------------------------------------------------------------------------
\* The process ends, cleanly or not: everything in its memory is gone.
Crash(i) ==
  /\ phase[i] # "down"
  /\ writes + incidents < MaxHappenings
  /\ incidents' = incidents + 1
  /\ phase' = [phase EXCEPT ![i] = "down"]
  /\ serving' = [serving EXCEPT ![i] = FALSE]
  /\ cache' = [cache EXCEPT ![i] = Empty]
  /\ load' = [load EXCEPT ![i] = NotLoading]
  /\ pending' = [pending EXCEPT ![i] = {}]
  /\ inbox' = [inbox EXCEPT ![i] = {}]
  /\ resync' = [resync EXCEPT ![i] = NoResync]
  /\ UNCHANGED <<db, writes>>

Boot(i) ==
  \/ Subscribe(i)
  \/ ReadSnapshot(i)
  \/ SeedDone(i)
  \/ FinishLoad(i)
  \/ \E k \in Keys : KeepKey(i, k) \/ AdoptKey(i, k) \/ SeedKey(i, k)

Resync(i) == ResyncStart(i) \/ ResyncRead(i) \/ ResyncFails(i) \/ ResyncApply(i)

Next ==
  \E i \in Instances :
    \/ Boot(i)
    \/ \E k \in Keys : \/ \E v \in Values : Set(i, k, v)
                       \/ Reset(i, k)
    \/ \E c \in pending[i] : Acknowledged(i, c)
    \/ \E e \in inbox[i] : Deliver(i, e) \/ Lose(i, e)
    \/ Resync(i)
    \/ Crash(i) \/ Reload(i)

Spec == Init /\ [][Next]_vars

-----------------------------------------------------------------------------
(***************************************************************************)
(* Fairness.  A boot goes on, acknowledged writes come back, an event is   *)
(* delivered or lost, the timer fires, and the database answers a read     *)
(* that is tried again and again.                                          *)
(***************************************************************************)
Fairness ==
  \A i \in Instances :
    /\ WF_vars(Boot(i))
    /\ WF_vars(\E c \in pending[i] : Acknowledged(i, c))
    /\ WF_vars(\E e \in inbox[i] : Deliver(i, e) \/ Lose(i, e))
    /\ WF_vars(ResyncStart(i))
    /\ SF_vars(ResyncRead(i))
    /\ WF_vars(ResyncApply(i))

FairSpec == Spec /\ Fairness

-----------------------------------------------------------------------------
(***************************************************************************)
(* The types.  An event never carries "no value": a reset is published as  *)
(* the default it leads to.                                                *)
(***************************************************************************)
TypeOK ==
  /\ db \in Rows
  /\ writes \in Vers
  /\ phase \in [Instances -> {"down", "subscribed", "loading", "up"}]
  /\ serving \in [Instances -> BOOLEAN]
  /\ cache \in [Instances -> Rows]
  /\ load \in [Instances -> Loads]
  /\ pending \in [Instances -> SUBSET Changes]
  /\ inbox \in [Instances -> SUBSET Changes]
  /\ resync \in [Instances -> Resyncs]
  /\ incidents \in 0..MaxHappenings

(***************************************************************************)
(* An instance that serves has a value its own schema accepts for every    *)
(* key, whatever rows it found at boot, whatever instances on another      *)
(* schema write and publish, and however the resync overlaps with them     *)
(* (loadFromDb, applyExternalChange, resync).                              *)
(***************************************************************************)
ServesValidValues ==
  \A i \in Instances : phase[i] = "up" =>
    \A k \in Keys : cache[i][k].val \in Valid[i]

(***************************************************************************)
(* A resync never replaces a value by an older one, although the rows it   *)
(* compares with are read some time before (PolicyService.ts:206).         *)
(***************************************************************************)
ResyncGoesForward ==
  [][\A i \in Instances :
       resync[i].step = "read" /\ resync'[i].step = "idle" /\ phase'[i] = "up"
         => \A k \in Keys : cache'[i][k].ver >= cache[i][k].ver]_vars

(***************************************************************************)
(* Once nobody changes anything any more, every instance that serves comes *)
(* to serve what the database says, whatever events were lost or came late *)
(* or in another order (the purpose of cacheResync.ts).  A key whose row   *)
(* the instance's schema refuses is left out: it may keep its value.       *)
(***************************************************************************)
InLine(i, k) ==
  LET row == Served(db[k])
  IN row.val \in Valid[i] => cache[i][k].val = row.val

EventuallyInLine ==
  <>[](\A i \in Instances : serving[i] => \A k \in Keys : InLine(i, k))

=============================================================================
