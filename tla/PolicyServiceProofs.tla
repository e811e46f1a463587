------------------------ MODULE PolicyServiceProofs ------------------------
(***************************************************************************)
(* Proofs about PolicyService for any number of instances, keys, values,   *)
(* writes and crashes, and any schemas.                                    *)
(***************************************************************************)
EXTENDS PolicyService, TLAPS

USE PolicyAssumption

-----------------------------------------------------------------------------
(***************************************************************************)
(* Types.                                                                  *)
(***************************************************************************)

\* What a row is served as is a cell of the same number, and has a value.
LEMMA ServedType ==
  ASSUME NEW row \in Cells
  PROVE  /\ Served(row) \in [ver : Vers, val : Values]
         /\ Served(row) \in Cells
         /\ Served(row).ver = row.ver
  BY DEF Served, Cells, Vers

\* The next write is a cell, whoever makes it.
LEMMA WriteType ==
  ASSUME TypeOK, writes + incidents < MaxHappenings, NEW k \in Keys, NEW v \in Values \cup {None}
  PROVE  /\ writes + 1 \in Vers
         /\ Seed(k) \in Cells
         /\ Wish(v) \in Cells
  BY DEF TypeOK, Seed, Wish, Cells, Vers, Rows

LEMMA EmptyType == Empty \in Rows /\ Unset \in Cells
  BY DEF Empty, Unset, Rows, Cells, Vers

\* A change of the cache is noted in the resync under way.
LEMMA MovedType ==
  ASSUME TypeOK, NEW i \in Instances, Moved(i)
  PROVE  resync' \in [Instances -> Resyncs]
  <1>1. [resync[i] EXCEPT !.moved = resync[i].step # "idle"] \in Resyncs
    BY DEF TypeOK, Resyncs
  <1> QED
    BY <1>1 DEF TypeOK, Moved

\* One cached value replaced.
LEMMA CacheType ==
  ASSUME TypeOK, NEW i \in Instances, NEW k \in Keys, NEW c \in Cells,
         cache' = [cache EXCEPT ![i][k] = c]
  PROVE  cache' \in [Instances -> Rows]
  BY DEF TypeOK, Rows

\* The load record after a step of the loop.
LEMMA LoadType ==
  ASSUME TypeOK, NEW i \in Instances, NEW l \in Loads,
         load' = [load EXCEPT ![i] = l]
  PROVE  load' \in [Instances -> Loads]
  BY DEF TypeOK

LEMMA TypeStep ==
  ASSUME TypeOK, [Next]_vars
  PROVE  TypeOK'
<1>1. CASE UNCHANGED vars
  BY <1>1 DEF TypeOK, vars
<1>2. ASSUME NEW i \in Instances, Subscribe(i) PROVE TypeOK'
  BY <1>2 DEF TypeOK, Subscribe
<1>3. ASSUME NEW i \in Instances, ReadSnapshot(i) PROVE TypeOK'
  <2>1. [NotLoading EXCEPT !.rows = db, !.todo = Keys] \in Loads
    BY EmptyType DEF TypeOK, NotLoading, Loads
  <2> QED
    BY <1>3, <2>1 DEF TypeOK, ReadSnapshot
<1>4. ASSUME NEW i \in Instances, SeedDone(i) PROVE TypeOK'
  <2>1. load[i] \in Loads /\ load[i].seed \in Keys /\ cache[i] \in Rows
    BY <1>4 DEF TypeOK, SeedDone, Loads
  <2>2. [load[i] EXCEPT !.seed = NoKey, !.todo = load[i].todo \ {load[i].seed}] \in Loads
    BY <2>1 DEF Loads
  <2>3. load' \in [Instances -> Loads]
    BY <1>4, <2>2 DEF TypeOK, SeedDone
  <2>4. (IF cache[i][load[i].seed].val = None THEN load[i].written
         ELSE cache[i][load[i].seed]) \in Cells
    BY <2>1 DEF Loads, Rows
  <2>5. cache' = [cache EXCEPT ![i][load[i].seed] =
                    IF cache[i][load[i].seed].val = None THEN load[i].written
                    ELSE cache[i][load[i].seed]]
    BY <1>4, <2>1 DEF SeedDone, TypeOK
  <2>6. cache' \in [Instances -> Rows]
    BY <2>1, <2>4, <2>5, CacheType
  <2> QED
    BY <1>4, <2>3, <2>6 DEF TypeOK, SeedDone
<1>5. ASSUME NEW i \in Instances, FinishLoad(i) PROVE TypeOK'
  <2>1. NotLoading \in Loads
    BY EmptyType DEF NotLoading, Loads
  <2>2. resync' \in [Instances -> Resyncs]
    BY <1>5, MovedType DEF FinishLoad
  <2> QED
    BY <1>5, <2>1, <2>2 DEF TypeOK, FinishLoad
<1>6. ASSUME NEW i \in Instances, NEW k \in Keys, KeepKey(i, k) PROVE TypeOK'
  <2>1. [load[i] EXCEPT !.todo = load[i].todo \ {k}] \in Loads
    BY DEF TypeOK, Loads
  <2> QED
    BY <1>6, <2>1 DEF TypeOK, KeepKey
<1>7. ASSUME NEW i \in Instances, NEW k \in Keys, AdoptKey(i, k) PROVE TypeOK'
  <2>1. [load[i] EXCEPT !.todo = load[i].todo \ {k}] \in Loads
    BY DEF TypeOK, Loads
  <2>2. load[i].rows[k] \in Cells
    BY DEF TypeOK, Loads, Rows
  <2>3. cache' \in [Instances -> Rows]
    BY <1>7, <2>2, CacheType DEF AdoptKey
  <2> QED
    BY <1>7, <2>1, <2>3 DEF TypeOK, AdoptKey
<1>8. ASSUME NEW i \in Instances, NEW k \in Keys, SeedKey(i, k) PROVE TypeOK'
  <2>1. Seed(k) \in Cells /\ writes' \in Vers
    BY <1>8, WriteType DEF SeedKey
  <2>2. [load[i] EXCEPT !.seed = k, !.written = Seed(k)] \in Loads
    BY <2>1 DEF TypeOK, Loads
  <2>3. db' \in Rows
    BY <1>8, <2>1 DEF TypeOK, SeedKey, Rows
  <2>4. load' \in [Instances -> Loads]
    BY <1>8, <2>2 DEF TypeOK, SeedKey
  <2> QED
    BY <1>8, <2>1, <2>3, <2>4 DEF TypeOK, SeedKey
<1>9. ASSUME NEW i \in Instances, NEW k \in Keys, NEW v \in Values \cup {None},
             Commit(i, k, v)
      PROVE TypeOK'
  <2>1. Wish(v) \in Cells /\ writes' \in Vers
    BY <1>9, WriteType DEF Commit
  <2>2. [key |-> k, cell |-> Served(Wish(v))] \in Changes
    BY <2>1, ServedType DEF Changes
  <2>3. db' \in Rows
    BY <1>9, <2>1 DEF TypeOK, Commit, Rows
  <2>4. pending' \in [Instances -> SUBSET Changes]
    BY <1>9, <2>2 DEF TypeOK, Commit
  <2> QED
    BY <1>9, <2>1, <2>3, <2>4 DEF TypeOK, Commit
<1>10. ASSUME NEW i \in Instances, NEW c \in pending[i], Acknowledged(i, c)
       PROVE TypeOK'
  <2>1. c \in Changes
    BY DEF TypeOK
  <2>2. c.cell \in Cells /\ c.key \in Keys
    BY <2>1 DEF Changes, Cells
  <2>3. cache' \in [Instances -> Rows]
    BY <1>10, <2>2, CacheType DEF Acknowledged
  <2>4. resync' \in [Instances -> Resyncs]
    BY <1>10, MovedType DEF Acknowledged
  <2>5. pending' \in [Instances -> SUBSET Changes]
    BY <1>10 DEF TypeOK, Acknowledged
  <2>6. inbox' \in [Instances -> SUBSET Changes]
    BY <1>10, <2>1 DEF TypeOK, Acknowledged
  <2> QED
    BY <1>10, <2>3, <2>4, <2>5, <2>6 DEF TypeOK, Acknowledged
<1>11. ASSUME NEW i \in Instances, NEW e \in inbox[i], Deliver(i, e)
       PROVE TypeOK'
  <2>1. e.cell \in Cells /\ e.key \in Keys
    BY DEF TypeOK, Changes, Cells
  <2>2. inbox' \in [Instances -> SUBSET Changes]
    BY <1>11 DEF TypeOK, Deliver
  <2>3. CASE cache' = [cache EXCEPT ![i][e.key] = e.cell] /\ Moved(i)
    <3>1. cache' \in [Instances -> Rows]
      BY <2>1, <2>3, CacheType
    <3>2. resync' \in [Instances -> Resyncs]
      BY <2>3, MovedType
    <3> QED
      BY <1>11, <2>2, <3>1, <3>2 DEF TypeOK, Deliver
  <2>4. CASE UNCHANGED <<cache, resync>>
    BY <1>11, <2>2, <2>4 DEF TypeOK, Deliver
  <2> QED
    BY <1>11, <2>3, <2>4 DEF Deliver, applyExternalChange
<1>12. ASSUME NEW i \in Instances, NEW e \in inbox[i], Lose(i, e)
       PROVE TypeOK'
  BY <1>12 DEF TypeOK, Lose
<1>13. ASSUME NEW i \in Instances, Resync(i) PROVE TypeOK'
  <2>1. NoResync \in Resyncs /\ [NoResync EXCEPT !.step = "reading"] \in Resyncs
    BY EmptyType DEF NoResync, Resyncs
  <2>2. CASE ResyncStart(i)
    BY <2>1, <2>2 DEF TypeOK, ResyncStart
  <2>3. CASE ResyncRead(i)
    <3>1. [resync[i] EXCEPT !.step = "read", !.rows = db] \in Resyncs
      BY DEF TypeOK, Resyncs
    <3> QED
      BY <2>3, <3>1 DEF TypeOK, ResyncRead
  <2>4. CASE ResyncFails(i)
    BY <2>1, <2>4 DEF TypeOK, ResyncFails
  <2>5. CASE ResyncApply(i)
    <3>1. ASSUME NEW k \in Keys PROVE Resynced(i, k) \in Cells
      <4>1. resync[i].rows[k] \in Cells /\ cache[i][k] \in Cells
        BY DEF TypeOK, Resyncs, Rows
      <4> QED
        BY <4>1, ServedType DEF Resynced
    <3>2. [k \in Keys |-> Resynced(i, k)] \in Rows
      BY <3>1 DEF Rows
    <3>3. cache' \in [Instances -> Rows]
      BY <2>5, <3>2 DEF TypeOK, ResyncApply, Swap
    <3> QED
      BY <2>1, <2>5, <3>3 DEF TypeOK, ResyncApply
  <2> QED
    BY <1>13, <2>2, <2>3, <2>4, <2>5 DEF Resync
<1>14. ASSUME NEW i \in Instances, Crash(i) PROVE TypeOK'
  <2>1. NoResync \in Resyncs /\ NotLoading \in Loads
    BY EmptyType DEF NoResync, Resyncs, NotLoading, Loads
  <2> QED
    BY <1>14, <2>1, EmptyType DEF TypeOK, Crash, Vers
<1>15. ASSUME NEW i \in Instances, Reload(i) PROVE TypeOK'
  BY <1>15, EmptyType DEF TypeOK, Reload, Vers
<1> QED
  BY <1>1, <1>2, <1>3, <1>4, <1>5, <1>6, <1>7, <1>8, <1>9, <1>10, <1>11,
     <1>12, <1>13, <1>14, <1>15
     DEF Next, Boot, Set, Reset

-----------------------------------------------------------------------------
(***************************************************************************)
(* Why a resync never goes back.  Nothing an instance holds of a key is    *)
(* newer than the key's row: it was all committed first.  So the rows a    *)
(* resync reads are at least as new as the cache at that moment, and as    *)
(* long as the cache is not moved, they stay so.  While an instance is up  *)
(* no cache is changed without a note, and a load that ends is one too.    *)
(***************************************************************************)
NothingAheadOfItsRow ==
  \A i \in Instances :
    /\ \A k \in Keys : /\ cache[i][k].ver <= db[k].ver
                       /\ load[i].rows[k].ver <= db[k].ver
                       /\ resync[i].rows[k].ver <= db[k].ver
    /\ \A c \in pending[i] \cup inbox[i] : c.cell.ver <= db[c.key].ver
    /\ load[i].seed \in Keys => load[i].written.ver <= db[load[i].seed].ver

RowsAreCommitted == \A k \in Keys : db[k].ver <= writes

SeedsWhileLoading ==
  \A i \in Instances : load[i].seed \in Keys => phase[i] = "loading"

UnmovedReadIsNewer ==
  \A i \in Instances :
    phase[i] = "up" /\ resync[i].step = "read" /\ ~resync[i].moved
      => \A k \in Keys : cache[i][k].ver <= resync[i].rows[k].ver

VInv ==
  /\ TypeOK
  /\ NothingAheadOfItsRow
  /\ RowsAreCommitted
  /\ SeedsWhileLoading
  /\ UnmovedReadIsNewer

LEMMA InitTypeOK == Init => TypeOK
<1> SUFFICES ASSUME Init PROVE TypeOK
  OBVIOUS
<1>1. db \in Rows
  BY DEF Init, Rows, Cells, Vers
<1>2. NoResync \in Resyncs /\ NotLoading \in Loads
  BY EmptyType DEF NoResync, Resyncs, NotLoading, Loads
<1> QED
  BY <1>1, <1>2, EmptyType DEF Init, TypeOK, Vers

LEMMA InitVInv == Init => VInv
<1> SUFFICES ASSUME Init PROVE VInv
  OBVIOUS
<1>1. \A k \in Keys : db[k].ver = 0 /\ Empty[k].ver = 0
  BY DEF Init, Empty, Unset
<1>2. \A i \in Instances : /\ cache[i] = Empty
                           /\ load[i] = NotLoading
                           /\ resync[i] = NoResync
                           /\ pending[i] = {} /\ inbox[i] = {}
                           /\ phase[i] = "down" /\ ~serving[i]
  BY DEF Init
<1>3. /\ NotLoading.rows = Empty /\ NotLoading.seed = NoKey
      /\ NoResync.rows = Empty /\ NoResync.step = "idle"
  BY DEF NotLoading, NoResync
<1>4. NothingAheadOfItsRow
  BY <1>1, <1>2, <1>3 DEF NothingAheadOfItsRow
<1>5. RowsAreCommitted
  BY <1>1 DEF Init, RowsAreCommitted
<1>6. SeedsWhileLoading /\ UnmovedReadIsNewer
  BY <1>2, <1>3 DEF SeedsWhileLoading, UnmovedReadIsNewer
<1> QED
  BY InitTypeOK, <1>4, <1>5, <1>6 DEF VInv

\* Rows only get newer, so what was not ahead of its row stays behind it.
LEMMA RowsGrow ==
  ASSUME VInv, [Next]_vars
  PROVE  /\ \A k \in Keys : db[k].ver <= db'[k].ver
         /\ RowsAreCommitted'
<1>0. TypeOK'
  BY TypeStep DEF VInv
<1>1. \A k \in Keys : db[k].ver \in Nat /\ db[k].ver <= writes
  BY DEF VInv, TypeOK, Rows, Cells, Vers, RowsAreCommitted
<1>2. writes \in Nat
  BY DEF VInv, TypeOK, Vers
<1>3. CASE UNCHANGED <<db, writes>>
  BY <1>1, <1>2, <1>3 DEF RowsAreCommitted
<1>4. ASSUME NEW k \in Keys, NEW c, c.ver = writes + 1,
             db' = [db EXCEPT ![k] = c], writes' = writes + 1
      PROVE  /\ \A q \in Keys : db[q].ver <= db'[q].ver
             /\ RowsAreCommitted'
  <2>1. \A q \in Keys : db'[q] = IF q = k THEN c ELSE db[q]
    BY <1>4 DEF VInv, TypeOK, Rows
  <2> QED
    BY <1>1, <1>2, <1>4, <2>1 DEF RowsAreCommitted
<1>5. ASSUME NEW i \in Instances, NEW k \in Keys, SeedKey(i, k)
      PROVE  /\ \A q \in Keys : db[q].ver <= db'[q].ver
             /\ RowsAreCommitted'
  <2>1. Seed(k).ver = writes + 1
    BY DEF Seed
  <2> QED
    BY <1>4, <1>5, <2>1 DEF SeedKey
<1>6. ASSUME NEW i \in Instances, NEW k \in Keys, NEW v, Commit(i, k, v)
      PROVE  /\ \A q \in Keys : db[q].ver <= db'[q].ver
             /\ RowsAreCommitted'
  <2>1. Wish(v).ver = writes + 1
    BY DEF Wish
  <2> QED
    BY <1>4, <1>6, <2>1 DEF Commit
<1> QED
  BY <1>3, <1>5, <1>6
     DEF Next, vars, Boot, Subscribe, ReadSnapshot, SeedDone, FinishLoad,
         KeepKey, AdoptKey, Set, Reset, Acknowledged, Deliver, Lose, Resync,
         ResyncStart, ResyncRead, ResyncFails, ResyncApply, Crash, Reload

\* Each thing an instance holds is what it held, or is not ahead of its row.
LEMMA NothingAheadStep ==
  ASSUME VInv, [Next]_vars,
         \A i \in Instances, k \in Keys :
           /\ \/ cache'[i][k] = cache[i][k]
              \/ cache'[i][k].ver <= db'[k].ver
           /\ \/ load'[i].rows[k] = load[i].rows[k]
              \/ load'[i].rows[k].ver <= db'[k].ver
           /\ \/ resync'[i].rows[k] = resync[i].rows[k]
              \/ resync'[i].rows[k].ver <= db'[k].ver,
         \A i \in Instances : \A c \in pending'[i] \cup inbox'[i] :
           \/ \E j \in Instances : c \in pending[j] \cup inbox[j]
           \/ c.cell.ver <= db'[c.key].ver,
         \A i \in Instances : load'[i].seed \in Keys =>
           \/ load'[i].seed = load[i].seed /\ load'[i].written = load[i].written
           \/ load'[i].written.ver <= db'[load'[i].seed].ver
  PROVE  NothingAheadOfItsRow'
<1>1. \A k \in Keys : /\ db[k].ver \in Nat /\ db'[k].ver \in Nat
                      /\ db[k].ver <= db'[k].ver
  BY TypeStep, RowsGrow DEF VInv, TypeOK, Rows, Cells, Vers
<1>2. ASSUME NEW i \in Instances, NEW k \in Keys
      PROVE  /\ cache'[i][k].ver <= db'[k].ver
             /\ load'[i].rows[k].ver <= db'[k].ver
             /\ resync'[i].rows[k].ver <= db'[k].ver
  <2>1. /\ cache[i][k].ver \in Nat
        /\ load[i].rows[k].ver \in Nat
        /\ resync[i].rows[k].ver \in Nat
    BY DEF VInv, TypeOK, Rows, Cells, Vers, Loads, Resyncs
  <2>2. /\ cache[i][k].ver <= db[k].ver
        /\ load[i].rows[k].ver <= db[k].ver
        /\ resync[i].rows[k].ver <= db[k].ver
    BY DEF VInv, NothingAheadOfItsRow
  <2> QED
    BY <1>1, <2>1, <2>2
<1>3. ASSUME NEW i \in Instances, NEW c \in pending'[i] \cup inbox'[i]
      PROVE  c.cell.ver <= db'[c.key].ver
  <2>1. ASSUME NEW j \in Instances, c \in pending[j] \cup inbox[j]
        PROVE  c.cell.ver <= db'[c.key].ver
    <3>1. c.key \in Keys /\ c.cell.ver \in Nat
      BY <2>1 DEF VInv, TypeOK, Changes, Vers
    <3>2. c.cell.ver <= db[c.key].ver
      BY <2>1 DEF VInv, NothingAheadOfItsRow
    <3> QED
      BY <1>1, <3>1, <3>2
  <2> QED
    BY <2>1
<1>4. ASSUME NEW i \in Instances, load'[i].seed \in Keys
      PROVE  load'[i].written.ver <= db'[load'[i].seed].ver
  <2>1. load[i].written.ver \in Nat
    BY DEF VInv, TypeOK, Loads, Cells, Vers
  <2>2. load[i].seed \in Keys => load[i].written.ver <= db[load[i].seed].ver
    BY DEF VInv, NothingAheadOfItsRow
  <2> QED
    BY <1>1, <1>4, <2>1, <2>2
<1> QED
  BY <1>2, <1>3, <1>4 DEF NothingAheadOfItsRow

\* What a resync puts into the cache is what it read, or what is there.
LEMMA ResyncedVer ==
  ASSUME NEW i \in Instances, NEW k \in Keys
  PROVE  \/ Resynced(i, k).ver = resync[i].rows[k].ver
         \/ Resynced(i, k) = cache[i][k]
  BY DEF Resynced, Served

\* Every step keeps the invariant: what the instances hold ...
LEMMA AheadInvariant ==
  ASSUME VInv, [Next]_vars
  PROVE  NothingAheadOfItsRow'
<1> USE DEF VInv
<1>t. /\ cache \in [Instances -> Rows]
      /\ load \in [Instances -> Loads]
      /\ resync \in [Instances -> Resyncs]
      /\ pending \in [Instances -> SUBSET Changes]
      /\ inbox \in [Instances -> SUBSET Changes]
      /\ db \in Rows
  BY DEF TypeOK
<1>a. \A i \in Instances, k \in Keys : /\ cache[i][k].ver <= db[k].ver
                                       /\ load[i].rows[k].ver <= db[k].ver
                                       /\ resync[i].rows[k].ver <= db[k].ver
  BY DEF NothingAheadOfItsRow
<1>b. \A k \in Keys : db[k].ver \in Nat /\ 0 <= db[k].ver /\ db[k].ver <= db[k].ver
  BY <1>t DEF Rows, Cells, Vers
<1>e. \A k \in Keys : Empty[k].ver = 0
  BY DEF Empty, Unset
<1>1. CASE UNCHANGED <<cache, load, resync, pending, inbox>>
  BY <1>1, NothingAheadStep
<1>2. ASSUME NEW i \in Instances, ReadSnapshot(i) PROVE NothingAheadOfItsRow'
  <2>1. \A j \in Instances : load'[j] =
          IF j = i THEN [NotLoading EXCEPT !.rows = db, !.todo = Keys] ELSE load[j]
    BY <1>2, <1>t DEF ReadSnapshot
  <2>2. /\ [NotLoading EXCEPT !.rows = db, !.todo = Keys].rows = db
        /\ [NotLoading EXCEPT !.rows = db, !.todo = Keys].seed = NoKey
    BY DEF NotLoading
  <2>3. UNCHANGED <<db, cache, resync, pending, inbox>>
    BY <1>2 DEF ReadSnapshot
  <2> QED
    BY <1>b, <2>1, <2>2, <2>3, NothingAheadStep
<1>3. ASSUME NEW i \in Instances, SeedDone(i) PROVE NothingAheadOfItsRow'
  <2> DEFINE k == load[i].seed
  <2>1. k \in Keys /\ load[i].written.ver <= db[k].ver
    BY <1>3, <1>t DEF SeedDone, Loads, NothingAheadOfItsRow
  <2>2. UNCHANGED <<db, resync, pending, inbox>>
    BY <1>3 DEF SeedDone
  <2>3. \A j \in Instances : load'[j] =
          IF j = i THEN [load[i] EXCEPT !.seed = NoKey, !.todo = load[i].todo \ {k}]
          ELSE load[j]
    BY <1>3, <1>t DEF SeedDone
  <2>4. [load[i] EXCEPT !.seed = NoKey, !.todo = load[i].todo \ {k}].rows = load[i].rows
        /\ [load[i] EXCEPT !.seed = NoKey, !.todo = load[i].todo \ {k}].seed = NoKey
    BY <1>t DEF Loads
  <2>5. \A j \in Instances, q \in Keys :
          cache'[j][q] = cache[j][q] \/ (q = k /\ cache'[j][q] = load[i].written)
    BY <1>3, <1>t, <2>1 DEF SeedDone, Rows
  <2> HIDE DEF k
  <2> QED
    BY <2>1, <2>2, <2>3, <2>4, <2>5, NothingAheadStep
<1>4. ASSUME NEW i \in Instances, FinishLoad(i) \/ Crash(i) \/ Reload(i)
      PROVE  NothingAheadOfItsRow'
  <2>1. \A j \in Instances :
          /\ load'[j] = load[j] \/ load'[j] = NotLoading
          /\ resync'[j].rows = resync[j].rows \/ resync'[j] = NoResync
          /\ cache'[j] = cache[j] \/ cache'[j] = Empty
          /\ pending'[j] \subseteq pending[j] /\ inbox'[j] \subseteq inbox[j]
    <3>1. CASE FinishLoad(i)
      BY <1>t, <3>1 DEF FinishLoad, Moved, Resyncs
    <3>2. CASE Crash(i)
      BY <1>t, <3>2 DEF Crash
    <3>3. CASE Reload(i)
      BY <1>t, <3>3 DEF Reload
    <3> QED
      BY <1>4, <3>1, <3>2, <3>3
  <2>2. db' = db
    BY <1>4 DEF FinishLoad, Crash, Reload
  <2>3. NotLoading.rows = Empty /\ NotLoading.seed = NoKey /\ NoResync.rows = Empty
    BY DEF NotLoading, NoResync
  <2> QED
    BY <1>b, <1>e, <2>1, <2>2, <2>3, NothingAheadStep
<1>5. ASSUME NEW i \in Instances, NEW k \in Keys, KeepKey(i, k) \/ AdoptKey(i, k)
      PROVE  NothingAheadOfItsRow'
  <2>1. UNCHANGED <<db, resync, pending, inbox>>
    BY <1>5 DEF KeepKey, AdoptKey
  <2>2. \A j \in Instances : load'[j] =
          IF j = i THEN [load[i] EXCEPT !.todo = load[i].todo \ {k}] ELSE load[j]
    BY <1>5, <1>t DEF KeepKey, AdoptKey
  <2>3. [load[i] EXCEPT !.todo = load[i].todo \ {k}].rows = load[i].rows
        /\ [load[i] EXCEPT !.todo = load[i].todo \ {k}].seed = load[i].seed
        /\ [load[i] EXCEPT !.todo = load[i].todo \ {k}].written = load[i].written
    BY <1>t DEF Loads
  <2>4. \A j \in Instances, q \in Keys :
          \/ cache'[j][q] = cache[j][q]
          \/ j = i /\ cache'[j][q] = load[i].rows[q]
    BY <1>5, <1>t DEF KeepKey, AdoptKey, Rows
  <2> QED
    BY <1>a, <2>1, <2>2, <2>3, <2>4, NothingAheadStep
<1>6. ASSUME NEW i \in Instances, NEW k \in Keys, SeedKey(i, k)
      PROVE  NothingAheadOfItsRow'
  <2>1. UNCHANGED <<cache, resync, pending, inbox>>
    BY <1>6 DEF SeedKey
  <2>2. db'[k] = Seed(k) /\ Seed(k).ver = writes + 1 /\ writes \in Nat
    BY <1>6, <1>t DEF SeedKey, Rows, Seed, TypeOK, Vers
  <2>3. \A j \in Instances : load'[j] =
          IF j = i THEN [load[i] EXCEPT !.seed = k, !.written = Seed(k)] ELSE load[j]
    BY <1>6, <1>t DEF SeedKey
  <2>4. [load[i] EXCEPT !.seed = k, !.written = Seed(k)].rows = load[i].rows
        /\ [load[i] EXCEPT !.seed = k, !.written = Seed(k)].seed = k
        /\ [load[i] EXCEPT !.seed = k, !.written = Seed(k)].written = Seed(k)
    BY <1>t DEF Loads
  <2>5. load'[i].seed = k /\ load'[i].written.ver <= db'[k].ver
    <3>1. load'[i].seed = k /\ load'[i].written = Seed(k)
      BY <2>3, <2>4
    <3>2. db'[k].ver \in Nat /\ db'[k].ver = Seed(k).ver
      BY <2>2
    <3> QED
      BY <3>1, <3>2
  <2>6. \A j \in Instances : /\ load'[j].rows = load[j].rows
                             /\ j # i => load'[j] = load[j]
    BY <2>3, <2>4
  <2> QED
    BY <2>1, <2>5, <2>6, NothingAheadStep
<1>7. ASSUME NEW i \in Instances, NEW k \in Keys, NEW v \in Values \cup {None},
             Commit(i, k, v)
      PROVE  NothingAheadOfItsRow'
  <2>1. UNCHANGED <<cache, load, resync, inbox>>
    BY <1>7 DEF Commit
  <2>2. db'[k] = Wish(v) /\ Wish(v).ver = writes + 1 /\ writes \in Nat
    BY <1>7, <1>t DEF Commit, Rows, Wish, TypeOK, Vers
  <2>3. Served(Wish(v)).ver = writes + 1
    BY <1>7, WriteType, ServedType, <2>2 DEF Commit
  <2>4. \A j \in Instances : \A c \in pending'[j] :
          c \in pending[j] \/ (c.key = k /\ c.cell.ver = writes + 1)
    BY <1>7, <1>t, <2>3 DEF Commit
  <2> QED
    BY <2>1, <2>2, <2>4, NothingAheadStep
<1>8. ASSUME NEW i \in Instances, NEW c \in pending[i], Acknowledged(i, c)
      PROVE  NothingAheadOfItsRow'
  <2>1. db' = db /\ load' = load
    BY <1>8 DEF Acknowledged
  <2>2. c.key \in Keys /\ c.cell.ver <= db[c.key].ver
    BY <1>t DEF Changes, NothingAheadOfItsRow
  <2>3. \A j \in Instances : resync'[j].rows = resync[j].rows
    BY <1>8, <1>t DEF Acknowledged, Moved, Resyncs
  <2>4. \A j \in Instances, q \in Keys :
          \/ cache'[j][q] = cache[j][q]
          \/ q = c.key /\ cache'[j][q] = c.cell
    BY <1>8, <1>t, <2>2 DEF Acknowledged, Rows
  <2>5. \A j \in Instances : /\ pending'[j] \subseteq pending[j]
                             /\ inbox'[j] \subseteq inbox[j] \cup {c}
    BY <1>8, <1>t DEF Acknowledged
  <2> QED
    BY <2>1, <2>2, <2>3, <2>4, <2>5, NothingAheadStep
<1>9. ASSUME NEW i \in Instances, NEW e \in inbox[i], Deliver(i, e) \/ Lose(i, e)
      PROVE  NothingAheadOfItsRow'
  <2>1. UNCHANGED <<db, load, pending>>
    BY <1>9 DEF Deliver, Lose
  <2>2. e.key \in Keys /\ e.cell.ver <= db[e.key].ver
    BY <1>t DEF Changes, NothingAheadOfItsRow
  <2>3. \A j \in Instances : resync'[j].rows = resync[j].rows
    BY <1>9, <1>t DEF Deliver, Lose, applyExternalChange, Moved, Resyncs
  <2>4. \A j \in Instances, q \in Keys :
          \/ cache'[j][q] = cache[j][q]
          \/ q = e.key /\ cache'[j][q] = e.cell
    <3>1. CASE cache' = cache
      BY <3>1
    <3>2. CASE cache' = [cache EXCEPT ![i][e.key] = e.cell]
      BY <1>t, <2>2, <3>2 DEF Rows
    <3> QED
      BY <1>9, <3>1, <3>2 DEF Deliver, Lose, applyExternalChange
  <2>5. \A j \in Instances : inbox'[j] \subseteq inbox[j]
    BY <1>9, <1>t DEF Deliver, Lose
  <2> QED
    BY <2>1, <2>2, <2>3, <2>4, <2>5, NothingAheadStep
<1>10. ASSUME NEW i \in Instances, Resync(i) PROVE NothingAheadOfItsRow'
  <2>1. UNCHANGED <<db, load, pending, inbox>>
    BY <1>10 DEF Resync, ResyncStart, ResyncRead, ResyncFails, ResyncApply
  <2>2. \A j \in Instances : \/ resync'[j].rows = resync[j].rows
                             \/ resync'[j].rows = Empty
                             \/ resync'[j].rows = db
    <3>1. /\ NoResync.rows = Empty
          /\ [NoResync EXCEPT !.step = "reading"].rows = Empty
          /\ [resync[i] EXCEPT !.step = "read", !.rows = db].rows = db
      BY <1>t DEF NoResync, Resyncs
    <3> QED
      BY <1>10, <1>t, <3>1
         DEF Resync, ResyncStart, ResyncRead, ResyncFails, ResyncApply
  <2>3. \A j \in Instances, q \in Keys :
          \/ cache'[j][q] = cache[j][q]
          \/ j = i /\ cache'[j][q] = Resynced(i, q)
    BY <1>10, <1>t
       DEF Resync, ResyncStart, ResyncRead, ResyncFails, ResyncApply, Swap
  <2>4. \A q \in Keys : Resynced(i, q).ver <= db[q].ver
    BY <1>a, ResyncedVer
  <2> QED
    BY <1>b, <1>e, <2>1, <2>2, <2>3, <2>4, NothingAheadStep
<1> QED
  BY <1>1, <1>2, <1>3, <1>4, <1>5, <1>6, <1>7, <1>8, <1>9, <1>10
     DEF Next, vars, Boot, Set, Reset, Subscribe

\* ... when a seed is being written ...
LEMMA SeedInvariant ==
  ASSUME TypeOK, SeedsWhileLoading, [Next]_vars
  PROVE  SeedsWhileLoading'
<1> USE DEF SeedsWhileLoading
<1>t. /\ phase \in [Instances -> {"down", "subscribed", "loading", "up"}]
      /\ load \in [Instances -> Loads]
  BY DEF TypeOK
<1>n. NotLoading.seed = NoKey
  BY DEF NotLoading
<1>1. CASE UNCHANGED <<phase, load>>
  BY <1>1
<1>2. ASSUME NEW i \in Instances, Subscribe(i) \/ Reload(i) PROVE SeedsWhileLoading'
  BY <1>2, <1>t DEF Subscribe, Reload
<1>3. ASSUME NEW i \in Instances, ReadSnapshot(i) PROVE SeedsWhileLoading'
  <2>1. [NotLoading EXCEPT !.rows = db, !.todo = Keys].seed = NoKey
    BY DEF NotLoading
  <2> QED
    BY <1>3, <1>t, <2>1 DEF ReadSnapshot
<1>4. ASSUME NEW i \in Instances, SeedDone(i) PROVE SeedsWhileLoading'
  <2>1. [load[i] EXCEPT !.seed = NoKey,
                        !.todo = load[i].todo \ {load[i].seed}].seed = NoKey
    BY <1>t DEF Loads
  <2> QED
    BY <1>4, <1>t, <2>1 DEF SeedDone
<1>5. ASSUME NEW i \in Instances, FinishLoad(i) \/ Crash(i) PROVE SeedsWhileLoading'
  BY <1>5, <1>t, <1>n DEF FinishLoad, Crash
<1>6. ASSUME NEW i \in Instances, NEW k \in Keys,
             KeepKey(i, k) \/ AdoptKey(i, k) \/ SeedKey(i, k)
      PROVE  SeedsWhileLoading'
  <2>1. phase[i] = "loading" /\ UNCHANGED phase
    BY <1>6 DEF KeepKey, AdoptKey, SeedKey, AtKey
  <2>2. \A j \in Instances : j # i => load'[j] = load[j]
    BY <1>6, <1>t DEF KeepKey, AdoptKey, SeedKey
  <2> QED
    BY <2>1, <2>2
<1>7. ASSUME NEW i \in Instances, Resync(i) PROVE SeedsWhileLoading'
  BY <1>1, <1>7 DEF Resync, ResyncStart, ResyncRead, ResyncFails, ResyncApply
<1> QED
  BY <1>1, <1>2, <1>3, <1>4, <1>5, <1>6, <1>7
     DEF Next, vars, Boot, Set, Reset, Commit, Lose, Acknowledged, Deliver

\* ... and what an unmoved resync has read.
LEMMA UnmovedInvariant ==
  ASSUME VInv, [Next]_vars
  PROVE  UnmovedReadIsNewer'
<1> USE DEF VInv
<1>t. /\ cache \in [Instances -> Rows]
      /\ resync \in [Instances -> Resyncs]
      /\ phase \in [Instances -> {"down", "subscribed", "loading", "up"}]
  BY DEF TypeOK
<1>n. NoResync.step = "idle"
  BY DEF NoResync
<1>0. ASSUME NEW i \in Instances,
             \A j \in Instances : j # i =>
               /\ phase'[j] = phase[j] /\ resync'[j] = resync[j]
               /\ cache'[j] = cache[j],
             phase'[i] = "up" /\ resync'[i].step = "read" /\ ~resync'[i].moved
               => \A k \in Keys : cache'[i][k].ver <= resync'[i].rows[k].ver
      PROVE  UnmovedReadIsNewer'
  BY <1>0 DEF UnmovedReadIsNewer
<1>1. CASE UNCHANGED <<phase, cache, resync>>
  BY <1>1 DEF UnmovedReadIsNewer
<1>2. ASSUME NEW i \in Instances,
             Subscribe(i) \/ ReadSnapshot(i) \/ Reload(i) \/ Crash(i)
      PROVE  UnmovedReadIsNewer'
  <2>1. phase'[i] # "up"
    BY <1>2, <1>t DEF Subscribe, ReadSnapshot, Reload, Crash
  <2>2. \A j \in Instances : j # i =>
          /\ phase'[j] = phase[j] /\ resync'[j] = resync[j]
          /\ cache'[j] = cache[j]
    BY <1>2, <1>t DEF Subscribe, ReadSnapshot, Reload, Crash
  <2> QED
    BY <1>0, <2>1, <2>2
<1>3. ASSUME NEW i \in Instances, NEW k, SeedDone(i) \/ AdoptKey(i, k)
      PROVE  UnmovedReadIsNewer'
  <2>1. phase[i] = "loading" /\ phase' = phase /\ resync' = resync
    <3>1. CASE SeedDone(i)
      BY <3>1 DEF SeedDone, SeedsWhileLoading, TypeOK, Loads
    <3>2. CASE AdoptKey(i, k)
      BY <3>2 DEF AdoptKey, AtKey
    <3> QED
      BY <1>3, <3>1, <3>2
  <2>2. \A j \in Instances : j # i => cache'[j] = cache[j]
    BY <1>3, <1>t DEF SeedDone, AdoptKey
  <2> QED
    BY <1>0, <2>1, <2>2
<1>4. ASSUME NEW i \in Instances, Moved(i),
             \A j \in Instances : j # i => phase'[j] = phase[j] /\ cache'[j] = cache[j]
      PROVE  UnmovedReadIsNewer'
  <2>1. \A j \in Instances : j # i => resync'[j] = resync[j]
    BY <1>4, <1>t DEF Moved
  <2>2. resync'[i].step = "read" => resync'[i].moved
    BY <1>4, <1>t DEF Moved, Resyncs
  <2> QED
    BY <1>0, <1>4, <2>1, <2>2
<1>5. ASSUME NEW i \in Instances, FinishLoad(i) PROVE UnmovedReadIsNewer'
  BY <1>4, <1>5, <1>t DEF FinishLoad
<1>6. ASSUME NEW i \in Instances, NEW c, Acknowledged(i, c)
      PROVE  UnmovedReadIsNewer'
  BY <1>4, <1>6, <1>t DEF Acknowledged
<1>7. ASSUME NEW i \in Instances, NEW e, Deliver(i, e) PROVE UnmovedReadIsNewer'
  <2>0. phase' = phase
    BY <1>7 DEF Deliver
  <2>1. CASE UNCHANGED <<cache, resync>>
    BY <1>1, <2>0, <2>1
  <2>2. CASE cache' = [cache EXCEPT ![i][e.key] = e.cell] /\ Moved(i)
    BY <1>4, <1>t, <2>0, <2>2
  <2> QED
    BY <1>7, <2>1, <2>2 DEF Deliver, applyExternalChange
<1>8. ASSUME NEW i \in Instances, Resync(i) PROVE UnmovedReadIsNewer'
  <2>1. \A j \in Instances : j # i => /\ phase'[j] = phase[j]
                                      /\ resync'[j] = resync[j]
                                      /\ cache'[j] = cache[j]
    BY <1>8, <1>t
       DEF Resync, ResyncStart, ResyncRead, ResyncFails, ResyncApply, Swap
  <2>2. CASE ResyncStart(i) \/ ResyncFails(i) \/ ResyncApply(i)
    <3>1. [NoResync EXCEPT !.step = "reading"].step = "reading"
      BY DEF NoResync
    <3>2. resync'[i].step # "read"
      BY <1>n, <1>t, <2>2, <3>1 DEF ResyncStart, ResyncFails, ResyncApply
    <3> QED
      BY <1>0, <2>1, <3>2
  <2>3. CASE ResyncRead(i)
    <3>1. [resync[i] EXCEPT !.step = "read", !.rows = db].rows = db
      BY <1>t DEF Resyncs
    <3>2. resync'[i].rows = db /\ cache' = cache
      BY <1>t, <2>3, <3>1 DEF ResyncRead
    <3> QED
      BY <1>0, <2>1, <3>2 DEF NothingAheadOfItsRow
  <2> QED
    BY <1>8, <2>2, <2>3 DEF Resync
<1> QED
  BY <1>1, <1>2, <1>3, <1>5, <1>6, <1>7, <1>8
     DEF Next, vars, Boot, Set, Reset, Commit, Lose, KeepKey, SeedKey

(***************************************************************************)
(* The types of the policy caches hold in every reachable state, for any   *)
(* number of instances and keys and any schemas.                           *)
(***************************************************************************)
THEOREM TypeCorrect == Spec => []TypeOK
<1>1. TypeOK /\ [Next]_vars => TypeOK'
  BY TypeStep
<1> QED
  BY InitTypeOK, <1>1, PTL DEF Spec

LEMMA VInvInvariant == Spec => []VInv
<1>1. VInv /\ [Next]_vars => VInv'
  <2> SUFFICES ASSUME VInv, [Next]_vars PROVE VInv'
    OBVIOUS
  <2>1. TypeOK /\ SeedsWhileLoading
    BY DEF VInv
  <2> QED
    BY <2>1, TypeStep, AheadInvariant, RowsGrow, SeedInvariant,
       UnmovedInvariant DEF VInv
<1> QED
  BY InitVInv, <1>1, PTL DEF Spec

(***************************************************************************)
(* A resync never replaces a cached value by an older one                  *)
(* (PolicyService.resync drops its read when the cache has changed since). *)
(***************************************************************************)
THEOREM ResyncGoesForwardHolds == Spec => ResyncGoesForward
<1> DEFINE Step ==
      \A i \in Instances :
        resync[i].step = "read" /\ resync'[i].step = "idle" /\ phase'[i] = "up"
          => \A k \in Keys : cache'[i][k].ver >= cache[i][k].ver
<1>1. VInv /\ [Next]_vars => [Step]_vars
  <2> SUFFICES ASSUME VInv, [Next]_vars, NEW i \in Instances,
                      resync[i].step = "read", resync'[i].step = "idle",
                      phase'[i] = "up", NEW k \in Keys
               PROVE  cache'[i][k].ver >= cache[i][k].ver
    OBVIOUS
  <2>t. /\ cache \in [Instances -> Rows]
        /\ resync \in [Instances -> Resyncs]
        /\ phase \in [Instances -> {"down", "subscribed", "loading", "up"}]
        /\ cache[i][k].ver \in Nat
    BY DEF VInv, TypeOK, Rows, Cells, Vers
  <2>1. ResyncApply(i)
    <3>1. ASSUME NEW j \in Instances, Moved(j) PROVE resync'[i].step = "read"
      BY <2>t, <3>1 DEF Moved, Resyncs
    <3>2. ASSUME NEW j \in Instances, Resync(j) PROVE ResyncApply(i)
      <4>1. CASE j = i
        <5>1. /\ [resync[i] EXCEPT !.step = "read", !.rows = db].step = "read"
              /\ resync[i].step # "reading"
          BY <2>t DEF Resyncs
        <5> QED
          BY <3>2, <4>1, <5>1
             DEF Resync, ResyncStart, ResyncRead, ResyncFails
      <4>2. CASE j # i
        BY <2>t, <3>2, <4>2
           DEF Resync, ResyncStart, ResyncRead, ResyncFails, ResyncApply
      <4> QED
        BY <4>1, <4>2
    <3>3. ASSUME NEW j \in Instances PROVE ~Crash(j)
      BY <2>t DEF Crash
    <3>4. ASSUME NEW j \in Instances, NEW e, Deliver(j, e)
          PROVE  resync'[i].step = "read"
      BY <3>1, <3>4 DEF Deliver, applyExternalChange
    <3> QED
      BY <3>1, <3>2, <3>3, <3>4
         DEF Next, vars, Boot, Set, Reset, Commit, Lose, Subscribe,
             ReadSnapshot, KeepKey, AdoptKey, SeedKey, SeedDone, FinishLoad,
             Acknowledged, Reload
  <2>2. CASE resync[i].moved
    BY <2>1, <2>2, <2>t DEF ResyncApply
  <2>3. CASE ~resync[i].moved
    <3>0. phase[i] = "up"
      BY <2>1 DEF ResyncApply
    <3>1. cache[i][k].ver <= resync[i].rows[k].ver
      BY <2>3, <3>0 DEF VInv, UnmovedReadIsNewer
    <3>2. cache'[i][k] = cache[i][k] \/ cache'[i][k] = Resynced(i, k)
      BY <2>1, <2>3, <2>t DEF ResyncApply, Swap
    <3>3. resync[i].rows[k].ver \in Nat
      BY <2>t DEF Resyncs, Rows, Cells, Vers
    <3> QED
      BY <2>t, <3>1, <3>2, <3>3, ResyncedVer
  <2> QED
    BY <2>2, <2>3
<1>2. VInv /\ [Next]_vars => [\A i \in Instances :
        resync[i].step = "read" /\ resync'[i].step = "idle" /\ phase'[i] = "up"
          => \A k \in Keys : cache'[i][k].ver >= cache[i][k].ver]_vars
  BY <1>1
<1> QED
  BY VInvInvariant, <1>2, PTL DEF Spec, ResyncGoesForward

-----------------------------------------------------------------------------
(***************************************************************************)
(* Why an instance serves valid values only.  Every way into a cache - the *)
(* row adopted, the seed, an acknowledged change, an event, a resync -     *)
(* passes the instance's own schema, and the loop of loadFromDb leaves no  *)
(* key behind it unset.                                                    *)
(***************************************************************************)
CachedIsValid ==
  \A i \in Instances :
    /\ \A k \in Keys : cache[i][k].val = None \/ cache[i][k].val \in Valid[i]
    /\ \A c \in pending[i] : c.cell.val \in Valid[i]
    /\ load[i].seed \in Keys => load[i].written.val = Default

LoadedIsSet ==
  \A i \in Instances :
    /\ phase[i] = "loading" =>
         \A k \in Keys \ load[i].todo : cache[i][k].val # None
    /\ phase[i] = "up" => \A k \in Keys : cache[i][k].val # None

SInv == TypeOK /\ SeedsWhileLoading /\ CachedIsValid /\ LoadedIsSet

LEMMA CachedIsValidStep ==
  ASSUME SInv, [Next]_vars
  PROVE  CachedIsValid'
<1> USE DEF SInv, CachedIsValid
<1>t. /\ cache \in [Instances -> Rows]
      /\ load \in [Instances -> Loads]
      /\ pending \in [Instances -> SUBSET Changes]
      /\ db \in Rows
  BY DEF TypeOK
<1>v. \A i \in Instances : Valid[i] \subseteq Values /\ Default \in Valid[i]
  OBVIOUS
<1>1. CASE UNCHANGED <<cache, pending, load>>
  BY <1>1
<1>2. ASSUME NEW i \in Instances, ReadSnapshot(i) PROVE CachedIsValid'
  <2>1. [NotLoading EXCEPT !.rows = db, !.todo = Keys].seed = NoKey
    BY DEF NotLoading
  <2> QED
    BY <1>2, <1>t, <2>1 DEF ReadSnapshot
<1>3. ASSUME NEW i \in Instances, SeedDone(i) PROVE CachedIsValid'
  <2>1. load[i].seed \in Keys /\ load[i].written.val = Default
    BY <1>3, <1>t DEF SeedDone, Loads
  <2>2. [load[i] EXCEPT !.seed = NoKey,
                        !.todo = load[i].todo \ {load[i].seed}].seed = NoKey
    BY <1>t DEF Loads
  <2>3. \A j \in Instances, q \in Keys :
          \/ cache'[j][q] = cache[j][q]
          \/ j = i /\ cache'[j][q] = load[i].written
    BY <1>3, <1>t, <2>1 DEF SeedDone, Rows
  <2>4. \A j \in Instances : load'[j].seed \in Keys => load'[j] = load[j]
    BY <1>3, <1>t, <2>2 DEF SeedDone
  <2>5. pending' = pending
    BY <1>3 DEF SeedDone
  <2> QED
    BY <1>v, <2>1, <2>3, <2>4, <2>5
<1>4. ASSUME NEW i \in Instances, FinishLoad(i) \/ Crash(i) \/ Reload(i)
      PROVE  CachedIsValid'
  <2>1. NotLoading.seed = NoKey /\ \A k \in Keys : Empty[k].val = None
    BY DEF NotLoading, Empty, Unset
  <2>2. \A j \in Instances :
          /\ load'[j] = load[j] \/ load'[j] = NotLoading
          /\ cache'[j] = cache[j] \/ cache'[j] = Empty
          /\ pending'[j] \subseteq pending[j]
    BY <1>4, <1>t DEF FinishLoad, Crash, Reload
  <2> QED
    BY <2>1, <2>2
<1>5. ASSUME NEW i \in Instances, NEW k \in Keys, KeepKey(i, k) \/ AdoptKey(i, k)
      PROVE  CachedIsValid'
  <2>1. [load[i] EXCEPT !.todo = load[i].todo \ {k}].seed = load[i].seed
        /\ [load[i] EXCEPT !.todo = load[i].todo \ {k}].written = load[i].written
    BY <1>t DEF Loads
  <2>2. \A j \in Instances : /\ load'[j].seed = load[j].seed
                             /\ load'[j].written = load[j].written
    BY <1>5, <1>t, <2>1 DEF KeepKey, AdoptKey
  <2>3. \A j \in Instances, q \in Keys :
          \/ cache'[j][q] = cache[j][q]
          \/ j = i /\ cache'[j][q].val \in Valid[i]
    BY <1>5, <1>t DEF KeepKey, AdoptKey, Rows
  <2>4. pending' = pending
    BY <1>5 DEF KeepKey, AdoptKey
  <2> QED
    BY <2>2, <2>3, <2>4
<1>6. ASSUME NEW i \in Instances, NEW k \in Keys, SeedKey(i, k)
      PROVE  CachedIsValid'
  <2>1. [load[i] EXCEPT !.seed = k, !.written = Seed(k)].written = Seed(k)
    BY <1>t DEF Loads
  <2>2. Seed(k).val = Default
    BY DEF Seed
  <2>3. load'[i].written.val = Default
    BY <1>6, <1>t, <2>1, <2>2 DEF SeedKey
  <2>4. \A j \in Instances : j # i => load'[j] = load[j]
    BY <1>6, <1>t DEF SeedKey
  <2>5. UNCHANGED <<cache, pending>>
    BY <1>6 DEF SeedKey
  <2> QED
    BY <2>3, <2>4, <2>5
<1>7. ASSUME NEW i \in Instances, NEW k \in Keys, NEW v \in Valid[i] \cup {None},
             Commit(i, k, v)
      PROVE  CachedIsValid'
  <2>1. Served(Wish(v)).val \in Valid[i]
    BY <1>v DEF Served, Wish
  <2>2. [key |-> k, cell |-> Served(Wish(v))].cell.val \in Valid[i]
    BY <2>1
  <2>3. \A j \in Instances : \A c \in pending'[j] :
          c \in pending[j] \/ (j = i /\ c.cell.val \in Valid[i])
    BY <1>7, <1>t, <2>2 DEF Commit
  <2>4. UNCHANGED <<cache, load>>
    BY <1>7 DEF Commit
  <2> QED
    BY <2>3, <2>4
<1>8. ASSUME NEW i \in Instances, NEW c \in pending[i], Acknowledged(i, c)
      PROVE  CachedIsValid'
  <2>1. c.key \in Keys /\ c.cell.val \in Valid[i]
    BY <1>t DEF Changes
  <2>2. \A j \in Instances, q \in Keys :
          \/ cache'[j][q] = cache[j][q]
          \/ j = i /\ cache'[j][q] = c.cell
    BY <1>8, <1>t, <2>1 DEF Acknowledged, Rows
  <2>3. \A j \in Instances : pending'[j] \subseteq pending[j] /\ load'[j] = load[j]
    BY <1>8, <1>t DEF Acknowledged
  <2> QED
    BY <2>1, <2>2, <2>3
<1>9. ASSUME NEW i \in Instances, NEW e \in inbox[i], Deliver(i, e)
      PROVE  CachedIsValid'
  <2>1. e.key \in Keys
    BY DEF TypeOK, Changes
  <2>2. UNCHANGED <<pending, load>>
    BY <1>9 DEF Deliver
  <2>3. CASE cache' = cache
    BY <2>2, <2>3
  <2>4. CASE e.cell.val \in Valid[i] /\ cache' = [cache EXCEPT ![i][e.key] = e.cell]
    <3>1. \A j \in Instances, q \in Keys :
            \/ cache'[j][q] = cache[j][q]
            \/ j = i /\ cache'[j][q] = e.cell
      BY <1>t, <2>1, <2>4 DEF Rows
    <3> QED
      BY <2>2, <2>4, <3>1
  <2> QED
    BY <1>9, <2>3, <2>4 DEF Deliver, applyExternalChange
<1>10. ASSUME NEW i \in Instances, Resync(i) PROVE CachedIsValid'
  <2>1. \A q \in Keys : Resynced(i, q).val \in Valid[i] \/ Resynced(i, q) = cache[i][q]
    BY DEF Resynced
  <2>2. \A j \in Instances, q \in Keys :
          \/ cache'[j][q] = cache[j][q]
          \/ j = i /\ cache'[j][q] = Resynced(i, q)
    BY <1>10, <1>t
       DEF Resync, ResyncStart, ResyncRead, ResyncFails, ResyncApply, Swap
  <2>3. UNCHANGED <<pending, load>>
    BY <1>10 DEF Resync, ResyncStart, ResyncRead, ResyncFails, ResyncApply
  <2> QED
    BY <2>1, <2>2, <2>3
<1> QED
  BY <1>1, <1>2, <1>3, <1>4, <1>5, <1>6, <1>7, <1>8, <1>9, <1>10
     DEF Next, vars, Boot, Set, Reset, Subscribe, Lose

LEMMA LoadedIsSetStep ==
  ASSUME SInv, [Next]_vars
  PROVE  LoadedIsSet'
<1> USE DEF SInv, LoadedIsSet
<1>t. /\ cache \in [Instances -> Rows]
      /\ load \in [Instances -> Loads]
      /\ pending \in [Instances -> SUBSET Changes]
      /\ phase \in [Instances -> {"down", "subscribed", "loading", "up"}]
  BY DEF TypeOK
<1>v. \A i \in Instances : None \notin Valid[i] /\ Default # None
  OBVIOUS
<1>1. ASSUME UNCHANGED <<phase, load>>,
             \A i \in Instances, k \in Keys :
               \/ cache'[i][k].val = cache[i][k].val
               \/ cache'[i][k].val # None
      PROVE  LoadedIsSet'
  BY <1>1
<1>2. ASSUME NEW i \in Instances, Subscribe(i) \/ Crash(i) \/ Reload(i)
      PROVE  LoadedIsSet'
  <2>1. \A j \in Instances : \/ phase'[j] \in {"subscribed", "down"}
                             \/ /\ phase'[j] = phase[j] /\ load'[j] = load[j]
                                /\ cache'[j] = cache[j]
    BY <1>2, <1>t DEF Subscribe, Crash, Reload
  <2> QED
    BY <2>1
<1>3. ASSUME NEW i \in Instances, ReadSnapshot(i) PROVE LoadedIsSet'
  <2>1. [NotLoading EXCEPT !.rows = db, !.todo = Keys].todo = Keys
    BY DEF NotLoading
  <2>2. phase'[i] = "loading" /\ load'[i].todo = Keys
    BY <1>3, <1>t, <2>1 DEF ReadSnapshot
  <2>3. \A j \in Instances : j # i => phase'[j] = phase[j] /\ load'[j] = load[j]
    BY <1>3, <1>t DEF ReadSnapshot
  <2> QED
    BY <1>3, <2>2, <2>3 DEF ReadSnapshot
<1>4. ASSUME NEW i \in Instances, NEW k \in Keys, phase[i] = "loading",
             phase' = phase, load'[i].todo = load[i].todo \ {k},
             \A j \in Instances : j # i => load'[j] = load[j],
             cache'[i][k].val # None,
             \A j \in Instances, q \in Keys :
               cache'[j][q].val = cache[j][q].val \/ (j = i /\ q = k)
      PROVE  LoadedIsSet'
  BY <1>4
<1>5. ASSUME NEW i \in Instances, SeedDone(i) PROVE LoadedIsSet'
  <2> DEFINE k == load[i].seed
  <2>1. k \in Keys /\ load[i].written.val = Default
    BY <1>5, <1>t DEF SeedDone, Loads, CachedIsValid
  <2>2. [load[i] EXCEPT !.seed = NoKey, !.todo = load[i].todo \ {k}].todo
          = load[i].todo \ {k}
    BY <1>t DEF Loads
  <2>3. phase[i] = "loading" /\ phase' = phase
    BY <1>5, <2>1 DEF SeedDone, SeedsWhileLoading
  <2>4. load'[i].todo = load[i].todo \ {k}
        /\ \A j \in Instances : j # i => load'[j] = load[j]
    BY <1>5, <1>t, <2>2 DEF SeedDone
  <2>5. /\ cache'[i][k] = IF cache[i][k].val = None THEN load[i].written
                          ELSE cache[i][k]
        /\ \A j \in Instances, q \in Keys :
             cache'[j][q] = cache[j][q] \/ (j = i /\ q = k)
    BY <1>5, <1>t, <2>1 DEF SeedDone, Rows
  <2> HIDE DEF k
  <2> QED
    BY <1>4, <1>v, <2>1, <2>3, <2>4, <2>5
<1>6. ASSUME NEW i \in Instances, NEW k \in Keys, KeepKey(i, k) \/ AdoptKey(i, k)
      PROVE  LoadedIsSet'
  <2>1. [load[i] EXCEPT !.todo = load[i].todo \ {k}].todo = load[i].todo \ {k}
    BY <1>t DEF Loads
  <2>2. phase[i] = "loading" /\ phase' = phase
    BY <1>6 DEF KeepKey, AdoptKey, AtKey
  <2>3. load'[i].todo = load[i].todo \ {k}
        /\ \A j \in Instances : j # i => load'[j] = load[j]
    BY <1>6, <1>t, <2>1 DEF KeepKey, AdoptKey
  <2>4. cache'[i][k].val # None
        /\ \A j \in Instances, q \in Keys :
             cache'[j][q] = cache[j][q] \/ (j = i /\ q = k)
    BY <1>6, <1>t, <1>v DEF KeepKey, AdoptKey, Rows
  <2> QED
    BY <1>4, <2>2, <2>3, <2>4
<1>7. ASSUME NEW i \in Instances, NEW k \in Keys, SeedKey(i, k)
      PROVE  LoadedIsSet'
  <2>1. [load[i] EXCEPT !.seed = k, !.written = Seed(k)].todo = load[i].todo
    BY <1>t DEF Loads
  <2>2. \A j \in Instances : load'[j].todo = load[j].todo
    BY <1>7, <1>t, <2>1 DEF SeedKey
  <2> QED
    BY <1>7, <2>2 DEF SeedKey
<1>8. ASSUME NEW i \in Instances, FinishLoad(i) PROVE LoadedIsSet'
  <2>1. \A k \in Keys : cache[i][k].val # None
    BY <1>8 DEF FinishLoad
  <2>2. \A j \in Instances : j # i => phase'[j] = phase[j] /\ load'[j] = load[j]
    BY <1>8, <1>t DEF FinishLoad
  <2>3. cache' = cache /\ phase'[i] = "up"
    BY <1>8, <1>t DEF FinishLoad
  <2> QED
    BY <2>1, <2>2, <2>3
<1>9. ASSUME NEW i \in Instances, NEW k \in Keys, NEW v, Commit(i, k, v)
      PROVE  LoadedIsSet'
  BY <1>1, <1>9 DEF Commit
<1>10. ASSUME NEW i \in Instances, NEW c \in pending[i], Acknowledged(i, c)
       PROVE  LoadedIsSet'
  <2>1. c.key \in Keys /\ c.cell.val # None
    BY <1>t, <1>v DEF Changes
  <2>2. \A j \in Instances, q \in Keys :
          cache'[j][q] = cache[j][q] \/ cache'[j][q] = c.cell
    BY <1>10, <1>t, <2>1 DEF Acknowledged, Rows
  <2> QED
    BY <1>1, <1>10, <2>1, <2>2 DEF Acknowledged
<1>11. ASSUME NEW i \in Instances, NEW e \in inbox[i], Deliver(i, e) \/ Lose(i, e)
       PROVE  LoadedIsSet'
  <2>1. e.key \in Keys /\ e.cell.val # None
    BY DEF TypeOK, Changes
  <2>2. \A j \in Instances, q \in Keys :
          cache'[j][q] = cache[j][q] \/ cache'[j][q] = e.cell
    <3>1. CASE cache' = cache
      BY <3>1
    <3>2. CASE cache' = [cache EXCEPT ![i][e.key] = e.cell]
      BY <1>t, <2>1, <3>2 DEF Rows
    <3> QED
      BY <1>11, <3>1, <3>2 DEF Deliver, Lose, applyExternalChange
  <2> QED
    BY <1>1, <1>11, <2>1, <2>2 DEF Deliver, Lose
<1>12. ASSUME NEW i \in Instances, Resync(i) PROVE LoadedIsSet'
  <2>1. \A q \in Keys : Resynced(i, q).val # None \/ Resynced(i, q) = cache[i][q]
    BY <1>v DEF Resynced
  <2>2. \A j \in Instances, q \in Keys :
          \/ cache'[j][q] = cache[j][q]
          \/ j = i /\ cache'[j][q] = Resynced(i, q)
    BY <1>12, <1>t
       DEF Resync, ResyncStart, ResyncRead, ResyncFails, ResyncApply, Swap
  <2>3. UNCHANGED <<phase, load>>
    BY <1>12 DEF Resync, ResyncStart, ResyncRead, ResyncFails, ResyncApply
  <2> QED
    BY <1>1, <2>1, <2>2, <2>3
<1>13. CASE UNCHANGED vars
  BY <1>1, <1>13 DEF vars
<1> QED
  BY <1>2, <1>3, <1>5, <1>6, <1>7, <1>8, <1>9, <1>10, <1>11, <1>12, <1>13
     DEF Next, Boot, Set, Reset

(***************************************************************************)
(* An instance that serves has a value its own schema accepts for every    *)
(* key, for any schemas and whatever the rows and events hold              *)
(* (loadFromDb, applyExternalChange, resync, set).                         *)
(***************************************************************************)
THEOREM ServesValidValuesHolds == Spec => []ServesValidValues
<1>1. Init => SInv
  <2> SUFFICES ASSUME Init PROVE SInv
    OBVIOUS
  <2>1. TypeOK /\ SeedsWhileLoading
    BY InitVInv DEF VInv
  <2>2. /\ NotLoading.seed = NoKey
        /\ \A k \in Keys : Empty[k].val = None
    BY DEF NotLoading, Empty, Unset
  <2>3. CachedIsValid /\ LoadedIsSet
    BY <2>2 DEF Init, CachedIsValid, LoadedIsSet
  <2> QED
    BY <2>1, <2>3 DEF SInv
<1>2. SInv /\ [Next]_vars => SInv'
  <2> SUFFICES ASSUME SInv, [Next]_vars PROVE SInv'
    OBVIOUS
  <2>1. TypeOK /\ SeedsWhileLoading
    BY DEF SInv
  <2> QED
    BY <2>1, TypeStep, SeedInvariant, CachedIsValidStep, LoadedIsSetStep
       DEF SInv
<1>3. SInv => ServesValidValues
  BY DEF SInv, CachedIsValid, LoadedIsSet, ServesValidValues
<1> QED
  BY <1>1, <1>2, <1>3, PTL DEF Spec
=============================================================================
