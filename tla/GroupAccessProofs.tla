-------------------------- MODULE GroupAccessProofs --------------------------
(***************************************************************************)
(* Proofs about GroupAccess, for any slots, lists of rights and bounds.    *)
(*                                                                         *)
(* The invariant says of each request what was found out when it was asked *)
(* (the rights it carries make sense, whoever asked may create so private  *)
(* a group) and what its stage implies, and of the group that as long as   *)
(* nothing has crossed, its none role shows it as its template does unless *)
(* the role was edited or a reset is half way.                             *)
(***************************************************************************)
EXTENDS GroupAccess, TLAPS

USE AccessAssumption

Sighted(rights) == rights = {} \/ "read" \in rights

StageOf(op, stage) ==
  \/ op = "idle" /\ stage = "idle"
  \/ op = "update" /\ stage \in {"write", "read", "sync", "mark"}
  \/ op = "edit" /\ stage \in {"admin", "later", "mark"}
  \/ op = "reset" /\ stage \in {"admin", "write", "read", "sync", "later", "template", "unmark"}
  \/ op = "apply" /\ stage \in {"admin", "write", "read", "sync", "later"}
  \/ op = "save" /\ stage \in {"begin", "lock", "commit"}
  \/ op = "boot" /\ stage \in {"copy", "read", "sync", "keep", "list", "open"}

\* What is known of a request: it is at a stage of its kind, the rights it
\* carries make sense, a template is copied as private as the code defines it,
\* and who asked for more privacy may create it.
Fits(q) ==
  /\ StageOf(q.op, q.stage)
  /\ q.op # "boot" => Sighted(q.to)
  /\ q.stage = "list" => "read" \in q.seen
  /\ q.op \in {"apply", "reset"} =>
       q.template \in Templates /\ Level(q.to) = Level(Default[q.template])
  /\ q.op = "boot" => q.template \in Templates
  /\ q.op = "save" => q.template \in Levels \cup {"same"}
  /\ q.stage = "open" => Level(q.to) = Level(q.seen) /\ "members" \in q.to
  /\ q.op \in {"update", "reset"} /\ MorePrivate(Level(q.to), q.level) => Level(q.to) \in q.may
  /\ q.op = "save" /\ q.template # "same" /\ MorePrivate(q.template, q.level) =>
       q.template \in q.may

TemplatesFit ==
  \A t \in Templates : Sighted(templates[t]) /\ Level(templates[t]) = Level(Default[t])

IInv == TypeOK /\ TemplatesFit /\ \A s \in Slots : Fits(doing[s])

\* What has been read, and what a boot is about to write, gives no right in a
\* group nobody sees, or but the member list.
Admitted ==
  {rights \in SUBSET Doors :
     Sighted(rights) \/ crossed \/ (hiddenSince /\ rights = {"members"})}

SightInv ==
  /\ \A s \in Slots : /\ doing[s].seen \in Admitted
                      /\ doing[s].stage = "open" => doing[s].to \in Admitted
  /\ none \in Admitted

\* An own right that is not marked has somebody about to mark it.
OwnInv ==
  /\ "none" \in own /\ ~customized => crossed \/ \E s \in Slots : Under(s, {"update"})
  /\ own \cap Others # {} /\ ~customized => crossed \/ \E s \in Slots : Under(s, {"edit"})

\* Whether the group shows as its template does.  A reset makes it so when it
\* writes the template, after the role.
Restoring(q) == q.op = "reset" /\ q.stage \in {"read", "sync", "later", "template"}
SettledInv ==
  seeded => \/ crossed
            \/ Level(none) = Level(templates[template])
            \/ "none" \in own
            \/ \E s \in Slots : Restoring(doing[s])

\* A boot that found the member list open still knows, and opens it.
Reopening(q) ==
  q.op = "boot" /\ q.show = "open" /\ q.stage \in {"read", "sync", "keep", "list", "open"}

BootInv ==
  /\ ~seeded => \A s \in Slots : doing[s].stage \in {"idle", "copy"}
  /\ wasOpen /\ ~seeded => columns = {"members"}
  /\ wasOpen => \A s \in Slots : doing[s].stage = "copy" => doing[s].show = "open"
  /\ wasOpen /\ seeded /\ "read" \in none /\ "members" \notin none =>
       crossed \/ \E s \in Slots : Reopening(doing[s])

-----------------------------------------------------------------------------
LEMMA DoorsAre ==
  /\ Open \subseteq Doors
  /\ "read" \in Doors /\ "content" \in Doors /\ "members" \in Doors
  /\ Levels \subseteq Templates /\ "same" \notin Levels
  BY DEF Open, Doors, Levels, Templates

LEMMA DefaultIs ==
  /\ Default["public"] = Open /\ Default["channel"] = Open
  /\ Default["closed"] = {"read", "request"} /\ Default["hidden"] = {}
  BY SMTT(30) DEF Default, Templates, Levels

LEMMA DefaultFits ==
  /\ \A t \in Templates : Default[t] \subseteq Doors /\ Sighted(Default[t])
  /\ \A t \in Levels : Level(Default[t]) = t
  /\ "read" \in Default["closed"]
  <1>1. \A t \in Templates : t = "public" \/ t = "channel" \/ t = "closed" \/ t = "hidden"
    BY DEF Templates, Levels
  <1>2. Default["hidden"] \subseteq Doors /\ Sighted(Default["hidden"]) /\ Level(Default["hidden"]) = "hidden"
    BY DefaultIs DEF Sighted, Level
  <1>3. Default["closed"] \subseteq Doors /\ Sighted(Default["closed"]) /\ Level(Default["closed"]) = "closed"
    BY DefaultIs DEF Sighted, Level, Doors
  <1>4. Open \subseteq Doors /\ Sighted(Open) /\ Level(Open) = "public"
    BY DEF Open, Sighted, Level, Doors
  <1>5. \A t \in Levels : t = "public" \/ t = "closed" \/ t = "hidden"
    BY DEF Levels
  <1> QED
    BY <1>1, <1>2, <1>3, <1>4, <1>5, DefaultIs

\* The level of a list of rights is told by two of them.
LEMMA LevelIs ==
  ASSUME NEW a, NEW b, "read" \in a <=> "read" \in b, "content" \in a <=> "content" \in b
  PROVE  Level(a) = Level(b)
  BY DEF Level

LEMMA LevelIsOne ==
  ASSUME NEW a
  PROVE  Level(a) \in Levels
  BY DEF Level, Levels

LEMMA ClosedIsSeen ==
  ASSUME NEW a, Level(a) # "hidden"
  PROVE  "read" \in a
  BY DEF Level

LEMMA NobodyMorePrivateThanOneself ==
  ASSUME NEW level \in Levels
  PROVE  ~MorePrivate(level, level)
  BY SMTT(30) DEF MorePrivate, Levels, Privacy

LEMMA StorableIs ==
  ASSUME NEW rights \in SUBSET Doors
  PROVE  /\ storableRights(withImpliedRights(rights)) \subseteq Doors
         /\ Sighted(storableRights(withImpliedRights(rights)))
         /\ Level(storableRights(withImpliedRights(rights))) = Level(withImpliedRights(rights))
  <1> DEFINE full == withImpliedRights(rights)
  <1>1. full \subseteq Doors /\ ("content" \in full \/ "members" \in full => "read" \in full)
    BY DEF withImpliedRights, Doors
  <1> HIDE DEF full
  <1>2. storableRights(full) \subseteq Doors
    BY <1>1 DEF storableRights
  <1>3. Sighted(storableRights(full))
    BY <1>1 DEF storableRights, Sighted, Doors
  <1>4. "read" \in storableRights(full) <=> "read" \in full
    BY DEF storableRights
  <1>5. "content" \in storableRights(full) <=> "content" \in full
    BY DEF storableRights
  <1>6. Level(storableRights(full)) = Level(full)
    BY <1>4, <1>5, LevelIs
  <1> QED
    BY <1>2, <1>3, <1>6 DEF full

-----------------------------------------------------------------------------
(***************************************************************************)
(* What a step does to the requests.                                       *)
(***************************************************************************)
Ops == {"idle", "update", "edit", "reset", "apply", "save", "boot"}
Stages == {"idle", "admin", "write", "read", "sync", "later", "mark", "template", "unmark",
           "begin", "lock", "commit", "copy", "keep", "list", "open"}

LEMMA RequestHas ==
  ASSUME NEW q \in Requests
  PROVE  /\ q.op \in Ops /\ q.stage \in Stages /\ q.to \subseteq Doors /\ q.seen \subseteq Doors
         /\ q.template \in Templates \cup {"same"} /\ q.show \in {"same", "open", "close"}
         /\ q.may \subseteq Levels /\ q.level \in Levels /\ q.previous \in Levels
  BY SMTT(30) DEF Requests, Ops, Stages

LEMMA IdleIs ==
  /\ Idle \in Requests /\ Idle.op = "idle" /\ Idle.stage = "idle"
  /\ Idle.to = {} /\ Idle.seen = {}
  <1>1. Idle \in Requests
    BY SMTT(30) DEF Idle, Request, Requests, Levels
  <1>2. Idle.op = "idle" /\ Idle.stage = "idle" /\ Idle.to = {} /\ Idle.seen = {}
    BY SMTT(30) DEF Idle, Request
  <1> QED
    BY <1>1, <1>2

LEMMA StageChanged ==
  ASSUME NEW q \in Requests, NEW stage \in Stages
  PROVE  [q EXCEPT !.stage = stage] \in Requests
  BY SMTT(30) DEF Requests, Stages

LEMMA ToChanged ==
  ASSUME NEW q \in Requests, NEW rights \in SUBSET Doors
  PROVE  [q EXCEPT !.to = rights] \in Requests
  BY SMTT(30) DEF Requests

LEMMA SeenChanged ==
  ASSUME NEW q \in Requests, NEW rights \in SUBSET Doors
  PROVE  [q EXCEPT !.seen = rights] \in Requests
  BY SMTT(30) DEF Requests

LEMMA ShowChanged ==
  ASSUME NEW q \in Requests, NEW show \in {"same", "open", "close"}
  PROVE  [q EXCEPT !.show = show] \in Requests
  BY SMTT(30) DEF Requests

LEMMA LevelChanged ==
  ASSUME NEW q \in Requests, NEW level \in Levels
  PROVE  [q EXCEPT !.previous = level] \in Requests
  BY SMTT(30) DEF Requests

\* A request and what it becomes agree in all but the stage and what was read.
SameBut(p, q) ==
  /\ p.op = q.op /\ p.to = q.to /\ p.template = q.template
  /\ p.show = q.show /\ p.may = q.may /\ p.level = q.level

\* A request takes the place of another.
LEMMA BecomesIs ==
  ASSUME doing \in [Slots -> Requests], NEW s \in Slots, NEW q \in Requests, Becomes(s, q)
  PROVE  /\ doing' \in [Slots -> Requests]
         /\ \A p \in Slots : p # s => doing'[p] = doing[p]
         /\ doing'[s] = q
  BY DEF Becomes

LEMMA GoIs ==
  ASSUME doing \in [Slots -> Requests], NEW s \in Slots, NEW stage \in Stages, Go(s, stage)
  PROVE  /\ doing' \in [Slots -> Requests]
         /\ \A p \in Slots : p # s => doing'[p] = doing[p]
         /\ doing'[s].stage = stage /\ doing'[s].seen = doing[s].seen
         /\ SameBut(doing'[s], doing[s]) /\ doing'[s].previous = doing[s].previous
  <1> DEFINE q == [doing[s] EXCEPT !.stage = stage]
  <1>1. q \in Requests
    BY SMTT(30) DEF Requests, Stages
  <1>2. /\ q.stage = stage /\ q.seen = doing[s].seen
        /\ SameBut(q, doing[s]) /\ q.previous = doing[s].previous
    BY SMTT(30) DEF Requests, SameBut
  <1>3. Becomes(s, q)
    BY DEF Go
  <1> HIDE DEF q
  <1> QED
    BY <1>1, <1>2, <1>3, BecomesIs

LEMMA DoneIs ==
  ASSUME doing \in [Slots -> Requests], NEW s \in Slots, Done(s)
  PROVE  /\ doing' \in [Slots -> Requests]
         /\ \A p \in Slots : p # s => doing'[p] = doing[p]
         /\ doing'[s] = Idle
  BY IdleIs, BecomesIs DEF Done

LEMMA AskIs ==
  ASSUME doing \in [Slots -> Requests], NEW s \in Slots, NEW q \in Requests, Ask(s, q)
  PROVE  /\ doing' \in [Slots -> Requests]
         /\ \A p \in Slots : p # s => doing'[p] = doing[p]
         /\ doing'[s] = q /\ doing[s] = Idle
  BY DEF Ask

LEMMA BeginIs ==
  ASSUME doing \in [Slots -> Requests], NEW s \in Slots, Begin(s)
  PROVE  /\ doing' \in [Slots -> Requests]
         /\ \A p \in Slots : p # s => doing'[p] = doing[p]
         /\ doing'[s].stage = "lock" /\ doing'[s].seen = doing[s].seen
         /\ doing'[s].previous = Level(columns)
         /\ SameBut(doing'[s], doing[s])
  <1> DEFINE level == Level(columns)
             q1 == [doing[s] EXCEPT !.stage = "lock"]
             q == [doing[s] EXCEPT !.stage = "lock", !.previous = level]
  <1>0. level \in Levels
    BY LevelIsOne
  <1>3. Becomes(s, q)
    BY DEF Begin
  <1>4. level = Level(columns)
    OBVIOUS
  <1> HIDE DEF level
  <1>1. q \in Requests
    <2>1. q1 \in Requests
      BY StageChanged DEF Stages
    <2>2. [q1 EXCEPT !.previous = level] \in Requests
      BY <1>0, <2>1, LevelChanged
    <2> QED
      BY <2>2
  <1>2. q.stage = "lock" /\ q.seen = doing[s].seen /\ q.previous = level /\ SameBut(q, doing[s])
    BY SMTT(30) DEF Requests, SameBut
  <1> HIDE DEF q
  <1> QED
    BY <1>1, <1>2, <1>3, <1>4, BecomesIs

\* A request reads the role, and goes on to a stage.
LEMMA SeesIs ==
  ASSUME doing \in [Slots -> Requests], none \subseteq Doors, NEW s \in Slots,
         NEW stage \in Stages, Becomes(s, [doing[s] EXCEPT !.stage = stage, !.seen = none])
  PROVE  /\ doing' \in [Slots -> Requests]
         /\ \A p \in Slots : p # s => doing'[p] = doing[p]
         /\ doing'[s].stage = stage /\ doing'[s].seen = none
         /\ doing'[s].previous = doing[s].previous
         /\ SameBut(doing'[s], doing[s])
  <1> DEFINE q1 == [doing[s] EXCEPT !.stage = stage]
             q == [doing[s] EXCEPT !.stage = stage, !.seen = none]
  <1>1. q \in Requests
    <2>1. q1 \in Requests
      BY StageChanged
    <2>2. [q1 EXCEPT !.seen = none] \in Requests
      BY <2>1, SeenChanged
    <2> QED
      BY <2>2
  <1>2. /\ q.stage = stage /\ q.seen = none /\ q.previous = doing[s].previous
        /\ SameBut(q, doing[s])
    BY SMTT(30) DEF Requests, SameBut
  <1>3. Becomes(s, q)
    OBVIOUS
  <1> HIDE DEF q
  <1> QED
    BY <1>1, <1>2, <1>3, BecomesIs

LEMMA ReadsAre ==
  ASSUME doing \in [Slots -> Requests], none \subseteq Doors, NEW s \in Slots, syncReads(s)
  PROVE  /\ doing' \in [Slots -> Requests]
         /\ \A p \in Slots : p # s => doing'[p] = doing[p]
         /\ doing'[s].stage = "sync" /\ doing'[s].seen = none
         /\ SameBut(doing'[s], doing[s])
  BY SeesIs DEF syncReads, Stages

LEMMA LockIs ==
  ASSUME doing \in [Slots -> Requests], none \subseteq Doors, NEW s \in Slots, Lock(s)
  PROVE  /\ doing' \in [Slots -> Requests]
         /\ \A p \in Slots : p # s => doing'[p] = doing[p]
         /\ doing'[s].stage = "commit" /\ doing'[s].seen = none
         /\ doing'[s].previous = doing[s].previous
         /\ SameBut(doing'[s], doing[s])
  BY SeesIs DEF Lock, Stages

LEMMA KeepIs ==
  ASSUME doing \in [Slots -> Requests], none \subseteq Doors, NEW s \in Slots, keepMemberListOpen(s)
  PROVE  /\ doing' \in [Slots -> Requests]
         /\ \A p \in Slots : p # s => doing'[p] = doing[p]
         /\ \/ /\ "read" \in none
               /\ doing'[s].stage = "list" /\ doing'[s].seen = none
               /\ SameBut(doing'[s], doing[s])
            \/ "read" \notin none /\ doing'[s] = Idle
  <1>1. CASE "read" \in none
    <2>1. Becomes(s, [doing[s] EXCEPT !.stage = "list", !.seen = none])
      BY <1>1 DEF keepMemberListOpen, Looked
    <2> QED
      BY <1>1, <2>1, SeesIs DEF Stages
  <1>2. CASE "read" \notin none
    <2>1. Done(s)
      BY <1>2 DEF keepMemberListOpen
    <2> QED
      BY <1>2, <2>1, DoneIs
  <1> QED
    BY <1>1, <1>2

LEMMA ListIs ==
  ASSUME doing \in [Slots -> Requests], none \subseteq Doors, NEW s \in Slots, readMemberList(s)
  PROVE  /\ doing' \in [Slots -> Requests]
         /\ \A p \in Slots : p # s => doing'[p] = doing[p]
         /\ \/ /\ "members" \notin none
               /\ doing'[s].stage = "open" /\ doing'[s].seen = none
               /\ doing'[s].to = none \cup {"members"}
               /\ doing'[s].op = doing[s].op /\ doing'[s].template = doing[s].template
               /\ doing'[s].show = doing[s].show
            \/ "members" \in none /\ doing'[s] = Idle
  <1>1. CASE "members" \notin none
    <2> DEFINE list == none \cup {"members"}
               q1 == [doing[s] EXCEPT !.stage = "open"]
               q2 == [q1 EXCEPT !.seen = none]
               q == [doing[s] EXCEPT !.stage = "open", !.seen = none, !.to = list]
    <2>1. Becomes(s, q)
      BY <1>1 DEF readMemberList
    <2>2. list \subseteq Doors
      BY DoorsAre
    <2>3. list = none \cup {"members"}
      OBVIOUS
    <2> HIDE DEF list
    <2>4. q \in Requests
      <3>1. q1 \in Requests
        BY StageChanged DEF Stages
      <3>2. q2 \in Requests
        BY <3>1, SeenChanged
      <3>3. [q2 EXCEPT !.to = list] \in Requests
        BY <2>2, <3>2, ToChanged
      <3> QED
        BY <3>3
    <2>5. /\ q.stage = "open" /\ q.seen = none /\ q.to = list /\ q.op = doing[s].op
          /\ q.template = doing[s].template /\ q.show = doing[s].show
      BY SMTT(30) DEF Requests
    <2> HIDE DEF q
    <2> QED
      BY <1>1, <2>1, <2>3, <2>4, <2>5, BecomesIs
  <1>2. CASE "members" \in none
    <2>1. Done(s)
      BY <1>2 DEF readMemberList
    <2> QED
      BY <1>2, <2>1, DoneIs
  <1> QED
    BY <1>1, <1>2

LEMMA OpenIs ==
  ASSUME doing \in [Slots -> Requests], NEW s \in Slots, openMemberList(s)
  PROVE  /\ doing' \in [Slots -> Requests]
         /\ \A p \in Slots : p # s => doing'[p] = doing[p]
         /\ doing'[s].stage = "read" /\ doing'[s].seen = doing[s].seen
         /\ doing'[s].op = doing[s].op /\ doing'[s].to = doing[s].to
         /\ doing'[s].template = doing[s].template
  <1> DEFINE q1 == [doing[s] EXCEPT !.stage = "read"]
             q == [doing[s] EXCEPT !.stage = "read", !.show = "same"]
  <1>1. q \in Requests
    <2>1. q1 \in Requests
      BY StageChanged DEF Stages
    <2>2. [q1 EXCEPT !.show = "same"] \in Requests
      BY <2>1, ShowChanged
    <2> QED
      BY <2>2
  <1>2. /\ q.stage = "read" /\ q.seen = doing[s].seen /\ q.op = doing[s].op
        /\ q.to = doing[s].to /\ q.template = doing[s].template
    BY SMTT(30) DEF Requests
  <1>3. Becomes(s, q)
    BY DEF openMemberList
  <1> HIDE DEF q
  <1> QED
    BY <1>1, <1>2, <1>3, BecomesIs

-----------------------------------------------------------------------------
(***************************************************************************)
(* What is known of a request when it is asked.                            *)
(***************************************************************************)
Fresh(q) ==
  /\ Fits(q) /\ ~HalfWay(q) /\ q.stage # "commit" /\ q.seen = {}
  /\ ~seeded => q.stage = "copy"
  /\ q.stage = "copy" => ~seeded
  /\ q.stage = "copy" /\ "members" \in columns => q.show = "open"

LEMMA AskingIs ==
  ASSUME IInv, NEW s \in Slots, Asking(s)
  PROVE  \E q \in Requests : Ask(s, q) /\ Fresh(q)
  <1>0. Level(columns) \in Levels
    BY LevelIsOne
  <1>t. \A t \in Templates : templates[t] \in SUBSET Doors /\ Sighted(templates[t])
                              /\ Level(templates[t]) = Level(Default[t])
    BY DEF IInv, TypeOK, TemplatesFit
  <1>1. ASSUME NEW rights \in Asks, NEW may \in Mays, updateGroupRole(s, rights, may)
        PROVE  \E q \in Requests : Ask(s, q) /\ Fresh(q)
    <2> DEFINE to == storableRights(withImpliedRights(rights))
               level == Level(columns)
               q == Request("update", "write", to, "same", "same", may, level)
    <2>0. rights \in SUBSET Doors /\ may \in SUBSET Levels
      BY DEF AccessAssumption
    <2>1. to \in SUBSET Doors /\ Sighted(to) /\ Level(to) = Level(withImpliedRights(rights))
      BY <2>0, StorableIs
    <2>2. Ask(s, q) /\ seeded
      BY <1>1 DEF updateGroupRole
    <2>3. MorePrivate(Level(to), level) => Level(to) \in may
      BY <1>1, <2>1 DEF updateGroupRole, requirePrivacyCap
    <2>4. level \in Levels
      BY <1>0
    <2> HIDE DEF to, level
    <2>r. q \in Requests
      BY <2>0, <2>1, <2>4, SMTT(30) DEF Request, Requests
    <2>5. /\ q.op = "update" /\ q.stage = "write" /\ q.to = to /\ q.seen = {}
          /\ q.may = may /\ q.level = level
      BY SMTT(30) DEF Request
    <2> HIDE DEF q
    <2>6. Fresh(q)
      BY <2>1, <2>2, <2>3, <2>5 DEF Fresh, Fits, StageOf, HalfWay
    <2> QED
      BY <2>2, <2>r, <2>6
  <1>2. ASSUME NEW other \in Others, updateOtherGroupRole(s, other)
        PROVE  \E q \in Requests : Ask(s, q) /\ Fresh(q)
    <2> DEFINE level == Level(columns)
               q == Request("edit", other, {}, "same", "same", {}, level)
    <2>2. Ask(s, q) /\ seeded
      BY <1>2 DEF updateOtherGroupRole
    <2>4. level \in Levels
      BY <1>0
    <2> HIDE DEF level
    <2>r. q \in Requests
      BY <2>4, SMTT(30) DEF Request, Requests, Others
    <2>5. q.op = "edit" /\ q.stage = other /\ q.to = {} /\ q.seen = {}
      BY SMTT(30) DEF Request
    <2> HIDE DEF q
    <2>6. Fresh(q)
      BY <2>2, <2>5 DEF Fresh, Fits, StageOf, HalfWay, Others, Sighted
    <2> QED
      BY <2>2, <2>r, <2>6
  <1>3. ASSUME NEW t \in Templates, applyGroupRoleTemplates(s, t)
        PROVE  \E q \in Requests : Ask(s, q) /\ Fresh(q)
    <2> DEFINE to == templates[t]
               level == Level(columns)
               q == Request("apply", "admin", to, t, "same", {}, level)
    <2>1. to \in SUBSET Doors /\ Sighted(to) /\ Level(to) = Level(Default[t])
      BY <1>t
    <2>2. Ask(s, q) /\ seeded
      BY <1>3 DEF applyGroupRoleTemplates
    <2>4. level \in Levels
      BY <1>0
    <2> HIDE DEF to, level
    <2>r. q \in Requests
      BY <2>1, <2>4, SMTT(30) DEF Request, Requests
    <2>5. /\ q.op = "apply" /\ q.stage = "admin" /\ q.to = to /\ q.seen = {}
          /\ q.template = t
      BY SMTT(30) DEF Request
    <2> HIDE DEF q
    <2>6. Fresh(q)
      BY <2>1, <2>2, <2>5 DEF Fresh, Fits, StageOf, HalfWay
    <2> QED
      BY <2>2, <2>r, <2>6
  <1>4. ASSUME NEW t \in Templates, NEW may \in Mays, resetGroupRoles(s, t, may)
        PROVE  \E q \in Requests : Ask(s, q) /\ Fresh(q)
    <2> DEFINE to == templates[t]
               level == Level(columns)
               q == Request("reset", "admin", to, t, "same", may, level)
    <2>0. may \in SUBSET Levels
      BY DEF AccessAssumption
    <2>1. to \in SUBSET Doors /\ Sighted(to) /\ Level(to) = Level(Default[t])
      BY <1>t
    <2>2. Ask(s, q) /\ seeded
      BY <1>4 DEF resetGroupRoles
    <2>3. MorePrivate(Level(to), level) => Level(to) \in may
      BY <1>4 DEF resetGroupRoles, requirePrivacyCap
    <2>4. level \in Levels
      BY <1>0
    <2> HIDE DEF to, level
    <2>r. q \in Requests
      BY <2>0, <2>1, <2>4, SMTT(30) DEF Request, Requests
    <2>5. /\ q.op = "reset" /\ q.stage = "admin" /\ q.to = to /\ q.seen = {}
          /\ q.template = t /\ q.may = may /\ q.level = level
      BY SMTT(30) DEF Request
    <2> HIDE DEF q
    <2>6. Fresh(q)
      BY <2>1, <2>2, <2>3, <2>5 DEF Fresh, Fits, StageOf, HalfWay
    <2> QED
      BY <2>2, <2>r, <2>6
  <1>5. ASSUME NEW t \in Levels \cup {"same"}, NEW show \in {"same", "open", "close"},
               NEW may \in Mays, UpdateGroup(s, t, show, may)
        PROVE  \E q \in Requests : Ask(s, q) /\ Fresh(q)
    <2> DEFINE level == Level(columns)
               q == Request("save", "begin", {}, t, show, may, level)
    <2>0. may \in SUBSET Levels /\ t \in Templates \cup {"same"}
      BY DoorsAre DEF AccessAssumption
    <2>2. Ask(s, q) /\ seeded
      BY <1>5 DEF UpdateGroup
    <2>3. t # "same" /\ MorePrivate(t, level) => t \in may
      BY <1>5 DEF UpdateGroup, requirePrivacyCap
    <2>4. level \in Levels
      BY <1>0
    <2> HIDE DEF level
    <2>r. q \in Requests
      BY <2>0, <2>4, SMTT(30) DEF Request, Requests
    <2>5. /\ q.op = "save" /\ q.stage = "begin" /\ q.to = {} /\ q.seen = {}
          /\ q.template = t /\ q.may = may /\ q.level = level
      BY SMTT(30) DEF Request
    <2> HIDE DEF q
    <2>6. Fresh(q)
      BY <2>2, <2>3, <2>5 DEF Fresh, Fits, StageOf, HalfWay, Sighted
    <2> QED
      BY <2>2, <2>r, <2>6
  <1>6. ASSUME seedRolesForGroupsWithoutRoles(s)
        PROVE  \E q \in Requests : Ask(s, q) /\ Fresh(q)
    <2> DEFINE show == IF "members" \in columns THEN "open" ELSE "same"
               level == Level(columns)
               q == Request("boot", "copy", {}, template, show, {}, level)
    <2>0. template \in Templates
      BY DEF IInv, TypeOK
    <2>1. show \in {"same", "open", "close"} /\ ("members" \in columns => show = "open")
      OBVIOUS
    <2>2. Ask(s, q) /\ ~seeded
      BY <1>6 DEF seedRolesForGroupsWithoutRoles
    <2>4. level \in Levels
      BY <1>0
    <2> HIDE DEF level, show
    <2>r. q \in Requests
      BY <2>0, <2>1, <2>4, SMTT(30) DEF Request, Requests
    <2>5. /\ q.op = "boot" /\ q.stage = "copy" /\ q.to = {} /\ q.seen = {}
          /\ q.template = template /\ q.show = show
      BY SMTT(30) DEF Request
    <2> HIDE DEF q
    <2>6. Fresh(q)
      BY <2>0, <2>1, <2>2, <2>5 DEF Fresh, Fits, StageOf, HalfWay, Sighted
    <2> QED
      BY <2>2, <2>r, <2>6
  <1> QED
    BY <1>1, <1>2, <1>3, <1>4, <1>5, <1>6 DEF Asking

-----------------------------------------------------------------------------
(***************************************************************************)
(* Every step leaves requests that fit and templates that do.              *)
(***************************************************************************)
LEMMA IdleFits == Fits(Idle) /\ ~HalfWay(Idle)
  BY IdleIs DEF Fits, StageOf, Sighted, HalfWay

LEMMA FitsOn ==
  ASSUME NEW p, NEW q, Fits(q), SameBut(p, q), StageOf(p.op, p.stage),
         p.stage \notin {"list", "open"}
  PROVE  Fits(p)
  BY DEF Fits, SameBut

LEMMA GoFits ==
  ASSUME IInv, NEW s \in Slots, NEW stage \in Stages, Go(s, stage), stage \notin {"list", "open"},
         StageOf(doing[s].op, stage)
  PROVE  doing' \in [Slots -> Requests] /\ \A p \in Slots : Fits(doing'[p])
  <1>1. doing \in [Slots -> Requests] /\ \A p \in Slots : Fits(doing[p])
    BY DEF IInv, TypeOK
  <1>2. /\ doing' \in [Slots -> Requests]
        /\ \A p \in Slots : p # s => doing'[p] = doing[p]
        /\ doing'[s].stage = stage
        /\ SameBut(doing'[s], doing[s])
    BY <1>1, GoIs
  <1>3. Fits(doing'[s])
    BY <1>1, <1>2, FitsOn DEF SameBut
  <1> QED
    BY <1>1, <1>2, <1>3

LEMMA DoneFits ==
  ASSUME IInv, NEW s \in Slots, Done(s)
  PROVE  doing' \in [Slots -> Requests] /\ \A p \in Slots : Fits(doing'[p])
  BY DoneIs, IdleFits DEF IInv, TypeOK

LEMMA SlotHas ==
  ASSUME IInv, NEW s \in Slots
  PROVE  /\ doing \in [Slots -> Requests] /\ none \subseteq Doors
         /\ doing[s].to \subseteq Doors /\ doing[s].seen \subseteq Doors
         /\ Fits(doing[s])
  <1>1. doing[s] \in Requests
    BY DEF IInv, TypeOK
  <1> QED
    BY <1>1, RequestHas DEF IInv, TypeOK

LEMMA ShownIs ==
  ASSUME NEW rights, NEW show
  PROVE  /\ rights \subseteq Doors => Shown(rights, show) \subseteq Doors
         /\ Level(Shown(rights, show)) = Level(rights)
         /\ "read" \in rights => Sighted(Shown(rights, show))
         /\ Sighted(rights) /\ show # "open" => Sighted(Shown(rights, show))
  <1> DEFINE shown == Shown(rights, show)
  <1>1. \/ show = "open" /\ shown = rights \cup {"members"}
        \/ show # "open" /\ (shown = rights \/ shown = rights \ {"members"})
    BY DEF Shown
  <1> HIDE DEF shown
  <1>2. "read" \in rights <=> "read" \in shown
    BY <1>1
  <1>3. "content" \in rights <=> "content" \in shown
    BY <1>1
  <1>4. Level(shown) = Level(rights)
    BY <1>2, <1>3, LevelIs
  <1>5. rights \subseteq Doors => shown \subseteq Doors
    BY <1>1, DoorsAre
  <1>6. Sighted(rights) /\ show # "open" => Sighted(shown)
    BY <1>1, <1>2 DEF Sighted
  <1> QED
    BY <1>2, <1>4, <1>5, <1>6 DEF shown, Sighted

\* What a saved form writes: what it read, but for the member list, or the
\* template with the list as asked.
LEMMA SavedIs ==
  ASSUME IInv, NEW s \in Slots, At(s, "commit")
  PROVE  /\ setNonMemberMemberListAccess(doing[s]) \subseteq Doors
         /\ Switched(doing[s]) =>
              /\ doing[s].template \in Levels
              /\ Level(setNonMemberMemberListAccess(doing[s])) = doing[s].template
              /\ Sighted(setNonMemberMemberListAccess(doing[s]))
         /\ ~Switched(doing[s]) =>
              /\ Level(setNonMemberMemberListAccess(doing[s])) = Level(doing[s].seen)
              /\ Sighted(doing[s].seen) /\ Level(doing[s].seen) = doing[s].previous =>
                   Sighted(setNonMemberMemberListAccess(doing[s]))
              /\ doing[s].seen = {"members"} =>
                   setNonMemberMemberListAccess(doing[s]) \in {{}, {"members"}}
  <1> DEFINE q == doing[s]
             new == setNonMemberMemberListAccess(q)
             base == applyTemplateToNonMemberRoles(q)
  <1>1. q.op = "save" /\ q.template \in Levels \cup {"same"} /\ q.seen \subseteq Doors
    BY SlotHas DEF At, Fits, StageOf
  <1>2. new = base \/ (ClosedAfter(q) /\ new = Shown(base, q.show))
    BY DEF setNonMemberMemberListAccess
  <1>3. Level(new) = Level(base)
    BY <1>2, ShownIs
  <1>4. CASE Switched(q)
    <2>1. q.template \in Levels /\ base = Default[q.template] /\ q.template # "same"
      BY <1>1, <1>4 DEF Switched, applyTemplateToNonMemberRoles
    <2>2. base \subseteq Doors /\ Sighted(base) /\ Level(base) = q.template
      BY <2>1, DefaultFits, DoorsAre
    <2>3. ClosedAfter(q) => "read" \in base
      BY <2>1, DefaultFits DEF ClosedAfter
    <2>4. new \subseteq Doors /\ Sighted(new)
      BY <1>2, <2>2, <2>3, ShownIs
    <2> QED
      BY <1>3, <1>4, <2>1, <2>2, <2>4
  <1>5. CASE ~Switched(q)
    <2>1. base = q.seen
      BY <1>5 DEF applyTemplateToNonMemberRoles
    <2>2. ClosedAfter(q) => q.previous = "closed"
      BY <1>5 DEF ClosedAfter, Switched
    <2>3. Level(q.seen) = q.previous /\ ClosedAfter(q) => "read" \in base
      BY <2>1, <2>2, ClosedIsSeen
    <2>4. new \subseteq Doors
      BY <1>1, <1>2, <2>1, ShownIs
    <2>5. Sighted(q.seen) /\ Level(q.seen) = q.previous => Sighted(new)
      BY <1>2, <2>1, <2>3, ShownIs
    <2>6. q.seen = {"members"} => new \in {{}, {"members"}}
      BY <1>2, <2>1 DEF Shown
    <2> QED
      BY <1>3, <1>5, <2>1, <2>4, <2>5, <2>6
  <1> QED
    BY <1>4, <1>5

LEMMA RequestsKeepFitting ==
  ASSUME IInv, [Next]_vars
  PROVE  doing' \in [Slots -> Requests] /\ \A p \in Slots : Fits(doing'[p])
  <1>t. doing \in [Slots -> Requests] /\ \A p \in Slots : Fits(doing[p])
    BY DEF IInv, TypeOK
  <1>1. CASE UNCHANGED vars
    BY <1>1, <1>t DEF vars
  <1>2. ASSUME NEW s \in Slots, Asking(s)
        PROVE  doing' \in [Slots -> Requests] /\ \A p \in Slots : Fits(doing'[p])
    <2>1. PICK q \in Requests : Ask(s, q) /\ Fresh(q)
      BY <1>2, AskingIs
    <2> QED
      BY <1>t, <2>1, AskIs DEF Fresh
  <1>3. ASSUME NEW t \in Templates, NEW rights \in Asks, updateGroupRoleTemplate(t, rights)
        PROVE  doing' \in [Slots -> Requests] /\ \A p \in Slots : Fits(doing'[p])
    BY <1>3, <1>t DEF updateGroupRoleTemplate
  <1>4. ASSUME NEW s \in Slots, writeGroupRole(s)
        PROVE  doing' \in [Slots -> Requests] /\ \A p \in Slots : Fits(doing'[p])
    <2>1. Go(s, "read") /\ doing[s].stage = "write"
      BY <1>4 DEF writeGroupRole, At
    <2>2. StageOf(doing[s].op, "read")
      BY <1>t, <2>1 DEF Fits, StageOf
    <2> QED
      BY <2>1, <2>2, GoFits DEF Stages
  <1>5. ASSUME NEW s \in Slots, syncReads(s)
        PROVE  doing' \in [Slots -> Requests] /\ \A p \in Slots : Fits(doing'[p])
    <2>1. /\ doing' \in [Slots -> Requests]
          /\ \A p \in Slots : p # s => doing'[p] = doing[p]
          /\ doing'[s].stage = "sync" /\ SameBut(doing'[s], doing[s])
      BY <1>5, SlotHas, ReadsAre
    <2>2. StageOf(doing'[s].op, "sync")
      BY <1>5, <1>t, <2>1 DEF syncReads, At, Fits, StageOf, SameBut
    <2>3. Fits(doing'[s])
      BY <1>t, <2>1, <2>2, FitsOn
    <2> QED
      BY <1>t, <2>1, <2>3
  <1>6. ASSUME NEW s \in Slots, syncNonMemberAccess(s)
        PROVE  doing' \in [Slots -> Requests] /\ \A p \in Slots : Fits(doing'[p])
    <2>1. CASE Done(s)
      BY <2>1, DoneFits
    <2>2. CASE Go(s, "mark") /\ doing[s].op = "update"
      BY <2>2, GoFits DEF Stages, StageOf
    <2>3. CASE Go(s, "later") /\ doing[s].op \in {"reset", "apply"}
      BY <2>3, GoFits DEF Stages, StageOf
    <2>4. CASE Go(s, "keep") /\ doing[s].op = "boot"
      BY <2>4, GoFits DEF Stages, StageOf
    <2> QED
      BY <1>6, <2>1, <2>2, <2>3, <2>4 DEF syncNonMemberAccess
  <1>7. ASSUME NEW s \in Slots, writeOtherRoles(s)
        PROVE  doing' \in [Slots -> Requests] /\ \A p \in Slots : Fits(doing'[p])
    <2>1. CASE Done(s)
      BY <2>1, DoneFits
    <2>2. CASE Go(s, "mark") /\ doing[s].op = "edit"
      BY <2>2, GoFits DEF Stages, StageOf
    <2>3. CASE Go(s, "write") /\ doing[s].op # "edit" /\ doing[s].stage = "admin"
      <3>1. StageOf(doing[s].op, "write")
        BY <1>t, <2>3 DEF Fits, StageOf
      <3> QED
        BY <2>3, <3>1, GoFits DEF Stages
    <2>4. CASE Go(s, "template") /\ doing[s].op = "reset"
      BY <2>4, GoFits DEF Stages, StageOf
    <2> QED
      BY <1>7, <2>1, <2>2, <2>3, <2>4 DEF writeOtherRoles, At
  <1>8. ASSUME NEW s \in Slots, writeGroupTemplate(s)
        PROVE  doing' \in [Slots -> Requests] /\ \A p \in Slots : Fits(doing'[p])
    <2>1. Go(s, "unmark") /\ doing[s].stage = "template"
      BY <1>8 DEF writeGroupTemplate, At
    <2>2. StageOf(doing[s].op, "unmark")
      BY <1>t, <2>1 DEF Fits, StageOf
    <2> QED
      BY <2>1, <2>2, GoFits DEF Stages
  <1>9. ASSUME NEW s \in Slots, Begin(s)
        PROVE  doing' \in [Slots -> Requests] /\ \A p \in Slots : Fits(doing'[p])
    <2>1. /\ doing' \in [Slots -> Requests]
          /\ \A p \in Slots : p # s => doing'[p] = doing[p]
          /\ doing'[s].stage = "lock" /\ SameBut(doing'[s], doing[s])
      BY <1>9, SlotHas, BeginIs
    <2>2. StageOf(doing'[s].op, "lock")
      BY <1>9, <1>t, <2>1 DEF Begin, At, Fits, StageOf, SameBut
    <2>3. Fits(doing'[s])
      BY <1>t, <2>1, <2>2, FitsOn
    <2> QED
      BY <1>t, <2>1, <2>3
  <1>10. ASSUME NEW s \in Slots, Lock(s)
         PROVE  doing' \in [Slots -> Requests] /\ \A p \in Slots : Fits(doing'[p])
    <2>1. /\ doing' \in [Slots -> Requests]
          /\ \A p \in Slots : p # s => doing'[p] = doing[p]
          /\ doing'[s].stage = "commit" /\ SameBut(doing'[s], doing[s])
      BY <1>10, SlotHas, LockIs
    <2>2. StageOf(doing'[s].op, "commit")
      BY <1>10, <1>t, <2>1 DEF Lock, At, Fits, StageOf, SameBut
    <2>3. Fits(doing'[s])
      BY <1>t, <2>1, <2>2, FitsOn
    <2> QED
      BY <1>t, <2>1, <2>3
  <1>14. ASSUME NEW s \in Slots, seedRolesForNewGroup(s)
         PROVE  doing' \in [Slots -> Requests] /\ \A p \in Slots : Fits(doing'[p])
    <2>1. Go(s, "read") /\ doing[s].stage = "copy"
      BY <1>14 DEF seedRolesForNewGroup, At
    <2>2. StageOf(doing[s].op, "read")
      BY <1>t, <2>1 DEF Fits, StageOf
    <2> QED
      BY <2>1, <2>2, GoFits DEF Stages
  <1>11. ASSUME NEW s \in Slots, keepMemberListOpen(s)
         PROVE  doing' \in [Slots -> Requests] /\ \A p \in Slots : Fits(doing'[p])
    <2>1. /\ doing' \in [Slots -> Requests]
          /\ \A p \in Slots : p # s => doing'[p] = doing[p]
          /\ \/ /\ "read" \in none
                /\ doing'[s].stage = "list" /\ doing'[s].seen = none
                /\ SameBut(doing'[s], doing[s])
             \/ doing'[s] = Idle
      BY <1>11, SlotHas, KeepIs
    <2>2. doing[s].op = "boot" /\ doing[s].template \in Templates
      BY <1>11, <1>t DEF keepMemberListOpen, At, Fits, StageOf
    <2>3. Fits(doing'[s])
      BY <2>1, <2>2, IdleFits DEF Fits, StageOf, SameBut
    <2> QED
      BY <1>t, <2>1, <2>3
  <1>15. ASSUME NEW s \in Slots, readMemberList(s)
         PROVE  doing' \in [Slots -> Requests] /\ \A p \in Slots : Fits(doing'[p])
    <2>1. /\ doing' \in [Slots -> Requests]
          /\ \A p \in Slots : p # s => doing'[p] = doing[p]
          /\ \/ /\ "members" \notin none
                /\ doing'[s].stage = "open" /\ doing'[s].seen = none
                /\ doing'[s].to = none \cup {"members"}
                /\ doing'[s].op = doing[s].op /\ doing'[s].template = doing[s].template
             \/ doing'[s] = Idle
      BY <1>15, SlotHas, ListIs
    <2>2. doing[s].op = "boot" /\ doing[s].template \in Templates
      BY <1>15, <1>t DEF readMemberList, At, Fits, StageOf
    <2>3. Level(none \cup {"members"}) = Level(none)
      BY LevelIs
    <2>4. Fits(doing'[s])
      BY <2>1, <2>2, <2>3, IdleFits DEF Fits, StageOf
    <2> QED
      BY <1>t, <2>1, <2>4
  <1>12. ASSUME NEW s \in Slots, openMemberList(s)
         PROVE  doing' \in [Slots -> Requests] /\ \A p \in Slots : Fits(doing'[p])
    <2>1. /\ doing' \in [Slots -> Requests]
          /\ \A p \in Slots : p # s => doing'[p] = doing[p]
          /\ doing'[s].stage = "read"
          /\ doing'[s].op = doing[s].op /\ doing'[s].to = doing[s].to
          /\ doing'[s].template = doing[s].template
      BY <1>12, SlotHas, OpenIs
    <2>2. doing[s].op = "boot" /\ doing[s].template \in Templates
      BY <1>12, <1>t DEF openMemberList, At, Fits, StageOf
    <2>4. Fits(doing'[s])
      BY <2>1, <2>2 DEF Fits, StageOf
    <2> QED
      BY <1>t, <2>1, <2>4
  <1>13. ASSUME NEW s \in Slots, Done(s)
         PROVE  doing' \in [Slots -> Requests] /\ \A p \in Slots : Fits(doing'[p])
    BY <1>13, DoneFits
  <1> QED
    BY <1>1, <1>2, <1>3, <1>4, <1>5, <1>6, <1>7, <1>8, <1>9, <1>10, <1>11, <1>12, <1>13, <1>14,
      <1>15 DEF Next, Step, markGroupRolesCustomized, markGroupRolesUncustomized, Commit, Fail

LEMMA TemplatesKeepFitting ==
  ASSUME IInv, [Next]_vars
  PROVE  templates' \in [Templates -> SUBSET Doors] /\ TemplatesFit'
  <1>0. templates \in [Templates -> SUBSET Doors] /\ TemplatesFit
    BY DEF IInv, TypeOK
  <1>1. CASE templates' = templates
    BY <1>0, <1>1 DEF TemplatesFit
  <1>2. ASSUME NEW t \in Templates, NEW rights \in Asks, updateGroupRoleTemplate(t, rights)
        PROVE  templates' \in [Templates -> SUBSET Doors] /\ TemplatesFit'
    <2> DEFINE new == storableRights(withImpliedRights(rights))
    <2>1. new \subseteq Doors /\ Sighted(new)
      BY StorableIs DEF AccessAssumption
    <2>2. Level(new) = Level(templates[t]) /\ templates' = [templates EXCEPT ![t] = new]
      BY <1>2 DEF updateGroupRoleTemplate
    <2> HIDE DEF new
    <2>3. Level(new) = Level(Default[t])
      BY <1>0, <2>2 DEF TemplatesFit
    <2>4. \A x \in Templates : templates'[x] = IF x = t THEN new ELSE templates[x]
      BY <1>0, <2>2
    <2>5. templates' \in [Templates -> SUBSET Doors]
      BY <1>0, <2>1, <2>2
    <2> QED
      BY <1>0, <2>1, <2>3, <2>4, <2>5 DEF TemplatesFit
  <1>3. ASSUME NEW s \in Slots, Asking(s)
        PROVE  templates' = templates
    BY <1>3, AskingIs DEF Ask
  <1>4. ASSUME NEW s \in Slots, Step(s)
        PROVE  templates' = templates
    BY <1>4 DEF Step, writeGroupRole, syncReads, syncNonMemberAccess, writeOtherRoles,
      markGroupRolesCustomized, writeGroupTemplate, markGroupRolesUncustomized, Begin, Lock, Commit,
      seedRolesForNewGroup, keepMemberListOpen, readMemberList, openMemberList, Fail
  <1> QED
    BY <1>1, <1>2, <1>3, <1>4 DEF Next, vars

LEMMA TypeKeeps ==
  ASSUME IInv, [Next]_vars
  PROVE  TypeOK'
  <1>t. TypeOK
    BY DEF IInv
  <1>d. doing' \in [Slots -> Requests] /\ templates' \in [Templates -> SUBSET Doors]
    BY RequestsKeepFitting, TemplatesKeepFitting
  <1>1. CASE UNCHANGED vars
    BY <1>1, <1>t DEF TypeOK, vars, role, group
  <1>2. ASSUME NEW s \in Slots, Asking(s), asked < MaxAsked
        PROVE  TypeOK'
    <2>1. PICK q \in Requests : Ask(s, q)
      BY <1>2, AskingIs
    <2>2. asked' \in 0..MaxAsked
      BY <1>2, <1>t, <2>1 DEF Ask, TypeOK, AccessAssumption
    <2> QED
      BY <1>t, <1>d, <2>1, <2>2 DEF TypeOK, Ask, role, group
  <1>3. ASSUME NEW t \in Templates, NEW rights \in Asks, updateGroupRoleTemplate(t, rights),
               asked < MaxAsked
        PROVE  TypeOK'
    <2>1. asked' \in 0..MaxAsked
      BY <1>3, <1>t DEF updateGroupRoleTemplate, TypeOK, AccessAssumption
    <2> QED
      BY <1>3, <1>t, <1>d, <2>1 DEF TypeOK, updateGroupRoleTemplate, role, group
  <1>4. ASSUME NEW s \in Slots, writeGroupRole(s)
        PROVE  TypeOK'
    <2>1. none' \subseteq Doors
      BY <1>4, SlotHas DEF writeGroupRole
    <2>2. own' \subseteq {"none"} \cup Others
      BY <1>4, <1>t DEF writeGroupRole, TypeOK
    <2>3. crossed' \in BOOLEAN /\ wasOpen' \in BOOLEAN
      BY <1>4 DEF writeGroupRole
    <2> QED
      BY <1>4, <1>t, <1>d, <2>1, <2>2, <2>3 DEF TypeOK, writeGroupRole, group
  <1>5. ASSUME NEW s \in Slots, syncReads(s) \/ Begin(s) \/ Lock(s) \/ keepMemberListOpen(s)
        PROVE  TypeOK'
    BY <1>5, <1>t, <1>d DEF TypeOK, syncReads, Begin, Lock, keepMemberListOpen, role, group
  <1>15. ASSUME NEW s \in Slots, readMemberList(s)
         PROVE  TypeOK'
    <2>1. hiddenSince' \in BOOLEAN
      BY <1>15, <1>t DEF readMemberList, TypeOK
    <2> QED
      BY <1>15, <1>t, <1>d, <2>1 DEF TypeOK, readMemberList, role, group
  <1>6. ASSUME NEW s \in Slots, syncNonMemberAccess(s)
        PROVE  TypeOK'
    <2>1. columns' \subseteq Doors \ {"request"}
      BY <1>6, SlotHas DEF syncNonMemberAccess, Mirror
    <2>2. torn' \in BOOLEAN
      BY <1>6 DEF syncNonMemberAccess
    <2> QED
      BY <1>6, <1>t, <1>d, <2>1, <2>2 DEF TypeOK, syncNonMemberAccess, role
  <1>7. ASSUME NEW s \in Slots, writeOtherRoles(s)
        PROVE  TypeOK'
    <2>1. own' \subseteq {"none"} \cup Others
      BY <1>7, <1>t DEF writeOtherRoles, TypeOK
    <2> QED
      BY <1>7, <1>t, <1>d, <2>1 DEF TypeOK, writeOtherRoles, group
  <1>8. ASSUME NEW s \in Slots, markGroupRolesCustomized(s)
        PROVE  TypeOK'
    BY <1>8, <1>t, <1>d DEF TypeOK, markGroupRolesCustomized, role
  <1>9. ASSUME NEW s \in Slots, writeGroupTemplate(s)
        PROVE  TypeOK'
    <2>1. template' \in Templates
      BY <1>9, SlotHas DEF writeGroupTemplate, At, Fits, StageOf
    <2>2. crossed' \in BOOLEAN
      BY <1>9 DEF writeGroupTemplate
    <2> QED
      BY <1>9, <1>t, <1>d, <2>1, <2>2 DEF TypeOK, writeGroupTemplate, role
  <1>10. ASSUME NEW s \in Slots, markGroupRolesUncustomized(s)
         PROVE  TypeOK'
    <2>2. crossed' \in BOOLEAN
      BY <1>10 DEF markGroupRolesUncustomized
    <2> QED
      BY <1>10, <1>t, <1>d, <2>2 DEF TypeOK, markGroupRolesUncustomized, role
  <1>11. ASSUME NEW s \in Slots, Commit(s)
         PROVE  TypeOK'
    <2> DEFINE q == doing[s]
               new == setNonMemberMemberListAccess(q)
    <2>1. new \subseteq Doors /\ (Switched(q) => q.template \in Levels)
      BY <1>11, SavedIs DEF Commit
    <2>2. none' \in {new, none} /\ template' \in {q.template, template}
      BY <1>11 DEF Commit
    <2>3. none' \subseteq Doors
      BY <1>t, <2>1, <2>2 DEF TypeOK
    <2>4. template' \in Templates
      BY <1>11, <1>t, <2>1, DoorsAre DEF Commit, TypeOK
    <2>5. own' \subseteq {"none"} \cup Others
      BY <1>11, <1>t DEF Commit, TypeOK
    <2>6. columns' \in {Mirror(new), Shown(columns, q.show)}
      BY <1>11 DEF Commit
    <2>7. Mirror(new) \subseteq Doors \ {"request"}
      BY <2>1 DEF Mirror
    <2>8. Shown(columns, q.show) \subseteq Doors \ {"request"}
      BY <1>t, DoorsAre DEF Shown, TypeOK
    <2>9. columns' \subseteq Doors \ {"request"}
      BY <2>6, <2>7, <2>8
    <2>10. torn' \in BOOLEAN /\ crossed' \in BOOLEAN /\ wasOpen' \in BOOLEAN
      BY <1>11 DEF Commit
    <2>11. UNCHANGED <<seeded, customized, asked, hiddenSince>>
      BY <1>11 DEF Commit
    <2> QED
      BY <1>t, <1>d, <2>3, <2>4, <2>5, <2>9, <2>10, <2>11 DEF TypeOK
  <1>12. ASSUME NEW s \in Slots, seedRolesForNewGroup(s)
         PROVE  TypeOK'
    <2>1. doing[s].template \in Templates
      BY <1>12, SlotHas DEF seedRolesForNewGroup, At, Fits, StageOf
    <2>2. none' \subseteq Doors
      BY <1>12, <1>t, <2>1 DEF seedRolesForNewGroup, TypeOK
    <2>3. crossed' \in BOOLEAN /\ seeded' \in BOOLEAN
      BY <1>12 DEF seedRolesForNewGroup
    <2> QED
      BY <1>12, <1>t, <1>d, <2>1, <2>2, <2>3 DEF TypeOK, seedRolesForNewGroup
  <1>13. ASSUME NEW s \in Slots, openMemberList(s)
         PROVE  TypeOK'
    <2>1. none' \subseteq Doors
      BY <1>13, SlotHas DEF openMemberList
    <2>2. crossed' \in BOOLEAN
      BY <1>13 DEF openMemberList
    <2> QED
      BY <1>13, <1>t, <1>d, <2>1, <2>2 DEF TypeOK, openMemberList, group
  <1>14. ASSUME NEW s \in Slots, Fail(s)
         PROVE  TypeOK'
    <2>1. torn' \in BOOLEAN /\ crossed' \in BOOLEAN
      BY <1>14 DEF Fail
    <2> QED
      BY <1>14, <1>t, <1>d, <2>1 DEF TypeOK, Fail, role, group
  <1> QED
    BY <1>1, <1>2, <1>3, <1>4, <1>5, <1>6, <1>7, <1>8, <1>9, <1>10, <1>11, <1>12, <1>13, <1>14,
      <1>15 DEF Next, Step

LEMMA IInvKeeps ==
  ASSUME IInv, [Next]_vars
  PROVE  IInv'
  BY TypeKeeps, RequestsKeepFitting, TemplatesKeepFitting DEF IInv

LEMMA InitIInv == Init => IInv
  <1> SUFFICES ASSUME Init PROVE IInv
    OBVIOUS
  <1>0. Init
    OBVIOUS
  <1>1. doing \in [Slots -> Requests] /\ \A s \in Slots : Fits(doing[s])
    BY IdleIs, IdleFits DEF Init
  <1>2. Default \in [Templates -> SUBSET Doors]
    <2>1. Default \in [Templates -> {Default[t] : t \in Templates}]
      BY DEF Default
    <2> QED
      BY <2>1, DefaultFits
  <1>3. templates \in [Templates -> SUBSET Doors] /\ TemplatesFit
    BY <1>2, DefaultFits DEF Init, TemplatesFit
  <1>4. none \subseteq Doors
    <2>1. Default[template] \subseteq Doors
      BY DefaultFits DEF Init
    <2>2. none = {} \/ none = Default[template] \/ none = Default[template] \cup {"members"}
      BY DEF Init
    <2> QED
      BY <2>1, <2>2, DoorsAre
  <1>5. columns \subseteq Doors \ {"request"}
    <2>1. columns = Mirror(none) \/ columns \subseteq {"members"}
      BY DEF Init
    <2>2. "members" \in Doors \ {"request"}
      BY DEF Doors
    <2> QED
      BY <1>4, <2>1, <2>2 DEF Mirror
  <1>6. template \in Templates /\ asked \in 0..MaxAsked
    BY DEF Init, AccessAssumption
  <1>7. /\ seeded \in BOOLEAN /\ customized \in BOOLEAN
        /\ torn \in BOOLEAN /\ crossed \in BOOLEAN
        /\ hiddenSince \in BOOLEAN /\ wasOpen \in BOOLEAN
    BY DEF Init
  <1>8. own \subseteq {"none"} \cup Others
    BY DEF Init
  <1> QED
    BY <1>1, <1>3, <1>4, <1>5, <1>6, <1>7, <1>8 DEF IInv, TypeOK

LEMMA Invariance == Spec => []IInv
  <1>1. IInv /\ [Next]_vars => IInv'
    BY IInvKeeps
  <1> QED
    BY InitIInv, <1>1, PTL DEF Spec

\* The variables of a group keep their types: rights are rights, the columns
\* never hold one that has none, templates and requests are well formed.
THEOREM TypeCorrect == Spec => []TypeOK
  <1>1. IInv => TypeOK
    BY DEF IInv
  <1> QED
    BY Invariance, <1>1, PTL

-----------------------------------------------------------------------------
(***************************************************************************)
(* The columns and the role.                                               *)
(***************************************************************************)
LEMMA OthersStay ==
  ASSUME IInv, NEW s \in Slots, Step(s) \/ Asking(s), NEW p \in Slots, p # s
  PROVE  doing'[p] = doing[p]
  <1>1. CASE Asking(s)
    BY <1>1, AskingIs, AskIs DEF IInv, TypeOK
  <1>2. ASSUME NEW stage, Go(s, stage)
        PROVE  doing'[p] = doing[p]
    BY <1>2 DEF Go, Becomes, IInv, TypeOK
  <1>3. CASE Done(s)
    BY <1>3 DEF Done, Becomes, IInv, TypeOK
  <1>4. CASE syncReads(s)
    BY <1>4, SlotHas, ReadsAre
  <1>5. CASE Begin(s)
    BY <1>5, SlotHas, BeginIs
  <1>6. CASE keepMemberListOpen(s)
    BY <1>6, SlotHas, KeepIs
  <1>7. CASE openMemberList(s)
    BY <1>7, SlotHas, OpenIs
  <1>8. CASE Lock(s)
    BY <1>8, SlotHas, LockIs
  <1>9. CASE readMemberList(s)
    BY <1>9, SlotHas, ListIs
  <1> QED
    BY <1>1, <1>2, <1>3, <1>4, <1>5, <1>6, <1>7, <1>8, <1>9
    DEF Step, writeGroupRole, syncNonMemberAccess, writeOtherRoles, markGroupRolesCustomized,
      writeGroupTemplate, markGroupRolesUncustomized, Commit, seedRolesForNewGroup, Fail

LEMMA StepTo ==
  ASSUME IInv, NEW s \in Slots
  PROVE  /\ writeGroupRole(s) \/ seedRolesForNewGroup(s) \/ openMemberList(s) =>
              doing'[s].stage = "read" /\ doing'[s].op = doing[s].op
         /\ syncReads(s) =>
              doing'[s].stage = "sync" /\ doing'[s].op = doing[s].op
                /\ doing'[s].show = doing[s].show
         /\ writeGroupRole(s) \/ seedRolesForNewGroup(s) => doing'[s].show = doing[s].show
  <1>1. CASE writeGroupRole(s) \/ seedRolesForNewGroup(s)
    <2>1. Go(s, "read") /\ ~syncReads(s) /\ ~openMemberList(s)
      BY <1>1 DEF writeGroupRole, seedRolesForNewGroup, At, syncReads, openMemberList
    <2> QED
      BY <2>1, GoIs, SlotHas DEF Stages, SameBut
  <1>2. CASE syncReads(s)
    <2>1. ~writeGroupRole(s) /\ ~seedRolesForNewGroup(s) /\ ~openMemberList(s)
      BY <1>2 DEF writeGroupRole, seedRolesForNewGroup, At, syncReads, openMemberList
    <2> QED
      BY <1>2, <2>1, SlotHas, ReadsAre DEF SameBut
  <1>3. CASE openMemberList(s)
    <2>1. ~writeGroupRole(s) /\ ~seedRolesForNewGroup(s) /\ ~syncReads(s)
      BY <1>3 DEF writeGroupRole, seedRolesForNewGroup, At, syncReads, openMemberList
    <2> QED
      BY <1>3, <2>1, SlotHas, OpenIs
  <1> QED
    BY <1>1, <1>2, <1>3

LEMMA ColumnsKeep ==
  ASSUME IInv, ColumnsMirrorTheRole, [Next]_vars
  PROVE  ColumnsMirrorTheRole'
  <1>1. CASE UNCHANGED vars
    BY <1>1 DEF ColumnsMirrorTheRole, At, vars, role, group
  <1>2. ASSUME NEW s \in Slots, Asking(s)
        PROVE  ColumnsMirrorTheRole'
    <2>1. doing[s].stage = "idle" /\ UNCHANGED <<seeded, none, columns, torn>>
      BY <1>2, AskingIs, IdleIs DEF Ask, role, group
    <2> QED
      BY <1>2, <2>1, OthersStay DEF ColumnsMirrorTheRole, At
  <1>3. ASSUME NEW t \in Templates, NEW rights \in Asks, updateGroupRoleTemplate(t, rights)
        PROVE  ColumnsMirrorTheRole'
    BY <1>3 DEF updateGroupRoleTemplate, ColumnsMirrorTheRole, At, role, group
  <1>4. ASSUME NEW s \in Slots, writeGroupRole(s) \/ seedRolesForNewGroup(s) \/ openMemberList(s)
        PROVE  ColumnsMirrorTheRole'
    BY <1>4, StepTo DEF ColumnsMirrorTheRole, At
  <1>5. ASSUME NEW s \in Slots, syncReads(s)
        PROVE  ColumnsMirrorTheRole'
    BY <1>5, StepTo DEF ColumnsMirrorTheRole, At
  <1>6. ASSUME NEW s \in Slots, syncNonMemberAccess(s)
        PROVE  ColumnsMirrorTheRole'
    <2>1. columns' = Mirror(doing[s].seen) /\ none' = none /\ torn' = (doing[s].seen # none)
      BY <1>6 DEF syncNonMemberAccess, role
    <2>2. CASE doing[s].seen = none
      BY <2>1, <2>2 DEF ColumnsMirrorTheRole, Mirror
    <2>3. CASE doing[s].seen # none
      BY <2>1, <2>3 DEF ColumnsMirrorTheRole
    <2> QED
      BY <2>2, <2>3
  <1>7. ASSUME NEW s \in Slots,
               \/ writeOtherRoles(s) \/ markGroupRolesCustomized(s) \/ writeGroupTemplate(s)
               \/ markGroupRolesUncustomized(s) \/ Begin(s) \/ Lock(s) \/ keepMemberListOpen(s)
               \/ readMemberList(s)
        PROVE  ColumnsMirrorTheRole'
    <2>1. /\ doing[s].stage # "read" /\ doing[s].stage # "sync"
          /\ UNCHANGED <<seeded, none, columns, torn>>
      BY <1>7 DEF At, Others, writeOtherRoles, markGroupRolesCustomized, writeGroupTemplate,
        markGroupRolesUncustomized, Begin, Lock, keepMemberListOpen, readMemberList, role, group
    <2> QED
      BY <1>7, <2>1, OthersStay DEF Step, ColumnsMirrorTheRole, At
  <1>8. ASSUME NEW s \in Slots, Commit(s)
        PROVE  ColumnsMirrorTheRole'
    <2> DEFINE q == doing[s]
               new == setNonMemberMemberListAccess(q)
               written == Switched(q) \/ new # q.seen
    <2>0. doing[s].stage = "commit" /\ seeded' = seeded
      BY <1>8 DEF Commit, At
    <2>1. CASE written
      <3>1. none' = new /\ columns' = Mirror(new)
        BY <1>8, <2>1 DEF Commit
      <3> QED
        BY <3>1 DEF ColumnsMirrorTheRole, Mirror
    <2>2. CASE ~written
      <3>1. none' = none /\ torn' = (torn \/ columns' # columns)
        BY <1>8, <2>2 DEF Commit
      <3>2. CASE torn'
        BY <3>2 DEF ColumnsMirrorTheRole
      <3>3. CASE ~torn'
        <4>1. ~torn /\ columns' = columns
          BY <3>1, <3>3
        <4> QED
          BY <1>8, <2>0, <3>1, <4>1, OthersStay DEF Step, ColumnsMirrorTheRole, At
      <3> QED
        BY <3>2, <3>3
    <2> QED
      BY <2>1, <2>2
  <1>9. ASSUME NEW s \in Slots, Fail(s)
        PROVE  ColumnsMirrorTheRole'
    <2>1. CASE doing[s].stage \in {"read", "sync"}
      BY <1>9, <2>1 DEF Fail, At, ColumnsMirrorTheRole
    <2>2. CASE doing[s].stage \notin {"read", "sync"}
      <3>1. UNCHANGED <<seeded, none, columns>> /\ (torn => torn')
        BY <1>9 DEF Fail, role, group
      <3> QED
        BY <1>9, <2>2, <3>1, OthersStay DEF Step, ColumnsMirrorTheRole, At
    <2> QED
      BY <2>1, <2>2
  <1> QED
    BY <1>1, <1>2, <1>3, <1>4, <1>5, <1>6, <1>7, <1>8, <1>9 DEF Next, Step

\* For any number of requests the columns agree with the none role, unless
\* somebody is bringing them up to date, broke off, worked from an old
\* reading or wrote round the role.
THEOREM ColumnsMirrorTheRoleHolds == Spec => []ColumnsMirrorTheRole
  <1>1. Init => ColumnsMirrorTheRole
    BY DEF Init, ColumnsMirrorTheRole, Mirror
  <1>2. IInv /\ ColumnsMirrorTheRole /\ [Next]_vars => ColumnsMirrorTheRole'
    BY ColumnsKeep
  <1> QED
    BY Invariance, <1>1, <1>2, PTL DEF Spec

-----------------------------------------------------------------------------
(***************************************************************************)
(* No right without sight.                                                 *)
(***************************************************************************)
LEMMA SightKeeps ==
  ASSUME IInv, SightInv, [Next]_vars
  PROVE  SightInv'
  <1>t. \A p \in Slots : /\ doing[p].seen \in Admitted
                         /\ doing[p].stage = "open" => doing[p].to \in Admitted
    BY DEF SightInv
  <1>n. none \in Admitted
    BY DEF SightInv
  <1>1. CASE UNCHANGED vars
    BY <1>1 DEF SightInv, Admitted, vars, role
  <1>2. ASSUME NEW s \in Slots, Asking(s)
        PROVE  SightInv'
    <2>1. PICK q \in Requests : Ask(s, q) /\ Fresh(q)
      BY <1>2, AskingIs
    <2>2. doing'[s] = q /\ UNCHANGED <<none, crossed, hiddenSince>>
      BY <2>1, AskIs, SlotHas DEF Ask, role
    <2>3. q.seen = {} /\ q.stage # "open"
      BY <2>1 DEF Fresh, HalfWay
    <2> QED
      BY <1>2, <1>t, <1>n, <2>2, <2>3, OthersStay DEF SightInv, Admitted, Sighted
  <1>3. ASSUME NEW t \in Templates, NEW rights \in Asks, updateGroupRoleTemplate(t, rights)
        PROVE  SightInv'
    BY <1>3 DEF updateGroupRoleTemplate, SightInv, Admitted, role
  <1>4. ASSUME NEW s \in Slots, Step(s)
        PROVE  (crossed => crossed') /\ (hiddenSince => hiddenSince')
    <2>1. hiddenSince => hiddenSince'
      BY <1>4 DEF Step, writeGroupRole, syncReads, syncNonMemberAccess, writeOtherRoles,
        markGroupRolesCustomized, writeGroupTemplate, markGroupRolesUncustomized, Begin, Lock,
        Commit, seedRolesForNewGroup, keepMemberListOpen, readMemberList, openMemberList, Fail
    <2>2. crossed => crossed'
      BY <1>4 DEF Step, writeGroupRole, syncReads, syncNonMemberAccess, writeOtherRoles,
        markGroupRolesCustomized, writeGroupTemplate, markGroupRolesUncustomized, Begin, Lock,
        Commit, seedRolesForNewGroup, keepMemberListOpen, readMemberList, openMemberList, Fail
    <2> QED
      BY <2>1, <2>2
  <1>5. ASSUME NEW s \in Slots, Step(s)
        PROVE  /\ doing'[s].seen \in {doing[s].seen, none, {}}
               /\ doing'[s].stage = "open" => readMemberList(s)
    <2>1. ASSUME NEW stage \in Stages \ {"open"}, Go(s, stage)
          PROVE  doing'[s].seen = doing[s].seen /\ doing'[s].stage # "open"
      BY <2>1, GoIs, SlotHas
    <2>2. Done(s) => doing'[s].seen = {} /\ doing'[s].stage # "open"
      BY DoneIs, SlotHas, IdleIs
    <2> QED
      BY <1>5, <2>1, <2>2, SlotHas, ReadsAre, BeginIs, LockIs, KeepIs, ListIs, OpenIs, IdleIs
      DEF Step, Stages, writeGroupRole, syncNonMemberAccess, writeOtherRoles,
        markGroupRolesCustomized, writeGroupTemplate, markGroupRolesUncustomized, Commit,
        seedRolesForNewGroup, Fail
  \* A boot that looked before the group was hidden adds the list to nothing.
  <1>6. ASSUME NEW s \in Slots, readMemberList(s), doing'[s].stage = "open"
        PROVE  doing'[s].to \in Admitted'
    <2>1. "members" \notin none /\ doing'[s].to = none \cup {"members"}
      BY <1>6, SlotHas, ListIs, IdleIs
    <2>2. "read" \in doing[s].seen
      BY <1>6, SlotHas DEF readMemberList, At, Fits
    <2>3. "read" \notin none => hiddenSince'
      BY <1>6, <2>1, <2>2 DEF readMemberList
    <2>4. crossed' = crossed
      BY <1>6 DEF readMemberList
    <2>5. none = {} \/ "read" \in none \/ crossed
      BY <1>n, <2>1 DEF Admitted, Sighted
    <2>6. none \cup {"members"} \in SUBSET Doors
      BY SlotHas, DoorsAre
    <2>7. Sighted(none \cup {"members"}) \/ crossed' \/ (hiddenSince' /\ none = {})
      BY <2>3, <2>4, <2>5 DEF Sighted
    <2> QED
      BY <2>1, <2>6, <2>7 DEF Admitted
  <1>7. ASSUME NEW s \in Slots, Step(s)
        PROVE  none' \in Admitted'
    <2>0. none' \in Admitted' <=>
            Sighted(none') \/ crossed' \/ (hiddenSince' /\ none' = {"members"})
      <3>1. none' \in SUBSET Doors
        BY <1>7, TypeKeeps DEF Next, TypeOK
      <3> QED
        BY <3>1 DEF Admitted
    <2>m. (crossed => crossed') /\ (hiddenSince => hiddenSince')
      BY <1>4, <1>7
    <2>s. none' = none => none' \in Admitted'
      BY <1>n, <2>0, <2>m DEF Admitted, Sighted
    <2>1. CASE writeGroupRole(s)
      BY <2>0, <2>1, SlotHas DEF writeGroupRole, At, Fits, StageOf
    <2>2. CASE openMemberList(s)
      <3>0. none' = doing[s].to /\ doing[s].stage = "open"
        BY <2>2 DEF openMemberList, At
      <3>1. none' = doing[s].to /\ doing[s].to \in Admitted
        BY <1>t, <3>0
      <3> QED
        BY <2>0, <2>m, <3>1 DEF Admitted
    <2>3. CASE \/ syncReads(s) \/ syncNonMemberAccess(s) \/ writeOtherRoles(s)
               \/ markGroupRolesCustomized(s) \/ writeGroupTemplate(s)
               \/ markGroupRolesUncustomized(s) \/ Begin(s) \/ Lock(s)
               \/ keepMemberListOpen(s) \/ readMemberList(s) \/ Fail(s)
      <3>1. none' = none
        BY <2>3 DEF syncReads, syncNonMemberAccess, writeOtherRoles, markGroupRolesCustomized,
          writeGroupTemplate, markGroupRolesUncustomized, Begin, Lock, keepMemberListOpen,
          readMemberList, Fail, role
      <3> QED
        BY <2>s, <3>1
    <2>4. CASE Commit(s)
      <3> DEFINE q == doing[s]
                 new == setNonMemberMemberListAccess(q)
                 written == Switched(q) \/ new # q.seen
      <3>0. At(s, "commit")
        BY <2>4 DEF Commit
      <3>1. CASE Switched(q)
        BY <2>0, <2>4, <3>0, <3>1, SavedIs DEF Commit
      <3>2. CASE ~Switched(q) /\ new # q.seen
        <4>1. none' = new /\ (Level(q.seen) # q.previous => crossed')
          BY <2>4, <3>2 DEF Commit
        <4>2. CASE Sighted(q.seen) \/ crossed
          BY <2>0, <2>m, <3>0, <3>2, <4>1, <4>2, SavedIs
        <4>3. CASE hiddenSince /\ q.seen = {"members"}
          <5>1. new \in {{}, {"members"}}
            BY <3>0, <3>2, <4>3, SavedIs
          <5> QED
            BY <2>0, <2>m, <4>1, <4>3, <5>1 DEF Sighted
        <4>4. q.seen \in Admitted
          BY <1>t
        <4> QED
          BY <4>2, <4>3, <4>4 DEF Admitted
      <3>3. CASE ~written
        <4>1. none' = none
          BY <2>4, <3>3 DEF Commit
        <4> QED
          BY <2>s, <4>1
      <3> QED
        BY <3>1, <3>2, <3>3
    <2>5. CASE seedRolesForNewGroup(s)
      <3>1. none' = none \/ none' = templates[doing[s].template]
        BY <2>5 DEF seedRolesForNewGroup
      <3>2. doing[s].template \in Templates
        BY <2>5, SlotHas DEF seedRolesForNewGroup, At, Fits, StageOf
      <3> QED
        BY <2>0, <2>s, <3>1, <3>2 DEF IInv, TemplatesFit
    <2> QED
      BY <1>7, <2>1, <2>2, <2>3, <2>4, <2>5 DEF Step
  <1>8. ASSUME NEW s \in Slots, Step(s)
        PROVE  SightInv'
    <2>m. (crossed => crossed') /\ (hiddenSince => hiddenSince')
      BY <1>4, <1>8
    <2>a. ASSUME NEW rights, rights \in Admitted
          PROVE  rights \in Admitted'
      BY <2>m, <2>a DEF Admitted
    <2>1. \A p \in Slots : doing'[p].seen \in Admitted'
      <3>1. {} \in Admitted
        BY DEF Admitted, Sighted
      <3>2. ASSUME NEW p \in Slots
            PROVE  doing'[p].seen \in {doing[p].seen, none, {}}
        BY <1>5, <1>8, OthersStay
      <3>3. ASSUME NEW p \in Slots
            PROVE  doing'[p].seen \in Admitted
        BY <1>t, <1>n, <3>1, <3>2
      <3> QED
        BY <2>a, <3>3
    <2>2. \A p \in Slots : doing'[p].stage = "open" => doing'[p].to \in Admitted'
      <3>1. doing'[s].stage = "open" => doing'[s].to \in Admitted'
        BY <1>5, <1>6, <1>8
      <3>2. ASSUME NEW p \in Slots, p # s, doing'[p].stage = "open"
            PROVE  doing'[p].to \in Admitted'
        <4>1. doing'[p] = doing[p]
          BY <1>8, <3>2, OthersStay
        <4>2. doing'[p].to \in Admitted
          BY <1>t, <3>2, <4>1
        <4> QED
          BY <2>a, <4>2
      <3> QED
        BY <3>1, <3>2
    <2> QED
      BY <1>7, <1>8, <2>1, <2>2 DEF SightInv
  <1> QED
    BY <1>1, <1>2, <1>3, <1>8 DEF Next

\* Whoever wrote last, strangers have no right in a group they cannot see,
\* unless a request wrote over what it had not seen or broke off - or a boot
\* looked before the group was hidden, and then it is the member list alone.
THEOREM NothingWithoutSightHolds == Spec => []NothingWithoutSight
  <1>1. Init => SightInv
    <2> SUFFICES ASSUME Init PROVE SightInv
      OBVIOUS
    <2>0. Init
      OBVIOUS
    <2>1. \A s \in Slots : doing[s].seen = {} /\ doing[s].stage = "idle"
      BY IdleIs DEF Init
    <2>2. Sighted(none)
      <3>1. \/ none = {} \/ none = Default[template]
            \/ template = "closed" /\ none = Default["closed"] \cup {"members"}
        BY DEF Init
      <3>2. Sighted(Default[template])
        BY DefaultFits DEF Init
      <3> QED
        BY <3>1, <3>2, DefaultFits DEF Sighted
    <2>3. none \in SUBSET Doors
      BY InitIInv DEF IInv, TypeOK
    <2> QED
      BY <2>1, <2>2, <2>3 DEF SightInv, Admitted, Sighted
  <1>2. IInv /\ SightInv /\ [Next]_vars => SightInv'
    BY SightKeeps
  <1>3. SightInv => NothingWithoutSight
    BY DEF SightInv, Admitted, Sighted, NothingWithoutSight
  <1> QED
    BY Invariance, <1>1, <1>2, <1>3, PTL DEF Spec

-----------------------------------------------------------------------------
(***************************************************************************)
(* What the group has written itself is marked.                            *)
(***************************************************************************)
LEMMA OwnKeeps ==
  ASSUME IInv, OwnInv, [Next]_vars
  PROVE  OwnInv'
  <1>1. CASE UNCHANGED vars
    BY <1>1 DEF OwnInv, Under, vars, role, group
  <1>2. ASSUME NEW s \in Slots, Asking(s)
        PROVE  OwnInv'
    <2>1. ~HalfWay(doing[s]) /\ UNCHANGED <<own, customized, crossed>>
      BY <1>2, AskingIs, IdleFits DEF Ask, role, group
    <2> QED
      BY <1>2, <2>1, OthersStay DEF OwnInv, Under
  <1>3. ASSUME NEW t \in Templates, NEW rights \in Asks, updateGroupRoleTemplate(t, rights)
        PROVE  OwnInv'
    BY <1>3 DEF updateGroupRoleTemplate, OwnInv, Under, role, group
  <1>f. ASSUME NEW s \in Slots, Step(s), customized' = customized, crossed => crossed',
               "none" \in own' => "none" \in own, own' \cap Others \subseteq own,
               \/ doing[s].op \notin {"update", "edit"} \/ ~HalfWay(doing[s]) \/ crossed'
               \/ doing'[s].op = doing[s].op /\ HalfWay(doing'[s])
        PROVE  OwnInv'
    <2>1. ASSUME NEW op \in {"update", "edit"}, NEW p \in Slots, Under(p, {op})
          PROVE  crossed' \/ (doing'[p].op = op /\ HalfWay(doing'[p]))
      BY <1>f, <2>1, OthersStay DEF Under
    <2>2. \A op \in {"update", "edit"} : (\E p \in Slots : Under(p, {op})) =>
            crossed' \/ \E p \in Slots : doing'[p].op = op /\ HalfWay(doing'[p])
      BY <2>1
    <2> QED
      BY <1>f, <2>2 DEF OwnInv, Under
  <1>4. ASSUME NEW s \in Slots, writeGroupRole(s)
        PROVE  OwnInv'
    <2>1. /\ doing'[s].stage = "read" /\ doing'[s].op = doing[s].op
          /\ UNCHANGED <<customized>> /\ (crossed => crossed')
      BY <1>4, StepTo DEF writeGroupRole, group
    <2>2. CASE doing[s].op = "update"
      <3>1. own' = own \cup {"none"} /\ HalfWay(doing'[s]) /\ doing'[s].op = "update"
        BY <1>4, <2>1, <2>2 DEF writeGroupRole, HalfWay
      <3>2. own' \cap Others = own \cap Others
        BY <3>1 DEF Others
      <3>3. \A p \in Slots : Under(p, {"edit"}) => doing'[p] = doing[p]
        BY <1>4, <2>2, OthersStay DEF Step, Under
      <3>4. (\E p \in Slots : Under(p, {"edit"})) =>
              \E p \in Slots : doing'[p].op \in {"edit"} /\ HalfWay(doing'[p])
        BY <3>3 DEF Under
      <3> QED
        BY <2>1, <3>1, <3>2, <3>4 DEF OwnInv, Under
    <2>3. CASE doing[s].op # "update"
      <3>1. own' \subseteq own /\ ~HalfWay(doing[s])
        BY <1>4, <2>3 DEF writeGroupRole, At, HalfWay
      <3> QED
        BY <1>4, <1>f, <2>1, <3>1 DEF Step
    <2> QED
      BY <2>2, <2>3
  <1>5. ASSUME NEW s \in Slots, syncReads(s)
        PROVE  OwnInv'
    <2>1. /\ doing'[s].stage = "sync" /\ doing'[s].op = doing[s].op
          /\ UNCHANGED <<own, customized, crossed>>
      BY <1>5, StepTo DEF syncReads, role, group
    <2> QED
      BY <1>5, <1>f, <2>1 DEF Step, HalfWay
  <1>6. ASSUME NEW s \in Slots, syncNonMemberAccess(s)
        PROVE  OwnInv'
    <2>1. UNCHANGED <<own, customized, crossed>>
      BY <1>6 DEF syncNonMemberAccess, role
    <2>2. CASE doing[s].op = "update"
      <3>1. Go(s, "mark")
        BY <1>6, <2>2 DEF syncNonMemberAccess
      <3>2. doing'[s].stage = "mark" /\ doing'[s].op = doing[s].op
        BY <3>1, GoIs, SlotHas DEF Stages, SameBut
      <3> QED
        BY <1>6, <1>f, <2>1, <3>2 DEF Step, HalfWay
    <2>3. CASE doing[s].op # "update"
      <3>1. doing[s].op # "edit"
        BY <1>6, SlotHas DEF syncNonMemberAccess, At, Fits, StageOf
      <3> QED
        BY <1>6, <1>f, <2>1, <2>3, <3>1 DEF Step
    <2> QED
      BY <2>2, <2>3
  <1>7. ASSUME NEW s \in Slots, writeOtherRoles(s)
        PROVE  OwnInv'
    <2>0. UNCHANGED <<customized, crossed>>
      BY <1>7 DEF writeOtherRoles, group
    <2>1. PICK other \in Others :
            /\ doing[s].stage = other
            /\ own' = IF doing[s].op = "edit" THEN own \cup {other} ELSE own \ {other}
      BY <1>7 DEF writeOtherRoles, At
    <2>2. CASE doing[s].op = "edit"
      <3>1. Go(s, "mark")
        BY <1>7, <2>2 DEF writeOtherRoles
      <3>2. doing'[s].stage = "mark" /\ doing'[s].op = "edit"
        BY <2>2, <3>1, GoIs, SlotHas DEF Stages, SameBut
      <3>3. HalfWay(doing'[s])
        BY <3>2 DEF HalfWay
      <3>4. "none" \in own' => "none" \in own
        BY <2>1 DEF Others
      <3>5. \A p \in Slots : Under(p, {"update"}) => doing'[p] = doing[p]
        BY <1>7, <2>2, OthersStay DEF Step, Under
      <3>6. (\E p \in Slots : Under(p, {"update"})) =>
              \E p \in Slots : doing'[p].op \in {"update"} /\ HalfWay(doing'[p])
        BY <3>5 DEF Under
      <3> QED
        BY <2>0, <3>2, <3>3, <3>4, <3>6 DEF OwnInv, Under
    <2>3. CASE doing[s].op # "edit"
      <3>1. doing[s].op # "update"
        BY <2>1, SlotHas DEF Others, Fits, StageOf
      <3>2. own' \subseteq own
        BY <2>1, <2>3
      <3> QED
        BY <1>7, <1>f, <2>0, <2>3, <3>1, <3>2 DEF Step
    <2> QED
      BY <2>2, <2>3
  <1>8. ASSUME NEW s \in Slots, markGroupRolesCustomized(s)
        PROVE  OwnInv'
    <2>1. customized' = TRUE
      BY <1>8 DEF markGroupRolesCustomized
    <2> QED
      BY <2>1 DEF OwnInv
  <1>9. ASSUME NEW s \in Slots, writeGroupTemplate(s)
        PROVE  OwnInv'
    <2>1. /\ UNCHANGED <<own, customized>> /\ (crossed => crossed')
          /\ doing[s].stage = "template"
      BY <1>9 DEF writeGroupTemplate, role, At
    <2>2. doing[s].op \notin {"update", "edit"}
      BY <2>1, SlotHas DEF Fits, StageOf
    <2> QED
      BY <1>9, <1>f, <2>1, <2>2 DEF Step
  <1>10. ASSUME NEW s \in Slots, markGroupRolesUncustomized(s)
         PROVE  OwnInv'
    <2>1. own' = own /\ crossed' = (crossed \/ own # {})
      BY <1>10 DEF markGroupRolesUncustomized, role
    <2>2. CASE own = {}
      BY <2>1, <2>2 DEF OwnInv
    <2>3. CASE own # {}
      BY <2>1, <2>3 DEF OwnInv
    <2> QED
      BY <2>2, <2>3
  <1>11. ASSUME NEW s \in Slots, Begin(s) \/ Lock(s) \/ Commit(s)
         PROVE  OwnInv'
    <2>1. own' \subseteq own /\ UNCHANGED <<customized>> /\ (crossed => crossed')
      <3>1. CASE Begin(s) \/ Lock(s)
        BY <3>1 DEF Begin, Lock, role, group
      <3>2. CASE Commit(s)
        <4>1. own' = own \/ own' = own \ {"none"}
          BY <3>2 DEF Commit
        <4>2. UNCHANGED <<customized>> /\ (crossed => crossed')
          BY <3>2 DEF Commit
        <4> QED
          BY <4>1, <4>2
      <3> QED
        BY <1>11, <3>1, <3>2
    <2>2. ~HalfWay(doing[s])
      BY <1>11 DEF Begin, Lock, Commit, At, HalfWay
    <2> QED
      BY <1>11, <1>f, <2>1, <2>2 DEF Step
  <1>12. ASSUME NEW s \in Slots,
                \/ seedRolesForNewGroup(s) \/ keepMemberListOpen(s) \/ readMemberList(s)
                \/ openMemberList(s)
         PROVE  OwnInv'
    <2>1. UNCHANGED <<own, customized>> /\ (crossed => crossed')
      <3>1. CASE seedRolesForNewGroup(s)
        BY <3>1 DEF seedRolesForNewGroup
      <3>2. CASE keepMemberListOpen(s) \/ readMemberList(s)
        BY <3>2 DEF keepMemberListOpen, readMemberList, role, group
      <3>3. CASE openMemberList(s)
        BY <3>3 DEF openMemberList, group
      <3> QED
        BY <1>12, <3>1, <3>2, <3>3
    <2>2. doing[s].op = "boot"
      BY <1>12, SlotHas DEF seedRolesForNewGroup, keepMemberListOpen, readMemberList, openMemberList, At, Fits,
        StageOf
    <2> QED
      BY <1>12, <1>f, <2>1, <2>2 DEF Step
  <1>13. ASSUME NEW s \in Slots, Fail(s)
         PROVE  OwnInv'
    <2>1. UNCHANGED <<own, customized>> /\ (crossed => crossed')
      BY <1>13 DEF Fail, role, group
    <2>2. HalfWay(doing[s]) => crossed'
      BY <1>13 DEF Fail
    <2> QED
      BY <1>13, <1>f, <2>1, <2>2 DEF Step
  <1> QED
    BY <1>1, <1>2, <1>3, <1>4, <1>5, <1>6, <1>7, <1>8, <1>9, <1>10, <1>11, <1>12, <1>13
    DEF Next, Step

LEMMA OwnInvariance == Spec => []OwnInv
  <1>1. Init => OwnInv
    BY DEF Init, OwnInv
  <1>2. IInv /\ OwnInv /\ [Next]_vars => OwnInv'
    BY OwnKeeps
  <1> QED
    BY Invariance, <1>1, <1>2, PTL DEF Spec

\* Whatever the group has written into its roles itself is marked, or its edit
\* is under way or broke off, or a reset took its mark.
THEOREM OwnRightsAreMarkedHolds == Spec => []OwnRightsAreMarked
  <1>1. IInv /\ OwnInv => OwnRightsAreMarked
    <2> SUFFICES ASSUME IInv, OwnInv, own # {}, ~customized, ~crossed
                 PROVE  \E s \in Slots : Under(s, {"update", "edit"})
      BY DEF OwnRightsAreMarked
    <2>1. "none" \in own \/ own \cap Others # {}
      BY DEF IInv, TypeOK
    <2> QED
      BY <2>1 DEF OwnInv, Under
  <1> QED
    BY Invariance, OwnInvariance, <1>1, PTL

-----------------------------------------------------------------------------
(***************************************************************************)
(* How findable an untouched group is.                                     *)
(***************************************************************************)
LEMMA OverlapIs ==
  ASSUME IInv, NEW s \in Slots, writeGroupRole(s), doing[s].op = "apply", ~crossed'
  PROVE  /\ Level(doing[s].to) = Level(templates[template])
         /\ Level(none) = Level(templates[template])
  <1>1. ~Overtaken(doing[s])
    BY DEF writeGroupRole
  <1>2. template = doing[s].template /\ Level(none) = Level(templates[template])
    BY <1>1 DEF Overtaken
  <1>3. Level(doing[s].to) = Level(Default[doing[s].template]) /\ doing[s].template \in Templates
    BY SlotHas DEF Fits
  <1> QED
    BY <1>2, <1>3 DEF IInv, TemplatesFit

\* What a saved form makes of the level, if it wrote over nothing unseen.
LEMMA CommitLevels ==
  ASSUME IInv, NEW s \in Slots, Commit(s), ~crossed'
  PROVE  /\ Switched(doing[s]) => /\ Level(none') = doing[s].template /\ template' = doing[s].template
                                  /\ doing[s].template \in Levels
         /\ ~Switched(doing[s]) => /\ Level(none') = Level(none)
                                   /\ template' = template /\ own' = own
  <1> DEFINE q == doing[s]
             new == setNonMemberMemberListAccess(q)
  <1>0. At(s, "commit")
    BY DEF Commit
  <1>1. CASE Switched(q)
    BY <1>0, <1>1, SavedIs DEF Commit
  <1>2. CASE ~Switched(q) /\ new # q.seen
    <2>1. none' = new /\ q.seen = none /\ template' = template /\ own' = own
      BY <1>2 DEF Commit
    <2> QED
      BY <1>0, <1>2, <2>1, SavedIs
  <1>3. CASE ~Switched(q) /\ new = q.seen
    BY <1>3 DEF Commit
  <1> QED
    BY <1>1, <1>2, <1>3

LEMMA SettledKeeps ==
  ASSUME IInv, SettledInv, [Next]_vars
  PROVE  SettledInv'
  <1>1. CASE UNCHANGED vars
    BY <1>1 DEF SettledInv, vars, role, group
  <1>2. ASSUME NEW s \in Slots, Asking(s)
        PROVE  SettledInv'
    <2>1. ~Restoring(doing[s]) /\ UNCHANGED <<seeded, none, template, templates, own, crossed>>
      BY <1>2, AskingIs, IdleIs DEF Ask, role, group, Restoring
    <2> QED
      BY <1>2, <2>1, OthersStay DEF SettledInv
  <1>3. ASSUME NEW t \in Templates, NEW rights \in Asks, updateGroupRoleTemplate(t, rights)
        PROVE  SettledInv'
    <2>1. UNCHANGED <<seeded, none, template, doing, own, crossed>>
      BY <1>3 DEF updateGroupRoleTemplate, role, group
    <2>2. TemplatesFit /\ TemplatesFit' /\ template \in Templates
      BY TemplatesKeepFitting DEF IInv, TypeOK
    <2>3. Level(templates'[template]) = Level(templates[template])
      BY <2>2 DEF TemplatesFit
    <2> QED
      BY <2>1, <2>3 DEF SettledInv
  <1>f. ASSUME NEW s \in Slots, Step(s), seeded' = seeded, crossed => crossed',
               \/ crossed'
               \/ Level(none') = Level(none) /\ UNCHANGED <<template, templates, own>>,
               ~Restoring(doing[s]) \/ crossed' \/ Restoring(doing'[s])
        PROVE  SettledInv'
    <2>1. ASSUME NEW p \in Slots, Restoring(doing[p])
          PROVE  crossed' \/ Restoring(doing'[p])
      BY <1>f, <2>1, OthersStay
    <2>2. (\E p \in Slots : Restoring(doing[p])) =>
            crossed' \/ \E p \in Slots : Restoring(doing'[p])
      BY <2>1
    <2> QED
      BY <1>f, <2>2 DEF SettledInv
  <1>4. ASSUME NEW s \in Slots, writeGroupRole(s)
        PROVE  SettledInv'
    <2>1. doing'[s].stage = "read" /\ doing'[s].op = doing[s].op
      BY <1>4, StepTo
    <2>2. CASE doing[s].op = "update"
      <3>1. "none" \in own'
        BY <1>4, <2>2 DEF writeGroupRole
      <3> QED
        BY <3>1 DEF SettledInv
    <2>3. CASE doing[s].op = "reset"
      BY <2>1, <2>3 DEF SettledInv, Restoring
    <2>4. CASE doing[s].op = "apply"
      <3>1. none' = doing[s].to /\ UNCHANGED <<template, templates>>
        BY <1>4 DEF writeGroupRole, group
      <3>2. ~crossed' => Level(none') = Level(templates'[template'])
        BY <1>4, <2>4, <3>1, OverlapIs
      <3> QED
        BY <3>2 DEF SettledInv
    <2> QED
      BY <1>4, <2>2, <2>3, <2>4, SlotHas DEF writeGroupRole, At, Fits, StageOf
  <1>5. ASSUME NEW s \in Slots, syncReads(s)
        PROVE  SettledInv'
    <2>1. /\ doing'[s].stage = "sync" /\ doing'[s].op = doing[s].op
          /\ UNCHANGED <<seeded, none, template, templates, own, crossed>>
      BY <1>5, StepTo DEF syncReads, role, group
    <2> QED
      BY <1>5, <1>f, <2>1 DEF Step, Restoring
  <1>6. ASSUME NEW s \in Slots, syncNonMemberAccess(s)
        PROVE  SettledInv'
    <2>1. UNCHANGED <<seeded, none, template, templates, own, crossed>>
      BY <1>6 DEF syncNonMemberAccess, role
    <2>2. CASE doing[s].op = "reset"
      <3>1. Go(s, "later")
        BY <1>6, <2>2 DEF syncNonMemberAccess
      <3>2. doing'[s].stage = "later" /\ doing'[s].op = "reset"
        BY <2>2, <3>1, GoIs, SlotHas DEF Stages, SameBut
      <3> QED
        BY <1>6, <1>f, <2>1, <3>2 DEF Step, Restoring
    <2>3. CASE doing[s].op # "reset"
      BY <1>6, <1>f, <2>1, <2>3 DEF Step, Restoring
    <2> QED
      BY <2>2, <2>3
  <1>7. ASSUME NEW s \in Slots, writeOtherRoles(s)
        PROVE  SettledInv'
    <2>0. /\ UNCHANGED <<seeded, none, template, templates, crossed>>
          /\ "none" \in own => "none" \in own'
      BY <1>7 DEF writeOtherRoles, group, Others
    <2>1. Restoring(doing[s]) => Restoring(doing'[s])
      <3> SUFFICES ASSUME Restoring(doing[s])
                   PROVE  Restoring(doing'[s])
        OBVIOUS
      <3>1. doing[s].op = "reset" /\ Go(s, "template")
        BY <1>7 DEF writeOtherRoles, At, Others, Restoring
      <3> QED
        BY <3>1, GoIs, SlotHas DEF Stages, SameBut, Restoring
    <2>2. \A p \in Slots : Restoring(doing[p]) => Restoring(doing'[p])
      BY <1>7, <2>1, OthersStay DEF Step
    <2> QED
      BY <2>0, <2>2 DEF SettledInv
  <1>8. ASSUME NEW s \in Slots, markGroupRolesCustomized(s)
        PROVE  SettledInv'
    <2>1. UNCHANGED <<seeded, none, template, templates, own, crossed>>
      BY <1>8 DEF markGroupRolesCustomized, role
    <2>2. ~Restoring(doing[s])
      BY <1>8, SlotHas DEF markGroupRolesCustomized, At, Restoring
    <2> QED
      BY <1>8, <1>f, <2>1, <2>2 DEF Step
  <1>9. ASSUME NEW s \in Slots, writeGroupTemplate(s)
        PROVE  SettledInv'
    <2>1. /\ none' = none /\ templates' = templates /\ template' = doing[s].template
          /\ none # doing[s].to => crossed'
      BY <1>9 DEF writeGroupTemplate, role
    <2>2. doing[s].template \in Templates /\ Level(doing[s].to) = Level(Default[doing[s].template])
      BY <1>9, SlotHas DEF writeGroupTemplate, At, Fits, StageOf
    <2>3. ~crossed' => Level(none') = Level(templates'[template'])
      BY <2>1, <2>2 DEF IInv, TemplatesFit
    <2> QED
      BY <2>3 DEF SettledInv
  <1>10. ASSUME NEW s \in Slots, markGroupRolesUncustomized(s)
         PROVE  SettledInv'
    <2>1. UNCHANGED <<seeded, none, template, templates, own>> /\ (crossed => crossed')
      BY <1>10 DEF markGroupRolesUncustomized, role
    <2>2. ~Restoring(doing[s])
      BY <1>10 DEF markGroupRolesUncustomized, At, Restoring
    <2> QED
      BY <1>10, <1>f, <2>1, <2>2 DEF Step
  <1>11. ASSUME NEW s \in Slots, Begin(s) \/ Lock(s) \/ keepMemberListOpen(s)
               \/ readMemberList(s)
         PROVE  SettledInv'
    <2>1. UNCHANGED <<seeded, none, template, templates, own, crossed>>
      BY <1>11 DEF Begin, Lock, keepMemberListOpen, readMemberList, role, group
    <2>2. ~Restoring(doing[s])
      BY <1>11, SlotHas DEF Begin, Lock, keepMemberListOpen, readMemberList, At, Restoring
    <2> QED
      BY <1>11, <1>f, <2>1, <2>2 DEF Step
  <1>12. ASSUME NEW s \in Slots, Commit(s)
         PROVE  SettledInv'
    <2>0. templates' = templates /\ seeded' = seeded /\ (crossed => crossed') /\ ~Restoring(doing[s])
      BY <1>12 DEF Commit, At, Restoring
    <2>1. CASE crossed'
      BY <2>1 DEF SettledInv
    <2>2. CASE ~crossed' /\ Switched(doing[s])
      <3>1. /\ Level(none') = doing[s].template /\ template' = doing[s].template
            /\ doing[s].template \in Levels
        BY <1>12, <2>2, CommitLevels
      <3>2. Level(templates[doing[s].template]) = doing[s].template
        BY <3>1, DefaultFits, DoorsAre DEF IInv, TemplatesFit
      <3> QED
        BY <2>0, <3>1, <3>2 DEF SettledInv
    <2>3. CASE ~crossed' /\ ~Switched(doing[s])
      <3>1. Level(none') = Level(none) /\ UNCHANGED <<template, own>>
        BY <1>12, <2>3, CommitLevels
      <3> QED
        BY <1>12, <1>f, <2>0, <3>1 DEF Step
    <2> QED
      BY <2>1, <2>2, <2>3
  <1>13. ASSUME NEW s \in Slots, seedRolesForNewGroup(s)
         PROVE  SettledInv'
    <2>0. /\ doing[s].stage = "copy" /\ templates' = templates /\ own' = own
          /\ template' = doing[s].template /\ (crossed => crossed')
          /\ template # doing[s].template => crossed'
          /\ none' = IF seeded THEN none ELSE templates[doing[s].template]
      BY <1>13 DEF seedRolesForNewGroup, At
    <2>1. CASE ~seeded
      BY <2>0, <2>1 DEF SettledInv
    <2>2. CASE seeded
      <3>1. seeded' = seeded /\ ~Restoring(doing[s])
        BY <1>13, <2>0, <2>2 DEF seedRolesForNewGroup, Restoring
      <3> QED
        BY <1>13, <1>f, <2>0, <2>2, <3>1 DEF Step
    <2> QED
      BY <2>1, <2>2
  <1>14. ASSUME NEW s \in Slots, openMemberList(s)
         PROVE  SettledInv'
    <2>0. /\ UNCHANGED <<seeded, template, templates, own>> /\ (crossed => crossed')
          /\ none' = doing[s].to /\ (none # doing[s].seen => crossed')
          /\ doing[s].stage = "open"
      BY <1>14 DEF openMemberList, group, At
    <2>1. ~Restoring(doing[s]) /\ Level(doing[s].to) = Level(doing[s].seen)
      BY <2>0, SlotHas DEF Fits, Restoring
    <2> QED
      BY <1>14, <1>f, <2>0, <2>1 DEF Step
  <1>15. ASSUME NEW s \in Slots, Fail(s)
         PROVE  SettledInv'
    <2>1. UNCHANGED <<seeded, none, template, templates, own>> /\ (crossed => crossed')
      BY <1>15 DEF Fail, role, group
    <2>2. Restoring(doing[s]) => crossed'
      BY <1>15 DEF Fail, Restoring, HalfWay
    <2> QED
      BY <1>15, <1>f, <2>1, <2>2 DEF Step
  <1> QED
    BY <1>1, <1>2, <1>3, <1>4, <1>5, <1>6, <1>7, <1>8, <1>9, <1>10, <1>11, <1>12, <1>13, <1>14,
      <1>15 DEF Next, Step

\* A group without a mark is as findable as its template, whatever has been
\* edited, reset, applied or saved, unless it is being edited or reset.
THEOREM UntouchedShowsAsItsTemplateHolds == Spec => []UntouchedShowsAsItsTemplate
  <1>1. Init => SettledInv
    <2> SUFFICES ASSUME Init, seeded PROVE Level(none) = Level(templates[template])
      BY DEF SettledInv
    <2>0. Init /\ seeded
      OBVIOUS
    <2>1. /\ templates[template] = Default[template]
          /\ none = Default[template] \/ none = Default[template] \cup {"members"}
      BY DEF Init
    <2>2. Level(Default[template] \cup {"members"}) = Level(Default[template])
      BY LevelIs
    <2> QED
      BY <2>1, <2>2
  <1>2. IInv /\ SettledInv /\ [Next]_vars => SettledInv'
    BY SettledKeeps
  <1>3. SettledInv /\ OwnInv => UntouchedShowsAsItsTemplate
    <2> SUFFICES ASSUME SettledInv, OwnInv, seeded, ~customized, ~crossed,
                        Level(none) # Level(templates[template])
                 PROVE  \E s \in Slots : Under(s, {"update", "reset"})
      BY DEF UntouchedShowsAsItsTemplate
    <2>1. CASE "none" \in own
      BY <2>1 DEF OwnInv, Under
    <2>2. CASE \E s \in Slots : Restoring(doing[s])
      <3>1. PICK s \in Slots : Restoring(doing[s])
        BY <2>2
      <3>2. doing[s].op = "reset" /\ HalfWay(doing[s])
        BY <3>1 DEF Restoring, HalfWay
      <3> QED
        BY <3>2 DEF Under
    <2> QED
      BY <2>1, <2>2 DEF SettledInv
  <1> QED
    BY Invariance, OwnInvariance, <1>1, <1>2, <1>3, PTL DEF Spec

-----------------------------------------------------------------------------
(***************************************************************************)
(* A boot keeps an open member list open.                                  *)
(***************************************************************************)
LEMMA BootKeeps ==
  ASSUME IInv, BootInv, [Next]_vars
  PROVE  BootInv'
  <1>1. CASE UNCHANGED vars
    BY <1>1 DEF BootInv, vars, role, group
  <1>2. ASSUME NEW s \in Slots, Asking(s)
        PROVE  BootInv'
    <2>1. PICK q \in Requests : Ask(s, q) /\ Fresh(q)
      BY <1>2, AskingIs
    <2>2. /\ doing'[s] = q /\ doing[s] = Idle
          /\ UNCHANGED <<seeded, none, columns, wasOpen, crossed>>
      BY <2>1, AskIs, SlotHas DEF Ask, role, group
    <2>3. \A p \in Slots : p # s => doing'[p] = doing[p]
      BY <1>2, OthersStay
    <2>4. ~Reopening(Idle)
      BY IdleIs DEF Reopening
    <2>5. ~seeded => \A p \in Slots : doing'[p].stage \in {"idle", "copy"}
      BY <2>1, <2>2, <2>3 DEF BootInv, Fresh
    <2>6. wasOpen => \A p \in Slots : doing'[p].stage = "copy" => doing'[p].show = "open"
      BY <2>1, <2>2, <2>3 DEF BootInv, Fresh
    <2>7. (\E p \in Slots : Reopening(doing[p])) => \E p \in Slots : Reopening(doing'[p])
      BY <2>2, <2>3, <2>4
    <2> QED
      BY <2>2, <2>5, <2>6, <2>7 DEF BootInv
  <1>3. ASSUME NEW t \in Templates, NEW rights \in Asks, updateGroupRoleTemplate(t, rights)
        PROVE  BootInv'
    BY <1>3 DEF updateGroupRoleTemplate, BootInv, role, group
  \* A step on a seeded group that leaves the list alone, or opens it.
  <1>f. ASSUME NEW s \in Slots, Step(s), seeded, seeded' = seeded, wasOpen' => wasOpen,
               doing'[s].stage # "copy" \/ doing'[s] = doing[s],
               \/ ~wasOpen' \/ crossed' \/ "members" \in none' \/ "read" \notin none'
               \/ none' = none /\ (crossed => crossed')
                   /\ (Reopening(doing[s]) => Reopening(doing'[s]))
        PROVE  BootInv'
    <2>1. wasOpen' => \A p \in Slots : doing'[p].stage = "copy" => doing'[p].show = "open"
      BY <1>f, OthersStay DEF BootInv
    <2>2. none' = none /\ (crossed => crossed') /\ (Reopening(doing[s]) => Reopening(doing'[s]))
            /\ wasOpen' /\ "read" \in none' /\ "members" \notin none' =>
              crossed' \/ \E p \in Slots : Reopening(doing'[p])
      <3> SUFFICES ASSUME none' = none, crossed => crossed', wasOpen',
                          Reopening(doing[s]) => Reopening(doing'[s]),
                          "read" \in none', "members" \notin none', ~crossed'
                   PROVE  \E p \in Slots : Reopening(doing'[p])
        OBVIOUS
      <3>1. PICK p \in Slots : Reopening(doing[p])
        BY <1>f DEF BootInv
      <3> QED
        BY <1>f, <3>1, OthersStay
    <2> QED
      BY <1>f, <2>1, <2>2 DEF BootInv
  <1>4. ASSUME NEW s \in Slots, writeGroupRole(s)
        PROVE  BootInv'
    <2>1. seeded
      BY <1>4 DEF BootInv, writeGroupRole, At
    <2>2. seeded' = seeded /\ wasOpen' = FALSE /\ doing'[s].stage = "read"
      BY <1>4, StepTo DEF writeGroupRole
    <2> QED
      BY <1>4, <1>f, <2>1, <2>2 DEF Step
  <1>5. ASSUME NEW s \in Slots, syncReads(s)
        PROVE  BootInv'
    <2>1. seeded
      BY <1>5 DEF BootInv, syncReads, At
    <2>2. UNCHANGED <<seeded, none, wasOpen, crossed>>
      BY <1>5 DEF syncReads, role
    <2>3. /\ doing'[s].stage = "sync" /\ doing'[s].op = doing[s].op
          /\ doing'[s].show = doing[s].show
      BY <1>5, StepTo
    <2>4. Reopening(doing[s]) => Reopening(doing'[s])
      BY <2>3 DEF Reopening
    <2> QED
      BY <1>5, <1>f, <2>1, <2>2, <2>3, <2>4 DEF Step
  <1>6. ASSUME NEW s \in Slots, syncNonMemberAccess(s)
        PROVE  BootInv'
    <2>1. seeded
      BY <1>6 DEF BootInv, syncNonMemberAccess, At
    <2>2. UNCHANGED <<seeded, none, wasOpen, crossed>>
      BY <1>6 DEF syncNonMemberAccess, role
    <2>3. doing'[s].stage # "copy" /\ (Reopening(doing[s]) => Reopening(doing'[s]))
      <3>1. CASE Go(s, "keep")
        BY <3>1, GoIs, SlotHas DEF Stages, SameBut, Reopening
      <3>2. CASE Go(s, "mark") /\ doing[s].op = "update"
        BY <3>2, GoIs, SlotHas DEF Stages, Reopening
      <3>3. CASE Go(s, "later") /\ doing[s].op \in {"reset", "apply"}
        BY <3>3, GoIs, SlotHas DEF Stages, Reopening
      <3>4. CASE Done(s) /\ doing[s].show # "open"
        BY <3>4, DoneIs, IdleIs, SlotHas DEF Reopening
      <3> QED
        BY <1>6, <3>1, <3>2, <3>3, <3>4 DEF syncNonMemberAccess
    <2> QED
      BY <1>6, <1>f, <2>1, <2>2, <2>3 DEF Step
  <1>7. ASSUME NEW s \in Slots,
               \/ writeOtherRoles(s) \/ markGroupRolesCustomized(s) \/ writeGroupTemplate(s)
               \/ markGroupRolesUncustomized(s) \/ Begin(s) \/ Lock(s)
        PROVE  BootInv'
    <2>1. doing[s].stage \in {"admin", "later", "mark", "template", "unmark", "begin", "lock"}
      BY <1>7 DEF writeOtherRoles, markGroupRolesCustomized, writeGroupTemplate,
        markGroupRolesUncustomized, Begin, Lock, At, Others
    <2>2. seeded /\ ~Reopening(doing[s])
      BY <2>1 DEF BootInv, Reopening
    <2>3. UNCHANGED <<seeded, none, wasOpen>> /\ (crossed => crossed')
      <3>1. CASE writeOtherRoles(s)
        BY <3>1 DEF writeOtherRoles
      <3>2. CASE markGroupRolesCustomized(s) \/ Begin(s) \/ Lock(s)
        BY <3>2 DEF markGroupRolesCustomized, Begin, Lock, role
      <3>3. CASE writeGroupTemplate(s) \/ markGroupRolesUncustomized(s)
        BY <3>3 DEF writeGroupTemplate, markGroupRolesUncustomized, role
      <3> QED
        BY <1>7, <3>1, <3>2, <3>3
    <2>4. doing'[s].stage # "copy"
      <3>1. ASSUME NEW stage \in Stages \ {"copy"}, Go(s, stage)
            PROVE  doing'[s].stage # "copy"
        BY <3>1, GoIs, SlotHas
      <3>2. Done(s) => doing'[s].stage # "copy"
        BY DoneIs, IdleIs, SlotHas
      <3>3. Begin(s) \/ Lock(s) => doing'[s].stage # "copy"
        BY BeginIs, LockIs, SlotHas
      <3> QED
        BY <1>7, <3>1, <3>2, <3>3 DEF Stages, writeOtherRoles, markGroupRolesCustomized,
          writeGroupTemplate, markGroupRolesUncustomized
    <2> QED
      BY <1>7, <1>f, <2>2, <2>3, <2>4 DEF Step
  <1>8. ASSUME NEW s \in Slots, keepMemberListOpen(s) \/ readMemberList(s)
        PROVE  BootInv'
    <2>1. seeded
      BY <1>8 DEF BootInv, keepMemberListOpen, readMemberList, At
    <2>2. UNCHANGED <<seeded, none, wasOpen, crossed>>
      BY <1>8 DEF keepMemberListOpen, readMemberList, role
    <2>3. \/ /\ doing'[s].stage \in {"list", "open"} /\ doing'[s].op = doing[s].op
             /\ doing'[s].show = doing[s].show
          \/ ("read" \notin none \/ "members" \in none) /\ doing'[s] = Idle
      BY <1>8, KeepIs, ListIs, SlotHas DEF SameBut
    <2>4. doing'[s].stage # "copy"
      BY <2>3, IdleIs
    <2>5. \/ "read" \notin none' \/ "members" \in none'
          \/ Reopening(doing[s]) => Reopening(doing'[s])
      BY <2>2, <2>3 DEF Reopening
    <2> QED
      BY <1>8, <1>f, <2>1, <2>2, <2>4, <2>5 DEF Step
  <1>9. ASSUME NEW s \in Slots, openMemberList(s)
        PROVE  BootInv'
    <2>1. seeded /\ doing[s].stage = "open"
      BY <1>9 DEF BootInv, openMemberList, At
    <2>2. "members" \in none' /\ seeded' = seeded /\ wasOpen' = wasOpen
      BY <1>9, <2>1, SlotHas DEF openMemberList, Fits
    <2>3. doing'[s].stage = "read"
      BY <1>9, StepTo
    <2> QED
      BY <1>9, <1>f, <2>1, <2>2, <2>3 DEF Step
  <1>10. ASSUME NEW s \in Slots, Commit(s)
         PROVE  BootInv'
    <2> DEFINE written == Switched(doing[s]) \/ setNonMemberMemberListAccess(doing[s]) # doing[s].seen
    <2>1. doing[s].stage = "commit" /\ seeded' = seeded /\ (crossed => crossed') /\ Done(s)
      BY <1>10 DEF Commit, At
    <2>2. seeded /\ ~Reopening(doing[s])
      BY <2>1 DEF BootInv, Reopening
    <2>3. wasOpen' = (wasOpen /\ ~written) /\ (~written => none' = none)
      BY <1>10 DEF Commit
    <2>4. doing'[s].stage # "copy"
      BY <2>1, DoneIs, IdleIs, SlotHas
    <2> QED
      BY <1>10, <1>f, <2>1, <2>2, <2>3, <2>4 DEF Step
  <1>11. ASSUME NEW s \in Slots, seedRolesForNewGroup(s)
         PROVE  BootInv'
    <2>1. /\ doing[s].stage = "copy" /\ seeded' = TRUE /\ wasOpen' = wasOpen
          /\ crossed => crossed'
          /\ seeded => none' = none
      BY <1>11 DEF seedRolesForNewGroup, At
    <2>2. /\ doing'[s].stage = "read" /\ doing'[s].op = doing[s].op
          /\ doing'[s].show = doing[s].show
      BY <1>11, StepTo
    <2>3. doing[s].op = "boot" /\ (wasOpen => doing[s].show = "open")
      BY <2>1, SlotHas DEF Fits, StageOf, BootInv
    <2>4. wasOpen' => Reopening(doing'[s])
      BY <2>1, <2>2, <2>3 DEF Reopening
    <2>5. wasOpen' => \A p \in Slots : doing'[p].stage = "copy" => doing'[p].show = "open"
      BY <1>11, <2>1, <2>2, OthersStay DEF Step, BootInv
    <2> QED
      BY <2>1, <2>4, <2>5 DEF BootInv
  <1>12. ASSUME NEW s \in Slots, Fail(s)
         PROVE  BootInv'
    <2>1. /\ UNCHANGED <<seeded, none, columns, wasOpen>> /\ (crossed => crossed')
          /\ HalfWay(doing[s]) => crossed'
      BY <1>12 DEF Fail, role, group
    <2>2. doing'[s] = Idle /\ Idle.stage = "idle"
      BY <1>12, DoneIs, IdleIs, SlotHas DEF Fail
    <2>3. CASE ~seeded
      <3>1. \A p \in Slots : doing'[p].stage \in {"idle", "copy"}
        BY <1>12, <2>2, <2>3, OthersStay DEF Step, BootInv
      <3>2. wasOpen' => \A p \in Slots : doing'[p].stage = "copy" => doing'[p].show = "open"
        BY <1>12, <2>1, <2>2, OthersStay DEF Step, BootInv
      <3> QED
        BY <2>1, <2>3, <3>1, <3>2 DEF BootInv
    <2>4. CASE seeded
      <3>1. Reopening(doing[s]) => crossed'
        BY <2>1 DEF Reopening, HalfWay
      <3> QED
        BY <1>12, <1>f, <2>1, <2>2, <2>4, <3>1 DEF Step
    <2> QED
      BY <2>3, <2>4
  <1> QED
    BY <1>1, <1>2, <1>3, <1>4, <1>5, <1>6, <1>7, <1>8, <1>9, <1>10, <1>11, <1>12 DEF Next, Step

\* The member list that was open when a restored group got its roles is open
\* when the boots are over, unless one broke off or the rights were changed.
THEOREM OpenListStaysOpenHolds == Spec => []OpenListStaysOpen
  <1>1. Init => BootInv
    BY IdleIs DEF Init, BootInv
  <1>2. IInv /\ BootInv /\ [Next]_vars => BootInv'
    BY BootKeeps
  <1>3. BootInv => OpenListStaysOpen
    BY DEF BootInv, OpenListStaysOpen, Reopening
  <1> QED
    BY Invariance, <1>1, <1>2, <1>3, PTL DEF Spec

-----------------------------------------------------------------------------
(***************************************************************************)
(* The privacy cap.                                                        *)
(***************************************************************************)
\* The step is one of a request that was allowed to, or that found the group
\* at another level when it was asked.
Allowed ==
  \/ crossed'
  \/ \E s \in Slots : /\ doing[s] # doing'[s]
                      /\ \/ Level(none') \in doing[s].may
                         \/ doing[s].level # Level(none)

LEMMA CapOfAStep ==
  ASSUME IInv, Next, seeded, MorePrivate(Level(none'), Level(none))
  PROVE  Allowed
  <1>n. none' # none
    BY NobodyMorePrivateThanOneself, LevelIsOne
  <1>1. ASSUME NEW s \in Slots, Asking(s)
        PROVE  Allowed
    BY <1>1, <1>n, AskingIs DEF Ask, role
  <1>2. ASSUME NEW t \in Templates, NEW rights \in Asks, updateGroupRoleTemplate(t, rights)
        PROVE  Allowed
    BY <1>2, <1>n DEF updateGroupRoleTemplate, role
  <1>3. ASSUME NEW s \in Slots, writeGroupRole(s)
        PROVE  Allowed
    <2>1. none' = doing[s].to /\ doing[s].stage = "write"
      BY <1>3 DEF writeGroupRole, At
    <2>2. doing'[s] # doing[s]
      BY <1>3, <2>1, StepTo
    <2>3. CASE doing[s].op \in {"update", "reset"}
      BY <2>1, <2>2, <2>3, SlotHas DEF Allowed, Fits
    <2>4. CASE doing[s].op = "apply"
      <3>1. ~crossed' => Level(none') = Level(none)
        BY <1>3, <2>1, <2>4, OverlapIs
      <3> QED
        BY <3>1, NobodyMorePrivateThanOneself, LevelIsOne DEF Allowed
    <2> QED
      BY <2>1, <2>3, <2>4, SlotHas DEF Fits, StageOf
  <1>4. ASSUME NEW s \in Slots, Commit(s)
        PROVE  Allowed
    <2>1. doing[s].stage = "commit" /\ Done(s)
      BY <1>4 DEF Commit, At
    <2>2. doing'[s] # doing[s]
      BY <2>1, DoneIs, IdleIs, SlotHas
    <2>3. doing[s].op = "save"
      BY <2>1, SlotHas DEF Fits, StageOf
    <2>4. CASE crossed'
      BY <2>4 DEF Allowed
    <2>5. CASE ~crossed' /\ Switched(doing[s])
      <3>1. Level(none') = doing[s].template /\ doing[s].template # "same"
        BY <1>4, <2>5, CommitLevels DEF Switched
      <3>2. MorePrivate(doing[s].template, doing[s].level) => doing[s].template \in doing[s].may
        BY <2>3, <3>1, SlotHas DEF Fits
      <3> QED
        BY <2>2, <3>1, <3>2 DEF Allowed
    <2>6. CASE ~crossed' /\ ~Switched(doing[s])
      BY <1>4, <2>6, CommitLevels, NobodyMorePrivateThanOneself, LevelIsOne
    <2> QED
      BY <2>4, <2>5, <2>6
  <1>5. ASSUME NEW s \in Slots, openMemberList(s)
        PROVE  Allowed
    <2>1. none' = doing[s].to /\ (none # doing[s].seen => crossed') /\ doing[s].stage = "open"
      BY <1>5 DEF openMemberList, At
    <2>2. Level(doing[s].to) = Level(doing[s].seen)
      BY <2>1, SlotHas DEF Fits
    <2>3. ~crossed' => Level(none') = Level(none)
      BY <2>1, <2>2
    <2> QED
      BY <2>3, NobodyMorePrivateThanOneself, LevelIsOne DEF Allowed
  <1>6. ASSUME NEW s \in Slots, seedRolesForNewGroup(s)
        PROVE  Allowed
    BY <1>6, <1>n DEF seedRolesForNewGroup
  <1>7. ASSUME NEW s \in Slots,
               \/ syncReads(s) \/ syncNonMemberAccess(s) \/ writeOtherRoles(s)
               \/ markGroupRolesCustomized(s) \/ writeGroupTemplate(s)
               \/ markGroupRolesUncustomized(s) \/ Begin(s) \/ Lock(s)
               \/ keepMemberListOpen(s) \/ readMemberList(s) \/ Fail(s)
        PROVE  Allowed
    <2>1. none' = none
      BY <1>7 DEF syncReads, syncNonMemberAccess, writeOtherRoles, markGroupRolesCustomized,
        writeGroupTemplate, markGroupRolesUncustomized, Begin, Lock, keepMemberListOpen, readMemberList, Fail, role
    <2> QED
      BY <1>n, <2>1
  <1> QED
    BY <1>1, <1>2, <1>3, <1>4, <1>5, <1>6, <1>7 DEF Next, Step

\* Nobody makes a group more private than they might have created it, by any
\* edit, reset, saved form or template, unless the group was not as private
\* as its columns said or something was written over.
THEOREM PrivacyIsCappedHolds == Spec => PrivacyIsCapped
  <1> DEFINE Capped == seeded /\ MorePrivate(Level(none'), Level(none)) => Allowed
  <1>1. IInv /\ [Next]_vars => [Capped]_vars
    BY CapOfAStep
  <1>2. PrivacyIsCapped <=> [][Capped]_vars
    BY PTL DEF PrivacyIsCapped, Allowed
  <1> HIDE DEF Capped
  <1>3. Spec => [][Capped]_vars
    BY Invariance, <1>1, PTL DEF Spec
  <1> QED
    BY <1>2, <1>3
=============================================================================
