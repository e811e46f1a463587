----------------------------- MODULE GroupAccess -----------------------------
(***************************************************************************)
(* What one group lets strangers do: the rights of its "none" role, the    *)
(* columns of the group that mirror them for the queries, the template the *)
(* group runs on, and the mark of a group that has edited its roles itself *)
(* (backend/src/groupRole/repository.ts, mandatoryRights.ts,               *)
(* graphql/resolvers/groupRoles.ts, groups.ts).                            *)
(*                                                                         *)
(* Every edit is a sequence of writes, each a transaction of its own, but  *)
(* for UpdateGroup, which is one transaction that holds the lock on the    *)
(* group from its first write to its commit.  A request can break off      *)
(* after any of its writes, and others write between them.                 *)
(*                                                                         *)
(* Of the rights those are kept that strangers may have; the other roles   *)
(* of the group count only as edited or not, those written before the none *)
(* role, in the order of their names, and those after it.  Who may edit is *)
(* not modelled (GroupMembership), but which levels of privacy they may    *)
(* create is.                                                              *)
(***************************************************************************)
EXTENDS Naturals

CONSTANTS
  Slots,     \* bound: requests under way at once
  Asks,      \* bound: the lists of rights somebody asks for
  Mays,      \* who asks: the levels of privacy they may create a group with
  MaxAsked   \* bound: requests in all

Doors == {"read", "content", "members", "join", "request"}
Levels == {"public", "closed", "hidden"}
Templates == Levels \cup {"channel"}
Others == {"admin", "later"}

ASSUME AccessAssumption ==
  /\ Asks \subseteq SUBSET Doors
  /\ Mays \subseteq SUBSET Levels
  /\ MaxAsked \in Nat

\* What each template gives strangers, as the code defines it.
Open == {"read", "content", "members", "join"}
Default == [t \in Templates |-> CASE t \in {"public", "channel"} -> Open
                                  [] t = "closed" -> {"read", "request"}
                                  [] t = "hidden" -> {}]

\* How findable strangers' rights make a group.
Level(rights) == IF "read" \notin rights THEN "hidden"
                 ELSE IF "content" \in rights THEN "public" ELSE "closed"

Privacy == [public |-> 1, closed |-> 2, hidden |-> 3]
MorePrivate(level, than) == Privacy[level] > Privacy[than]

\* The columns that mirror a list of rights; asking to join has none.
Mirror(rights) == rights \ {"request"}

\* Neither content nor members can be seen without the group, and there is no
\* door into a group that cannot be seen.
withImpliedRights(asked) ==
  asked \cup IF asked \cap {"content", "members"} = {} THEN {} ELSE {"read"}
storableRights(asked) ==
  IF "read" \in asked THEN asked ELSE asked \ {"join", "request"}

Requests ==
  [op : {"idle", "update", "edit", "reset", "apply", "save", "boot"},
   stage : {"idle", "admin", "write", "read", "sync", "later", "mark", "template", "unmark",
            "begin", "lock", "commit", "copy", "keep", "list", "open"},
   to : SUBSET Doors,                     \* what it is going to write
   seen : SUBSET Doors,                   \* what it has read
   template : Templates \cup {"same"},    \* the template asked for
   show : {"same", "open", "close"},      \* what is asked of the member list
   may : SUBSET Levels,                   \* the levels who asks may create
   level : Levels,                        \* the group's level when it was asked
   previous : Levels]                     \* the level its transaction finds

Request(op, stage, to, template, show, may, level) ==
  [op |-> op, stage |-> stage, to |-> to, seen |-> {}, template |-> template,
   show |-> show, may |-> may, level |-> level, previous |-> level]

Idle == Request("idle", "idle", {}, "same", "same", {}, "hidden")

VARIABLES
  seeded,      \* the group has its roles
  none,        \* the rights of its none role
  columns,     \* nonMemberRead, nonMemberContentRead, showMembers, nonMemberJoin
  template,    \* the template the group runs on
  customized,  \* rolesCustomizedAt is set
  templates,   \* templates[t]: the stored rights of the none role of t
  doing,       \* doing[s]: the request under way in s
  asked,       \* how many there have been
  own,         \* history: which of the roles the group has written itself
  torn,        \* history: the columns were last written from an old reading,
               \* behind the role's back, or not at all
  crossed,     \* history: a request has broken off half way, or written over
               \* what others had changed and it had not seen
  hiddenSince, \* history: strangers have lost sight of the group after a boot had
               \* looked, and before it read what to add the member list to
  wasOpen      \* history: restored without roles, its member list open, and
               \* what strangers may not changed on purpose since

role == <<seeded, none, own>>
group == <<columns, template, customized>>
vars == <<role, group, templates, doing, asked, torn, crossed, hiddenSince, wasOpen>>

\* A group as CreateGroup makes it, or one restored from before the roles.
Init ==
  /\ template \in Templates /\ templates = Default
  /\ \/ /\ seeded = TRUE
        /\ none \in {Default[template]} \cup
                    IF template = "closed" THEN {Default[template] \cup {"members"}} ELSE {}
        /\ columns = Mirror(none)
     \/ seeded = FALSE /\ none = {} /\ columns \in SUBSET {"members"}
  /\ customized = FALSE
  /\ doing = [s \in Slots |-> Idle] /\ asked = 0
  /\ own = {} /\ torn = FALSE /\ crossed = FALSE /\ hiddenSince = FALSE
  /\ wasOpen = (~seeded /\ columns = {"members"})

-----------------------------------------------------------------------------
(***************************************************************************)
(* Asking.  The privacy cap: nobody makes a group more private than they   *)
(* might have created it.  The group's level is read from its columns.     *)
(***************************************************************************)
Ask(s, q) ==
  /\ doing[s] = Idle
  /\ doing' = [doing EXCEPT ![s] = q]
  /\ asked' = asked + 1
  /\ UNCHANGED <<role, group, templates, torn, crossed, hiddenSince, wasOpen>>

requirePrivacyCap_None(level, may) == TRUE
  \* Fault: nobody asks for the right to create such a group.

requirePrivacyCap(level, may) == MorePrivate(level, Level(columns)) => level \in may

updateGroupRole(s, rights, may) ==
  LET requested == withImpliedRights(rights) IN
  /\ seeded
  /\ requirePrivacyCap(Level(requested), may)
  /\ Ask(s, Request("update", "write", storableRights(requested), "same", "same", may,
                    Level(columns)))

\* Another of the group's roles.
updateOtherGroupRole(s, other) ==
  /\ seeded
  /\ Ask(s, Request("edit", other, {}, "same", "same", {}, Level(columns)))

resetGroupRoles(s, t, may) ==
  /\ seeded
  /\ requirePrivacyCap(Level(templates[t]), may)
  /\ Ask(s, Request("reset", "admin", templates[t], t, "same", may, Level(columns)))

\* The group is among those that run on t and have not edited their roles.
applyGroupRoleTemplates(s, t) ==
  /\ seeded /\ template = t /\ ~customized
  /\ Ask(s, Request("apply", "admin", templates[t], t, "same", {}, Level(columns)))

\* A group is saved, perhaps with another visibility, and with its member list
\* as the form has it.  Opening the list asks for a group that can be seen.
UpdateGroup(s, t, show, may) ==
  /\ seeded
  /\ t # "same" => requirePrivacyCap(t, may)
  /\ show = "open" => IF t = "same" THEN "read" \in none ELSE Level(templates[t]) # "hidden"
  /\ Ask(s, Request("save", "begin", {}, t, show, may, Level(columns)))

seedRolesForGroupsWithoutRoles_Closed(s) ==
  /\ ~seeded
  /\ Ask(s, Request("boot", "copy", {}, template, "same", {}, Level(columns)))
  \* Fault: what the member list was is forgotten.

\* A boot finds the group without roles.
seedRolesForGroupsWithoutRoles(s) ==
  /\ ~seeded
  /\ Ask(s, Request("boot", "copy", {}, template,
                    IF "members" \in columns THEN "open" ELSE "same", {}, Level(columns)))

updateGroupRoleTemplate_AnyLevel(t, rights) ==
  /\ templates' = [templates EXCEPT ![t] = storableRights(withImpliedRights(rights))]
  /\ asked' = asked + 1
  /\ UNCHANGED <<role, group, doing, torn, crossed, hiddenSince, wasOpen>>
  \* Fault: a template may become more or less private than it was.

\* A template stays as private as it is.
updateGroupRoleTemplate(t, rights) ==
  /\ Level(storableRights(withImpliedRights(rights))) = Level(templates[t])
  /\ templates' = [templates EXCEPT ![t] = storableRights(withImpliedRights(rights))]
  /\ asked' = asked + 1
  /\ UNCHANGED <<role, group, doing, torn, crossed, hiddenSince, wasOpen>>

-----------------------------------------------------------------------------
(***************************************************************************)
(* The writes, by the stage a request has reached.                         *)
(***************************************************************************)
At(s, stage) == doing[s].stage = stage
Becomes(s, q) == doing' = [doing EXCEPT ![s] = q]
Go(s, stage) == Becomes(s, [doing[s] EXCEPT !.stage = stage])
Done(s) == Becomes(s, Idle)

\* Nobody holds the lock on the group.
Unlocked == \A s \in Slots : ~At(s, "commit")

\* A template is applied to a group that by now runs on another one or has
\* edited its roles, or is about to.
Overtaken(q) ==
  /\ q.op = "apply"
  /\ customized \/ template # q.template \/ Level(none) # Level(templates[template])

\* The none role, by an edit or from a template.
writeGroupRole(s) ==
  /\ At(s, "write")
  /\ none' = doing[s].to
  /\ own' = IF doing[s].op = "update" THEN own \cup {"none"} ELSE own \ {"none"}
  /\ crossed' = (crossed \/ Overtaken(doing[s]))
  /\ Go(s, "read")
  /\ wasOpen' = FALSE
  /\ UNCHANGED <<seeded, group, templates, asked, torn, hiddenSince>>

\* syncNonMemberAccess reads the role and writes the columns.
syncReads(s) ==
  /\ At(s, "read")
  /\ Becomes(s, [doing[s] EXCEPT !.stage = "sync", !.seen = none])
  /\ UNCHANGED <<role, group, templates, asked, torn, crossed, hiddenSince, wasOpen>>

syncNonMemberAccess(s) ==
  /\ At(s, "sync") /\ Unlocked
  /\ columns' = Mirror(doing[s].seen)
  /\ torn' = (doing[s].seen # none)
  /\ \/ doing[s].op = "update" /\ Go(s, "mark")
     \/ doing[s].op \in {"reset", "apply"} /\ Go(s, "later")
     \/ doing[s].op = "boot" /\ doing[s].show = "open" /\ Go(s, "keep")
     \/ doing[s].op = "boot" /\ doing[s].show # "open" /\ Done(s)
  /\ UNCHANGED <<role, template, customized, templates, asked, crossed, wasOpen, hiddenSince>>

\* The roles of members.
writeOtherRoles(s) ==
  \E other \in Others :
    /\ At(s, other)
    /\ own' = IF doing[s].op = "edit" THEN own \cup {other} ELSE own \ {other}
    /\ \/ doing[s].op = "edit" /\ Go(s, "mark")
       \/ doing[s].op # "edit" /\ other = "admin" /\ Go(s, "write")
       \/ doing[s].op = "reset" /\ other = "later" /\ Go(s, "template")
       \/ doing[s].op = "apply" /\ other = "later" /\ Done(s)
    /\ UNCHANGED <<seeded, none, group, templates, asked, torn, crossed, hiddenSince, wasOpen>>

markGroupRolesCustomized_Lost(s) ==
  /\ At(s, "mark") /\ Unlocked
  /\ Done(s)
  /\ UNCHANGED <<role, group, templates, asked, torn, crossed, hiddenSince, wasOpen>>
  \* Fault: the edit is not recorded.

markGroupRolesCustomized(s) ==
  /\ At(s, "mark") /\ Unlocked
  /\ customized' = TRUE
  /\ Done(s)
  /\ UNCHANGED <<role, columns, template, templates, asked, torn, crossed, hiddenSince, wasOpen>>

writeGroupTemplate(s) ==
  /\ At(s, "template") /\ Unlocked
  /\ template' = doing[s].template
  /\ crossed' = (crossed \/ none # doing[s].to)
  /\ Go(s, "unmark")
  /\ UNCHANGED <<role, columns, customized, templates, asked, torn, wasOpen, hiddenSince>>

markGroupRolesUncustomized(s) ==
  /\ At(s, "unmark") /\ Unlocked
  /\ customized' = FALSE
  /\ crossed' = (crossed \/ own # {})
  /\ Done(s)
  /\ UNCHANGED <<role, columns, template, templates, asked, torn, wasOpen, hiddenSince>>

(***************************************************************************)
(* UpdateGroup's transaction.  What it writes is seen with its commit;     *)
(* what it has read may change until then.                                 *)
(***************************************************************************)
Begin(s) ==
  /\ At(s, "begin")
  /\ Becomes(s, [doing[s] EXCEPT !.stage = "lock", !.previous = Level(columns)])
  /\ UNCHANGED <<role, group, templates, asked, torn, crossed, hiddenSince, wasOpen>>

\* Its first write waits for the lock, and only then are the roles read.
Lock(s) ==
  /\ At(s, "lock") /\ Unlocked
  /\ Becomes(s, [doing[s] EXCEPT !.stage = "commit", !.seen = none])
  /\ UNCHANGED <<role, group, templates, asked, torn, crossed, hiddenSince, wasOpen>>

Shown(rights, show) ==
  CASE show = "open" -> rights \cup {"members"}
    [] show = "close" -> rights \ {"members"}
    [] OTHER -> rights

\* The template is applied when it is another level than the group's, and the
\* member list is set where that makes the group a closed one.
Switched(q) == q.template # "same" /\ q.template # q.previous
applyTemplateToNonMemberRoles(q) == IF Switched(q) THEN Default[q.template] ELSE q.seen
ClosedAfter(q) == "closed" = IF q.template = "same" THEN q.previous ELSE q.template

setNonMemberMemberListAccess(q) ==
  IF ClosedAfter(q) THEN Shown(applyTemplateToNonMemberRoles(q), q.show)
  ELSE applyTemplateToNonMemberRoles(q)

\* The form's showMembers is set on the group in any case.
Commit(s) ==
  LET q == doing[s]
      new == setNonMemberMemberListAccess(q)
      written == Switched(q) \/ new # q.seen
  IN
  /\ At(s, "commit")
  /\ none' = IF written THEN new ELSE none
  /\ columns' = IF written THEN Mirror(new) ELSE Shown(columns, q.show)
  /\ template' = IF Switched(q) THEN q.template ELSE template
  /\ own' = IF Switched(q) THEN own \ {"none"} ELSE own
  /\ torn' = (~written /\ (torn \/ columns' # columns))
  /\ crossed' = (crossed \/ (written /\ (q.seen # none \/ Level(q.seen) # q.previous)))
  /\ wasOpen' = (wasOpen /\ ~written)
  /\ Done(s)
  /\ UNCHANGED <<seeded, customized, templates, asked, hiddenSince>>

(***************************************************************************)
(* The boot of an instance gives a group without roles those of its        *)
(* template, and keeps its member list open if it was.                     *)
(***************************************************************************)
seedRolesForNewGroup(s) ==
  /\ At(s, "copy") /\ Unlocked
  /\ seeded' = TRUE
  /\ none' = IF seeded THEN none ELSE templates[doing[s].template]
  /\ template' = doing[s].template
  /\ crossed' = (crossed \/ template # doing[s].template)
  /\ Go(s, "read")
  /\ UNCHANGED <<own, columns, customized, templates, asked, torn, wasOpen, hiddenSince>>

Looked(s) == Becomes(s, [doing[s] EXCEPT !.stage = "list", !.seen = none])

keepMemberListOpen_Unseen(s) ==
  /\ At(s, "keep")
  /\ Looked(s)
  /\ UNCHANGED <<role, group, templates, asked, torn, crossed, hiddenSince, wasOpen>>
  \* Fault: the list is opened even if the group cannot be seen.

keepMemberListOpen(s) ==
  /\ At(s, "keep")
  /\ IF "read" \in none THEN Looked(s) ELSE Done(s)
  /\ UNCHANGED <<role, group, templates, asked, torn, crossed, hiddenSince, wasOpen>>

\* setNonMemberMemberListAccess reads the role anew, and writes from that.
readMemberList(s) ==
  /\ At(s, "list")
  /\ IF "members" \in none
     THEN Done(s) /\ UNCHANGED hiddenSince
     ELSE /\ Becomes(s, [doing[s] EXCEPT !.stage = "open", !.seen = none,
                                         !.to = none \cup {"members"}])
          /\ hiddenSince' = (hiddenSince \/ "read" \in doing[s].seen \ none)
  /\ UNCHANGED <<role, group, templates, asked, torn, crossed, wasOpen>>

openMemberList_Alone(s) ==
  /\ At(s, "open")
  /\ none' = doing[s].to
  /\ crossed' = (crossed \/ none # doing[s].seen)
  /\ Done(s)
  /\ UNCHANGED <<seeded, own, group, templates, asked, torn, wasOpen, hiddenSince>>
  \* Fault: the columns are not brought up to date.

openMemberList(s) ==
  /\ At(s, "open")
  /\ none' = doing[s].to
  /\ crossed' = (crossed \/ none # doing[s].seen)
  /\ Becomes(s, [doing[s] EXCEPT !.stage = "read", !.show = "same"])
  /\ UNCHANGED <<seeded, own, group, templates, asked, torn, wasOpen, hiddenSince>>

\* What has been written of a request, and is not complete without the rest.
HalfWay(q) ==
  \/ q.stage \in {"read", "sync", "keep", "list", "open", "mark", "template", "unmark"}
  \/ q.stage = "later" /\ q.op # "edit"

\* A request breaks off; a transaction that does is undone.
Fail(s) ==
  /\ ~At(s, "idle")
  /\ torn' = (torn \/ At(s, "read") \/ At(s, "sync"))
  /\ crossed' = (crossed \/ HalfWay(doing[s]))
  /\ Done(s)
  /\ UNCHANGED <<role, group, templates, asked, wasOpen, hiddenSince>>

Step(s) ==
  \/ writeGroupRole(s) \/ syncReads(s) \/ syncNonMemberAccess(s) \/ writeOtherRoles(s)
  \/ markGroupRolesCustomized(s) \/ writeGroupTemplate(s) \/ markGroupRolesUncustomized(s)
  \/ Begin(s) \/ Lock(s) \/ Commit(s)
  \/ seedRolesForNewGroup(s) \/ keepMemberListOpen(s) \/ readMemberList(s)
  \/ openMemberList(s)
  \/ Fail(s)

Asking(s) ==
  \/ \E rights \in Asks, may \in Mays : updateGroupRole(s, rights, may)
  \/ \E other \in Others : updateOtherGroupRole(s, other)
  \/ \E t \in Templates : \/ applyGroupRoleTemplates(s, t)
                          \/ \E may \in Mays : resetGroupRoles(s, t, may)
  \/ \E t \in Levels \cup {"same"}, show \in {"same", "open", "close"}, may \in Mays :
       UpdateGroup(s, t, show, may)
  \/ seedRolesForGroupsWithoutRoles(s)

Next ==
  \/ asked < MaxAsked /\ \/ \E s \in Slots : Asking(s)
                         \/ \E t \in Templates, rights \in Asks :
                              updateGroupRoleTemplate(t, rights)
  \/ \E s \in Slots : Step(s)

Spec == Init /\ [][Next]_vars

-----------------------------------------------------------------------------
TypeOK ==
  /\ seeded \in BOOLEAN /\ customized \in BOOLEAN
  /\ torn \in BOOLEAN /\ crossed \in BOOLEAN /\ hiddenSince \in BOOLEAN
  /\ wasOpen \in BOOLEAN
  /\ none \subseteq Doors /\ columns \subseteq Doors \ {"request"}
  /\ template \in Templates
  /\ templates \in [Templates -> SUBSET Doors]
  /\ doing \in [Slots -> Requests]
  /\ asked \in 0..MaxAsked
  /\ own \subseteq {"none"} \cup Others

Under(s, ops) == doing[s].op \in ops /\ HalfWay(doing[s])

(***************************************************************************)
(* The columns every list and feed reads agree with the none role          *)
(* (integrity.ts:51-57), but while somebody is about to bring them up to   *)
(* date - unless that broke off, worked from an old reading (repository.ts *)
(* :342) or went round the role (groups.ts:575).                           *)
(***************************************************************************)
ColumnsMirrorTheRole ==
  seeded => \/ columns = Mirror(none)
            \/ torn
            \/ \E s \in Slots : At(s, "read") \/ At(s, "sync")

(***************************************************************************)
(* Strangers have no right in a group they cannot see: no member list, no  *)
(* content and no door, whichever of the writers wrote last                *)
(* (mandatoryRights.ts:25-31, repository.ts:547-550).  Two requests can    *)
(* open the list of a group that is being hidden: a form that takes it for *)
(* a closed one by columns that are behind, and a boot that looks whether  *)
(* it can be seen (:556) before it reads what it adds the list to (:526).  *)
(***************************************************************************)
NothingWithoutSight ==
  \/ none = {} \/ "read" \in none \/ crossed
  \/ hiddenSince /\ none = {"members"}

(***************************************************************************)
(* What a group has written into its roles itself is marked, so that       *)
(* applying a template finds it customized and leaves it alone             *)
(* (repository.ts:650): while the mark is missing the edit is under way,   *)
(* has broken off, or a reset has taken the mark of an edit it overlapped. *)
(***************************************************************************)
OwnRightsAreMarked ==
  own # {} /\ ~customized => crossed \/ \E s \in Slots : Under(s, {"update", "edit"})

(***************************************************************************)
(* A group that has not edited its roles is as findable as the template it *)
(* runs on, so applying that template never hides or shows it: for all the *)
(* ways to edit the template (groupRoles.ts:724), to switch it and to set  *)
(* the member list.                                                        *)
(***************************************************************************)
UntouchedShowsAsItsTemplate ==
  seeded /\ ~customized =>
    \/ Level(none) = Level(templates[template])
    \/ crossed
    \/ \E s \in Slots : Under(s, {"update", "reset"})

(***************************************************************************)
(* A restored group whose member list was open keeps it open through the   *)
(* boot that seeds its roles (repository.ts:543-551), if the boot ends and *)
(* until somebody gives strangers other rights.                            *)
(***************************************************************************)
OpenListStaysOpen ==
  wasOpen /\ seeded /\ "read" \in none =>
    \/ "members" \in none
    \/ crossed
    \/ \E s \in Slots : doing[s].op = "boot"

(***************************************************************************)
(* Nobody makes a group more private than they might have created it       *)
(* (concept E10, groupRoles.ts:133-160), by an edit, a reset, another      *)
(* visibility or a template - unless the group was not as private as its   *)
(* columns said when they asked, or was changed since.                     *)
(***************************************************************************)
PrivacyIsCapped ==
  [][seeded /\ MorePrivate(Level(none'), Level(none)) =>
       \/ crossed'
       \/ \E s \in Slots : /\ doing[s] # doing'[s]
                           /\ \/ Level(none') \in doing[s].may
                              \/ doing[s].level # Level(none)]_vars

(***************************************************************************)
(* "Outside a closed group it changes nothing" (groups.ts:606-609):        *)
(* saving a group that is not and does not become a closed one leaves the  *)
(* columns of its member list alone.                                       *)
(***************************************************************************)
ShowMembersIsForClosedGroups ==
  [][\A s \in Slots :
       Commit(s) /\ ~Switched(doing[s]) /\ ~ClosedAfter(doing[s]) => UNCHANGED columns]_vars
=============================================================================
