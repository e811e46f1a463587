SPECIFICATION Spec
CONSTANTS
  u1 = u1
  u2 = u2
  NoUser = NoUser
  editor = editor
  helper = helper
  Users = {u1, u2}
  NetworkAdmins = {u2}
  Customs = {editor, helper}
  Template <- Standard
  Edited = {"usual"}
  MaxRequests = 2
  MaxEdits = 1
SYMMETRY Symmetry
INVARIANT ChatIsForMembers
INVARIANT OnlyInvitedMissTheChat
INVARIANT RolesAreDefined
PROPERTY MembersStayMembers
PROPERTY OwnersEndByOwnHand
PROPERTY PowerHasASource
