SPECIFICATION Spec
CONSTANTS
  ada = ada
  ben = ben
  c1 = c1
  c2 = c2
  Me = me
  NoUser = NoUser
  Users = {ada, ben}
  RoleOf <- MCRoleOf
  Calls = {c1, c2}
  MaxTokens = 2
  MaxLosses = 0
INVARIANTS TypeOK ActsForTheUserShown NoFalseTheft
PROPERTIES CallsSettle BootEnds
