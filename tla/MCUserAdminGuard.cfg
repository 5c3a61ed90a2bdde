SPECIFICATION Spec
CONSTANTS
  Ids = {i1, i2, i3}
  Emails = {e1, e2}
  Roles = {user, manager, admin}
  AdminRoles = {admin}
  WriterRoles = {manager}
  DefaultRole = user
  FirstAdmin = admin
  AdminEmail = e1
  Handlers = {h1, h2}
  None = None
PROPERTY OnlyAdminsTouchAdmins
SYMMETRY Symmetry
CHECK_DEADLOCK FALSE
