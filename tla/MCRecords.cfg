SPECIFICATION RecordsSpec
CONSTANTS
  Users = {u1, u2, u3}
  Workspaces = {w1}
  Requests = {r1, r2}
  Roles = {"owner", "steward", "narrow", "member"}
  Managing = {"owner", "steward", "narrow"}
  Grantable = {"owner", "steward", "member"}
  Nobody = Nobody
  Nowhere = Nowhere
  Spaces = {s1, s2}
  Groups = {s3, s4}
  Connections = {c1}
  Root = Root
  None = None
  Workers = {r1, r2}
  MaxGrants = 1
  Folders = {u1, u2, u3}
  Items = {i1, i2}
  Loose = {i2}
  Filers = {r1, r2}
  MaxDepth = 2
  Top = Top
  Unused = Unused
SYMMETRY RecordsSymmetry
CONSTRAINTS Undisturbed FewGrants
INVARIANTS RecordsTypeOK RosterAgrees OwnerKept PathsFollowParents NothingDangles FoldersNest
PROPERTIES AdminKept
CHECK_DEADLOCK FALSE
