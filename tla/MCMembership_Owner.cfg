SPECIFICATION MemberSpec
CONSTANTS
  Users = {u1, u2, u3}
  Workspaces = {w1}
  Requests = {r1}
  Roles = {"owner", "steward", "narrow", "member"}
  Managing = {"owner", "steward", "narrow"}
  Grantable = {"owner", "steward", "member"}
  Nobody = Nobody
  Nowhere = Nowhere
CONSTRAINT NotStale
PROPERTIES NeverWithoutOwner
CHECK_DEADLOCK FALSE
