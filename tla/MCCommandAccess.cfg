CONSTANTS
  Replicas = {r1}
  Cmds = {c1}
  Identity <- MCIdentity
  Versions = 2
  Fallback = "id"
  Bare = {TRUE}
  MaxInbox = 1
  MaxFaults = 0
  None = None
  Projects <- MCProjects
  RequirementProject <- MCRequirementProject
  ObjectiveProject <- MCObjectiveProject
  RequirementOf <- MCRequirementOf
  ObjectiveOf <- MCObjectiveOf
  Nowhere = Nowhere
  Requests <- MCRequests
  Attachments <- MCAttachments
  Uploaded = {}
SPECIFICATION AccessSpec
INVARIANTS
  ActsWithinPermission
