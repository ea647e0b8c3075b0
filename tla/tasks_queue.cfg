CONSTANTS
  p1 = p1
  p2 = p2
  e1 = e1
  e2 = e2
  e3 = e3
  conflict = conflict
  maintenance = maintenance
  feedback = feedback
  hauler = hauler
  selector = selector
  recall = recall
  Families = {"workflow"}
  Instances = {p1}
  Events = {e1, e2, e3}
  KeyOf <- Flow
  SemanticKeys = {conflict, maintenance, feedback}
  WorkflowKeys = {hauler, selector}
  OtherKeys = {recall}
  Unkeyed = {feedback}
  Replacing = {maintenance}
  Capacity = 2
  MaxAttempts = 2
  MaxApply = 2
  MaxTasks = 3
  MaxRevision = 0
SPECIFICATION FairSpec
INVARIANTS
  ProductCoversPayload OneUnclaimedPerKey SignalsKept WithinCapacity
PROPERTIES
  EverySignalSettles
