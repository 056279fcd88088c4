SPECIFICATION Spec
CONSTANTS
  Child <- TwoChildren
  Epic <- OneEpic
  PartOf <- Siblings
  ShownOn <- Siblings
  Repo <- TwoRepos
  RepoOf <- OneAbroad
  Pass <- OnePass
  Faults = {"issues", "timeline", "reason", "rest", "comments", "write", "killed"}
INVARIANTS TypeOK
PROPERTIES ClosedOverDone PromiseKept DoneEpicCloses DroppedScopeSurfaced
