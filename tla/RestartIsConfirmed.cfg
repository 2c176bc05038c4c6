\* Two callers restart the pod of a StatefulSet, whose next pod has the same name.
SPECIFICATION PodSpec
CONSTANTS
  PodNames = {"web-0"}
  Stateful = {"web-0"}
  Restarts = {"k1", "k2"}
  MaxUid = 3
INVARIANTS
  RestartIsConfirmed
CHECK_DEADLOCK FALSE
