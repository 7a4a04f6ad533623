\* Four slots and seven boots: every log is dropped, at every point where the
\* power may go.
CONSTANTS
  Slots = 4
  Tasks = {t1, t2}
  Faults = {"mount", "unlink", "rename", "open", "reopen"}
  MaxBoots = 7
SPECIFICATION Spec
SYMMETRY TaskSymmetry
INVARIANTS
  TypeOK
  KeepsLastBoots
  NewestFirst
  ExportIsAlone
