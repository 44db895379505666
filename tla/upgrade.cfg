SPECIFICATION Spec
CONSTANTS
  o1 = o1
  o2 = o2
  s1 = s1
  t1 = t1
  Orders = {o1, o2}
  Sends = {s1}
  Texts = {t1}
  Retention = 2
  MaxBackups = 4
  Builds = {TRUE, FALSE}
INVARIANTS OrdersNeverLost ServedFileIsWhole OpenedFileReopens NewestBackupKept
SYMMETRY OrderSymmetry
