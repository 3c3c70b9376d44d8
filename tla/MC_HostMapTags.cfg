\* Two exports whose nids are registered, moved and given jobs meanwhile.
CONSTANTS
  Servers = {s1}
  Clients = {c1, c2}
  Nids = {n1, n2}
  Events = {e1}
  Jobs = {"j1", "j2"}
  MaxOps = 2
  MaxTime = 2
  MaxMishaps = 0
SPECIFICATION Spec
PROPERTIES RowsAddUp
