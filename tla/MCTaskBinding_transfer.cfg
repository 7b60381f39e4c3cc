\* A rebind of one run while another run executes.
SPECIFICATION BindingSpec
CONSTANTS
  Process = {p1}
  Run = {r1, r2}
  Session = {s1, s2}
  NoSession = NoSession
  MaxRevision = 6
PROPERTY NoActiveTransfer
