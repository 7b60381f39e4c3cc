\* One call of each tool.
SPECIFICATION LiveSpec
CONSTANTS
  shell = shell
  docker = docker
  Calls = {shell, docker}
  Linux = {shell}
INVARIANTS Truthful NoStray
PROPERTY CallsEnd
CHECK_DEADLOCK FALSE
