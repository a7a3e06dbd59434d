SPECIFICATION Spec
CONSTANTS
  Defaults = {1, 2}
  Disabled = {2}
  Fields = {"is_active", "modbus_address"}
  Others = {}
  Layouts = {l0, l1}
  Standard = l0
  Sessions = {s1, s2}
  Children = {"child"}
  page = page
  task = task
  Readers = {page, task}
  Home <- Homes
  Asks <- AsksOf
  TTL = 1
  MaxLoad = 1
  MaxPosts = 2
SYMMETRY Alike
INVARIANTS StaleBound
