CONSTANTS
  p1 = p1
  NoTask = NoTask
  Phys = {p1}
  Modes = {"off", "rstp"}
  Boards <- Fabrics
SPECIFICATION Spec
PROPERTIES NoSetAfterFault
