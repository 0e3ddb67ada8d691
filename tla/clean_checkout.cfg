SPECIFICATION Spec
CONSTANTS
  Stack = {"c", "s", "o", "f"}
  Solo = {"s"}
  Known = {"c", "s", "f"}
  Ours = {"c", "s", "o"}
  Index <- MCIndex
  Vol = {"c1", "c2", "c3", "s1", "o1", "f1"}
  Named = {"c1", "o1", "f1"}
  Owner <- MCOwner
  Commands <- StopsAndCleans
  Machines <- MCMachines
  Width = 2
  ReadFails = TRUE
  ListFails = FALSE
  ActFails = TRUE
  MaxOthers = 0
INVARIANTS
  OnlyOurs
