SPECIFICATION Spec
CONSTANTS
  first = first
  second = second
  Layouts = {first, second}
  HotkeyIds = {1, 2}
  MaxStarts = 1
SYMMETRY LayoutSymmetry
INVARIANTS
  OutcomeIsShown
