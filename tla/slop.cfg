CONSTANTS
  Top = Top
  Pops = {p, q}
  None = None
  Fingers = {0, 1}
  Rects <- MCRects
  MaxX = 2
  F13_SLOP = 1
SPECIFICATION Spec
SYMMETRY MCSymmetry
PROPERTY DragFromSlop
