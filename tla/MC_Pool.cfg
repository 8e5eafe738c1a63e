CONSTANTS
  n1 = n1
  n2 = n2
  n3 = n3
  n4 = n4
  Node <- MCNode
  Null = Null
  tLen = 6
  HG_ADDR_HEAD = 1
  Sizes = {1, 2}
SPECIFICATION LinkSpec
SYMMETRY MCSymmetry
INVARIANTS NoOverlap NodesAccounted LinksAgree IInv
