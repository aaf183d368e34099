CONSTANTS
  s1 = s1
  s2 = s2
  Scripts <- MCScripts
  MaxDepth <- MCMaxDepth
  MaxLeaves <- MCMaxLeaves
  MaxFromLeaves <- MCMaxFromLeaves
SPECIFICATION Spec
SYMMETRY MCSymmetry
INVARIANT
  DisplayIsBip386
