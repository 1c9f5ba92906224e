CONSTANTS
  Holders = {h1, h2, h3}
  Acts = {a1, a2, a3}
  Impls = {i1, i2, i3, i4}
  Null = Null
  Dead = Dead
  NoAct = NoAct
SPECIFICATION Spec
PROPERTY RefinesDeleterSpec
