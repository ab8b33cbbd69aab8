SPECIFICATION Spec
CONSTANTS
    ge = ge
    me = me
    o1 = o1
    o2 = o2
    o3 = o3
    Obj = {ge, me, o1, o2}
    Imm = imm
    Code = {c1}
    NoCode = none
    GlobalEnv = ge
    MacroEnv = me
    Kinds = {"cons", "env"}
    Classes = {"env"}
    Stress = TRUE
    Header = 0
    Payload <- MCNoSize
    Word = 1
    HeapSize = 0
    MinHeapSize = 0
    HeapGrowPercent = 50
    MaxForbid = 0
    MaxHeld = 2
SYMMETRY Symmetry
INVARIANT
    NoDangling
