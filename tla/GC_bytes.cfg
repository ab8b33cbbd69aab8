SPECIFICATION Spec
CONSTANTS
    ge = ge
    me = me
    o1 = o1
    o2 = o2
    o3 = o3
    Obj = {ge, me, o1, o2}
    Imm = imm
    Code = {c1}
    NoCode = none
    GlobalEnv = ge
    MacroEnv = me
    Kinds = {"cons"}
    Classes = {"temp_roots"}
    Stress = FALSE
    Header = 2
    Payload <- MCPayload
    Word = 64
    HeapSize = 12
    MinHeapSize = 8
    HeapGrowPercent = 50
    MaxForbid = 0
    MaxHeld = 2
INVARIANT
    CountsAllBytes
