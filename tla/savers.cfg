SPECIFICATION Spec
CONSTANTS
    Root = Root
    Child = Child
    Mem = Mem
    Shared = Shared
    Leaf = Leaf
    saver1 = saver1
    saver2 = saver2
    store1 = store1
    Classes = {Root, Child, Mem}
    Slotted = {Mem}
    Instances = {saver1, store1}
    Lenses = {lens1, lensG}
    GlobalLens = lensG
    NoLens = NoLens
    Base = Base
    NoMethod = NoMethod
    NoTable = NoTable
    Kind <- MCKind
    Mro <- MCMro
    Body <- MCBody
    ClassOf <- MCClassOf
INVARIANTS
    TypeOK
    InspectedOncePerBody
    AutoProtected
    SwappedKeepsLens
    StaysInspected
