SPECIFICATION Spec
CONSTANTS
    Root = Root
    Child = Child
    Mem = Mem
    Shared = Shared
    Leaf = Leaf
    saver1 = saver1
    saver2 = saver2
    store1 = store1
    Classes = {Shared, Leaf}
    Slotted = {}
    Instances = {saver1}
    Lenses = {lens1, lensG}
    GlobalLens = lensG
    NoLens = NoLens
    Base = Base
    NoMethod = NoMethod
    NoTable = NoTable
    Kind <- MCKind
    Mro <- MCMro
    Body <- MCBody
    ClassOf <- MCClassOf
INVARIANT AutoProtected
