SPECIFICATION Spec
CONSTANTS
    Setups = {s1}
    Connects = {c1}
    Flushes = {f1,x1}
    Sandboxed = {x1}
    Uninstalls = {u1}
    Upgrades = {g1}
    Nobody = Nobody
INVARIANTS DestructionIsAlone OneHolder
PROPERTIES RemovesOnlyItsOwn
SYMMETRY Symmetry
