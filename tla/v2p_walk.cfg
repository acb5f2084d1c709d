SPECIFICATION Spec
CONSTANTS
    f1 = f1
    f2 = f2
    f3 = f3
    Frames <- ThreeFrames
    None = None
    Zero = Zero
    Junk = Junk
SYMMETRY Symmetry
INVARIANTS TypeOK ValueIsFrame SmallTranslated
