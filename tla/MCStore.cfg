CONSTANT Proc = {p1, p2, p3}
SPECIFICATION Spec
INVARIANTS TypeOK RecordedIsComplete CleanUpgrade
PROPERTIES RowsSurvive
SYMMETRY Symmetry
