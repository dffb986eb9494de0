SPECIFICATION Spec
CONSTANTS
    Width = 4
    Top = 9
INVARIANTS
    ReorderTolerated
PROPERTIES
    NonceFresh
    ImplementsService
