SPECIFICATION SearchSpec
CONSTANTS
    n1 = n1
    n12 = n12
    n123 = n123
    n13 = n13
    NNumber = {n1, n12, n123, n13}
    Query = {n12, n123, n13}
    lookupAircraftSearch <- MCSearch
    MaxSearches = 3
    None = None
INVARIANTS
    PanelMatchesText
PROPERTIES
    SearchSettles
