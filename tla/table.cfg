CONSTANTS
    Instances = {a, b, p}
    Primitives = {p}
    Classes = {{a}, {b}}
    MaxId = 4
    Names = {"j", "k"}
    MaxDepth = 3
    Arguments <- MCArguments
    Results <- MCResults
    Emissions <- MCEmissions
SPECIFICATION Spec
INVARIANTS
    CanonicalIds
    IdsAreForever
    ArgumentsArrive
    ResultsArrive
    EmissionsArrive
