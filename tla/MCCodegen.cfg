SPECIFICATION Spec
CONSTANTS
    Targets = {t1, t2}
    Deps = {d1, d2}
    MaxEdits = 2
INVARIANTS
    CodegenTypeOK
    GenerateRepairs
    DeployedCodeIsCurrent
    DeployedDepsAreCurrent
