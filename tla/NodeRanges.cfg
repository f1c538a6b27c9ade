CONSTANTS
    Group <- Groups
    Assignable = {2, 3}
    AdminAdds <- OperatorAdds
    Tasks = {t1, t2}
    None = None
    MaxRpcs = 2
    MaxChanges = 2
    MaxRestarts = 1
SPECIFICATION Spec
INVARIANTS DirectorySafe
PROPERTIES NodeProgress
CHECK_DEADLOCK FALSE
