CONSTANTS
    s1 = s1
    s2 = s2
    s3 = s3
    a = a
    b = b
    c1 = c1
    c2 = c2
    Sessions = {s1, s2, s3}
    Names = {a, b}
    None = None
    Torn = Torn
    Commits = {Root, c1, c2}
    Root = Root
CHECK_DEADLOCK FALSE
SPECIFICATION MCSpec
PROPERTIES
    UnchangedNotOverwritten
