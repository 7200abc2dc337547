SPECIFICATION Spec
CONSTANTS
    p1 = p1
    p2 = p2
    link = link
    x1 = x1
    x2 = x2
    Paths = {p1, p2, link}
    Links = {link}
    Apps = {x1, x2}
    NoPath = NoPath
    NoFile = NoFile
    Scenes <- PushOnly
PROPERTY EnabledIsolates
