\* A server with more sockets than descriptors, so that every number is given
\* again and again, and its poll set; two of the sockets want one name.
SPECIFICATION ServerSpec
CONSTANTS
    u1 = u1
    u2 = u2
    s1 = s1
    s2 = s2
    d = d
    Objs <- MCObjs
    Unix <- MCUnix
    Stream <- MCStream
    Fds <- MCFds
    Paths = {p}
    Events = {1}
SYMMETRY Twins
INVARIANTS
    AnswersRight
    Owned
    NameKept
