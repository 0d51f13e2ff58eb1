\* Three threads, two pools and three buffers: every interleaving of alloc, ref,
\* deref, grow, release and add.
CONSTANTS
    t1 = t1
    t2 = t2
    t3 = t3
    p1 = p1
    p2 = p2
    b1 = b1
    b2 = b2
    b3 = b3
    Null = Null
    Threads <- MCThreads
    Pools <- MCPools
    Buffers <- MCBuffers
    MaxHolders = 3
SPECIFICATION RefSpec
SYMMETRY Symmetric
INVARIANTS CountsConserved OnePlace NoneLost LastDerefReleases
