----------------------------- MODULE Descriptors -----------------------------
(***************************************************************************)
(* pxfe_fd and the sockets derived from it (lib/posix_fe.h): objects that  *)
(* hold one descriptor each, open it in several ways and close it.         *)
(*                                                                         *)
(* The process has a table of open descriptors and is given the lowest     *)
(* free one; a unix datagram socket also makes a name in the file system.  *)
(* An object that holds a descriptor is closed before it is initialised    *)
(* again: open() and the inits overwrite fd.  Every class inherits open()  *)
(* and setFd() in public.                                                  *)
(***************************************************************************)
EXTENDS Integers, FiniteSets, FiniteSetsExt

CONSTANTS
    Objs,      \* objects
    Fds,       \* descriptors the process may have
    Paths,     \* names of unix sockets
    Unix,      \* the objects that are pxfe_unix_dgram_socket
    Stream     \* the objects that are _pxfe_stream_socket; the others are udp ones

\* The empty path, of a socket that has none, and the object of a name that is free.
NoName == ""

ASSUME ObjsAssumption == Unix \subseteq Objs /\ Stream \subseteq Objs \ Unix /\ NoName \notin Objs
ASSUME FdsAssumption  == Fds \subseteq Nat /\ Fds # {}

VARIABLES
    fd,        \* as in the code, of each object
    path,      \* the path of each unix socket, or NoName
    open,      \* the open descriptors
    named      \* the object whose socket each name is of, or NoName

fdVars == <<fd, path, open, named>>

FdTypeOK ==
    /\ fd \in [Objs -> Fds \cup {-1}]
    /\ path \in [Objs -> Paths \cup {NoName}]
    /\ open \subseteq Fds
    /\ named \in [Paths -> Objs \cup {NoName}]

FdInit ==
    /\ fd = [o \in Objs |-> -1]
    /\ path = [o \in Objs |-> NoName]
    /\ open = {}
    /\ named = [p \in Paths |-> NoName]

Free == Fds \ open

\* The kernel gives the lowest free descriptor.
Given(f) == f \in Free /\ f = Min(Free)

Opens(o) == \E f \in Fds : Given(f) /\ fd' = [fd EXCEPT ![o] = f] /\ open' = open \cup {f}
-----------------------------------------------------------------------------
\* open() of a file by an object of any class, with or without success.
Open(o) ==
    /\ fd[o] = -1
    /\ Opens(o) \/ UNCHANGED <<fd, open>>
    /\ UNCHANGED <<path, named>>

\* init() and init_proto() of a udp socket.  When socket() succeeds and bind fails,
\* init returns false with the descriptor still open.
InitUdp(o) == o \notin Stream \cup Unix /\ Open(o)

\* The inits of a stream socket, with or without bind; as a udp socket's.
InitStream(o) == o \in Stream /\ Open(o)

\* accept(): a new object with the descriptor of the connection.
Accept(o, new) ==
    /\ o \in Stream /\ fd[o] # -1
    /\ new \in Stream /\ fd[new] = -1
    /\ Opens(new)
    /\ UNCHANGED <<path, named>>

\* Mutant: as the other sockets, the descriptor stays when bind fails.
M_InitUnixKeeps(o, p) ==
    /\ o \in Unix /\ fd[o] = -1
    /\ path' = [path EXCEPT ![o] = p]
    /\ Opens(o)
    /\ named' = IF named[p] = NoName THEN [named EXCEPT ![p] = o] ELSE named

\* init_common(): socket() may fail; bind fails when the name exists, and the
\* descriptor is closed again.
InitUnix(o, p) ==
    /\ o \in Unix /\ fd[o] = -1
    /\ path' = [path EXCEPT ![o] = p]
    /\ \/ Opens(o) /\ named[p] = NoName /\ named' = [named EXCEPT ![p] = o]
       \/ UNCHANGED <<fd, open, named>>

\* Mutant: fd is not set to -1.
M_CloseKeepsFd(o) ==
    /\ open' = open \ {fd[o]}
    /\ UNCHANGED <<fd, path, named>>

\* close().
Close(o) ==
    /\ open' = open \ {fd[o]}
    /\ fd' = [fd EXCEPT ![o] = -1]
    /\ UNCHANGED <<path, named>>

\* setFd() with a descriptor that another object let go of, or with one the
\* program opened itself: the old one is closed first.
SetFd(o) ==
    /\ \E f \in Free :
          /\ fd' = [fd EXCEPT ![o] = f]
          /\ open' = (open \ {fd[o]}) \cup {f}
    /\ UNCHANGED <<path, named>>

\* The destructor, and an object constructed anew: a unix socket removes the name
\* in its path first, whoever bound it, but not when its descriptor is 0.
Destroy(o) ==
    /\ named' = [p \in Paths |->
                   IF o \in Unix /\ fd[o] > 0 /\ path[o] = p THEN NoName ELSE named[p]]
    /\ open' = open \ {fd[o]}
    /\ fd' = [fd EXCEPT ![o] = -1]
    /\ path' = [path EXCEPT ![o] = NoName]
-----------------------------------------------------------------------------
\* However objects are opened, closed and destroyed, every open descriptor is
\* held by exactly one of them and no object holds a closed one, so that none
\* leaks and none is closed twice, which would close another object's
\* (posix_fe.h:1139-1146, 1194-1199).
Owned ==
    /\ \A o \in Objs : fd[o] # -1 => fd[o] \in open
    /\ \A f \in open : Cardinality({o \in Objs : fd[o] = f}) = 1

\* A unix socket that is open and has a path is found under it: no destructor of
\* another object, such as one whose bind to that name failed, has removed it
\* (posix_fe.h:1855-1873).  It takes a program that never gives a descriptor to a
\* socket after its bind failed (MayAdopt of EventLoop).
NameKept == \A o \in Unix : fd[o] # -1 /\ path[o] # NoName => named[path[o]] = o
=============================================================================
