------------------------------ MODULE EventLoop ------------------------------
(***************************************************************************)
(* A single-threaded server on pxfe_poll: it opens and accepts sockets,    *)
(* asks to be told of their events, polls, compacts, and closes what it no *)
(* longer needs.  Its duties: it takes a descriptor out of the poll set    *)
(* before it closes it, as the numbers are given again, and does not give  *)
(* a unix socket whose bind failed a descriptor by open or setFd.          *)
(***************************************************************************)
EXTENDS PollSet

serverVars == <<fdVars, pollVars>>

ServerTypeOK == FdTypeOK /\ PollTypeOK

ServerInit == FdInit /\ PollInit

Unpolled(o) == fd[o] \in Fds => asked[fd[o]] = 0

\* The path of a socket that is given a descriptor is one it bound itself, or
\* none: its destructor removes that name (posix_fe.h:1146, 1180, 1871).
MayAdopt(o) == path[o] # NoName => named[path[o]] = o

OpenStep(o) ==
    \/ MayAdopt(o) /\ Open(o)
    \/ InitUdp(o) \/ InitStream(o)
    \/ \E new \in Objs : Accept(o, new)
    \/ \E p \in Paths : InitUnix(o, p)

CloseStep(o) == Unpolled(o) /\ (Close(o) \/ (MayAdopt(o) /\ SetFd(o)) \/ Destroy(o))

\* set() of an object.
SetStep(o) ==
    /\ fd[o] # -1
    /\ Unset(fd[o]) \/ \E events \in Events : Set(fd[o], events)

ServerNext ==
    \/ (\E o \in Objs : OpenStep(o) \/ CloseStep(o)) /\ UNCHANGED pollVars
    \/ ((\E o \in Objs : SetStep(o)) \/ Poll \/ Compact) /\ UNCHANGED fdVars

ServerSpec == ServerInit /\ [][ServerNext]_serverVars
=============================================================================
