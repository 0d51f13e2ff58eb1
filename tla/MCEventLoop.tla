----------------------------- MODULE MCEventLoop -----------------------------
(* Two unix sockets that want the same name, two stream sockets and a udp   *)
(* socket share three descriptors.                                          *)
EXTENDS EventLoop

CONSTANTS u1, u2, s1, s2, d

MCObjs   == {u1, u2, s1, s2, d}
MCUnix   == {u1, u2}
MCStream == {s1, s2}
MCFds    == 0 .. 2

Twins == Permutations({u1, u2}) \cup Permutations({s1, s2})
=============================================================================
