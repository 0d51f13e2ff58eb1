------------------------------ MODULE MCDllList ------------------------------
(* Small instances of DllList.                                             *)
EXTENDS DllList

CONSTANTS l1, l2, i1, i2, i3, i4

MCLists == {l1, l2}
MCItems == {i1, i2, i3, i4}
=============================================================================
