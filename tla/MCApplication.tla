---------------------------- MODULE MCApplication -----------------------------
(* Application on small instances, for TLC. *)
EXTENDS Application

Of(enabled, endpoint) == [enabled |-> enabled, endpoint |-> endpoint]

Conf(one, two, product) == [port |-> <<one, two>>, product |-> product]

First  == Conf(Of(TRUE, 1), Of(TRUE, 2), "x")
\* The second port takes the endpoint that the first one leaves.
Moved  == Conf(Of(TRUE, 3), Of(TRUE, 1), "x")
\* Only the product settings differ from First.
Retitled == Conf(Of(TRUE, 1), Of(TRUE, 2), "y")
Safe   == Conf(Of(FALSE, 1), Of(FALSE, 2), "x")

MCConfigs == {First, Moved, Retitled, Safe}

Files(a, b) == [active |-> a, backup |-> b]

\* A new device and a device in use; that nothing can be read is a fault of a start.
MCFirstDirs == {Files(Absent, Absent), Files(Moved, First)}

\* A device in use, with no backup yet.
MCUsedDirs == {Files(First, Absent)}
=============================================================================
