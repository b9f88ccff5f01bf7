------------------------ MODULE MCAmneziaVpnService ------------------------
(* Small instances of the Android service for TLC. *)
EXTENDS AmneziaVpnService

\* Bound: a third coroutine is looked at only where the requests are in order,
\* nobody is bound and the service is not being stopped.
ThirdInOrder == Len(jobs) <= 2 \/ (Orderly /\ ~sysBound /\ stopTimer = "off")
=============================================================================
