----------------------------- MODULE MCRealtime -----------------------------
(***************************************************************************)
(* Two connections, one after the other.  Each mix lets two of the three   *)
(* things happen that would be too many at once.                           *)
(***************************************************************************)
EXTENDS Realtime

MCEmitters == {"ingest", "ticker"}

Mix(l, m, c) == [links |-> l, messages |-> m, cuts |-> c]

MCMixes == {Mix(2, 0, 0), Mix(0, 3, 0), Mix(0, 1, 1)}

=============================================================================
