--------------------------- MODULE MCReplayWorkload ---------------------------
(* Instances for TLC: statements, extraction ranges and filters. *)
EXTENDS ReplayWorkload, TLC
CONSTANTS k1, k2

(* A definition in upper case, whose repetition is_duplicate() recognises by *)
(* its semicolon, and a FETCH, whose repetition it misses.                   *)
SomeTexts == {Text("create", FALSE, TRUE, 0, 1), Text("fetch", TRUE, TRUE, 0, 1)}
PlainTexts == {Text("select", TRUE, TRUE, 0, 1), Text("internal", TRUE, TRUE, 0, 1)}

(* A range within the logs, one to their end, and one without a start, where *)
(* the logs before second 2 have expired.                                    *)
Times(start, end, since) == [start |-> start, end |-> end, since |-> since]
ClosedRanges == {Times(2, 2, 0), Times(2, 0, 0)}
SomeRanges == {Times(2, 2, 0), Times(2, 0, 0), Times(0, 0, 2)}
AllOrNone == {{k1, k2}, {}}
All == {{k1, k2}}
AnyClient == Permutations({k1, k2})
=============================================================================
