--------------------------- MODULE MCPriceHistory ---------------------------
(***************************************************************************)
(* PriceHistory in two scenes: the nightly ingest alone over the whole     *)
(* calendar; or a chart request beside it for the rest of a shorter one.   *)
(* The provider restates at any moment.                                    *)
(***************************************************************************)
EXTENDS PriceHistory

CONSTANT ReaderDays  \* bound: the calendar of the second scene

VARIABLE scene

IngestAlone == \A r \in Readers : reads'[r].pc = "idle"

BesideReaders ==
    /\ today' <= ReaderDays
    /\ \A r \in Readers : reads'[r].from < ReaderDays /\ reads'[r].to \in {0, ReaderDays}

MCInit == Init /\ scene \in {"ingest", "readers"}

MCNext ==
    /\ UNCHANGED scene
    /\ Next
    /\ IF scene = "ingest" THEN IngestAlone ELSE BesideReaders

MCSpec == MCInit /\ [][MCNext]_<<vars, scene>>
=============================================================================
