--------------------------- MODULE RelayProcess ----------------------------
(***************************************************************************)
(* The retry loop of the queue, the Hub and the push registry live and die *)
(* together: they are threads and maps of one process, which main.rs       *)
(* starts.  This is what may befall all of them, within bounds.            *)
(***************************************************************************)
EXTENDS Naturals

CONSTANTS MaxCrashes, MaxFailures   \* bounds

ASSUME FaultsAssumption == {MaxCrashes, MaxFailures} \subseteq Nat

VARIABLES up, crashes, failures

\* The process ends between any two steps; each part adds what it loses of its memory.
ProcessEnds ==
    /\ up /\ crashes < MaxCrashes
    /\ up' = FALSE /\ crashes' = crashes + 1

\* It is started again; each part adds what it reads back from its files.
ProcessStarts == ~up /\ up' = TRUE

\* An operation on a file returns an error to the code that asked for it.
FileError == failures < MaxFailures /\ failures' = failures + 1

=============================================================================
