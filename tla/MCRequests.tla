----------------------------- MODULE MCRequests -----------------------------
(***************************************************************************)
(* Checks Sessions, AccountData, ErrorTracker and ScanAdmission in one     *)
(* run.  They share no state, so a behaviour moves one of them only: the   *)
(* one Init chooses.                                                       *)
(***************************************************************************)
EXTENDS Sessions, AccountData, ErrorTracker, ScanAdmission, TLC

VARIABLE focus

vars == <<sessionVars, dataVars, trackerVars, admissionVars, focus>>

Init ==
    /\ SessionInit /\ DataInit /\ TrackerInit /\ AdmissionInit
    /\ focus \in {"sessions", "lists", "journal", "errors", "scans", "tests"}

Next ==
    /\ UNCHANGED focus
    /\ \/ /\ focus = "sessions" /\ SessionNext
          /\ UNCHANGED <<dataVars, trackerVars, admissionVars>>
       \/ /\ focus = "lists" /\ ListStep
          /\ UNCHANGED <<sessionVars, trackerVars, admissionVars>>
       \/ /\ focus = "journal" /\ JournalStep
          /\ UNCHANGED <<sessionVars, trackerVars, admissionVars>>
       \/ /\ focus = "errors" /\ TrackerNext
          /\ UNCHANGED <<sessionVars, dataVars, admissionVars>>
       \/ /\ \/ focus = "scans" /\ ScanStep
             \/ focus = "tests" /\ TestStep
             \/ focus \in {"scans", "tests"} /\ (CacheStep \/ Leaving)
          /\ UNCHANGED <<sessionVars, dataVars, trackerVars>>

Spec == Init /\ [][Next]_vars

TypeOK == SessionTypeOK /\ DataTypeOK /\ TrackerTypeOK /\ AdmissionTypeOK

Symmetry == Permutations(Callers) \union Permutations(Devices)
            \union Permutations(Visitors)
=============================================================================
