---------------------------- MODULE ErrorTracker ----------------------------
(***************************************************************************)
(* Error grouping (services/error_tracker.py).  Threads and requests       *)
(* report errors at once; each report finds or creates its group under a   *)
(* lock, lets the lock go, and takes it again to decide whether the group  *)
(* is written to the action log or only counted as pending.  Between the   *)
(* two the group may have been evicted from the table and made anew.       *)
(*                                                                         *)
(* A group is an object with an identity of its own, as in the code, where *)
(* a thread can still hold one that the table has dropped.                 *)
(***************************************************************************)
EXTENDS Integers, Sequences, SequencesExt, FiniteSets, FiniteSetsExt, Functions

CONSTANTS Kinds,        \* fingerprints: what groups errors
          Threads,      \* those that report at the same time
          MaxGroups,    \* _max_groups
          MaxReports    \* bound on total_count

ASSUME TrackerBounds ==
    /\ MaxGroups \in Nat \ {0}
    /\ MaxReports \in Nat
    /\ IsFiniteSet(Threads)

Nobody == 0

VARIABLES groups,    \* _groups: the objects in the table, least recently seen first
          objects,   \* every group ever made
          holding,   \* the object a thread holds between its two lock sections
          recent,    \* objects written less than a throttle window ago
          written,   \* occurrences in the action log, by kind
          total      \* total_count

trackerVars == <<groups, objects, holding, recent, written, total>>

Made == 1 .. Len(objects)
GroupsOf(k) == {o \in Made : objects[o].kind = k}
Places(k) == {i \in DOMAIN groups : objects[groups[i]].kind = k}

TrackerTypeOK ==
    /\ groups \in Seq(Made) /\ Len(groups) <= MaxGroups
    /\ objects \in Seq([kind : Kinds, count : 1 .. MaxReports, pending : 0 .. MaxReports])
    /\ holding \in [Threads -> Made \union {Nobody}]
    /\ recent \subseteq Made
    /\ written \in [Kinds -> 0 .. MaxReports]
    /\ total \in 0 .. MaxReports

TrackerInit ==
    /\ groups = <<>> /\ objects = <<>>
    /\ holding = [t \in Threads |-> Nobody]
    /\ recent = {}
    /\ written = [k \in Kinds |-> 0]
    /\ total = 0

\* The table keeps the most recently seen groups: the oldest goes first.
Evict(gs) == IF Len(gs) > MaxGroups THEN Tail(gs) ELSE gs

\* _make_or_update(), under the lock: the new group or the known one, seen last.
Create(t, k) ==
    /\ objects' = Append(objects, [kind |-> k, count |-> 1, pending |-> 0])
    /\ groups' = Evict(Append(groups, Len(objects) + 1))
    /\ holding' = [holding EXCEPT ![t] = Len(objects) + 1]

Update(t, i) ==
    /\ objects' = [objects EXCEPT ![groups[i]].count = @ + 1]
    /\ groups' = Append(RemoveAt(groups, i), groups[i])
    /\ holding' = [holding EXCEPT ![t] = groups[i]]

Report(t, k) ==
    /\ holding[t] = Nobody /\ total < MaxReports
    /\ total' = total + 1
    /\ IF Places(k) = {} THEN Create(t, k) ELSE \E i \in Places(k) : Update(t, i)
    /\ UNCHANGED <<recent, written>>

\* Mutant: the pending hits stay with the group that has just been written.
WriteKeepingPending(t) ==
    LET o == holding[t] IN
    /\ o # Nobody
    /\ holding' = [holding EXCEPT ![t] = Nobody]
    /\ IF o \in recent
       THEN /\ objects' = [objects EXCEPT ![o].pending = @ + 1]
            /\ UNCHANGED <<recent, written>>
       ELSE /\ written' = [written EXCEPT ![objects[o].kind] = @ + 1 + objects[o].pending]
            /\ recent' = recent \union {o}
            /\ UNCHANGED objects
    /\ UNCHANGED <<groups, total>>

\* _maybe_write(): within the window of the last entry the hit is only pending;
\* after it one entry stands for this hit and all the pending ones.
MaybeWrite(t) ==
    LET o == holding[t] IN
    /\ o # Nobody
    /\ holding' = [holding EXCEPT ![t] = Nobody]
    /\ IF o \in recent
       THEN /\ objects' = [objects EXCEPT ![o].pending = @ + 1]
            /\ UNCHANGED <<recent, written>>
       ELSE /\ written' = [written EXCEPT ![objects[o].kind] = @ + 1 + objects[o].pending]
            /\ objects' = [objects EXCEPT ![o].pending = 0]
            /\ recent' = recent \union {o}
    /\ UNCHANGED <<groups, total>>

\* THROTTLE_SECONDS pass since the group was written.
WindowPasses(o) ==
    /\ o \in recent
    /\ recent' = recent \ {o}
    /\ UNCHANGED <<groups, objects, holding, written, total>>

TrackerNext ==
    \/ \E t \in Threads, k \in Kinds : Report(t, k)
    \/ \E t \in Threads : MaybeWrite(t)
    \/ \E o \in Made : WindowPasses(o)

TrackerSpec == TrackerInit /\ [][TrackerNext]_trackerVars

-----------------------------------------------------------------------------
Held(k) == {t \in Threads : holding[t] # Nobody /\ objects[holding[t]].kind = k}
Pending(k) == SumFunctionOnSet([o \in Made |-> objects[o].pending], GroupsOf(k))
Counted(k) == SumFunctionOnSet([o \in Made |-> objects[o].count], GroupsOf(k))

\* "So a throttled burst is still counted correctly when the rows are read back"
\* (error_tracker.py:369-370): what the log holds of a kind, what its groups have
\* pending, evicted ones included, and what threads are about to decide is what
\* was reported of it, no hit lost between the lock sections or counted twice.
HitsAddUp ==
    \A k \in Kinds : written[k] + Pending(k) + Cardinality(Held(k)) = Counted(k)
=============================================================================
