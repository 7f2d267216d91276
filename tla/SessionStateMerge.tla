------------------------- MODULE SessionStateMerge -------------------------
(***************************************************************************)
(* The session state of a workflow and how the changes of its steps are    *)
(* brought back into it (agno/utils/merge_dict.py).                        *)
(*                                                                         *)
(* A state is a dictionary of dictionaries: Keys are its paths, TopKey the *)
(* key of the outer dictionary a path lies under, and Nested the paths     *)
(* inside an inner dictionary.  The inner dictionaries are there from the  *)
(* beginning; Absent marks a path without a value.                         *)
(***************************************************************************)
EXTENDS Integers, Sequences

CONSTANTS Keys, TopKey, Nested, Values, Absent

ASSUME KeysAssumption == Nested \subseteq Keys
ASSUME AbsentAssumption == Absent \notin Values

States == [Keys -> Values \cup {Absent}]

\* `not original_state`: a dictionary without a single outer key.
IsEmpty(s) == Nested = {} /\ \A k \in Keys : s[k] = Absent

\* merge_dictionaries(s, shallow) of a state and its own shallow copy: the
\* values of the copy win, and a key that was removed from it stays.
MergeDictionaries(s, shallow) ==
    [k \in Keys |-> IF k \in Nested \/ shallow[k] = Absent THEN s[k] ELSE shallow[k]]

\* Does `modified` have the outer key of k, with another value than `original`?
\* Values are compared whole, inner dictionaries included.
Changed(original, modified, k) ==
    \E j \in Keys :
        /\ TopKey[j] = TopKey[k]
        /\ modified[j] # original[j]
        /\ j \in Nested \/ modified[j] # Absent

ChangedBy(original, modifieds, k) ==
    {i \in DOMAIN modifieds : Changed(original, modifieds[i], k)}

\* Of several changes of an outer key, the one of the last state counts.
LastOf(I) == CHOOSE i \in I : \A j \in I : j <= i

\* Mutant: every branch overwrites the keys of the branches before it.
LastBranchWins(original, modifieds) ==
    IF IsEmpty(original) \/ modifieds = <<>> THEN original
    ELSE modifieds[Len(modifieds)]

\* merge_parallel_session_states(original, modifieds).
MergeParallel(original, modifieds) ==
    [k \in Keys |->
        LET I == ChangedBy(original, modifieds, k)
        IN  IF IsEmpty(original) \/ I = {}
            THEN original[k]
            ELSE modifieds[LastOf(I)][k]]
=============================================================================
