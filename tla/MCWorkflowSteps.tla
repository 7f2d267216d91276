-------------------------- MODULE MCWorkflowSteps --------------------------
(* Instances of WorkflowSteps: the tree, the keys and what the steps write. *)
EXTENDS WorkflowSteps

CONSTANTS root, x, y, a, b, c, d,      \* nodes
          count, log, note,            \* paths of the session state
          v0, v1, v2                   \* values

\* The workflow executes x and then d; x consists of y and c, y of a and b.
NestedTree == [n \in Nodes |-> CASE n = root -> <<x, d>>
                                 [] n = x -> <<y, c>>
                                 [] n = y -> <<a, b>>
                                 [] OTHER -> <<>>]

Nothing == [k \in Keys |-> Unwritten]

Write(k, v) == [j \in Keys |-> IF j = k THEN v ELSE Unwritten]

\* count is an outer key; log and note lie in the same inner dictionary.
Tops == [k \in Keys |-> IF k = count THEN count ELSE log]

Filled == [k \in Keys |-> IF k = count THEN v0 ELSE Absent]

\* a and c write the outer key, b removes it, retries, and writes to the inner
\* dictionary.
NestedWrites == [n \in Nodes |->
    CASE n = a -> {Write(count, v1)}
      [] n = b -> {Nothing, Write(log, v1), Write(count, Absent)}
      [] n = c -> {Nothing, Write(count, v2), Write(note, v2)}
      [] OTHER -> {Nothing}]

Stop == [stop |-> TRUE, success |-> TRUE]

NestedResults == [n \in Nodes |-> CASE n \in {a, b} -> {NoStop, Stop}
                                    [] n = c -> {NoStop, Failed}
                                    [] OTHER -> {NoStop}]

Retries == [n \in Leaves |-> IF n = b THEN 1 ELSE 0]

=============================================================================
