----------------------------- MODULE MCSecrets -----------------------------
(* Instances of Secrets for TLC: two files with two params, two key pairs    *)
(* and two more that can be generated for the file name john.key.            *)
EXTENDS Secrets, TLC

Both(a, b) == [p \in Param |-> IF p = "user" THEN a ELSE b]

For(value, readers) == [value |-> value, readers |-> readers]

MCContents ==
  { Absent,
    Both(For("a", {"john", "mary"}), For("", {"john"})) }

MCTyped == { Both("a", "a"), Both("", NoParam) }

MCKnown == {"john", "mary"}

MCKeyFileOf == [key \in Key |-> IF key = "mary" THEN "mary" ELSE "john"]

Interchangeable == Permutations(Session) \cup Permutations(Key \ MCKnown)

=============================================================================
