------------------------- MODULE MCProjectSettings -------------------------
EXTENDS ProjectSettings, TLC

Symmetric == Permutations(Request) \cup Permutations(Editor) \cup Permutations(Value)
============================================================================
