-------------------------- MODULE MCNativeHandles --------------------------
(* NativeHandles for model checking: all kinds of contexts, and pieces below *)
(* and at the limit of the length.                                         *)
EXTENDS NativeHandles, TLC
MCKind == {"digest", "hmac", "cmac", "des3", "dh", "rsa", "pkey"}
MCPieces == {<<1>>, <<2, 2>>, <<3, 3, 3>>}
Symmetry == Permutations(Value) \cup Permutations(Context)
============================================================================
