--------------------------- MODULE MCStreamCallbacks ---------------------------
(* TLC instance of StreamCallbacks: node n1 has a stream of two types and a delta *)
(* stream, both naming their node once; n2 has two streams that name it in every  *)
(* request, alike in everything else too.                                         *)
EXTENDS StreamCallbacks, TLC

CONSTANTS s1, s2, s3, s4, n1, n2

MCNodeOf == s1 :> n2 @@ s2 :> n1 @@ s3 :> n1 @@ s4 :> n2
Alike == Permutations({s1, s4})
=============================================================================
