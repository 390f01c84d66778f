------------------------------ MODULE MCBuild ------------------------------
(* Small instances of Build for TLC: two or three source files. *)
EXTENDS Build, TLC

CONSTANTS s1, s2, s3, d1, d2

Sources2 == {s1, s2}
Sources3 == {s1, s2, s3}
Directories == {d1, d2}
Together2 == s1 :> d1 @@ s2 :> d1
Together3 == s1 :> d1 @@ s2 :> d1 @@ s3 :> d2
=============================================================================
