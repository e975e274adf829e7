------------------------------ MODULE MCFiles ------------------------------
(***************************************************************************)
(* TLC instance of Files: two writers of one file, one thread on a desk of *)
(* three projects, one robot and two scenes for the visitor.               *)
(***************************************************************************)
EXTENDS Files

CONSTANTS w1, w2

TwoWriters == {w1, w2}

(* Two URDF uploads under one name, one under another, and a body its      *)
(* compiler refuses.                                                       *)
Uploads == {"arm", "rover", "broken"}
UploadName == [b \in Uploads |-> IF b = "rover" THEN "rover.urdf" ELSE "arm.urdf"]
=============================================================================
