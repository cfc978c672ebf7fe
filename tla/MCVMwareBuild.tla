---------------------------- MODULE MCVMwareBuild ----------------------------
(* All three kinds of build, forced or not, over an old directory or none.   *)
EXTENDS VMwareBuild

=============================================================================
