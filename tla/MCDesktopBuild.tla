--------------------------- MODULE MCDesktopBuild ---------------------------
(* One build of each kind, and one port that other processes compete for.    *)
EXTENDS DesktopBuild

=============================================================================
