---------------------------- MODULE MCAmazonBuild ----------------------------
(* One build: at most one group, spot request, instance and image exist.     *)
EXTENDS AmazonBuild

=============================================================================
