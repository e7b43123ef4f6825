---------------------------- MODULE MCInstaller ----------------------------
(* Installer for TLC.                                                      *)
EXTENDS Installer
=============================================================================
