--------------------------- MODULE MCInstaller ---------------------------
(* Two gates, a helper in /etc, the application on the flash and a settings  *)
(* file; two versions.                                                       *)
EXTENDS Installer

MCMembers == <<"conf", "helper", "net", "bin", "app">>
=============================================================================
