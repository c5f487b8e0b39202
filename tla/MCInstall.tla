----------------------------- MODULE MCInstall -----------------------------
(* A router of each kind; two .apk files with one base name and an .ipk; two  *)
(* feeds, and one key that may have signed what they serve.                   *)
EXTENDS Install

ManagerDef == <<"apk", "opkg">>
FormatDef == <<"apk", "apk", "opkg">>
DestDef == <<"app.apk", "app.apk", "app.ipk">>
=============================================================================
