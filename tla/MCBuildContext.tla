--------------------------- MODULE MCBuildContext ---------------------------
(* Two routers of one snapshot release and one of a point release, on two    *)
(* registries and one download server; two extra packages, apk only.         *)
EXTENDS BuildContext

RegistryDef == <<"hub", "ghcr", "hub">>
ServerDef == <<"downloads", "downloads", "downloads">>
ReleaseDef == <<"snapshot", "snapshot", "24.10.2">>
ManagerDef == <<"apk", "apk", "opkg">>
PublishedDef == {<<"apk", 1>>, <<"apk", 2>>}
=============================================================================
