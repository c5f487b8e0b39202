----------------------------- MODULE MCSDKBuild -----------------------------
(* A Makefile that defines app and libapp, with PKG_NAME app, and a package    *)
(* app-base that the SDK builds for it.                                        *)
EXTENDS SDKBuild
=============================================================================
