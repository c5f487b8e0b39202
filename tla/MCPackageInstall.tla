-------------------------- MODULE MCPackageInstall --------------------------
(* Three packages, one of them a kmod, and two feeds, for TLC. *)
EXTENDS PackageInstall

\* The app needs a package of the same list: it may bring it in after that one failed
\* by itself, or fail with it.
AppNeeds == [p \in Packages |-> IF p = "luci-app" THEN {"dnsmasq"} ELSE {}]
=============================================================================
