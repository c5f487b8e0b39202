---------------------------- MODULE MCConfigRules ----------------------------
EXTENDS ConfigRules, TLC

E(sign, name) == [sign |-> sign, name |-> name]
StockMC == <<E("", "dnsmasq"), E("", "luci")>>
DistrosMC == ("openwrt" :> [repo |-> "openwrt/rootfs", force |-> ""])
             @@ ("immortalwrt" :> [repo |-> "", force |-> ""])
TargetsMC ==
  [armv8 |-> [oci |-> "linux/aarch64_generic", host |-> "linux/arm64", image |-> TRUE, vm |-> TRUE, efi |-> TRUE],
   malta |-> [oci |-> "linux/mips_24kc", host |-> "linux/mips", image |-> TRUE, vm |-> FALSE, efi |-> FALSE],
   thin |-> [oci |-> "linux/thin", host |-> "linux/arm/v7", image |-> FALSE, vm |-> FALSE, efi |-> FALSE]]
VersionMC == ("25.12.4" :> <<25, 12>>) @@ ("24.10.8" :> <<24, 10>>) @@ ("25.11.0" :> <<25, 11>>)
ReleasesMC == {"25.12.4", "24.10.8", "25.11.0", "snapshot", "SNAPSHOT", "main", "odd"}
LowerMC == [r \in ReleasesMC \cup {"none"} |-> IF r = "SNAPSHOT" THEN "snapshot" ELSE r]
SnapshotsMC == {"snapshot", "SNAPSHOT", "main"}

\* A router of owlab.yaml that says nothing, and one with an id and a release.
Silent == [id |-> "none", distro |-> "none", release |-> "none", arch |-> "none",
           fidelity |-> "none", manager |-> "none", image |-> "none", cpus |-> <<>>,
           extra |-> <<>>, packages |-> <<>>, fixtures |-> <<>>, ports |-> <<>>]
Some == [Silent EXCEPT !.id = "a", !.release = "25.12.4"]

Lists(entries, n) == UNION {[1..k -> entries] : k \in 0..n}
Entries(names) == {E(s, n) : s \in {"", "+", "-"}, n \in names}
File(d, rs) == [kind |-> "file", defaults |-> d, routers |-> rs]

PackageFiles ==
  {File([Silent EXCEPT !.packages = d], <<[Some EXCEPT !.packages = r]>>) :
     d, r \in Lists(Entries({"dnsmasq", "sqm"}), 2)}
  \cup {File(Silent, <<[Some EXCEPT !.packages = r]>>) : r \in Lists(Entries({"dnsmasq", "sqm"}), 4)}
FixtureFiles ==
  {File([Silent EXCEPT !.fixtures = d], <<[Some EXCEPT !.fixtures = r]>>) :
     d \in Lists(Entries({"clients", "wifi", "lived-in"}), 1),
     r \in Lists(Entries({"clients", "wifi", "lived-in", "none", "typo"}), 2)}
  \cup {File(Silent, <<[Some EXCEPT !.fixtures = <<E("", f)>>]>>) :
     f \in {"all", "networks", "portforwards", "wireguard", "system"}}
Blocks == {<<>>} \cup {<<h, s>> : h \in {0, 80, 81, 23}, s \in {0, 22, 23}}
PortFiles ==
  {File([Silent EXCEPT !.ports = d],
        <<[Some EXCEPT !.ports = p], [Some EXCEPT !.id = "b", !.ports = q],
          [Some EXCEPT !.id = "c", !.ports = r]>>) :
     d \in {<<>>, <<80, 0>>, <<0, 23>>}, p, q, r \in Blocks}
BaseFiles ==
  {File([Silent EXCEPT !.image = o],
        <<[Silent EXCEPT !.id = "a", !.distro = d, !.release = v, !.arch = t,
                         !.fidelity = f, !.manager = m]>>) :
     o \in {"none", "own"}, d \in {"none", "immortalwrt"}, v \in ReleasesMC \cup {"none"},
     t \in {"none", "", "malta", "thin"}, f \in {"none", "vm"}, m \in {"none", "opkg"}}
OtherFiles ==
  {File(d, <<[Some EXCEPT !.id = x], [Some EXCEPT !.id = y]>>) :
     d \in {Silent, [Silent EXCEPT !.extra = <<{"apk"}, {}>>],
            [Silent EXCEPT !.fidelity = "vm", !.cpus = <<0>>],
            [Silent EXCEPT !.distro = "lede"], [Silent EXCEPT !.arch = "alpha"]},
     x, y \in {"a", "b", "-b", "none"}}
FlagRuns ==
  {[kind |-> "flags", defaults |-> [Silent EXCEPT !.distro = "openwrt"],
    routers |-> [k \in 1..Len(v) |-> [Silent EXCEPT !.release = v[k], !.packages = p]]] :
     v \in UNION {[1..k -> {"25.12.4", "snapshot", "SNAPSHOT", "none"}] : k \in 1..3},
     p \in {<<E("+", "sqm")>>}}

SourcesMC == PackageFiles \cup FixtureFiles \cup PortFiles \cup BaseFiles \cup OtherFiles \cup FlagRuns
=============================================================================
