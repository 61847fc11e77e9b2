------------------------------- MODULE JobLists -------------------------------
(***************************************************************************)
(* What BuildJobs returns in every server mode that changes the system, as *)
(* far as NetworkJobs tells jobs apart:                                    *)
(*                                                                         *)
(*   internal/server/tun/tun_net_{linux,freebsd,darwin}.go                 *)
(*   internal/server/{http,socks5}/..._net_darwin.go                       *)
(*                                                                         *)
(* `device' is the device that holds the effect: what is configured on the *)
(* TUN device goes with it.  `again' is what the Apply command does where  *)
(* its effect already is ("ip ... add" and "route add" report an error;    *)
(* "ip link set", "ifconfig" and "networksetup" do not care).              *)
(***************************************************************************)
EXTENDS Naturals, Sequences

JobOn(device, again) == [apply |-> TRUE, device |-> device, again |-> again]

\* info.RouteTargetCIDRs: the network of the device and the two halves of the
\* address space.
RouteTargets == 3

\* Add CIDR routes via TUN.
CIDRRoutes == [i \in 1..RouteTargets |-> JobOn("tun", "error")]

BuildJobsLinux ==
    << [apply |-> FALSE, device |-> "tun", again |-> "ok"], \* remove TUN interface
       JobOn("tun", "error"),         \* configure TUN interface address
       JobOn("tun", "ok"),            \* bring TUN interface up
       JobOn("physical", "error"),    \* add gateway host route
       JobOn("physical", "error"),    \* add default route to routing table
       JobOn("none", "error") >>      \* add policy routing rule
    \o CIDRRoutes

BuildJobsFreeBSD ==
    << JobOn("tun", "ok"),            \* configure TUN interface address
       JobOn("physical", "error"),    \* add FIB subnet route
       JobOn("physical", "error") >>  \* add FIB default route
    \o CIDRRoutes

BuildJobsDarwin ==
    << JobOn("tun", "ok"),            \* configure TUN interface address
       JobOn("physical", "error") >>  \* add scoped default route
    \o CIDRRoutes

\* The HTTP and the SOCKS5 proxy; other platforms return no jobs.
BuildJobsProxy ==
    << JobOn("service", "ok"),        \* set auto proxy URL
       JobOn("service", "ok") >>      \* enable proxy auto discovery

\* Mode by mode.
BuildJobs == [tun_linux |-> BuildJobsLinux, tun_freebsd |-> BuildJobsFreeBSD,
              tun_darwin |-> BuildJobsDarwin, http_darwin |-> BuildJobsProxy,
              socks5_darwin |-> BuildJobsProxy]

\* createServer: the order in which it cleans up after the modes.
ResetOrder == << {"tun_linux", "tun_freebsd", "tun_darwin"}, {"http_darwin"},
                 {"socks5_darwin"} >>
===============================================================================
