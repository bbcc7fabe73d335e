----------------------------- MODULE MCBackEnds -----------------------------
(***************************************************************************)
(* What the handlers call and what shares neither state nor steps: the     *)
(* static leases, nanodns.conf with the ad blocker, the tunnels over the   *)
(* uplink, the monitor mode, the counters of requests and logins, the      *)
(* e-paper panel and the readers of listings.  A behaviour moves one of    *)
(* them, chosen at the start; of nanodns the requests for the conf, with   *)
(* the downloads they start, or those for the blocklist.                   *)
(***************************************************************************)
EXTENDS StaticLeases, Integers, Sequences, FiniteSets, TLC

CONSTANTS Domain, d1, d2, MaxDnsEdits, MaxDnsOverlap, Port, Posted, Tunnel, WithDns, Full, MaxOps,
          Adapter, Window, Ban, MaxRequests, MaxAttempts, W, H, Bits, MaxLines,
          Downloads, Frames

\* Logins may fail more than once before they ban, and a ban outlasts two windows:
\* a limit of 10, windows of 60 s and bans of 300 s in the code.
ASSUME LimitsAssumption ==
    /\ IsFiniteSet(Request) /\ Request # {}
    /\ Window \in Nat \ {0} /\ MaxRequests \in Nat \ {0}
    /\ MaxAttempts \in Nat \ {0, 1}
    /\ Ban \in Nat /\ Ban >= 2 * Window - 1

\* The panel is 128 by 250 pixels, eight to a byte; a drawing sets pixels one after
\* another, and may miss the panel.
ASSUME PanelAssumption ==
    /\ W \in Nat \ {0} /\ H \in Nat \ {0} /\ Bits \in Nat \ {0}
    /\ W % Bits = 0
    /\ Frames \subseteq Seq(Int \X Int \X BOOLEAN)

VARIABLES
    focus,
    dns, dnsPc, dnsCopy, todo, settings, blocklist, listPc, listCopy, update, fetched,
    asked, oddSent, crossed, listMixed, dnsEdits,
    saved, gw, resolv, viaWan, dialer, wanPc, wanCfg, since, ops,
    userspace, confs, ifaces, table, rules, backup, routeState, bypass, autostart, pc, tun,
    last, mingled, lost, loose,
    plugged, mode, monitor, iface, scan, monPc, held,
    count, age, fails, failAge, banned, attempt, passed, guesses, sinceBan,
    buf, link, sent, ram, xEnd, yEnd, x, y, image, frame, outcome,
    text, result, showIface, showPeer, section, conf, peers, confPeer

\* Each mode, over the interface of the boot and another, with and without name servers.
MCPosted ==
    {[mode |-> "ppp", dev |-> "ppp0", dns |-> {}],
     [mode |-> "dhcp", dev |-> "eth0", dns |-> {}],
     [mode |-> "static", dev |-> "eth0", dns |-> {"static"}],
     [mode |-> "static", dev |-> "usb0", dns |-> {}]}

MCDownloads == {{}, {d1, d2}}

\* Nothing; pixels in and out of the frame; pixels drawn over.
MCFrames ==
    {<<>>,
     <<<<0, 0, TRUE>>, <<3, 1, TRUE>>, <<-1, 1, TRUE>>, <<4, 0, TRUE>>, <<0, 2, TRUE>>>>,
     <<<<1, 0, TRUE>>, <<2, 1, TRUE>>, <<1, 0, FALSE>>, <<1, 1, TRUE>>>>}

Dns == INSTANCE NanoDns
Vpn == INSTANCE Vpn
Mon == INSTANCE Monitor
Limits == INSTANCE Limits
Panel == INSTANCE Epaper
Reader == INSTANCE Listings

dnsVars == <<dns, dnsPc, dnsCopy, todo, settings, blocklist, listPc, listCopy, update, fetched,
             asked, oddSent, crossed, listMixed, dnsEdits>>
vpnVars == <<saved, gw, resolv, viaWan, dialer, wanPc, wanCfg, since, ops, userspace, confs, ifaces, table,
             rules, backup, routeState, bypass, autostart, pc, tun, last, mingled, lost, loose>>
monVars == <<plugged, mode, monitor, iface, scan, monPc, held>>
limitVars == <<count, age, fails, failAge, banned, attempt, passed, guesses, sinceBan>>
panelVars == <<buf, link, sent, ram, xEnd, yEnd, x, y, image, frame, outcome>>
readerVars == <<text, result, showIface, showPeer, section, conf, peers, confPeer>>
allVars == <<vars, dnsVars, vpnVars, monVars, limitVars, panelVars, readerVars, focus>>

MCInit ==
    /\ focus \in {"leases", "dns", "blocklist", "vpn", "monitor", "limits", "panel", "reader"}
    /\ Init /\ (focus = "leases" \/ dhcp.leases = {})
    /\ Dns!Init
    /\ Vpn!Init /\ bypass /\ (focus = "vpn" \/ ~userspace)
    /\ Mon!MonitorInit /\ (focus = "monitor" \/ plugged = {})
    /\ Limits!Init /\ Panel!EpaperInit /\ Reader!ListingInit

\* The parts but one stay as they are.
LeaseStep == focus = "leases" /\ Next
    /\ UNCHANGED <<focus, dnsVars, vpnVars, monVars, limitVars, panelVars, readerVars>>
DnsStep ==
    /\ \/ focus = "dns" /\ UNCHANGED listPc
       \/ focus = "blocklist" /\ UNCHANGED dnsPc
    /\ Dns!Next
    /\ UNCHANGED <<focus, vars, vpnVars, monVars, limitVars, panelVars, readerVars>>
VpnStep == focus = "vpn" /\ Vpn!Next
    /\ UNCHANGED <<focus, vars, dnsVars, monVars, limitVars, panelVars, readerVars>>
MonitorStep == focus = "monitor" /\ Mon!MonitorNext
    /\ UNCHANGED <<focus, vars, dnsVars, vpnVars, limitVars, panelVars, readerVars>>
LimitStep == focus = "limits" /\ Limits!Next
    /\ UNCHANGED <<focus, vars, dnsVars, vpnVars, monVars, panelVars, readerVars>>
PanelStep == focus = "panel" /\ Panel!EpaperNext
    /\ UNCHANGED <<focus, vars, dnsVars, vpnVars, monVars, limitVars, readerVars>>
ReaderStep == focus = "reader" /\ Reader!ReadLine
    /\ UNCHANGED <<focus, vars, dnsVars, vpnVars, monVars, limitVars, panelVars>>

MCNext ==
    \/ LeaseStep \/ DnsStep \/ VpnStep \/ MonitorStep \/ LimitStep \/ PanelStep \/ ReaderStep

MCSpec == MCInit /\ [][MCNext]_allVars

\* A behaviour is not followed past the point where a lease request voids the
\* promise of the store: no property says anything of what comes after.
NotVoid == ~void

Symmetry == Permutations(Request)

-----------------------------------------------------------------------------
\* The DNS settings are those the last lone request asked for (NanoDns).
SettingsAsAsked == Dns!SettingsAsAsked

\* No name has two DNS records of one type (NanoDns).
RecordsUnique == Dns!RecordsUnique

\* The settings page and the ad blocker keep the records, and an edit of the
\* records keeps the settings (NanoDns).
LoneWritesKeepRest == Dns!LoneWritesKeepRest

\* A blocked domain is in the list once (NanoDns).
DomainsOnce == Dns!DomainsOnce

\* The uplink's default route is the saved one's after a post that ran alone (Wan).
WanInForce == Vpn!WanInForce

\* A tunnel whose up was answered with success carries the traffic (Vpn).
TrafficInTunnel == Vpn!TrafficInTunnel

\* Tunnels that are gone leave no routes, rules or name servers (Vpn).
NothingLeft == Vpn!NothingLeft

\* The autostart names a tunnel there is (Vpn).
AutostartNamesTunnel == Vpn!AutostartNamesTunnel

\* Networks are listed only while the monitor is on (Monitor).
ScanOnlyWhenOn == Mon!ScanOnlyWhenOn

\* In a span as long as a window no more requests pass and logins fail than in
\* two windows straddled (Limits).
SpansBounded == Limits!SpansBounded

\* A ban holds but for logins past its check (Limits).
BanHolds == Limits!BanHolds

\* A render that succeeds leaves the whole frame on the panel (Epaper).
FrameShown == Panel!FrameShown

\* A reader gives every peer its interface and its keys (Listings).
PeersInPlace == Reader!PeersInPlace
=============================================================================
