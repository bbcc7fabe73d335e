-------------------------------- MODULE Vpn --------------------------------
(***************************************************************************)
(* The VPN tunnels: the life cycle in amnezia.rs, its handlers in api.rs   *)
(* and the autostart of main.rs, over the uplink of Wan.  A tunnel is an   *)
(* interface, its default route in the table the policy rules send traffic *)
(* to, its name servers in resolv.conf with the former file kept beside    *)
(* it, and routes by the uplink for the bypass list, noted in a state file.*)
(*                                                                         *)
(* Of the kernel: a route or rule that is there is not added a second time *)
(* (the command fails), and an interface takes its routes with it; the one *)
(* of a userspace tunnel ends with its daemon.                             *)
(***************************************************************************)
EXTENDS Wan

CONSTANTS
    Tunnel,              \* names of tunnels
    WithDns,             \* those whose configuration has name servers
    Full                 \* those whose peers are allowed every address

VARIABLES
    userspace,           \* the kernel lacks the module: amneziawg-go is used
    confs,               \* tunnels with a configuration file
    ifaces,              \* tunnels whose interface exists
    table,               \* tunnel of the VPN table's default route
    rules,               \* the policy rules in force
    backup,              \* resolv.conf.vpn_bak
    routeState,          \* /tmp/tinywifi_vpn_state
    bypass,              \* the bypass list, on or off
    autostart,           \* the autostart file
    pc, tun,             \* per process: next step, its tunnel
    last,                \* history: the last VPN request, run alone, and its tunnel
    mingled,             \* history: requests overlapped or one was cut short
    lost,                \* history: the way back to what was before a tunnel is lost
    loose                \* history: the autostart file was edited during a deletion

kernel == <<ifaces, table, rules>>
process == <<pc, tun>>
history == <<mingled, lost, loose>>
tunnelVars == <<userspace, confs, kernel, backup, routeState, bypass, autostart, process, last, history>>
vars == <<wanVars, tunnelVars>>

Process == Request \cup {"boot"}
Rules == {"not fwmark", "suppress"}
Entry == "entry"         \* the bypass list, where it is on
Nobody == [op |-> "none", tunnel |-> {}]

\* scan_tunnels: the tunnels with a configuration, and which have an interface.
Status == [t \in confs |-> IF t \in ifaces THEN "up" ELSE "down"]

\* The state file: whose tunnel's routes were added, and which.
Note(tunnel, routes) == [tunnel |-> tunnel, routes |-> routes]

Idle == \A p \in Process : pc[p] = "idle"

Init ==
    /\ WanInit
    /\ userspace \in BOOLEAN
    /\ confs = Tunnel /\ ifaces = {} /\ table = {} /\ rules = {}
    /\ backup = {} /\ routeState = {} /\ bypass \in BOOLEAN /\ autostart = {}
    /\ pc = [p \in Process |-> "idle"]
    /\ tun = [p \in Process |-> {}]
    /\ last = Nobody /\ mingled = FALSE /\ lost = FALSE /\ loose = FALSE

At(p, from, to) == pc[p] = from /\ pc' = [pc EXCEPT ![p] = to]

\* A process takes up a request for a tunnel.
Begin(p, t, op, step) ==
    /\ At(p, "idle", step)
    /\ tun' = [tun EXCEPT ![p] = {t}]
    /\ last' = [op |-> IF Idle THEN op ELSE "unsure", tunnel |-> {t}]
    /\ mingled' = (mingled \/ ~Idle)
    /\ loose' = (loose \/ ~Idle)
    /\ UNCHANGED lost

\* The process is done, with success or not.
Done(p, outcome) ==
    /\ pc' = [pc EXCEPT ![p] = "idle"]
    /\ tun' = [tun EXCEPT ![p] = {}]
    /\ last' = IF last.op \in {"up", "down"} /\ outcome = "ok" /\ last.tunnel = tun[p]
               THEN [last EXCEPT !.op = IF @ = "up" THEN "is up" ELSE "is down"]
               ELSE [last EXCEPT !.op = "unsure"]

\* The interfaces left when one is deleted and, by kill_awg_go, every daemon.
Left(t) == IF userspace THEN {} ELSE ifaces \ t

\* The interface of another tunnel goes with its daemon.
Orphans(p, left) == ~(ifaces \ tun[p] \subseteq left)

\* Some routes are noted.
Noted == \E s \in routeState : s.routes # {}

\* teardown_policy_routing and the deletion of interfaces: the rules go,
\* whichever tunnel they serve, and the route with its interface.
Remaining(left) ==
    /\ ifaces' = left
    /\ table' = table \cap left
    /\ rules' = {}

-----------------------------------------------------------------------------
Up(r) == \E t \in DOMAIN Status :
    /\ ops < MaxOps /\ ops' = ops + 1
    /\ Begin(r, t, "up", "clean")
    /\ UNCHANGED <<saved, network, wanRequest, since>>
    /\ UNCHANGED <<userspace, confs, kernel, backup, routeState, bypass, autostart>>

Down(r) == \E t \in DOMAIN Status :
    /\ Status[t] = "up"
    /\ ops < MaxOps /\ ops' = ops + 1
    /\ Begin(r, t, "down", "unroute")
    /\ UNCHANGED <<saved, network, wanRequest, since>>
    /\ UNCHANGED <<userspace, confs, kernel, backup, routeState, bypass, autostart>>

\* delete_tunnel brings the tunnel down first if its interface exists.
Delete(r) == \E t \in DOMAIN Status :
    /\ ops < MaxOps /\ ops' = ops + 1
    /\ IF t \in ifaces THEN Begin(r, t, "down", "unroute for delete") ELSE Begin(r, t, "other", "remove")
    /\ UNCHANGED <<saved, network, wanRequest, since>>
    /\ UNCHANGED <<userspace, confs, kernel, backup, routeState, bypass, autostart>>

\* tunnel_up removes what a former run left of this tunnel, but neither the noted
\* routes nor the copy of resolv.conf ...
Clean(p) ==
    /\ At(p, "clean", "create")
    /\ LET left == IF tun[p] \subseteq ifaces THEN Left(tun[p]) ELSE ifaces
       IN  Remaining(left) /\ lost' = (lost \/ Noted \/ Orphans(p, left))
    /\ UNCHANGED <<wanVars, userspace, confs, backup, routeState, bypass, autostart, tun, last, mingled, loose>>

\* ... creates the interface, or finds it there; an amneziawg-go that does not
\* deliver is killed, and every other one with it ...
Create(p) ==
    /\ pc[p] = "create"
    /\ \/ /\ At(p, "create", "configure")
          /\ ifaces' = ifaces \cup tun[p]
          /\ UNCHANGED <<table, tun, last>>
       \/ /\ Done(p, "failed")
          /\ ifaces' = Left({})
          /\ table' = table \cap ifaces'
    /\ lost' = (lost \/ Orphans(p, ifaces'))
    /\ UNCHANGED <<wanVars, userspace, confs, rules, backup, routeState, bypass, autostart, mingled, loose>>

\* ... reads the configuration again and sets the interface up ...
Configure(p) ==
    /\ pc[p] = "configure"
    /\ \/ At(p, "configure", "dns") /\ tun[p] \subseteq confs \cap ifaces /\ UNCHANGED <<tun, last>>
       \/ Done(p, "failed")
    /\ UNCHANGED <<wanVars, userspace, confs, kernel, backup, routeState, bypass, autostart, history>>

\* The slip of name servers written before the file is copied.
WriteDnsUncopied(p) ==
    /\ At(p, "dns", "policy")
    /\ IF tun[p] \subseteq WithDns
       THEN /\ resolv' = "vpn" /\ backup' = {resolv'}
            /\ lost' = (lost \/ resolv = "vpn")
       ELSE UNCHANGED <<backup, resolv, lost>>
    /\ UNCHANGED <<saved, gw, viaWan, dialer, wanRequest, since, ops, userspace, confs, kernel>>
    /\ UNCHANGED <<routeState, bypass, autostart, tun, last, mingled, loose>>

\* write_dns copies resolv.conf over any earlier copy and writes it anew; each
\* may fail unseen.
WriteDns(p) ==
    /\ At(p, "dns", "policy")
    /\ IF tun[p] \subseteq WithDns
       THEN \E copied, written \in BOOLEAN :
              /\ backup' = IF copied THEN {resolv} ELSE backup
              /\ resolv' = IF written THEN "vpn" ELSE resolv
              /\ lost' = (lost \/ resolv = "vpn" \/ ~copied)
       ELSE UNCHANGED <<backup, resolv, lost>>
    /\ UNCHANGED <<saved, gw, viaWan, dialer, wanRequest, since, ops, userspace, confs, kernel>>
    /\ UNCHANGED <<routeState, bypass, autostart, tun, last, mingled, loose>>

PolicyUnchanged == UNCHANGED <<wanVars, userspace, confs, ifaces, backup, routeState, bypass,
                               autostart, history>>

\* The slip of commands whose failure is ignored.
SetPolicyUnchecked(p) ==
    /\ At(p, "policy", "bypass")
    /\ IF table = {} /\ tun[p] \subseteq ifaces THEN table' = tun[p] ELSE UNCHANGED table
    /\ rules' = Rules
    /\ UNCHANGED <<tun, last>> /\ PolicyUnchanged

\* setup_policy_routing: a route and two rules, up to the first that fails.
SetPolicy(p) ==
    /\ \/ /\ At(p, "policy", "bypass")
          /\ table = {} /\ rules = {} /\ tun[p] \subseteq ifaces
          /\ table' = tun[p] /\ rules' = Rules
          /\ UNCHANGED <<tun, last>>
       \/ /\ pc[p] = "policy" /\ Done(p, "failed")
          /\ \/ UNCHANGED <<table, rules>>
             \/ /\ table = {} /\ tun[p] \subseteq ifaces /\ table' = tun[p]
                /\ rules' \in {rules, rules \cup {"not fwmark"}}
    /\ PolicyUnchanged

\* apply_bypass_routes_if_needed notes the routes that it could add; the note may
\* fail unseen, or be of no routes because those it could not add are there.
ApplyBypass(p) ==
    /\ pc[p] = "bypass"
    /\ Done(p, "ok")
    /\ IF tun[p] \subseteq Full /\ gw # {}
       THEN \E added \in {{}, IF bypass /\ viaWan = {} THEN {Entry} ELSE {}}, noted \in BOOLEAN :
              /\ viaWan' = IF added = {} THEN viaWan ELSE {t.dev : t \in gw}
              /\ routeState' \in IF noted THEN {{Note(tun[p], added)}} ELSE {routeState, {}}
              /\ lost' = (lost \/ ~noted)
       ELSE UNCHANGED <<viaWan, routeState, lost>>
    /\ UNCHANGED <<saved, gw, resolv, dialer, wanRequest, since, ops, userspace, confs, kernel>>
    /\ UNCHANGED <<backup, bypass, autostart, mingled, loose>>

-----------------------------------------------------------------------------
\* tunnel_down takes the noted routes back if the note is this tunnel's ...
Unroute(p) ==
    /\ \/ At(p, "unroute", "teardown") \/ At(p, "unroute for delete", "teardown for delete")
    /\ LET mine == {s \in routeState : s.tunnel = tun[p]}
       IN  /\ viaWan' = IF \E s \in mine : s.routes # {} THEN {} ELSE viaWan
           /\ routeState' = routeState \ mine
    /\ UNCHANGED <<saved, gw, resolv, dialer, wanRequest, since, ops, userspace, confs, kernel>>
    /\ UNCHANGED <<backup, bypass, autostart, tun, last, history>>

\* ... removes rules, interface and every daemon ...
Teardown(p) ==
    /\ \/ At(p, "teardown", "restore") \/ At(p, "teardown for delete", "restore for delete")
    /\ Remaining(Left(tun[p])) /\ lost' = (lost \/ Orphans(p, Left(tun[p])))
    /\ UNCHANGED <<wanVars, userspace, confs, backup, routeState, bypass, autostart, tun, last, mingled, loose>>

\* ... and puts resolv.conf back, if there is a copy, and removes the copy; each
\* may fail unseen.
Restore(p) ==
    /\ \/ pc[p] = "restore" /\ Done(p, "ok")
       \/ At(p, "restore for delete", "remove") /\ UNCHANGED <<tun, last>>
    /\ \/ backup = {} /\ UNCHANGED <<resolv, backup, lost>>
       \/ resolv' \in backup /\ backup' = {} /\ UNCHANGED lost
       \/ backup # {} /\ lost' = TRUE
          /\ \/ UNCHANGED resolv /\ backup' \in {backup, {}}
             \/ resolv' \in backup /\ UNCHANGED backup
    /\ UNCHANGED <<saved, gw, viaWan, dialer, wanRequest, since, ops, userspace, confs, kernel>>
    /\ UNCHANGED <<routeState, bypass, autostart, mingled, loose>>

\* delete_tunnel removes the configuration, unless that fails ...
Remove(p) ==
    /\ \/ At(p, "remove", "forget") /\ confs' = confs \ tun[p] /\ UNCHANGED <<tun, last>>
       \/ pc[p] = "remove" /\ Done(p, "failed") /\ UNCHANGED confs
    /\ UNCHANGED <<wanVars, userspace, kernel, backup, routeState, bypass, autostart, history>>

\* The slip of a deletion that leaves the autostart.
ForgetNothing(p) ==
    /\ pc[p] = "forget" /\ Done(p, "ok")
    /\ UNCHANGED <<wanVars, userspace, confs, kernel, backup, routeState, bypass, autostart, history>>

\* ... and then the autostart, if it is this tunnel's.
Forget(p) ==
    /\ \/ autostart = tun[p] /\ At(p, "forget", "unset") /\ UNCHANGED <<tun, last>>
       \/ autostart # tun[p] /\ pc[p] = "forget" /\ Done(p, "ok")
    /\ UNCHANGED <<wanVars, userspace, confs, kernel, backup, routeState, bypass, autostart, history>>

\* set_autostart(None), whomever the file names by now.
Unset(p) ==
    /\ pc[p] = "unset"
    /\ \/ Done(p, "ok") /\ autostart' = {} /\ UNCHANGED loose
       \/ Done(p, "failed") /\ loose' = (loose \/ ~(tun[p] \subseteq confs)) /\ UNCHANGED autostart
    /\ UNCHANGED <<wanVars, userspace, confs, kernel, backup, routeState, bypass, mingled, lost>>

-----------------------------------------------------------------------------
\* vpn_autostart_post looks for the tunnel, then writes the file.
SetAutostart(r) == \E t \in DOMAIN Status :
    /\ ops < MaxOps /\ ops' = ops + 1
    /\ Begin(r, t, "other", "autostart")
    /\ UNCHANGED <<saved, network, wanRequest, since>>
    /\ UNCHANGED <<userspace, confs, kernel, backup, routeState, bypass, autostart>>

\* set_autostart(Some): a write that fails may leave the file truncated.
WriteAutostart(p) ==
    /\ \/ pc[p] = "autostart" /\ Done(p, "ok") /\ autostart' = tun[p]
       \/ pc[p] = "autostart" /\ Done(p, "failed") /\ autostart' \in {autostart, {}}
    /\ UNCHANGED <<wanVars, userspace, confs, kernel, backup, routeState, bypass, history>>

\* A request that is one step and moves no tunnel.
Edit ==
    /\ ops < MaxOps /\ ops' = ops + 1
    /\ UNCHANGED <<saved, network, wanRequest, since, userspace, kernel, backup, routeState>>
    /\ UNCHANGED <<process, last, history>>

\* vpn_autostart_delete, of the tunnel that is the autostart's.
ClearAutostart(r) == \E t \in autostart :
    /\ ops < MaxOps /\ ops' = ops + 1
    /\ Begin(r, t, "other", "unset")
    /\ UNCHANGED <<saved, network, wanRequest, since>>
    /\ UNCHANGED <<userspace, confs, kernel, backup, routeState, bypass, autostart>>

\* import_tunnel writes a configuration, over one of the name if there is one.
Import == Edit /\ \E t \in Tunnel : confs' = confs \cup {t} /\ UNCHANGED <<autostart, bypass>>

\* save_bypass_list; a tunnel that is up keeps the routes it has.
EditBypass == Edit /\ bypass' = ~bypass /\ UNCHANGED <<autostart, confs>>

\* The service ends, or the router with it, whatever was in progress; then the
\* service starts and brings up the tunnel of the autostart.  A reboot takes
\* the kernel's state and /tmp, and leaves the files of /etc.
Start(reboot) ==
    /\ ops < MaxOps /\ ops' = ops + 1
    /\ LET up == autostart # {} /\ autostart \subseteq confs
       IN  /\ pc' = [p \in Process |-> IF up /\ p = "boot" THEN "clean" ELSE "idle"]
           /\ tun' = [p \in Process |-> IF up /\ p = "boot" THEN autostart ELSE {}]
           /\ last' = IF up THEN [op |-> "up", tunnel |-> autostart]
                      ELSE IF reboot \/ ~Idle THEN Nobody ELSE last
    /\ mingled' = (mingled \/ ~Idle)
    /\ wanPc' = [r \in Request |-> "idle"]
    /\ wanCfg' = [r \in Request |-> NoConfig]
    /\ since' = IF reboot \/ ~WanIdle THEN "start" ELSE since
    /\ loose' = (loose \/ ~Idle)
    /\ IF reboot
       THEN /\ ifaces' = {} /\ table' = {} /\ rules' = {} /\ routeState' = {}
            /\ gw' = {BootRoute} /\ viaWan' = {} /\ dialer' = FALSE
       ELSE UNCHANGED <<kernel, routeState, gw, viaWan, dialer>>
    /\ UNCHANGED <<saved, resolv, userspace, confs, backup, bypass, autostart, lost>>

\* The uplink moves; a resolv.conf written over the tunnel's is lost when the
\* tunnel goes down.
Uplink == WanNext /\ UNCHANGED tunnelVars

Next ==
    \/ \E r \in Request : Up(r) \/ Down(r) \/ Delete(r) \/ SetAutostart(r) \/ ClearAutostart(r)
    \/ \E p \in Process :
         \/ Clean(p) \/ Create(p) \/ Configure(p) \/ WriteDns(p) \/ SetPolicy(p) \/ ApplyBypass(p)
         \/ Unroute(p) \/ Teardown(p) \/ Restore(p) \/ Remove(p) \/ Forget(p) \/ Unset(p) \/ WriteAutostart(p)
    \/ Import \/ EditBypass \/ Uplink
    \/ \E reboot \in BOOLEAN : Start(reboot)

VpnSpec == Init /\ [][Next]_vars

-----------------------------------------------------------------------------
\* While the last VPN request is an up that ran alone and was answered with
\* success, its tunnel carries the traffic, whatever failed or overlapped before.
TrafficInTunnel ==
    last.op = "is up" => last.tunnel \subseteq ifaces /\ table = last.tunnel /\ rules = Rules

\* Once no tunnel has its interface, no policy rule sends traffic to one and the
\* routes for the bypass list are gone, also after ups that stopped half-way or were
\* repeated, and after reboots.  And after a down or a deletion that was answered with
\* success resolv.conf is none of a tunnel's and its copy is gone, also when a reboot
\* had cut the tunnel off and another was brought up and down since.  Requests that
\* overlapped or were cut short are set apart, and of routes and name servers the
\* cases in which the way back is lost: the VPN's own resolv.conf was copied, a copy
\* or a note failed unseen, a tunnel came up over the routes noted for one, or a
\* tunnel's daemon was killed with another's.
NothingLeft ==
    ~mingled /\ Idle /\ ifaces = {} =>
        /\ rules = {}
        /\ ~lost => viaWan = {}
        /\ ~lost /\ last.op = "is down" => backup = {} /\ resolv # "vpn"

\* The autostart names a tunnel there is, unless requests overlapped or the
\* deletion of one was cut short by a crash or answered that the autostart remains.
AutostartNamesTunnel == ~loose /\ Idle => autostart \subseteq confs
=============================================================================
