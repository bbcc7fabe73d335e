-------------------------------- MODULE Wan --------------------------------
(***************************************************************************)
(* The uplink: wan_post of api.rs and wan.rs.  Applying a configuration    *)
(* takes the system's commands one by one and stops at the first failure.  *)
(* resolv.conf belongs to whoever wrote it last, the VPN too (Vpn).  Of    *)
(* the kernel: the main table takes one default route, whichever interface *)
(* it is by, and flushing an interface takes the routes by it.  What may   *)
(* be missing is a set of at most one element.                             *)
(***************************************************************************)
EXTENDS Naturals, FiniteSets

CONSTANTS
    Request,             \* requests that may be in progress at once
    Port,                \* the uplink interfaces, those of pppd aside
    Posted,              \* the configurations of Configs that are posted
    MaxOps               \* bound: requests over a behaviour

VARIABLES
    saved,               \* wan.conf
    gw,                  \* the main table's default route
    resolv,              \* who wrote the name servers of resolv.conf
    viaWan,              \* interface of the bypass list's routes by the uplink
    dialer,              \* a pppd runs
    wanPc, wanCfg,       \* per request: next step, configuration to apply
    since,               \* history: what the last WAN request did, run alone
    ops

wanRequest == <<wanPc, wanCfg>>
network == <<gw, resolv, viaWan, dialer>>
wanVars == <<saved, network, wanRequest, since, ops>>

Ppp == "ppp0"
Route(dev, by) == [dev |-> dev, by |-> by]
BootRoute == Route("eth0", "boot")

NoConfig == [mode |-> "ppp", dev |-> Ppp, dns |-> {}]
Configs ==
    {NoConfig}
        \cup [mode : {"dhcp"}, dev : Port \ {Ppp}, dns : {{}}]
        \cup [mode : {"static"}, dev : Port \ {Ppp}, dns : {{}, {"static"}}]

WanIdle == \A r \in Request : wanPc[r] = "idle"

WanInit ==
    /\ saved = {} /\ gw = {BootRoute} /\ resolv = "boot" /\ viaWan = {} /\ dialer = FALSE
    /\ wanPc = [r \in Request |-> "idle"]
    /\ wanCfg = [r \in Request |-> NoConfig]
    /\ since = "start" /\ ops = 0

Goto(r, step) == wanPc' = [wanPc EXCEPT ![r] = step]

\* The request is answered, with success or with an error.
Answer(r, outcome) ==
    /\ Goto(r, "idle")
    /\ wanCfg' = [wanCfg EXCEPT ![r] = NoConfig]
    /\ since' = IF since = "alone" THEN outcome ELSE since

\* The routes by an interface go.
Leave(dev) ==
    /\ gw' = {t \in gw : t.dev # dev}
    /\ viaWan' = viaWan \ {dev}

\* The slip of a request that applies first and saves what has worked.
PostUnsaved(r) == \E cfg \in Posted \cap Configs :
    /\ wanPc[r] = "idle" /\ ops < MaxOps
    /\ ops' = ops + 1
    /\ Goto(r, cfg.mode)
    /\ wanCfg' = [wanCfg EXCEPT ![r] = cfg]
    /\ since' = IF WanIdle THEN "alone" ELSE "unsure"
    /\ UNCHANGED <<saved, network>>

\* The configuration is saved, then apply_wan brings the interface up (which moves
\* nothing kept here) and goes by the mode.
Post(r) == \E cfg \in Posted \cap Configs :
    /\ wanPc[r] = "idle" /\ ops < MaxOps
    /\ ops' = ops + 1
    /\ saved' = {cfg}
    /\ Goto(r, cfg.mode)
    /\ wanCfg' = [wanCfg EXCEPT ![r] = cfg]
    /\ since' = IF WanIdle THEN "alone" ELSE "unsure"
    /\ UNCHANGED network

\* It cannot be saved; the file may be left truncated.
SaveFails ==
    /\ ops < MaxOps /\ ops' = ops + 1
    /\ saved' \in {saved, {}}
    /\ since' = "unsure"
    /\ UNCHANGED <<network, wanRequest>>

\* apply_ppp: a pppd that runs is killed, its interface with it, and another
\* started, which connects later.
ApplyPpp(r) ==
    /\ wanPc[r] = "ppp"
    /\ Leave(Ppp) /\ dialer' = TRUE
    /\ Answer(r, "started")
    /\ UNCHANGED <<saved, resolv, ops>>

\* A pppd connects at its leisure, whatever was applied meanwhile: only
\* apply_ppp looks for one.
Connect ==
    /\ dialer /\ gw # {Route(Ppp, "ppp")}
    /\ gw' = {Route(Ppp, "ppp")}
    /\ since' = "unsure"
    /\ UNCHANGED <<saved, resolv, viaWan, dialer, wanRequest, ops>>

HangUp ==
    /\ dialer /\ dialer' = FALSE
    /\ Leave(Ppp)
    /\ UNCHANGED <<saved, resolv, wanRequest, since, ops>>

\* apply_dhcp: udhcpc has its lease.  Its script clears its own interface; the
\* default route by another may stand in the way of the new one.
ApplyDhcp(r) ==
    /\ wanPc[r] = "dhcp"
    /\ gw' \in {{Route(wanCfg[r].dev, "dhcp")},
                IF \E t \in gw : t.dev # wanCfg[r].dev THEN gw ELSE {Route(wanCfg[r].dev, "dhcp")}}
    /\ viaWan' = viaWan \ {wanCfg[r].dev}
    /\ resolv' = "dhcp"
    /\ Answer(r, "leased")
    /\ UNCHANGED <<saved, dialer, ops>>

\* apply_static: addr flush ...
Flush(r) ==
    /\ wanPc[r] = "static"
    /\ Leave(wanCfg[r].dev)
    /\ Goto(r, "route")
    /\ UNCHANGED <<saved, resolv, dialer, wanCfg, since, ops>>

\* ... route del, by whichever interface, whose failure is ignored, and route add ...
SetRoute(r) ==
    /\ wanPc[r] = "route"
    /\ gw' = {Route(wanCfg[r].dev, "static")}
    /\ Goto(r, "resolv")
    /\ UNCHANGED <<saved, resolv, viaWan, dialer, wanCfg, since, ops>>

\* ... and name servers, if some were given.
SetResolv(r) ==
    /\ wanPc[r] = "resolv"
    /\ resolv' = IF wanCfg[r].dns = {} THEN resolv ELSE "static"
    /\ Answer(r, "ok")
    /\ UNCHANGED <<saved, gw, viaWan, dialer, ops>>

\* A command fails, or what was posted has no address or gateway: nothing is undone
\* of the steps before, nor of what the failing one had done.
WanFails(r) ==
    /\ wanPc[r] # "idle"
    /\ Answer(r, "failed")
    /\ \/ UNCHANGED network
       \/ wanPc[r] = "ppp" /\ Leave(Ppp) /\ dialer' = FALSE /\ UNCHANGED resolv
       \/ wanPc[r] = "dhcp" /\ Leave(wanCfg[r].dev) /\ UNCHANGED <<resolv, dialer>>
       \/ wanPc[r] = "route" /\ gw' = {} /\ UNCHANGED <<resolv, viaWan, dialer>>
       \/ wanPc[r] = "resolv" /\ wanCfg[r].dns # {}
          /\ resolv' = "static" /\ UNCHANGED <<gw, viaWan, dialer>>
    /\ UNCHANGED <<saved, ops>>

WanNext ==
    \/ \E r \in Request :
         \/ Post(r) \/ ApplyPpp(r) \/ ApplyDhcp(r)
         \/ Flush(r) \/ SetRoute(r) \/ SetResolv(r) \/ WanFails(r)
    \/ SaveFails \/ Connect \/ HangUp

-----------------------------------------------------------------------------
\* While the last WAN request is the post of a static configuration that ran
\* alone and was answered with success, and until a pppd left from an earlier
\* post connects, the default route is the saved one's, by its interface: posts
\* that failed half-way, crossed or were by another interface are healed.  (Of
\* dhcp and ppp nothing is said: a success leaves another interface's route.)
WanInForce ==
    since = "ok" => \E cfg \in saved : gw = {Route(cfg.dev, "static")}
=============================================================================
