----------------------------- MODULE VpnProofs -----------------------------
(***************************************************************************)
(* Proofs about the uplink and the tunnels (Wan, Vpn), for every number of *)
(* requests and tunnels and whatever commands fail.                        *)
(***************************************************************************)
EXTENDS Vpn, TLAPS

WanSteps == {"idle", "ppp", "dhcp", "static", "route", "resolv"}
UpSteps == {"clean", "create", "configure", "dns", "policy", "bypass"}
DownSteps == {"unroute", "unroute for delete", "teardown", "teardown for delete",
              "restore", "restore for delete"}
Steps == {"idle", "remove", "forget", "unset", "autostart"} \cup UpSteps \cup DownSteps
Writers == {"boot", "dhcp", "static", "vpn"}
Routes == [dev : Port \cup {Ppp, "eth0"}, by : {"boot", "dhcp", "static", "ppp"}]
LastOps == {"none", "up", "down", "other", "unsure", "is up", "is down"}
Names == {{}} \cup {{t} : t \in Tunnel}

WanTypes ==
    /\ saved \subseteq Configs /\ resolv \in Writers
    /\ gw \subseteq Routes /\ viaWan \subseteq Port \cup {Ppp, "eth0"} /\ dialer \in BOOLEAN
    /\ wanPc \in [Request -> WanSteps] /\ wanCfg \in [Request -> Configs]

TunnelTypes ==
    /\ userspace \in BOOLEAN /\ mingled \in BOOLEAN /\ lost \in BOOLEAN /\ loose \in BOOLEAN
    /\ confs \subseteq Tunnel /\ ifaces \subseteq Tunnel
    /\ table \in Names /\ rules \subseteq Rules
    /\ backup \subseteq Writers
    /\ routeState \subseteq [tunnel : Names, routes : SUBSET {Entry}]
    /\ autostart \in Names
    /\ pc \in [Process -> Steps] /\ tun \in [Process -> Names]
    /\ last \in [op : LastOps, tunnel : Names]

Types == WanTypes /\ TunnelTypes

\* The one request in progress has its configuration in wan.conf and on the way.
Applying(r) ==
    /\ wanPc[r] # "idle" /\ saved = {wanCfg[r]}
    /\ wanPc[r] # wanCfg[r].mode => wanPc[r] \in {"route", "resolv"} /\ wanCfg[r].mode = "static"
    /\ wanPc[r] = "resolv" => gw = {Route(wanCfg[r].dev, "static")}

InForce(cfg) == cfg.mode = "static" /\ gw = {Route(cfg.dev, "static")}

(* A request that runs alone has everything of its own; a static one that  *)
(* was answered with success, and nothing since, is in force.              *)
WanSafe ==
    /\ since = "ok" => WanIdle /\ \E cfg \in saved : InForce(cfg)
    /\ since = "alone" =>
         \E r \in Request : Applying(r) /\ \A q \in Request : q # r => wanPc[q] = "idle"

Carries(t) == t \subseteq ifaces /\ table = t /\ rules = Rules

(* An up that runs alone has only its own routes and rules when it comes   *)
(* to the bypass list, and nothing moves them until the next request.      *)
TrafficSafe ==
    /\ last.op = "up" =>
         \E p \in Process :
            /\ pc[p] \in UpSteps /\ tun[p] = last.tunnel
            /\ pc[p] = "bypass" => Carries(last.tunnel)
            /\ \A q \in Process : q # p => pc[q] = "idle"
    /\ last.op = "is up" => Idle /\ Carries(last.tunnel)

Alone == \A p, q \in Process : pc[p] # "idle" /\ pc[q] # "idle" => p = q

(* The copy of resolv.conf is never the tunnel's own, and it is there while *)
(* the tunnel's is in force.                                               *)
DnsKept == "vpn" \notin backup /\ (resolv = "vpn" => backup # {})
DnsBack == backup = {} /\ resolv # "vpn"

\* The routes by the uplink are noted, for a tunnel that has its interface.
RoutesOwned ==
    viaWan # {} => \E note \in routeState :
        note.routes # {} /\ note.tunnel # {} /\ note.tunnel \subseteq ifaces

\* What each step of a process that runs alone finds of the kernel ...
StepFinds(p) ==
    /\ pc[p] # "idle" => tun[p] # {} /\ last.op # "is down"
    /\ pc[p] = "create" => rules = {}
    /\ pc[p] \in {"dns", "policy", "bypass"} => tun[p] \subseteq ifaces
    /\ pc[p] \in UpSteps \cup {"autostart"} => last.op # "down"

\* ... and, while the way back is not lost, of routes and name servers.
StepKeeps(p) ==
    /\ pc[p] \in UpSteps \ {"clean"} => ~Noted
    /\ pc[p] \in {"teardown", "teardown for delete"} => \A note \in routeState : note.tunnel # tun[p]
    /\ pc[p] \in {"remove", "forget", "unset"} /\ last.op = "down" => DnsBack

Tracked(p) == ~lost => DnsKept /\ RoutesOwned /\ StepKeeps(p)

NothingSafe ==
    ~mingled =>
        /\ Alone /\ (ifaces = {} => rules = {})
        /\ \A p \in Process : StepFinds(p) /\ Tracked(p)
        /\ ~lost /\ last.op = "is down" => DnsBack

(* The autostart names a tunnel there is, or the one whose deletion is     *)
(* about to take it back.                                                  *)
AutostartSafe ==
    ~loose =>
        /\ Alone
        /\ \/ autostart \subseteq confs
           \/ \E p \in Process : pc[p] \in {"forget", "unset"} /\ autostart \subseteq confs \cup tun[p]
        /\ \A p \in Process : pc[p] = "autostart" => tun[p] \subseteq confs

-----------------------------------------------------------------------------
(***************************************************************************)
(* Types.  The helpers of the actions first, then action by action.        *)
(***************************************************************************)
LEMMA InitTypes == Init => Types
  <1> SUFFICES ASSUME Init PROVE Types
    OBVIOUS
  <1>0. BootRoute \in Routes /\ NoConfig \in Configs
    BY DEF BootRoute, Route, Routes, Configs
  <1>1. WanTypes
    BY <1>0 DEF Init, WanInit, WanTypes, WanSteps, Writers
  <1>2. TunnelTypes
    BY DEF Init, TunnelTypes, Nobody, Names, Steps, LastOps, Rules
  <1> QED
    BY <1>1, <1>2 DEF Types

\* A step of the uplink keeps the types, and what is the tunnels' alone.
LEMMA UplinkTypes ==
    ASSUME Types, WanNext
    PROVE  WanTypes'
  <1> USE DEF Types, WanTypes, network
  <1>0. /\ NoConfig \in Configs
        /\ \A c \in Configs : c.mode \in {"dhcp", "ppp", "static"} /\ c.dev \in Port \cup {Ppp}
    BY DEF Configs, NoConfig
  <1>1. \A dev : {t \in gw : t.dev # dev} \subseteq Routes
    OBVIOUS
  <1>2. \A dev \in Port \cup {Ppp}, by \in {"dhcp", "static", "ppp"} : {Route(dev, by)} \subseteq Routes
    BY DEF Routes, Route
  <1>3. ASSUME NEW r \in Request, Post(r)
        PROVE  WanTypes'
    BY <1>0, <1>3 DEF Post, Goto, WanSteps
  <1>4. ASSUME NEW r \in Request, ApplyPpp(r)
        PROVE  WanTypes'
    BY <1>0, <1>1, <1>4 DEF ApplyPpp, Leave, Answer, Goto, WanSteps
  <1>5. ASSUME NEW r \in Request, ApplyDhcp(r)
        PROVE  WanTypes'
    <2>1. gw' \subseteq Routes
      BY <1>0, <1>2, <1>5 DEF ApplyDhcp
    <2> QED
      BY <1>0, <1>5, <2>1 DEF ApplyDhcp, Answer, Goto, WanSteps, Writers
  <1>6. ASSUME NEW r \in Request, Flush(r)
        PROVE  WanTypes'
    BY <1>1, <1>6 DEF Flush, Leave, Goto, WanSteps
  <1>7. ASSUME NEW r \in Request, SetRoute(r)
        PROVE  WanTypes'
    BY <1>0, <1>2, <1>7 DEF SetRoute, Goto, WanSteps
  <1>8. ASSUME NEW r \in Request, SetResolv(r)
        PROVE  WanTypes'
    BY <1>0, <1>8 DEF SetResolv, Answer, Goto, WanSteps, Writers
  <1>9. ASSUME NEW r \in Request, WanFails(r)
        PROVE  WanTypes'
    <2>1. /\ gw' \subseteq gw /\ viaWan' \subseteq viaWan /\ dialer' \in BOOLEAN
          /\ resolv' \in {resolv, "static"}
      BY <1>9 DEF WanFails, Leave
    <2> QED
      BY <1>0, <1>9, <2>1 DEF WanFails, Answer, Goto, WanSteps, Writers
  <1>10. CASE SaveFails
    BY <1>10 DEF SaveFails, wanRequest
  <1>11. CASE Connect
    BY <1>2, <1>11 DEF Connect, wanRequest
  <1>12. CASE HangUp
    BY <1>1, <1>12 DEF HangUp, Leave, wanRequest
  <1> QED
    BY <1>3, <1>4, <1>5, <1>6, <1>7, <1>8, <1>9, <1>10, <1>11, <1>12 DEF WanNext

\* What a process has in hand after a move of its own (At, Begin, Done).
ProcessTypes == pc \in [Process -> Steps] /\ tun \in [Process -> Names]
                /\ last \in [op : LastOps, tunnel : Names]

LEMMA AtTypes ==
    ASSUME Types, NEW p \in Process, NEW from, NEW to \in Steps, At(p, from, to), UNCHANGED <<tun, last>>
    PROVE  ProcessTypes'
  BY DEF Types, TunnelTypes, ProcessTypes, At

LEMMA BeginTypes ==
    ASSUME Types, NEW r \in Request, NEW t \in Tunnel,
           NEW op \in {"up", "down", "other"}, NEW step \in Steps, Begin(r, t, op, step)
    PROVE  ProcessTypes' /\ mingled' \in BOOLEAN /\ lost' \in BOOLEAN /\ loose' \in BOOLEAN
  <1>1. r \in Process /\ {t} \in Names
    BY DEF Process, Names
  <1>2. pc' \in [Process -> Steps] /\ tun' \in [Process -> Names]
    BY <1>1 DEF Types, TunnelTypes, Begin, At
  <1>3. last' \in [op : LastOps, tunnel : Names]
    BY <1>1 DEF Begin, LastOps
  <1>4. mingled' \in BOOLEAN /\ lost' \in BOOLEAN /\ loose' \in BOOLEAN
    BY DEF Types, TunnelTypes, Begin
  <1> QED
    BY <1>2, <1>3, <1>4 DEF ProcessTypes

LEMMA DoneTypes ==
    ASSUME Types, NEW p \in Process, NEW outcome, Done(p, outcome)
    PROVE  ProcessTypes'
  <1>1. pc' \in [Process -> Steps] /\ tun' \in [Process -> Names]
    BY DEF Types, TunnelTypes, Done, Steps, Names
  <1>2. last' \in [op : LastOps, tunnel : Names]
    BY DEF Types, TunnelTypes, Done, LastOps
  <1> QED
    BY <1>1, <1>2 DEF ProcessTypes

\* What requests do when they begin changes no file and nothing of the kernel.
LEMMA RequestTypes ==
    ASSUME Types, NEW r \in Request,
           Up(r) \/ Down(r) \/ Delete(r) \/ SetAutostart(r) \/ ClearAutostart(r)
    PROVE  Types'
  <1>1. DOMAIN Status \subseteq Tunnel /\ autostart \subseteq Tunnel
    BY DEF Status, Types, TunnelTypes, Names
  <1>2. PICK t \in Tunnel, op \in {"up", "down", "other"}, step \in Steps :
          Begin(r, t, op, step)
    <2>1. CASE Up(r)
      BY <1>1, <2>1 DEF Up, Steps, UpSteps
    <2>2. CASE Down(r)
      BY <1>1, <2>2 DEF Down, Steps, DownSteps
    <2>3. CASE Delete(r)
      <3>1. PICK t \in DOMAIN Status :
              Begin(r, t, "down", "unroute for delete") \/ Begin(r, t, "other", "remove")
        BY <2>3 DEF Delete
      <3> QED
        BY <1>1, <3>1 DEF Steps, DownSteps
    <2>4. CASE SetAutostart(r)
      BY <1>1, <2>4 DEF SetAutostart, Steps
    <2>5. CASE ClearAutostart(r)
      BY <1>1, <2>5 DEF ClearAutostart, Steps
    <2> QED
      BY <2>1, <2>2, <2>3, <2>4, <2>5
  <1>3. UNCHANGED <<saved, gw, resolv, viaWan, dialer, wanRequest, userspace, confs, kernel, backup,
                    routeState, bypass, autostart>>
    BY DEF Up, Down, Delete, SetAutostart, ClearAutostart, network
  <1>4. ProcessTypes' /\ mingled' \in BOOLEAN /\ lost' \in BOOLEAN /\ loose' \in BOOLEAN
    BY <1>2, BeginTypes
  <1> QED
    BY <1>3, <1>4 DEF Types, WanTypes, TunnelTypes, ProcessTypes, kernel, wanRequest

\* The rest of a removal: interfaces fewer, their routes with them, no rules.
LEMMA RemainingTypes ==
    ASSUME Types, NEW left, left \subseteq Tunnel, Remaining(left)
    PROVE  ifaces' \subseteq Tunnel /\ table' \in Names /\ rules' \subseteq Rules
  BY DEF Types, TunnelTypes, Remaining, Names

LEMMA LeftTypes ==
    ASSUME Types, NEW t
    PROVE  Left(t) \subseteq ifaces /\ Left(t) \subseteq Tunnel
  BY DEF Types, TunnelTypes, Left

\* The steps of tunnel_up.
LEMMA UpStepTypes ==
    ASSUME Types, NEW p \in Process,
           \/ Clean(p) \/ Create(p) \/ Configure(p) \/ WriteDns(p) \/ SetPolicy(p) \/ ApplyBypass(p)
    PROVE  Types'
  <1>0. tun[p] \in Names /\ tun[p] \subseteq Tunnel /\ UpSteps \subseteq Steps
    BY DEF Types, TunnelTypes, Names, Steps
  <1>1. CASE Clean(p)
    <2>1. ProcessTypes'
      BY <1>0, <1>1, AtTypes DEF Clean, UpSteps
    <2>2. PICK left : left \subseteq Tunnel /\ Remaining(left)
      BY <1>1, LeftTypes DEF Clean, Types, TunnelTypes
    <2> QED
      BY <1>1, <2>1, <2>2, RemainingTypes
      DEF Clean, Types, WanTypes, TunnelTypes, ProcessTypes, wanVars, network, wanRequest
  <1>2. CASE Create(p)
    <2>1. ProcessTypes'
      BY <1>0, <1>2, AtTypes, DoneTypes DEF Create, UpSteps
    <2>2. ifaces' \subseteq Tunnel /\ table' \in Names
      BY <1>0, <1>2, LeftTypes DEF Create, Types, TunnelTypes, Names
    <2> QED
      BY <1>2, <2>1, <2>2 DEF Create, Types, WanTypes, TunnelTypes, ProcessTypes, wanVars, network, wanRequest
  <1>3. CASE Configure(p)
    <2>1. ProcessTypes'
      BY <1>0, <1>3, AtTypes, DoneTypes DEF Configure, UpSteps
    <2> QED
      BY <1>3, <2>1
      DEF Configure, Types, WanTypes, TunnelTypes, ProcessTypes, wanVars, network, wanRequest, kernel, history
  <1>4. CASE WriteDns(p)
    <2>1. ProcessTypes'
      BY <1>0, <1>4, AtTypes DEF WriteDns, UpSteps
    <2>2. backup' \subseteq Writers /\ resolv' \in Writers /\ lost' \in BOOLEAN
      BY <1>4 DEF WriteDns, Types, WanTypes, TunnelTypes, Writers
    <2> QED
      BY <1>4, <2>1, <2>2 DEF WriteDns, Types, WanTypes, TunnelTypes, ProcessTypes, wanRequest, kernel
  <1>5. CASE SetPolicy(p)
    <2>1. ProcessTypes'
      BY <1>0, <1>5, AtTypes, DoneTypes DEF SetPolicy, UpSteps
    <2>2. table' \in Names /\ rules' \subseteq Rules
      BY <1>0, <1>5 DEF SetPolicy, Types, TunnelTypes, Rules
    <2> QED
      BY <1>5, <2>1, <2>2
      DEF SetPolicy, PolicyUnchanged, Types, WanTypes, TunnelTypes, ProcessTypes, wanVars, network, wanRequest, history
  <1>6. CASE ApplyBypass(p)
    <2>1. ProcessTypes'
      BY <1>6, DoneTypes DEF ApplyBypass
    <2>2. /\ viaWan' \subseteq Port \cup {Ppp, "eth0"}
          /\ routeState' \subseteq [tunnel : Names, routes : SUBSET {Entry}] /\ lost' \in BOOLEAN
      <3>1. CASE tun[p] \subseteq Full /\ gw # {}
        <4>1. PICK added \in SUBSET {Entry}, noted \in BOOLEAN :
                /\ viaWan' = IF added = {} THEN viaWan ELSE {t.dev : t \in gw}
                /\ routeState' \in IF noted THEN {{Note(tun[p], added)}} ELSE {routeState, {}}
                /\ lost' = (lost \/ ~noted)
          BY <1>6, <3>1 DEF ApplyBypass
        <4>2. {t.dev : t \in gw} \subseteq Port \cup {Ppp, "eth0"}
          BY DEF Types, WanTypes, Routes
        <4>3. Note(tun[p], added) \in [tunnel : Names, routes : SUBSET {Entry}]
          BY <1>0 DEF Note
        <4> QED
          BY <4>1, <4>2, <4>3 DEF Types, WanTypes, TunnelTypes
      <3>2. CASE ~(tun[p] \subseteq Full /\ gw # {})
        BY <1>6, <3>2 DEF ApplyBypass, Types, WanTypes, TunnelTypes
      <3> QED
        BY <3>1, <3>2
    <2> QED
      BY <1>6, <2>1, <2>2 DEF ApplyBypass, Types, WanTypes, TunnelTypes, ProcessTypes, wanRequest, kernel
  <1> QED
    BY <1>1, <1>2, <1>3, <1>4, <1>5, <1>6

\* The steps of tunnel_down and delete_tunnel, and of the autostart.
LEMMA DownStepTypes ==
    ASSUME Types, NEW p \in Process,
           \/ Unroute(p) \/ Teardown(p) \/ Restore(p) \/ Remove(p) \/ Forget(p)
           \/ Unset(p) \/ WriteAutostart(p)
    PROVE  Types'
  <1>0. /\ tun[p] \in Names /\ {} \in Names
        /\ {"forget", "unset", "remove"} \cup DownSteps \subseteq Steps
    BY DEF Types, TunnelTypes, Names, Steps
  <1>1. CASE Unroute(p)
    <2>1. ProcessTypes'
      BY <1>0, <1>1, AtTypes DEF Unroute, DownSteps
    <2>2. viaWan' \subseteq viaWan /\ routeState' \subseteq routeState
      BY <1>1 DEF Unroute
    <2> QED
      BY <1>1, <2>1, <2>2 DEF Unroute, Types, WanTypes, TunnelTypes, ProcessTypes, wanRequest, kernel, history
  <1>2. CASE Teardown(p)
    <2>1. ProcessTypes'
      BY <1>0, <1>2, AtTypes DEF Teardown, DownSteps
    <2>2. ifaces' \subseteq Tunnel /\ table' \in Names /\ rules' \subseteq Rules
      BY <1>2, LeftTypes, RemainingTypes DEF Teardown
    <2> QED
      BY <1>2, <2>1, <2>2 DEF Teardown, Types, WanTypes, TunnelTypes, ProcessTypes, wanVars, network, wanRequest
  <1>3. CASE Restore(p)
    <2>1. ProcessTypes'
      BY <1>0, <1>3, AtTypes, DoneTypes DEF Restore
    <2>2. resolv' \in Writers /\ backup' \subseteq Writers /\ lost' \in BOOLEAN
      BY <1>3 DEF Restore, Types, WanTypes, TunnelTypes
    <2> QED
      BY <1>3, <2>1, <2>2 DEF Restore, Types, WanTypes, TunnelTypes, ProcessTypes, wanRequest, kernel
  <1>4. CASE Remove(p)
    <2>1. ProcessTypes'
      BY <1>0, <1>4, AtTypes, DoneTypes DEF Remove
    <2>2. confs' \subseteq confs
      BY <1>4 DEF Remove
    <2> QED
      BY <1>4, <2>1, <2>2
      DEF Remove, Types, WanTypes, TunnelTypes, ProcessTypes, wanVars, network, wanRequest, kernel, history
  <1>5. CASE Forget(p)
    <2>1. ProcessTypes'
      BY <1>0, <1>5, AtTypes, DoneTypes DEF Forget
    <2> QED
      BY <1>5, <2>1 DEF Forget, Types, WanTypes, TunnelTypes, ProcessTypes, wanVars, network, wanRequest, kernel, history
  <1>6. CASE Unset(p)
    <2>1. ProcessTypes'
      BY <1>6, DoneTypes DEF Unset
    <2>2. autostart' \in Names /\ loose' \in BOOLEAN
      BY <1>0, <1>6 DEF Unset, Types, TunnelTypes
    <2> QED
      BY <1>6, <2>1, <2>2 DEF Unset, Types, WanTypes, TunnelTypes, ProcessTypes, wanVars, network, wanRequest, kernel
  <1>7. CASE WriteAutostart(p)
    <2>1. ProcessTypes'
      BY <1>7, DoneTypes DEF WriteAutostart
    <2>2. autostart' \in Names
      BY <1>0, <1>7 DEF WriteAutostart, Types, TunnelTypes
    <2> QED
      BY <1>7, <2>1, <2>2
      DEF WriteAutostart, Types, WanTypes, TunnelTypes, ProcessTypes, wanVars, network, wanRequest, kernel, history
  <1> QED
    BY <1>1, <1>2, <1>3, <1>4, <1>5, <1>6, <1>7

\* The service starts, with or without the router.
LEMMA StartTypes ==
    ASSUME Types, NEW reboot \in BOOLEAN, Start(reboot)
    PROVE  Types'
  <1>1. ProcessTypes'
    <2>1. autostart \in Names /\ "clean" \in Steps /\ "idle" \in Steps
      BY DEF Types, TunnelTypes, Steps, UpSteps
    <2>2. pc' \in [Process -> Steps] /\ tun' \in [Process -> Names]
      BY <2>1 DEF Start, Names
    <2>3. last' \in [op : LastOps, tunnel : Names]
      BY <2>1 DEF Start, Types, TunnelTypes, Nobody, LastOps, Names
    <2> QED
      BY <2>2, <2>3 DEF ProcessTypes
  <1>2. wanPc' \in [Request -> WanSteps] /\ wanCfg' \in [Request -> Configs]
    BY DEF Start, WanSteps, Configs, NoConfig
  <1>3. /\ ifaces' \subseteq Tunnel /\ table' \in Names /\ rules' \subseteq Rules
        /\ routeState' \subseteq [tunnel : Names, routes : SUBSET {Entry}]
        /\ gw' \subseteq Routes /\ viaWan' \subseteq Port \cup {Ppp, "eth0"} /\ dialer' \in BOOLEAN
    <2>1. CASE reboot
      <3>1. BootRoute \in Routes
        BY DEF BootRoute, Route, Routes
      <3> QED
        BY <2>1, <3>1 DEF Start, Names
    <2>2. CASE ~reboot
      BY <2>2 DEF Start, Types, WanTypes, TunnelTypes, kernel
    <2> QED
      BY <2>1, <2>2
  <1>4. mingled' \in BOOLEAN /\ loose' \in BOOLEAN
    BY DEF Start, Types, TunnelTypes
  <1> QED
    BY <1>1, <1>2, <1>3, <1>4 DEF Start, Types, WanTypes, TunnelTypes, ProcessTypes

LEMMA NextTypes == Types /\ [Next]_vars => Types'
  <1> SUFFICES ASSUME Types, [Next]_vars PROVE Types'
    OBVIOUS
  <1>1. ASSUME NEW r \in Request, Up(r) \/ Down(r) \/ Delete(r) \/ SetAutostart(r) \/ ClearAutostart(r)
        PROVE  Types'
    BY <1>1, RequestTypes
  <1>2. ASSUME NEW p \in Process,
               \/ Clean(p) \/ Create(p) \/ Configure(p) \/ WriteDns(p) \/ SetPolicy(p) \/ ApplyBypass(p)
        PROVE  Types'
    BY <1>2, UpStepTypes
  <1>3. ASSUME NEW p \in Process,
               \/ Unroute(p) \/ Teardown(p) \/ Restore(p) \/ Remove(p) \/ Forget(p)
               \/ Unset(p) \/ WriteAutostart(p)
        PROVE  Types'
    BY <1>3, DownStepTypes
  <1>4. CASE Import \/ EditBypass
    BY <1>4 DEF Import, EditBypass, Edit, Types, WanTypes, TunnelTypes, kernel, process, history, network,
                wanRequest
  <1>5. CASE Uplink
    <2>1. WanTypes'
      BY <1>5, UplinkTypes DEF Uplink
    <2> QED
      BY <1>5, <2>1 DEF Uplink, Types, TunnelTypes, tunnelVars, kernel, process, history
  <1>6. CASE \E reboot \in BOOLEAN : Start(reboot)
    BY <1>6, StartTypes
  <1>7. CASE UNCHANGED vars
    BY <1>7 DEF vars, wanVars, network, tunnelVars, kernel, process, history, wanRequest, Types, WanTypes,
                TunnelTypes
  <1> QED
    BY <1>1, <1>2, <1>3, <1>4, <1>5, <1>6, <1>7 DEF Next

(* Type correctness of uplink and tunnels.                                 *)
THEOREM VpnTypes == VpnSpec => []Types
  BY InitTypes, NextTypes, PTL DEF VpnSpec

-----------------------------------------------------------------------------
(***************************************************************************)
(* The uplink.                                                             *)
(***************************************************************************)
\* A request in progress is the one that runs alone, if any does.
Only(r) == Applying(r) /\ \A q \in Request : q # r => wanPc[q] = "idle"

LEMMA InProgress ==
    ASSUME WanSafe, NEW r \in Request, wanPc[r] # "idle"
    PROVE  since # "ok" /\ (since = "alone" => Only(r))
  BY DEF WanSafe, WanIdle, Only

\* It is answered, with anything but "ok".
LEMMA AnswerWanSafe ==
    ASSUME WanTypes, WanSafe, NEW r \in Request, wanPc[r] # "idle", NEW result, Answer(r, result),
           result \notin {"ok", "alone"}
    PROVE  WanSafe'
  <1>1. since # "ok" /\ (since = "alone" => Only(r))
    BY InProgress
  <1> QED
    BY <1>1 DEF Answer, WanSafe

\* It goes on to a step of its own.
LEMMA GotoWanSafe ==
    ASSUME WanTypes, WanSafe, NEW r \in Request, wanPc[r] # "idle", NEW step \in {"route", "resolv"},
           Goto(r, step), UNCHANGED <<saved, wanCfg, since>>,
           since = "alone" => wanCfg[r].mode = "static",
           step = "resolv" => gw' = {Route(wanCfg[r].dev, "static")}
    PROVE  WanSafe'
  <1>1. since # "ok" /\ (since = "alone" => Only(r))
    BY InProgress
  <1>2. since = "alone" => Only(r)'
    BY <1>1 DEF Only, Applying, Goto, WanTypes
  <1> QED
    BY <1>1, <1>2 DEF WanSafe, Only

\* A step of the uplink keeps WanSafe.
LEMMA UplinkWanSafe ==
    ASSUME WanTypes, WanSafe, WanNext
    PROVE  WanSafe'
  <1> USE DEF WanTypes
  <1>0. /\ \A c \in Configs : c.mode \in {"dhcp", "ppp", "static"}
        /\ \A c \in Configs : c.mode = "static" => c.dev # Ppp
    BY DEF Configs, NoConfig
  <1>1. ASSUME NEW r \in Request, Post(r)
        PROVE  WanSafe'
    <2>1. PICK cfg \in Configs :
            /\ wanPc[r] = "idle" /\ saved' = {cfg}
            /\ wanPc' = [wanPc EXCEPT ![r] = cfg.mode] /\ wanCfg' = [wanCfg EXCEPT ![r] = cfg]
            /\ since' = IF WanIdle THEN "alone" ELSE "unsure"
      BY <1>1 DEF Post, Goto
    <2>2. CASE WanIdle
      <3>1. Applying(r)' /\ \A q \in Request : q # r => wanPc'[q] = "idle"
        BY <1>0, <2>1, <2>2 DEF WanIdle, Applying
      <3> QED
        BY <2>1, <2>2, <3>1 DEF WanSafe
    <2>3. CASE ~WanIdle
      BY <2>1, <2>3 DEF WanSafe
    <2> QED
      BY <2>2, <2>3
  <1>2. ASSUME NEW r \in Request, ApplyPpp(r)
        PROVE  WanSafe'
    <2>1. wanPc[r] = "ppp" /\ Answer(r, "started")
      BY <1>2 DEF ApplyPpp
    <2> QED
      BY <2>1, AnswerWanSafe
  <1>3. ASSUME NEW r \in Request, ApplyDhcp(r)
        PROVE  WanSafe'
    <2>1. wanPc[r] = "dhcp" /\ Answer(r, "leased")
      BY <1>3 DEF ApplyDhcp
    <2> QED
      BY <2>1, AnswerWanSafe
  <1>4. ASSUME NEW r \in Request, Flush(r)
        PROVE  WanSafe'
    <2>1. wanPc[r] = "static" /\ Goto(r, "route") /\ UNCHANGED <<saved, wanCfg, since>>
      BY <1>4 DEF Flush
    <2>2. since = "alone" => wanCfg[r].mode = "static"
      BY <2>1, InProgress DEF Only, Applying
    <2> QED
      BY <2>1, <2>2, GotoWanSafe
  <1>5. ASSUME NEW r \in Request, SetRoute(r)
        PROVE  WanSafe'
    <2>1. /\ wanPc[r] = "route" /\ Goto(r, "resolv") /\ UNCHANGED <<saved, wanCfg, since>>
          /\ gw' = {Route(wanCfg[r].dev, "static")}
      BY <1>5 DEF SetRoute
    <2>2. since = "alone" => wanCfg[r].mode = "static"
      BY <1>0, <2>1, InProgress DEF Only, Applying
    <2> QED
      BY <2>1, <2>2, GotoWanSafe
  <1>6. ASSUME NEW r \in Request, SetResolv(r)
        PROVE  WanSafe'
    <2>1. wanPc[r] = "resolv" /\ Answer(r, "ok") /\ UNCHANGED <<saved, gw>>
      BY <1>6 DEF SetResolv
    <2>2. since = "alone" => wanCfg[r].mode = "static" /\ gw = {Route(wanCfg[r].dev, "static")}
      BY <1>0, <2>1, InProgress DEF Only, Applying
    <2>3. since = "alone" => \E cfg \in saved' : InForce(cfg)'
      BY <2>1, <2>2, InProgress DEF Only, Applying, InForce
    <2>4. since = "alone" => WanIdle'
      BY <2>1, InProgress DEF Answer, Goto, WanIdle, Only
    <2> QED
      BY <2>1, <2>3, <2>4, InProgress DEF WanSafe, Answer
  <1>7. ASSUME NEW r \in Request, WanFails(r)
        PROVE  WanSafe'
    <2>1. wanPc[r] # "idle" /\ Answer(r, "failed")
      BY <1>7 DEF WanFails
    <2> QED
      BY <2>1, AnswerWanSafe
  <1>8. CASE SaveFails \/ Connect
    BY <1>8 DEF SaveFails, Connect, WanSafe
  <1>9. CASE HangUp
    <2>1. /\ gw' = {t \in gw : t.dev # Ppp} /\ UNCHANGED <<saved, wanPc, wanCfg, since>>
      BY <1>9 DEF HangUp, Leave, wanRequest
    <2>2. \A dev : dev # Ppp /\ gw = {Route(dev, "static")} => gw' = {Route(dev, "static")}
      BY <2>1 DEF Route
    <2>3. \A cfg \in Configs : InForce(cfg) => InForce(cfg)'
      BY <1>0, <2>2 DEF InForce
    <2>4. \A r \in Request : wanPc[r] = "resolv" /\ Applying(r) => wanCfg[r].dev # Ppp
      BY <1>0 DEF Applying
    <2>5. \A r \in Request : Applying(r) => Applying(r)'
      BY <2>1, <2>2, <2>4 DEF Applying
    <2> QED
      BY <2>1, <2>3, <2>5 DEF WanSafe, WanIdle
  <1> QED
    BY <1>1, <1>2, <1>3, <1>4, <1>5, <1>6, <1>7, <1>8, <1>9 DEF WanNext

\* The start of the service ends every request; a start that finds none in
\* progress and the kernel as it was leaves the uplink in force.
LEMMA StartWanSafe ==
    ASSUME WanSafe, NEW reboot \in BOOLEAN, Start(reboot)
    PROVE  WanSafe'
  <1>1. since' = "ok" => since = "ok" /\ ~reboot
    BY DEF Start
  <1>2. since' # "alone"
    BY DEF Start, WanSafe, WanIdle, Applying
  <1>3. since' = "ok" => \E cfg \in saved' : InForce(cfg)'
    BY <1>1 DEF Start, WanSafe, InForce
  <1>4. WanIdle'
    BY DEF Start, WanIdle
  <1> QED
    BY <1>2, <1>3, <1>4 DEF WanSafe

\* What WanSafe is about is the uplink's alone.
wanOnly == <<saved, gw, wanPc, wanCfg, since>>

LEMMA UntouchedWanSafe == WanSafe /\ UNCHANGED wanOnly => WanSafe'
  BY DEF wanOnly, WanSafe, WanIdle, InForce, Applying

\* No step of a tunnel touches it.
LEMMA RequestsLeaveWan ==
    ASSUME NEW r \in Request, Up(r) \/ Down(r) \/ Delete(r) \/ SetAutostart(r) \/ ClearAutostart(r)
    PROVE  UNCHANGED wanOnly
  BY DEF Up, Down, Delete, SetAutostart, ClearAutostart, wanOnly, wanRequest, network

LEMMA UpStepsLeaveWan ==
    ASSUME NEW p \in Process,
           \/ Clean(p) \/ Create(p) \/ Configure(p) \/ WriteDns(p) \/ SetPolicy(p) \/ ApplyBypass(p)
    PROVE  UNCHANGED wanOnly
  BY DEF Clean, Create, Configure, WriteDns, SetPolicy, PolicyUnchanged, ApplyBypass, wanOnly,
         wanRequest, wanVars, network

LEMMA DownStepsLeaveWan ==
    ASSUME NEW p \in Process,
           \/ Unroute(p) \/ Teardown(p) \/ Restore(p) \/ Remove(p) \/ Forget(p)
           \/ Unset(p) \/ WriteAutostart(p)
    PROVE  UNCHANGED wanOnly
  BY DEF Unroute, Teardown, Restore, Remove, Forget, Unset, WriteAutostart, wanOnly, wanRequest, wanVars,
         network

LEMMA NextWanSafe == Types /\ WanSafe /\ [Next]_vars => WanSafe'
  <1> SUFFICES ASSUME Types, WanSafe, [Next]_vars PROVE WanSafe'
    OBVIOUS
  <1>1. CASE Uplink
    BY <1>1, UplinkWanSafe DEF Uplink, Types
  <1>2. CASE \E reboot \in BOOLEAN : Start(reboot)
    BY <1>2, StartWanSafe
  <1>3. UNCHANGED wanOnly => WanSafe'
    BY UntouchedWanSafe
  <1>4. ASSUME NEW r \in Request, Up(r) \/ Down(r) \/ Delete(r) \/ SetAutostart(r) \/ ClearAutostart(r)
        PROVE  WanSafe'
    BY <1>3, <1>4, RequestsLeaveWan
  <1>5. ASSUME NEW p \in Process,
               \/ Clean(p) \/ Create(p) \/ Configure(p) \/ WriteDns(p) \/ SetPolicy(p) \/ ApplyBypass(p)
        PROVE  WanSafe'
    BY <1>3, <1>5, UpStepsLeaveWan
  <1>6. ASSUME NEW p \in Process,
               \/ Unroute(p) \/ Teardown(p) \/ Restore(p) \/ Remove(p) \/ Forget(p)
               \/ Unset(p) \/ WriteAutostart(p)
        PROVE  WanSafe'
    BY <1>3, <1>6, DownStepsLeaveWan
  <1>7. CASE Import \/ EditBypass \/ UNCHANGED vars
    BY <1>3, <1>7 DEF Import, EditBypass, Edit, vars, wanVars, wanOnly, wanRequest, network
  <1> QED
    BY <1>1, <1>2, <1>4, <1>5, <1>6, <1>7 DEF Next

(* After a static WAN post that ran alone and was answered with success    *)
(* the default route is the saved configuration's, by its interface, until *)
(* the next post, a reboot or a pppd that connects.                        *)
THEOREM SavedWanInForce == VpnSpec => []WanInForce
  <1>1. Init => WanSafe
    BY DEF Init, WanInit, WanSafe
  <1>2. WanSafe => WanInForce
    BY DEF WanSafe, InForce, WanInForce
  <1> QED
    BY <1>1, <1>2, VpnTypes, NextWanSafe, PTL DEF VpnSpec

-----------------------------------------------------------------------------
(***************************************************************************)
(* The traffic of the last tunnel brought up.                              *)
(***************************************************************************)
\* A process that is at work is the one that runs alone, if any does.
OwnsTraffic(p) ==
    /\ last.op # "is up"
    /\ last.op = "up" =>
         /\ pc[p] \in UpSteps /\ tun[p] = last.tunnel
         /\ pc[p] = "bypass" => Carries(last.tunnel)
         /\ \A q \in Process : q # p => pc[q] = "idle"

LEMMA AtWorkOwnsTraffic ==
    ASSUME TrafficSafe, NEW p \in Process, pc[p] # "idle"
    PROVE  OwnsTraffic(p)
  BY DEF TrafficSafe, OwnsTraffic, Idle

LEMMA AtTraffic ==
    ASSUME Types, TrafficSafe, NEW p \in Process, NEW from, NEW to, At(p, from, to), from # "idle",
           UNCHANGED <<tun, last>>, from \in UpSteps => to \in UpSteps,
           to = "bypass" /\ last.op = "up" => Carries(last.tunnel)'
    PROVE  TrafficSafe'
  <1>1. OwnsTraffic(p)
    BY AtWorkOwnsTraffic DEF At
  <1>2. pc' = [pc EXCEPT ![p] = to] /\ pc[p] = from /\ pc \in [Process -> Steps]
    BY DEF At, Types, TunnelTypes
  <1>3. CASE last.op = "up"
    <2>1. /\ pc'[p] \in UpSteps /\ tun'[p] = last'.tunnel
          /\ pc'[p] = "bypass" => Carries(last.tunnel)'
          /\ \A q \in Process : q # p => pc'[q] = "idle"
      BY <1>1, <1>2, <1>3 DEF OwnsTraffic
    <2> QED
      BY <1>1, <1>3, <2>1 DEF TrafficSafe, OwnsTraffic
  <1>4. CASE last.op # "up"
    BY <1>1, <1>4 DEF TrafficSafe, OwnsTraffic
  <1> QED
    BY <1>3, <1>4

LEMMA DoneTraffic ==
    ASSUME Types, TrafficSafe, NEW p \in Process, pc[p] # "idle", NEW outcome, Done(p, outcome),
           last.op = "up" /\ outcome = "ok" => Carries(last.tunnel)'
    PROVE  TrafficSafe'
  <1>1. OwnsTraffic(p)
    BY AtWorkOwnsTraffic
  <1>2. last.op = "up" => Idle'
    BY <1>1 DEF Done, OwnsTraffic, Idle, Types, TunnelTypes
  <1>3. last \in [op : LastOps, tunnel : Names]
    BY DEF Types, TunnelTypes
  <1>4. last'.op # "up" /\ (last'.op = "is up" => last.op = "up" /\ outcome = "ok" /\ last'.tunnel = last.tunnel)
    BY <1>1, <1>3 DEF Done, OwnsTraffic
  <1> QED
    BY <1>2, <1>4 DEF TrafficSafe, Carries

LEMMA BeginTraffic ==
    ASSUME Types, NEW r \in Request, NEW t, NEW op \in {"up", "down", "other"}, NEW step,
           Begin(r, t, op, step), op = "up" => step = "clean"
    PROVE  TrafficSafe'
  <1>1. r \in Process /\ pc \in [Process -> Steps] /\ tun \in [Process -> Names]
    BY DEF Process, Types, TunnelTypes
  <1>2. last'.op \in {op, "unsure"} /\ (last'.op = "up" => Idle /\ op = "up") /\ last'.tunnel = {t}
    BY DEF Begin
  <1>3. CASE last'.op = "up"
    <2>1. /\ pc'[r] \in UpSteps /\ tun'[r] = last'.tunnel /\ pc'[r] # "bypass"
          /\ \A q \in Process : q # r => pc'[q] = "idle"
      BY <1>1, <1>2, <1>3 DEF Begin, At, Idle, UpSteps
    <2> QED
      BY <1>1, <1>3, <2>1 DEF TrafficSafe
  <1>4. CASE last'.op # "up"
    BY <1>2, <1>4 DEF TrafficSafe
  <1> QED
    BY <1>3, <1>4

LEMMA RequestTraffic ==
    ASSUME Types, NEW r \in Request,
           Up(r) \/ Down(r) \/ Delete(r) \/ SetAutostart(r) \/ ClearAutostart(r)
    PROVE  TrafficSafe'
  <1>1. CASE Up(r)
    BY <1>1, BeginTraffic DEF Up
  <1>2. CASE Down(r)
    BY <1>2, BeginTraffic DEF Down
  <1>3. CASE Delete(r)
    BY <1>3, BeginTraffic DEF Delete
  <1>4. CASE SetAutostart(r)
    BY <1>4, BeginTraffic DEF SetAutostart
  <1>5. CASE ClearAutostart(r)
    BY <1>5, BeginTraffic DEF ClearAutostart
  <1> QED
    BY <1>1, <1>2, <1>3, <1>4, <1>5

LEMMA UpStepTraffic ==
    ASSUME Types, TrafficSafe, NEW p \in Process,
           \/ Clean(p) \/ Create(p) \/ Configure(p) \/ WriteDns(p) \/ SetPolicy(p) \/ ApplyBypass(p)
    PROVE  TrafficSafe'
  <1>1. CASE Clean(p)
    BY <1>1, AtTraffic DEF Clean, At, UpSteps
  <1>2. CASE Create(p)
    BY <1>2, AtTraffic, DoneTraffic DEF Create, UpSteps
  <1>3. CASE Configure(p)
    BY <1>3, AtTraffic, DoneTraffic DEF Configure, UpSteps
  <1>4. CASE WriteDns(p)
    BY <1>4, AtTraffic DEF WriteDns, UpSteps
  <1>5. CASE SetPolicy(p)
    <2>1. CASE /\ At(p, "policy", "bypass") /\ tun[p] \subseteq ifaces
               /\ table' = tun[p] /\ rules' = Rules /\ UNCHANGED <<tun, last, ifaces>>
      <3>1. last.op = "up" => Carries(last.tunnel)'
        BY <2>1, AtWorkOwnsTraffic DEF At, OwnsTraffic, Carries
      <3> QED
        BY <2>1, <3>1, AtTraffic DEF UpSteps
    <2>2. CASE pc[p] = "policy" /\ Done(p, "failed")
      BY <2>2, DoneTraffic
    <2> QED
      BY <1>5, <2>1, <2>2 DEF SetPolicy, PolicyUnchanged
  <1>6. CASE ApplyBypass(p)
    <2>1. pc[p] = "bypass" /\ Done(p, "ok") /\ UNCHANGED <<ifaces, table, rules>>
      BY <1>6 DEF ApplyBypass, kernel
    <2>2. last.op = "up" => last'.tunnel = last.tunnel
      BY <2>1 DEF Done, Types, TunnelTypes
    <2>3. last.op = "up" => Carries(last.tunnel)'
      BY <2>1, <2>2, AtWorkOwnsTraffic DEF OwnsTraffic, Carries
    <2> QED
      BY <2>1, <2>3, DoneTraffic
  <1> QED
    BY <1>1, <1>2, <1>3, <1>4, <1>5, <1>6

LEMMA DownStepTraffic ==
    ASSUME Types, TrafficSafe, NEW p \in Process,
           \/ Unroute(p) \/ Teardown(p) \/ Restore(p) \/ Remove(p) \/ Forget(p)
           \/ Unset(p) \/ WriteAutostart(p)
    PROVE  TrafficSafe'
  <1>1. /\ pc[p] # "idle" /\ pc[p] \notin UpSteps
        /\ \/ \E outcome : Done(p, outcome)
           \/ \E to : At(p, pc[p], to) /\ to \notin UpSteps /\ UNCHANGED <<tun, last>>
    BY DEF Unroute, Teardown, Restore, Remove, Forget, Unset, WriteAutostart, At, UpSteps
  <1>2. last.op # "up"
    BY <1>1, AtWorkOwnsTraffic DEF OwnsTraffic
  <1> QED
    BY <1>1, <1>2, AtTraffic, DoneTraffic

LEMMA StartTraffic ==
    ASSUME Types, TrafficSafe, NEW reboot \in BOOLEAN, Start(reboot)
    PROVE  TrafficSafe'
  <1> DEFINE up == autostart # {} /\ autostart \subseteq confs
  <1>1. CASE up
    <2>1. /\ last' = [op |-> "up", tunnel |-> autostart] /\ "boot" \in Process
          /\ pc'["boot"] = "clean" /\ tun'["boot"] = autostart
          /\ \A q \in Process : q # "boot" => pc'[q] = "idle"
      BY <1>1 DEF Start, Process
    <2> QED
      BY <2>1 DEF TrafficSafe, UpSteps
  <1>2. CASE ~up
    <2>1. Idle'
      BY <1>2 DEF Start, Idle
    <2>2. last' = Nobody \/ (last' = last /\ Idle /\ UNCHANGED <<ifaces, table, rules>>)
      BY <1>2 DEF Start, kernel
    <2>3. last'.op = "up" => last.op = "up" /\ Idle
      BY <2>2 DEF Nobody
    <2>4. last'.op # "up"
      <3>1. ~(last.op = "up" /\ Idle)
        BY DEF TrafficSafe, Idle, UpSteps
      <3> QED
        BY <2>3, <3>1
    <2>5. last'.op = "is up" => Carries(last.tunnel)'
      <3>1. CASE last' = Nobody
        BY <3>1 DEF Nobody
      <3>2. CASE last' = last /\ UNCHANGED <<ifaces, table, rules>>
        BY <3>2 DEF TrafficSafe, Carries
      <3> QED
        BY <2>2, <3>1, <3>2
    <2> QED
      BY <2>1, <2>4, <2>5 DEF TrafficSafe
  <1> QED
    BY <1>1, <1>2

LEMMA NextTraffic == Types /\ TrafficSafe /\ [Next]_vars => TrafficSafe'
  <1> SUFFICES ASSUME Types, TrafficSafe, [Next]_vars PROVE TrafficSafe'
    OBVIOUS
  <1>1. ASSUME NEW r \in Request, Up(r) \/ Down(r) \/ Delete(r) \/ SetAutostart(r) \/ ClearAutostart(r)
        PROVE  TrafficSafe'
    BY <1>1, RequestTraffic
  <1>2. ASSUME NEW p \in Process,
               \/ Clean(p) \/ Create(p) \/ Configure(p) \/ WriteDns(p) \/ SetPolicy(p) \/ ApplyBypass(p)
        PROVE  TrafficSafe'
    BY <1>2, UpStepTraffic
  <1>3. ASSUME NEW p \in Process,
               \/ Unroute(p) \/ Teardown(p) \/ Restore(p) \/ Remove(p) \/ Forget(p)
               \/ Unset(p) \/ WriteAutostart(p)
        PROVE  TrafficSafe'
    BY <1>3, DownStepTraffic
  <1>4. CASE Import \/ EditBypass \/ Uplink \/ UNCHANGED vars
    <2>1. UNCHANGED <<ifaces, table, rules, pc, tun, last>>
      BY <1>4 DEF Import, EditBypass, Edit, Uplink, vars, tunnelVars, kernel, process
    <2> QED
      BY <2>1 DEF TrafficSafe, Idle, Carries
  <1>5. CASE \E reboot \in BOOLEAN : Start(reboot)
    BY <1>5, StartTraffic
  <1> QED
    BY <1>1, <1>2, <1>3, <1>4, <1>5 DEF Next

(* A tunnel whose up ran alone and was answered with success has its       *)
(* interface, the route and the rules until the next request, whatever the *)
(* ups and downs before it left behind (tunnel_up).                        *)
THEOREM TunnelCarriesTraffic == VpnSpec => []TrafficInTunnel
  <1>1. Init => TrafficSafe
    BY DEF Init, Nobody, TrafficSafe
  <1>2. TrafficSafe => TrafficInTunnel
    BY DEF TrafficSafe, Carries, TrafficInTunnel
  <1> QED
    BY <1>1, <1>2, VpnTypes, NextTraffic, PTL DEF VpnSpec

-----------------------------------------------------------------------------
(***************************************************************************)
(* The autostart.                                                          *)
(***************************************************************************)
\* One process at work, and one that ends or goes on: still at most one.
LEMMA OneAtWork ==
    ASSUME pc \in [Process -> Steps], Alone, NEW p \in Process, pc[p] # "idle",
           NEW step, pc' = [pc EXCEPT ![p] = step]
    PROVE  Alone' /\ \A q \in Process : q # p => pc[q] = "idle" /\ pc'[q] = "idle"
  BY DEF Alone

\* One process at work once another begins while all are idle.
LEMMA FirstAtWork ==
    ASSUME pc \in [Process -> Steps], Idle, NEW p \in Process, NEW step, pc' = [pc EXCEPT ![p] = step]
    PROVE  Alone' /\ \A q \in Process : q # p => pc'[q] = "idle"
  BY DEF Alone, Idle

LEMMA BeginAutostart ==
    ASSUME Types, AutostartSafe, NEW r \in Request, NEW t, NEW op, NEW step, Begin(r, t, op, step),
           step = "autostart" => t \in confs, UNCHANGED <<confs, autostart>>
    PROVE  AutostartSafe'
  <1>3. SUFFICES ASSUME ~loose' PROVE AutostartSafe'
    BY DEF AutostartSafe
  <1>4. /\ ~loose /\ Idle /\ pc' = [pc EXCEPT ![r] = step] /\ tun' = [tun EXCEPT ![r] = {t}]
        /\ r \in Process /\ pc \in [Process -> Steps] /\ tun \in [Process -> Names]
    BY <1>3 DEF Begin, At, Process, Types, TunnelTypes
  <1>5. Alone' /\ \A q \in Process : q # r => pc'[q] = "idle"
    BY <1>4, FirstAtWork
  <1>6. autostart \subseteq confs
    BY <1>4 DEF AutostartSafe, Idle
  <1>7. pc'[r] = "autostart" => tun'[r] \subseteq confs
    BY <1>4
  <1> QED
    BY <1>5, <1>6, <1>7 DEF AutostartSafe

LEMMA RequestAutostart ==
    ASSUME Types, AutostartSafe, NEW r \in Request,
           Up(r) \/ Down(r) \/ Delete(r) \/ SetAutostart(r) \/ ClearAutostart(r)
    PROVE  AutostartSafe'
  <1>1. UNCHANGED <<confs, autostart>>
    BY DEF Up, Down, Delete, SetAutostart, ClearAutostart
  <1>2. CASE Up(r)
    BY <1>1, <1>2, BeginAutostart DEF Up
  <1>3. CASE Down(r)
    BY <1>1, <1>3, BeginAutostart DEF Down
  <1>4. CASE Delete(r)
    <2>1. PICK t \in DOMAIN Status :
            Begin(r, t, "down", "unroute for delete") \/ Begin(r, t, "other", "remove")
      BY <1>4 DEF Delete
    <2> QED
      BY <1>1, <2>1, BeginAutostart
  <1>5. CASE SetAutostart(r)
    BY <1>1, <1>5, BeginAutostart DEF SetAutostart, Status
  <1>6. CASE ClearAutostart(r)
    BY <1>1, <1>6, BeginAutostart DEF ClearAutostart
  <1> QED
    BY <1>2, <1>3, <1>4, <1>5, <1>6

\* A step between those of the autostart leaves it to the process at work.
LEMMA StepAutostart ==
    ASSUME Types, AutostartSafe, NEW p \in Process, pc[p] \notin {"idle", "forget", "unset"},
           UNCHANGED <<confs, autostart, loose>>,
           NEW step, pc' = [pc EXCEPT ![p] = step], step # "autostart"
    PROVE  AutostartSafe'
  <1>1. SUFFICES ASSUME ~loose PROVE AutostartSafe'
    BY DEF AutostartSafe
  <1>2. Alone' /\ \A q \in Process : q # p => pc[q] = "idle" /\ pc'[q] = "idle"
    BY <1>1, OneAtWork DEF Types, TunnelTypes, AutostartSafe
  <1>3. autostart \subseteq confs
    BY <1>1, <1>2 DEF AutostartSafe
  <1>4. pc'[p] # "autostart"
    BY DEF Types, TunnelTypes
  <1> QED
    BY <1>2, <1>3, <1>4 DEF AutostartSafe

LEMMA UpStepAutostart ==
    ASSUME Types, AutostartSafe, NEW p \in Process,
           \/ Clean(p) \/ Create(p) \/ Configure(p) \/ WriteDns(p) \/ SetPolicy(p) \/ ApplyBypass(p)
    PROVE  AutostartSafe'
  <1>1. /\ pc[p] \in UpSteps /\ \E step \in UpSteps \cup {"idle"} : pc' = [pc EXCEPT ![p] = step]
        /\ UNCHANGED <<confs, autostart, loose>>
    BY DEF Clean, Create, Configure, WriteDns, SetPolicy, PolicyUnchanged, ApplyBypass, At, Done, UpSteps,
         history
  <1> QED
    BY <1>1, StepAutostart DEF UpSteps

LEMMA DownStepAutostart ==
    ASSUME Types, AutostartSafe, NEW p \in Process,
           \/ Unroute(p) \/ Teardown(p) \/ Restore(p) \/ Remove(p) \/ Forget(p)
           \/ Unset(p) \/ WriteAutostart(p)
    PROVE  AutostartSafe'
  <1>0. pc \in [Process -> Steps] /\ tun \in [Process -> Names] /\ autostart \in Names
    BY DEF Types, TunnelTypes
  <1>1. CASE Unroute(p) \/ Teardown(p) \/ Restore(p)
    <2>1. /\ pc[p] \in DownSteps
          /\ \E step \in DownSteps \cup {"idle", "remove"} : pc' = [pc EXCEPT ![p] = step]
          /\ UNCHANGED <<confs, autostart, loose>>
      BY <1>1 DEF Unroute, Teardown, Restore, At, Done, DownSteps, history
    <2> QED
      BY <2>1, StepAutostart DEF DownSteps
  <1>2. SUFFICES ASSUME ~loose', ~(Unroute(p) \/ Teardown(p) \/ Restore(p)) PROVE AutostartSafe'
    BY <1>1 DEF AutostartSafe
  <1>3. ~loose
    BY <1>2 DEF Remove, Forget, Unset, WriteAutostart, history
  <1>4. /\ pc[p] # "idle"
        /\ \E step \in {"forget", "unset", "idle"} : pc' = [pc EXCEPT ![p] = step]
    BY <1>2 DEF Remove, Forget, Unset, WriteAutostart, At, Done
  <1>5. Alone' /\ (\A q \in Process : q # p => pc[q] = "idle" /\ pc'[q] = "idle") /\ pc'[p] # "autostart"
    <2>1. Alone
      BY <1>3 DEF AutostartSafe
    <2> QED
      BY <1>0, <1>4, <2>1, OneAtWork
  <1>6. pc[p] \notin {"forget", "unset"} => autostart \subseteq confs
    BY <1>3, <1>5 DEF AutostartSafe
  <1>7. autostart \subseteq confs \cup tun[p]
    BY <1>3, <1>5 DEF AutostartSafe
  <1>8. CASE Remove(p)
    <2>1. CASE At(p, "remove", "forget") /\ confs' = confs \ tun[p] /\ UNCHANGED <<tun, autostart>>
      <3>1. autostart \subseteq confs' \cup tun'[p] /\ autostart' = autostart
        BY <1>7, <2>1
      <3>2. pc'[p] = "forget"
        BY <1>0, <2>1 DEF At
      <3> QED
        BY <1>5, <3>1, <3>2 DEF AutostartSafe
    <2>2. CASE pc[p] = "remove" /\ UNCHANGED <<confs, autostart>>
      BY <1>5, <1>6, <2>2 DEF AutostartSafe
    <2> QED
      BY <1>8, <2>1, <2>2 DEF Remove
  <1>9. CASE Forget(p)
    <2>1. CASE autostart = tun[p] /\ At(p, "forget", "unset") /\ UNCHANGED <<tun, confs, autostart>>
      <3>1. autostart' \subseteq confs' \cup tun'[p] /\ pc'[p] = "unset"
        BY <1>0, <2>1 DEF At
      <3> QED
        BY <1>5, <3>1 DEF AutostartSafe
    <2>2. CASE autostart # tun[p] /\ UNCHANGED <<confs, autostart>>
      <3>1. tun[p] \in Names
        BY <1>0
      <3>2. autostart \subseteq confs
        BY <1>0, <1>7, <2>2, <3>1 DEF Names
      <3> QED
        BY <1>5, <2>2, <3>2 DEF AutostartSafe
    <2> QED
      BY <1>9, <2>1, <2>2 DEF Forget
  <1>10. CASE Unset(p)
    <2>1. autostart' \subseteq confs'
      BY <1>2, <1>7, <1>10 DEF Unset
    <2> QED
      BY <1>5, <2>1 DEF AutostartSafe
  <1>11. CASE WriteAutostart(p)
    <2>1. tun[p] \subseteq confs
      BY <1>3, <1>11 DEF AutostartSafe, WriteAutostart
    <2>2. autostart' \subseteq confs'
      BY <1>6, <1>11, <2>1 DEF WriteAutostart
    <2> QED
      BY <1>5, <2>2 DEF AutostartSafe
  <1> QED
    BY <1>1, <1>2, <1>8, <1>9, <1>10, <1>11

LEMMA StartAutostart ==
    ASSUME Types, AutostartSafe, NEW reboot \in BOOLEAN, Start(reboot)
    PROVE  AutostartSafe'
  <1>1. SUFFICES ASSUME ~loose' PROVE AutostartSafe'
    BY DEF AutostartSafe
  <1>2. ~loose /\ Idle
    BY <1>1 DEF Start
  <1>3. autostart' \subseteq confs'
    BY <1>2 DEF Start, AutostartSafe, Idle
  <1>4. \A q \in Process : pc'[q] = "idle" \/ (q = "boot" /\ pc'[q] = "clean")
    BY DEF Start
  <1> QED
    BY <1>3, <1>4 DEF AutostartSafe, Alone

LEMMA NextAutostart == Types /\ AutostartSafe /\ [Next]_vars => AutostartSafe'
  <1> SUFFICES ASSUME Types, AutostartSafe, [Next]_vars PROVE AutostartSafe'
    OBVIOUS
  <1>1. ASSUME NEW r \in Request, Up(r) \/ Down(r) \/ Delete(r) \/ SetAutostart(r) \/ ClearAutostart(r)
        PROVE  AutostartSafe'
    BY <1>1, RequestAutostart
  <1>2. ASSUME NEW p \in Process,
               \/ Clean(p) \/ Create(p) \/ Configure(p) \/ WriteDns(p) \/ SetPolicy(p) \/ ApplyBypass(p)
        PROVE  AutostartSafe'
    BY <1>2, UpStepAutostart
  <1>3. ASSUME NEW p \in Process,
               \/ Unroute(p) \/ Teardown(p) \/ Restore(p) \/ Remove(p) \/ Forget(p)
               \/ Unset(p) \/ WriteAutostart(p)
        PROVE  AutostartSafe'
    BY <1>3, DownStepAutostart
  <1>4. CASE Import \/ EditBypass \/ Uplink \/ UNCHANGED vars
    <2>1. UNCHANGED <<pc, tun, autostart, loose>> /\ confs \subseteq confs'
      BY <1>4 DEF Import, EditBypass, Edit, Uplink, vars, tunnelVars, kernel, process, history
    <2> QED
      BY <2>1 DEF AutostartSafe, Alone
  <1>5. CASE \E reboot \in BOOLEAN : Start(reboot)
    BY <1>5, StartAutostart
  <1> QED
    BY <1>1, <1>2, <1>3, <1>4, <1>5 DEF Next

(* The autostart file names a tunnel that has its configuration: a tunnel's *)
(* deletion takes its autostart along, unless requests overlap or it is cut *)
(* short (delete_tunnel).                                                   *)
THEOREM AutostartIsThere == VpnSpec => []AutostartNamesTunnel
  <1>1. Init => AutostartSafe
    BY DEF Init, AutostartSafe, Alone
  <1>2. AutostartSafe => AutostartNamesTunnel
    BY DEF AutostartSafe, AutostartNamesTunnel, Idle
  <1> QED
    BY <1>1, <1>2, VpnTypes, NextAutostart, PTL DEF VpnSpec

-----------------------------------------------------------------------------
(***************************************************************************)
(* What tunnels leave behind.                                              *)
(***************************************************************************)
Owned ==
    /\ Alone /\ (ifaces = {} => rules = {})
    /\ \A p \in Process : StepFinds(p) /\ Tracked(p)
    /\ ~lost /\ last.op = "is down" => DnsBack

\* Routes that are owned are noted: where nothing is noted, there are none.
LEMMA NothingNoted == RoutesOwned /\ ~Noted => viaWan = {}
  BY DEF RoutesOwned, Noted

\* A step of the one process at work, when after it everything is owned that its
\* next step and the end of a down need.
LEMMA WorkOwned ==
    ASSUME Types, Owned, NEW p \in Process, pc[p] # "idle", NEW step, pc' = [pc EXCEPT ![p] = step],
           ifaces' = {} => rules' = {}, StepFinds(p)', Tracked(p)',
           ~lost' /\ last'.op = "is down" => DnsBack'
    PROVE  Owned'
  <1>1. Alone' /\ \A q \in Process : q # p => pc'[q] = "idle"
    BY OneAtWork DEF Owned, Types, TunnelTypes
  <1>2. \A q \in Process : pc'[q] = "idle" => StepFinds(q)' /\ StepKeeps(q)'
    BY DEF StepFinds, StepKeeps, UpSteps
  <1>3. \A q \in Process : StepFinds(q)' /\ Tracked(q)'
    BY <1>1, <1>2 DEF Tracked
  <1> QED
    BY <1>1, <1>3 DEF Owned

\* What the process at work has.
LEMMA AtWork ==
    ASSUME Types, Owned, NEW p \in Process, pc[p] # "idle"
    PROVE  /\ \E t \in Tunnel : tun[p] = {t}
           /\ pc \in [Process -> Steps] /\ tun \in [Process -> Names] /\ last \in [op : LastOps, tunnel : Names]
           /\ StepFinds(p) /\ (~lost => DnsKept /\ RoutesOwned /\ StepKeeps(p))
  <1>1. StepFinds(p) /\ Tracked(p)
    BY DEF Owned
  <1>2. tun[p] \in Names /\ tun[p] # {}
    BY <1>1 DEF Types, TunnelTypes, StepFinds
  <1>3. \E t \in Tunnel : tun[p] = {t}
    BY <1>2 DEF Names
  <1> QED
    BY <1>1, <1>3 DEF Types, TunnelTypes, Tracked

\* The process goes on to its next step, or it is done.
LEMMA Goes ==
    ASSUME NEW p \in Process, pc \in [Process -> Steps], NEW from, NEW to, At(p, from, to)
    PROVE  pc[p] = from /\ pc'[p] = to
  BY DEF At

LEMMA Ends ==
    ASSUME NEW p \in Process, pc \in [Process -> Steps], last \in [op : LastOps, tunnel : Names],
           NEW outcome, Done(p, outcome)
    PROVE  /\ pc'[p] = "idle"
           /\ last'.op = "is down" => last.op = "down" /\ outcome = "ok"
  BY DEF Done

\* The steps of tunnel_up.
LEMMA UpStepOwned ==
    ASSUME Types, Owned, NEW p \in Process,
           \/ Clean(p) \/ Create(p) \/ Configure(p) \/ WriteDns(p) \/ SetPolicy(p) \/ ApplyBypass(p)
    PROVE  Owned'
  <1>1. /\ pc[p] \in UpSteps /\ pc[p] # "idle" /\ \E step : pc' = [pc EXCEPT ![p] = step]
    BY DEF Clean, Create, Configure, WriteDns, SetPolicy, ApplyBypass, At, Done, UpSteps
  <1>2. PICK t \in Tunnel : tun[p] = {t}
    BY <1>1, AtWork
  <1>3. /\ pc \in [Process -> Steps] /\ tun \in [Process -> Names] /\ last \in [op : LastOps, tunnel : Names]
        /\ StepFinds(p) /\ (~lost => DnsKept /\ RoutesOwned /\ StepKeeps(p))
    BY <1>1, AtWork
  <1>ended. \A outcome : Done(p, outcome) =>
          pc'[p] = "idle" /\ (last'.op = "is down" => last.op = "down" /\ outcome = "ok")
    BY <1>3, Ends
  <1>4. /\ ifaces = {} => rules = {}
        /\ last.op \notin {"down", "is down"} /\ (lost => lost')
        /\ ~lost /\ pc[p] # "clean" => ~Noted /\ viaWan = {}
    <2>1. lost => lost'
      BY DEF Clean, Create, Configure, WriteDns, SetPolicy, PolicyUnchanged, ApplyBypass, history
    <2> QED
      BY <1>1, <1>3, <2>1, NothingNoted DEF Owned, StepFinds, StepKeeps
  <1>5. SUFFICES /\ ifaces' = {} => rules' = {}
                 /\ StepFinds(p)' /\ (~lost' => DnsKept' /\ RoutesOwned' /\ StepKeeps(p)')
                 /\ last'.op # "is down"
    BY <1>1, WorkOwned DEF Tracked
  <1>6. CASE Clean(p)
    <2>1. /\ rules' = {} /\ pc'[p] = "create"
          /\ UNCHANGED <<resolv, viaWan, backup, routeState, tun, last>> /\ (~lost' => ~Noted)
      BY <1>3, <1>6 DEF Clean, At, Remaining, wanVars, network
    <2>2. StepFinds(p)'
      BY <1>2, <1>4, <2>1 DEF StepFinds
    <2>3. ~lost' => DnsKept' /\ RoutesOwned' /\ StepKeeps(p)'
      BY <1>3, <1>4, <2>1, NothingNoted DEF DnsKept, RoutesOwned, StepKeeps, Noted
    <2> QED
      BY <1>4, <2>1, <2>2, <2>3
  <1>7. CASE Create(p)
    <2>1. /\ pc[p] = "create" /\ rules = {} /\ UNCHANGED <<resolv, viaWan, backup, routeState, rules>>
      BY <1>3, <1>7 DEF Create, StepFinds, wanVars, network
    <2>2. ~lost' => DnsKept' /\ RoutesOwned' /\ ~Noted'
      BY <1>3, <1>4, <2>1 DEF DnsKept, RoutesOwned, Noted
    <2>3. \/ pc'[p] = "configure" /\ UNCHANGED <<tun, last>>
          \/ pc'[p] = "idle" /\ last'.op # "is down"
      BY <1>3, <1>4, <1>7, <1>ended DEF Create, At
    <2>4. StepFinds(p)' /\ last'.op # "is down"
      BY <1>2, <1>4, <2>3 DEF StepFinds, UpSteps
    <2>5. ~lost' => StepKeeps(p)'
      BY <2>2, <2>3 DEF StepKeeps, UpSteps
    <2> QED
      BY <2>1, <2>2, <2>4, <2>5
  <1>8. CASE Configure(p)
    <2>1. /\ pc[p] = "configure"
          /\ UNCHANGED <<resolv, viaWan, backup, routeState, ifaces, rules, lost>>
      BY <1>8 DEF Configure, wanVars, network, kernel, history
    <2>2. ~lost' => DnsKept' /\ RoutesOwned' /\ ~Noted'
      BY <1>3, <1>4, <2>1 DEF DnsKept, RoutesOwned, Noted
    <2>3. \/ pc'[p] = "dns" /\ UNCHANGED <<tun, last>> /\ tun[p] \subseteq ifaces
          \/ pc'[p] = "idle" /\ last'.op # "is down"
      BY <1>3, <1>4, <1>8, <1>ended DEF Configure, At
    <2>4. StepFinds(p)' /\ last'.op # "is down"
      BY <1>2, <1>4, <2>1, <2>3 DEF StepFinds, UpSteps
    <2>5. ~lost' => StepKeeps(p)'
      BY <2>2, <2>3 DEF StepKeeps, UpSteps
    <2> QED
      BY <1>4, <2>1, <2>2, <2>4, <2>5
  <1>9. CASE WriteDns(p)
    <2>1. /\ pc[p] = "dns" /\ pc'[p] = "policy" /\ tun[p] \subseteq ifaces
          /\ UNCHANGED <<viaWan, routeState, ifaces, rules, tun, last>>
      BY <1>3, <1>9 DEF WriteDns, At, StepFinds, kernel
    <2>2. ~lost' => DnsKept'
      <3>1. CASE tun[p] \subseteq WithDns
        <4>1. PICK copied \in BOOLEAN, written \in BOOLEAN :
                /\ backup' = IF copied THEN {resolv} ELSE backup
                /\ resolv' = IF written THEN "vpn" ELSE resolv
                /\ lost' = (lost \/ resolv = "vpn" \/ ~copied)
          BY <1>9, <3>1 DEF WriteDns
        <4> QED
          BY <4>1 DEF DnsKept
      <3>2. CASE ~(tun[p] \subseteq WithDns)
        BY <1>3, <1>9, <3>2 DEF WriteDns, DnsKept
      <3> QED
        BY <3>1, <3>2
    <2>3. ~lost' => RoutesOwned' /\ StepKeeps(p)'
      BY <1>3, <1>4, <2>1 DEF RoutesOwned, Noted, StepKeeps
    <2>4. StepFinds(p)'
      BY <1>2, <1>4, <2>1 DEF StepFinds
    <2> QED
      BY <1>4, <2>1, <2>2, <2>3, <2>4
  <1>10. CASE SetPolicy(p)
    <2>1. /\ pc[p] = "policy" /\ tun[p] \subseteq ifaces
          /\ UNCHANGED <<resolv, viaWan, backup, routeState, ifaces, lost>>
      BY <1>3, <1>10 DEF SetPolicy, PolicyUnchanged, At, StepFinds, wanVars, network, history
    <2>2. ~lost' => DnsKept' /\ RoutesOwned' /\ ~Noted'
      BY <1>3, <1>4, <2>1 DEF DnsKept, RoutesOwned, Noted
    <2>3. \/ pc'[p] = "bypass" /\ UNCHANGED <<tun, last>>
          \/ pc'[p] = "idle" /\ last'.op # "is down"
      BY <1>3, <1>4, <1>10, <1>ended DEF SetPolicy, At
    <2>4. StepFinds(p)' /\ last'.op # "is down"
      BY <1>2, <1>4, <2>1, <2>3 DEF StepFinds, UpSteps
    <2>5. ~lost' => StepKeeps(p)'
      BY <2>2, <2>3 DEF StepKeeps, UpSteps
    <2> QED
      BY <1>2, <2>1, <2>2, <2>4, <2>5
  <1>11. CASE ApplyBypass(p)
    <2>1. /\ pc[p] = "bypass" /\ pc'[p] = "idle" /\ last'.op # "is down" /\ tun[p] \subseteq ifaces
          /\ UNCHANGED <<resolv, backup, ifaces, rules>>
      BY <1>3, <1>4, <1>11, <1>ended DEF ApplyBypass, StepFinds, kernel
    <2>2. ~lost' => RoutesOwned'
      <3>1. CASE tun[p] \subseteq Full /\ gw # {}
        <4>1. PICK added \in SUBSET {Entry}, noted \in BOOLEAN :
                /\ viaWan' = IF added = {} THEN viaWan ELSE {d.dev : d \in gw}
                /\ routeState' \in IF noted THEN {{Note(tun[p], added)}} ELSE {routeState, {}}
                /\ lost' = (lost \/ ~noted)
          BY <1>11, <3>1 DEF ApplyBypass
        <4>2. CASE added = {}
          BY <1>4, <2>1, <4>1, <4>2 DEF RoutesOwned
        <4>3. CASE added # {}
          <5>1. ~lost' => Note(tun[p], added) \in routeState'
            BY <4>1
          <5>2. /\ Note(tun[p], added).routes # {} /\ Note(tun[p], added).tunnel = tun[p]
                /\ tun[p] # {} /\ tun[p] \subseteq ifaces'
            BY <1>2, <2>1, <4>3 DEF Note
          <5> QED
            BY <5>1, <5>2 DEF RoutesOwned
        <4> QED
          BY <4>2, <4>3
      <3>2. CASE ~(tun[p] \subseteq Full /\ gw # {})
        BY <1>4, <1>11, <2>1, <3>2 DEF ApplyBypass, RoutesOwned
      <3> QED
        BY <3>1, <3>2
    <2>3. ~lost' => DnsKept' /\ StepKeeps(p)'
      BY <1>3, <1>4, <2>1 DEF DnsKept, StepKeeps, UpSteps
    <2>4. StepFinds(p)'
      BY <2>1 DEF StepFinds, UpSteps
    <2> QED
      BY <1>4, <2>1, <2>2, <2>3, <2>4
  <1> QED
    BY <1>6, <1>7, <1>8, <1>9, <1>10, <1>11

\* The steps of tunnel_down and delete_tunnel, and of the autostart.
LEMMA DownStepOwned ==
    ASSUME Types, Owned, NEW p \in Process,
           \/ Unroute(p) \/ Teardown(p) \/ Restore(p) \/ Remove(p) \/ Forget(p)
           \/ Unset(p) \/ WriteAutostart(p)
    PROVE  Owned'
  <1>1. /\ pc[p] # "idle" /\ \E step : pc' = [pc EXCEPT ![p] = step]
    BY DEF Unroute, Teardown, Restore, Remove, Forget, Unset, WriteAutostart, At, Done
  <1>2. PICK t \in Tunnel : tun[p] = {t}
    BY <1>1, AtWork
  <1>3. /\ pc \in [Process -> Steps] /\ tun \in [Process -> Names] /\ last \in [op : LastOps, tunnel : Names]
        /\ StepFinds(p) /\ (~lost => DnsKept /\ RoutesOwned /\ StepKeeps(p))
    BY <1>1, AtWork
  <1>ended. \A outcome : Done(p, outcome) =>
          pc'[p] = "idle" /\ (last'.op = "is down" => last.op = "down" /\ outcome = "ok")
    BY <1>3, Ends
  <1>4. (ifaces = {} => rules = {}) /\ last.op # "is down"
    BY <1>1, <1>3 DEF Owned, StepFinds
  <1>5. SUFFICES /\ ifaces' = {} => rules' = {}
                 /\ StepFinds(p)' /\ (~lost' => DnsKept' /\ RoutesOwned' /\ StepKeeps(p)')
                 /\ ~lost' /\ last'.op = "is down" => DnsBack'
    BY <1>1, WorkOwned DEF Tracked
  <1>6. CASE Unroute(p)
    <2> DEFINE mine == {note \in routeState : note.tunnel = tun[p]}
    <2>1. /\ pc'[p] \in {"teardown", "teardown for delete"}
          /\ viaWan' = (IF \E note \in mine : note.routes # {} THEN {} ELSE viaWan)
          /\ routeState' = routeState \ mine
          /\ UNCHANGED <<resolv, backup, ifaces, rules, tun, last, lost>>
      BY <1>3, <1>6 DEF Unroute, At, kernel, history
    <2>2. ~lost => RoutesOwned'
      BY <1>3, <2>1 DEF RoutesOwned
    <2>3. ~lost => DnsKept' /\ StepKeeps(p)'
      BY <1>3, <2>1 DEF DnsKept, StepKeeps, UpSteps
    <2>4. StepFinds(p)'
      BY <1>2, <1>4, <2>1 DEF StepFinds, UpSteps
    <2> QED
      BY <1>4, <2>1, <2>2, <2>3, <2>4
  <1>7. CASE Teardown(p)
    <2>1. /\ pc[p] \in {"teardown", "teardown for delete"} /\ pc'[p] \in {"restore", "restore for delete"}
          /\ rules' = {} /\ ifaces' = Left(tun[p]) /\ lost' = (lost \/ Orphans(p, Left(tun[p])))
          /\ UNCHANGED <<resolv, viaWan, backup, routeState, tun, last>>
      BY <1>3, <1>7 DEF Teardown, Remaining, At, wanVars, network
    <2>2. ~lost' => RoutesOwned'
      <3> SUFFICES ASSUME ~lost', viaWan # {} PROVE RoutesOwned'
        BY <2>1 DEF RoutesOwned
      <3>1. PICK note \in routeState : note.routes # {} /\ note.tunnel # {} /\ note.tunnel \subseteq ifaces
        BY <1>3, <2>1 DEF RoutesOwned
      <3>2. note.tunnel # tun[p] /\ note.tunnel \in Names
        BY <1>3, <2>1 DEF StepKeeps, Types, TunnelTypes
      <3>3. note.tunnel \subseteq ifaces \ tun[p]
        BY <1>2, <3>1, <3>2 DEF Names
      <3>4. ifaces \ tun[p] \subseteq ifaces'
        BY <2>1 DEF Orphans
      <3> QED
        BY <2>1, <3>1, <3>3, <3>4 DEF RoutesOwned
    <2>3. ~lost' => DnsKept' /\ StepKeeps(p)'
      BY <1>3, <2>1 DEF DnsKept, StepKeeps, UpSteps
    <2>4. StepFinds(p)'
      BY <1>2, <1>4, <2>1 DEF StepFinds, UpSteps
    <2> QED
      BY <1>4, <2>1, <2>2, <2>3, <2>4
  <1>8. CASE Restore(p)
    <2>1. /\ UNCHANGED <<viaWan, routeState, ifaces, rules>>
          /\ \/ pc'[p] = "idle"
             \/ pc'[p] = "remove" /\ UNCHANGED <<tun, last>>
      BY <1>3, <1>8, <1>ended DEF Restore, At, kernel
    <2>3. ~lost' => ~lost /\ ((backup = {} /\ UNCHANGED <<resolv, backup>>) \/ (resolv' \in backup /\ backup' = {}))
      BY <1>8 DEF Restore
    <2>2. ~lost' => DnsBack'
      BY <1>3, <2>3 DEF DnsKept, DnsBack
    <2>4. ~lost' => DnsKept' /\ RoutesOwned' /\ StepKeeps(p)'
      BY <1>3, <2>1, <2>2, <2>3 DEF DnsBack, DnsKept, RoutesOwned, StepKeeps, UpSteps
    <2>5. StepFinds(p)'
      BY <1>2, <1>4, <2>1 DEF StepFinds, UpSteps
    <2> QED
      BY <1>4, <2>1, <2>2, <2>4, <2>5
  <1>9. CASE Remove(p) \/ Forget(p) \/ Unset(p) \/ WriteAutostart(p)
    <2>1. UNCHANGED <<resolv, viaWan, backup, routeState, ifaces, rules, lost>>
      BY <1>9 DEF Remove, Forget, Unset, WriteAutostart, wanVars, network, kernel, history
    <2>2. \/ pc[p] \in {"remove", "forget"} /\ pc'[p] \in {"forget", "unset"} /\ UNCHANGED <<tun, last>>
          \/ /\ pc[p] \in {"remove", "forget", "unset", "autostart"} /\ pc'[p] = "idle"
             /\ last'.op = "is down" => last.op = "down"
      BY <1>3, <1>9, <1>ended, Goes DEF Remove, Forget, Unset, WriteAutostart
    <2>3. ~lost /\ last'.op = "is down" => DnsBack'
      BY <1>3, <1>4, <2>1, <2>2 DEF StepFinds, StepKeeps, DnsBack
    <2>4. ~lost => DnsKept' /\ RoutesOwned' /\ StepKeeps(p)'
      BY <1>3, <2>1, <2>2 DEF DnsKept, DnsBack, RoutesOwned, StepKeeps, UpSteps
    <2>5. StepFinds(p)'
      BY <1>2, <1>4, <2>1, <2>2 DEF StepFinds, UpSteps
    <2> QED
      BY <1>4, <2>1, <2>3, <2>4, <2>5
  <1> QED
    BY <1>6, <1>7, <1>8, <1>9

\* A request that begins while nothing else is at work.
LEMMA BeginOwned ==
    ASSUME Types, Owned, Idle, NEW r \in Request, NEW t \in Tunnel, NEW op \in {"up", "down", "other"},
           NEW step, Begin(r, t, op, step), UNCHANGED <<resolv, viaWan, kernel, backup, routeState>>,
           \/ step = "clean" /\ op = "up"
           \/ step \in {"unroute", "unroute for delete"} /\ op = "down"
           \/ step \in {"remove", "autostart", "unset"} /\ op = "other"
    PROVE  Owned'
  <1>1. r \in Process /\ pc \in [Process -> Steps] /\ tun \in [Process -> Names]
    BY DEF Types, TunnelTypes, Process
  <1>2. /\ pc' = [pc EXCEPT ![r] = step] /\ tun' = [tun EXCEPT ![r] = {t}]
        /\ last'.op \in {op, "unsure"} /\ UNCHANGED lost
    BY DEF Begin, At
  <1>3. Alone' /\ \A q \in Process : q # r => pc'[q] = "idle"
    BY <1>1, <1>2, FirstAtWork
  <1>4. (ifaces' = {} => rules' = {}) /\ (~lost' => DnsKept' /\ RoutesOwned')
    BY <1>1, <1>2 DEF Owned, Tracked, kernel, DnsKept, RoutesOwned
  <1>5. StepFinds(r)' /\ StepKeeps(r)'
    BY <1>1, <1>2 DEF StepFinds, StepKeeps, UpSteps
  <1>6. \A q \in Process : q # r => StepFinds(q)' /\ StepKeeps(q)'
    BY <1>3 DEF StepFinds, StepKeeps, UpSteps
  <1>7. last'.op # "is down"
    BY <1>2
  <1> QED
    BY <1>3, <1>4, <1>5, <1>6, <1>7 DEF Owned, Tracked

LEMMA RequestOwned ==
    ASSUME Types, NothingSafe, NEW r \in Request,
           Up(r) \/ Down(r) \/ Delete(r) \/ SetAutostart(r) \/ ClearAutostart(r)
    PROVE  NothingSafe'
  <1>0. DOMAIN Status \subseteq Tunnel /\ autostart \subseteq Tunnel
    BY DEF Status, Types, TunnelTypes, Names
  <1>1. SUFFICES ASSUME ~mingled' PROVE Owned'
    BY DEF NothingSafe, Owned
  <1>2. Owned /\ Idle
    BY <1>1 DEF Up, Down, Delete, SetAutostart, ClearAutostart, Begin, NothingSafe, Owned
  <1>3. UNCHANGED <<resolv, viaWan, kernel, backup, routeState>>
    BY DEF Up, Down, Delete, SetAutostart, ClearAutostart, network
  <1>4. CASE Up(r)
    BY <1>0, <1>2, <1>3, <1>4, BeginOwned DEF Up
  <1>5. CASE Down(r)
    BY <1>0, <1>2, <1>3, <1>5, BeginOwned DEF Down
  <1>6. CASE Delete(r)
    <2>1. PICK t \in DOMAIN Status :
            Begin(r, t, "down", "unroute for delete") \/ Begin(r, t, "other", "remove")
      BY <1>6 DEF Delete
    <2>2. CASE Begin(r, t, "down", "unroute for delete")
      BY <1>0, <1>2, <1>3, <2>2, BeginOwned
    <2>3. CASE Begin(r, t, "other", "remove")
      BY <1>0, <1>2, <1>3, <2>3, BeginOwned
    <2> QED
      BY <2>1, <2>2, <2>3
  <1>7. CASE SetAutostart(r)
    BY <1>0, <1>2, <1>3, <1>7, BeginOwned DEF SetAutostart
  <1>8. CASE ClearAutostart(r)
    BY <1>0, <1>2, <1>3, <1>8, BeginOwned DEF ClearAutostart
  <1> QED
    BY <1>4, <1>5, <1>6, <1>7, <1>8

\* The start: whatever was at work was cut short, and then nothing is said.
LEMMA StartOwned ==
    ASSUME Types, NothingSafe, NEW reboot \in BOOLEAN, Start(reboot)
    PROVE  NothingSafe'
  <1> DEFINE up == autostart # {} /\ autostart \subseteq confs
  <1>1. SUFFICES ASSUME ~mingled' PROVE Owned'
    BY DEF NothingSafe, Owned
  <1>2. Idle /\ Owned /\ "boot" \in Process
    BY <1>1 DEF Start, NothingSafe, Owned, Process
  <1>3. /\ ifaces' = {} => rules' = {}
        /\ ~lost' => ~lost /\ DnsKept' /\ RoutesOwned'
    <2>1. CASE reboot
      BY <1>2, <2>1 DEF Start, Owned, Tracked, DnsKept, RoutesOwned
    <2>2. CASE ~reboot
      BY <1>2, <2>2 DEF Start, Owned, Tracked, DnsKept, RoutesOwned, kernel
    <2> QED
      BY <2>1, <2>2
  <1>4. \A q \in Process :
          \/ pc'[q] = "idle"
          \/ pc'[q] = "clean" /\ tun'[q] # {} /\ last'.op = "up" /\ q = "boot"
    BY DEF Start
  <1>5. \A q \in Process : StepFinds(q)' /\ StepKeeps(q)'
    <2> SUFFICES ASSUME NEW q \in Process PROVE StepFinds(q)' /\ StepKeeps(q)'
      OBVIOUS
    <2>1. CASE pc'[q] = "idle"
      BY <2>1 DEF StepFinds, StepKeeps, UpSteps
    <2>2. CASE pc'[q] = "clean" /\ tun'[q] # {} /\ last'.op = "up"
      BY <2>2 DEF StepFinds, StepKeeps, UpSteps
    <2> QED
      BY <1>4, <2>1, <2>2
  <1>6. ~lost' /\ last'.op = "is down" => DnsBack'
    <2>1. UNCHANGED <<resolv, backup, lost>>
      BY DEF Start
    <2>2. last'.op = "up" \/ last'.op = "none" \/ last' = last
      BY DEF Start, Nobody
    <2> QED
      BY <1>2, <2>1, <2>2 DEF Owned, DnsBack
  <1>7. Alone'
    BY <1>4 DEF Alone
  <1> QED
    BY <1>3, <1>5, <1>6, <1>7 DEF Owned, Tracked

\* The uplink takes routes along, and writes name servers of its own.
LEMMA UplinkOwned ==
    ASSUME Types, NothingSafe, Uplink
    PROVE  NothingSafe'
  <1>1. viaWan' \subseteq viaWan /\ resolv' \in {resolv, "dhcp", "static"}
    BY DEF Uplink, WanNext, Post, SaveFails, ApplyPpp, Connect, HangUp, ApplyDhcp, Flush, SetRoute,
           SetResolv, WanFails, Leave, network
  <1>2. UNCHANGED <<ifaces, rules, backup, routeState, pc, tun, last, mingled, lost>>
    BY DEF Uplink, tunnelVars, kernel, process, history
  <1>3. /\ DnsKept => DnsKept'
        /\ RoutesOwned => RoutesOwned'
        /\ DnsBack => DnsBack'
    BY <1>1, <1>2 DEF DnsKept, RoutesOwned, DnsBack
  <1>4. \A q \in Process : (StepFinds(q) => StepFinds(q)') /\ (Tracked(q) => Tracked(q)')
    BY <1>2, <1>3 DEF StepFinds, Tracked, StepKeeps, Noted
  <1> QED
    BY <1>2, <1>3, <1>4 DEF NothingSafe, Alone

LEMMA NextOwned == Types /\ NothingSafe /\ [Next]_vars => NothingSafe'
  <1> SUFFICES ASSUME Types, NothingSafe, [Next]_vars PROVE NothingSafe'
    OBVIOUS
  <1>1. ASSUME NEW r \in Request, Up(r) \/ Down(r) \/ Delete(r) \/ SetAutostart(r) \/ ClearAutostart(r)
        PROVE  NothingSafe'
    BY <1>1, RequestOwned
  <1>2. ASSUME NEW p \in Process,
               \/ Clean(p) \/ Create(p) \/ Configure(p) \/ WriteDns(p) \/ SetPolicy(p) \/ ApplyBypass(p)
        PROVE  NothingSafe'
    <2>1. UNCHANGED mingled
      BY <1>2 DEF Clean, Create, Configure, WriteDns, SetPolicy, PolicyUnchanged, ApplyBypass, history
    <2> QED
      BY <1>2, <2>1, UpStepOwned DEF NothingSafe, Owned
  <1>3. ASSUME NEW p \in Process,
               \/ Unroute(p) \/ Teardown(p) \/ Restore(p) \/ Remove(p) \/ Forget(p)
               \/ Unset(p) \/ WriteAutostart(p)
        PROVE  NothingSafe'
    <2>1. UNCHANGED mingled
      BY <1>3 DEF Unroute, Teardown, Restore, Remove, Forget, Unset, WriteAutostart, history
    <2> QED
      BY <1>3, <2>1, DownStepOwned DEF NothingSafe, Owned
  <1>4. CASE Uplink
    BY <1>4, UplinkOwned
  <1>5. CASE Import \/ EditBypass \/ UNCHANGED vars
    <2>1. UNCHANGED <<resolv, viaWan, ifaces, rules, backup, routeState, pc, tun, last, mingled, lost>>
      BY <1>5 DEF Import, EditBypass, Edit, vars, wanVars, network, tunnelVars, kernel, process, history
    <2> QED
      BY <2>1 DEF NothingSafe, Alone, StepFinds, Tracked, StepKeeps, Noted, DnsKept, DnsBack, RoutesOwned
  <1>6. CASE \E reboot \in BOOLEAN : Start(reboot)
    BY <1>6, StartOwned
  <1> QED
    BY <1>1, <1>2, <1>3, <1>4, <1>5, <1>6 DEF Next

(* Once no tunnel has its interface the rules and the routes by the uplink *)
(* are gone, and after a down or a deletion resolv.conf and its copy are   *)
(* back, after whatever ups that stopped half-way or were repeated and     *)
(* whatever reboots, unless the way back was lost (tunnel_down,            *)
(* teardown_policy_routing, restore_dns).                                  *)
THEOREM TunnelsLeaveNothing == VpnSpec => []NothingLeft
  <1>1. Init => NothingSafe
    BY DEF Init, WanInit, NothingSafe, Alone, StepFinds, Tracked, StepKeeps, DnsKept, RoutesOwned, DnsBack,
           UpSteps, Nobody
  <1>2. NothingSafe => NothingLeft
    <2> SUFFICES ASSUME NothingSafe, ~mingled, Idle, ifaces = {}
                 PROVE  /\ rules = {}
                        /\ ~lost => viaWan = {}
                        /\ ~lost /\ last.op = "is down" => backup = {} /\ resolv # "vpn"
      BY DEF NothingLeft
    <2>1. ~lost => RoutesOwned
      BY DEF NothingSafe, Tracked, Process
    <2>2. RoutesOwned => viaWan = {}
      BY DEF RoutesOwned
    <2> QED
      BY <2>1, <2>2 DEF NothingSafe, DnsBack
  <1> QED
    BY <1>1, <1>2, VpnTypes, NextOwned, PTL DEF VpnSpec
=============================================================================
