------------------------------ MODULE Monitor ------------------------------
(***************************************************************************)
(* The monitor mode of a second Wi-Fi adapter: monitor.rs and its handlers *)
(* in api.rs.  The state is behind a lock that no request holds while it   *)
(* runs the system's commands.                                             *)
(***************************************************************************)
CONSTANTS
    Request,             \* requests that may be in progress at once
    Adapter              \* the adapters that may be plugged in

VARIABLES
    plugged,             \* the adapter detection finds, a set of at most one
    mode,                \* what the kernel has each adapter in
    monitor, iface, scan,\* under the lock: state, adapter, whose networks are listed
    monPc, held          \* per request: next step, the adapter it has read

locked == <<monitor, iface, scan>>
monitorVars == <<plugged, mode, locked, monPc, held>>

MonitorInit ==
    /\ plugged \in {{}} \cup {{a} : a \in Adapter}
    /\ mode = [a \in Adapter |-> "managed"]
    /\ monitor = "off" /\ iface = {} /\ scan = {}
    /\ monPc = [r \in Request |-> "idle"]
    /\ held = [r \in Request |-> {}]

Step(r, from, to) == monPc[r] = from /\ monPc' = [monPc EXCEPT ![r] = to]
Hold(r, a) == held' = [held EXCEPT ![r] = a]

\* detect_monitor_adapter finds the adapter, or a request is refused.
Enable(r) ==
    /\ plugged # {} /\ Step(r, "idle", "to monitor") /\ Hold(r, plugged)
    /\ UNCHANGED <<plugged, mode, locked>>

\* ip and iw; a command that fails ends the request, after the change or before.
ToMonitor(r) ==
    /\ \/ Step(r, "to monitor", "record") /\ UNCHANGED held
       \/ Step(r, "to monitor", "idle") /\ Hold(r, {})
    /\ \/ mode' = [a \in Adapter |-> IF a \in held[r] THEN "monitor" ELSE mode[a]]
       \/ monPc'[r] = "idle" /\ UNCHANGED mode
    /\ UNCHANGED <<plugged, locked>>

Record(r) ==
    /\ Step(r, "record", "refresh") /\ Hold(r, {})
    /\ monitor' = "on" /\ iface' = held[r] /\ UNCHANGED scan
    /\ UNCHANGED <<plugged, mode>>

\* disable_monitor reads the adapter; its commands' failures are ignored.
Disable(r) ==
    /\ Step(r, "idle", "to managed") /\ Hold(r, iface)
    /\ UNCHANGED <<plugged, mode, locked>>

ToManaged(r) ==
    /\ Step(r, "to managed", "clear") /\ Hold(r, {})
    /\ \/ mode' = [a \in Adapter |-> IF a \in held[r] THEN "managed" ELSE mode[a]]
       \/ UNCHANGED mode
    /\ UNCHANGED <<plugged, locked>>

Clear(r) ==
    /\ Step(r, "clear", "idle")
    /\ monitor' = "off" /\ iface' = {} /\ scan' = {}
    /\ UNCHANGED <<plugged, mode, held>>

\* refresh_scan: monitor_get, or the end of enabling, reads the adapter ...
Get(r) == Step(r, "idle", "refresh") /\ UNCHANGED <<plugged, mode, locked, held>>

Refresh(r) ==
    /\ Hold(r, iface)
    /\ IF iface = {} THEN Step(r, "refresh", "idle") ELSE Step(r, "refresh", "scanned")
    /\ UNCHANGED <<plugged, mode, locked>>

\* The slip of a result that is stored whatever has become of the state.
StoreAlways(r) ==
    /\ Step(r, "scanned", "idle") /\ Hold(r, {})
    /\ scan' \in {{}, held[r]}
    /\ UNCHANGED <<plugged, mode, monitor, iface>>

\* ... scans, and stores what it found, if anything, while the state is on.
StoreScan(r) ==
    /\ Step(r, "scanned", "idle") /\ Hold(r, {})
    /\ IF monitor = "on" THEN scan' \in {{}, held[r]} ELSE UNCHANGED scan
    /\ UNCHANGED <<plugged, mode, monitor, iface>>

Plug ==
    /\ plugged' \in {{}} \cup {{a} : a \in Adapter}
    /\ UNCHANGED <<mode, locked, monPc, held>>

MonitorNext ==
    \/ \E r \in Request :
         \/ Enable(r) \/ ToMonitor(r) \/ Record(r) \/ Disable(r) \/ ToManaged(r) \/ Clear(r)
         \/ Get(r) \/ Refresh(r) \/ StoreScan(r)
    \/ Plug

MonitorSpec == MonitorInit /\ [][MonitorNext]_monitorVars

-----------------------------------------------------------------------------
\* Networks are listed only while the monitor is on, and an adapter is on record
\* exactly then, however enabling, disabling and scans overlap: a scan that
\* began before a disable and ends after it leaves nothing behind.
ScanOnlyWhenOn == (scan # {} => monitor = "on") /\ (monitor = "on" <=> iface # {})
=============================================================================
