------------------------------ MODULE Listings ------------------------------
(***************************************************************************)
(* How amnezia.rs reads a listing line by line: parse_awg_show the output  *)
(* of `awg show`, parse_conf a tunnel's configuration.  A heading opens an *)
(* interface or a peer, and the lines after it are its keys.               *)
(*                                                                         *)
(* A line is its kind; what it says (a name, a key's value) stands for the *)
(* line's number, and 0 for a key that was not there.  Of the keys there   *)
(* is one of the interface, and two of the peer: of the repeated lines of  *)
(* "endpoint" the last counts, of "allowed" all.                           *)
(***************************************************************************)
EXTENDS Naturals, Sequences

CONSTANT MaxLines        \* bound: lines of a listing

Kinds == {"interface", "peer", "port", "endpoint", "allowed", "noise"}

VARIABLES
    text,                        \* the lines read so far
    result, showIface, showPeer, \* parse_awg_show: finished interfaces, those in hand
    section, conf, peers, confPeer \* parse_conf: section, interface, peers, peer in hand

show == <<result, showIface, showPeer>>
parsed == <<section, conf, peers, confPeer>>
listingVars == <<text, show, parsed>>

NewPeer(n) == [at |-> n, endpoint |-> 0, allowed |-> <<>>]
NewIface(n) == [at |-> n, port |-> 0, peers |-> <<>>]

ListingInit ==
    /\ text = <<>>
    /\ result = <<>> /\ showIface = {} /\ showPeer = {}
    /\ section = "none" /\ conf = NewIface(0) /\ peers = <<>> /\ confPeer = {}

\* A peer's key, in either syntax.
WithKey(peer, kind, n) ==
    CASE kind = "endpoint" -> [peer EXCEPT !.endpoint = n]
      [] kind = "allowed" -> [peer EXCEPT !.allowed = Append(@, n)]
      [] OTHER -> peer

\* A key of the interface.
WithIfaceKey(iface, kind, n) == IF kind = "port" THEN [iface EXCEPT !.port = n] ELSE iface

\* Option::take: what is in hand, if anything, goes to the end of a list.
Push(list, hand) == IF hand = {} THEN list ELSE Append(list, CHOOSE x \in hand : TRUE)

Housed == {[i EXCEPT !.peers = Push(@, showPeer)] : i \in showIface}

\* parse_awg_show: one line.  A peer that no interface precedes is dropped.
ReadShow(kind, n) ==
    CASE kind = "interface" ->
           result' = Push(result, Housed) /\ showIface' = {NewIface(n)} /\ showPeer' = {}
      [] kind = "peer" ->
           showIface' = Housed /\ showPeer' = {NewPeer(n)} /\ UNCHANGED result
      [] OTHER ->
           /\ showPeer' = {WithKey(p, kind, n) : p \in showPeer}
           /\ showIface' = IF showPeer = {} THEN {WithIfaceKey(i, kind, n) : i \in showIface} ELSE showIface
           /\ UNCHANGED result

\* parse_conf: one line.  All interface sections are one.
ReadConf(kind, n) ==
    IF kind \in {"interface", "peer"}
    THEN /\ peers' = Push(peers, confPeer)
         /\ section' = kind
         /\ confPeer' = IF kind = "peer" THEN {NewPeer(n)} ELSE {}
         /\ UNCHANGED conf
    ELSE /\ confPeer' = IF section = "peer" THEN {WithKey(p, kind, n) : p \in confPeer} ELSE confPeer
         /\ conf' = IF section = "interface" THEN WithIfaceKey(conf, kind, n) ELSE conf
         /\ UNCHANGED <<section, peers>>

ReadLine == \E kind \in Kinds :
    /\ Len(text) < MaxLines
    /\ text' = Append(text, kind)
    /\ ReadShow(kind, Len(text) + 1)
    /\ ReadConf(kind, Len(text) + 1)

\* The text ends, and each reader flushes what it has in hand.
FinishShow == Push(result, Housed)

\* The slip of a reader that returns without the peer in hand.
FinishConfUnflushed == peers

FinishConf == Push(peers, confPeer)

ListingSpec == ListingInit /\ [][ReadLine]_listingVars

-----------------------------------------------------------------------------
\* What the listing says: the lines of a kind in all of it, and those below line
\* n up to the next heading of some kinds.
Headings == {"interface", "peer"}
All(kind) == {n \in 1..Len(text) : text[n] = kind}
Under(n, kind, headings) ==
    {k \in n + 1 .. Len(text) : text[k] = kind /\ \A m \in n + 1 .. k : text[m] \notin headings}
InInterface == UNION {Under(i, "port", Headings) : i \in All("interface")}

\* A list of lines has these and no other, each once and in order.
Lists(list, places) ==
    /\ \A i, j \in DOMAIN list : i < j => list[i] < list[j]
    /\ {list[i] : i \in DOMAIN list} = places
At(list) == [i \in DOMAIN list |-> list[i].at]
IsLast(n, places) == IF places = {} THEN n = 0 ELSE n \in places /\ \A k \in places : k <= n

PeerInPlace(peer) ==
    /\ IsLast(peer.endpoint, Under(peer.at, "endpoint", Headings))
    /\ Lists(peer.allowed, Under(peer.at, "allowed", Headings))

PeersAt(list, places) == Lists(At(list), places) /\ \A i \in DOMAIN list : PeerInPlace(list[i])

IfaceInPlace(i) ==
    /\ IsLast(i.port, Under(i.at, "port", Headings))
    /\ PeersAt(i.peers, Under(i.at, "peer", {"interface"}))

\* Wherever the text ends, each peer is listed once under the heading of the
\* interface it follows and has the keys between its own heading and the next:
\* no reader forgets the last peer, or gives a key to a neighbour.
PeersInPlace ==
    /\ LET shown == FinishShow
       IN  Lists(At(shown), All("interface")) /\ \A i \in DOMAIN shown : IfaceInPlace(shown[i])
    /\ PeersAt(FinishConf, All("peer"))
    /\ IsLast(conf.port, InInterface)
=============================================================================
