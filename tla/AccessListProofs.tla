-------------------------- MODULE AccessListProofs --------------------------
(***************************************************************************)
(* What holds of the MAC access list for any number of clients, requests   *)
(* and edits: proofs of the invariants and of the action property of       *)
(* AccessList.                                                             *)
(***************************************************************************)
EXTENDS AccessList, ConfLinesProofs

\* The texts that stand in hostapd.conf.
Text == {"ssid", "old", "new", "macaddr_acl", "0", "1",
         "accept_mac_file", "accept", "deny_mac_file", "deny", "cut"}

Steps == {"idle", "truncate", "store", "files", "macs", "read", "write", "fill", "restart"}

Types ==
    /\ stored = {} \/ \E s \in stored : s \in AclState /\ stored = {s}
    /\ accept \in SUBSET SUBSET Mac /\ deny \in SUBSET SUBSET Mac
    /\ conf \in File(Text) /\ draft \in File(Text)
    /\ bak = {} \/ \E c \in bak : c \in File(Text) /\ bak = {c}
    /\ pc \in [Request -> Steps]
    /\ want \in [Request -> AclState]
    /\ copy \in [Request -> File(Text)]
    /\ hold \in {"none", "read", "backed", "trial"} /\ (hold \in {"backed", "trial"} => bak # {})
    /\ touched \in {"no", "trial", "staging"}
    /\ since \in {"ok", "alone", "unsure", "reverted"}

\* A conf with each key at most once, and at most one of the two lists.
Tidy(c) == Once(c) /\ ~(Has(c, "accept_mac_file") /\ Has(c, "deny_mac_file"))

\* Until two writes cross, whatever may become the conf is tidy: the .bak, what
\* requests hold, the draft.
AllTidy ==
    /\ Tidy(conf) /\ Tidy(draft)
    /\ \A c \in bak : Tidy(c)
    /\ \A r \in Request : Tidy(copy[r])
ConfsTidy == ~crossed => AllTidy

\* A conf that names the mode but once, if at all.
OneMode(c) == Len(GetAll(c, "macaddr_acl")) <= 1

\* Such a conf has hostapd let in whom a list lets in, but for the SSID.
RightFor(c, acc, den, acl) == OneMode(c) =>
    /\ Has(c, "accept_mac_file") => acc # {}
    /\ Has(c, "deny_mac_file") => den # {}
    /\ Intended(acl) =
           Named(c, "accept_mac_file", acc)
               \cup IF ~Has(c, "macaddr_acl") \/ Last(c, "macaddr_acl") = "0"
                    THEN Mac \ Named(c, "deny_mac_file", den) ELSE {}

AcceptOf(acl) == IF acl.mode = "whitelist" THEN {acl.macs} ELSE {}
DenyOf(acl) == IF acl.mode = "blacklist" THEN {acl.macs} ELSE {}

Busy(r) == pc[r] # "idle" /\ \A q \in Request : q # r => pc[q] = "idle"

\* Who runs: nobody when the list is in force, one request when one runs alone;
\* nobody has run in a hold that is not touched.
Discipline ==
    /\ since \in {"ok", "reverted"} => Idle
    /\ since = "alone" =>
           /\ hold \in {"none", "trial"} /\ (hold = "trial" => touched # "no")
           /\ \E r \in Request : Busy(r)
    /\ hold # "none" /\ touched = "no" => Idle
    /\ since = "ok" /\ hold \in {"read", "backed"} => touched = "no"

\* When the last request ran alone and succeeded, every conf that a Wi-Fi edit,
\* its rollback or a restart may put in force is right for the saved list.
InForce ==
    since = "ok" =>
        /\ RightFor(conf, accept, deny, Load)
        /\ Sound(conf) => loaded = {Intended(Load)}
        /\ hold \in {"read", "backed"} => RightFor(draft, accept, deny, Load)
        /\ hold \in {"backed", "trial"} /\ touched = "no" => \A c \in bak : RightFor(c, accept, deny, Load)

\* How far a request that runs alone has come.
Progress ==
    since = "alone" => \A r \in Request :
        /\ pc[r] = "store" => stored = {}
        /\ pc[r] \in {"files", "macs", "read", "write", "fill", "restart"} => stored = {want[r]}
        /\ pc[r] = "macs" => /\ want[r].mode = "whitelist" => accept = {{}}
                             /\ want[r].mode = "blacklist" => deny = {{}}
        /\ pc[r] \in {"read", "write", "fill", "restart"} =>
               accept = AcceptOf(want[r]) /\ deny = DenyOf(want[r])
        /\ pc[r] \in {"write", "fill"} => RightFor(copy[r], accept, deny, want[r])
        /\ pc[r] = "write" => Others(copy[r]) = Others(conf)
        /\ pc[r] = "fill" => conf = <<>>
        /\ pc[r] = "restart" => RightFor(conf, accept, deny, want[r])

Safe == Types /\ ConfsTidy /\ Discipline /\ InForce /\ Progress

-----------------------------------------------------------------------------
\* What an edit of the list makes of a conf.
LEMMA Texts ==
    /\ "ssid" \in Text /\ "old" \in Text /\ "new" \in Text
    /\ "macaddr_acl" \in Text /\ "0" \in Text /\ "1" \in Text
    /\ "accept_mac_file" \in Text /\ "accept" \in Text
    /\ "deny_mac_file" \in Text /\ "deny" \in Text /\ "cut" \in Text
  BY DEF Text

LEMMA EditedKeys ==
    ASSUME NEW c \in File(Text), NEW mode \in Modes
    PROVE  /\ Edited(c, mode) \in File(Text)
           /\ Once(c) => Tidy(Edited(c, mode))
           /\ Has(Edited(c, mode), "macaddr_acl")
           /\ Has(Edited(c, mode), "accept_mac_file") <=> mode = "whitelist"
           /\ Has(Edited(c, mode), "deny_mac_file") <=> mode = "blacklist"
<1> DEFINE m == SetLine(c, "macaddr_acl", IF mode = "whitelist" THEN "1" ELSE "0")
           a == IF mode = "whitelist" THEN SetLine(m, "accept_mac_file", "accept")
                ELSE RemoveKey(m, "accept_mac_file")
           d == IF mode = "blacklist" THEN SetLine(a, "deny_mac_file", "deny")
                ELSE RemoveKey(a, "deny_mac_file")
<1>1. (IF mode = "whitelist" THEN "1" ELSE "0") \in Text
  BY Texts
<1>2. m \in File(Text) /\ Has(m, "macaddr_acl") /\ (Once(c) => Once(m))
  BY <1>1, Texts, SetLineKeys
<1> HIDE DEF m
<1>3. /\ a \in File(Text) /\ Has(a, "macaddr_acl") /\ (Once(c) => Once(a))
      /\ Has(a, "accept_mac_file") <=> mode = "whitelist"
  <2>1. CASE mode = "whitelist"
    BY <1>2, <2>1, Texts, SetLineKeys
  <2>2. CASE mode # "whitelist"
    BY <1>2, <2>2, RemoveKeyKeys
  <2>3. QED
    BY <2>1, <2>2
<1> HIDE DEF a
<1>4. /\ d \in File(Text) /\ Has(d, "macaddr_acl") /\ (Once(c) => Once(d))
      /\ Has(d, "accept_mac_file") <=> mode = "whitelist"
      /\ Has(d, "deny_mac_file") <=> mode = "blacklist"
  <2>1. CASE mode = "blacklist"
    <3>1. d = SetLine(a, "deny_mac_file", "deny")
      BY <2>1
    <3>2. /\ SetLine(a, "deny_mac_file", "deny") \in File(Text)
          /\ \A j : Has(SetLine(a, "deny_mac_file", "deny"), j) <=> j = "deny_mac_file" \/ Has(a, j)
          /\ Once(a) => Once(SetLine(a, "deny_mac_file", "deny"))
      BY <1>3, Texts, SetLineKeys
    <3>3. QED
      BY <1>3, <2>1, <3>1, <3>2
  <2>2. CASE mode # "blacklist"
    BY <1>3, <2>2, RemoveKeyKeys
  <2>3. QED
    BY <2>1, <2>2
<1>5. d = Edited(c, mode)
  BY DEF Edited, m, a
<1> HIDE DEF d
<1>6. QED
  BY <1>4, <1>5 DEF Tidy

\* A filter that lets none of the list's lines through sees no edit of the list.
LEMMA EditedElsewhere ==
    ASSUME NEW c \in File(Text), NEW mode \in Modes, NEW L \in SUBSET Pair(Text),
           \A l \in L : l.key \notin {"accept_mac_file", "deny_mac_file"}
    PROVE  LinesIn(Edited(c, mode), L) =
               LinesIn(SetLine(c, "macaddr_acl", IF mode = "whitelist" THEN "1" ELSE "0"), L)
<1> DEFINE m == SetLine(c, "macaddr_acl", IF mode = "whitelist" THEN "1" ELSE "0")
           a == IF mode = "whitelist" THEN SetLine(m, "accept_mac_file", "accept")
                ELSE RemoveKey(m, "accept_mac_file")
           d == IF mode = "blacklist" THEN SetLine(a, "deny_mac_file", "deny")
                ELSE RemoveKey(a, "deny_mac_file")
<1>1. \A l \in L : l.key # "accept_mac_file" /\ l.key # "deny_mac_file"
  OBVIOUS
<1>2. m \in File(Text)
  <2>1. (IF mode = "whitelist" THEN "1" ELSE "0") \in Text
    BY Texts
  <2>2. QED
    BY <2>1, Texts, SetLineKeys
<1> HIDE DEF m
<1>3. a \in File(Text) /\ LinesIn(a, L) = LinesIn(m, L)
  <2>1. CASE mode = "whitelist"
    <3>1. SetLine(m, "accept_mac_file", "accept") \in File(Text)
      BY <1>2, Texts, SetLineKeys
    <3>2. LinesIn(SetLine(m, "accept_mac_file", "accept"), L) = LinesIn(m, L)
      BY <1>1, <1>2, Texts, SetLineElsewhere
    <3>3. QED
      BY <2>1, <3>1, <3>2
  <2>2. CASE mode # "whitelist"
    BY <1>1, <1>2, <2>2, RemoveKeyKeys, RemoveKeyElsewhere
  <2>3. QED
    BY <2>1, <2>2
<1> HIDE DEF a
<1>4. LinesIn(d, L) = LinesIn(a, L)
  <2>1. CASE mode = "blacklist"
    BY <1>1, <1>3, <2>1, Texts, SetLineElsewhere
  <2>2. CASE mode # "blacklist"
    BY <1>1, <1>3, <2>2, RemoveKeyElsewhere
  <2>3. QED
    BY <2>1, <2>2
<1>5. d = Edited(c, mode)
  BY DEF Edited, m, a
<1> HIDE DEF d
<1>6. QED
  BY <1>3, <1>4, <1>5 DEF m

OtherPairs == {l \in Pair(Text) : l.key \notin AclKeys}

LEMMA OthersIsFilter == ASSUME NEW c \in File(Text) PROVE Others(c) = LinesIn(c, OtherPairs)
<1>1. {i \in DOMAIN c : c[i].key \notin AclKeys} = {i \in DOMAIN c : c[i] \in OtherPairs}
  BY LineAt DEF OtherPairs
<1>2. QED
  BY <1>1 DEF Others, LinesIn

LEMMA EditedKeepsOthers ==
    ASSUME NEW c \in File(Text), NEW mode \in Modes
    PROVE  Others(Edited(c, mode)) = Others(c)
<1> DEFINE v == IF mode = "whitelist" THEN "1" ELSE "0"
<1>1. \A l \in OtherPairs : l.key \notin {"accept_mac_file", "deny_mac_file"} /\ l.key # "macaddr_acl"
  BY DEF OtherPairs, AclKeys
<1>2. OtherPairs \in SUBSET Pair(Text)
  BY DEF OtherPairs
<1>3. LinesIn(Edited(c, mode), OtherPairs) = LinesIn(SetLine(c, "macaddr_acl", v), OtherPairs)
  BY <1>1, <1>2, EditedElsewhere
<1>4. LinesIn(SetLine(c, "macaddr_acl", v), OtherPairs) = LinesIn(c, OtherPairs)
  <2>1. "macaddr_acl" \in Text /\ v \in Text
    BY Texts
  <2> HIDE DEF v
  <2>2. QED
    BY <1>1, <2>1, SetLineElsewhere
<1>5. QED
  BY <1>3, <1>4, EditedKeys, OthersIsFilter

-----------------------------------------------------------------------------
\* The last line of a key is one of its lines.
LEMMA LastIsLine ==
    ASSUME NEW c \in File(Text), NEW k, Has(c, k)
    PROVE  \E i \in DOMAIN c : c[i].key = k /\ Last(c, k) = c[i].value
<1> DEFINE ls == LinesIn(c, OfKey(Text, k))
<1>1. PICK at \in [DOMAIN ls -> DOMAIN c] :
          /\ \A i \in DOMAIN ls : ls[i] = c[at[i]] /\ c[at[i]] \in OfKey(Text, k)
          /\ \A n \in DOMAIN c : c[n] \in OfKey(Text, k) => \E i \in DOMAIN ls : at[i] = n
  BY LinesInPlaces DEF File
<1>2. ls \in File(Text) /\ DOMAIN ls = 1..Len(ls) /\ Len(ls) \in Nat
  BY LinesInKeys, LenProperties DEF File
<1>3. \E n \in DOMAIN c : c[n] \in OfKey(Text, k)
  BY LineAt DEF Has, OfKey
<1>4. Last(c, k) = ls[Len(ls)].value
  BY GetAllIsFilter DEF Last
<1> HIDE DEF ls
<1>5. Len(ls) \in DOMAIN ls
  BY <1>1, <1>2, <1>3
<1>6. at[Len(ls)] \in DOMAIN c /\ c[at[Len(ls)]].key = k /\ ls[Len(ls)] = c[at[Len(ls)]]
  BY <1>1, <1>5 DEF OfKey
<1>7. QED
  BY <1>4, <1>6

LEMMA LastOfSetLine ==
    ASSUME NEW c \in File(Text), NEW k \in Text, NEW v \in Text, Len(GetAll(SetLine(c, k, v), k)) <= 1
    PROVE  Last(SetLine(c, k, v), k) = v
<1> DEFINE d == SetLine(c, k, v)
           l == Line(k, v)
           ls == LinesIn(d, OfKey(Text, k))
<1>1. l \in Pair(Text) /\ l.key = k /\ l.value = v
  BY LineIsPair
<1>2. d \in File(Text) /\ Has(d, k)
  BY SetLineKeys
<1>3. \E n \in DOMAIN d : d[n].key = k /\ d[n].value = v
  <2>1. CASE ~Has(c, k) /\ d = Append(c, l)
    <3> HIDE DEF l
    <3>1. DOMAIN Append(c, l) = 1..Len(c) + 1 /\ Len(c) \in Nat /\ Append(c, l)[Len(c) + 1] = l
      BY <1>1, AppendLine
    <3>2. QED
      BY <1>1, <2>1, <3>1
  <2>2. ASSUME NEW i \in DOMAIN c, c[i].key = k, d = [c EXCEPT ![i] = l]
        PROVE  \E n \in DOMAIN d : d[n].key = k /\ d[n].value = v
    <3> HIDE DEF l
    <3>1. DOMAIN d = DOMAIN c /\ \A j \in DOMAIN c : d[j] = IF j = i THEN l ELSE c[j]
      BY <1>1, <2>2, PutInPlace
    <3> HIDE DEF d
    <3>2. QED
      BY <1>1, <2>2, <3>1
  <2>3. QED
    BY <2>1, <2>2, SetLineCases
<1> HIDE DEF d
<1>4. PICK n \in DOMAIN d : d[n].key = k /\ d[n].value = v
  BY <1>3
<1>5. PICK at \in [DOMAIN ls -> DOMAIN d] :
          /\ \A i \in DOMAIN ls : ls[i] = d[at[i]] /\ d[at[i]] \in OfKey(Text, k)
          /\ \A m \in DOMAIN d : d[m] \in OfKey(Text, k) => \E i \in DOMAIN ls : at[i] = m
  BY <1>2, LinesInPlaces DEF File
<1>6. ls \in File(Text) /\ DOMAIN ls = 1..Len(ls) /\ Len(ls) \in Nat
  BY <1>2, LinesInKeys, LenProperties DEF File
<1>7. GetAll(d, k) = ls
  BY <1>2, GetAllIsFilter
<1>8. Len(ls) <= 1
  BY <1>7 DEF d
<1> HIDE DEF ls
<1>9. d[n] \in OfKey(Text, k)
  BY <1>2, <1>4, LineAt DEF OfKey
<1>10. PICK i \in DOMAIN ls : at[i] = n
  BY <1>5, <1>9
<1>11. i = Len(ls)
  BY <1>6, <1>8, <1>10
<1>12. ls[Len(ls)] = d[n]
  BY <1>5, <1>10, <1>11
<1>13. Last(d, k) = v
  BY <1>4, <1>7, <1>12 DEF Last
<1>14. QED
  BY <1>13 DEF d

LEMMA LastElsewhere ==
    ASSUME NEW c \in File(Text), NEW d \in File(Text), NEW k, LinesIn(c, OfKey(Text, k)) = LinesIn(d, OfKey(Text, k))
    PROVE  Last(c, k) = Last(d, k) /\ GetAll(c, k) = GetAll(d, k)
  BY GetAllIsFilter DEF Last

-----------------------------------------------------------------------------
\* A conf edited for a list has hostapd let in whom the list lets in.
LEMMA EditedIsRight ==
    ASSUME NEW c \in File(Text), NEW acl \in AclState
    PROVE  RightFor(Edited(c, acl.mode), AcceptOf(acl), DenyOf(acl), acl)
<1> DEFINE v == IF acl.mode = "whitelist" THEN "1" ELSE "0"
           d == Edited(c, acl.mode)
<1>1. acl.mode \in Modes /\ acl.macs \in SUBSET Mac
  BY DEF AclState
<1>2. /\ d \in File(Text) /\ Has(d, "macaddr_acl")
      /\ Has(d, "accept_mac_file") <=> acl.mode = "whitelist"
      /\ Has(d, "deny_mac_file") <=> acl.mode = "blacklist"
  BY <1>1, EditedKeys
<1>3. OneMode(d) => Last(d, "macaddr_acl") = v
  <2> SUFFICES ASSUME OneMode(d) PROVE Last(d, "macaddr_acl") = v
    OBVIOUS
  <2>1. "macaddr_acl" \in Text /\ v \in Text
    BY Texts
  <2>2. SetLine(c, "macaddr_acl", v) \in File(Text)
    <3> HIDE DEF v
    <3>1. QED
      BY <2>1, SetLineKeys
  <2>3. LinesIn(d, OfKey(Text, "macaddr_acl")) = LinesIn(SetLine(c, "macaddr_acl", v), OfKey(Text, "macaddr_acl"))
    <3>1. OfKey(Text, "macaddr_acl") \in SUBSET Pair(Text)
          /\ \A l \in OfKey(Text, "macaddr_acl") : l.key \notin {"accept_mac_file", "deny_mac_file"}
      BY DEF OfKey
    <3>2. QED
      BY <1>1, <3>1, EditedElsewhere
  <2> HIDE DEF v, d
  <2>4. GetAll(SetLine(c, "macaddr_acl", v), "macaddr_acl") = GetAll(d, "macaddr_acl")
        /\ Last(d, "macaddr_acl") = Last(SetLine(c, "macaddr_acl", v), "macaddr_acl")
    BY <1>2, <2>2, <2>3, LastElsewhere
  <2>5. Len(GetAll(SetLine(c, "macaddr_acl", v), "macaddr_acl")) <= 1
    BY <2>4 DEF OneMode
  <2>6. Last(SetLine(c, "macaddr_acl", v), "macaddr_acl") = v
    BY <2>1, <2>5, LastOfSetLine
  <2>7. QED
    BY <2>4, <2>6
<1> HIDE DEF d
<1>4. ASSUME acl.mode = "disabled" PROVE RightFor(d, AcceptOf(acl), DenyOf(acl), acl)
  BY <1>1, <1>2, <1>3, <1>4 DEF RightFor, AcceptOf, DenyOf, Intended, Named
<1>5. ASSUME acl.mode = "whitelist" PROVE RightFor(d, AcceptOf(acl), DenyOf(acl), acl)
  BY <1>1, <1>2, <1>3, <1>5 DEF RightFor, AcceptOf, DenyOf, Intended, Named
<1>6. ASSUME acl.mode = "blacklist" PROVE RightFor(d, AcceptOf(acl), DenyOf(acl), acl)
  BY <1>1, <1>2, <1>3, <1>6 DEF RightFor, AcceptOf, DenyOf, Intended, Named
<1>7. RightFor(d, AcceptOf(acl), DenyOf(acl), acl)
  BY <1>1, <1>4, <1>5, <1>6 DEF Modes
<1>8. QED
  BY <1>7 DEF d

\* Another SSID changes nothing of it.
LEMMA SsidKeepsRight ==
    ASSUME NEW c \in File(Text), NEW acc, NEW den, NEW acl, RightFor(c, acc, den, acl)
    PROVE  /\ SetLine(c, "ssid", "new") \in File(Text)
           /\ Tidy(c) => Tidy(SetLine(c, "ssid", "new"))
           /\ RightFor(SetLine(c, "ssid", "new"), acc, den, acl)
<1> DEFINE d == SetLine(c, "ssid", "new")
<1>1. d \in File(Text) /\ (Once(c) => Once(d)) /\ \A j : Has(d, j) <=> j = "ssid" \/ Has(c, j)
  BY Texts, SetLineKeys
<1>2. LinesIn(d, OfKey(Text, "macaddr_acl")) = LinesIn(c, OfKey(Text, "macaddr_acl"))
  <2>1. \A l \in OfKey(Text, "macaddr_acl") : l.key # "ssid"
    BY DEF OfKey
  <2>2. QED
    BY <2>1, Texts, SetLineElsewhere
<1> HIDE DEF d
<1>3. Last(d, "macaddr_acl") = Last(c, "macaddr_acl") /\ (OneMode(d) => OneMode(c))
  BY <1>1, <1>2, LastElsewhere DEF OneMode
<1>4. /\ Has(d, "macaddr_acl") <=> Has(c, "macaddr_acl")
      /\ Has(d, "accept_mac_file") <=> Has(c, "accept_mac_file")
      /\ Has(d, "deny_mac_file") <=> Has(c, "deny_mac_file")
  BY <1>1
<1>5. Named(d, "accept_mac_file", acc) = Named(c, "accept_mac_file", acc)
      /\ Named(d, "deny_mac_file", den) = Named(c, "deny_mac_file", den)
  BY <1>4 DEF Named
<1>6. RightFor(d, acc, den, acl)
  BY <1>3, <1>4, <1>5 DEF RightFor
<1>7. Tidy(c) => Tidy(d)
  BY <1>1, <1>4 DEF Tidy
<1>8. QED
  BY <1>1, <1>6, <1>7 DEF d

\* hostapd started on a conf that is right lets in whom the list lets in.
LEMMA StartedOnRight ==
    ASSUME NEW c \in File(Text), NEW acc, NEW den, NEW acl, RightFor(c, acc, den, acl), Sound(c)
    PROVE  Started(c, acc, den) = {Intended(acl)}
<1>1. OneMode(c)
  <2> DEFINE ls == LinesIn(c, OfKey(Text, "macaddr_acl"))
  <2>1. GetAll(c, "macaddr_acl") = ls
    BY GetAllIsFilter
  <2>2. c \in Seq(Pair(Text))
    BY DEF File
  <2>3. ls \in Seq(Pair(Text))
    BY <2>2, LinesInType
  <2>4. PICK at \in [DOMAIN ls -> DOMAIN c] :
            /\ \A i \in DOMAIN ls : ls[i] = c[at[i]] /\ c[at[i]] \in OfKey(Text, "macaddr_acl")
            /\ \A i, j \in DOMAIN ls : at[i] = at[j] => i = j
    BY <2>2, LinesInPlaces
  <2> HIDE DEF ls
  <2>5. \A i \in DOMAIN ls : c[at[i]].key = "macaddr_acl" /\ at[i] \in DOMAIN c
    BY <2>4 DEF OfKey
  <2>6. \A i, j \in DOMAIN ls : i = j
    BY <2>4, <2>5 DEF Sound
  <2>7. Len(ls) \in Nat /\ DOMAIN ls = 1..Len(ls)
    BY <2>3
  <2>8. Len(ls) <= 1
    <3>1. SUFFICES ASSUME Len(ls) > 1 PROVE FALSE
      BY <2>7
    <3>2. 1 \in DOMAIN ls /\ 2 \in DOMAIN ls
      BY <2>7, <3>1
    <3>3. QED
      BY <2>6, <3>2
  <2>9. QED
    BY <2>1, <2>8 DEF OneMode
<1>2. QED
  BY <1>1 DEF RightFor, Started, Sound

-----------------------------------------------------------------------------
\* What is loaded is a list, the stored one if there is one.
LEMMA LoadIsList == Types => Load \in AclState
  BY DEF Types, Load, Default, AclState, Modes

LEMMA LoadIsStored == ASSUME NEW w, stored = {w} PROVE Load = w
  BY DEF Load

\* Every request of the list begins with one.
LEMMA BeginsWithList ==
    ASSUME Types, NEW r \in Request, Post(r) \/ Block(r) \/ Unblock(r)
    PROVE  \E acl \in AclState, blocked \in SUBSET Mac : Begin(r, acl, blocked)
<1>1. Load \in AclState
  BY LoadIsList
<1>2. CASE Post(r)
  <2>1. PICK mode \in Modes, macs \in Lists : Begin(r, [mode |-> mode, macs |-> macs], {})
    BY <1>2 DEF Post
  <2>2. [mode |-> mode, macs |-> macs] \in AclState
    BY ListsAssumption DEF AclState
  <2>3. QED
    BY <2>1, <2>2
<1>3. CASE Block(r)
  <2> DEFINE mode == IF Load.mode = "disabled" THEN "blacklist" ELSE Load.mode
  <2>1. PICK m \in Mac : Begin(r, [mode |-> mode, macs |-> Load.macs \cup {m}], {m})
    BY <1>3 DEF Block
  <2>2. [mode |-> mode, macs |-> Load.macs \cup {m}] \in AclState
    BY <1>1 DEF AclState, Modes
  <2>3. QED
    BY <2>1, <2>2
<1>4. CASE Unblock(r)
  <2>1. PICK m \in Mac : Begin(r, [mode |-> Load.mode, macs |-> Load.macs \ {m}], {})
    BY <1>4 DEF Unblock
  <2>2. [mode |-> Load.mode, macs |-> Load.macs \ {m}] \in AclState
    BY <1>1 DEF AclState
  <2>3. QED
    BY <2>1, <2>2
<1>5. QED
  BY <1>2, <1>3, <1>4

LEMMA FirstConf ==
    /\ <<>> \in File(Text) /\ Tidy(<<>>)
    /\ <<Line("ssid", "old")>> \in File(Text) /\ Tidy(<<Line("ssid", "old")>>)
    /\ \A k \in AclKeys : ~Has(<<Line("ssid", "old")>>, k)
<1> DEFINE l == Line("ssid", "old")
<1>1. l \in Pair(Text) /\ l.key = "ssid"
  BY Texts, LineIsPair
<1> HIDE DEF l
<1>2. <<>> \in File(Text)
  BY EmptySeq DEF File
<1>3. <<l>> \in File(Text) /\ DOMAIN <<l>> = {1} /\ <<l>>[1] = l
  BY <1>1 DEF File
<1>4. Tidy(<<>>)
  BY DEF Tidy, Once, Has
<1>5. \A k : Has(<<l>>, k) => k = "ssid"
  BY <1>1, <1>3 DEF Has
<1>6. Once(<<l>>)
  BY <1>3 DEF Once
<1>7. Tidy(<<l>>) /\ \A k \in AclKeys : ~Has(<<l>>, k)
  BY <1>5, <1>6 DEF Tidy, AclKeys
<1>8. QED
  BY <1>2, <1>3, <1>4, <1>7 DEF l

-----------------------------------------------------------------------------
LEMMA TypesInit == Init => Types
<1> SUFFICES ASSUME Init PROVE Types
  OBVIOUS
<1>1. conf \in File(Text) /\ draft \in File(Text)
  BY FirstConf DEF Init
<1>2. copy \in [Request -> File(Text)]
  BY FirstConf DEF Init
<1>3. Default \in AclState
  BY DEF Default, AclState, Modes
<1>4. want \in [Request -> AclState]
  BY <1>3 DEF Init
<1>5. pc \in [Request -> Steps]
  BY DEF Init, Steps
<1>6. /\ stored = {} /\ accept = {} /\ deny = {} /\ bak = {} /\ hold = "none"
      /\ touched = "no" /\ since = "ok"
  BY DEF Init
<1>7. QED
  BY <1>1, <1>2, <1>4, <1>5, <1>6 DEF Types

LEMMA TypesStep == Types /\ [Next]_vars => Types'
<1> SUFFICES ASSUME Types, [Next]_vars PROVE Types'
  OBVIOUS
<1> USE DEF Types
<1>1. CASE UNCHANGED vars
  BY <1>1 DEF vars, files, request, wifi, history
<1>2. ASSUME NEW r \in Request, Post(r) \/ Block(r) \/ Unblock(r) PROVE Types'
  <2>1. PICK acl \in AclState, blocked \in SUBSET Mac : Begin(r, acl, blocked)
    BY <1>2, BeginsWithList
  <2>2. UNCHANGED <<stored, accept, deny, conf, copy, bak, hold, draft>>
    BY <2>1 DEF Begin, files, wifi
  <2>3. pc' \in [Request -> Steps] /\ want' \in [Request -> AclState]
    BY <2>1 DEF Begin, Steps
  <2>4. touched' \in {"no", "trial", "staging"} /\ since' \in {"ok", "alone", "unsure", "reverted"}
    BY <2>1 DEF Begin
  <2>5. QED
    BY <2>2, <2>3, <2>4
<1>3. ASSUME NEW r \in Request, Truncate(r) \/ Store(r) \/ TruncateFile(r) \/ WriteFiles(r) PROVE Types'
  <2>1. UNCHANGED <<conf, draft, bak, want, copy, hold, touched, since>>
    BY <1>3 DEF Truncate, Store, TruncateFile, WriteFiles, wifi, history
  <2>2. pc' \in [Request -> Steps]
    BY <1>3 DEF Truncate, Store, TruncateFile, WriteFiles, At, Steps
  <2>3. want[r] \in AclState /\ want[r].macs \in SUBSET Mac
    BY DEF AclState
  <2>4. stored' = {} \/ \E s \in stored' : s \in AclState /\ stored' = {s}
    BY <1>3, <2>3 DEF Truncate, Store, TruncateFile, WriteFiles
  <2>5. ASSUME NEW file \in SUBSET SUBSET Mac, NEW new \in Filled(file, want[r].macs)
        PROVE  new \in SUBSET SUBSET Mac
    <3>1. UNION file \in SUBSET Mac
      OBVIOUS
    <3>2. CASE file = {}
      BY <2>5, <3>2 DEF Filled
    <3>3. CASE file # {}
      <4>1. PICK tail \in SUBSET UNION file : new = {want[r].macs \cup tail}
        BY <2>5, <3>3 DEF Filled
      <4>2. want[r].macs \cup tail \in SUBSET Mac
        BY <2>3, <3>1
      <4>3. QED
        BY <4>1, <4>2
    <3>4. QED
      BY <3>2, <3>3
  <2>6. accept' \in SUBSET SUBSET Mac /\ deny' \in SUBSET SUBSET Mac
    <3>1. CASE WriteFiles(r)
      <4>1. accept' = {} \/ accept' \in Filled(accept, want[r].macs)
        BY <3>1 DEF WriteFiles
      <4>2. deny' = {} \/ deny' \in Filled(deny, want[r].macs)
        BY <3>1 DEF WriteFiles
      <4>3. QED
        BY <2>5, <4>1, <4>2
    <3>2. CASE TruncateFile(r)
      BY <3>2 DEF TruncateFile
    <3>3. QED
      BY <1>3, <3>1, <3>2 DEF Truncate, Store
  <2>7. QED
    BY <2>1, <2>2, <2>4, <2>6
<1>4. ASSUME NEW r \in Request, ReadConf(r) PROVE Types'
  <2>1. want[r].mode \in Modes
    BY DEF AclState
  <2>2. Edited(conf, want[r].mode) \in File(Text)
    BY <2>1, EditedKeys
  <2>3. UNCHANGED <<stored, accept, deny, conf, draft, bak, want, hold, touched, since>>
    BY <1>4 DEF ReadConf, files, wifi, history
  <2>4. pc' \in [Request -> Steps] /\ copy' \in [Request -> File(Text)]
    BY <1>4, <2>2 DEF ReadConf, At, Steps
  <2>5. QED
    BY <2>3, <2>4
<1>5. ASSUME NEW r \in Request, TruncateConf(r) \/ WriteConf(r) PROVE Types'
  <2>1. UNCHANGED <<stored, accept, deny, draft, bak, want, hold, touched, since>>
    BY <1>5 DEF TruncateConf, WriteConf, files, wifi, history
  <2>2. pc' \in [Request -> Steps]
    BY <1>5 DEF TruncateConf, WriteConf, At, Steps
  <2>3. copy' \in [Request -> File(Text)]
    BY <1>5, FirstConf DEF TruncateConf, WriteConf
  <2>5. conf' \in File(Text)
    <3>1. CASE TruncateConf(r)
      BY <3>1, FirstConf DEF TruncateConf
    <3>2. CASE WriteConf(r)
      BY <3>2, Texts, OverIsFile DEF WriteConf
    <3>3. QED
      BY <1>5, <3>1, <3>2
  <2>4. QED
    BY <2>1, <2>2, <2>3, <2>5
<1>6. ASSUME NEW r \in Request, Restart(r) \/ Fail(r) PROVE Types'
  <2>1. UNCHANGED <<stored, accept, deny, conf, draft, bak, hold, touched>>
    BY <1>6 DEF Restart, Fail, files, wifi
  <2>2. pc' \in [Request -> Steps]
    BY <1>6 DEF Restart, Fail, At, Steps
  <2>3. want' \in [Request -> AclState]
    BY <1>6 DEF Restart, Fail, Default, AclState, Modes
  <2>4. copy' \in [Request -> File(Text)] /\ since' \in {"ok", "alone", "unsure", "reverted"}
    BY <1>6, FirstConf DEF Restart, Fail
  <2>5. QED
    BY <2>1, <2>2, <2>3, <2>4
<1>7. CASE RestartService
  BY <1>7 DEF RestartService, files, request, wifi, history
<1>8. CASE StageRead
  <2>1. SetLine(conf, "ssid", "new") \in File(Text)
    BY Texts, SetLineKeys
  <2>2. QED
    BY <1>8, <2>1 DEF StageRead, files, request
<1>9. CASE StageBackup
  BY <1>9 DEF StageBackup, files, request, history
<1>10. CASE StageWrite
  <2>1. UNCHANGED <<stored, accept, deny, pc, want, copy, bak, touched, since>>
    BY <1>10 DEF StageWrite, files, request, history
  <2>2. conf' \in File(Text) /\ draft' \in File(Text)
    BY <1>10, FirstConf DEF StageWrite
  <2>3. hold' = "trial" /\ bak' # {}
    BY <1>10 DEF StageWrite
  <2>4. QED
    BY <2>1, <2>2, <2>3
<1>11. CASE Confirm
  BY <1>11 DEF Confirm, files, request
<1>12. CASE Revert
  <2>1. UNCHANGED <<stored, accept, deny, pc, want, copy, draft>> /\ hold' = "none" /\ bak' = {}
    BY <1>12 DEF Revert, files, request
  <2>2. \E c \in bak : c \in File(Text) /\ bak = {c}
    BY <1>12 DEF Revert
  <2>3. conf' \in File(Text)
    BY <1>12, <2>2 DEF Revert
  <2>4. touched' \in {"no", "trial", "staging"} /\ since' \in {"ok", "alone", "unsure", "reverted"}
    BY <1>12 DEF Revert
  <2>5. QED
    BY <2>1, <2>3, <2>4
<1>13. QED
  BY <1>1, <1>2, <1>3, <1>4, <1>5, <1>6, <1>7, <1>8, <1>9, <1>10, <1>11, <1>12 DEF Next, Serve

LEMMA TidyInit == Init => ConfsTidy
  BY FirstConf DEF Init, ConfsTidy, AllTidy

LEMMA TidyStep == Types /\ ConfsTidy /\ [Next]_vars => ConfsTidy'
<1> SUFFICES ASSUME Types, ConfsTidy, [Next]_vars, ~crossed' PROVE AllTidy'
  BY DEF ConfsTidy
<1>0. ~crossed /\ AllTidy
  <2>1. crossed => crossed'
    <3>1. ASSUME NEW r \in Request, Post(r) \/ Block(r) \/ Unblock(r) PROVE crossed' = crossed
      BY <3>1, BeginsWithList DEF Begin
    <3>2. QED
      BY <3>1 DEF Next, Serve, Truncate, Store, TruncateFile, WriteFiles, ReadConf, TruncateConf,
                  WriteConf, Restart, Fail, RestartService, StageRead, StageBackup, StageWrite,
                  Confirm, Revert, vars, history
  <2>2. QED
    BY <2>1 DEF ConfsTidy
<1> USE <1>0 DEF AllTidy
<1>1. CASE UNCHANGED <<conf, draft, bak, copy>>
  BY <1>1
<1>2. ASSUME NEW r \in Request, ReadConf(r) PROVE AllTidy'
  <2>1. want[r].mode \in Modes /\ conf \in File(Text)
    BY DEF Types, AclState
  <2>2. Tidy(Edited(conf, want[r].mode))
    BY <2>1, EditedKeys DEF Tidy
  <2>3. UNCHANGED <<conf, draft, bak>>
    BY <1>2 DEF ReadConf, wifi
  <2>4. \A q \in Request : copy'[q] = IF q = r THEN Edited(conf, want[r].mode) ELSE copy[q]
    BY <1>2 DEF ReadConf, Types
  <2>5. QED
    BY <2>2, <2>3, <2>4
<1>3. ASSUME NEW r \in Request, TruncateConf(r) \/ WriteConf(r) \/ Fail(r) PROVE AllTidy'
  <2>1. UNCHANGED <<draft, bak>>
    BY <1>3 DEF TruncateConf, WriteConf, Fail, wifi
  <2>2. Tidy(conf')
    <3>1. CASE WriteConf(r)
      <4>1. conf = <<>> /\ conf' \in Over(conf, copy[r])
        BY <3>1 DEF WriteConf
      <4>2. QED
        BY <4>1, OverEmpty
    <3>2. QED
      BY <1>3, <3>1, FirstConf DEF TruncateConf, Fail
  <2>3. \A q \in Request : copy'[q] = copy[q] \/ copy'[q] = <<>>
    BY <1>3 DEF TruncateConf, WriteConf, Fail, Types
  <2>4. QED
    BY <2>1, <2>2, <2>3, FirstConf
<1>4. CASE StageRead
  <2>1. Tidy(SetLine(conf, "ssid", "new"))
    <3>1. conf \in File(Text) /\ Tidy(conf)
      BY DEF Types
    <3>2. /\ \A j : Has(SetLine(conf, "ssid", "new"), j) <=> j = "ssid" \/ Has(conf, j)
          /\ Once(SetLine(conf, "ssid", "new"))
      BY <3>1, Texts, SetLineKeys DEF Tidy
    <3>3. QED
      BY <3>1, <3>2 DEF Tidy
  <2>2. QED
    BY <1>4, <2>1 DEF StageRead, request
<1>5. CASE StageBackup
  BY <1>5 DEF StageBackup, request
<1>6. CASE StageWrite
  BY <1>6, FirstConf DEF StageWrite, request
<1>7. CASE Confirm
  BY <1>7 DEF Confirm, request
<1>8. CASE Revert
  <2>1. \E c \in bak : bak = {c}
    BY <1>8 DEF Revert, Types
  <2>2. conf' \in bak
    BY <1>8, <2>1 DEF Revert
  <2>3. QED
    BY <1>8, <2>2 DEF Revert, request
<1>9. ASSUME NEW r \in Request, Serve(r), ~ReadConf(r), ~TruncateConf(r), ~WriteConf(r), ~Fail(r)
      PROVE  UNCHANGED <<conf, draft, bak, copy>>
  <2>1. CASE Post(r) \/ Block(r) \/ Unblock(r)
    BY <2>1, BeginsWithList DEF Begin, wifi
  <2>2. CASE Truncate(r) \/ Store(r) \/ TruncateFile(r) \/ WriteFiles(r) \/ Restart(r)
    BY <2>2 DEF Truncate, Store, TruncateFile, WriteFiles, Restart, wifi
  <2>3. QED
    BY <1>9, <2>1, <2>2 DEF Serve
<1>10. CASE RestartService \/ UNCHANGED vars
  BY <1>1, <1>10 DEF RestartService, vars, request, wifi
<1>11. ASSUME NEW r \in Request, Serve(r) PROVE AllTidy'
  BY <1>1, <1>2, <1>3, <1>9, <1>11
<1>12. QED
  BY <1>4, <1>5, <1>6, <1>7, <1>8, <1>10, <1>11 DEF Next
-----------------------------------------------------------------------------
LEMMA DisciplineInit == Init => Discipline
  BY DEF Init, Discipline, Idle

LEMMA DisciplineStep == Types /\ Discipline /\ [Next]_vars => Discipline'
<1> SUFFICES ASSUME Types, Discipline, [Next]_vars PROVE Discipline'
  OBVIOUS
<1> USE DEF Discipline
<1>1. CASE UNCHANGED <<pc, hold, touched, since>>
  BY <1>1 DEF Idle, Busy
<1>2. ASSUME NEW r \in Request, Post(r) \/ Block(r) \/ Unblock(r) PROVE Discipline'
  <2>1. PICK acl \in AclState, blocked \in SUBSET Mac : Begin(r, acl, blocked)
    BY <1>2, BeginsWithList
  <2>2. hold' = hold /\ (hold # "none" => touched' # "no")
        /\ since' = IF Idle /\ hold \in {"none", "trial"} THEN "alone" ELSE "unsure"
    BY <2>1 DEF Begin, Quiet, wifi
  <2>3. ASSUME Idle PROVE Busy(r)'
    BY <2>1, <2>3 DEF Begin, Types, Idle, Busy
  <2>4. QED
    BY <2>2, <2>3
<1>3. ASSUME NEW r \in Request, pc[r] # "idle", NEW to \in Steps \ {"idle"}, pc' = [pc EXCEPT ![r] = to],
             UNCHANGED <<hold, touched, since>>
      PROVE  Discipline'
  <2>1. ~Idle
    BY <1>3 DEF Idle
  <2>2. ASSUME NEW q \in Request, Busy(q) PROVE Busy(q)'
    BY <1>3, <2>2 DEF Types, Busy
  <2>3. QED
    BY <1>3, <2>1, <2>2
<1>4. ASSUME NEW r \in Request,
             \/ Truncate(r) \/ Store(r) \/ TruncateFile(r) \/ WriteFiles(r) \/ ReadConf(r)
             \/ TruncateConf(r) \/ WriteConf(r)
      PROVE  Discipline'
  <2>1. UNCHANGED <<hold, touched, since>>
    BY <1>4 DEF Truncate, Store, TruncateFile, WriteFiles, ReadConf, TruncateConf, WriteConf, wifi, history
  <2>2. pc[r] # "idle" /\ \E to \in Steps \ {"idle"} : pc' = [pc EXCEPT ![r] = to]
    BY <1>4 DEF Truncate, Store, TruncateFile, WriteFiles, ReadConf, TruncateConf, WriteConf, At, Steps
  <2>3. QED
    BY <1>3, <2>1, <2>2
<1>5. ASSUME NEW r \in Request, Restart(r) PROVE Discipline'
  <2>1. pc[r] = "restart" /\ pc' = [pc EXCEPT ![r] = "idle"] /\ UNCHANGED <<hold, touched>>
        /\ since' = IF since = "alone" THEN "ok" ELSE since
    BY <1>5 DEF Restart, At, wifi
  <2>2. ~Idle
    BY <2>1 DEF Idle
  <2>3. ASSUME since = "alone" PROVE Idle'
    BY <2>1, <2>3 DEF Types, Idle, Busy
  <2>4. QED
    BY <2>1, <2>2, <2>3 DEF Types
<1>6. ASSUME NEW r \in Request, Fail(r) PROVE Discipline'
  <2>1. pc[r] # "idle" /\ UNCHANGED <<hold, touched>> /\ since' = "unsure"
    BY <1>6 DEF Fail, wifi
  <2>2. ~Idle
    BY <2>1 DEF Idle
  <2>3. QED
    BY <2>1, <2>2
<1>7. CASE RestartService \/ UNCHANGED vars
  BY <1>1, <1>7 DEF RestartService, vars, request, wifi, history
<1>8. CASE StageRead
  <2>1. UNCHANGED pc /\ hold' = "read" /\ touched' = (IF Idle THEN "no" ELSE "staging") /\ since' = IF Idle THEN since ELSE "unsure"
    BY <1>8 DEF StageRead, request
  <2>2. Idle' <=> Idle
    BY <2>1 DEF Idle
  <2>3. since = "alone" => ~Idle
    BY DEF Idle, Busy
  <2>4. CASE Idle
    BY <2>1, <2>2, <2>3, <2>4
  <2>5. CASE ~Idle
    BY <2>1, <2>2, <2>5
  <2>6. QED
    BY <2>4, <2>5
<1>9. CASE StageBackup \/ StageWrite
  <2>1. UNCHANGED <<pc, touched, since>> /\ hold \in {"read", "backed"} /\ hold' \in {"backed", "trial"}
    BY <1>9 DEF StageBackup, StageWrite, request, history
  <2>2. Idle' <=> Idle
    BY <2>1 DEF Idle
  <2>3. QED
    BY <2>1, <2>2
<1>10. CASE Confirm
  <2>1. UNCHANGED <<pc, since>> /\ hold' = "none"
    BY <1>10 DEF Confirm, request
  <2>2. QED
    BY <2>1 DEF Idle, Busy
<1>11. CASE Revert
  <2>1. UNCHANGED pc /\ hold' = "none" /\ hold = "trial"
        /\ since' = IF touched = "no" THEN since
                    ELSE IF since = "ok" /\ touched = "trial" THEN "reverted" ELSE "unsure"
    BY <1>11 DEF Revert, request
  <2>2. (Idle' <=> Idle) /\ \A r \in Request : Busy(r)' <=> Busy(r)
    BY <2>1 DEF Idle, Busy
  <2>3. QED
    BY <2>1, <2>2
<1>12. QED
  BY <1>2, <1>4, <1>5, <1>6, <1>7, <1>8, <1>9, <1>10, <1>11 DEF Next, Serve
-----------------------------------------------------------------------------
LEMMA InForceInit == Init => InForce
<1> SUFFICES ASSUME Init PROVE InForce
  OBVIOUS
<1>1. \A k \in AclKeys : ~Has(conf, k)
  BY FirstConf DEF Init
<1>2. Load = Default /\ accept = {} /\ deny = {} /\ loaded = {Mac} /\ hold = "none"
  BY DEF Init, Load
<1>3. Intended(Load) = Mac
  BY <1>2 DEF Intended, Default
<1>4. RightFor(conf, accept, deny, Load)
  BY <1>1, <1>3 DEF RightFor, Named, AclKeys
<1>5. QED
  BY <1>2, <1>3, <1>4 DEF InForce

LEMMA InForceStep ==
    Types /\ Discipline /\ InForce /\ Progress /\ [Next]_vars => InForce'
<1> SUFFICES ASSUME Types, Discipline, InForce, Progress, [Next]_vars, since' = "ok" PROVE InForce'
  BY DEF InForce
<1>1. CASE UNCHANGED vars
  BY <1>1 DEF InForce, Load, vars, files, wifi, history
<1>2. ASSUME NEW r \in Request, Serve(r), ~Restart(r) PROVE FALSE
  <2>1. CASE Post(r) \/ Block(r) \/ Unblock(r)
    BY <2>1, BeginsWithList DEF Begin
  <2>2. CASE \/ Truncate(r) \/ Store(r) \/ TruncateFile(r) \/ WriteFiles(r) \/ ReadConf(r)
             \/ TruncateConf(r) \/ WriteConf(r)
    <3>1. pc[r] # "idle" /\ since' = since
      BY <2>2 DEF Truncate, Store, TruncateFile, WriteFiles, ReadConf, TruncateConf, WriteConf, At, history
    <3>2. QED
      BY <3>1 DEF Discipline, Idle
  <2>3. CASE Fail(r)
    BY <2>3 DEF Fail
  <2>4. QED
    BY <1>2, <2>1, <2>2, <2>3 DEF Serve
<1>3. ASSUME NEW r \in Request, Restart(r) PROVE InForce'
  <2>1. pc[r] = "restart" /\ UNCHANGED <<stored, accept, deny, conf, bak, hold, draft, touched>>
        /\ loaded' = Started(conf, accept, deny) /\ (since = "alone" \/ since = "ok")
    BY <1>3 DEF Restart, At, files, wifi
  <2>2. since = "alone"
    BY <2>1 DEF Discipline, Idle
  <2>3. stored = {want[r]} /\ RightFor(conf, accept, deny, want[r])
    BY <2>1, <2>2 DEF Progress
  <2>4. Load' = want[r]
    BY <2>1, <2>3, LoadIsStored DEF Load
  <2>5. Sound(conf) => loaded' = {Intended(want[r])}
    <3>1. conf \in File(Text)
      BY DEF Types
    <3>2. QED
      BY <3>1, <2>1, <2>3, StartedOnRight
  <2>6. hold \in {"none", "trial"} /\ (hold = "trial" => touched # "no")
    BY <2>2 DEF Discipline
  <2>7. QED
    BY <2>1, <2>3, <2>4, <2>5, <2>6 DEF InForce
<1>4. CASE RestartService
  <2>1. UNCHANGED <<stored, accept, deny, conf, bak, hold, draft, touched, since>>
        /\ loaded' = Started(conf, accept, deny)
    BY <1>4 DEF RestartService, files, wifi, history
  <2>2. since = "ok" /\ RightFor(conf, accept, deny, Load)
    BY <2>1 DEF InForce
  <2>3. Sound(conf) => loaded' = {Intended(Load)}
    <3>1. conf \in File(Text)
      BY DEF Types
    <3>2. QED
      BY <3>1, <2>1, <2>2, StartedOnRight
  <2>4. QED
    BY <2>1, <2>2, <2>3 DEF InForce, Load
<1>5. CASE StageRead
  <2>1. /\ UNCHANGED <<stored, accept, deny, conf, loaded, bak>> /\ since = "ok"
        /\ draft' = SetLine(conf, "ssid", "new") /\ hold' = "read"
    BY <1>5 DEF StageRead, files
  <2>2. RightFor(conf, accept, deny, Load) /\ conf \in File(Text)
    BY <2>1 DEF InForce, Types
  <2>3. RightFor(draft', accept, deny, Load)
    BY <2>1, <2>2, SsidKeepsRight
  <2>4. QED
    BY <2>1, <2>2, <2>3 DEF InForce, Load
<1>6. CASE StageBackup
  BY <1>6 DEF StageBackup, InForce, Load, files, history
<1>7. CASE StageWrite
  <2>1. /\ UNCHANGED <<stored, accept, deny, bak, since, touched>> /\ hold = "backed" /\ hold' = "trial"
        /\ conf' = draft /\ loaded' = Started(draft, accept, deny)
    BY <1>7 DEF StageWrite, files, history
  <2>2. RightFor(draft, accept, deny, Load)
    BY <2>1 DEF InForce
  <2>3. Sound(draft) => loaded' = {Intended(Load)}
    <3>1. draft \in File(Text)
      BY DEF Types
    <3>2. QED
      BY <3>1, <2>1, <2>2, StartedOnRight
  <2>4. touched = "no" => \A c \in bak : RightFor(c, accept, deny, Load)
    BY <2>1 DEF InForce
  <2>5. QED
    BY <2>1, <2>2, <2>3, <2>4 DEF InForce, Load
<1>8. CASE Confirm
  BY <1>8 DEF Confirm, InForce, Load, files
<1>9. CASE Revert
  <2>1. UNCHANGED <<stored, accept, deny>> /\ hold = "trial" /\ hold' = "none" /\ touched = "no"
        /\ since = "ok" /\ conf' = (CHOOSE c \in bak : TRUE) /\ loaded' = Started(conf', accept, deny)
    BY <1>9 DEF Revert, files
  <2>2. conf' \in bak
    BY <2>1 DEF Types
  <2>3. RightFor(conf', accept, deny, Load)
    BY <2>1, <2>2 DEF InForce
  <2>4. Sound(conf)' => loaded' = {Intended(Load)}
    <3>1. conf' \in File(Text)
      BY <2>2 DEF Types
    <3>2. QED
      BY <3>1, <2>1, <2>3, StartedOnRight
  <2>5. QED
    BY <2>1, <2>3, <2>4 DEF InForce, Load
<1>10. QED
  BY <1>1, <1>2, <1>3, <1>4, <1>5, <1>6, <1>7, <1>8, <1>9 DEF Next

-----------------------------------------------------------------------------
LEMMA ProgressInit == Init => Progress
  BY DEF Init, Progress

\* A step of the request that runs alone, seen from the others, which are idle.
LEMMA AloneMoves ==
    ASSUME Types, Discipline, since = "alone", NEW r \in Request, pc[r] # "idle",
           NEW to, pc' = [pc EXCEPT ![r] = to]
    PROVE  pc'[r] = to /\ \A q \in Request : q # r => pc'[q] = "idle"
<1>1. PICK s \in Request : Busy(s)
  BY DEF Discipline
<1>2. s = r
  BY <1>1 DEF Busy
<1>3. QED
  BY <1>1, <1>2 DEF Busy, Types

LEMMA ProgressStep ==
    Types /\ ConfsTidy /\ Discipline /\ Progress /\ [Next]_vars => Progress'
<1> SUFFICES ASSUME Types, ConfsTidy, Discipline, Progress, [Next]_vars, since' = "alone"
             PROVE  Progress'
  BY DEF Progress
<1>1. CASE UNCHANGED <<stored, accept, deny, conf, pc, want, copy, since>>
  BY <1>1 DEF Progress
<1>2. ASSUME NEW r \in Request, Post(r) \/ Block(r) \/ Unblock(r) PROVE Progress'
  <2>1. PICK acl \in AclState, blocked \in SUBSET Mac : Begin(r, acl, blocked)
    BY <1>2, BeginsWithList
  <2>2. Idle /\ pc' = [pc EXCEPT ![r] = "truncate"]
    BY <2>1 DEF Begin, Quiet
  <2>3. \A q \in Request : pc'[q] \in {"idle", "truncate"}
    BY <2>2 DEF Idle, Types
  <2>4. QED
    BY <2>3 DEF Progress
<1>3. ASSUME NEW r \in Request, Truncate(r) PROVE Progress'
  <2>1. pc[r] # "idle" /\ pc' = [pc EXCEPT ![r] = "store"] /\ since = "alone"
    BY <1>3 DEF Truncate, At, history
  <2>2. pc'[r] = "store" /\ \A q \in Request : q # r => pc'[q] = "idle"
    BY <2>1, AloneMoves
  <2>3. stored' = {} /\ \A q \in Request : pc'[q] \in {"idle", "store"}
    BY <1>3, <2>2 DEF Truncate
  <2>4. QED
    BY <2>3 DEF Progress
<1>4. ASSUME NEW r \in Request, Store(r) PROVE Progress'
  <2>1. pc[r] = "store" /\ pc' = [pc EXCEPT ![r] = "files"] /\ since = "alone" /\ want' = want
        /\ (stored' = {want[r]} \/ stored # {})
    BY <1>4 DEF Store, At, history
  <2>2. pc'[r] = "files" /\ \A q \in Request : q # r => pc'[q] = "idle"
    BY <2>1, AloneMoves
  <2>3. stored = {}
    BY <2>1 DEF Progress
  <2>4. QED
    BY <2>1, <2>2, <2>3 DEF Progress
<1>5. ASSUME NEW r \in Request, WriteFiles(r) PROVE Progress'
  <2>1. pc[r] = "macs" /\ pc' = [pc EXCEPT ![r] = "read"] /\ since = "alone"
        /\ UNCHANGED <<stored, want>>
        /\ accept' \in (IF want[r].mode = "whitelist" THEN Filled(accept, want[r].macs) ELSE {{}})
        /\ deny' \in (IF want[r].mode = "blacklist" THEN Filled(deny, want[r].macs) ELSE {{}})
    BY <1>5 DEF WriteFiles, At, history
  <2>2. pc'[r] = "read" /\ \A q \in Request : q # r => pc'[q] = "idle"
    BY <2>1, AloneMoves
  <2>3. stored = {want[r]} /\ (want[r].mode = "whitelist" => accept = {{}})
        /\ (want[r].mode = "blacklist" => deny = {{}})
    BY <2>1 DEF Progress
  <2>4. Filled({{}}, want[r].macs) = {{want[r].macs}}
    <3>1. SUBSET UNION {{}} = {{}}
      OBVIOUS
    <3>2. Filled({{}}, want[r].macs) = {{want[r].macs \cup tail} : tail \in {{}}}
      BY <3>1 DEF Filled
    <3>3. want[r].macs \cup {} = want[r].macs
      OBVIOUS
    <3>4. QED
      BY <3>2, <3>3
  <2>5. accept' = AcceptOf(want[r]) /\ deny' = DenyOf(want[r])
    BY <2>1, <2>3, <2>4 DEF AcceptOf, DenyOf
  <2>6. QED
    BY <2>1, <2>2, <2>3, <2>5 DEF Progress
<1>15. ASSUME NEW r \in Request, TruncateFile(r) PROVE Progress'
  <2>1. pc[r] = "files" /\ pc' = [pc EXCEPT ![r] = "macs"] /\ since = "alone"
        /\ UNCHANGED <<stored, want>>
        /\ (want[r].mode = "whitelist" => accept' = {{}})
        /\ (want[r].mode = "blacklist" => deny' = {{}})
    BY <1>15 DEF TruncateFile, At, history
  <2>2. pc'[r] = "macs" /\ \A q \in Request : q # r => pc'[q] = "idle"
    BY <2>1, AloneMoves
  <2>3. stored = {want[r]}
    BY <2>1 DEF Progress
  <2>4. QED
    BY <2>1, <2>2, <2>3 DEF Progress
<1>6. ASSUME NEW r \in Request, ReadConf(r) PROVE Progress'
  <2>1. pc[r] = "read" /\ pc' = [pc EXCEPT ![r] = "write"] /\ since = "alone"
        /\ UNCHANGED <<stored, accept, deny, conf, want>>
        /\ copy' = [copy EXCEPT ![r] = Edited(conf, want[r].mode)]
    BY <1>6 DEF ReadConf, At, history, files
  <2>2. pc'[r] = "write" /\ \A q \in Request : q # r => pc'[q] = "idle"
    BY <2>1, AloneMoves
  <2>3. /\ stored = {want[r]}
        /\ accept = AcceptOf(want[r]) /\ deny = DenyOf(want[r])
    BY <2>1 DEF Progress
  <2>4. conf \in File(Text) /\ want[r] \in AclState /\ want[r].mode \in Modes
    BY DEF Types, AclState
  <2>5. copy'[r] = Edited(conf, want[r].mode)
    BY <2>1 DEF Types
  <2>6. RightFor(copy'[r], accept, deny, want[r])
    BY <2>3, <2>4, <2>5, EditedIsRight
  <2>7. Others(copy'[r]) = Others(conf)
    BY <2>4, <2>5, EditedKeepsOthers
  <2>8. QED
    BY <2>1, <2>2, <2>3, <2>6, <2>7 DEF Progress
<1>7. ASSUME NEW r \in Request, TruncateConf(r) PROVE Progress'
  <2>1. pc[r] = "write" /\ pc' = [pc EXCEPT ![r] = "fill"] /\ since = "alone"
        /\ UNCHANGED <<stored, accept, deny, want, copy>> /\ conf' = <<>>
    BY <1>7 DEF TruncateConf, At, history, files
  <2>2. pc'[r] = "fill" /\ \A q \in Request : q # r => pc'[q] = "idle"
    BY <2>1, AloneMoves
  <2>3. /\ stored = {want[r]}
        /\ accept = AcceptOf(want[r]) /\ deny = DenyOf(want[r])
        /\ RightFor(copy[r], accept, deny, want[r])
    BY <2>1 DEF Progress
  <2>4. QED
    BY <2>1, <2>2, <2>3 DEF Progress
<1>8. ASSUME NEW r \in Request, WriteConf(r) PROVE Progress'
  <2>1. pc[r] = "fill" /\ pc' = [pc EXCEPT ![r] = "restart"] /\ since = "alone"
        /\ UNCHANGED <<stored, accept, deny, want>> /\ conf' \in Over(conf, copy[r])
    BY <1>8 DEF WriteConf, At, files
  <2>2. pc'[r] = "restart" /\ \A q \in Request : q # r => pc'[q] = "idle"
    BY <2>1, AloneMoves
  <2>3. /\ stored = {want[r]}
        /\ accept = AcceptOf(want[r]) /\ deny = DenyOf(want[r])
        /\ RightFor(copy[r], accept, deny, want[r])
        /\ conf = <<>>
    BY <2>1 DEF Progress
  <2>4. conf' = copy[r]
    BY <2>1, <2>3, OverEmpty
  <2>5. QED
    BY <2>1, <2>2, <2>3, <2>4 DEF Progress
<1>9. ASSUME NEW r \in Request, Restart(r) \/ Fail(r) PROVE FALSE
  BY <1>9 DEF Restart, Fail
<1>10. CASE RestartService \/ Confirm \/ UNCHANGED vars
  BY <1>1, <1>10 DEF RestartService, Confirm, vars, files, request, history
<1>11. CASE StageRead
  BY <1>11 DEF StageRead, Discipline, Idle, Busy
<1>12. CASE StageBackup \/ StageWrite
  BY <1>12 DEF StageBackup, StageWrite, history, Discipline
<1>13. CASE Revert
  BY <1>13 DEF Revert, Discipline
<1>14. QED
  BY <1>2, <1>3, <1>4, <1>5, <1>6, <1>7, <1>8, <1>9, <1>10, <1>11, <1>12, <1>13, <1>15 DEF Next, Serve

-----------------------------------------------------------------------------
LEMMA SafeInit == Init => Safe
  BY TypesInit, TidyInit, DisciplineInit, InForceInit, ProgressInit DEF Safe

LEMMA SafeStep == Safe /\ [Next]_vars => Safe'
  BY TypesStep, TidyStep, DisciplineStep, InForceStep, ProgressStep DEF Safe

LEMMA SafeAlways == Spec => []Safe
  BY SafeInit, SafeStep, PTL DEF Spec

\* The files, the requests in progress and the Wi-Fi edit are what they are said
\* to be, and a hold whose write has begun has its .bak.
THEOREM AccessTypes == Spec => []Types
<1>1. Safe => Types
  BY DEF Safe
<1>2. QED
  BY <1>1, SafeAlways, PTL

\* However requests overlap and wherever they fail, and until one write goes
\* over the text of another, the conf names no key twice and never both lists:
\* acl.rs edits what it reads, and every text that may become the conf is an
\* edit of one that was.
THEOREM ListLinesOnce == Spec => []LinesOnce
<1>1. Safe => LinesOnce
  BY DEF Safe, ConfsTidy, AllTidy, Tidy, Once, LinesOnce
<1>2. QED
  BY <1>1, SafeAlways, PTL

\* After an ACL request that ran alone and succeeded, hostapd lets in whom the
\* saved list lets in, through service restarts, Wi-Fi edits and auto-reverts.
THEOREM SavedListInForce == Spec => []ListInForce
<1>1. Safe => ListInForce
  BY DEF Safe, InForce, ListInForce
<1>2. QED
  BY <1>1, SafeAlways, PTL

LEMMA EffectiveAlone ==
    ASSUME NEW s \in Request, Busy(s)
    PROVE  Effective = IF pc[s] = "fill" THEN copy[s] ELSE conf
<1>1. \A r \in Request : pc[r] = "fill" => r = s
  BY DEF Busy
<1>2. CASE pc[s] = "fill"
  BY <1>1, <1>2 DEF Effective
<1>3. CASE pc[s] # "fill"
  BY <1>1, <1>3 DEF Effective
<1>4. QED
  BY <1>2, <1>3

LEMMA EffectiveAloneNext ==
    ASSUME NEW s \in Request, Busy(s)'
    PROVE  Effective' = IF pc'[s] = "fill" THEN copy'[s] ELSE conf'
<1>1. \A r \in Request : pc'[r] = "fill" => r = s
  BY DEF Busy
<1>2. CASE pc'[s] = "fill"
  BY <1>1, <1>2 DEF Effective
<1>3. CASE pc'[s] # "fill"
  BY <1>1, <1>3 DEF Effective
<1>4. QED
  BY <1>2, <1>3

LEMMA OthersOfStep ==
    Safe /\ [Next]_vars
        => [since = "alone" /\ since' = "alone" => Others(Effective)' = Others(Effective)]_vars
<1> SUFFICES ASSUME Types, Discipline, Progress, Next, since = "alone", since' = "alone"
             PROVE  Others(Effective)' = Others(Effective)
  BY DEF Safe
<1>1. PICK s \in Request : Busy(s)
  BY DEF Discipline
<1>2. Effective = IF pc[s] = "fill" THEN copy[s] ELSE conf
  BY <1>1, EffectiveAlone
<1>3. ASSUME UNCHANGED <<conf, pc, copy>> PROVE Others(Effective)' = Others(Effective)
  BY <1>3 DEF Effective, Others
<1>4. ASSUME NEW r \in Request, Post(r) \/ Block(r) \/ Unblock(r) PROVE FALSE
  <2>1. Idle
    BY <1>4, BeginsWithList DEF Begin, Quiet
  <2>2. QED
    BY <1>1, <2>1 DEF Busy, Idle
<1>5. ASSUME NEW r \in Request, NEW to, to # "idle", pc[r] # "idle", pc' = [pc EXCEPT ![r] = to]
      PROVE  r = s /\ pc'[s] = to /\ Effective' = IF to = "fill" THEN copy'[s] ELSE conf'
  <2>1. r = s
    BY <1>1, <1>5 DEF Busy
  <2>2. pc'[s] = to /\ \A q \in Request : q # s => pc'[q] = "idle"
    BY <1>5, <2>1, AloneMoves
  <2>3. Busy(s)'
    BY <1>5, <2>2 DEF Busy
  <2>4. QED
    BY <2>1, <2>2, <2>3, EffectiveAloneNext
<1>6. ASSUME NEW r \in Request, Truncate(r) \/ Store(r) \/ TruncateFile(r) \/ WriteFiles(r) \/ ReadConf(r)
      PROVE  Others(Effective)' = Others(Effective)
  <2>1. /\ pc[r] \in {"truncate", "store", "files", "macs", "read"} /\ conf' = conf
        /\ \E to \in {"store", "files", "macs", "read", "write"} : pc' = [pc EXCEPT ![r] = to]
    BY <1>6 DEF Truncate, Store, TruncateFile, WriteFiles, ReadConf, At
  <2>2. r = s /\ Effective' = conf'
    BY <1>5, <2>1
  <2>3. QED
    BY <1>2, <2>1, <2>2 DEF Others
<1>7. ASSUME NEW r \in Request, TruncateConf(r) PROVE Others(Effective)' = Others(Effective)
  <2>1. pc[r] = "write" /\ pc' = [pc EXCEPT ![r] = "fill"] /\ copy' = copy
    BY <1>7 DEF TruncateConf, At
  <2>2. r = s /\ Effective' = copy[s]
    BY <1>5, <2>1
  <2>3. Others(copy[s]) = Others(conf)
    BY <2>1, <2>2 DEF Progress
  <2>4. QED
    BY <1>2, <2>1, <2>2, <2>3 DEF Others
<1>8. ASSUME NEW r \in Request, WriteConf(r) PROVE Others(Effective)' = Others(Effective)
  <2>1. pc[r] = "fill" /\ pc' = [pc EXCEPT ![r] = "restart"] /\ conf' \in Over(conf, copy[r])
    BY <1>8 DEF WriteConf, At
  <2>2. r = s /\ Effective' = conf'
    BY <1>5, <2>1
  <2>3. conf' = copy[s]
    BY <2>1, <2>2, OverEmpty DEF Progress
  <2>4. QED
    BY <1>2, <2>1, <2>2, <2>3 DEF Others
<1>9. ASSUME NEW r \in Request, Restart(r) \/ Fail(r) PROVE FALSE
  BY <1>9 DEF Restart, Fail
<1>10. CASE RestartService \/ Confirm
  BY <1>3, <1>10 DEF RestartService, Confirm, request
<1>11. CASE StageRead \/ StageBackup \/ StageWrite \/ Revert
  BY <1>1, <1>11 DEF StageRead, StageBackup, StageWrite, Revert, Discipline, Busy, Idle, history
<1>12. QED
  BY <1>4, <1>6, <1>7, <1>8, <1>9, <1>10, <1>11 DEF Next, Serve

\* An ACL request that runs alone keeps the lines of the conf that are not the
\* list's, the Wi-Fi settings among them, in each of its steps.
THEOREM OtherLinesStay == Spec => OtherLinesKept
<1>1. Safe /\ [Next]_vars
          => [since = "alone" /\ since' = "alone" => Others(Effective)' = Others(Effective)]_vars
  BY OthersOfStep
<1>2. QED
  BY <1>1, SafeAlways, PTL DEF Spec, OtherLinesKept
=============================================================================
