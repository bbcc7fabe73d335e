------------------------------ MODULE NanoDns ------------------------------
(***************************************************************************)
(* nanodns: the zone settings and records of nanodns.conf (nanodns.rs),    *)
(* the ad blocker that edits the same file and the list of blocked domains *)
(* (adblock.rs), and their handlers in api.rs.  No lock is taken.          *)
(*                                                                         *)
(* A record is plain, or written oddly, as it may be sent: its type in     *)
(* lower case or a blank behind its name, which parsing mends and writing  *)
(* does not.                                                               *)
(***************************************************************************)
EXTENDS ConfLines, FiniteSets

CONSTANTS
    Request,             \* DNS and ad-block requests that may be in progress at once
    Domain,              \* domains that may be blocked
    Downloads,           \* what a download may give, sets of domains
    MaxDnsEdits,         \* bound: requests over a behaviour
    MaxDnsOverlap        \* bound: the first of them, of which those for the conf
                         \* may overlap

VARIABLES
    dns,                 \* the lines of nanodns.conf
    dnsPc, dnsCopy,      \* per request: next step, lines it is to write
    todo,                \* per request: what the ad blocker has still to change
    settings,            \* per request: settings it has read, in adblock.rs
    blocklist,           \* the lines of the blocklist file, <<>> if missing
    listPc, listCopy,    \* per request: a custom rule's next step, lines in hand
    update,              \* the download: none, running, has truncated the file
    fetched,             \* the domains it got
    asked,               \* history: the settings there should be after the last
                         \* conf request, while it is one that runs or ran alone
    oddSent,             \* history: a record was sent written oddly
    crossed,             \* history: a write of the conf went over another's
    listMixed,           \* history: the same of the blocklist
    dnsEdits

confVars == <<dns, dnsPc, dnsCopy, todo, settings, asked, oddSent, crossed>>
listVars == <<blocklist, listPc, listCopy, update, fetched, listMixed>>
vars == <<confVars, listVars, dnsEdits>>

\* A record's name and form; what parsing and writing it again make of it.
Record == {"a", "a odd", "b"}
Odd(rec) == rec = "a odd"
Written(rec) == IF rec = "a odd" THEN "a" ELSE rec

Usual == "0.0.0.0"
Responses == {Usual, "NXDOMAIN"}
Settings == [upstreams : {<<>>, <<"u1">>, <<"u1", "u2">>}, block : BOOLEAN, response : Responses]
NoSettings == [upstreams |-> <<>>, block |-> FALSE, response |-> Usual]

Values(c, k) == LET ls == GetAll(c, k) IN [i \in DOMAIN ls |-> ls[i].value]

\* get_dns_settings.
Read(c) ==
    [upstreams |-> Values(c, "upstream"),
     block |-> Has(c, "block_file"),
     response |-> Get(c, "block_response", Usual)]

Lines(k, values) == [i \in DOMAIN values |-> Line(k, values[i])]

\* The slip of an update that leaves the response when blocking goes off.
PutKeepingResponse(c, s) ==
    LET d == RemoveKey(RemoveKey(SetLine(c, "domain", "lan"), "upstream")
                 \o Lines("upstream", s.upstreams), "block_file")
    IN  IF s.block
        THEN RemoveKey(d, "block_response")
                \o <<Line("block_file", "list"), Line("block_response", s.response)>>
        ELSE d

\* The slip of an update that writes a fresh file.
PutAfresh(c, s) ==
    Lines("upstream", s.upstreams)
        \o IF s.block THEN <<Line("block_file", "list"), Line("block_response", s.response)>>
           ELSE <<>>

\* update_dns_settings: the lines for new settings.  The response is written
\* only with blocking on.
Put(c, s) ==
    LET d == RemoveKey(RemoveKey(RemoveKey(SetLine(c, "domain", "lan"), "upstream")
                 \o Lines("upstream", s.upstreams), "block_file"), "block_response")
    IN  d \o IF s.block
             THEN <<Line("block_file", "list"), Line("block_response", s.response)>>
             ELSE <<>>

Init ==
    /\ dns = <<Line("domain", "lan"), Line("upstream", "u1"), Line("record", "a")>>
    /\ dnsPc = [r \in Request |-> "idle"]
    /\ dnsCopy = [r \in Request |-> <<>>]
    /\ todo = [r \in Request |-> <<>>]
    /\ settings = [r \in Request |-> NoSettings]
    /\ blocklist = <<>>
    /\ listPc = [r \in Request |-> "idle"]
    /\ listCopy = [r \in Request |-> <<>>]
    /\ update = "none" /\ fetched = {}
    /\ asked = {Read(dns)} /\ oddSent = FALSE /\ crossed = FALSE /\ listMixed = FALSE /\ dnsEdits = 0

ConfIdle == \A r \in Request : dnsPc[r] = "idle"

\* A request for the conf arrives; alone, it is to leave these settings.
Arrive(r, expected) ==
    /\ dnsPc[r] = "idle" /\ dnsEdits < MaxDnsEdits
    /\ dnsEdits < MaxDnsOverlap \/ ConfIdle
    /\ dnsEdits' = dnsEdits + 1
    /\ asked' = IF ConfIdle THEN {expected} ELSE {}
    /\ UNCHANGED <<dns, crossed, listVars>>

\* The lines a request is to write; what it had read of the settings is dead.
ToWrite(r, lines) ==
    /\ dnsPc' = [dnsPc EXCEPT ![r] = "truncate"]
    /\ dnsCopy' = [dnsCopy EXCEPT ![r] = lines]
    /\ settings' = [settings EXCEPT ![r] = NoSettings]

\* The slip of an add that does not look for the name.
NewUnchecked(c, rec) == TRUE

\* DuplicateName: a record sent written oddly equals none in the file.
New(c, rec) == \A i \in DOMAIN c : c[i].key = "record" => Written(c[i].value) # rec

AddRecord(r) == \E rec \in Record :
    /\ New(dns, rec)
    /\ Arrive(r, Read(dns))
    /\ oddSent' = (oddSent \/ Odd(rec))
    /\ ToWrite(r, Append(dns, Line("record", rec)))
    /\ UNCHANGED todo

\* The record is found as parsed and removed as it would be written: one written
\* oddly stays, and the answer is ok all the same.
RemoveRecord(r) == \E i \in DOMAIN dns :
    /\ dns[i].key = "record"
    /\ Arrive(r, Read(dns))
    /\ ToWrite(r, RemoveOnce(dns, "record", Written(dns[i].value)))
    /\ UNCHANGED <<todo, oddSent>>

PostSettings(r) == \E s \in [upstreams : {<<"u1", "u2">>}, block : BOOLEAN, response : {Usual}] :
    /\ Arrive(r, [s EXCEPT !.response = IF s.block THEN @ ELSE Usual])
    /\ ToWrite(r, Put(dns, s))
    /\ UNCHANGED <<todo, oddSent>>

\* What the settings should be after the ad blocker is switched, with a response
\* or without: one sent while blocking is off is not kept.
Switched(s, response, switch) ==
    [s EXCEPT !.block = switch = "on",
              !.response = IF switch = "off" \/ (response # <<>> /\ ~s.block) THEN Usual
                           ELSE IF response = <<>> THEN @ ELSE Head(response)]

\* adblock_post: the response, if one is sent, and then the switch.
Toggle(r) == \E response \in {<<>>, <<"NXDOMAIN">>}, switch \in {"on", "off"} :
    /\ Arrive(r, Switched(Read(dns), response, switch))
    /\ dnsPc' = [dnsPc EXCEPT ![r] = "get"]
    /\ todo' = [todo EXCEPT ![r] = response \o <<switch>>]
    /\ UNCHANGED <<dnsCopy, settings, oddSent>>

\* adblock_enable, adblock_disable, adblock_set_response: read the settings ...
AdGet(r) ==
    /\ dnsPc[r] = "get"
    /\ dnsPc' = [dnsPc EXCEPT ![r] = "put"]
    /\ settings' = [settings EXCEPT ![r] =
           CASE Head(todo[r]) = "on" -> [Read(dns) EXCEPT !.block = TRUE]
             [] Head(todo[r]) = "off" -> [Read(dns) EXCEPT !.block = FALSE]
             [] OTHER -> [Read(dns) EXCEPT !.response = Head(todo[r])]]
    /\ UNCHANGED <<dns, dnsCopy, todo, asked, oddSent, crossed, listVars, dnsEdits>>

\* ... and have update_dns_settings read the file again.
AdPut(r) ==
    /\ dnsPc[r] = "put"
    /\ ToWrite(r, Put(dns, settings[r]))
    /\ UNCHANGED <<dns, todo, asked, oddSent, crossed, listVars, dnsEdits>>

Truncate(r) ==
    /\ dnsPc[r] = "truncate"
    /\ dnsPc' = [dnsPc EXCEPT ![r] = "fill"]
    /\ dns' = <<>>
    /\ UNCHANGED <<dnsCopy, todo, settings, asked, oddSent, crossed, listVars, dnsEdits>>

\* After the switch the handler has the list downloaded when there is none.
Fill(r) ==
    /\ dnsPc[r] = "fill"
    /\ dns' \in Over(dns, dnsCopy[r])
    /\ crossed' = (crossed \/ dns # <<>>)
    /\ dnsCopy' = [dnsCopy EXCEPT ![r] = <<>>]
    /\ todo' = [todo EXCEPT ![r] = IF @ = <<>> THEN @ ELSE Tail(@)]
    /\ dnsPc' = [dnsPc EXCEPT ![r] = IF Len(todo[r]) > 1 THEN "get" ELSE "idle"]
    /\ update' = IF todo[r] = <<"on">> /\ blocklist = <<>> /\ update = "none"
                 THEN "running" ELSE update
    /\ UNCHANGED <<settings, asked, oddSent, blocklist, listPc, listCopy, fetched, listMixed, dnsEdits>>

\* The file cannot be read or written; one step of several may be done.
ConfFails(r) ==
    /\ dnsPc[r] # "idle"
    /\ dnsPc' = [dnsPc EXCEPT ![r] = "idle"]
    /\ dnsCopy' = [dnsCopy EXCEPT ![r] = <<>>]
    /\ todo' = [todo EXCEPT ![r] = <<>>]
    /\ settings' = [settings EXCEPT ![r] = NoSettings]
    /\ asked' = {}
    /\ UNCHANGED <<dns, oddSent, crossed, listVars, dnsEdits>>

-----------------------------------------------------------------------------
ListIdle == update # "writing" /\ \A r \in Request : listPc[r] = "idle"

\* adblock_update.  One download at a time is modelled.
StartUpdate ==
    /\ update = "none" /\ dnsEdits < MaxDnsEdits
    /\ dnsEdits' = dnsEdits + 1
    /\ update' = "running"
    /\ UNCHANGED <<confVars, blocklist, listPc, listCopy, fetched, listMixed>>

\* curl fails, or its body is parsed and the file truncated.
Download ==
    /\ update = "running"
    /\ \/ update' = "none" /\ UNCHANGED <<fetched, blocklist, listMixed>>
       \/ /\ update' = "writing"
          /\ fetched' \in Downloads
          /\ blocklist' = <<>>
          /\ listMixed' = (listMixed \/ ~ListIdle)
    /\ UNCHANGED <<confVars, listPc, listCopy, dnsEdits>>

\* One line is written, in order; after the last the update is over.
WriteDomain ==
    /\ update = "writing"
    /\ IF fetched = {}
       THEN update' = "none" /\ UNCHANGED <<blocklist, fetched>>
       ELSE \E d \in fetched :
              /\ blocklist' = Append(blocklist, d)
              /\ fetched' = fetched \ {d}
              /\ UNCHANGED update
    /\ UNCHANGED <<confVars, listPc, listCopy, listMixed, dnsEdits>>

\* The slip of an add that does not look for the domain.
ReadForAddUnchecked(r) == \E d \in Domain :
    /\ listPc[r] = "idle" /\ dnsEdits < MaxDnsEdits
    /\ dnsEdits' = dnsEdits + 1
    /\ listPc' = [listPc EXCEPT ![r] = "append"]
    /\ listCopy' = [listCopy EXCEPT ![r] = <<d>>]
    /\ listMixed' = (listMixed \/ ~ListIdle)
    /\ UNCHANGED <<confVars, blocklist, update, fetched>>

\* add_custom_block looks for the domain, then appends it.
ReadForAdd(r) == \E d \in Domain :
    /\ listPc[r] = "idle" /\ dnsEdits < MaxDnsEdits
    /\ \A i \in DOMAIN blocklist : blocklist[i] # d
    /\ dnsEdits' = dnsEdits + 1
    /\ listPc' = [listPc EXCEPT ![r] = "append"]
    /\ listCopy' = [listCopy EXCEPT ![r] = <<d>>]
    /\ listMixed' = (listMixed \/ ~ListIdle)
    /\ UNCHANGED <<confVars, blocklist, update, fetched>>

AppendDomain(r) ==
    /\ listPc[r] = "append"
    /\ listPc' = [listPc EXCEPT ![r] = "idle"]
    /\ blocklist' = blocklist \o listCopy[r]
    /\ listCopy' = [listCopy EXCEPT ![r] = <<>>]
    /\ UNCHANGED <<confVars, update, fetched, listMixed, dnsEdits>>

\* remove_custom_block reads the lines, truncates the file and writes the rest.
ReadForRemove(r) == \E d \in Domain :
    /\ listPc[r] = "idle" /\ dnsEdits < MaxDnsEdits
    /\ dnsEdits' = dnsEdits + 1
    /\ listPc' = [listPc EXCEPT ![r] = "truncate"]
    /\ listCopy' = [listCopy EXCEPT ![r] = 
           Kept(blocklist, {i \in DOMAIN blocklist : blocklist[i] # d})]
    /\ listMixed' = (listMixed \/ ~ListIdle)
    /\ UNCHANGED <<confVars, blocklist, update, fetched>>

TruncateList(r) ==
    /\ listPc[r] = "truncate"
    /\ listPc' = [listPc EXCEPT ![r] = "append"]
    /\ blocklist' = <<>>
    /\ UNCHANGED <<confVars, listCopy, update, fetched, listMixed, dnsEdits>>

Next ==
    \/ \E r \in Request :
         \/ AddRecord(r) \/ RemoveRecord(r) \/ PostSettings(r) \/ Toggle(r)
         \/ AdGet(r) \/ AdPut(r) \/ Truncate(r) \/ Fill(r) \/ ConfFails(r)
         \/ ReadForAdd(r) \/ AppendDomain(r) \/ ReadForRemove(r) \/ TruncateList(r)
    \/ StartUpdate \/ Download \/ WriteDomain

DnsSpec == Init /\ [][Next]_vars

-----------------------------------------------------------------------------
\* While the last request for the conf is one that ran alone and was answered
\* with success, the settings are those it asked for: of the page what was sent,
\* of the ad blocker the switch and, where blocking was on, the response, of a
\* record those before it; whatever earlier requests that failed or overlapped
\* had left of the file.  The ad blocker gets there in up to two rounds that each
\* read the file twice.
SettingsAsAsked == ConfIdle => \A s \in asked : Read(dns) = s

\* No name has two records of one type, however requests overlap or fail, until
\* one is sent written oddly (its type in lower case, or its name with a blank
\* behind it, passes the check for duplicates) or one fs::write goes over the
\* text of another and leaves lines of it behind.
RecordsUnique ==
    oddSent \/ crossed \/ \A i, j \in DOMAIN dns :
        dns[i].key = "record" /\ dns[j].key = "record" /\ Written(dns[i].value) = Written(dns[j].value)
            => i = j

\* What a request that runs alone writes differs from what was there in what it
\* is about: the settings page and the ad blocker keep the records, a record
\* keeps the settings, and the ad blocker, which reads the file twice, keeps the
\* upstreams.
KeepsRest(r) ==
    /\ \/ Values(dnsCopy'[r], "record") = Values(dns, "record")
       \/ Read(dnsCopy'[r]) = Read(dns)
    /\ dnsPc[r] = "put" => Values(dnsCopy'[r], "upstream") = Values(dns, "upstream")
LoneWritesKeepRest ==
    [][\A r \in Request :
        asked' # {} /\ dnsPc[r] \notin {"truncate", "fill"} /\ dnsPc'[r] = "truncate" => KeepsRest(r)]_vars

\* A domain is in the list once, unless a custom rule overlapped another or the
\* writing of a download; a download may not take a line twice.
DomainsOnce == listMixed \/ \A i, j \in DOMAIN blocklist : blocklist[i] = blocklist[j] => i = j
=============================================================================
