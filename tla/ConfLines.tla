----------------------------- MODULE ConfLines -----------------------------
(***************************************************************************)
(* A configuration file as hostapd.rs, nanodhcp.rs and nanodns.rs keep it: *)
(* a sequence of key=value lines that edits update in place, append to or  *)
(* drop lines from.  Comments and lines that are no pair are never touched *)
(* and are left out.                                                       *)
(***************************************************************************)
EXTENDS Naturals, Sequences

Line(k, v) == [key |-> k, value |-> v]

\* What is left of a line whose beginning another text covers.
Cut == Line("cut", "cut")

\* What a text becomes that is written from the start of a file another write
\* has filled since it was truncated: the lines it does not reach stay behind
\* it, the first of them cut or not.
Over(file, text) ==
    {text} \cup {text \o rest : rest \in
        UNION {{SubSeq(file, n, Len(file)), <<Cut>> \o SubSeq(file, n, Len(file))} :
               n \in 2..Len(file) + 1}}

Has(c, k) == \E i \in DOMAIN c : c[i].key = k

\* The place of the first line of a key, where there is one.
FirstOf(c, k) == CHOOSE i \in DOMAIN c :
    c[i].key = k /\ \A j \in DOMAIN c : c[j].key = k => i <= j

\* The slip of an edit that appends where it should update.
SetAppends(c, k, v) == Append(c, Line(k, v))

\* The slip of one that updates whatever line comes first.
SetsFirst(c, k, v) == IF Has(c, k) THEN [c EXCEPT ![1] = Line(k, v)] ELSE Append(c, Line(k, v))

\* Update the first line of the key in place, or append one.
SetLine(c, k, v) ==
    IF Has(c, k) THEN [c EXCEPT ![FirstOf(c, k)].value = v] ELSE Append(c, Line(k, v))

Get(c, k, default) == IF Has(c, k) THEN c[FirstOf(c, k)].value ELSE default

\* The lines at the places kept, in order.
Kept(c, places) ==
    LET upTo[n \in 0..Len(c)] ==
            IF n = 0 THEN <<>>
            ELSE IF n \in places THEN Append(upTo[n - 1], c[n]) ELSE upTo[n - 1]
    IN  upTo[Len(c)]

GetAll(c, k) == Kept(c, {i \in DOMAIN c : c[i].key = k})

\* Drop every line of the key.
RemoveKey(c, k) == Kept(c, {i \in DOMAIN c : c[i].key # k})

\* NanoDnsConf::remove_where drops the first line of the pair only.
RemoveOnce(c, k, v) ==
    LET found(i) == c[i].key = k /\ c[i].value = v
        i == CHOOSE i \in DOMAIN c : found(i) /\ \A j \in DOMAIN c : found(j) => i <= j
    IN  IF \E j \in DOMAIN c : found(j)
        THEN SubSeq(c, 1, i - 1) \o SubSeq(c, i + 1, Len(c))
        ELSE c
=============================================================================
