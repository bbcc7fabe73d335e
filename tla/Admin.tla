------------------------------- MODULE Admin -------------------------------
(***************************************************************************)
(* The administrator's access: the start of the web service (main.rs), the *)
(* first boot's password and certificate (auth.rs, setup.rs, tls.rs),      *)
(* logins and password changes (api.rs), and the display that shows the    *)
(* first password until it is changed (main.rs of tinywifi-display).       *)
(*                                                                         *)
(* A file is a set of at most one content; "cut" is one that was truncated *)
(* and not yet written.                                                    *)
(***************************************************************************)
EXTENDS Naturals, FiniteSets

CONSTANTS
    Request,             \* logins and changes that may be in progress at once
    Chosen,              \* passwords an administrator may choose
    MaxLogins,           \* bound: logins and changes over a behaviour
    MaxMishaps           \* bound: ends of the service and ports it does not get

VARIABLES
    server,              \* "off", "serving" or the next step of the start
    auth,                \* the hash in AUTH_FILE: a password and whether it is heavy
    marker,              \* auth.default is there
    initial,             \* auth.initial-password
    cert, key,           \* the certificate's files
    made,                \* the password that init has generated, in memory
    pc, given, new,      \* per request: next step, password sent, password to write
    acked,               \* history: the password written last, and whether it was chosen
    missed,              \* history: which of marker and initial could not be written or removed
    interrupted,         \* history: AUTH_FILE was left cut by a change or a re-hash
    muddled,             \* history: a change overlapped another or a login's re-hash
    logins, mishaps,
    shown,               \* the password the panel shows
    setupShown, statusSeen, due, \* showing_setup, prev is Some, ten minutes have passed
    news, panel          \* the status is not that of prev; drawing works

files == <<auth, marker, initial>>
tls == <<cert, key>>
request == <<pc, given, new>>
service == <<server, made>>
history == <<acked, missed, interrupted, muddled, logins, mishaps>>
display == <<shown, setupShown, statusSeen, due, news, panel>>
vars == <<service, files, tls, request, history, display>>

First == "first"
Hash(pw) == [pw |-> pw, heavy |-> FALSE]
Passwords(file) == {h.pw : h \in file}
Cut == [pw |-> "cut", heavy |-> FALSE]
Unset == [pw |-> "cut", chosen |-> FALSE]
Generated == [pw |-> First, chosen |-> FALSE]
ChosenPw(pw) == [pw |-> pw, chosen |-> TRUE]

Busy(steps) == \E r \in Request : pc[r] \in steps
Writing == {"truncate", "write"}
Changing == Writing \cup {"unmark", "unshow"}
Rehashing == {"re-read", "re-truncate", "re-write"}
Idle == \A r \in Request : pc[r] = "idle"

\* A device from the factory, or one whose password, hashed with the former
\* heavy parameters or not, was chosen before.
Init ==
    /\ server = "off"
    /\ auth \in {{}} \cup {{[pw |-> "old", heavy |-> h]} : h \in BOOLEAN}
    /\ marker = FALSE /\ initial = {} /\ made = {}
    /\ cert = {} /\ key = {}
    /\ pc = [r \in Request |-> "idle"]
    /\ given = [r \in Request |-> {}] /\ new = [r \in Request |-> {}]
    /\ acked = IF auth = {} THEN Unset ELSE ChosenPw("old")
    /\ missed = {} /\ interrupted = FALSE /\ muddled = FALSE /\ logins = 0 /\ mishaps = 0
    /\ shown = {} /\ setupShown = FALSE /\ statusSeen = FALSE /\ due = TRUE
    /\ news = FALSE /\ panel = TRUE

-----------------------------------------------------------------------------
\* The steps of main and of the two init functions, in their order.
Step(from, to) == server = from /\ server' = to

\* auth::init: without AUTH_FILE a password is made, and its file truncated.  A
\* file that cannot be opened ends the init, not the start.
AuthInit ==
    /\ server = "off"
    /\ \/ auth = {} /\ server' = "hash" /\ made' = {First} /\ auth' = {Cut}
       \/ server' = "tls" /\ UNCHANGED <<made, auth>>
    /\ UNCHANGED <<marker, initial, tls, request, history, display>>

\* The hash is written; if it cannot be, the password is forgotten.
HashWritten ==
    /\ Step("hash", "mark")
    /\ auth' = {Hash(First)} /\ acked' = Generated
    /\ UNCHANGED <<made, missed>>

HashLost == Step("hash", "tls") /\ made' = {} /\ UNCHANGED <<auth, acked, missed>>

\* The slip of an init that shows the password whatever became of the hash.
WriteHashRegardless ==
    /\ HashWritten \/ (Step("hash", "mark") /\ UNCHANGED <<made, auth, acked, missed>>)
    /\ UNCHANGED <<marker, initial, tls, request, interrupted, muddled, logins, mishaps, display>>

WriteHash ==
    /\ HashWritten \/ HashLost
    /\ UNCHANGED <<marker, initial, tls, request, interrupted, muddled, logins, mishaps, display>>

\* The marker, then the password for the display in the clear; neither result is
\* looked at.
Done(file) == missed' = missed \ {file}
NotDone(file) == missed' = missed \cup {file}

Mark ==
    /\ Step("mark", "show")
    /\ \/ marker' = TRUE /\ Done("marker")
       \/ marker' = marker /\ NotDone("marker")
    /\ UNCHANGED <<made, auth, initial, tls, request, acked, interrupted, muddled, logins, mishaps, display>>

Show ==
    /\ Step("show", "tls")
    /\ made' = {}
    /\ \/ initial' = made /\ Done("initial")
       \/ initial' = initial /\ NotDone("initial")
    /\ UNCHANGED <<auth, marker, tls, request, acked, interrupted, muddled, logins, mishaps, display>>

\* The slip of an init that is content with the certificate.
TlsInitByCert ==
    /\ server = "tls"
    /\ IF cert # {} THEN server' = "load" /\ UNCHANGED cert
       ELSE server' = "cert" /\ cert' = {"cut"}
    /\ UNCHANGED <<made, files, key, request, history, display>>

\* tls::init: both files are there, or both are made anew.
TlsInit ==
    /\ server = "tls"
    /\ IF cert # {} /\ key # {} THEN server' = "load" /\ UNCHANGED cert
       ELSE server' = "cert" /\ cert' = {"cut"}
    /\ UNCHANGED <<made, files, key, request, history, display>>

WriteCert ==
    /\ Step("cert", "key")
    /\ cert' = {"pem"} /\ key' = key
    /\ UNCHANGED <<made, files, request, history, display>>

CutKey ==
    /\ Step("key", "key cut")
    /\ key' = {"cut"}
    /\ UNCHANGED <<made, files, cert, request, history, display>>

WriteKey ==
    /\ Step("key cut", "load")
    /\ key' = {"pem"}
    /\ UNCHANGED <<made, files, cert, request, history, display>>

\* rustls_config: without a usable pair the service exits with an error.
LoadTls ==
    /\ server = "load"
    /\ server' = IF cert = {"pem"} /\ key = {"pem"} THEN "bind" ELSE "off"
    /\ UNCHANGED <<made, files, tls, request, history, display>>

\* The two servers bind their ports and are joined: a panel whose port is taken
\* leaves the service alive with its redirect alone.
Bind ==
    /\ \/ Step("bind", "serving") /\ UNCHANGED mishaps
       \/ Step("bind", "redirect") /\ mishaps < MaxMishaps /\ mishaps' = mishaps + 1
    /\ UNCHANGED <<made, files, tls, request, acked, missed, interrupted, muddled, logins, display>>

\* The service ends, its requests with it: it is killed, at any moment, or main
\* returns because a file of the certificate cannot be written, the configuration
\* or the pair cannot be read or neither port is free.
End ==
    /\ server # "off" /\ mishaps < MaxMishaps
    /\ mishaps' = mishaps + 1
    /\ server' = "off" /\ made' = {}
    /\ pc' = [r \in Request |-> "idle"]
    /\ given' = [r \in Request |-> {}] /\ new' = [r \in Request |-> {}]
    /\ interrupted' = (interrupted \/ Busy({"write", "re-write"}))
    /\ missed' = missed \cup (IF server = "mark" \/ Busy({"unmark"}) THEN {"marker", "initial"} ELSE {})
                       \cup (IF server = "show" \/ Busy({"unshow"}) THEN {"initial"} ELSE {})
    /\ UNCHANGED <<files, tls, acked, muddled, logins, display>>

-----------------------------------------------------------------------------
\* A request that knows the password or guesses one; a login begins, or a change.
Arrive(r, step) ==
    /\ server = "serving" /\ pc[r] = "idle" /\ logins < MaxLogins
    /\ logins' = logins + 1
    /\ pc' = [pc EXCEPT ![r] = step]

Login(r) == \E pw \in Chosen \cup {First, "old"} :
    /\ Arrive(r, "verify login")
    /\ given' = [given EXCEPT ![r] = {pw}]
    /\ UNCHANGED <<service, files, tls, new, acked, missed, interrupted, muddled, mishaps, display>>

Change(r) == \E pw \in Chosen \cup {First, "old"}, next \in Chosen :
    /\ Arrive(r, "verify change")
    /\ given' = [given EXCEPT ![r] = {pw}] /\ new' = [new EXCEPT ![r] = {next}]
    /\ UNCHANGED <<service, files, tls, acked, missed, interrupted, muddled, mishaps, display>>

\* The request's data is dead when it is answered.
Answer(r) ==
    /\ pc' = [pc EXCEPT ![r] = "idle"]
    /\ given' = [given EXCEPT ![r] = {}] /\ new' = [new EXCEPT ![r] = {}]

\* A login is about to replace the hash by what it had checked.
Heavy == \E h \in auth : h.heavy
Overtaken == Busy({"re-truncate", "re-write"}) \/ (Busy({"re-read"}) /\ Heavy)

\* verify_password against the hash as it is now.
Verify(r) ==
    /\ pc[r] \in {"verify login", "verify change"}
    /\ IF given[r] = Passwords(auth)
       THEN LET change == pc[r] = "verify change"
            IN  /\ pc' = [pc EXCEPT ![r] = IF change THEN "truncate" ELSE "re-read"]
                /\ UNCHANGED <<given, new>>
                /\ muddled' = (muddled \/ (change /\ Overtaken) \/ (Busy(Writing) /\ (change \/ Heavy)))
       ELSE Answer(r) /\ UNCHANGED muddled
    /\ UNCHANGED <<service, files, tls, acked, missed, interrupted, logins, mishaps, display>>

\* The slip of a re-hash whatever the parameters.
RehashAlways(r) ==
    /\ pc[r] = "re-read"
    /\ \/ Answer(r)
       \/ new' = [new EXCEPT ![r] = given[r]] /\ pc' = [pc EXCEPT ![r] = "re-truncate"] /\ UNCHANGED given
    /\ UNCHANGED <<service, files, tls, history, display>>

\* maybe_upgrade_hash reads the hash a second time; a heavy one is replaced by a
\* light one of the password that this login sent.
Rehash(r) ==
    /\ pc[r] = "re-read"
    /\ IF Heavy
       THEN new' = [new EXCEPT ![r] = given[r]] /\ pc' = [pc EXCEPT ![r] = "re-truncate"]
                /\ UNCHANGED given
       ELSE Answer(r)
    /\ UNCHANGED <<service, files, tls, history, display>>

\* write_hash truncates the file and fills it.
TruncateAuth(r) ==
    /\ \/ pc[r] = "truncate" /\ pc' = [pc EXCEPT ![r] = "write"]
       \/ pc[r] = "re-truncate" /\ pc' = [pc EXCEPT ![r] = "re-write"]
    /\ auth' = {Cut}
    /\ UNCHANGED <<service, marker, initial, tls, given, new, history, display>>

FillAuth(r) ==
    /\ \/ /\ pc[r] = "write" /\ pc' = [pc EXCEPT ![r] = "unmark"] /\ UNCHANGED <<given, new>>
          /\ acked' = ChosenPw(CHOOSE pw \in new[r] : TRUE)
       \/ pc[r] = "re-write" /\ Answer(r) /\ UNCHANGED acked
    /\ auth' = {Hash(pw) : pw \in new[r]}
    /\ UNCHANGED <<service, marker, initial, tls, missed, interrupted, muddled, logins, mishaps, display>>

\* on_password_changed: the marker, then the password in the clear.  What cannot
\* be removed stays, and the change is told to be done all the same.
Unmark(r) ==
    /\ pc[r] = "unmark" /\ pc' = [pc EXCEPT ![r] = "unshow"]
    /\ \/ marker' = FALSE /\ Done("marker")
       \/ marker /\ marker' = marker /\ NotDone("marker")
    /\ UNCHANGED <<service, auth, initial, tls, given, new, acked, interrupted, muddled, logins, mishaps, display>>

Unshow(r) ==
    /\ pc[r] = "unshow" /\ Answer(r)
    /\ \/ initial' = {} /\ Done("initial")
       \/ initial # {} /\ initial' = initial /\ NotDone("initial")
    /\ UNCHANGED <<service, auth, marker, tls, acked, interrupted, muddled, logins, mishaps, display>>

\* The hash cannot be written.
WriteFails(r) ==
    /\ pc[r] \in {"truncate", "write", "re-truncate", "re-write"}
    /\ Answer(r)
    /\ interrupted' = (interrupted \/ pc[r] \in {"write", "re-write"})
    /\ UNCHANGED <<service, files, tls, acked, missed, muddled, logins, mishaps, display>>

-----------------------------------------------------------------------------
\* The display's loop, one look at the password's file after the other: the setup
\* screen is drawn once, while the password is there, and drawing may fail.
DrawSetup ==
    /\ initial # {} /\ ~setupShown /\ panel
    /\ shown' = initial /\ setupShown' = TRUE
    /\ UNCHANGED <<service, files, tls, request, history, statusSeen, due, news, panel>>

\* The slip of a loop that draws a status only when it is another.
DrawStatusOnce ==
    /\ initial = {}
    /\ setupShown' = FALSE /\ statusSeen' = TRUE /\ news' = FALSE
    /\ IF (~statusSeen \/ setupShown \/ news) /\ panel
       THEN shown' = {} /\ due' = FALSE
       ELSE UNCHANGED <<shown, due>>
    /\ UNCHANGED <<service, files, tls, request, history, panel>>

\* The status is drawn when there is no former one, its fields but the uptime
\* have changed or ten minutes have passed since the last drawing; it counts as
\* the former one even if drawing failed.
DrawStatus ==
    /\ initial = {}
    /\ setupShown' = FALSE /\ statusSeen' = TRUE /\ news' = FALSE
    /\ IF (~statusSeen \/ setupShown \/ news \/ due) /\ panel
       THEN shown' = {} /\ due' = FALSE
       ELSE UNCHANGED <<shown, due>>
    /\ UNCHANGED <<service, files, tls, request, history, panel>>

\* Ten minutes pass; the status becomes another, the panel stops working or works
\* again.  They are told apart while the panel has a password to forget: at any
\* other time a drawing that is due or fails is one that has not been tried yet.
Forgetting == initial = {} /\ shown # {}

Tick ==
    /\ Forgetting /\ ~due
    /\ due' = TRUE
    /\ UNCHANGED <<service, files, tls, request, history, shown, setupShown, statusSeen, news, panel>>

Environment ==
    /\ Forgetting
    /\ \/ statusSeen /\ ~news /\ news' = TRUE /\ panel' = panel
       \/ panel' = ~panel /\ news' = news
    /\ UNCHANGED <<service, files, tls, request, history, shown, setupShown, statusSeen, due>>

-----------------------------------------------------------------------------
Boot == WriteHash \/ Mark \/ Show \/ TlsInit \/ WriteCert \/ CutKey \/ WriteKey \/ LoadTls \/ Bind
Serve(r) == Verify(r) \/ Rehash(r) \/ TruncateAuth(r) \/ FillAuth(r) \/ Unmark(r) \/ Unshow(r)
Look == DrawSetup \/ DrawStatus

Next ==
    \/ AuthInit \/ Boot \/ End
    \/ \E r \in Request : Login(r) \/ Change(r) \/ Serve(r) \/ WriteFails(r)
    \/ Look \/ Tick \/ Environment

\* A start that has begun and the service's threads run on, the display looks
\* again and again, and time passes.  Nothing makes the service start, the status
\* change or the panel work.
Fairness ==
    /\ WF_vars(Boot)
    /\ \A r \in Request : WF_vars(Serve(r))
    /\ WF_vars(Look) /\ WF_vars(Tick)

AdminSpec == Init /\ [][Next]_vars /\ Fairness

-----------------------------------------------------------------------------
Settled == server = "serving" /\ ~Busy(Changing) /\ ~Busy(Rehashing)

\* The password written last stays the one that is asked for, whatever logins
\* come and go, unless changes overlapped each other or a login's re-hash of a
\* heavy hash, or the file was left cut.
ChangeSticks ==
    Settled /\ ~interrupted /\ ~muddled /\ acked # Unset => Passwords(auth) = {acked.pw}

\* However the files' operations fail, however changes overlap and wherever the
\* service ends: the generated password is there for the display, and the marker
\* with it, from the first boot until somebody has chosen one, be it the same,
\* unless the last operation on the file itself was the one that failed; and what
\* the display shows before somebody has chosen one opens the device, unless a
\* change has left AUTH_FILE cut.
FirstPasswordKnown ==
    Settled =>
        /\ "initial" \in missed \/ initial = (IF acked = Generated THEN {First} ELSE {})
        /\ "marker" \in missed \/ (marker <=> acked = Generated)
        /\ acked.chosen \/ interrupted \/ initial \subseteq Passwords(auth)

\* Where the service is started again whenever it has ended, it comes to serve,
\* unless it ended while one of the two files of the certificate was cut and the
\* other there, for then no start gets past them, or it got no port but the
\* redirect's.
Stuck == cert # {} /\ key # {} /\ "cut" \in cert \cup key
ComesToServe == WF_vars(AuthInit) => <>[](server \in {"serving", "redirect"} \/ Stuck)

\* Once the password in the clear is gone the display stops showing it, however
\* often drawing has failed before the panel works for good, and though the
\* status may never be another.
ScreenForgets == <>[]panel => (Forgetting ~> ~Forgetting)
=============================================================================
