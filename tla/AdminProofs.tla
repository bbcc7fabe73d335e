---------------------------- MODULE AdminProofs ----------------------------
(***************************************************************************)
(* Proofs about the administrator's password (Admin), for every number of  *)
(* logins, changes and mishaps and every set of passwords.                 *)
(***************************************************************************)
EXTENDS Admin, TLAPS

ServerSteps ==
    {"off", "hash", "mark", "show", "tls", "cert", "key", "key cut", "load", "bind", "serving", "redirect"}
Steps == {"idle", "verify login", "verify change"} \cup Changing \cup Rehashing
Pws == Chosen \cup {First, "old", "cut"}
Hashes == [pw : Pws, heavy : BOOLEAN]

\* What a request holds: the password sent, and the one it will write.
Bound == Changing \cup {"verify change", "re-truncate", "re-write"}
RequestTypes ==
    /\ pc \in [Request -> Steps]
    /\ given \in [Request -> SUBSET Pws] /\ new \in [Request -> SUBSET Pws]
    /\ \A r \in Request : pc[r] # "idle" => \E pw \in Pws : given[r] = {pw}
    /\ \A r \in Request : pc[r] \in Bound => \E pw \in Pws : new[r] = {pw}

Types ==
    /\ server \in ServerSteps
    /\ auth \subseteq Hashes /\ marker \in BOOLEAN /\ initial \subseteq {First} /\ made \subseteq {First}
    /\ RequestTypes
    /\ acked \in [pw : Pws, chosen : BOOLEAN]
    /\ missed \subseteq {"marker", "initial"}
    /\ interrupted \in BOOLEAN /\ muddled \in BOOLEAN
    /\ server # "serving" => Idle

(* The first boot, from AUTH_FILE's creation to the password for the       *)
(* display.                                                                *)
BootSafe ==
    /\ auth = {} => acked = Unset /\ ~Busy(Changing) /\ ~Busy(Rehashing)
    /\ server = "hash" => acked = Unset
    /\ server \in {"mark", "show"} => acked = Generated
    /\ server \in {"hash", "mark", "show"} => made = {First}

(* The marker and the password in the clear: as the last password written  *)
(* wants them, unless somebody is still about to see to that or the last   *)
(* operation on the file failed.                                           *)
ShownSafe ==
    /\ acked = Unset \/ acked = Generated \/ acked.chosen
    /\ acked = Unset => initial = {} /\ ~marker
    /\ acked = Generated =>
         /\ "initial" \in missed \/ server \in {"mark", "show"} \/ initial = {First}
         /\ "marker" \in missed \/ server = "mark" \/ marker
    /\ acked.chosen =>
         /\ "initial" \in missed \/ Busy({"unmark", "unshow"}) \/ initial = {}
         /\ "marker" \in missed \/ Busy({"unmark"}) \/ ~marker
    /\ Busy({"unmark", "unshow"}) => acked.chosen

(* Until somebody has chosen one, no login writes, and the file is cut only *)
(* by a change in progress or one that failed.                             *)
FirstSafe ==
    acked = Generated =>
        /\ ~Heavy /\ ~Busy({"re-truncate", "re-write"})
        /\ interrupted \/ auth = {Hash(First)} \/ (auth = {Cut} /\ Busy({"write"}))

Known == BootSafe /\ ShownSafe /\ FirstSafe

(* One change at a time, and beside it no login that will still write.     *)
ChangesAlone ==
    /\ \A p, q \in Request : pc[p] \in Writing /\ pc[q] \in Writing => p = q
    /\ \A p, q \in Request : pc[p] \in Writing =>
         pc[q] \notin {"re-truncate", "re-write"} /\ (pc[q] = "re-read" => ~Heavy)

(* What is in the file: the hash of the password written last, or what a   *)
(* login that will write that again or the change in progress has cut.     *)
HashOf(h) == auth = {h} /\ h.pw = acked.pw
FileSafe ==
    /\ ~Busy(Writing) => \/ auth = {}
                         \/ \E h \in Hashes : HashOf(h)
                         \/ auth = {Cut} /\ Busy({"re-write"})
    /\ \A r \in Request : pc[r] = "truncate" => \E h \in Hashes : HashOf(h)
    /\ \A r \in Request : pc[r] = "write" => auth = {Cut}

\* What logins will write.
HandsSafe ==
    /\ \A r \in Request : pc[r] \in {"re-truncate", "re-write"} => new[r] = {acked.pw}
    /\ \A r \in Request : pc[r] = "re-read" /\ Heavy => given[r] = {acked.pw}

Established == ChangesAlone /\ FileSafe /\ HandsSafe
Safe == ~interrupted /\ ~muddled => Established

-----------------------------------------------------------------------------
(***************************************************************************)
(* Types.                                                                  *)
(***************************************************************************)
LEMMA HashTypes == Cut \in Hashes /\ \A pw \in Pws : Hash(pw) \in Hashes
  BY DEF Cut, Hashes, Hash, Pws

LEMMA PasswordTypes == /\ Unset \in [pw : Pws, chosen : BOOLEAN] /\ Generated \in [pw : Pws, chosen : BOOLEAN]
                       /\ \A pw \in Pws : ChosenPw(pw) \in [pw : Pws, chosen : BOOLEAN]
  BY DEF Unset, Generated, ChosenPw, Pws

LEMMA InitTypes == Init => Types
  <1> SUFFICES ASSUME Init PROVE Types
    OBVIOUS
  <1>1. auth \subseteq Hashes
    BY DEF Init, Hashes, Pws
  <1>2. acked \in [pw : Pws, chosen : BOOLEAN]
    BY PasswordTypes DEF Init, Pws
  <1>3. pc \in [Request -> Steps] /\ Idle
    BY DEF Init, Steps, Idle
  <1>4. RequestTypes
    BY <1>3 DEF Init, RequestTypes, Idle, Bound, Changing, Writing
  <1> QED
    BY <1>1, <1>2, <1>3, <1>4 DEF Init, Types, ServerSteps, Idle

\* The start of the service moves no request.
Starting == AuthInit \/ Boot

LEMMA StartMoves ==
    ASSUME Types, Starting
    PROVE  /\ UNCHANGED request /\ UNCHANGED <<interrupted, muddled>> /\ Idle /\ Idle'
           /\ server \in {"off", "hash", "mark", "show", "tls", "cert", "key", "key cut", "load", "bind"}
           /\ server' \in ServerSteps
  <1>1. /\ UNCHANGED request /\ UNCHANGED <<interrupted, muddled>>
        /\ server \in {"off", "hash", "mark", "show", "tls", "cert", "key", "key cut", "load", "bind"}
        /\ server' \in ServerSteps
    BY DEF Starting, Boot, AuthInit, WriteHash, HashWritten, HashLost, Mark, Show, TlsInit, WriteCert, CutKey,
           WriteKey, LoadTls, Bind, Step, history, ServerSteps
  <1> QED
    BY <1>1 DEF Types, Idle, request

LEMMA StartTypes == Types /\ Starting => Types'
  <1> SUFFICES ASSUME Types, Starting PROVE Types'
    OBVIOUS
  <1>1. RequestTypes' /\ Idle' /\ interrupted' \in BOOLEAN /\ muddled' \in BOOLEAN /\ server' \in ServerSteps
    BY StartMoves DEF Types, RequestTypes, request
  <1>2. CASE AuthInit
    BY <1>1, <1>2, HashTypes DEF AuthInit, history, Types
  <1>3. CASE WriteHash
    <2>1. auth' \subseteq Hashes /\ acked' \in [pw : Pws, chosen : BOOLEAN]
      BY <1>3, HashTypes, PasswordTypes DEF WriteHash, HashWritten, HashLost, Types, Pws
    <2> QED
      BY <1>1, <1>3, <2>1 DEF WriteHash, HashWritten, HashLost, Types
  <1>4. CASE Mark
    BY <1>1, <1>4 DEF Mark, Done, NotDone, Types
  <1>5. CASE Show
    BY <1>1, <1>5 DEF Show, Done, NotDone, Types
  <1>6. CASE TlsInit \/ WriteCert \/ CutKey \/ WriteKey \/ LoadTls \/ Bind
    BY <1>1, <1>6 DEF TlsInit, WriteCert, CutKey, WriteKey, LoadTls, Bind, files, history, Types
  <1> QED
    BY <1>2, <1>3, <1>4, <1>5, <1>6 DEF Starting, Boot

LEMMA EndTypes == Types /\ End => Types'
  <1> SUFFICES ASSUME Types, End PROVE Types'
    OBVIOUS
  <1>1. RequestTypes' /\ Idle'
    BY DEF End, RequestTypes, Idle, Steps, Bound, Changing, Writing
  <1>2. missed' \subseteq {"marker", "initial"}
    BY DEF End, Types
  <1> QED
    BY <1>1, <1>2 DEF Types, End, ServerSteps, files

\* A request's own data stay of their types, if its step has what it needs.
LEMMA AnswerTypes ==
    ASSUME RequestTypes, NEW r \in Request, Answer(r)
    PROVE  RequestTypes'
  BY DEF RequestTypes, Answer, Steps, Bound, Changing, Writing

LEMMA MoveTypes ==
    ASSUME RequestTypes, NEW r \in Request, NEW step \in Steps, pc' = [pc EXCEPT ![r] = step],
           UNCHANGED <<given, new>>, pc[r] # "idle",
           step \in Bound => pc[r] \in Bound
    PROVE  RequestTypes'
  BY DEF RequestTypes

\* While the service serves, types are what the request and the files make of them.
LEMMA ServingTypes ==
    ASSUME Types, RequestTypes', server = "serving", UNCHANGED service,
           auth' \subseteq Hashes, marker' \in BOOLEAN, initial' \subseteq {First},
           acked' \in [pw : Pws, chosen : BOOLEAN], missed' \subseteq {"marker", "initial"},
           interrupted' \in BOOLEAN, muddled' \in BOOLEAN
    PROVE  Types'
  BY DEF Types, service

RequestStep(r) == Login(r) \/ Change(r) \/ Serve(r) \/ WriteFails(r)

LEMMA Serving ==
    ASSUME Types, NEW r \in Request, RequestStep(r)
    PROVE  server = "serving" /\ UNCHANGED service
  BY DEF RequestStep, Login, Change, Arrive, Serve, Verify, Rehash, TruncateAuth, FillAuth, Unmark, Unshow,
         WriteFails, Types, Idle

LEMMA RequestStepTypes ==
    ASSUME Types, NEW r \in Request, RequestStep(r)
    PROVE  Types'
  <1>0. RequestTypes
    BY DEF Types
  <1>1. server = "serving" /\ UNCHANGED service
    BY Serving
  <1>2. CASE Login(r)
    <2>1. PICK pw \in Chosen \cup {First, "old"} :
            /\ pc' = [pc EXCEPT ![r] = "verify login"]
            /\ given' = [given EXCEPT ![r] = {pw}] /\ new' = new
      BY <1>2 DEF Login, Arrive
    <2>2. pw \in Pws
      BY <2>1 DEF Pws
    <2>3. RequestTypes'
      BY <1>0, <2>1, <2>2 DEF RequestTypes, Steps, Bound, Changing, Writing
    <2> QED
      BY <1>1, <1>2, <2>3, ServingTypes DEF Login, files, Types
  <1>3. CASE Change(r)
    <2>1. PICK pw \in Chosen \cup {First, "old"}, next \in Chosen :
            /\ pc' = [pc EXCEPT ![r] = "verify change"]
            /\ given' = [given EXCEPT ![r] = {pw}] /\ new' = [new EXCEPT ![r] = {next}]
      BY <1>3 DEF Change, Arrive
    <2>2. pw \in Pws /\ next \in Pws
      BY <2>1 DEF Pws
    <2>3. RequestTypes'
      BY <1>0, <2>1, <2>2 DEF RequestTypes, Steps
    <2> QED
      BY <1>1, <1>3, <2>3, ServingTypes DEF Change, files, Types
  <1>4. CASE Verify(r)
    <2>1. CASE given[r] = Passwords(auth)
      <3>1. CASE pc[r] = "verify login"
        <4>1. RequestTypes'
          BY <1>0, <1>4, <2>1, <3>1, MoveTypes DEF Verify, Steps, Bound, Changing, Writing, Rehashing
        <4> QED
          BY <1>1, <1>4, <4>1, <2>1, ServingTypes DEF Verify, files, Types
      <3>2. CASE pc[r] = "verify change"
        <4>1. RequestTypes'
          BY <1>0, <1>4, <2>1, <3>2, MoveTypes DEF Verify, Steps, Bound, Changing, Writing
        <4> QED
          BY <1>1, <1>4, <4>1, <2>1, ServingTypes DEF Verify, files, Types
      <3> QED
        BY <1>4, <3>1, <3>2 DEF Verify
    <2>2. CASE given[r] # Passwords(auth)
      <3>1. RequestTypes'
        BY <1>0, <1>4, <2>2, AnswerTypes DEF Verify
      <3> QED
        BY <1>1, <1>4, <2>2, <3>1, ServingTypes DEF Verify, files, Types
    <2> QED
      BY <2>1, <2>2
  <1>5. CASE Rehash(r)
    <2>1. CASE ~Heavy
      <3>1. RequestTypes'
        BY <1>0, <1>5, <2>1, AnswerTypes DEF Rehash
      <3> QED
        BY <1>1, <1>5, <3>1, ServingTypes DEF Rehash, files, history, Types
    <2>2. CASE Heavy
      <3>1. PICK pw \in Pws : given[r] = {pw}
        BY <1>0, <1>5 DEF Rehash, RequestTypes
      <3>2. /\ pc[r] = "re-read" /\ pc' = [pc EXCEPT ![r] = "re-truncate"]
            /\ new' = [new EXCEPT ![r] = {pw}] /\ given' = given
        BY <1>5, <2>2, <3>1 DEF Rehash
      <3>3. RequestTypes'
        BY <1>0, <3>1, <3>2 DEF RequestTypes, Steps, Rehashing
      <3> QED
        BY <1>1, <1>5, <3>3, ServingTypes DEF Rehash, files, history, Types
    <2> QED
      BY <2>1, <2>2
  <1>6. CASE TruncateAuth(r)
    <2>1. RequestTypes'
      BY <1>0, <1>6, MoveTypes DEF TruncateAuth, Steps, Bound, Changing, Writing, Rehashing
    <2> QED
      BY <1>1, <1>6, <2>1, HashTypes, ServingTypes DEF TruncateAuth, history, Types
  <1>7. CASE FillAuth(r)
    <2>1. RequestTypes'
      BY <1>0, <1>7, MoveTypes, AnswerTypes DEF FillAuth, Steps, Bound, Changing, Writing
    <2>2. auth' \subseteq Hashes
      BY ZenonT(30), <1>0, <1>7, HashTypes DEF FillAuth, RequestTypes
    <2>3. acked' \in [pw : Pws, chosen : BOOLEAN]
      <3>1. CASE pc[r] = "write"
        <4>1. PICK pw \in Pws : new[r] = {pw}
          BY <1>0, <3>1 DEF RequestTypes, Bound, Changing, Writing
        <4> QED
          BY <1>7, <3>1, <4>1, PasswordTypes DEF FillAuth
      <3>2. CASE pc[r] # "write"
        BY <1>7, <3>2 DEF FillAuth, Types
      <3> QED
        BY <3>1, <3>2
    <2> QED
      BY <1>1, <1>7, <2>1, <2>2, <2>3, ServingTypes DEF FillAuth, Types
  <1>8. CASE Unmark(r)
    <2>1. RequestTypes'
      BY <1>0, <1>8, MoveTypes DEF Unmark, Steps, Bound, Changing
    <2> QED
      BY <1>1, <1>8, <2>1, ServingTypes DEF Unmark, Done, NotDone, Types
  <1>9. CASE Unshow(r)
    <2>1. RequestTypes'
      BY <1>0, <1>9, AnswerTypes DEF Unshow
    <2> QED
      BY <1>1, <1>9, <2>1, ServingTypes DEF Unshow, Done, NotDone, Types
  <1>10. CASE WriteFails(r)
    <2>1. RequestTypes'
      BY <1>0, <1>10, AnswerTypes DEF WriteFails
    <2> QED
      BY <1>1, <1>10, <2>1, ServingTypes DEF WriteFails, files, Types
  <1> QED
    BY <1>2, <1>3, <1>4, <1>5, <1>6, <1>7, <1>8, <1>9, <1>10 DEF RequestStep, Serve

\* The display, the panel and time move nothing else.
Looking == Look \/ Tick \/ Environment \/ UNCHANGED vars

LEMMA DisplayMoves ==
    ASSUME Looking
    PROVE  UNCHANGED <<service, files, request, history>>
  BY DEF Looking, Look, DrawSetup, DrawStatus, Tick, Environment, vars

LEMMA NextCases ==
    ASSUME [Next]_vars
    PROVE  Starting \/ End \/ (\E r \in Request : RequestStep(r)) \/ Looking
  BY DEF Next, Starting, RequestStep, Looking

LEMMA NextTypes == Types /\ [Next]_vars => Types'
  <1> SUFFICES ASSUME Types, [Next]_vars PROVE Types'
    OBVIOUS
  <1>1. CASE Starting \/ End
    BY <1>1, StartTypes, EndTypes
  <1>2. ASSUME NEW r \in Request, RequestStep(r)
        PROVE  Types'
    BY <1>2, RequestStepTypes
  <1>3. CASE Looking
    BY <1>3, DisplayMoves DEF service, files, request, history, Types, RequestTypes, Idle
  <1> QED
    BY <1>1, <1>2, <1>3, NextCases

(* Type correctness of the administrator's access.                         *)
THEOREM AdminTypes == AdminSpec => []Types
  BY InitTypes, NextTypes, PTL DEF AdminSpec

-----------------------------------------------------------------------------
(***************************************************************************)
(* The generated password.                                                 *)
(***************************************************************************)
LEMMA Kinds == Unset # Generated /\ ~Unset.chosen /\ ~Generated.chosen /\ \A pw : ChosenPw(pw).chosen
  BY DEF Unset, Generated, ChosenPw, First

LEMMA InitKnown == Init => Known
  <1> SUFFICES ASSUME Init PROVE Known
    OBVIOUS
  <1>1. \A r \in Request : pc[r] = "idle"
    BY DEF Init
  <1>2. ~Busy(Changing) /\ ~Busy(Rehashing) /\ ~Busy({"unmark", "unshow"})
    BY <1>1 DEF Busy, Changing, Writing, Rehashing
  <1>3. CASE auth = {}
    BY <1>2, <1>3, Kinds DEF Init, Known, BootSafe, ShownSafe, FirstSafe
  <1>4. CASE auth # {}
    <2>1. acked = ChosenPw("old") /\ server = "off" /\ marker = FALSE /\ initial = {}
      BY <1>4 DEF Init
    <2>2. acked.chosen /\ acked # Unset /\ acked # Generated
      BY <2>1, Kinds
    <2> QED
      BY <1>2, <1>4, <2>1, <2>2 DEF Known, BootSafe, ShownSafe, FirstSafe
  <1> QED
    BY <1>3, <1>4

\* A start changes only what is its own.
LEMMA StartKnown ==
    ASSUME Types, Known, Starting
    PROVE  Known'
  <1>1. Idle /\ Idle' /\ UNCHANGED pc /\ UNCHANGED interrupted
    BY StartMoves DEF request
  <1>2. \A steps \in {Changing, Rehashing, {"unmark", "unshow"}, {"unmark"}, {"re-truncate", "re-write"}, {"write"}} :
          ~Busy(steps) /\ ~Busy(steps)'
    BY <1>1 DEF Idle, Busy, Changing, Writing, Rehashing
  <1> USE Kinds
  <1>3. CASE AuthInit
    BY <1>1, <1>2, <1>3 DEF AuthInit, Known, BootSafe, ShownSafe, FirstSafe, Heavy, Cut, history
  <1>4. CASE WriteHash
    <2>1. CASE HashWritten
      <3>1. /\ server = "hash" /\ server' = "mark" /\ auth' = {Hash(First)} /\ acked' = Generated
            /\ UNCHANGED <<made, missed, marker, initial>> /\ auth' # {}
        BY <1>4, <2>1 DEF WriteHash, HashWritten, Step
      <3>2. ~Heavy'
        BY <3>1 DEF Heavy, Hash
      <3>3. BootSafe' /\ FirstSafe'
        BY <1>2, <3>1, <3>2 DEF Known, BootSafe, FirstSafe
      <3>4. ShownSafe'
        BY <1>2, <3>1 DEF Known, ShownSafe
      <3> QED
        BY <3>3, <3>4 DEF Known
    <2>2. CASE HashLost
      BY <1>1, <1>2, <1>4, <2>2 DEF WriteHash, HashLost, Step, Known, BootSafe, ShownSafe, FirstSafe, Heavy
    <2> QED
      BY <1>4, <2>1, <2>2 DEF WriteHash
  <1>5. CASE Mark
    BY <1>1, <1>2, <1>5 DEF Mark, Done, NotDone, Step, Known, BootSafe, ShownSafe, FirstSafe, Heavy
  <1>6. CASE Show
    BY <1>1, <1>2, <1>6 DEF Show, Done, NotDone, Step, Known, BootSafe, ShownSafe, FirstSafe, Heavy
  <1>7. CASE TlsInit \/ WriteCert \/ CutKey \/ WriteKey \/ LoadTls \/ Bind
    <2>1. /\ UNCHANGED <<auth, marker, initial, made, acked, missed>>
          /\ server \notin {"hash", "mark", "show"} /\ server' \notin {"hash", "mark", "show"}
      BY <1>7 DEF TlsInit, WriteCert, CutKey, WriteKey, LoadTls, Bind, Step, files, history
    <2> QED
      BY <1>1, <1>2, <2>1 DEF Known, BootSafe, ShownSafe, FirstSafe, Heavy
  <1> QED
    BY <1>3, <1>4, <1>5, <1>6, <1>7 DEF Starting, Boot

\* An end of the service leaves undone what was in hand.
LEMMA EndKnown ==
    ASSUME Types, Known, End
    PROVE  Known'
  <1>1. UNCHANGED <<auth, marker, initial, acked>> /\ server' = "off" /\ Idle'
    BY DEF End, files, Idle
  <1>2. \A steps \in {Changing, Rehashing, {"unmark", "unshow"}, {"unmark"}, {"re-truncate", "re-write"}, {"write"}} :
          ~Busy(steps)'
    BY <1>1 DEF Idle, Busy, Changing, Writing, Rehashing
  <1>3. BootSafe'
    BY <1>1, <1>2 DEF Known, BootSafe
  <1>4. /\ missed \subseteq missed'
        /\ server \in {"mark", "show"} => "initial" \in missed'
        /\ server = "mark" => "marker" \in missed'
        /\ Busy({"unmark", "unshow"}) => "initial" \in missed'
        /\ Busy({"unmark"}) => "marker" \in missed'
    BY DEF End, Busy
  <1>5. ShownSafe'
    BY <1>1, <1>2, <1>4 DEF Known, ShownSafe
  <1>6. Busy({"write"}) => interrupted'
    BY DEF End, Busy
  <1>7. interrupted => interrupted'
    BY DEF End
  <1>8. FirstSafe'
    BY <1>1, <1>2, <1>6, <1>7 DEF Known, FirstSafe, Heavy
  <1> QED
    BY <1>3, <1>5, <1>8 DEF Known

\* A step of a request that leaves the password, the marker and the display's file.
LEMMA QuietKnown ==
    ASSUME Types, Known, NEW r \in Request, NEW step \in Steps, server = "serving", server' = server,
           pc' = [pc EXCEPT ![r] = step],
           UNCHANGED <<marker, initial, acked, missed>>,
           auth # {}, auth' # {}, pc[r] \notin {"unmark", "unshow"}, step \notin {"unmark", "unshow"},
           acked = Generated => /\ ~Heavy' /\ step \notin {"re-truncate", "re-write"}
                                /\ interrupted' \/ auth' = {Hash(First)} \/ (auth' = {Cut} /\ Busy({"write"})')
    PROVE  Known'
  <1>1. pc \in [Request -> Steps]
    BY DEF Types, RequestTypes
  <1>2. /\ Busy({"unmark", "unshow"})' <=> Busy({"unmark", "unshow"})
        /\ Busy({"unmark"})' <=> Busy({"unmark"})
    BY <1>1 DEF Busy
  <1>3. BootSafe' /\ ShownSafe'
    BY <1>2 DEF Known, BootSafe, ShownSafe
  <1>4. ASSUME acked = Generated PROVE ~Busy({"re-truncate", "re-write"})'
    BY <1>1, <1>4 DEF Known, FirstSafe, Busy
  <1>5. FirstSafe'
    BY <1>4 DEF FirstSafe
  <1> QED
    BY <1>3, <1>5 DEF Known

\* One that does not touch the file of the hash either, nor a request at work on it.
LEMMA QuietestKnown ==
    ASSUME Types, Known, NEW r \in Request, NEW step \in Steps, server = "serving", server' = server,
           pc' = [pc EXCEPT ![r] = step],
           UNCHANGED <<auth, marker, initial, acked, missed>>,
           auth = {} => step \in {"idle", "verify login", "verify change"},
           pc[r] \notin {"unmark", "unshow"}, step \notin {"unmark", "unshow"},
           acked = Generated => step \notin {"re-truncate", "re-write"},
           interrupted => interrupted', pc[r] = "write" => interrupted'
    PROVE  Known'
  <1>1. pc \in [Request -> Steps]
    BY DEF Types, RequestTypes
  <1>2. CASE auth = {}
    <2>1. acked = Unset /\ acked' = Unset /\ acked # Generated
      BY <1>2, Kinds DEF Known, BootSafe
    <2>2. ~Busy(Changing)' /\ ~Busy(Rehashing)'
      BY <1>1, <1>2 DEF Known, BootSafe, Busy, Changing, Writing, Rehashing
    <2>3. ~Busy({"unmark", "unshow"})'
      BY <2>2 DEF Busy, Changing
    <2> QED
      BY <2>1, <2>2, <2>3, Kinds DEF Known, BootSafe, ShownSafe, FirstSafe
  <1>3. CASE auth # {}
    <2>1. Heavy' <=> Heavy
      BY DEF Heavy
    <2>2. Busy({"write"}) => Busy({"write"})' \/ interrupted'
      BY <1>1 DEF Busy
    <2> QED
      BY <1>3, <2>1, <2>2, QuietKnown DEF Known, FirstSafe
  <1> QED
    BY <1>2, <1>3

LEMMA RequestKnown ==
    ASSUME Types, Known, NEW r \in Request, RequestStep(r)
    PROVE  Known'
  <1>0. server = "serving" /\ server' = server /\ pc \in [Request -> Steps]
    BY Serving DEF service, Types, RequestTypes
  <1>1. CASE Login(r) \/ Change(r)
    <2>1. PICK step \in {"verify login", "verify change"} : Arrive(r, step)
      BY <1>1 DEF Login, Change
    <2>2. UNCHANGED <<auth, marker, initial, acked, missed, interrupted>> /\ step \in Steps
      BY <1>1, <2>1 DEF Login, Change, files, Steps
    <2> QED
      BY <1>0, <2>1, <2>2, QuietestKnown DEF Arrive
  <1>2. CASE Verify(r)
    <2>1. UNCHANGED <<auth, marker, initial, acked, missed, interrupted>> /\ pc[r] \in {"verify login", "verify change"}
      BY <1>2 DEF Verify, files
    <2>2. PICK step \in {"idle", "truncate", "re-read"} :
            pc' = [pc EXCEPT ![r] = step] /\ (step # "idle" => given[r] = Passwords(auth))
      BY <1>2 DEF Verify, Answer
    <2>3. auth = {} => step = "idle"
      <3>1. auth = {} => Passwords(auth) = {}
        BY DEF Passwords
      <3>2. given[r] # {}
        BY <2>1 DEF Types, RequestTypes
      <3> QED
        BY <2>2, <3>1, <3>2
    <2>4. step \in Steps
      BY DEF Steps, Changing, Writing, Rehashing
    <2> QED
      BY <1>0, <2>1, <2>2, <2>3, <2>4, QuietestKnown
  <1>3. CASE Rehash(r)
    <2>1. /\ UNCHANGED <<auth, marker, initial, acked, missed, interrupted>> /\ pc[r] = "re-read"
          /\ (pc' = [pc EXCEPT ![r] = "re-truncate"] /\ Heavy) \/ pc' = [pc EXCEPT ![r] = "idle"]
      BY <1>3 DEF Rehash, files, history, Answer
    <2>2. auth # {}
      BY <2>1 DEF Known, BootSafe, Busy, Rehashing
    <2>3. acked = Generated => ~Heavy
      BY DEF Known, FirstSafe
    <2>4. "re-truncate" \in Steps /\ "idle" \in Steps
      BY DEF Steps, Rehashing
    <2> QED
      BY <1>0, <2>1, <2>2, <2>3, <2>4, QuietestKnown
  <1>4. CASE TruncateAuth(r)
    <2>1. /\ UNCHANGED <<marker, initial, acked, missed, interrupted>> /\ auth' = {Cut}
          /\ \/ pc[r] = "truncate" /\ pc' = [pc EXCEPT ![r] = "write"]
             \/ pc[r] = "re-truncate" /\ pc' = [pc EXCEPT ![r] = "re-write"]
      BY <1>4 DEF TruncateAuth, history
    <2>2. auth # {}
      BY <2>1 DEF Known, BootSafe, Busy, Rehashing, Changing, Writing
    <2>3. ~Heavy' /\ auth' # {}
      BY <2>1 DEF Heavy, Cut
    <2>4. CASE pc[r] = "truncate" /\ pc' = [pc EXCEPT ![r] = "write"]
      <3>1. Busy({"write"})'
        BY <1>0, <2>4 DEF Busy
      <3>2. "write" \in Steps
        BY DEF Steps, Changing, Writing
      <3> QED
        BY <1>0, <2>1, <2>2, <2>3, <2>4, <3>1, <3>2, QuietKnown
    <2>5. CASE pc[r] = "re-truncate" /\ pc' = [pc EXCEPT ![r] = "re-write"]
      <3>1. acked # Generated
        BY <2>5 DEF Known, FirstSafe, Busy
      <3>2. "re-write" \in Steps
        BY DEF Steps, Rehashing
      <3> QED
        BY <1>0, <2>1, <2>2, <2>3, <2>5, <3>1, <3>2, QuietKnown
    <2> QED
      BY <2>1, <2>4, <2>5
  <1>5. CASE FillAuth(r)
    <2>1. /\ UNCHANGED <<marker, initial, missed, interrupted>> /\ auth' = {Hash(pw) : pw \in new[r]}
          /\ pc[r] \in {"write", "re-write"}
      BY <1>5 DEF FillAuth
    <2>2. PICK pw \in Pws : new[r] = {pw}
      BY <2>1 DEF Types, RequestTypes, Bound, Changing, Writing
    <2>3. auth' = {Hash(pw)} /\ auth # {}
      BY <2>1, <2>2 DEF Known, BootSafe, Busy, Rehashing, Changing, Writing
    <2>4. CASE pc[r] = "write"
      <3>1. pc' = [pc EXCEPT ![r] = "unmark"] /\ acked'.chosen
        BY <1>5, <2>4, Kinds DEF FillAuth
      <3>2. acked' # Unset /\ acked' # Generated
        BY <3>1, Kinds
      <3>3. Busy({"unmark", "unshow"})' /\ Busy({"unmark"})'
        BY <1>0, <3>1 DEF Busy
      <3> QED
        BY <1>0, <2>3, <3>1, <3>2, <3>3 DEF Known, BootSafe, ShownSafe, FirstSafe
    <2>5. CASE pc[r] = "re-write"
      <3>1. pc' = [pc EXCEPT ![r] = "idle"] /\ acked' = acked
        BY <1>5, <2>5 DEF FillAuth, Answer
      <3>2. acked # Generated /\ "idle" \in Steps
        BY <2>5 DEF Known, FirstSafe, Busy, Steps
      <3> QED
        BY <1>0, <2>1, <2>3, <2>5, <3>1, <3>2, QuietKnown
    <2> QED
      BY <2>1, <2>4, <2>5
  <1>6. CASE Unmark(r) \/ Unshow(r)
    <2>1. UNCHANGED <<auth, acked, interrupted>> /\ pc[r] \in {"unmark", "unshow"}
      BY <1>6 DEF Unmark, Unshow
    <2>2. acked.chosen /\ acked' # Unset /\ acked' # Generated /\ auth' # {}
      <3>1. acked.chosen /\ auth # {}
        BY <2>1 DEF Known, BootSafe, ShownSafe, Busy, Changing
      <3> QED
        BY <2>1, <3>1, Kinds
    <2>3. CASE Unmark(r)
      <3>1. /\ UNCHANGED initial /\ Busy({"unmark", "unshow"})' /\ missed \ {"marker"} \subseteq missed'
            /\ "marker" \in missed' \/ ~marker'
        BY <1>0, <2>3 DEF Unmark, Done, NotDone, Busy
      <3> QED
        BY <1>0, <2>1, <2>2, <3>1 DEF Known, BootSafe, ShownSafe, FirstSafe
    <2>4. CASE Unshow(r)
      <3>1. /\ UNCHANGED marker /\ missed \ {"initial"} \subseteq missed'
            /\ "initial" \in missed' \/ initial' = {}
            /\ Busy({"unmark"})' <=> Busy({"unmark"})
        BY <1>0, <2>4 DEF Unshow, Answer, Done, NotDone, Busy
      <3> QED
        BY <1>0, <2>1, <2>2, <3>1 DEF Known, BootSafe, ShownSafe, FirstSafe
    <2> QED
      BY <1>6, <2>3, <2>4
  <1>7. CASE WriteFails(r)
    <2>1. /\ UNCHANGED <<auth, marker, initial, acked, missed>> /\ pc' = [pc EXCEPT ![r] = "idle"]
          /\ pc[r] \notin {"unmark", "unshow"} /\ "idle" \in Steps
      BY <1>7 DEF WriteFails, Answer, files, Steps
    <2>2. (interrupted => interrupted') /\ (pc[r] = "write" => interrupted')
      BY <1>7 DEF WriteFails
    <2> QED
      BY <1>0, <2>1, <2>2, QuietestKnown
  <1> QED
    BY <1>1, <1>2, <1>3, <1>4, <1>5, <1>6, <1>7 DEF RequestStep, Serve

LEMMA NextKnown == Types /\ Known /\ [Next]_vars => Known'
  <1> SUFFICES ASSUME Types, Known, [Next]_vars PROVE Known'
    OBVIOUS
  <1>1. CASE Starting \/ End
    BY <1>1, StartKnown, EndKnown
  <1>2. ASSUME NEW r \in Request, RequestStep(r)
        PROVE  Known'
    BY <1>2, RequestKnown
  <1>3. CASE Looking
    BY <1>3, DisplayMoves
    DEF service, files, request, history, Known, BootSafe, ShownSafe, FirstSafe, Busy, Heavy
  <1> QED
    BY <1>1, <1>2, <1>3, NextCases

(* The generated password and its marker stand from the first boot until   *)
(* somebody has chosen a password, unless the last operation on the very   *)
(* file failed, and the one shown opens the device (auth::init,            *)
(* on_password_changed).                                                   *)
THEOREM GeneratedPasswordKnown == AdminSpec => []FirstPasswordKnown
  <1>1. Types /\ Known => FirstPasswordKnown
    <2> SUFFICES ASSUME Types, Known, Settled
                 PROVE  /\ "initial" \in missed \/ initial = (IF acked = Generated THEN {First} ELSE {})
                        /\ "marker" \in missed \/ (marker <=> acked = Generated)
                        /\ acked.chosen \/ interrupted \/ initial \subseteq Passwords(auth)
      BY DEF FirstPasswordKnown
    <2>1. server = "serving" /\ ~Busy({"unmark", "unshow"}) /\ ~Busy({"unmark"}) /\ ~Busy({"write"})
      BY DEF Settled, Busy, Changing, Writing
    <2>2. CASE acked = Generated
      <3>1. interrupted \/ First \in Passwords(auth)
        BY <2>1, <2>2 DEF Known, FirstSafe, Passwords, Hash
      <3>2. initial = {} \/ initial = {First}
        BY <2>1, <2>2 DEF Known, ShownSafe, Types
      <3> QED
        BY <2>1, <2>2, <3>1, <3>2 DEF Known, ShownSafe
    <2>3. CASE acked # Generated
      BY <2>1, <2>3, Kinds DEF Known, ShownSafe
    <2> QED
      BY <2>2, <2>3
  <1> QED
    BY <1>1, InitKnown, AdminTypes, NextKnown, PTL DEF AdminSpec

-----------------------------------------------------------------------------
(***************************************************************************)
(* The password that was written last.                                     *)
(***************************************************************************)
\* With no request there is only the file.
AtRest == auth = {} \/ \E h \in Hashes : HashOf(h)

LEMMA RestEstablished == Idle => (Established <=> AtRest)
  BY DEF Idle, AtRest, Established, Busy, ChangesAlone, HandsSafe, FileSafe, Writing

LEMMA RestEstablishedAfter == Idle' => (Established' <=> AtRest')
  BY RestEstablished, PTL

LEMMA InitSafe == Init => Safe
  <1> SUFFICES ASSUME Init PROVE Safe
    OBVIOUS
  <1>1. Idle
    BY DEF Init, Idle
  <1>2. ASSUME auth # {} PROVE AtRest
    <2>1. PICK h \in BOOLEAN : auth = {[pw |-> "old", heavy |-> h]}
      BY <1>2 DEF Init
    <2>2. acked = ChosenPw("old")
      BY <1>2 DEF Init
    <2>3. HashOf([pw |-> "old", heavy |-> h]) /\ [pw |-> "old", heavy |-> h] \in Hashes
      BY <2>1, <2>2 DEF HashOf, ChosenPw, Hashes, Pws
    <2> QED
      BY <2>3 DEF AtRest
  <1> QED
    BY <1>1, <1>2, RestEstablished DEF Safe, AtRest

\* The first boot truncates a file when no password is set, and writes the one it
\* has made.
LEMMA StartSafe ==
    ASSUME Types, Known, Safe, Starting
    PROVE  Safe'
  <1>0. UNCHANGED <<interrupted, muddled>> /\ Idle /\ Idle'
    BY StartMoves
  <1>1. SUFFICES ASSUME AtRest PROVE AtRest'
    BY <1>0, RestEstablished, RestEstablishedAfter DEF Safe
  <1>2. CASE UNCHANGED <<auth, acked>>
    BY <1>1, <1>2 DEF AtRest, HashOf
  <1>3. CASE AuthInit /\ auth = {} /\ auth' = {Cut}
    <2>1. acked' = Unset
      BY <1>3 DEF AuthInit, history, Known, BootSafe
    <2>2. HashOf(Cut)'
      BY <1>3, <2>1 DEF HashOf, Cut, Unset
    <2> QED
      BY <2>2, HashTypes DEF AtRest
  <1>4. CASE WriteHash /\ HashWritten
    <2>1. HashOf(Hash(First))' /\ Hash(First) \in Hashes
      BY <1>4, HashTypes DEF HashWritten, HashOf, Hash, Generated, Pws
    <2> QED
      BY <2>1 DEF AtRest
  <1> QED
    BY <1>2, <1>3, <1>4 DEF Starting, Boot, AuthInit, WriteHash, HashLost, Mark, Show, TlsInit, WriteCert, CutKey,
       WriteKey, LoadTls, Bind, files, history

\* An end of the service that leaves the file whole.
LEMMA EndSafe ==
    ASSUME Types, Safe, End
    PROVE  Safe'
  <1>1. SUFFICES ASSUME ~interrupted', ~muddled' PROVE Established'
    BY DEF Safe
  <1>2. ~interrupted /\ ~muddled /\ ~Busy({"write", "re-write"})
    BY <1>1 DEF End
  <1>3. Established
    BY <1>2 DEF Safe
  <1>4. UNCHANGED <<auth, acked>> /\ Idle'
    BY DEF End, files, Idle
  <1>5. AtRest
    BY <1>2, <1>3 DEF Established, FileSafe, Busy, Writing, AtRest
  <1> QED
    BY <1>4, <1>5, RestEstablishedAfter DEF AtRest, HashOf

\* What a step of a request leaves: its own next step, and everybody else's.
Moves(r, step) ==
    /\ pc' = [pc EXCEPT ![r] = step]
    /\ \A q \in Request : q # r => given'[q] = given[q] /\ new'[q] = new[q]

\* Established spelt out after a step of r, for the steps of the others do not change.
LEMMA MoveEstablished ==
    ASSUME Types, Established, NEW r \in Request, NEW step \in Steps, Moves(r, step),
           step \in Writing =>
             \A q \in Request : q # r =>
               pc[q] \notin Writing \cup {"re-truncate", "re-write"} /\ (pc[q] = "re-read" => ~Heavy'),
           step \in {"re-truncate", "re-write"} \/ (step = "re-read" /\ Heavy') =>
             \A q \in Request : q # r => pc[q] \notin Writing,
           Heavy' => Heavy,
           FileSafe', HandsSafe'
    PROVE  Established'
  <1>1. pc' = [pc EXCEPT ![r] = step] /\ pc \in [Request -> Steps]
    BY DEF Types, RequestTypes, Moves
  <1>2. ChangesAlone
    BY DEF Established
  <1>3. \A p, q \in Request : pc'[p] \in Writing /\ pc'[q] \in Writing => p = q
    BY <1>1, <1>2 DEF ChangesAlone
  <1>4. ASSUME NEW p \in Request, NEW q \in Request, pc'[p] \in Writing
        PROVE  pc'[q] \notin {"re-truncate", "re-write"} /\ (pc'[q] = "re-read" => ~Heavy')
    <2>1. CASE p = q
      BY <1>4, <2>1 DEF Writing
    <2>2. CASE p # q /\ p = r
      BY <1>1, <1>4, <2>2
    <2>3. CASE p # q /\ q = r
      BY <1>1, <1>4, <2>3
    <2>4. CASE p # q /\ p # r /\ q # r
      BY <1>1, <1>2, <1>4, <2>4 DEF ChangesAlone
    <2> QED
      BY <2>1, <2>2, <2>3, <2>4
  <1>5. ChangesAlone'
    BY <1>3, <1>4 DEF ChangesAlone
  <1> QED
    BY <1>5 DEF Established

\* A request that goes from one harmless step to another: nothing is written.
Harmless == {"idle", "verify login", "verify change", "re-read", "unmark", "unshow"}

LEMMA HarmlessEstablished ==
    ASSUME Types, Established, NEW r \in Request, NEW step \in Harmless, Moves(r, step),
           pc[r] \in Harmless, UNCHANGED <<auth, acked>>,
           step = "re-read" /\ Heavy => given'[r] = {acked.pw} /\ ~Busy(Writing)
    PROVE  Established'
  <1>1. pc' = [pc EXCEPT ![r] = step] /\ pc \in [Request -> Steps] /\ step \in Steps
    BY DEF Types, RequestTypes, Moves, Harmless, Steps, Changing, Rehashing
  <1>2. \A q \in Request : \A s \in {"truncate", "write", "re-truncate", "re-write"} :
          pc'[q] = s <=> (pc[q] = s /\ q # r)
    BY <1>1 DEF Harmless
  <1>3. /\ Busy(Writing)' <=> Busy(Writing)
        /\ Busy({"re-write"})' <=> Busy({"re-write"})
        /\ Heavy' <=> Heavy
    BY <1>1, <1>2 DEF Busy, Writing, Harmless, Heavy
  <1>4. \A h : HashOf(h)' <=> HashOf(h)
    BY DEF HashOf
  <1>5. FileSafe'
    BY <1>2, <1>3, <1>4 DEF Established, FileSafe, Moves
  <1>6. HandsSafe'
    BY <1>1, <1>2, <1>3 DEF Established, HandsSafe, Moves
  <1> QED
    BY <1>1, <1>3, <1>5, <1>6, MoveEstablished DEF Harmless, Writing, Busy

\* What has no change beside it and no re-hash half-way is the acknowledged
\* password's file.
LEMMA Readable ==
    ASSUME Established, ~Busy(Writing), Heavy \/ ~Busy({"re-write"}), auth # {}
    PROVE  \E h \in Hashes : HashOf(h) /\ Passwords(auth) = {acked.pw}
  <1>1. ~(auth = {Cut} /\ Busy({"re-write"}))
    BY DEF Heavy, Cut
  <1>2. PICK h \in Hashes : HashOf(h)
    BY <1>1 DEF Established, FileSafe
  <1>3. Passwords(auth) = {acked.pw}
    BY <1>2 DEF HashOf, Passwords
  <1> QED
    BY <1>2, <1>3

LEMMA ArriveEstablished ==
    ASSUME Types, Established, NEW r \in Request, Login(r) \/ Change(r)
    PROVE  Established'
  <1>1. PICK step \in {"verify login", "verify change"} : Arrive(r, step)
    BY DEF Login, Change
  <1>2. Moves(r, step)
    BY <1>1 DEF Login, Change, Arrive, Moves, Types, RequestTypes
  <1>3. pc[r] \in Harmless /\ UNCHANGED <<auth, acked>>
    BY DEF Login, Change, Arrive, files, Harmless
  <1> QED
    BY <1>2, <1>3, HarmlessEstablished DEF Harmless

LEMMA VerifyEstablished ==
    ASSUME Types, Established, NEW r \in Request, Verify(r), ~muddled'
    PROVE  Established'
  <1>0. given[r] = Passwords(auth) => auth # {}
    <2>1. given[r] # {}
      BY DEF Verify, Types, RequestTypes
    <2> QED
      BY <2>1 DEF Passwords
  <1>1. UNCHANGED <<auth, acked>> /\ pc[r] \in {"verify login", "verify change"}
    BY DEF Verify, files
  <1>2. CASE given[r] # Passwords(auth)
    <2>1. Moves(r, "idle")
      BY <1>2 DEF Verify, Answer, Moves, Types, RequestTypes
    <2> QED
      BY <1>1, <2>1, HarmlessEstablished DEF Harmless
  <1>3. CASE given[r] = Passwords(auth) /\ pc[r] = "verify login"
    <2>1. Moves(r, "re-read") /\ UNCHANGED <<given, new>> /\ (Heavy => ~Busy(Writing))
      BY <1>3 DEF Verify, Moves
    <2>2. Heavy => given'[r] = {acked.pw}
      BY <1>0, <1>3, <2>1, Readable
    <2> QED
      BY <1>1, <2>1, <2>2, HarmlessEstablished DEF Harmless
  <1>4. CASE given[r] = Passwords(auth) /\ pc[r] = "verify change"
    <2>1. /\ Moves(r, "truncate") /\ UNCHANGED <<given, new>> /\ ~Busy(Writing) /\ ~Overtaken
          /\ pc' = [pc EXCEPT ![r] = "truncate"] /\ pc \in [Request -> Steps]
      BY <1>4 DEF Verify, Moves, Types, RequestTypes
    <2>2. PICK h \in Hashes : HashOf(h)
      BY <1>0, <1>4, <2>1, Readable DEF Overtaken, Busy
    <2>3. HashOf(h)' /\ (Heavy' <=> Heavy)
      BY <1>1, <2>2 DEF HashOf, Heavy
    <2>4. \A q \in Request : pc'[q] = IF q = r THEN "truncate" ELSE pc[q]
      BY <2>1
    <2>5. FileSafe'
      BY <2>1, <2>3, <2>4 DEF FileSafe, Busy, Writing
    <2>6. HandsSafe'
      BY <1>1, <2>1, <2>3, <2>4 DEF Established, HandsSafe
    <2> QED
      BY <2>1, <2>3, <2>5, <2>6, MoveEstablished DEF Overtaken, Busy, Steps, Changing, Writing
  <1> QED
    BY <1>1, <1>2, <1>3, <1>4

LEMMA RehashEstablished ==
    ASSUME Types, Established, NEW r \in Request, Rehash(r)
    PROVE  Established'
  <1>1. UNCHANGED <<auth, acked>> /\ pc[r] = "re-read"
    BY DEF Rehash, files, history
  <1>2. CASE ~Heavy
    <2>1. Moves(r, "idle")
      BY <1>2 DEF Rehash, Answer, Moves, Types, RequestTypes
    <2> QED
      BY <1>1, <2>1, HarmlessEstablished DEF Harmless
  <1>3. CASE Heavy
    <2>1. /\ pc' = [pc EXCEPT ![r] = "re-truncate"] /\ pc \in [Request -> Steps]
          /\ new' = [new EXCEPT ![r] = given[r]] /\ new \in [Request -> SUBSET Pws] /\ given' = given
      BY <1>3 DEF Rehash, Types, RequestTypes
    <2>2. ~Busy(Writing)
      BY <1>1, <1>3 DEF Established, ChangesAlone, Busy
    <2>3. Moves(r, "re-truncate") /\ (Heavy' <=> Heavy)
      BY <1>1, <2>1 DEF Moves, Heavy
    <2>4. \A q \in Request : pc'[q] = IF q = r THEN "re-truncate" ELSE pc[q]
      BY <2>1
    <2>5. FileSafe'
      BY <1>1, <2>2, <2>4 DEF Established, FileSafe, Busy, HashOf, Writing
    <2>6. HandsSafe'
      BY <1>1, <1>3, <2>1, <2>3, <2>4 DEF Established, HandsSafe
    <2> QED
      BY <2>2, <2>3, <2>5, <2>6, MoveEstablished DEF Busy, Steps, Rehashing, Changing, Writing
  <1> QED
    BY <1>2, <1>3

\* write_hash cuts the file: of a change, or of a login's re-hash.
LEMMA TruncateEstablished ==
    ASSUME Types, Established, NEW r \in Request, TruncateAuth(r)
    PROVE  Established'
  <1>0. /\ UNCHANGED <<acked, given, new>> /\ auth' = {Cut} /\ pc \in [Request -> Steps]
    BY DEF TruncateAuth, history, Types, RequestTypes
  <1>1. UNCHANGED <<acked, given, new>> /\ auth' = {Cut} /\ pc \in [Request -> Steps]
        /\ ~Heavy'
    BY <1>0 DEF Heavy, Cut
  <1>2. CASE pc[r] = "truncate" /\ pc' = [pc EXCEPT ![r] = "write"]
    <2>1. \A q \in Request : pc'[q] = IF q = r THEN "write" ELSE pc[q]
      BY <1>1, <1>2
    <2>2. \A q \in Request : q # r => pc[q] \notin Writing \cup {"re-truncate", "re-write"}
      BY <1>2 DEF Established, ChangesAlone, Writing
    <2>3. FileSafe'
      BY <1>1, <2>1, <2>2 DEF FileSafe, Busy, Writing
    <2>4. HandsSafe'
      BY <1>1, <2>1, <2>2 DEF HandsSafe
    <2> QED
      BY <1>1, <1>2, <2>2, <2>3, <2>4, MoveEstablished DEF Moves, Steps, Changing, Writing
  <1>3. CASE pc[r] = "re-truncate" /\ pc' = [pc EXCEPT ![r] = "re-write"]
    <2>1. \A q \in Request : pc'[q] = IF q = r THEN "re-write" ELSE pc[q]
      BY <1>1, <1>3
    <2>2. \A q \in Request : pc[q] \notin Writing
      BY <1>3 DEF Established, ChangesAlone
    <2>3. FileSafe'
      BY <1>1, <2>1, <2>2 DEF FileSafe, Busy, Writing
    <2>4. HandsSafe'
      BY <1>1, <1>3, <2>1 DEF Established, HandsSafe
    <2> QED
      BY <1>1, <1>3, <2>2, <2>3, <2>4, MoveEstablished DEF Moves, Steps, Rehashing, Changing, Writing
  <1> QED
    BY <1>2, <1>3 DEF TruncateAuth

\* ... and fills it, with the new password or with the one there was.
LEMMA FillEstablished ==
    ASSUME Types, Established, NEW r \in Request, FillAuth(r)
    PROVE  Established'
  <1>0. /\ auth' = {Hash(pw) : pw \in new[r]}
        /\ pc \in [Request -> Steps] /\ given \in [Request -> SUBSET Pws] /\ new \in [Request -> SUBSET Pws]
    BY DEF FillAuth, Types, RequestTypes
  <1>1. ~Heavy'
    BY <1>0 DEF Heavy, Hash
  <1>2. CASE pc[r] = "write" /\ pc' = [pc EXCEPT ![r] = "unmark"] /\ UNCHANGED <<given, new>>
    <2>1. \A q \in Request : pc'[q] = IF q = r THEN "unmark" ELSE pc[q]
      BY <1>0, <1>1, <1>2
    <2>2. \A q \in Request : q # r => pc[q] \notin Writing \cup {"re-truncate", "re-write"}
      BY <1>2 DEF Established, ChangesAlone, Writing
    <2>3. PICK pw \in Pws : new[r] = {pw}
      BY <1>2 DEF Types, RequestTypes, Bound, Changing, Writing
    <2>4. HashOf(Hash(pw))' /\ Hash(pw) \in Hashes
      BY <1>0, <1>2, <2>3, HashTypes DEF FillAuth, HashOf, Hash, ChosenPw
    <2>5. FileSafe'
      BY <1>2, <2>1, <2>2, <2>3, <2>4 DEF FileSafe, Busy, Writing
    <2>6. HandsSafe'
      BY <1>0, <1>1, <2>1, <2>2 DEF HandsSafe
    <2> QED
      BY <1>0, <1>1, <1>2, <2>2, <2>5, <2>6, MoveEstablished DEF Moves, Steps, Changing, Writing
  <1>3. CASE pc[r] = "re-write" /\ Answer(r)
    <2>1. \A q \in Request : pc'[q] = IF q = r THEN "idle" ELSE pc[q]
      BY <1>0, <1>1, <1>3 DEF Answer
    <2>2. \A q \in Request : pc[q] \notin Writing
      BY <1>3 DEF Established, ChangesAlone
    <2>3. new[r] = {acked.pw}
      BY <1>3 DEF Established, HandsSafe
    <2>4. acked' = acked /\ \E h \in Hashes : HashOf(h)'
      <3>0. acked' = acked
        BY <1>3 DEF FillAuth
      <3>1. PICK pw \in Pws : pw = acked.pw
        BY DEF Types
      <3>2. auth' = {Hash(pw)} /\ acked'.pw = pw /\ Hash(pw) \in Hashes
        BY <1>0, <2>3, <3>0, <3>1, HashTypes
      <3> QED
        BY <3>0, <3>2 DEF HashOf, Hash
    <2>5. FileSafe'
      BY <2>1, <2>2, <2>4 DEF FileSafe, Busy, Writing
    <2>6. Moves(r, "idle")
      BY <1>0, <1>1, <1>3 DEF Answer, Moves
    <2>7. HandsSafe'
      BY <1>0, <1>1, <2>1, <2>4, <2>6 DEF Established, HandsSafe, Moves
    <2> QED
      BY <1>0, <1>1, <2>5, <2>6, <2>7, MoveEstablished DEF Steps, Changing, Writing
  <1> QED
    BY <1>2, <1>3 DEF FillAuth

\* A write that fails before the file is cut leaves it as it is.
LEMMA FailEstablished ==
    ASSUME Types, Established, NEW r \in Request, WriteFails(r), ~interrupted'
    PROVE  Established'
  <1>1. /\ UNCHANGED <<auth, acked>> /\ (Heavy' <=> Heavy)
        /\ pc[r] \in {"truncate", "re-truncate"}
        /\ \A q \in Request : pc'[q] = IF q = r THEN "idle" ELSE pc[q]
    BY DEF WriteFails, Answer, files, Types, RequestTypes, Heavy
  <1>2. Moves(r, "idle")
    BY DEF WriteFails, Answer, Moves, Types, RequestTypes
  <1>3. \A h : HashOf(h)' <=> HashOf(h)
    BY <1>1 DEF HashOf
  <1>4. FileSafe'
    <2>1. CASE pc[r] = "truncate"
      <3>1. \A q \in Request : q # r => pc[q] \notin Writing
        BY <2>1 DEF Established, ChangesAlone, Writing
      <3>2. PICK h \in Hashes : HashOf(h)
        BY <2>1 DEF Established, FileSafe
      <3> QED
        BY <1>1, <1>3, <3>1, <3>2 DEF FileSafe, Writing
    <2>2. CASE pc[r] = "re-truncate"
      <3>1. \A q \in Request : pc[q] \notin Writing
        BY <2>2 DEF Established, ChangesAlone
      <3> QED
        BY <1>1, <1>3, <2>2, <3>1 DEF Established, FileSafe, Busy, Writing
    <2> QED
      BY <1>1, <2>1, <2>2
  <1>5. HandsSafe'
    BY <1>1, <1>2 DEF Established, HandsSafe, Moves
  <1> QED
    BY <1>1, <1>2, <1>4, <1>5, MoveEstablished DEF Steps, Changing, Writing

\* What a change leaves in the end is its own, the file's marker and the display's.
LEMMA ShowEstablished ==
    ASSUME Types, Established, NEW r \in Request, Unmark(r) \/ Unshow(r)
    PROVE  Established'
  <1>1. UNCHANGED <<auth, acked>> /\ pc[r] \in Harmless
    BY DEF Unmark, Unshow, Harmless
  <1>2. PICK step \in {"idle", "unshow"} : Moves(r, step)
    BY DEF Unmark, Unshow, Answer, Moves, Types, RequestTypes
  <1> QED
    BY <1>1, <1>2, HarmlessEstablished DEF Harmless

LEMMA RequestSafe ==
    ASSUME Types, Safe, NEW r \in Request, RequestStep(r)
    PROVE  Safe'
  <1>1. SUFFICES ASSUME ~interrupted', ~muddled' PROVE Established'
    BY DEF Safe
  <1>2. ~interrupted /\ ~muddled
    <2>1. CASE Login(r) \/ Change(r) \/ Rehash(r) \/ TruncateAuth(r) \/ FillAuth(r) \/ Unmark(r) \/ Unshow(r)
      <3>1. UNCHANGED <<interrupted, muddled>>
        BY <2>1 DEF Login, Change, Rehash, TruncateAuth, FillAuth, Unmark, Unshow, history
      <3> QED
        BY <1>1, <3>1
    <2>2. CASE Verify(r)
      BY <1>1, <2>2 DEF Verify
    <2>3. CASE WriteFails(r)
      BY <1>1, <2>3 DEF WriteFails
    <2> QED
      BY <2>1, <2>2, <2>3 DEF RequestStep, Serve
  <1>3. Established
    BY <1>2 DEF Safe
  <1> QED
    BY <1>1, <1>3, ArriveEstablished, VerifyEstablished, RehashEstablished, TruncateEstablished,
       FillEstablished, ShowEstablished, FailEstablished DEF RequestStep, Serve

LEMMA NextSafe == Types /\ Known /\ Safe /\ [Next]_vars => Safe'
  <1> SUFFICES ASSUME Types, Known, Safe, [Next]_vars PROVE Safe'
    OBVIOUS
  <1>1. CASE Starting \/ End
    BY <1>1, StartSafe, EndSafe
  <1>2. ASSUME NEW r \in Request, RequestStep(r)
        PROVE  Safe'
    BY <1>2, RequestSafe
  <1>3. CASE Looking
    BY <1>3, DisplayMoves
    DEF service, files, request, history, Safe, Established, ChangesAlone, FileSafe, HandsSafe, HashOf, Busy, Heavy
  <1> QED
    BY <1>1, <1>2, <1>3, NextCases

(* The password written last, on the first boot or by a change, is the one *)
(* the device asks for from then on, over logins that re-hash, failed      *)
(* writes and ends of the service that leave the file whole                *)
(* (change_password, maybe_upgrade_hash).                                  *)
THEOREM ChangedPasswordSticks == AdminSpec => []ChangeSticks
  <1>1. Known /\ Safe => ChangeSticks
    <2> SUFFICES ASSUME Known, Safe, Settled, ~interrupted, ~muddled, acked # Unset
                 PROVE  Passwords(auth) = {acked.pw}
      BY DEF ChangeSticks
    <2>1. ~Busy(Writing) /\ ~Busy({"re-write"}) /\ auth # {}
      BY DEF Settled, Busy, Changing, Rehashing, Known, BootSafe
    <2> QED
      BY <2>1, Readable DEF Safe
  <1> QED
    BY <1>1, InitSafe, InitKnown, AdminTypes, NextKnown, NextSafe, PTL DEF AdminSpec
=============================================================================
