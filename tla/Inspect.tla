-------------------------------- MODULE Inspect --------------------------------
(***************************************************************************)
(* What the inspector tells about a request: cmd/inspector/handler.go with *)
(* the rules of internal/policy, the objects of cmd/inspector/source.go    *)
(* and the list writes of cmd/inspector/lists.go.                          *)
(*                                                                         *)
(* One client, the copies of the inspector behind one queue group, and the *)
(* live lists.  The client keeps a jar of cookies; the answers to its      *)
(* requests come back in any order, or not at all.  An evaluation looks at *)
(* the lists one rule at a time and writes them one row at a time, so it   *)
(* interleaves with other evaluations, with the mirror and with the clock. *)
(*                                                                         *)
(* A text is the record [tag, num, at, mac], for "tag~num.at.mac" without  *)
(* the parts that are not there: a cookie string with its value, random    *)
(* number, issue time and what the signature was made for; a value alone;  *)
(* an address in a list.  The MAC is keyed by the cookie's name and covers *)
(* the rest, so it is the name itself when it is right, "bad" when it is   *)
(* not, None on an unsigned string; "long" marks a string over ValueMax,   *)
(* "cut" one whose end was cut off in a marker.  A text that a cookie took *)
(* from another cookie's string is told by the tag it begins with.         *)
(***************************************************************************)
EXTENDS Integers, Sequences, FiniteSets

CONSTANTS
    Req,        \* the requests the client can have open at once
    Copy,       \* copies of the inspector
    Skew,       \* Copy -> how far its clock is from the time, in ticks
    Minute,     \* the minute of Cookie.Read, in ticks
    Name,       \* cookies the profiles declare
    Decl,       \* Name -> [signed, renew, from, dflt, random]; from is what the value
                \* is taken from: "message", "uri", "header", "arg", a cookie by
                \* its name, or None for nothing
    Profiles,   \* profile name -> [mode, rules]
    List,       \* the dynamic lists
    Static,     \* static list -> the values it came with
    Shapes,     \* requests: [kind, route, copy, page, phase, headers, args,
                \* fill] and the texts [message, uri, header, arg] they carry
    Made,       \* tags that only a cookie made up by the client carries
    Width,      \* word -> the bytes it has
    Digits,     \* the bytes a random number has
    MarkerMax,  \* protocol.MarkerMax, in bytes
    MaxTime,    \* bound on the time
    MaxSent     \* bound on the requests the client sends

None == "none"  \* the empty string, a field that is not set

ASSUME BoundAssumption == MaxTime \in Nat \ {0} /\ MaxSent \in Nat

\* The clocks of the copies agree to a minute, and time is counted from one.
ASSUME ClockAssumption ==
    /\ Minute \in Nat /\ Skew \in [Copy -> Nat]
    /\ \A a, b \in Copy : Skew[a] - Skew[b] <= Minute

\* The marks of a string that is not properly signed are the name of no cookie,
\* and what clients make up is nothing the inspector writes of its own accord.
ASSUME NameAssumption ==
    /\ IsFiniteSet(Name)
    /\ Name \cap {None, "bad", "long", "cut", "message", "uri", "header", "arg"} = {}
    /\ Made \cap {None, "addr", "net", "digits"} = {}
    /\ \A n \in Name : Decl[n].dflt \notin Made

Word ==
    {None, "bad", "long", "cut", "addr", "net", "digits"} \cup Name \cup Made
      \cup {Decl[n].dflt : n \in Name}
      \cup UNION {{s.message, s.uri, s.header, s.arg} : s \in Shapes}

ASSUME WidthAssumption == Width \in [Word -> Nat] /\ Digits \in Nat /\ MarkerMax \in Nat

Text == [tag : Word, num : Nat, at : Nat, mac : Word]
Empty == [tag |-> None, num |-> 0, at |-> 0, mac |-> None]
Tag(t) == [tag |-> t, num |-> 0, at |-> 0, mac |-> None]

NoSeen == [raw |-> Empty, value |-> Empty]
NoList == [list |-> None, not |-> FALSE]

CookieState == {"absent", "present", "invalid", "expired"}

(***************************************************************************)
(* The profiles are the ones the parser lets through.                      *)
(***************************************************************************)
IsList(s) == s \in Seq({s[k] : k \in DOMAIN s})

parseCookie(d) ==
    /\ d.renew > 0 => d.signed
    /\ d.from \in {None, "message", "uri", "header", "arg"} \cup Name
    /\ d.from # None \/ d.dflt # None \/ d.random

\* A slot of the rule's own cookie needs a rule that has one, and one with a value.
CheckMarkerSlots(rule, valued) ==
    \A k \in DOMAIN rule.mark :
        /\ rule.mark[k] \in {"name", "value"} => rule.cookie # None
        /\ rule.mark[k] = "value" => valued
        /\ rule.mark[k] \in Name \cup {"name", "value"}

parseWrite(w) ==
    /\ w.op \in {"add", "remove"}
    /\ \/ w.subject \in {"addr", "net"} /\ w.cookie = None
       \/ w.subject \in {"value", "cookie"} /\ w.cookie \in Name

parseOverloadRule(rule) ==
    /\ rule.at \in 25..100
    /\ rule.phase = None /\ rule.on = None /\ rule.cookie = None /\ rule.tags = {}
    /\ rule.listed = NoList /\ rule.issue = None /\ rule.drop = None
    /\ rule.mark # <<>> \/ rule.writes # <<>>
    /\ CheckMarkerSlots(rule, FALSE)

parseRuleCookie(rule) ==
    /\ rule.phase \in {None, "request", "response"}
    /\ rule.issue = None \/ rule.drop = None
    /\ {rule.issue, rule.drop, rule.cookie} \subseteq Name \cup {None}
    /\ rule.cookie = None =>
         /\ rule.issue = None /\ rule.drop = None /\ rule.on = None
         /\ rule.tags = {} /\ rule.listed = NoList
         /\ Cardinality(Name) # 1
    /\ rule.tags # {} => rule.on \notin {"absent", "invalid"}
    /\ rule.on \in CookieState \cup {None}
    /\ rule.on \in {"invalid", "expired"} => Decl[rule.cookie].signed
    /\ rule.on = "expired" => Decl[rule.cookie].renew > 0

parseRule(rule) ==
    /\ IF rule.over THEN parseOverloadRule(rule)
       ELSE /\ parseRuleCookie(rule)
            /\ rule.mark # <<>> \/ rule.writes # <<>> \/ rule.issue # None \/ rule.drop # None
            /\ CheckMarkerSlots(rule, \/ rule.on \notin {"absent", "invalid"}
                                      \/ rule.issue = rule.cookie)
    /\ IsList(rule.mark) /\ IsList(rule.writes)
    /\ \A k \in DOMAIN rule.writes : parseWrite(rule.writes[k])

Parse(p) ==
    /\ p.mode \in {"enforce", "off"}
    /\ IsList(p.rules)
    /\ \A k \in DOMAIN p.rules : parseRule(p.rules[k])

ASSUME ProfileAssumption ==
    /\ \A n \in Name : parseCookie(Decl[n])
    /\ \A name \in DOMAIN Profiles : Parse(Profiles[name])

\* A request reaches one of the copies, with texts of its own.
ASSUME ShapeAssumption ==
    /\ Shapes # {}
    /\ \A s \in Shapes : s.copy \in Copy /\ {s.message, s.uri, s.header, s.arg} \cap Made = {}

VARIABLES
    now,     \* the time
    secret,  \* whether the copies have the signing key
    sends,   \* requests the client has sent
    fresh,   \* random numbers handed out
    jar,     \* what the client carries
    issued,  \* history: the cookies the fleet has told the module to set
    list,    \* the lists as their keeper has them
    mirror,  \* the lists the rules look at, as the inspector has them
    req      \* the evaluations

vars == <<now, secret, sends, fresh, jar, issued, list, mirror, req>>

Idle ==
    [pc |-> "idle", shape |-> CHOOSE s \in Shapes : TRUE,
     sent |-> [n \in Name |-> Empty], state |-> [n \in Name |-> "absent"],
     seen |-> [n \in Name |-> NoSeen], clock |-> 0, i |-> 1, fired |-> {}, writes |-> {},
     fault |-> FALSE, silent |-> FALSE, code |-> None, cookies |-> {}, marks |-> {}]

Clock(c) == now + Skew[c]

\* The dynamic lists the rules look values up in: the ones the mirror keeps.
Datasets ==
    {l \in List : \E p \in DOMAIN Profiles :
        \E k \in DOMAIN Profiles[p].rules : Profiles[p].rules[k].listed.list = l}

Rules(e) == Profiles[e.shape.route].rules

--------------------------------------------------------------------------------
(* The cookie itself. *)

\* The value of a payload: the part before "~", all of it when there is none.
tagOf(payload) ==
    IF payload.tag # None /\ payload.num # 0 THEN Tag(payload.tag) ELSE payload

\* The value of a cookie whose string is raw: a signed one has its payload before
\* the time and the signature.
valueOf(n, raw) ==
    tagOf(IF Decl[n].signed THEN [raw EXCEPT !.at = 0, !.mac = None] ELSE raw)

Read_strictClock(n, raw, clock) ==
    IF raw = Empty THEN "absent"
    ELSE IF raw.mac = "long" THEN "invalid"
    ELSE IF ~Decl[n].signed THEN "present"
    ELSE IF ~secret THEN "no_secret"
    ELSE IF raw.mac # n \/ raw.at > clock THEN "invalid"
    ELSE IF Decl[n].renew > 0 /\ clock - raw.at >= Decl[n].renew THEN "expired"
    ELSE "present"

Read_unverified(n, raw, clock) ==
    IF raw = Empty THEN "absent"
    ELSE IF raw.mac = "long" THEN "invalid"
    ELSE IF ~Decl[n].signed THEN "present"
    ELSE IF ~secret THEN "no_secret"
    ELSE IF raw.at > clock + Minute THEN "invalid"
    ELSE IF Decl[n].renew > 0 /\ clock - raw.at >= Decl[n].renew THEN "expired"
    ELSE "present"

\* The state of a cookie at a copy's clock; "no_secret" is the error ErrNoSecret.
Read(n, raw, clock) ==
    IF raw = Empty THEN "absent"
    ELSE IF raw.mac = "long" THEN "invalid"
    ELSE IF ~Decl[n].signed THEN "present"
    ELSE IF ~secret THEN "no_secret"
    ELSE IF raw.mac # n \/ raw.at > clock + Minute THEN "invalid"
    ELSE IF Decl[n].renew > 0 /\ clock - raw.at >= Decl[n].renew THEN "expired"
    ELSE "present"

\* The string Issue builds; Empty stands for ErrNoValue.
Issue(n, text, num, clock) ==
    LET tag == IF text # None THEN text ELSE Decl[n].dflt
        number == IF Decl[n].random THEN num[n] ELSE 0
    IN  IF tag = None /\ number = 0 THEN Empty
        ELSE [tag |-> tag, num |-> number,
              at |-> IF Decl[n].signed THEN clock ELSE 0,
              mac |-> IF Decl[n].signed THEN n ELSE None]

--------------------------------------------------------------------------------
(* The rules. *)

\* Missing data never turns into a match: no value and a list that is not there
\* both answer no.
in(l, value) ==
    /\ value # Empty
    /\ IF l \in Datasets THEN mirror[l].ready /\ value \in mirror[l].has
                     ELSE value \in Static[l]

\* A rule fires when everything it names agrees with the request: the path,
\* method and response status (the page), the phase, the state of its cookie,
\* the cookie's value among the tags and in the list.
Matches(e, rule) ==
    LET value == e.seen[rule.cookie].value IN
    /\ rule.phase \in {None, e.shape.phase}
    /\ e.shape.page \in rule.pages
    /\ rule.on # None => e.state[rule.cookie] = rule.on
    /\ rule.tags # {} => (value \in {Tag(t) : t \in rule.tags}) = ~rule.tagsNot
    /\ rule.listed # NoList => in(rule.listed.list, value) = ~rule.listed.not

\* The rules that fire, out of a stretch of them: those of the request itself.
Collect(e, rules, first, last) ==
    {k \in DOMAIN rules : /\ first <= k /\ k <= last
                          /\ ~rules[k].over /\ Matches(e, rules[k])}

\* An overload rule at 100 percent fires only when the request is shed.
OverloadFires(at, fill, shed) == shed \/ (at < 100 /\ fill >= at)

CollectOverload(e, rules, shed) ==
    {k \in DOMAIN rules : rules[k].over /\ OverloadFires(rules[k].at, e.shape.fill, shed)}

\* The cookies the fired rules drop.
Dropped(rules, fired) == {rules[k].drop : k \in fired} \ {None}

\* The cookies the fired rules issue. Dropping beats issuing.
Kept_asIssued(rules, fired) == {rules[k].issue : k \in fired} \ {None}

Kept(rules, fired) == ({rules[k].issue : k \in fired} \ {None}) \ Dropped(rules, fired)

\* The rows of the fired rules, and their order: by rule and row, those of the
\* overload rules after the others.
Rows(rules, fired) ==
    UNION {{[rule |-> k, row |-> j] : j \in DOMAIN rules[k].writes} : k \in fired}

Before(rules, a, b) ==
    \/ ~rules[a.rule].over /\ rules[b.rule].over
    \/ /\ rules[a.rule].over = rules[b.rule].over
       /\ a.rule < b.rule \/ (a.rule = b.rule /\ a.row < b.row)

\* The value of a marker's slot: the rule's cookie or a cookie by its name.
Slot(rule, seen, slot) ==
    IF slot = "name" THEN Tag(rule.cookie)
    ELSE IF slot = "value" THEN seen[rule.cookie].value
    ELSE seen[slot].value

\* A marker of a fired rule.
Marker(e, rule) == [k \in DOMAIN rule.mark |-> Slot(rule, e.seen, rule.mark[k])]

\* What MarkerMax leaves of a marker: all of it when it fits, otherwise the slots
\* before the limit and the first bytes of the one the limit falls into.
Piece(t) == [t EXCEPT !.mac = "cut"]

Bytes(t) == Width[t.tag] + (IF t.num = 0 THEN 0 ELSE Digits) + (IF t.mac = None THEN 0 ELSE Width[t.mac])

Cut(m) ==
    LET end[n \in 0..Len(m)] == IF n = 0 THEN 0 ELSE end[n - 1] + Bytes(m[n])
        over == {n \in 1..Len(m) : end[n - 1] <= MarkerMax /\ MarkerMax < end[n]}
    IN  IF over = {} THEN {m}
        ELSE {IF end[n - 1] = MarkerMax THEN SubSeq(m, 1, n - 1)
                ELSE Append(SubSeq(m, 1, n - 1), Piece(m[n])) : n \in over}

\* A marker with a slot that has no value is not set at all.
FillMarkers_withHoles(e, rules) ==
    UNION {Cut(Marker(e, rules[k])) : k \in {j \in e.fired : rules[j].mark # <<>>}}

FillMarkers(e, rules) ==
    UNION {Cut(Marker(e, rules[k])) :
             k \in {j \in e.fired : /\ rules[j].mark # <<>>
                                    /\ \A x \in DOMAIN rules[j].mark :
                                         Marker(e, rules[j])[x] # Empty}}

--------------------------------------------------------------------------------
(* The client, the lists and the time. *)

\* The time passes.
Tick ==
    /\ now < MaxTime
    /\ now' = now + 1
    /\ UNCHANGED <<secret, sends, fresh, jar, issued, list, mirror, req>>

\* What the client may send: its jar, or its jar with one cookie lost, made up
\* (a wrong signature, a string over the limit) or put under another's name.
Carried ==
    LET made == {[tag |-> t, num |-> 0, at |-> 1, mac |-> m] :
                   t \in Made, m \in {"bad", "long"}}
    IN  {jar} \cup {[jar EXCEPT ![n] = raw] :
                      n \in Name, raw \in made \cup {Empty} \cup {jar[m] : m \in Name}}

\* The client sends a request and a copy of the inspector takes it.
Send(r, shape, sent) ==
    /\ req[r].pc = "idle"
    /\ sends < MaxSent
    /\ sends' = sends + 1
    /\ req' = [req EXCEPT ![r] = [Idle EXCEPT !.pc = "sent", !.shape = shape,
                                              !.sent = sent]]
    /\ UNCHANGED <<now, secret, fresh, jar, issued, list, mirror>>

\* The mirror catches up with the keeper of a list.
Refresh(l) ==
    /\ mirror[l] # [ready |-> TRUE, has |-> list[l]]
    /\ mirror' = [mirror EXCEPT ![l] = [ready |-> TRUE, has |-> list[l]]]
    /\ UNCHANGED <<now, secret, sends, fresh, jar, issued, list, req>>

--------------------------------------------------------------------------------
(* The evaluation. *)

Answer_keepsCookies(e, code) ==
    [Idle EXCEPT !.pc = "told", !.code = code, !.shape = e.shape, !.sent = e.sent,
                 !.state = e.state, !.fired = e.fired, !.fault = e.fault,
                 !.cookies = e.cookies]

\* An answer without cookies and actions. What the evaluation read is kept for
\* the audit, as are the rules that fired.
Answer(e, code) ==
    [Idle EXCEPT !.pc = "told", !.code = code, !.shape = e.shape, !.sent = e.sent,
                 !.state = e.state, !.fired = e.fired, !.fault = e.fault]

\* receive: a message that cannot be read, of another version or of another
\* phase is answered at once, a release is not answered, the rest is submitted.
Receive(r) ==
    LET kind == req[r].shape.kind IN
    /\ req[r].pc = "sent"
    /\ \/ /\ kind = "malformed"
          /\ req' = [req EXCEPT ![r] = Answer(@, "COOKIE_MALFORMED_REQUEST")]
       \/ /\ kind = "version"
          /\ req' = [req EXCEPT ![r] = Answer(@, "COOKIE_UNSUPPORTED_VERSION")]
       \/ /\ kind = "release"
          /\ req' = [req EXCEPT ![r] = Idle]
       \/ /\ kind = "frame"
          /\ req' = [req EXCEPT ![r] = Answer(@, "COOKIE_IDLE")]
       \/ /\ kind = "http"
          /\ req' = [req EXCEPT ![r].pc = "queued"]
    /\ UNCHANGED <<now, secret, sends, fresh, jar, issued, list, mirror>>

\* The answers that need no objects: no such profile, a profile that is off, a
\* route that does not capture headers.
Refuse(r) ==
    LET s == req[r].shape
        known == s.route \in DOMAIN Profiles
    IN
    /\ req[r].pc = "queued"
    /\ \/ /\ ~known
          /\ req' = [req EXCEPT ![r] = Answer(@, "COOKIE_UNKNOWN_PROFILE")]
       \/ /\ known /\ Profiles[s.route].mode = "off"
          /\ req' = [req EXCEPT ![r] = Answer(@, "COOKIE_PROFILE_OFF")]
       \/ /\ known /\ Profiles[s.route].mode # "off"
          /\ s.headers = "none"
          /\ req' = [req EXCEPT ![r] = Answer(@, "COOKIE_HEADERS_UNAVAILABLE")]
    /\ UNCHANGED <<now, secret, sends, fresh, jar, issued, list, mirror>>

\* Loader.Load: an object that is placed is there or the load fails; one that the
\* module could not place is missing, and that is no fault.
Load(loc, ok) == [data |-> loc = "placed" /\ ok, fault |-> loc = "placed" /\ ~ok]

\* The strings the request's headers carry, nothing when the headers are missing.
Cookies(e, body) == [n \in Name |-> IF body.data THEN e.sent[n] ELSE Empty]

\* The argument a cookie takes its value from.
Args(e, body) == IF body.data THEN e.shape.arg ELSE None

\* sanitizeTag on a cookie's string: what comes after its tag turns into
\* underscores and is cut at the limit.
sanitizeTag(raw) ==
    IF raw.tag # None THEN raw.tag ELSE IF raw.num # 0 THEN "digits" ELSE None

\* Operand.Values, of which Issue takes the first: what the message itself
\* carries (a field, a variable), the address with its query string, a header,
\* the argument, or the string of a cookie as the client sent it, whatever Read
\* said of it. An object that is not there has no values; the headers were
\* loaded before the rules.
Values(n, e, args) ==
    LET from == Decl[n].from
        headers == Load(e.shape.headers, ~e.fault)
    IN  IF from = "message" \/ (from = "uri" /\ ~args.data) THEN e.shape.message
        ELSE IF from = "uri" THEN e.shape.uri
        ELSE IF from = "arg" THEN Args(e, args)
        ELSE IF from = "header" /\ headers.data THEN e.shape.header
        ELSE IF from \in Name THEN sanitizeTag(Cookies(e, headers)[from])
        ELSE None

\* What the request knows of its cookies once the headers are read, or not: a
\* cookie has a value when it is present or expired.
Seen_any(e, states) ==
    [n \in Name |-> [raw |-> e.sent[n], value |-> valueOf(n, e.sent[n])]]

Seen(e, states) ==
    [n \in Name |-> IF states[n] \in {"present", "expired"}
                      THEN [raw |-> e.sent[n], value |-> valueOf(n, e.sent[n])]
                      ELSE NoSeen]

stateError(e, fault) ==
    Answer(e, IF fault THEN "COOKIE_STORE_ERROR" ELSE "COOKIE_SECRET_MISSING")

\* The headers are loaded and the cookies are read at the time of this moment. A
\* fault is acted upon after the rules; cookies in headers that are missing are
\* absent.
States(r, ok) ==
    LET e == req[r]
        body == Load(e.shape.headers, ok)
        got == Cookies(e, body)
        clock == Clock(e.shape.copy)
        states == [n \in Name |-> Read(n, got[n], clock)]
    IN
    /\ e.pc = "queued"
    /\ e.shape.route \in DOMAIN Profiles
    /\ Profiles[e.shape.route].mode # "off"
    /\ e.shape.headers # "none"
    /\ req' = [req EXCEPT ![r] =
         IF \E n \in Name : states[n] = "no_secret"
           THEN stateError(e, body.fault)
           ELSE [e EXCEPT !.pc = "rules", !.fault = body.fault, !.state = states,
                          !.clock = clock, !.seen = Seen(e, states)]]
    /\ UNCHANGED <<now, secret, sends, fresh, jar, issued, list, mirror>>

\* The rules, up to and with the next one that looks at a dynamic list.
Walk(r) ==
    LET e == req[r]
        rules == Rules(e)
        looks(k) == rules[k].listed.list \in Datasets
    IN
    /\ e.pc = "rules"
    /\ \E upto \in e.i..Len(rules) :
         /\ \A k \in e.i..(upto - 1) : ~looks(k)
         /\ upto = Len(rules) \/ looks(upto)
         /\ req' = [req EXCEPT ![r] =
                      [e EXCEPT !.fired = @ \cup Collect(e, rules, e.i, upto),
                                !.i = upto + 1]]
    /\ UNCHANGED <<now, secret, sends, fresh, jar, issued, list, mirror>>

\* handler.apply: the strings of the cookies to issue; a cookie that has no value
\* is left out.
apply(e, kept, num, args) ==
    LET made(n) == Issue(n, Values(n, e, args), num, e.clock)
    IN  {[name |-> n, raw |-> made(n)] : n \in {m \in kept : made(m) # Empty}}

\* What was issued replaces what was read.
Issued(seen, new) ==
    [n \in Name |->
       IF \E k \in new : k.name = n
         THEN LET raw == (CHOOSE k \in new : k.name = n).raw
              IN  [raw |-> raw, value |-> valueOf(n, raw)]
         ELSE seen[n]]

\* rand.Read: a number of its own for each cookie, one that nobody has had.
Numbers(drawn) ==
    {num \in [drawn -> (fresh + 1)..(fresh + Cardinality(drawn))] :
       \A a, b \in drawn : num[a] = num[b] => a = b}

\* The rules are through: the overload rules are added, a fault of the headers
\* ends the evaluation, the cookies are issued and dropped. The query string is
\* loaded only now, when a cookie takes its value from it; if that fails the
\* value is the declaration's default.
Apply(r, ok) ==
    LET e == req[r]
        rules == Rules(e)
        fired == IF e.shape.phase = "request"
                   THEN e.fired \cup CollectOverload(e, rules, FALSE) ELSE e.fired
        kept == Kept(rules, fired)
        drawn == {n \in kept : Decl[n].random}
        body == Load(e.shape.args, ok)
    IN
    /\ e.pc = "rules"
    /\ e.i > Len(rules)
    /\ \/ /\ e.fault
          /\ req' = [req EXCEPT ![r] = Answer([e EXCEPT !.fired = fired], "COOKIE_STORE_ERROR")]
          /\ UNCHANGED fresh
       \/ \E num \in Numbers(drawn) :
            LET new == apply(e, kept, num, body) IN
            /\ ~e.fault
            /\ \/ /\ ~secret /\ \E k \in new : Decl[k.name].signed
                  /\ req' = [req EXCEPT ![r] =
                               Answer([e EXCEPT !.fired = fired], "COOKIE_SECRET_MISSING")]
                  /\ UNCHANGED fresh
               \/ /\ secret \/ \A k \in new : ~Decl[k.name].signed
                  /\ fresh' = fresh + Cardinality(drawn)
                  /\ req' = [req EXCEPT ![r] =
                       [e EXCEPT !.pc = "write", !.code = "COOKIE_OK", !.fired = fired,
                                 !.writes = Rows(rules, fired),
                                 !.fault = body.fault /\ \E n \in kept : Decl[n].from \in {"arg", "uri"},
                                 !.seen = Issued(@, new),
                                 !.cookies = new \cup {[name |-> n, raw |-> Empty] :
                                                         n \in Dropped(rules, fired)}]]
    /\ UNCHANGED <<now, secret, sends, jar, issued, list, mirror>>

\* A request the queue has no room for is shed: it knows no cookies, and only
\* the overload rules speak. A request whose budget is gone is refused outright.
Shed(r) ==
    LET e == req[r]
        s == e.shape
        speaks == /\ s.phase = "request"
                  /\ s.route \in DOMAIN Profiles
                  /\ Profiles[s.route].mode # "off"
    IN
    /\ e.pc = "queued"
    /\ \/ req' = [req EXCEPT ![r] = Answer(@, "COOKIE_DEADLINE_EXCEEDED")]
       \/ req' = [req EXCEPT ![r] =
            IF speaks
              THEN LET fired == CollectOverload(e, Rules(e), TRUE) IN
                   [e EXCEPT !.pc = "write", !.code = "COOKIE_QUEUE_LIMIT",
                             !.fired = fired, !.writes = Rows(Rules(e), fired)]
              ELSE Answer(@, "COOKIE_QUEUE_LIMIT")]
    /\ UNCHANGED <<now, secret, sends, fresh, jar, issued, list, mirror>>

\* What a row puts into its list: the value or the string of a cookie, the
\* client's address, or what the network directory says of the address. No
\* value means no write.
Subjects(e, w) ==
    IF w.subject = "value" THEN {e.seen[w.cookie].value} \ {Empty}
    ELSE IF w.subject = "cookie" THEN {e.seen[w.cookie].raw} \ {Empty}
    ELSE {Tag(w.subject)}

\* One row of writeLists: it is written, the publisher refuses it, or the network
\* directory knows nothing of the address or does not answer. Silence is
\* remembered, and the rows after it are still written.
Write(r, p, outcome) ==
    LET e == req[r]
        w == Rules(e)[p.rule].writes[p.row]
        values == IF outcome = "written" THEN Subjects(e, w) ELSE {}
    IN
    /\ e.pc = "write"
    /\ \A q \in e.writes \ {p} : Before(Rules(e), p, q)
    /\ outcome \in {"silent", "unknown"} => w.subject = "net"
    /\ list' = [list EXCEPT ![w.list] =
                  IF w.op = "remove" THEN @ \ values ELSE @ \cup values]
    /\ req' = [req EXCEPT ![r] = [e EXCEPT !.writes = @ \ {p},
                                           !.silent = @ \/ outcome = "silent"]]
    /\ UNCHANGED <<now, secret, sends, fresh, jar, issued, mirror>>

\* The answer goes out. A directory that did not answer turns it into an error
\* without cookies and markers, unless the request was shed.
Tell(r) ==
    LET e == req[r]
        failed == e.silent /\ e.code = "COOKIE_OK"
    IN
    /\ e.pc = "write"
    /\ e.writes = {}
    /\ req' = [req EXCEPT ![r] =
         IF failed THEN Answer(e, "COOKIE_GEO_UNAVAILABLE")
         ELSE [Answer(e, e.code) EXCEPT !.cookies = e.cookies, !.marks = FillMarkers(e, Rules(e))]]
    /\ issued' = issued \cup {<<k.name, k.raw>> :
                    k \in {x \in req'[r].cookies : x.raw # Empty}}
    /\ UNCHANGED <<now, secret, sends, fresh, jar, list, mirror>>

\* The module has the answer and the client takes the cookies.
Arrive(r) ==
    LET cookies == req[r].cookies IN
    /\ req[r].pc = "told"
    /\ jar' = [n \in Name |->
         IF \E k \in cookies : k.name = n
           THEN (CHOOSE k \in cookies : k.name = n).raw ELSE jar[n]]
    /\ req' = [req EXCEPT ![r] = Idle]
    /\ UNCHANGED <<now, secret, sends, fresh, issued, list, mirror>>

\* The module did not wait for the answer.
Lose(r) ==
    /\ req[r].pc = "told"
    /\ req' = [req EXCEPT ![r] = Idle]
    /\ UNCHANGED <<now, secret, sends, fresh, jar, issued, list, mirror>>

--------------------------------------------------------------------------------
Init ==
    /\ now = 1
    /\ secret \in BOOLEAN
    /\ sends = 0
    /\ fresh = 0
    /\ jar = [n \in Name |-> Empty]
    /\ issued = {}
    /\ list = [l \in List |-> {}]
    /\ mirror = [l \in Datasets |-> [ready |-> FALSE, has |-> {}]]
    /\ req = [r \in Req |-> Idle]

Next ==
    \/ Tick
    \/ \E l \in Datasets : Refresh(l)
    \/ \E r \in Req :
         \/ \E shape \in Shapes, sent \in Carried : Send(r, shape, sent)
         \/ Receive(r)
         \/ Refuse(r)
         \/ \E ok \in BOOLEAN : States(r, ok)
         \/ Walk(r)
         \/ \E ok \in BOOLEAN : Apply(r, ok)
         \/ Shed(r)
         \/ \E p \in req[r].writes, o \in {"written", "refused", "unknown", "silent"} :
              Write(r, p, o)
         \/ Tell(r)
         \/ Arrive(r)
         \/ Lose(r)

Spec == Init /\ [][Next]_vars

--------------------------------------------------------------------------------
Code == {"COOKIE_OK", "COOKIE_IDLE", "COOKIE_MALFORMED_REQUEST",
         "COOKIE_UNSUPPORTED_VERSION", "COOKIE_UNKNOWN_PROFILE", "COOKIE_PROFILE_OFF",
         "COOKIE_HEADERS_UNAVAILABLE", "COOKIE_STORE_ERROR", "COOKIE_SECRET_MISSING",
         "COOKIE_GEO_UNAVAILABLE", "COOKIE_QUEUE_LIMIT", "COOKIE_DEADLINE_EXCEEDED"}

Evaluation ==
    [pc : {"idle", "sent", "queued", "rules", "write", "told"},
     shape : Shapes, sent : [Name -> Text], state : [Name -> CookieState],
     seen : [Name -> [raw : Text, value : Text]], clock : Nat, i : Nat,
     fired : SUBSET Nat, writes : SUBSET [rule : Nat, row : Nat],
     fault : BOOLEAN, silent : BOOLEAN, code : Code \cup {None},
     cookies : SUBSET [name : Name, raw : Text], marks : SUBSET Seq(Text)]

\* Types: an evaluation is at a known place, knows a state for every cookie, and
\* an answer that is out has a reason code; only an allowed one has cookies.
TypeOK ==
    /\ now \in 1..MaxTime
    /\ secret \in BOOLEAN
    /\ sends \in 0..MaxSent
    /\ fresh \in Nat
    /\ jar \in [Name -> Text]
    /\ list \in [List -> SUBSET Text]
    /\ req \in [Req -> Evaluation]
    /\ \A r \in Req :
         /\ req[r].pc = "told" => req[r].code \in Code
         /\ req[r].cookies # {} => req[r].code = "COOKIE_OK"

\* Cookie.Read: a string this fleet issued for a cookie, handed back as it was,
\* is never read as invalid, whatever copy issued it and whatever copy reads it
\* ("the issue time is in the future" forgives a minute of clock difference).
IssuedReadsBack ==
    \A r \in Req, n \in Name :
        <<n, req[r].sent[n]>> \in issued => req[r].state[n] # "invalid"

\* Cookie.Read and mac: a signed cookie counts as present or expired only when
\* the fleet issued that very string for that very name.
ForgedIsRefused ==
    \A r \in Req, n \in Name :
        (Decl[n].signed /\ req[r].state[n] \in {"present", "expired"})
          => <<n, req[r].sent[n]>> \in issued

\* Profile.Collect: an answer names a cookie at most once, and a cookie some
\* rule that fired drops is dropped, whatever rule issues it and in which order.
DropWins ==
    \A r \in Req : \A n \in Name :
        (req[r].pc = "told" /\ req[r].code = "COOKIE_OK") =>
          LET said == {k \in req[r].cookies : k.name = n} IN
          /\ Cardinality(said) <= 1
          /\ n \in Dropped(Rules(req[r]), req[r].fired) => \A k \in said : k.raw = Empty

\* What a slot of an answer's marker may hold: the name of a cookie, the value of
\* a cookie the client handed over intact, or the value of one the answer issues.
Fills(e) ==
    {Tag(n) : n \in Name}
      \cup {valueOf(n, e.sent[n]) : n \in {m \in Name : e.state[m] \in {"present", "expired"}}}
      \cup {valueOf(k.name, k.raw) : k \in {c \in e.cookies : c.raw # Empty}}

\* FillMarker and expand: a marker that goes out has all its slots filled from
\* this request and this answer, and only its last one may be cut off at MarkerMax.
MarkersFilled ==
    \A r \in Req : \A m \in req[r].marks : \A x \in DOMAIN m :
        LET whole == Fills(req[r]) \ {Empty}
        IN  m[x] \in whole \/ (x = Len(m) /\ m[x] \in {Piece(v) : v \in whole})

\* The cookies into which nothing gets that the client sent as a cookie, other
\* than what the fleet has signed: a $cookie_ operand takes any string.
Pure(n) == Decl[n].signed /\ Decl[n].from \notin Name

\* The lists that no row writes from any other cookie.
PureLists ==
    {l \in List : \A p \in DOMAIN Profiles : \A k \in DOMAIN Profiles[p].rules :
       \A j \in DOMAIN Profiles[p].rules[k].writes :
         LET w == Profiles[p].rules[k].writes[j]
         IN  (w.list = l /\ w.subject \in {"value", "cookie"}) => Pure(w.cookie)}

\* handler.states and subjects: no cookie a client made up gets into a list that
\* is written from signed cookies only, none of which takes its value from
\* another cookie. A signature on one that does says only that the fleet wrote it.
ForgedNeverListed ==
    \A l \in PureLists : \A v \in list[l] : v.tag \notin Made

\* README.md, first touch: "only a client without the cookie gets it", and headers
\* that are not there do not count as a missing cookie. An allowed answer never
\* takes for absent a cookie the fleet issued and the client sent.
FirstTouchOnly ==
    \A r \in Req : (req[r].pc = "told" /\ req[r].code = "COOKIE_OK") =>
        \A n \in Name :
            <<n, req[r].sent[n]>> \in issued => req[r].state[n] # "absent"

\* README.md, reason codes: an object that was there and was not returned is answered with
\* COOKIE_STORE_ERROR: no allowed answer rests on a failed load.
FaultIsTold ==
    \A r \in Req :
        (req[r].pc = "told" /\ req[r].fault) => req[r].code = "COOKIE_STORE_ERROR"

================================================================================
