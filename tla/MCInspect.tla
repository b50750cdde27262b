------------------------------- MODULE MCInspect -------------------------------
(* Two cookies as in README.md: uid, a signed number that expires, behind the   *)
(* name of the client's program when it says one, and src, the traffic source,  *)
(* unsigned, taken from the query string.  A third one, ref, signs what src     *)
(* says.                                                                        *)
EXTENDS Inspect

MCSkew == [c \in Copy |-> IF c = "b" THEN 1 ELSE 0]

MCDecl ==
    [uid |-> [signed |-> TRUE, renew |-> 2, from |-> "header", dflt |-> None, random |-> TRUE],
     src |-> [signed |-> FALSE, renew |-> 0, from |-> "arg", dflt |-> "direct", random |-> FALSE],
     ref |-> [signed |-> TRUE, renew |-> 0, from |-> "src", dflt |-> None, random |-> FALSE]]

\* The same with a number that carries the host's name and the address as source.
MCDeclHost == [MCDecl EXCEPT !.uid.from = "message", !.src.from = "uri"]

\* The name of the program makes a marker too long for its last slot.
MCWidth == [w \in Word |-> IF w \in {"app", "made"} THEN 3 ELSE 1]

MCStatic == [partners |-> {Tag("ad")}]

Row(l, subject, op, cookie) ==
    [list |-> l, subject |-> subject, op |-> op, cookie |-> cookie]

\* A rule that names nothing; every rule below says what it adds to it.
Plain == [over |-> FALSE, at |-> 0, phase |-> None, pages |-> {"home", "out"}, on |-> None,
          cookie |-> "uid", tags |-> {}, tagsNot |-> FALSE, listed |-> NoList,
          issue |-> None, drop |-> None, mark |-> <<>>, writes |-> <<>>]

In(l) == [list |-> l, not |-> FALSE]
NotIn(l) == [list |-> l, not |-> TRUE]

\* first touch, renewal, sign-out, revocation, landing page and logout.
MCMain ==
    << [Plain EXCEPT !.on = "absent", !.issue = "uid", !.mark = <<"name", "value">>,
                   !.writes = <<Row("clients", "cookie", "add", "uid")>>],
       [Plain EXCEPT !.on = "expired", !.issue = "uid"],
       [Plain EXCEPT !.pages = {"out"}, !.cookie = "uid",
                   !.writes = <<Row("revoked", "value", "add", "uid")>>],
       [Plain EXCEPT !.on = "present", !.listed = In("revoked"), !.drop = "uid"],
       [Plain EXCEPT !.pages = {"out"}, !.drop = "src", !.cookie = "src",
                   !.writes = <<Row("clients", "cookie", "remove", "uid")>>],
       [Plain EXCEPT !.cookie = "src", !.issue = "src", !.mark = <<"uid", "value">>],
       [Plain EXCEPT !.over = TRUE, !.at = 50, !.cookie = None, !.mark = <<"uid">>,
                   !.writes = <<Row("clients", "net", "add", None)>>] >>

\* rules narrowed by a value, a static list and a list the value is not in.
MCNarrow ==
    << [Plain EXCEPT !.on = "invalid", !.issue = "uid", !.mark = <<"value">>],
       [Plain EXCEPT !.cookie = "src", !.tags = {"ad"}, !.mark = <<"value">>],
       [Plain EXCEPT !.cookie = "src", !.listed = In("partners"), !.drop = "src"],
       [Plain EXCEPT !.phase = "response", !.listed = NotIn("revoked"), !.issue = "src",
                   !.cookie = "uid"],
       [Plain EXCEPT !.cookie = "ref", !.on = "absent", !.issue = "ref", !.mark = <<"value">>,
                   !.writes = <<Row("referred", "value", "add", "ref")>>] >>

MCProfiles ==
    [main |-> [mode |-> "enforce", rules |-> MCMain],
     narrow |-> [mode |-> "enforce", rules |-> MCNarrow],
     idle |-> [mode |-> "off", rules |-> <<>>]]

\* A request through all stages; the others say what is different.
Whole == [kind |-> "http", route |-> "main", copy |-> "a", page |-> "home",
          phase |-> "request", headers |-> "placed", args |-> "empty", fill |-> 0,
          message |-> "host", uri |-> "query", header |-> None, arg |-> None]

MCShapes ==
    { [Whole EXCEPT !.args = "placed", !.arg = "ad", !.fill = 60],
      [Whole EXCEPT !.copy = "b", !.header = "app"],
      [Whole EXCEPT !.page = "out"],
      [Whole EXCEPT !.copy = "b", !.headers = "unavailable", !.args = "unavailable"],
      [Whole EXCEPT !.route = "narrow", !.phase = "response", !.args = "placed"],
      [Whole EXCEPT !.headers = "none"],
      [Whole EXCEPT !.route = "idle"],
      [Whole EXCEPT !.route = "gone"] }
      \cup {[Whole EXCEPT !.kind = k] : k \in {"malformed", "version", "release", "frame"}}

================================================================================
