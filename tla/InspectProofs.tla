---------------------------- MODULE InspectProofs ----------------------------
(***************************************************************************)
(* What an answer may say: proofs about Inspect for any cookies, profiles, *)
(* lists and shapes of requests, any copies whose clocks agree to a        *)
(* minute, and any number of requests open at once.                        *)
(***************************************************************************)
EXTENDS Inspect, FiniteSetTheorems, TLAPS

-----------------------------------------------------------------------------
(* The invariant *)

(* A string the fleet made for cookie n, not after time t.  Only a cookie  *)
(* that takes its value from another cookie has something made up in it.   *)
Genuine(n, raw, t) ==
    /\ Decl[n].from \notin Name => raw.tag \notin Made
    /\ Decl[n].signed => raw.mac = n /\ \E c \in Copy : raw.at <= t + Skew[c]
    /\ ~Decl[n].signed => raw.mac = None

(* What was issued is genuine, and what the client keeps was issued under  *)
(* the name it keeps it under.                                             *)
Told == issued \subseteq Name \X Text /\ \A x \in issued : Genuine(x[1], x[2], now)
Carries == \A n \in Name : jar[n] = Empty \/ <<n, jar[n]>> \in issued

(* A signature the client can show was made by the fleet for that string.  *)
Unforged(e, iss) ==
    \A n \in Name : e.sent[n].mac \in Name => <<e.sent[n].mac, e.sent[n]>> \in iss

(* What the state of a cookie says of its string, whatever time it is now. *)
StateMeans(e) ==
    \A n \in Name :
        /\ e.state[n] = "invalid"
             => e.sent[n].mac = "long" \/ (Decl[n].signed /\ e.sent[n].mac # n)
        /\ (e.state[n] \in {"present", "expired"} /\ Decl[n].signed) => e.sent[n].mac = n

(* What an evaluation knows of a cookie it has read intact, or issued.     *)
AsRead(e, n) ==
    /\ e.state[n] \in {"present", "expired"}
    /\ e.seen[n] = [raw |-> e.sent[n], value |-> valueOf(n, e.sent[n])]
AsIssued(e, n) ==
    \E k \in e.cookies : /\ k.name = n /\ k.raw # Empty
                         /\ e.seen[n] = [raw |-> k.raw, value |-> valueOf(n, k.raw)]
SeenMeans(e) == \A n \in Name : e.seen[n] = NoSeen \/ AsRead(e, n) \/ AsIssued(e, n)

(* The cookies of an answer: genuine or dropped, one for a name.           *)
CookiesMean(e, t) ==
    /\ \A k \in e.cookies : k.raw = Empty \/ Genuine(k.name, k.raw, t)
    /\ \A j, k \in e.cookies : j.name = k.name => j = k
    /\ \A k \in e.cookies : k.name \in Dropped(Rules(e), e.fired) => k.raw = Empty

(* Where an evaluation is says what it has.                                *)
Stage(e, t, iss) ==
    /\ e.pc \in {"idle", "sent", "queued"} => e.fired = {} /\ e.seen = [n \in Name |-> NoSeen]
    /\ e.pc \in {"idle", "sent", "queued", "rules"}
         => e.cookies = {} /\ e.writes = {} /\ e.marks = {}
    /\ e.pc = "rules" => \E c \in Copy : e.clock <= t + Skew[c]
    /\ e.pc \in {"rules", "write"} => /\ e.shape.route \in DOMAIN Profiles
                                      /\ e.fired \subseteq DOMAIN Rules(e)
    /\ e.pc = "write" => e.writes \subseteq Rows(Rules(e), DOMAIN Rules(e))
    /\ e.pc \in {"write", "told"} => e.code \in Code
    /\ e.pc = "told" => \A k \in e.cookies : k.raw = Empty \/ <<k.name, k.raw>> \in iss
    /\ e.cookies # {} => e.code = "COOKIE_OK"

(* A marker that is out: MarkersFilled of one evaluation.                  *)
Filled(e, v) == v \in Fills(e) /\ v # Empty
MarkMeans(e, m) ==
    \A x \in DOMAIN m : \/ Filled(e, m[x])
                        \/ x = Len(m) /\ \E v \in Fills(e) : Filled(e, v) /\ m[x] = Piece(v)
MarksMean(e) == \A m \in e.marks : MarkMeans(e, m)

Good(e, t, iss) ==
    /\ Unforged(e, iss) /\ StateMeans(e) /\ SeenMeans(e) /\ CookiesMean(e, t)
    /\ Stage(e, t, iss) /\ MarksMean(e)

IInv == /\ TypeOK /\ Told /\ Carries /\ ForgedNeverListed
        /\ \A r \in Req : Good(req[r], now, issued)

-----------------------------------------------------------------------------
(* Texts, rules and the blank evaluation *)

LEMMA EmptyText == Empty \in Text /\ NoSeen \in [raw : Text, value : Text]
BY DEF Empty, Text, NoSeen, Word

LEMMA TagText ==
  ASSUME NEW t \in Word
  PROVE  Tag(t) \in Text /\ Tag(t).tag = t
BY DEF Tag, Text, Word

LEMMA ValueText ==
  ASSUME NEW n \in Name, NEW raw \in Text
  PROVE  valueOf(n, raw) \in Text /\ valueOf(n, raw).tag = raw.tag
<1> DEFINE p == IF Decl[n].signed THEN [raw EXCEPT !.at = 0, !.mac = None] ELSE raw
<1>1. p \in Text /\ p.tag = raw.tag
  BY DEF Text, Word
<1> HIDE DEF p
<1>2. Tag(p.tag) \in Text /\ Tag(p.tag).tag = p.tag
  BY <1>1, TagText DEF Text
<1> QED BY <1>1, <1>2 DEF valueOf, tagOf, p

LEMMA IdleTypes ==
  /\ Idle \in Evaluation
  /\ Idle.pc = "idle" /\ Idle.shape \in Shapes /\ Idle.sent = [n \in Name |-> Empty]
  /\ Idle.state = [n \in Name |-> "absent"] /\ Idle.seen = [n \in Name |-> NoSeen]
  /\ Idle.fired = {} /\ Idle.writes = {} /\ Idle.cookies = {} /\ Idle.marks = {}
  /\ Idle.code = None
<1>1. (CHOOSE s \in Shapes : TRUE) \in Shapes
  BY ShapeAssumption
<1>2. [n \in Name |-> Empty] \in [Name -> Text] /\ [n \in Name |-> NoSeen] \in [Name -> [raw : Text, value : Text]]
  BY EmptyText
<1>3. [n \in Name |-> "absent"] \in [Name -> CookieState]
  BY DEF CookieState
<1> QED BY <1>1, <1>2, <1>3 DEF Idle, Evaluation

LEMMA IdleGood == \A t, iss : Good(Idle, t, iss)
<1> SUFFICES ASSUME NEW t, NEW iss PROVE Good(Idle, t, iss)
  OBVIOUS
<1>1. Unforged(Idle, iss)
  BY IdleTypes, NameAssumption DEF Unforged, Empty, None
<1>2. StateMeans(Idle) /\ SeenMeans(Idle)
  BY IdleTypes DEF StateMeans, SeenMeans
<1>3. CookiesMean(Idle, t) /\ Stage(Idle, t, iss) /\ MarksMean(Idle)
  BY IdleTypes DEF CookiesMean, Stage, MarksMean
<1> QED BY <1>1, <1>2, <1>3 DEF Good

(* An answer without cookies: only what was sent, read and fired is left.  *)
LEMMA AnswerIs ==
  ASSUME NEW e \in Evaluation, NEW code \in Code
  PROVE  LET a == Answer(e, code) IN
         /\ a \in Evaluation
         /\ a.pc = "told" /\ a.code = code /\ a.shape = e.shape /\ a.sent = e.sent
         /\ a.state = e.state /\ a.fired = e.fired /\ a.fault = e.fault
         /\ a.seen = [n \in Name |-> NoSeen]
         /\ a.writes = {} /\ a.cookies = {} /\ a.marks = {}
BY IdleTypes DEF Answer, Evaluation

LEMMA AnswerGood ==
  ASSUME NEW e \in Evaluation, NEW code \in Code, NEW t, NEW iss,
         Unforged(e, iss), StateMeans(e)
  PROVE  Good(Answer(e, code), t, iss)
<1> DEFINE a == Answer(e, code)
<1>0. /\ a.pc = "told" /\ a.code = code /\ a.sent = e.sent /\ a.state = e.state
      /\ a.seen = [n \in Name |-> NoSeen] /\ a.cookies = {} /\ a.marks = {}
  BY AnswerIs
<1> HIDE DEF a
<1>1. Unforged(a, iss) /\ StateMeans(a)
  BY <1>0 DEF Unforged, StateMeans
<1>2. SeenMeans(a) /\ CookiesMean(a, t) /\ MarksMean(a)
  BY <1>0 DEF SeenMeans, CookiesMean, MarksMean
<1>3. Stage(a, t, iss)
  BY <1>0 DEF Stage
<1> QED BY <1>1, <1>2, <1>3 DEF Good, a

-----------------------------------------------------------------------------
(* Time passes, more is issued, one evaluation moves *)

LEMMA GenuineLater ==
  ASSUME NEW n \in Name, NEW raw \in Text, NEW t \in Nat, NEW u \in Nat, t <= u,
         Genuine(n, raw, t)
  PROVE  Genuine(n, raw, u)
<1>1. ASSUME NEW c \in Copy, raw.at <= t + Skew[c]
      PROVE  raw.at <= u + Skew[c]
  BY <1>1, ClockAssumption DEF Text
<1> QED BY <1>1 DEF Genuine

LEMMA GoodLater ==
  ASSUME NEW e \in Evaluation, NEW t \in Nat, NEW u \in Nat, t <= u,
         NEW iss, NEW jss, iss \subseteq jss, Good(e, t, iss)
  PROVE  Good(e, u, jss)
<1>1. Unforged(e, jss)
  BY DEF Good, Unforged
<1>2. CookiesMean(e, u)
  <2>1. \A k \in e.cookies : k.name \in Name /\ k.raw \in Text
    BY DEF Evaluation
  <2> QED BY <2>1, GenuineLater DEF Good, CookiesMean
<1>3. Stage(e, u, jss)
  <2>1. ASSUME NEW c \in Copy, e.clock <= t + Skew[c]
        PROVE  e.clock <= u + Skew[c]
    BY <2>1, ClockAssumption DEF Evaluation
  <2> QED BY <2>1 DEF Good, Stage
<1> QED BY <1>1, <1>2, <1>3 DEF Good

LEMMA OneMoves ==
  ASSUME TypeOK, \A s \in Req : Good(req[s], now, issued),
         NEW r \in Req, NEW e1 \in Evaluation, req' = [req EXCEPT ![r] = e1],
         now' = now, issued \subseteq issued', Good(e1, now', issued')
  PROVE  req' \in [Req -> Evaluation] /\ \A s \in Req : Good(req'[s], now', issued')
<1>1. req \in [Req -> Evaluation] /\ now \in Nat
  BY DEF TypeOK
<1>2. req' \in [Req -> Evaluation] /\ req'[r] = e1 /\ \A s \in Req \ {r} : req'[s] = req[s]
  BY <1>1
<1>3. ASSUME NEW s \in Req \ {r}
      PROVE  Good(req'[s], now', issued')
  <2>1. req[s] \in Evaluation /\ Good(req[s], now, issued) /\ now <= now /\ now' = now
    BY <1>1
  <2>2. Good(req[s], now, issued')
    BY <1>1, <2>1, GoodLater
  <2> QED BY <1>2, <2>1, <2>2
<1> QED BY <1>2, <1>3

LEMMA IInvNext ==
  ASSUME now' \in 1..MaxTime, secret' \in BOOLEAN, sends' \in 0..MaxSent, fresh' \in Nat,
         jar' \in [Name -> Text], list' \in [List -> SUBSET Text],
         req' \in [Req -> Evaluation], Told', Carries', ForgedNeverListed',
         \A s \in Req : Good(req'[s], now', issued')
  PROVE  IInv'
<1>1. \A s \in Req : /\ req'[s].pc = "told" => req'[s].code \in Code
                     /\ req'[s].cookies # {} => req'[s].code = "COOKIE_OK"
  BY DEF Good, Stage
<1>2. TypeOK'
  BY <1>1 DEF TypeOK
<1> QED BY <1>2 DEF IInv

(* The steps that touch nothing but one evaluation.                        *)
LEMMA OnlyReq ==
  ASSUME IInv, NEW r \in Req, NEW e1 \in Evaluation, Good(e1, now, issued),
         req' = [req EXCEPT ![r] = e1], sends' \in 0..MaxSent, fresh' \in Nat,
         UNCHANGED <<now, secret, jar, issued, list>>
  PROVE  IInv'
<1>1. req' \in [Req -> Evaluation] /\ \A s \in Req : Good(req'[s], now', issued')
  <2>1. Good(e1, now', issued') /\ issued \subseteq issued' /\ now' = now
    OBVIOUS
  <2> QED BY <2>1, OneMoves DEF IInv
<1>2. /\ now' \in 1..MaxTime /\ secret' \in BOOLEAN
      /\ jar' \in [Name -> Text] /\ list' \in [List -> SUBSET Text]
  BY DEF IInv, TypeOK
<1>3. Told' /\ Carries' /\ ForgedNeverListed'
  BY DEF IInv, Told, Carries, ForgedNeverListed
<1> QED BY <1>1, <1>2, <1>3, IInvNext

-----------------------------------------------------------------------------
(* The client and the clock *)

LEMMA ToldIs ==
  ASSUME Told, NEW n, NEW raw, <<n, raw>> \in issued
  PROVE  n \in Name /\ raw \in Text /\ Genuine(n, raw, now)
<1> DEFINE x == <<n, raw>>
<1>1. x[1] = n /\ x[2] = raw
  OBVIOUS
<1>2. x \in Name \X Text /\ Genuine(x[1], x[2], now)
  BY DEF Told
<1> QED BY <1>1, <1>2

LEMMA JarUnforged ==
  ASSUME IInv, NEW m \in Name, jar[m].mac \in Name
  PROVE  <<jar[m].mac, jar[m]>> \in issued
<1>1. jar[m] # Empty
  BY NameAssumption DEF Empty
<1>2. <<m, jar[m]>> \in issued
  BY <1>1 DEF IInv, Carries
<1>3. Genuine(m, jar[m], now)
  BY <1>2, ToldIs DEF IInv
<1>4. jar[m].mac = m
  BY <1>3, NameAssumption DEF Genuine
<1> QED BY <1>2, <1>4

LEMMA CarriedIs ==
  ASSUME IInv, NEW sent \in Carried
  PROVE  /\ sent \in [Name -> Text]
         /\ \A n \in Name : sent[n].mac \in Name => <<sent[n].mac, sent[n]>> \in issued
<1> DEFINE made == {[tag |-> t, num |-> 0, at |-> 1, mac |-> m] : t \in Made, m \in {"bad", "long"}}
<1>0. jar \in [Name -> Text]
  BY DEF IInv, TypeOK
<1>1. ASSUME NEW raw \in made
      PROVE  raw \in Text /\ raw.mac \notin Name
  <2>1. PICK t \in Made, m \in {"bad", "long"} : raw = [tag |-> t, num |-> 0, at |-> 1, mac |-> m]
    OBVIOUS
  <2>2. t \in Word /\ m \in Word
    BY DEF Word
  <2> QED BY <2>1, <2>2, NameAssumption DEF Text
<1>2. Empty \in Text /\ Empty.mac \notin Name
  BY EmptyText, NameAssumption DEF Empty
<1>3. CASE sent = jar
  BY <1>0, <1>3, JarUnforged
<1>4. CASE sent # jar
  <2>1. PICK n \in Name, raw \in made \cup {Empty} \cup {jar[m] : m \in Name} : sent = [jar EXCEPT ![n] = raw]
    BY <1>4 DEF Carried
  <2>2. raw \in Text /\ (raw.mac \in Name => <<raw.mac, raw>> \in issued)
    <3>1. CASE raw \in made \cup {Empty}
      BY <1>1, <1>2, <3>1
    <3>2. CASE raw \in {jar[m] : m \in Name}
      <4>1. PICK m \in Name : raw = jar[m]
        BY <3>2
      <4> QED BY <1>0, <4>1, JarUnforged
    <3> QED BY <2>1, <3>1, <3>2
  <2> HIDE DEF made
  <2>3. sent \in [Name -> Text] /\ sent[n] = raw /\ \A m \in Name \ {n} : sent[m] = jar[m]
    BY <1>0, <2>1, <2>2
  <2> QED BY <2>2, <2>3, JarUnforged
<1> QED BY <1>3, <1>4

LEMMA SendKeeps ==
  ASSUME IInv, NEW r \in Req, NEW shape \in Shapes, NEW sent \in Carried, Send(r, shape, sent)
  PROVE  IInv'
<1> DEFINE e == [Idle EXCEPT !.pc = "sent", !.shape = shape, !.sent = sent]
<1>1. /\ sent \in [Name -> Text]
      /\ \A n \in Name : sent[n].mac \in Name => <<sent[n].mac, sent[n]>> \in issued
  BY CarriedIs
<1>2. /\ e \in Evaluation /\ e.pc = "sent" /\ e.sent = sent /\ e.state = [n \in Name |-> "absent"]
      /\ e.seen = [n \in Name |-> NoSeen] /\ e.fired = {} /\ e.writes = {}
      /\ e.cookies = {} /\ e.marks = {}
  BY <1>1, IdleTypes DEF Evaluation
<1>3. req' = [req EXCEPT ![r] = e] /\ sends' \in 0..MaxSent /\ fresh' \in Nat
  BY BoundAssumption DEF Send, IInv, TypeOK
<1>4. UNCHANGED <<now, secret, jar, issued, list>>
  BY DEF Send
<1> HIDE DEF e
<1>5. Unforged(e, issued) /\ StateMeans(e)
  BY <1>1, <1>2 DEF Unforged, StateMeans
<1>6. SeenMeans(e) /\ CookiesMean(e, now) /\ Stage(e, now, issued) /\ MarksMean(e)
  BY <1>2 DEF SeenMeans, CookiesMean, Stage, MarksMean
<1>7. Good(e, now, issued)
  BY <1>5, <1>6 DEF Good
<1> QED BY <1>2, <1>3, <1>4, <1>7, OnlyReq

LEMMA TickKeeps ==
  ASSUME IInv, Tick
  PROVE  IInv'
<1>1. now \in Nat /\ now' \in Nat /\ now <= now' /\ now' \in 1..MaxTime
  BY BoundAssumption DEF IInv, TypeOK, Tick
<1>2. UNCHANGED <<secret, sends, fresh, jar, issued, list, req>>
  BY DEF Tick
<1>3. \A s \in Req : Good(req'[s], now', issued')
  <2> SUFFICES ASSUME NEW s \in Req PROVE Good(req[s], now', issued)
    BY <1>2
  <2>1. req[s] \in Evaluation /\ Good(req[s], now, issued)
    BY DEF IInv, TypeOK
  <2> QED BY <1>1, <2>1, GoodLater
<1>4. Told'
  <2>1. issued \subseteq Name \X Text
    BY DEF IInv, Told
  <2>2. ASSUME NEW x \in issued
        PROVE  Genuine(x[1], x[2], now')
    <3>1. x[1] \in Name /\ x[2] \in Text /\ Genuine(x[1], x[2], now)
      BY <2>1 DEF IInv, Told
    <3> QED BY <1>1, <3>1, GenuineLater
  <2> QED BY <1>2, <2>1, <2>2 DEF Told
<1>5. Carries' /\ ForgedNeverListed'
  BY <1>2 DEF IInv, Carries, ForgedNeverListed
<1>6. /\ secret' \in BOOLEAN /\ sends' \in 0..MaxSent /\ fresh' \in Nat /\ jar' \in [Name -> Text]
      /\ list' \in [List -> SUBSET Text] /\ req' \in [Req -> Evaluation]
  BY <1>2 DEF IInv, TypeOK
<1> QED BY <1>1, <1>3, <1>4, <1>5, <1>6, IInvNext

LEMMA RefreshKeeps ==
  ASSUME IInv, UNCHANGED <<now, secret, sends, fresh, jar, issued, list, req>>
  PROVE  IInv'
BY DEF IInv, TypeOK, Told, Carries, ForgedNeverListed

LEMMA LoseKeeps ==
  ASSUME IInv, NEW r \in Req, Lose(r)
  PROVE  IInv'
<1>1. Idle \in Evaluation /\ Good(Idle, now, issued)
  BY IdleTypes, IdleGood
<1>2. /\ req' = [req EXCEPT ![r] = Idle] /\ sends' \in 0..MaxSent /\ fresh' \in Nat
      /\ UNCHANGED <<now, secret, jar, issued, list>>
  BY DEF Lose, IInv, TypeOK
<1> QED BY <1>1, <1>2, OnlyReq

-----------------------------------------------------------------------------
(* Answers that need no rules *)

LEMMA AnswerKeeps ==
  ASSUME IInv, NEW r \in Req, NEW code \in Code, req' = [req EXCEPT ![r] = Answer(req[r], code)],
         UNCHANGED <<now, secret, sends, fresh, jar, issued, list>>
  PROVE  IInv'
<1>1. req[r] \in Evaluation /\ Good(req[r], now, issued)
  BY DEF IInv, TypeOK
<1>2. Answer(req[r], code) \in Evaluation
  BY <1>1, AnswerIs
<1>3. Good(Answer(req[r], code), now, issued)
  BY <1>1, AnswerGood DEF Good
<1>4. sends' \in 0..MaxSent /\ fresh' \in Nat
  BY DEF IInv, TypeOK
<1> QED BY <1>2, <1>3, <1>4, OnlyReq

LEMMA ReceiveKeeps ==
  ASSUME IInv, NEW r \in Req, Receive(r)
  PROVE  IInv'
<1> DEFINE e == req[r]
<1>0. e \in Evaluation /\ Good(e, now, issued) /\ req \in [Req -> Evaluation] /\ e.pc = "sent"
  BY DEF IInv, TypeOK, Receive
<1>1. UNCHANGED <<now, secret, sends, fresh, jar, issued, list>>
  BY DEF Receive
<1>2. sends' \in 0..MaxSent /\ fresh' \in Nat
  BY <1>1 DEF IInv, TypeOK
<1>3. CASE \E code \in Code : req' = [req EXCEPT ![r] = Answer(req[r], code)]
  BY <1>1, <1>3, AnswerKeeps
<1>4. CASE req' = [req EXCEPT ![r] = Idle]
  BY <1>1, <1>2, <1>4, IdleTypes, IdleGood, OnlyReq
<1>5. CASE req' = [req EXCEPT ![r].pc = "queued"]
  <2> DEFINE e1 == [e EXCEPT !.pc = "queued"]
  <2>1. req' = [req EXCEPT ![r] = e1]
    BY <1>0, <1>5
  <2>2. /\ e1 \in Evaluation /\ e1.pc = "queued" /\ e1.sent = e.sent /\ e1.state = e.state
        /\ e1.shape = e.shape
        /\ e1.seen = e.seen /\ e1.fired = e.fired /\ e1.writes = e.writes /\ e1.code = e.code
        /\ e1.cookies = e.cookies /\ e1.marks = e.marks
    BY <1>0 DEF Evaluation
  <2> HIDE DEF e1, e
  <2>3. Unforged(e1, issued) /\ StateMeans(e1) /\ SeenMeans(e1) /\ MarksMean(e1)
    BY <1>0, <2>2 DEF Good, Unforged, StateMeans, SeenMeans, AsRead, AsIssued, MarksMean, MarkMeans, Filled, Fills
  <2>4. CookiesMean(e1, now) /\ Stage(e1, now, issued)
    BY <1>0, <2>2 DEF Good, CookiesMean, Stage, Rules
  <2>5. Good(e1, now, issued)
    BY <2>3, <2>4 DEF Good
  <2> QED BY <1>1, <1>2, <2>1, <2>2, <2>5, OnlyReq
<1>6. /\ "COOKIE_MALFORMED_REQUEST" \in Code /\ "COOKIE_UNSUPPORTED_VERSION" \in Code
      /\ "COOKIE_IDLE" \in Code
  BY DEF Code
<1> QED BY <1>3, <1>4, <1>5, <1>6 DEF Receive

LEMMA RefuseKeeps ==
  ASSUME IInv, NEW r \in Req, Refuse(r)
  PROVE  IInv'
<1>1. UNCHANGED <<now, secret, sends, fresh, jar, issued, list>>
  BY DEF Refuse
<1>2. /\ "COOKIE_UNKNOWN_PROFILE" \in Code /\ "COOKIE_PROFILE_OFF" \in Code
      /\ "COOKIE_HEADERS_UNAVAILABLE" \in Code
  BY DEF Code
<1>3. \E code \in Code : req' = [req EXCEPT ![r] = Answer(req[r], code)]
  BY <1>2 DEF Refuse
<1> QED BY <1>1, <1>3, AnswerKeeps

-----------------------------------------------------------------------------
(* The states of the cookies *)

(* A string that was issued is not refused, one that was not is: Read at   *)
(* any copy, for a string whose signature, if it is one, is the fleet's.   *)
LEMMA ReadMeans ==
  ASSUME Told, now \in Nat, NEW n \in Name, NEW raw \in Text, NEW c \in Copy,
         raw.mac \in Name => <<raw.mac, raw>> \in issued,
         NEW st, st = Read(n, raw, now + Skew[c]), st # "no_secret"
  PROVE  /\ st \in CookieState
         /\ st = "invalid" => raw.mac = "long" \/ (Decl[n].signed /\ raw.mac # n)
         /\ (st \in {"present", "expired"} /\ Decl[n].signed) => raw.mac = n
<1>1. ASSUME Decl[n].signed, raw.mac = n
      PROVE  ~(raw.at > now + Skew[c] + Minute)
  <2>1. Genuine(n, raw, now)
    BY <1>1, ToldIs
  <2>2. PICK d \in Copy : raw.at <= now + Skew[d]
    BY <1>1, <2>1 DEF Genuine
  <2>3. Skew[c] \in Nat /\ Skew[d] \in Nat /\ Skew[d] - Skew[c] <= Minute /\ Minute \in Nat /\ raw.at \in Nat
    BY ClockAssumption DEF Text
  <2> QED BY <2>2, <2>3
<1>2. st \in CookieState
  BY DEF Read, CookieState
<1>3. st = "invalid" => raw.mac = "long" \/ (Decl[n].signed /\ raw.mac # n)
  BY <1>1 DEF Read
<1>4. (st \in {"present", "expired"} /\ Decl[n].signed) => raw.mac = n
  BY DEF Read
<1> QED BY <1>2, <1>3, <1>4

LEMMA StatesKeeps ==
  ASSUME IInv, NEW r \in Req, NEW ok \in BOOLEAN, States(r, ok)
  PROVE  IInv'
<1> DEFINE e == req[r]
           body == Load(e.shape.headers, ok)
           got == Cookies(e, body)
           clock == Clock(e.shape.copy)
           states == [n \in Name |-> Read(n, got[n], clock)]
           e1 == [e EXCEPT !.pc = "rules", !.fault = body.fault, !.state = states,
                           !.clock = clock, !.seen = Seen(e, states)]
<1>0. e \in Evaluation /\ Good(e, now, issued) /\ e.pc = "queued" /\ e.shape.route \in DOMAIN Profiles
  BY DEF IInv, TypeOK, States
<1>1. UNCHANGED <<now, secret, sends, fresh, jar, issued, list>>
  BY DEF States
<1>2. req' = [req EXCEPT ![r] = IF \E n \in Name : states[n] = "no_secret"
                                  THEN stateError(e, body.fault) ELSE e1]
  BY DEF States
<1>3. CASE \E n \in Name : states[n] = "no_secret"
  <2>1. "COOKIE_STORE_ERROR" \in Code /\ "COOKIE_SECRET_MISSING" \in Code
    BY DEF Code
  <2>2. \E code \in Code : req' = [req EXCEPT ![r] = Answer(req[r], code)]
    BY <1>2, <1>3, <2>1 DEF stateError
  <2> QED BY <1>1, <2>2, AnswerKeeps
<1>4. CASE \A n \in Name : states[n] # "no_secret"
  <2>1. /\ e.shape.copy \in Copy /\ Skew[e.shape.copy] \in Nat /\ now \in Nat
        /\ clock = now + Skew[e.shape.copy] /\ clock \in Nat
    BY <1>0, ShapeAssumption, ClockAssumption DEF IInv, TypeOK, Evaluation, Clock
  <2>2. body.fault \in BOOLEAN
    BY DEF Load
  <2>3. ASSUME NEW n \in Name
        PROVE  /\ states[n] \in CookieState
               /\ states[n] = "invalid" => e.sent[n].mac = "long" \/ (Decl[n].signed /\ e.sent[n].mac # n)
               /\ (states[n] \in {"present", "expired"} /\ Decl[n].signed) => e.sent[n].mac = n
    <3>1. e.sent[n] \in Text /\ (e.sent[n].mac \in Name => <<e.sent[n].mac, e.sent[n]>> \in issued)
      BY <1>0 DEF Good, Unforged, Evaluation
    <3>2. CASE body.data
      <4>1. states[n] = Read(n, e.sent[n], now + Skew[e.shape.copy])
        BY <2>1, <3>2 DEF Cookies
      <4>2. Told /\ states[n] # "no_secret"
        BY <1>4 DEF IInv
      <4> HIDE DEF states, e
      <4> QED BY <2>1, <3>1, <4>1, <4>2, ReadMeans
    <3>3. CASE ~body.data
      <4>1. states[n] = "absent"
        BY <3>3 DEF Cookies, Read
      <4> QED BY <4>1 DEF CookieState
    <3> QED BY <3>2, <3>3
  <2>4. states \in [Name -> CookieState]
    BY <2>3
  <2>5. Seen(e, states) \in [Name -> [raw : Text, value : Text]]
    <3>1. ASSUME NEW n \in Name
          PROVE  [raw |-> e.sent[n], value |-> valueOf(n, e.sent[n])] \in [raw : Text, value : Text]
      <4>1. e.sent[n] \in Text
        BY <1>0 DEF Evaluation
      <4> QED BY <4>1, ValueText
    <3> QED BY <3>1, EmptyText DEF Seen
  <2> HIDE DEF body, got, clock, states
  <2>6. /\ e1 \in Evaluation /\ e1.pc = "rules" /\ e1.sent = e.sent /\ e1.state = states
        /\ e1.shape = e.shape /\ e1.clock = clock
        /\ e1.seen = Seen(e, states) /\ e1.fired = e.fired /\ e1.writes = e.writes
        /\ e1.code = e.code /\ e1.cookies = e.cookies /\ e1.marks = e.marks
    BY <1>0, <2>1, <2>2, <2>4, <2>5 DEF Evaluation
  <2> HIDE DEF e1, e
  <2>7. Unforged(e1, issued) /\ StateMeans(e1)
    BY <1>0, <2>3, <2>6 DEF Good, Unforged, StateMeans
  <2>8. SeenMeans(e1)
    BY <2>6 DEF SeenMeans, AsRead, Seen
  <2>9. e.cookies = {} /\ e.fired = {} /\ e.writes = {} /\ e.marks = {}
    BY <1>0 DEF Good, Stage
  <2>10. CookiesMean(e1, now)
    BY <2>6, <2>9 DEF CookiesMean
  <2>11. Stage(e1, now, issued)
    <3>1. \E c \in Copy : e1.clock <= now + Skew[c]
      BY <2>1, <2>6
    <3> QED BY <1>0, <2>6, <2>9, <3>1 DEF Stage
  <2>12. MarksMean(e1)
    BY <2>6, <2>9 DEF MarksMean
  <2>13. Good(e1, now, issued)
    BY <2>7, <2>8, <2>10, <2>11, <2>12 DEF Good
  <2>14. req' = [req EXCEPT ![r] = e1]
    BY <1>2, <1>4
  <2>15. sends' \in 0..MaxSent /\ fresh' \in Nat
    BY <1>1 DEF IInv, TypeOK
  <2> QED BY <1>1, <2>6, <2>13, <2>14, <2>15, OnlyReq
<1> QED BY <1>3, <1>4

-----------------------------------------------------------------------------
(* The rules *)

(* What the parser has made sure of, of every rule of a profile.           *)
LEMMA RuleIs ==
  ASSUME NEW e \in Evaluation, e.shape.route \in DOMAIN Profiles, NEW k \in DOMAIN Rules(e)
  PROVE  LET rule == Rules(e)[k] IN
         /\ k \in Nat
         /\ rule.issue \in Name \cup {None} /\ rule.drop \in Name \cup {None}
         /\ rule.cookie \in Name \cup {None}
         /\ IsList(rule.mark) /\ IsList(rule.writes)
         /\ \A x \in DOMAIN rule.mark :
              /\ rule.mark[x] \in {"name", "value"} => rule.cookie \in Name
              /\ rule.mark[x] \notin {"name", "value"} => rule.mark[x] \in Name
         /\ \A j \in DOMAIN rule.writes : j \in Nat /\ parseWrite(rule.writes[j])
<1> DEFINE rules == Rules(e)
           rule == rules[k]
<1>1. IsList(rules) /\ parseRule(rule)
  BY ProfileAssumption DEF Parse, Rules
<1> HIDE DEF rules
<1>2. k \in Nat
  BY <1>1 DEF IsList, rules
<1> HIDE DEF rule
<1>3. /\ {rule.issue, rule.drop, rule.cookie} \subseteq Name \cup {None}
      /\ \E valued \in BOOLEAN : CheckMarkerSlots(rule, valued)
  <2>1. CASE rule.over
    BY <1>1, <2>1 DEF parseRule, parseOverloadRule
  <2>2. CASE ~rule.over
    <3>1. (rule.on \notin {"absent", "invalid"} \/ rule.issue = rule.cookie) \in BOOLEAN
      OBVIOUS
    <3> QED BY <1>1, <2>2, <3>1 DEF parseRule, parseRuleCookie
  <2> QED BY <2>1, <2>2
<1>4. \A x \in DOMAIN rule.mark :
        /\ rule.mark[x] \in {"name", "value"} => rule.cookie \in Name
        /\ rule.mark[x] \notin {"name", "value"} => rule.mark[x] \in Name
  BY <1>3 DEF CheckMarkerSlots
<1>5. IsList(rule.mark) /\ IsList(rule.writes) /\ \A j \in DOMAIN rule.writes : parseWrite(rule.writes[j])
  BY <1>1 DEF parseRule
<1>6. \A j \in DOMAIN rule.writes : j \in Nat
  BY <1>5 DEF IsList
<1> QED BY <1>2, <1>3, <1>4, <1>5, <1>6 DEF rule, rules

(* An evaluation that only goes on through its rules.                      *)
LEMMA FiredKeeps ==
  ASSUME NEW e \in Evaluation, Good(e, now, issued), e.pc = "rules",
         NEW new, new \subseteq DOMAIN Rules(e), NEW i \in Nat,
         NEW e1, e1 = [e EXCEPT !.fired = e.fired \cup new, !.i = i]
  PROVE  e1 \in Evaluation /\ Good(e1, now, issued)
<1>0. e.shape.route \in DOMAIN Profiles /\ e.cookies = {} /\ e.marks = {} /\ e.fired \subseteq DOMAIN Rules(e)
  BY DEF Good, Stage
<1>1. new \subseteq Nat
  BY <1>0, RuleIs
<1>2. /\ e1 \in Evaluation /\ e1.pc = e.pc /\ e1.sent = e.sent /\ e1.state = e.state
      /\ e1.shape = e.shape /\ e1.clock = e.clock /\ e1.fired = e.fired \cup new
      /\ e1.seen = e.seen /\ e1.writes = e.writes
      /\ e1.code = e.code /\ e1.cookies = e.cookies /\ e1.marks = e.marks
  BY <1>1 DEF Evaluation
<1>3. Unforged(e1, issued) /\ StateMeans(e1) /\ SeenMeans(e1) /\ MarksMean(e1)
  BY <1>0, <1>2 DEF Good, Unforged, StateMeans, SeenMeans, AsRead, AsIssued, MarksMean
<1>4. CookiesMean(e1, now) /\ Stage(e1, now, issued)
  <2>1. Rules(e1) = Rules(e)
    BY <1>2 DEF Rules
  <2> QED BY <1>0, <1>2, <2>1 DEF Good, CookiesMean, Stage
<1> QED BY <1>2, <1>3, <1>4 DEF Good

LEMMA WalkKeeps ==
  ASSUME IInv, NEW r \in Req, Walk(r)
  PROVE  IInv'
<1> DEFINE e == req[r]
           rules == Rules(e)
<1>0. e \in Evaluation /\ Good(e, now, issued) /\ e.pc = "rules"
  BY DEF IInv, TypeOK, Walk
<1>1. /\ UNCHANGED <<now, secret, jar, issued, list>>
      /\ sends' \in 0..MaxSent /\ fresh' \in Nat
  BY DEF Walk, IInv, TypeOK
<1>2. PICK upto \in e.i..Len(rules) :
        req' = [req EXCEPT ![r] = [e EXCEPT !.fired = @ \cup Collect(e, rules, e.i, upto),
                                            !.i = upto + 1]]
  BY DEF Walk
<1> DEFINE new == Collect(e, rules, e.i, upto)
           e1 == [e EXCEPT !.fired = e.fired \cup new, !.i = upto + 1]
<1>3. new \subseteq DOMAIN Rules(e)
  BY DEF Collect
<1>4. upto + 1 \in Nat
  <2>1. e.i \in Nat
    BY <1>0 DEF Evaluation
  <2> QED BY <1>2, <2>1
<1>5. e1 \in Evaluation /\ Good(e1, now, issued)
  <2> HIDE DEF new, e
  <2> QED BY <1>0, <1>3, <1>4, FiredKeeps
<1>6. req' = [req EXCEPT ![r] = e1]
  BY <1>2
<1> HIDE DEF e1
<1> QED BY <1>1, <1>5, <1>6, OnlyReq

-----------------------------------------------------------------------------
(* Shedding *)

LEMMA RowsIn ==
  ASSUME NEW e \in Evaluation, e.shape.route \in DOMAIN Profiles,
         NEW fired, fired \subseteq DOMAIN Rules(e)
  PROVE  /\ fired \subseteq Nat
         /\ Rows(Rules(e), fired) \subseteq Rows(Rules(e), DOMAIN Rules(e))
         /\ Rows(Rules(e), fired) \subseteq [rule : Nat, row : Nat]
<1>1. \A k \in fired : k \in Nat /\ \A j \in DOMAIN Rules(e)[k].writes : j \in Nat
  BY RuleIs
<1>2. \A p \in Rows(Rules(e), fired) :
        \E k \in fired : \E j \in DOMAIN Rules(e)[k].writes : p = [rule |-> k, row |-> j]
  BY DEF Rows
<1>3. \A p \in Rows(Rules(e), fired) : p \in Rows(Rules(e), DOMAIN Rules(e))
  BY <1>2 DEF Rows
<1> QED BY <1>1, <1>2, <1>3

LEMMA ShedKeeps ==
  ASSUME IInv, NEW r \in Req, Shed(r)
  PROVE  IInv'
<1> DEFINE e == req[r]
           rules == Rules(e)
           fired == CollectOverload(e, rules, TRUE)
           e1 == [e EXCEPT !.pc = "write", !.code = "COOKIE_QUEUE_LIMIT",
                           !.fired = fired, !.writes = Rows(rules, fired)]
<1>0. e \in Evaluation /\ Good(e, now, issued) /\ e.pc = "queued"
  BY DEF IInv, TypeOK, Shed
<1>1. UNCHANGED <<now, secret, sends, fresh, jar, issued, list>>
  BY DEF Shed
<1>2. "COOKIE_DEADLINE_EXCEEDED" \in Code /\ "COOKIE_QUEUE_LIMIT" \in Code
  BY DEF Code
<1>3. \/ \E code \in Code : req' = [req EXCEPT ![r] = Answer(req[r], code)]
      \/ e.shape.route \in DOMAIN Profiles /\ req' = [req EXCEPT ![r] = e1]
  BY <1>2 DEF Shed
<1>4. CASE \E code \in Code : req' = [req EXCEPT ![r] = Answer(req[r], code)]
  BY <1>1, <1>4, AnswerKeeps
<1>5. CASE e.shape.route \in DOMAIN Profiles /\ req' = [req EXCEPT ![r] = e1]
  <2>1. fired \subseteq DOMAIN rules
    BY DEF CollectOverload
  <2> HIDE DEF fired
  <2>2. /\ fired \subseteq Nat /\ Rows(rules, fired) \subseteq Rows(rules, DOMAIN rules)
        /\ Rows(rules, fired) \subseteq [rule : Nat, row : Nat]
    BY <1>0, <1>5, <2>1, RowsIn
  <2> HIDE DEF rules
  <2>3. /\ e1 \in Evaluation /\ e1.pc = "write" /\ e1.sent = e.sent /\ e1.state = e.state
        /\ e1.shape = e.shape /\ e1.fired = fired /\ e1.seen = e.seen /\ e1.code \in Code
        /\ e1.writes = Rows(rules, fired) /\ e1.cookies = e.cookies /\ e1.marks = e.marks
    BY <1>0, <1>2, <2>2 DEF Evaluation
  <2>4. Rules(e1) = rules
    BY <2>3 DEF Rules, rules
  <2> HIDE DEF e1, e
  <2>5. e.cookies = {} /\ e.marks = {}
    BY <1>0 DEF Good, Stage
  <2>6. Unforged(e1, issued) /\ StateMeans(e1) /\ SeenMeans(e1) /\ MarksMean(e1)
    BY <1>0, <2>3, <2>5 DEF Good, Unforged, StateMeans, SeenMeans, AsRead, AsIssued, MarksMean
  <2>7. CookiesMean(e1, now) /\ Stage(e1, now, issued)
    BY <1>5, <2>1, <2>2, <2>3, <2>4, <2>5 DEF CookiesMean, Stage
  <2>8. Good(e1, now, issued)
    BY <2>6, <2>7 DEF Good
  <2>9. sends' \in 0..MaxSent /\ fresh' \in Nat
    BY <1>1 DEF IInv, TypeOK
  <2> QED BY <1>1, <1>5, <2>3, <2>8, <2>9, OnlyReq DEF e
<1> QED BY <1>3, <1>4, <1>5

-----------------------------------------------------------------------------
(* Issuing and dropping *)

LEMMA ValuesWord ==
  ASSUME NEW n \in Name, NEW e \in Evaluation, NEW args
  PROVE  /\ Values(n, e, args) \in Word
         /\ Decl[n].from \notin Name => Values(n, e, args) \notin Made
<1> DEFINE headers == Load(e.shape.headers, ~e.fault)
<1>1. e.shape \in Shapes
  BY DEF Evaluation
<1>2. /\ e.shape.message \in Word \ Made /\ e.shape.uri \in Word \ Made
      /\ e.shape.header \in Word \ Made /\ e.shape.arg \in Word \ Made
  BY <1>1, ShapeAssumption DEF Word
<1>3. None \in Word \ Made /\ "digits" \in Word
  BY NameAssumption DEF Word
<1>4. ASSUME Decl[n].from \in Name
      PROVE  sanitizeTag(Cookies(e, headers)[Decl[n].from]) \in Word
  <2> DEFINE raw == Cookies(e, headers)[Decl[n].from]
  <2>1. raw \in Text
    BY <1>4, EmptyText DEF Cookies, Evaluation
  <2>2. raw.tag \in Word
    BY <2>1 DEF Text
  <2> HIDE DEF raw
  <2>3. sanitizeTag(raw) \in Word
    BY <1>3, <2>2 DEF sanitizeTag
  <2> QED BY <2>3 DEF raw
<1> HIDE DEF headers
<1>5. Args(e, args) \in Word \ Made
  BY <1>2, <1>3 DEF Args
<1> QED BY <1>2, <1>3, <1>4, <1>5 DEF Values, headers

(* Whatever Issue builds is genuine at the time of the evaluation's clock. *)
LEMMA IssueIs ==
  ASSUME NEW n \in Name, NEW text \in Word, Decl[n].from \notin Name => text \notin Made,
         NEW num, Decl[n].random => num[n] \in Nat,
         NEW clock \in Nat, NEW t, \E c \in Copy : clock <= t + Skew[c]
  PROVE  LET raw == Issue(n, text, num, clock) IN
         raw \in Text /\ (raw # Empty => Genuine(n, raw, t))
<1> DEFINE tag == IF text # None THEN text ELSE Decl[n].dflt
           number == IF Decl[n].random THEN num[n] ELSE 0
           at == IF Decl[n].signed THEN clock ELSE 0
           mac == IF Decl[n].signed THEN n ELSE None
           built == [tag |-> tag, num |-> number, at |-> at, mac |-> mac]
           raw == Issue(n, text, num, clock)
<1>1. tag \in Word /\ (Decl[n].from \notin Name => tag \notin Made)
  BY NameAssumption DEF Word
<1>2. number \in Nat /\ at \in Nat /\ mac \in Word
  BY DEF Word
<1>3. raw = Empty \/ raw = built
  BY DEF Issue
<1>4. (Decl[n].signed => mac = n /\ at = clock) /\ (~Decl[n].signed => mac = None)
  OBVIOUS
<1> HIDE DEF tag, number, at, mac, raw
<1>5. built \in Text /\ built.tag = tag /\ built.at = at /\ built.mac = mac
  BY <1>1, <1>2 DEF Text
<1> HIDE DEF built
<1>6. Genuine(n, built, t)
  BY <1>1, <1>4, <1>5 DEF Genuine
<1>7. raw \in Text /\ (raw # Empty => Genuine(n, raw, t))
  BY <1>3, <1>5, <1>6, EmptyText
<1> QED BY <1>7 DEF raw

LEMMA ApplyIs ==
  ASSUME NEW e \in Evaluation, NEW kept, kept \subseteq Name, NEW num, NEW args, NEW t,
         \A n \in kept : Decl[n].random => num[n] \in Nat,
         \E c \in Copy : e.clock <= t + Skew[c]
  PROVE  LET new == apply(e, kept, num, args) IN
         /\ new \subseteq [name : Name, raw : Text]
         /\ \A k \in new : k.name \in kept /\ k.raw # Empty /\ Genuine(k.name, k.raw, t)
         /\ \A j, k \in new : j.name = k.name => j = k
<1> DEFINE made(n) == Issue(n, Values(n, e, args), num, e.clock)
           new == apply(e, kept, num, args)
<1>1. ASSUME NEW n \in kept
      PROVE  made(n) \in Text /\ (made(n) # Empty => Genuine(n, made(n), t))
  <2>1. /\ Values(n, e, args) \in Word
        /\ Decl[n].from \notin Name => Values(n, e, args) \notin Made
    BY ValuesWord
  <2>2. e.clock \in Nat
    BY DEF Evaluation
  <2> QED BY <2>1, <2>2, IssueIs
<1>2. new = {[name |-> n, raw |-> made(n)] : n \in {m \in kept : made(m) # Empty}}
  BY DEF apply
<1> HIDE DEF made, new
<1>3. \A k \in new : \E n \in kept : k = [name |-> n, raw |-> made(n)] /\ made(n) # Empty
  BY <1>2
<1>4. \A k \in new : /\ k.name \in kept /\ k.raw = made(k.name) /\ k.raw # Empty
                     /\ k = [name |-> k.name, raw |-> made(k.name)]
  BY <1>3
<1>5. /\ new \subseteq [name : Name, raw : Text]
      /\ \A k \in new : k.name \in kept /\ k.raw # Empty /\ Genuine(k.name, k.raw, t)
      /\ \A j, k \in new : j.name = k.name => j = k
  BY <1>1, <1>4
<1> QED BY <1>5 DEF new

LEMMA IssuedIs ==
  ASSUME NEW seen \in [Name -> [raw : Text, value : Text]],
         NEW new, new \subseteq [name : Name, raw : Text]
  PROVE  /\ Issued(seen, new) \in [Name -> [raw : Text, value : Text]]
         /\ \A n \in Name :
              \/ \E k \in new : /\ k.name = n
                                /\ Issued(seen, new)[n] = [raw |-> k.raw, value |-> valueOf(n, k.raw)]
              \/ /\ Issued(seen, new)[n] = seen[n]
                 /\ \A k \in new : k.name # n
<1> DEFINE f == Issued(seen, new)
<1>1. ASSUME NEW n \in Name, NEW k \in new
      PROVE  k.raw \in Text /\ valueOf(n, k.raw) \in Text
  BY <1>1, ValueText
<1>2. ASSUME NEW n \in Name
      PROVE  \/ \E k \in new : /\ k.name = n
                               /\ f[n] = [raw |-> k.raw, value |-> valueOf(n, k.raw)]
             \/ f[n] = seen[n] /\ \A k \in new : k.name # n
  <2>1. CASE \E k \in new : k.name = n
    <3> DEFINE c == CHOOSE k \in new : k.name = n
    <3>1. c \in new /\ c.name = n
      BY <2>1
    <3>2. f[n] = [raw |-> c.raw, value |-> valueOf(n, c.raw)]
      BY <2>1 DEF Issued
    <3> HIDE DEF c, f
    <3> QED BY <3>1, <3>2
  <2>2. CASE ~\E k \in new : k.name = n
    BY <2>2 DEF Issued
  <2> QED BY <2>1, <2>2
<1>3. f = [n \in Name |-> f[n]]
  <2> DEFINE g(n) == IF \E k \in new : k.name = n
                       THEN LET raw == (CHOOSE k \in new : k.name = n).raw
                            IN  [raw |-> raw, value |-> valueOf(n, raw)]
                       ELSE seen[n]
  <2>1. f = [n \in Name |-> g(n)]
    BY DEF Issued
  <2> HIDE DEF f, g
  <2> QED BY <2>1
<1> HIDE DEF f
<1>4. ASSUME NEW n \in Name
      PROVE  f[n] \in [raw : Text, value : Text]
  <2>1. ASSUME NEW k \in new, f[n] = [raw |-> k.raw, value |-> valueOf(n, k.raw)]
        PROVE  f[n] \in [raw : Text, value : Text]
    <3>1. k.raw \in Text /\ valueOf(n, k.raw) \in Text
      BY <1>1
    <3> QED BY <2>1, <3>1
  <2>2. seen[n] \in [raw : Text, value : Text]
    OBVIOUS
  <2> QED BY <1>2, <2>1, <2>2
<1>5. f \in [Name -> [raw : Text, value : Text]]
  BY <1>3, <1>4
<1> QED BY <1>2, <1>5 DEF f

LEMMA OutcomeIs ==
  ASSUME NEW e \in Evaluation, e.shape.route \in DOMAIN Profiles,
         NEW fired, fired \subseteq DOMAIN Rules(e)
  PROVE  /\ Kept(Rules(e), fired) \subseteq Name /\ Dropped(Rules(e), fired) \subseteq Name
         /\ Kept(Rules(e), fired) \cap Dropped(Rules(e), fired) = {}
<1>1. \A k \in fired : /\ Rules(e)[k].issue \in Name \cup {None}
                       /\ Rules(e)[k].drop \in Name \cup {None}
  BY RuleIs
<1> QED BY <1>1 DEF Kept, Dropped

LEMMA ApplyKeeps ==
  ASSUME IInv, NEW r \in Req, NEW ok \in BOOLEAN, Apply(r, ok)
  PROVE  IInv'
<1> DEFINE e == req[r]
           rules == Rules(e)
           fired == IF e.shape.phase = "request"
                      THEN e.fired \cup CollectOverload(e, rules, FALSE) ELSE e.fired
           kept == Kept(rules, fired)
           drawn == {n \in kept : Decl[n].random}
           body == Load(e.shape.args, ok)
           a == [e EXCEPT !.fired = fired]
           new(num) == apply(e, kept, num, body)
           dropped == {[name |-> n, raw |-> Empty] : n \in Dropped(rules, fired)}
           fault == body.fault /\ \E n \in kept : Decl[n].from \in {"arg", "uri"}
           e1(num) == [e EXCEPT !.pc = "write", !.code = "COOKIE_OK", !.fired = fired,
                                !.writes = Rows(rules, fired), !.fault = fault,
                                !.seen = Issued(@, new(num)),
                                !.cookies = new(num) \cup dropped]
<1>0. /\ e \in Evaluation /\ Good(e, now, issued) /\ e.pc = "rules" /\ fresh \in Nat
      /\ sends \in 0..MaxSent
  BY DEF IInv, TypeOK, Apply
<1>1. UNCHANGED <<now, secret, sends, jar, issued, list>>
  BY DEF Apply
<1>2. \/ /\ \E code \in {"COOKIE_STORE_ERROR", "COOKIE_SECRET_MISSING"} :
              req' = [req EXCEPT ![r] = Answer(a, code)]
         /\ fresh' = fresh
      \/ \E num \in Numbers(drawn) : /\ req' = [req EXCEPT ![r] = e1(num)]
                                     /\ fresh' = fresh + Cardinality(drawn)
  BY DEF Apply
<1>3. /\ e.shape.route \in DOMAIN Profiles /\ e.fired \subseteq DOMAIN rules
      /\ e.cookies = {} /\ e.marks = {} /\ \E c \in Copy : e.clock <= now + Skew[c]
      /\ Unforged(e, issued) /\ StateMeans(e) /\ SeenMeans(e)
  BY <1>0 DEF Good, Stage
<1>4. fired \subseteq DOMAIN rules
  BY <1>3 DEF CollectOverload
<1>5. fault \in BOOLEAN
  OBVIOUS
<1> HIDE DEF fired, fault, body
<1>6. /\ fired \subseteq Nat /\ Rows(rules, fired) \subseteq Rows(rules, DOMAIN rules)
      /\ Rows(rules, fired) \subseteq [rule : Nat, row : Nat]
  BY <1>0, <1>3, <1>4, RowsIn
<1>7. kept \subseteq Name /\ Dropped(rules, fired) \subseteq Name /\ kept \cap Dropped(rules, fired) = {}
  BY <1>0, <1>3, <1>4, OutcomeIs
<1> HIDE DEF rules, kept
<1>8. CASE \E code \in {"COOKIE_STORE_ERROR", "COOKIE_SECRET_MISSING"} :
             req' = [req EXCEPT ![r] = Answer(a, code)] /\ fresh' = fresh
  <2>1. PICK code \in Code : req' = [req EXCEPT ![r] = Answer(a, code)]
    BY <1>8 DEF Code
  <2>2. a \in Evaluation /\ a.sent = e.sent /\ a.state = e.state
    BY <1>0, <1>6 DEF Evaluation
  <2> HIDE DEF a
  <2>3. Unforged(a, issued) /\ StateMeans(a)
    BY <1>3, <2>2 DEF Unforged, StateMeans
  <2>4. Answer(a, code) \in Evaluation /\ Good(Answer(a, code), now, issued)
    BY <2>2, <2>3, AnswerIs, AnswerGood
  <2>5. sends' \in 0..MaxSent /\ fresh' \in Nat
    BY <1>0, <1>1, <1>8
  <2> QED BY <1>1, <2>1, <2>4, <2>5, OnlyReq
<1>9. ASSUME NEW num \in Numbers(drawn), req' = [req EXCEPT ![r] = e1(num)],
             fresh' = fresh + Cardinality(drawn)
      PROVE  IInv'
  <2> DEFINE n1 == new(num)
             s1 == Issued(e.seen, n1)
             x == e1(num)
  <2>1. IsFiniteSet(drawn) /\ Cardinality(drawn) \in Nat
    <3>1. drawn \subseteq Name
      BY <1>7
    <3> HIDE DEF drawn
    <3> QED BY <3>1, NameAssumption, FS_Subset, FS_CardinalityType
  <2>2. \A n \in kept : Decl[n].random => num[n] \in Nat
    BY <1>0, <2>1 DEF Numbers
  <2>3. /\ n1 \subseteq [name : Name, raw : Text]
        /\ \A k \in n1 : k.name \in kept /\ k.raw # Empty /\ Genuine(k.name, k.raw, now)
        /\ \A j, k \in n1 : j.name = k.name => j = k
    <3> HIDE DEF e
    <3> QED BY <1>0, <1>3, <1>7, <2>2, ApplyIs
  <2> HIDE DEF n1
  <2>4. e.seen \in [Name -> [raw : Text, value : Text]]
    BY <1>0 DEF Evaluation
  <2>5. /\ s1 \in [Name -> [raw : Text, value : Text]]
        /\ \A n \in Name :
             \/ \E k \in n1 : k.name = n /\ s1[n] = [raw |-> k.raw, value |-> valueOf(n, k.raw)]
             \/ s1[n] = e.seen[n] /\ \A k \in n1 : k.name # n
    BY <2>3, <2>4, IssuedIs
  <2>6. dropped \subseteq [name : Name, raw : Text]
    BY <1>7, EmptyText
  <2>7. \A k \in dropped : /\ k.name \in Dropped(rules, fired) /\ k.raw = Empty
                           /\ k = [name |-> k.name, raw |-> Empty]
    OBVIOUS
  <2>8. x = [e EXCEPT !.pc = "write", !.code = "COOKIE_OK", !.fired = fired,
                      !.writes = Rows(rules, fired), !.fault = fault, !.seen = s1,
                      !.cookies = n1 \cup dropped]
    BY <1>0 DEF n1, Evaluation
  <2> HIDE DEF s1, dropped, x
  <2>9. /\ x \in Evaluation /\ x.pc = "write" /\ x.sent = e.sent /\ x.state = e.state
        /\ x.shape = e.shape /\ x.fired = fired /\ x.seen = s1 /\ x.code = "COOKIE_OK"
        /\ x.writes = Rows(rules, fired) /\ x.cookies = n1 \cup dropped /\ x.marks = e.marks
    <3>1. "COOKIE_OK" \in Code
      BY DEF Code
    <3> HIDE DEF e
    <3> QED BY <1>0, <1>5, <1>6, <2>3, <2>5, <2>6, <2>8, <3>1 DEF Evaluation
  <2>10. Rules(x) = rules
    BY <2>9 DEF Rules, rules
  <2> HIDE DEF e
  <2>11. Unforged(x, issued) /\ StateMeans(x) /\ MarksMean(x)
    BY <1>3, <2>9 DEF Unforged, StateMeans, MarksMean
  <2>12. SeenMeans(x)
    <3> SUFFICES ASSUME NEW n \in Name
                 PROVE  x.seen[n] = NoSeen \/ AsRead(x, n) \/ AsIssued(x, n)
      BY DEF SeenMeans
    <3>1. CASE \E k \in n1 : k.name = n /\ s1[n] = [raw |-> k.raw, value |-> valueOf(n, k.raw)]
      BY <2>3, <2>9, <3>1 DEF AsIssued
    <3>2. CASE s1[n] = e.seen[n]
      <4>1. e.seen[n] = NoSeen \/ AsRead(e, n)
        BY <1>3 DEF SeenMeans, AsIssued
      <4> QED BY <2>9, <3>2, <4>1 DEF AsRead
    <3> QED BY <2>5, <3>1, <3>2
  <2>13. CookiesMean(x, now)
    <3>1. \A k \in x.cookies : k.raw = Empty \/ Genuine(k.name, k.raw, now)
      BY <2>3, <2>7, <2>9
    <3>2. \A j, k \in x.cookies : j.name = k.name => j = k
      BY <1>7, <2>3, <2>7, <2>9
    <3>3. \A k \in x.cookies : k.name \in Dropped(rules, fired) => k.raw = Empty
      BY <1>7, <2>3, <2>7, <2>9
    <3> QED BY <2>9, <2>10, <3>1, <3>2, <3>3 DEF CookiesMean
  <2>14. Stage(x, now, issued)
    <3>1. "COOKIE_OK" \in Code
      BY DEF Code
    <3> QED BY <1>3, <1>4, <1>6, <2>9, <2>10, <3>1 DEF Stage
  <2>15. Good(x, now, issued)
    BY <2>11, <2>12, <2>13, <2>14 DEF Good
  <2>16. sends' \in 0..MaxSent /\ fresh' \in Nat
    BY <1>0, <1>1, <1>9, <2>1
  <2>17. req' = [req EXCEPT ![r] = x]
    BY <1>9 DEF x, e
  <2> QED BY <1>1, <2>9, <2>15, <2>16, <2>17, OnlyReq
<1> QED BY <1>2, <1>8, <1>9

-----------------------------------------------------------------------------
(* The lists *)

(* What an evaluation knows of a pure cookie was not made up.              *)
LEMMA SeenIsGenuine ==
  ASSUME Told, NEW e \in Evaluation, Good(e, now, issued), NEW n \in Name, Pure(n)
  PROVE  /\ e.seen[n].raw \in Text /\ e.seen[n].value \in Text
         /\ e.seen[n].raw.tag \notin Made /\ e.seen[n].value.tag \notin Made
<1>0. /\ e.seen[n] \in [raw : Text, value : Text] /\ e.sent[n] \in Text
      /\ Decl[n].signed /\ Decl[n].from \notin Name
  BY DEF Evaluation, Pure
<1>1. ASSUME NEW raw \in Text, raw.tag \notin Made,
             e.seen[n] = [raw |-> raw, value |-> valueOf(n, raw)]
      PROVE  e.seen[n].raw.tag \notin Made /\ e.seen[n].value.tag \notin Made
  BY <1>1, ValueText
<1>2. CASE e.seen[n] = NoSeen
  BY <1>0, <1>2, NameAssumption DEF NoSeen, Empty
<1>3. CASE AsRead(e, n)
  <2>1. e.sent[n].mac = n
    BY <1>0, <1>3 DEF AsRead, Good, StateMeans
  <2>2. <<n, e.sent[n]>> \in issued
    BY <2>1 DEF Good, Unforged
  <2>3. e.sent[n].tag \notin Made
    BY <1>0, <2>2, ToldIs DEF Genuine
  <2> QED BY <1>0, <1>1, <1>3, <2>3 DEF AsRead
<1>4. CASE AsIssued(e, n)
  <2>1. PICK k \in e.cookies : /\ k.name = n /\ k.raw # Empty
                               /\ e.seen[n] = [raw |-> k.raw, value |-> valueOf(n, k.raw)]
    BY <1>4 DEF AsIssued
  <2>2. k.raw \in Text /\ Genuine(n, k.raw, now)
    BY <2>1 DEF Evaluation, Good, CookiesMean
  <2> QED BY <1>0, <1>1, <2>1, <2>2 DEF Genuine
<1> QED BY <1>0, <1>2, <1>3, <1>4 DEF Good, SeenMeans

LEMMA WriteKeeps ==
  ASSUME IInv, NEW r \in Req, NEW p \in req[r].writes,
         NEW o \in {"written", "refused", "unknown", "silent"}, Write(r, p, o)
  PROVE  IInv'
<1> DEFINE e == req[r]
           rules == Rules(e)
           w == rules[p.rule].writes[p.row]
           values == IF o = "written" THEN Subjects(e, w) ELSE {}
           e1 == [e EXCEPT !.writes = @ \ {p}, !.silent = @ \/ o = "silent"]
<1>0. e \in Evaluation /\ Good(e, now, issued) /\ e.pc = "write" /\ list \in [List -> SUBSET Text]
  BY DEF IInv, TypeOK, Write
<1>1. UNCHANGED <<now, secret, sends, fresh, jar, issued>>
  BY DEF Write
<1>2. /\ list' = [list EXCEPT ![w.list] = IF w.op = "remove" THEN @ \ values ELSE @ \cup values]
      /\ req' = [req EXCEPT ![r] = e1]
  BY DEF Write
<1>3. /\ p.rule \in DOMAIN rules /\ p.row \in DOMAIN rules[p.rule].writes
      /\ e.shape.route \in DOMAIN Profiles
  <2>1. /\ p \in Rows(rules, DOMAIN rules) /\ e.shape.route \in DOMAIN Profiles
    BY <1>0 DEF Good, Stage
  <2>2. PICK k \in DOMAIN rules : \E j \in DOMAIN rules[k].writes : p = [rule |-> k, row |-> j]
    BY <2>1 DEF Rows
  <2>3. PICK j \in DOMAIN rules[k].writes : p = [rule |-> k, row |-> j]
    BY <2>2
  <2> QED BY <2>1, <2>3
<1>4. parseWrite(w)
  BY <1>0, <1>3, RuleIs
<1>5. ASSUME NEW l \in PureLists, w.list = l, w.subject \in {"value", "cookie"}
      PROVE  Pure(w.cookie)
  <2>1. \A j \in DOMAIN Profiles[e.shape.route].rules[p.rule].writes :
          LET v == Profiles[e.shape.route].rules[p.rule].writes[j]
          IN  (v.list = l /\ v.subject \in {"value", "cookie"}) => Pure(v.cookie)
    BY <1>3 DEF PureLists, Rules
  <2> QED BY <1>3, <1>5, <2>1 DEF Rules
<1> HIDE DEF w, rules
<1>6. values \subseteq Text
  <2>1. w.subject \in {"value", "cookie"} =>
          e.seen[w.cookie].value \in Text /\ e.seen[w.cookie].raw \in Text
    BY <1>0, <1>4 DEF parseWrite, Evaluation
  <2>2. w.subject \in {"addr", "net"} => Tag(w.subject) \in Text
    <3>1. "addr" \in Word /\ "net" \in Word
      BY DEF Word
    <3> QED BY <3>1, TagText
  <2> QED BY <1>4, <2>1, <2>2 DEF Subjects, parseWrite
<1>7. ASSUME NEW l \in PureLists, w.list = l, NEW v \in values
      PROVE  v.tag \notin Made
  <2>1. CASE w.subject \in {"value", "cookie"}
    <3>1. w.cookie \in Name /\ Pure(w.cookie)
      BY <1>4, <1>5, <1>7, <2>1 DEF parseWrite
    <3>2. e.seen[w.cookie].raw.tag \notin Made /\ e.seen[w.cookie].value.tag \notin Made
      BY <1>0, <3>1, SeenIsGenuine DEF IInv
    <3>3. v = e.seen[w.cookie].raw \/ v = e.seen[w.cookie].value
      BY <1>7, <2>1 DEF Subjects
    <3> QED BY <3>2, <3>3
  <2>2. CASE w.subject \in {"addr", "net"}
    <3>1. v = Tag(w.subject)
      BY <1>7, <2>2 DEF Subjects
    <3> QED BY <2>2, <3>1, NameAssumption DEF Tag
  <2> QED BY <1>4, <2>1, <2>2 DEF parseWrite
<1> HIDE DEF values
<1>8. list' \in [List -> SUBSET Text]
  BY <1>0, <1>2, <1>6
<1>9. ForgedNeverListed'
  <2> SUFFICES ASSUME NEW l \in PureLists, NEW v \in list'[l] PROVE v.tag \notin Made
    BY DEF ForgedNeverListed, PureLists
  <2>1. l \in List
    BY DEF PureLists
  <2>2. v \in list[l] \/ (w.list = l /\ v \in values)
    BY <1>0, <1>2, <2>1
  <2> QED BY <1>7, <2>2 DEF IInv, ForgedNeverListed
<1>10. /\ e1 \in Evaluation /\ e1.pc = "write" /\ e1.sent = e.sent /\ e1.state = e.state
       /\ e1.shape = e.shape /\ e1.fired = e.fired /\ e1.seen = e.seen /\ e1.code = e.code
       /\ e1.writes = e.writes \ {p} /\ e1.cookies = e.cookies /\ e1.marks = e.marks
  BY <1>0 DEF Evaluation
<1> HIDE DEF e1
<1>11. Good(e1, now, issued)
  <2>1. Rules(e1) = Rules(e)
    BY <1>10 DEF Rules
  <2>2. Unforged(e1, issued) /\ StateMeans(e1) /\ SeenMeans(e1) /\ MarksMean(e1)
    BY <1>0, <1>10 DEF Good, Unforged, StateMeans, SeenMeans, AsRead, AsIssued, MarksMean, MarkMeans, Filled, Fills
  <2>3. CookiesMean(e1, now) /\ Stage(e1, now, issued)
    BY <1>0, <1>10, <2>1 DEF Good, CookiesMean, Stage
  <2> QED BY <2>2, <2>3 DEF Good
<1>12. req' \in [Req -> Evaluation] /\ \A s \in Req : Good(req'[s], now', issued')
  <2>1. Good(e1, now', issued') /\ issued \subseteq issued' /\ now' = now
    BY <1>1, <1>11
  <2> QED BY <1>2, <1>10, <2>1, OneMoves DEF IInv
<1>13. /\ now' \in 1..MaxTime /\ secret' \in BOOLEAN /\ sends' \in 0..MaxSent /\ fresh' \in Nat
       /\ jar' \in [Name -> Text]
  BY <1>1 DEF IInv, TypeOK
<1>14. Told' /\ Carries'
  BY <1>1 DEF IInv, Told, Carries
<1> QED BY <1>8, <1>9, <1>12, <1>13, <1>14, IInvNext

-----------------------------------------------------------------------------
(* The answer *)

(* Cutting keeps the slots, but for the last one, which may lose its end.  *)
LEMMA CutIs ==
  ASSUME NEW m \in Seq(Text), NEW c \in Cut(m)
  PROVE  /\ c \in Seq(Text) /\ Len(c) <= Len(m)
         /\ \A x \in DOMAIN c : c[x] = m[x] \/ (x = Len(c) /\ c[x] = Piece(m[x]))
<1>1. \/ c = m
      \/ \E n \in 1..Len(m) : \/ c = SubSeq(m, 1, n - 1)
                              \/ c = Append(SubSeq(m, 1, n - 1), Piece(m[n]))
  BY DEF Cut
<1>2. CASE c = m
  BY <1>2
<1>3. ASSUME NEW n \in 1..Len(m), \/ c = SubSeq(m, 1, n - 1)
                                 \/ c = Append(SubSeq(m, 1, n - 1), Piece(m[n]))
      PROVE  /\ c \in Seq(Text) /\ Len(c) <= Len(m)
             /\ \A x \in DOMAIN c : c[x] = m[x] \/ (x = Len(c) /\ c[x] = Piece(m[x]))
  <2> DEFINE h == SubSeq(m, 1, n - 1)
  <2>1. h \in Seq(Text) /\ Len(h) = n - 1 /\ \A x \in 1..(n - 1) : h[x] = m[x]
    OBVIOUS
  <2> HIDE DEF h
  <2>2. m[n] \in Text
    OBVIOUS
  <2>3. Piece(m[n]) \in Text
    <3>1. "cut" \in Word
      BY DEF Word
    <3> QED BY <2>2, <3>1 DEF Piece, Text
  <2>4. CASE c = h
    BY <2>1, <2>4
  <2>5. CASE c = Append(h, Piece(m[n]))
    BY <2>1, <2>3, <2>5
  <2> QED BY <1>3, <2>4, <2>5 DEF h
<1> QED BY <1>1, <1>2, <1>3

LEMMA MarkerIs ==
  ASSUME NEW e \in Evaluation, Good(e, now, issued), e.pc = "write",
         NEW k \in e.fired, NEW m, m = Marker(e, Rules(e)[k]),
         \A x \in DOMAIN Rules(e)[k].mark : m[x] # Empty
  PROVE  m \in Seq(Text) /\ \A x \in DOMAIN m : Filled(e, m[x])
<1> DEFINE rules == Rules(e)
<1>0. e.shape.route \in DOMAIN Profiles /\ e.fired \subseteq DOMAIN rules /\ SeenMeans(e)
  BY DEF Good, Stage
<1>1. /\ m = Marker(e, rules[k])
      /\ \A x \in DOMAIN rules[k].mark : Marker(e, rules[k])[x] # Empty
  OBVIOUS
<1> DEFINE rule == rules[k]
<1>2. /\ IsList(rule.mark)
      /\ rule.cookie \in Name \cup {None}
      /\ \A x \in DOMAIN rule.mark :
           /\ rule.mark[x] \in {"name", "value"} => rule.cookie \in Name
           /\ rule.mark[x] \notin {"name", "value"} => rule.mark[x] \in Name
  BY <1>0, RuleIs
<1> HIDE DEF rule, rules
<1>3. m = [x \in DOMAIN rule.mark |-> Slot(rule, e.seen, rule.mark[x])]
  BY <1>1 DEF Marker, rule
<1>4. DOMAIN rule.mark = 1..Len(rule.mark) /\ Len(rule.mark) \in Nat
  BY <1>2 DEF IsList
<1>5. ASSUME NEW n \in Name
      PROVE  e.seen[n].value \in Text /\ (e.seen[n].value # Empty => Filled(e, e.seen[n].value))
  <2>1. e.seen[n].value \in Text
    BY DEF Evaluation
  <2>2. CASE e.seen[n] = NoSeen
    BY <2>1, <2>2 DEF NoSeen
  <2>3. CASE AsRead(e, n)
    BY <2>1, <2>3 DEF AsRead, Filled, Fills
  <2>4. CASE AsIssued(e, n)
    BY <2>1, <2>4 DEF AsIssued, Filled, Fills
  <2> QED BY <1>0, <2>2, <2>3, <2>4 DEF SeenMeans
<1>6. ASSUME NEW x \in DOMAIN rule.mark
      PROVE  m[x] \in Text /\ Filled(e, m[x])
  <2>1. m[x] = Slot(rule, e.seen, rule.mark[x]) /\ m[x] # Empty
    BY <1>1, <1>3 DEF rule
  <2>2. CASE rule.mark[x] = "name"
    <3>1. rule.cookie \in Name /\ rule.cookie \in Word /\ m[x] = Tag(rule.cookie)
      BY <1>2, <2>1, <2>2 DEF Slot, Word
    <3> QED BY <2>1, <3>1, TagText DEF Filled, Fills
  <2>3. CASE rule.mark[x] = "value"
    <3>1. rule.cookie \in Name /\ m[x] = e.seen[rule.cookie].value
      BY <1>2, <2>1, <2>3 DEF Slot
    <3> QED BY <1>5, <2>1, <3>1
  <2>4. CASE rule.mark[x] \notin {"name", "value"}
    <3>1. rule.mark[x] \in Name /\ m[x] = e.seen[rule.mark[x]].value
      BY <1>2, <2>1, <2>4 DEF Slot
    <3> QED BY <1>5, <2>1, <3>1
  <2> QED BY <2>2, <2>3, <2>4
<1>7. m \in [1..Len(rule.mark) -> Text]
  BY <1>3, <1>4, <1>6
<1>8. m \in Seq(Text)
  BY <1>4, <1>7
<1>9. DOMAIN m = DOMAIN rule.mark
  BY <1>3
<1> QED BY <1>6, <1>8, <1>9

LEMMA MarkersIs ==
  ASSUME NEW e \in Evaluation, Good(e, now, issued), e.pc = "write",
         NEW c \in FillMarkers(e, Rules(e))
  PROVE  c \in Seq(Text) /\ MarkMeans(e, c)
<1> DEFINE rules == Rules(e)
<1>1. PICK k \in e.fired : /\ c \in Cut(Marker(e, rules[k]))
                           /\ \A x \in DOMAIN rules[k].mark : Marker(e, rules[k])[x] # Empty
  BY DEF FillMarkers
<1> DEFINE m == Marker(e, rules[k])
<1>2. m \in Seq(Text) /\ \A x \in DOMAIN m : Filled(e, m[x])
  BY <1>1, MarkerIs
<1> HIDE DEF m
<1>3. /\ c \in Seq(Text) /\ Len(c) <= Len(m)
      /\ \A x \in DOMAIN c : c[x] = m[x] \/ (x = Len(c) /\ c[x] = Piece(m[x]))
  BY <1>1, <1>2, CutIs DEF m
<1>4. ASSUME NEW x \in DOMAIN c
      PROVE  Filled(e, m[x]) /\ m[x] \in Fills(e)
  BY <1>2, <1>3 DEF Filled
<1> QED BY <1>3, <1>4 DEF MarkMeans

LEMMA TellKeeps ==
  ASSUME IInv, NEW r \in Req, Tell(r)
  PROVE  IInv'
<1> DEFINE e == req[r]
           failed == e.silent /\ e.code = "COOKIE_OK"
           marks == FillMarkers(e, Rules(e))
           a == IF failed THEN Answer(e, "COOKIE_GEO_UNAVAILABLE")
                ELSE [Answer(e, e.code) EXCEPT !.cookies = e.cookies, !.marks = marks]
           told == {<<k.name, k.raw>> : k \in {x \in a.cookies : x.raw # Empty}}
<1>0. e \in Evaluation /\ Good(e, now, issued) /\ e.pc = "write" /\ req \in [Req -> Evaluation]
  BY DEF IInv, TypeOK, Tell
<1>1. UNCHANGED <<now, secret, sends, fresh, jar, list>>
  BY DEF Tell
<1>2. req' = [req EXCEPT ![r] = a]
  BY DEF Tell
<1>3. issued' = issued \cup {<<k.name, k.raw>> : k \in {x \in req'[r].cookies : x.raw # Empty}}
  BY DEF Tell
<1>4. req'[r] = a /\ issued' = issued \cup told
  BY <1>0, <1>2, <1>3
<1>5. \A m \in marks : m \in Seq(Text) /\ MarkMeans(e, m)
  BY <1>0, MarkersIs
<1>6. e.code \in Code
  BY <1>0 DEF Good, Stage
<1> HIDE DEF marks
<1>7. /\ a \in Evaluation /\ a.pc = "told" /\ a.code \in Code /\ a.shape = e.shape /\ a.sent = e.sent
      /\ a.state = e.state /\ a.fired = e.fired /\ a.seen = [n \in Name |-> NoSeen]
      /\ \/ a.cookies = {} /\ a.marks = {}
         \/ a.cookies = e.cookies /\ a.marks = marks /\ a.code = e.code
  <2>1. CASE failed
    <3>1. "COOKIE_GEO_UNAVAILABLE" \in Code
      BY DEF Code
    <3> HIDE DEF e
    <3> QED BY <1>0, <2>1, <3>1, AnswerIs
  <2>2. CASE ~failed
    <3> DEFINE b == Answer(e, e.code)
    <3>1. /\ b \in Evaluation /\ b.pc = "told" /\ b.code = e.code /\ b.shape = e.shape
          /\ b.sent = e.sent /\ b.state = e.state /\ b.fired = e.fired
          /\ b.seen = [n \in Name |-> NoSeen]
      BY <1>0, <1>6, AnswerIs
    <3>2. a = [b EXCEPT !.cookies = e.cookies, !.marks = marks]
      BY <2>2
    <3>3. e.cookies \subseteq [name : Name, raw : Text] /\ marks \subseteq Seq(Text)
      BY <1>0, <1>5 DEF Evaluation
    <3> HIDE DEF a, b, e
    <3> QED BY <1>6, <3>1, <3>2, <3>3 DEF Evaluation
  <2> QED BY <2>1, <2>2
<1> HIDE DEF a, e, failed
<1>8. Unforged(a, issued') /\ StateMeans(a) /\ SeenMeans(a)
  BY <1>0, <1>4, <1>7 DEF Good, Unforged, StateMeans, SeenMeans
<1>9. CookiesMean(a, now)
  <2>1. Rules(a) = Rules(e)
    BY <1>7 DEF Rules
  <2> QED BY <1>0, <1>7, <2>1 DEF Good, CookiesMean
<1>10. MarksMean(a)
  <2>1. CASE a.marks = {}
    BY <2>1 DEF MarksMean
  <2>2. CASE a.cookies = e.cookies /\ a.marks = marks
    BY <1>5, <1>7, <2>2 DEF MarksMean, MarkMeans, Filled, Fills
  <2> QED BY <1>7, <2>1, <2>2
<1>11. Stage(a, now, issued')
  <2>1. \A k \in a.cookies : k.raw = Empty \/ <<k.name, k.raw>> \in issued'
    BY <1>4
  <2>2. a.cookies # {} => a.code = "COOKIE_OK"
    BY <1>0, <1>7 DEF Good, Stage
  <2> QED BY <1>7, <2>1, <2>2 DEF Stage
<1>12. Good(a, now, issued')
  BY <1>8, <1>9, <1>10, <1>11 DEF Good
<1>13. req' \in [Req -> Evaluation] /\ \A s \in Req : Good(req'[s], now', issued')
  <2>1. Good(a, now', issued') /\ issued \subseteq issued' /\ now' = now
    BY <1>1, <1>4, <1>12
  <2> QED BY <1>2, <1>7, <2>1, OneMoves DEF IInv
<1>14. Told'
  <2>1. issued \subseteq Name \X Text /\ \A x \in issued : Genuine(x[1], x[2], now)
    BY DEF IInv, Told
  <2>2. ASSUME NEW x \in told
        PROVE  x \in Name \X Text /\ Genuine(x[1], x[2], now)
    <3>1. PICK k \in a.cookies : k.raw # Empty /\ x = <<k.name, k.raw>>
      OBVIOUS
    <3>2. k.name \in Name /\ k.raw \in Text
      BY <1>7 DEF Evaluation
    <3>3. Genuine(k.name, k.raw, now)
      BY <1>9, <3>1 DEF CookiesMean
    <3> QED BY <3>1, <3>2, <3>3
  <2> HIDE DEF told
  <2> QED BY <1>1, <1>4, <2>1, <2>2 DEF Told
<1>15. Carries' /\ ForgedNeverListed'
  BY <1>1, <1>4 DEF IInv, Carries, ForgedNeverListed
<1>16. /\ now' \in 1..MaxTime /\ secret' \in BOOLEAN /\ sends' \in 0..MaxSent /\ fresh' \in Nat
       /\ jar' \in [Name -> Text] /\ list' \in [List -> SUBSET Text]
  BY <1>1 DEF IInv, TypeOK
<1> QED BY <1>13, <1>14, <1>15, <1>16, IInvNext

LEMMA ArriveKeeps ==
  ASSUME IInv, NEW r \in Req, Arrive(r)
  PROVE  IInv'
<1> DEFINE e == req[r]
           got(n) == CHOOSE k \in e.cookies : k.name = n
<1>0. e \in Evaluation /\ Good(e, now, issued) /\ e.pc = "told" /\ jar \in [Name -> Text]
  BY DEF IInv, TypeOK, Arrive
<1>1. UNCHANGED <<now, secret, sends, fresh, issued, list>>
  BY DEF Arrive
<1>2. /\ jar' = [n \in Name |-> IF \E k \in e.cookies : k.name = n THEN got(n).raw ELSE jar[n]]
      /\ req' = [req EXCEPT ![r] = Idle]
  BY DEF Arrive
<1>3. \A k \in e.cookies : k.raw \in Text /\ (k.raw = Empty \/ <<k.name, k.raw>> \in issued)
  BY <1>0 DEF Good, Stage, Evaluation
<1>4. \A n \in Name : (\E k \in e.cookies : k.name = n) => got(n) \in e.cookies /\ got(n).name = n
  OBVIOUS
<1> HIDE DEF got, e
<1>5. jar' \in [Name -> Text] /\ Carries'
  <2>1. \A n \in Name : jar'[n] \in Text /\ (jar'[n] = Empty \/ <<n, jar'[n]>> \in issued)
    BY <1>0, <1>2, <1>3, <1>4 DEF IInv, Carries
  <2> QED BY <1>1, <1>2, <2>1 DEF Carries
<1>6. req' \in [Req -> Evaluation] /\ \A s \in Req : Good(req'[s], now', issued')
  <2>1. Idle \in Evaluation /\ Good(Idle, now', issued') /\ issued \subseteq issued' /\ now' = now
    BY <1>1, IdleTypes, IdleGood
  <2> QED BY <1>2, <2>1, OneMoves DEF IInv
<1>7. Told' /\ ForgedNeverListed'
  BY <1>1 DEF IInv, Told, ForgedNeverListed
<1>8. /\ now' \in 1..MaxTime /\ secret' \in BOOLEAN /\ sends' \in 0..MaxSent /\ fresh' \in Nat
      /\ list' \in [List -> SUBSET Text]
  BY <1>1 DEF IInv, TypeOK
<1> QED BY <1>5, <1>6, <1>7, <1>8, IInvNext

-----------------------------------------------------------------------------
(* The theorems *)

LEMMA InitIInv == Init => IInv
<1> SUFFICES ASSUME Init PROVE IInv
  OBVIOUS
<1>1. /\ now = 1 /\ secret \in BOOLEAN /\ sends = 0 /\ fresh = 0 /\ issued = {}
      /\ jar = [n \in Name |-> Empty] /\ list = [l \in List |-> {}]
      /\ req = [r \in Req |-> Idle]
  BY DEF Init
<1>2. req \in [Req -> Evaluation] /\ \A r \in Req : req[r] = Idle
  BY <1>1, IdleTypes
<1>3. \A r \in Req : Good(req[r], now, issued)
  BY <1>2, IdleGood
<1>4. jar \in [Name -> Text] /\ list \in [List -> SUBSET Text]
  BY <1>1, EmptyText
<1>5. \A r \in Req : /\ req[r].pc = "told" => req[r].code \in Code
                     /\ req[r].cookies # {} => req[r].code = "COOKIE_OK"
  BY <1>3 DEF Good, Stage
<1>6. now \in 1..MaxTime /\ sends \in 0..MaxSent /\ fresh \in Nat
  BY <1>1, BoundAssumption
<1>7. TypeOK
  BY <1>1, <1>2, <1>4, <1>5, <1>6 DEF TypeOK
<1>8. Told /\ Carries
  BY <1>1 DEF Told, Carries
<1>9. ForgedNeverListed
  BY <1>1 DEF ForgedNeverListed, PureLists
<1> QED BY <1>3, <1>7, <1>8, <1>9 DEF IInv

LEMMA NextIInv == IInv /\ [Next]_vars => IInv'
<1> SUFFICES ASSUME IInv, [Next]_vars PROVE IInv'
  OBVIOUS
<1>1. CASE Tick
  BY <1>1, TickKeeps
<1>2. ASSUME NEW l \in Datasets, Refresh(l) PROVE IInv'
  BY <1>2, RefreshKeeps DEF Refresh
<1>3. ASSUME NEW r \in Req, NEW shape \in Shapes, NEW sent \in Carried, Send(r, shape, sent)
      PROVE  IInv'
  BY <1>3, SendKeeps
<1>4. ASSUME NEW r \in Req, Receive(r) PROVE IInv'
  BY <1>4, ReceiveKeeps
<1>5. ASSUME NEW r \in Req, Refuse(r) PROVE IInv'
  BY <1>5, RefuseKeeps
<1>6. ASSUME NEW r \in Req, NEW ok \in BOOLEAN, States(r, ok) PROVE IInv'
  BY <1>6, StatesKeeps
<1>7. ASSUME NEW r \in Req, Walk(r) PROVE IInv'
  BY <1>7, WalkKeeps
<1>8. ASSUME NEW r \in Req, NEW ok \in BOOLEAN, Apply(r, ok) PROVE IInv'
  BY <1>8, ApplyKeeps
<1>9. ASSUME NEW r \in Req, Shed(r) PROVE IInv'
  BY <1>9, ShedKeeps
<1>10. ASSUME NEW r \in Req, NEW p \in req[r].writes,
              NEW o \in {"written", "refused", "unknown", "silent"}, Write(r, p, o)
       PROVE  IInv'
  BY <1>10, WriteKeeps
<1>11. ASSUME NEW r \in Req, Tell(r) PROVE IInv'
  BY <1>11, TellKeeps
<1>12. ASSUME NEW r \in Req, Arrive(r) PROVE IInv'
  BY <1>12, ArriveKeeps
<1>13. ASSUME NEW r \in Req, Lose(r) PROVE IInv'
  BY <1>13, LoseKeeps
<1>14. CASE UNCHANGED vars
  BY <1>14, RefreshKeeps DEF vars
<1> QED BY <1>1, <1>2, <1>3, <1>4, <1>5, <1>6, <1>7, <1>8, <1>9, <1>10, <1>11, <1>12, <1>13,
           <1>14 DEF Next

(* The inductive invariant holds in every behaviour, however evaluations,  *)
(* lists, answers that come late or never, and clocks interleave.          *)
THEOREM Invariance == Spec => []IInv
BY InitIInv, NextIInv, PTL DEF Spec

(* The variables keep their types, an answer has a reason code, and only   *)
(* an allowed one has cookies.                                             *)
THEOREM TypeCorrect == Spec => []TypeOK
<1>1. IInv => TypeOK
  BY DEF IInv
<1> QED BY <1>1, Invariance, PTL

(* Cookie.Read never takes for invalid a string the fleet issued for that  *)
(* cookie, at whatever copies it was issued and is read.                   *)
THEOREM IssuedReadsBackAlways == Spec => []IssuedReadsBack
<1>1. IInv => IssuedReadsBack
  <2> SUFFICES ASSUME IInv, NEW r \in Req, NEW n \in Name, <<n, req[r].sent[n]>> \in issued
               PROVE  req[r].state[n] # "invalid"
    BY DEF IssuedReadsBack
  <2>1. Genuine(n, req[r].sent[n], now)
    BY ToldIs DEF IInv
  <2>2. req[r].sent[n].mac # "long" /\ (Decl[n].signed => req[r].sent[n].mac = n)
    BY <2>1, NameAssumption DEF Genuine, None
  <2> QED BY <2>2 DEF IInv, Good, StateMeans
<1> QED BY <1>1, Invariance, PTL

(* A signed cookie counts as present or expired only when the fleet issued *)
(* that string for that name.                                              *)
THEOREM ForgedIsRefusedAlways == Spec => []ForgedIsRefused
<1>1. IInv => ForgedIsRefused
  <2> SUFFICES ASSUME IInv, NEW r \in Req, NEW n \in Name, Decl[n].signed,
                      req[r].state[n] \in {"present", "expired"}
               PROVE  <<n, req[r].sent[n]>> \in issued
    BY DEF ForgedIsRefused
  <2>1. req[r].sent[n].mac = n
    BY DEF IInv, Good, StateMeans
  <2> QED BY <2>1 DEF IInv, Good, Unforged
<1> QED BY <1>1, Invariance, PTL

(* An answer names a cookie at most once, and a cookie that a fired rule   *)
(* drops is dropped.                                                       *)
THEOREM DropWinsAlways == Spec => []DropWins
<1>1. ASSUME IInv, NEW r \in Req, NEW n \in Name
      PROVE  LET said == {k \in req[r].cookies : k.name = n} IN
             /\ Cardinality(said) <= 1
             /\ n \in Dropped(Rules(req[r]), req[r].fired) => \A k \in said : k.raw = Empty
  <2> DEFINE said == {k \in req[r].cookies : k.name = n}
  <2>1. CookiesMean(req[r], now)
    BY <1>1 DEF IInv, Good
  <2>2. Cardinality(said) <= 1
    <3>1. CASE said = {}
      BY <3>1, FS_EmptySet
    <3>2. CASE said # {}
      <4>1. PICK k \in said : TRUE
        BY <3>2
      <4>2. said = {k}
        BY <2>1, <4>1 DEF CookiesMean
      <4>3. Cardinality({k}) = 1
        BY FS_Singleton
      <4> QED BY <4>2, <4>3
    <3> QED BY <3>1, <3>2
  <2> QED BY <2>1, <2>2 DEF CookiesMean
<1>2. IInv => DropWins
  BY <1>1 DEF DropWins
<1> QED BY <1>2, Invariance, PTL

(* Every slot of a marker that goes out is the name of a cookie, the value *)
(* of one the client handed over intact, or of one this answer issues; the *)
(* last one may be cut off where MarkerMax falls.                          *)
THEOREM MarkersFilledAlways == Spec => []MarkersFilled
<1>1. ASSUME IInv, NEW r \in Req, NEW m \in req[r].marks, NEW x \in DOMAIN m
      PROVE  LET whole == Fills(req[r]) \ {Empty}
             IN  m[x] \in whole \/ (x = Len(m) /\ m[x] \in {Piece(v) : v \in whole})
  <2>1. MarkMeans(req[r], m)
    BY <1>1 DEF IInv, Good, MarksMean
  <2>2. CASE Filled(req[r], m[x])
    BY <2>2 DEF Filled
  <2>3. CASE x = Len(m) /\ \E v \in Fills(req[r]) : Filled(req[r], v) /\ m[x] = Piece(v)
    BY <2>3 DEF Filled
  <2> QED BY <1>1, <2>1, <2>2, <2>3 DEF MarkMeans
<1>2. IInv => MarkersFilled
  BY <1>1 DEF MarkersFilled
<1> QED BY <1>2, Invariance, PTL

(* No cookie a client made up is in a list written from pure cookies only: *)
(* signed ones that take their value from no other cookie.                 *)
THEOREM ForgedNeverListedAlways == Spec => []ForgedNeverListed
<1>1. IInv => ForgedNeverListed
  BY DEF IInv
<1> QED BY <1>1, Invariance, PTL

=============================================================================
