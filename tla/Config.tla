------------------------------- MODULE Config -------------------------------
(***************************************************************************)
(* internal/config: what the process starts with.  inspector.conf is read  *)
(* line by line (parseQueueFile), the environment is laid over it and the  *)
(* defaults under it (Load), and the result is checked (validate).         *)
(*                                                                         *)
(* A line is taken after confText has cut comments and blanks, a directive *)
(* after requireSemicolon and splitDirective.  A value that does not parse *)
(* is Junk.                                                                *)
(***************************************************************************)
EXTENDS Integers, Sequences

CONSTANTS
    Line,        \* the lines a file is made of
    MaxLines,    \* bound: lines of a file
    Env,         \* the environments, as functions of the variables
    Unset,       \* a variable that is not there, or empty
    Junk         \* a value that does not parse

QueueKeys == {"queue_max", "queue_full", "queue_expand"}
RedisKeys == {"url", "internal"}
Var == {"NATS_URL", "SUBJECT", "NAME", "QUEUE", "DEPTH", "FULL", "EXPAND", "WORKERS", "RESERVE",
        "HEARTBEAT", "VERSIONS", "REDIS_URL", "REDIS_INTERNAL_URL", "SECRET_FILE", "SECRET"}

ASSUME LineAssumption ==
    \A l \in Line : /\ l.t \in {"blank", "open", "openOther", "close", "broken", "set"}
                    /\ l.key \in QueueKeys \cup RedisKeys \cup {"other"}
                    /\ IF l.t = "set" THEN l.val # Unset ELSE l.key = "other"
                    /\ l.key = "queue_max" => l.val \in Int \cup {Junk}
ASSUME EnvAssumption ==
    \A e \in Env : /\ DOMAIN e = Var
                   /\ \A v \in {"DEPTH", "WORKERS", "RESERVE", "HEARTBEAT"} : e[v] \in Int \cup {Unset, Junk}
ASSUME LinesAssumption == MaxLines \in Nat

VARIABLES
    step,        \* where Load is
    src,         \* history: the lines read so far
    seen, block, \* of parseQueueFile
    file,        \* queueFile
    env,         \* the environment of the process
    cfg          \* Config

vars == <<step, src, seen, block, file, env, cfg>>

Empty == [k \in QueueKeys \cup RedisKeys |-> Unset]
NoEnv == [v \in Var |-> Unset]

-----------------------------------------------------------------------------
(* parseQueueFile *)

Valid(key, v) ==
    CASE key = "queue_max" -> v # Junk /\ v >= 1
      [] key = "queue_full" -> v \in {"drop", "wait"}
      [] key = "queue_expand" -> v \in {"off", "ask"}
      [] key \in RedisKeys -> v # Junk                  \* isRedisURL
      [] OTHER -> FALSE

(* confPath names a file that can be read, none, or one that cannot. *)
FindConf ==
    /\ step = "conf"
    /\ step' \in {"lines", "load", "failed"}
    /\ UNCHANGED <<src, seen, block, file, env, cfg>>

Refuse == step' = "refused" /\ UNCHANGED <<seen, block, file>>

OpenBlock(l) ==
    IF l.t = "open" /\ "redis" \notin seen
      THEN block' = TRUE /\ seen' = seen \cup {"redis"} /\ UNCHANGED <<step, file>>
      ELSE Refuse

CloseBlock == IF block THEN block' = FALSE /\ UNCHANGED <<step, seen, file>> ELSE Refuse

(* A key is known inside its block or outside of it, not in both. *)
SetKey_skipsUnknown(l) ==
    IF /\ l.key \in {"other"} \cup (IF block THEN RedisKeys ELSE QueueKeys)
       /\ l.key \notin seen
       /\ l.key = "other" \/ Valid(l.key, l.val)
      THEN file' = [file EXCEPT ![l.key] = l.val] /\ seen' = seen \cup {l.key} /\ UNCHANGED <<step, block>>
      ELSE Refuse
SetKey_lastWins(l) ==
    IF /\ l.key \in (IF block THEN RedisKeys ELSE QueueKeys)
       /\ Valid(l.key, l.val)
      THEN file' = [file EXCEPT ![l.key] = l.val] /\ seen' = seen \cup {l.key} /\ UNCHANGED <<step, block>>
      ELSE Refuse
SetKey(l) ==
    IF /\ l.key \in (IF block THEN RedisKeys ELSE QueueKeys)
       /\ l.key \notin seen
       /\ Valid(l.key, l.val)
      THEN file' = [file EXCEPT ![l.key] = l.val] /\ seen' = seen \cup {l.key} /\ UNCHANGED <<step, block>>
      ELSE Refuse

(* requireSemicolon, splitDirective and isConfName find a name and one     *)
(* value.                                                                  *)
splitDirective(l) == l.t # "broken"

(* Within the block the only brace is the closing one: anything else is    *)
(* read as a directive, which a brace never is.                            *)
ReadLine(l) ==
    /\ step = "lines" /\ Len(src) < MaxLines
    /\ src' = Append(src, l)
    /\ CASE l.t = "blank" -> UNCHANGED <<step, seen, block, file>>
         [] l.t = "close" -> CloseBlock
         [] ~splitDirective(l) -> Refuse
         [] l.t = "set" -> SetKey(l)
         [] l.t \in {"open", "openOther"} -> IF block THEN Refuse ELSE OpenBlock(l)
    /\ UNCHANGED <<env, cfg>>

EndOfFile ==
    /\ step = "lines"
    /\ step' = IF block THEN "refused" ELSE "load"
    /\ UNCHANGED <<src, seen, block, file, env, cfg>>

-----------------------------------------------------------------------------
(* Load *)

(* env, envIntIfSet, envDuration, envIntList, envOverride: the variable,   *)
(* or what is there without it                                             *)
Over(v, def) == IF v = Unset THEN def ELSE v

(* The file of the key is read when it is named, whatever it holds. *)
loadSecret_fallsBack(e) == IF e["SECRET_FILE"] \in {Unset, "empty"} THEN e["SECRET"] ELSE e["SECRET_FILE"]
loadSecret(e) == IF e["SECRET_FILE"] # Unset THEN e["SECRET_FILE"] ELSE e["SECRET"]

applyQueueFile == [Max |-> Over(file["queue_max"], 256),
                   Full |-> Over(file["queue_full"], "drop"),
                   Expand |-> Over(file["queue_expand"], "off")]

internalRedis(e, exchange) ==
    Over(e["REDIS_INTERNAL_URL"], Over(file["internal"], exchange))

Effective(e) ==
    LET q == applyQueueFile
        exchange == Over(e["REDIS_URL"], file["url"]) IN
    [Servers |-> Over(e["NATS_URL"], {"local"}),    \* splitList may leave none
     Subject |-> Over(e["SUBJECT"], "subject"),
     Name |-> Over(e["NAME"], "cookie"),
     Queue |-> Over(e["QUEUE"], Over(e["NAME"], "cookie")),
     QueueDepth |-> Over(e["DEPTH"], q.Max),
     QueueFull |-> Over(e["FULL"], q.Full),
     QueueExpand |-> Over(e["EXPAND"], q.Expand),
     Workers |-> Over(e["WORKERS"], 1),          \* at least one CPU
     Reserve |-> Over(e["RESERVE"], 1),          \* and MIN_BUDGET
     Heartbeat |-> Over(e["HEARTBEAT"], 4),      \* and the other durations
     Versions |-> Over(e["VERSIONS"], {2}),
     RedisURL |-> exchange,
     InternalURL |-> internalRedis(e, exchange),
     Secret |-> loadSecret(e)]

(* checkSecret: no key at all, or one of at least sixteen bytes *)
checkSecret(key) == key \in {Unset, "empty", "key1", "key2"}

(* The conversions of Load, and validate. *)
Parses(c) ==
    /\ c.QueueDepth # Junk /\ c.Workers # Junk /\ c.Reserve # Junk
    /\ c.Heartbeat # Junk /\ c.Heartbeat > 0
    /\ c.Versions # Junk
    /\ checkSecret(c.Secret)

validate(c) ==
    /\ c.Servers # {}
    /\ Unset \notin {c.Subject, c.Name, c.Queue}
    /\ c.Workers >= 1 /\ c.QueueDepth >= 1
    /\ c.QueueFull \in {"drop", "wait"} /\ c.QueueExpand \in {"off", "ask"}
    /\ c.Reserve >= 0
    /\ c.Versions # {}

(* The directory of the profiles is there or not. *)
Load ==
    /\ step = "load"
    /\ env' \in Env
    /\ cfg' = Effective(env')
    /\ \E isDir \in BOOLEAN :
         step' = IF Parses(cfg') /\ validate(cfg') /\ isDir THEN "loaded" ELSE "failed"
    /\ UNCHANGED <<src, seen, block, file>>

-----------------------------------------------------------------------------
Started == step \in {"loaded", "refused", "failed"} /\ UNCHANGED vars

Init ==
    /\ step = "conf"
    /\ src = <<>> /\ seen = {} /\ block = FALSE /\ file = Empty
    /\ env = NoEnv /\ cfg = Effective(NoEnv)

Next == FindConf \/ (\E l \in Line : ReadLine(l)) \/ EndOfFile \/ Load \/ Started

Spec == Init /\ [][Next]_vars

-----------------------------------------------------------------------------
(* Properties *)

(* The values the variables range over. *)
TypeOK ==
    /\ step \in {"conf", "lines", "load", "loaded", "refused", "failed"}
    /\ src \in Seq(Line) /\ Len(src) <= MaxLines
    /\ seen \subseteq {"redis"} \cup QueueKeys \cup RedisKeys
    /\ block \in BOOLEAN /\ DOMAIN file = QueueKeys \cup RedisKeys
    /\ DOMAIN env = Var

(***************************************************************************)
(* What a file says, without reading it in order: line i is inside the     *)
(* block when a block was opened before it and not closed in between.      *)
(***************************************************************************)
Within(i) == \E o \in 1..(i-1) :
    src[o].t = "open" /\ \A c \in o..(i-1) : src[c].t # "close"

Fits(i) ==
    LET l == src[i] IN
    CASE l.t = "blank" -> TRUE
      [] l.t = "open" -> ~Within(i) /\ \A j \in 1..Len(src) : src[j].t = "open" => j = i
      [] l.t = "close" -> Within(i)
      [] l.t = "set" -> /\ l.key \in (IF Within(i) THEN RedisKeys ELSE QueueKeys)
                        /\ Valid(l.key, l.val)
                        /\ \A j \in 1..Len(src) : src[j].t = "set" /\ src[j].key = l.key => j = i
      [] OTHER -> FALSE

WellFormed == (\A i \in 1..Len(src) : Fits(i)) /\ ~Within(Len(src) + 1)

(* parseQueueFile accepts a file exactly when every line has its place and *)
(* the block is closed: what goes on to Load is well formed, and what is   *)
(* refused, with the lines up to the one it stops at, is not.  An accepted *)
(* file gives a key the value of the line that sets it and no other.       *)
FileMeansWhatItSays ==
    /\ step \in {"load", "loaded"} =>
         /\ WellFormed
         /\ \A k \in QueueKeys \cup RedisKeys :
              \/ file[k] = Unset /\ \A i \in 1..Len(src) : src[i].key # k
              \/ \E i \in 1..Len(src) : src[i].key = k /\ src[i].val = file[k]
    /\ step = "refused" => ~WellFormed
    /\ step = "lines" => \A i \in 1..Len(src) : Fits(i)

(* What a setting may be: what its variable says, else what a line of the  *)
(* file says, else the default.                                            *)
Said(key) == {src[i].val : i \in {j \in 1..Len(src) : src[j].key = key}}

Wins(v, key, def) ==
    IF env[v] # Unset THEN {env[v]} ELSE IF Said(key) # {} THEN Said(key) ELSE {def}

(* Load with inspector.conf and INSTALL.md: the variables override the     *)
(* lines of the file and these the defaults, the internal Redis falling    *)
(* back to the buffer's last of all; and of the two places of the key "the *)
(* file wins when both are set": the key in the variable is never used     *)
(* beside a file, not even an empty one.                                   *)
Precedence ==
    step = "loaded" =>
      /\ cfg.QueueDepth \in Wins("DEPTH", "queue_max", 256)
      /\ cfg.QueueFull \in Wins("FULL", "queue_full", "drop")
      /\ cfg.QueueExpand \in Wins("EXPAND", "queue_expand", "off")
      /\ cfg.RedisURL \in Wins("REDIS_URL", "url", Unset)
      /\ cfg.InternalURL \in Wins("REDIS_INTERNAL_URL", "internal", cfg.RedisURL)
      /\ cfg.Secret = env[IF env["SECRET_FILE"] # Unset THEN "SECRET_FILE" ELSE "SECRET"]
=============================================================================
