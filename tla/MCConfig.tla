------------------------------ MODULE MCConfig ------------------------------
(***************************************************************************)
(* Config on every file of up to MaxLines lines, with every environment    *)
(* that sets one or two variables.                                         *)
(***************************************************************************)
EXTENDS Config
Mk(t, k, v) == [t |-> t, key |-> k, val |-> v]
MCLine == {Mk(t, "other", Unset) : t \in {"blank", "open", "openOther", "close", "broken"}}
  \cup {Mk("set", "queue_max", v) : v \in {0, 8, Junk}}
  \cup {Mk("set", "queue_full", v) : v \in {"wait", Junk}}
  \cup {Mk("set", "queue_expand", "ask"), Mk("set", "other", "x")}
  \cup {Mk("set", k, v) : k \in RedisKeys, v \in {"fileA", "fileB"}}
Choice == [v \in Var |->
  CASE v = "NATS_URL" -> {{}, {"server"}}
    [] v \in {"SUBJECT", "NAME", "QUEUE"} -> {"given"}
    [] v = "DEPTH" -> {0, 2, Junk}
    [] v = "FULL" -> {"wait", Junk}
    [] v = "EXPAND" -> {"ask", Junk}
    [] v = "WORKERS" -> {Unset, 0, 3}
    [] v = "RESERVE" -> {-1, 0}
    [] v = "HEARTBEAT" -> {0, Junk}
    [] v = "VERSIONS" -> {{}, {1, 2}}
    [] v = "REDIS_URL" -> {"envA"}
    [] v = "REDIS_INTERNAL_URL" -> {"envB"}
    [] v = "SECRET_FILE" -> {"empty", "short", "key1", Junk}
    [] v = "SECRET" -> {"short", "key2"}]
MCEnv == {[NoEnv EXCEPT ![v] = x, ![w] = y] :
            <<v, x, w, y>> \in UNION {{<<v, x, w, y>> : x \in Choice[v], y \in Choice[w]} : v \in Var, w \in Var}}
=============================================================================
