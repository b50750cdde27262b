---------------------------- MODULE ConfigProofs ----------------------------
(***************************************************************************)
(* What is proved of Config, for every set of lines and of environments    *)
(* and every length of a file.                                             *)
(***************************************************************************)
EXTENDS Config, TLAPS

Keys == QueueKeys \cup RedisKeys

(* The state of the parser says what the lines so far say: it is inside    *)
(* the block, it has seen the block, it has seen a key.                    *)
Parser ==
    /\ block <=> Within(Len(src) + 1)
    /\ "redis" \in seen <=> \E i \in 1..Len(src) : src[i].t = "open"
    /\ \A k \in Keys : k \in seen <=> \E i \in 1..Len(src) : src[i].t = "set" /\ src[i].key = k

(* What a key holds, it got from a line. *)
Source ==
    \A k \in Keys :
      \/ /\ file[k] = Unset
         /\ \A i \in 1..Len(src) : src[i].key # k
      \/ /\ Valid(k, file[k])
         /\ \E i \in 1..Len(src) : src[i].key = k /\ src[i].val = file[k]

AllFit == \A i \in 1..Len(src) : Fits(i)

(* From the first line to the end of Load.  A file that was refused was    *)
(* wrong, and is never looked at again.                                    *)
Parsed ==
    /\ step = "conf" => src = <<>> /\ ~block /\ seen = {} /\ file = Empty
    /\ step \notin {"refused", "failed"} => Parser /\ Source /\ AllFit
    /\ step \in {"load", "loaded"} => ~block
    /\ step = "refused" => ~WellFormed

IInv == TypeOK /\ Parsed /\ Precedence

-----------------------------------------------------------------------------
(* A line more *)

(* Append in terms of positions. *)
LEMMA Extended ==
  ASSUME TypeOK, NEW l \in Line, src' = Append(src, l)
  PROVE  /\ src' \in Seq(Line) /\ Len(src) \in Nat
         /\ Len(src') = Len(src) + 1
         /\ \A i \in 1..Len(src) : src'[i] = src[i] /\ src[i] \in Line
         /\ src'[Len(src) + 1] = l
BY DEF TypeOK

(* What is inside the block is settled by the lines before.                *)
LEMMA WithinKept ==
  ASSUME TypeOK, NEW l \in Line, src' = Append(src, l),
         NEW i \in 1..(Len(src) + 1)
  PROVE  Within(i)' <=> Within(i)
<1>1. \A j \in 1..(i-1) : src'[j] = src[j]
  BY Extended
<1>2. \A o \in 1..(i-1) : \A c \in o..(i-1) : c \in 1..(i-1)
  BY Extended
<1> QED BY <1>1, <1>2 DEF Within

(* An opening line starts the block and a closing one ends it. *)
LEMMA WithinNext ==
  ASSUME TypeOK, NEW l \in Line, src' = Append(src, l)
  PROVE  Within(Len(src) + 1)' <=> (l.t = "open" \/ (l.t # "close" /\ Within(Len(src) + 1)))
<1> DEFINE n == Len(src)
<1>1. n \in Nat /\ Len(src') = n+1 /\ src'[n+1] = l /\ \A i \in 1..n : src'[i] = src[i]
  BY Extended
<1>2. Within(Len(src) + 1)' <=> \E o \in 1..(n+1) :
        src'[o].t = "open" /\ \A c \in o..(n+1) : src'[c].t # "close"
  BY <1>1 DEF Within
<1>3. Within(n + 1) <=> \E o \in 1..n :
        src[o].t = "open" /\ \A c \in o..n : src[c].t # "close"
  BY <1>1 DEF Within
<1>4. ASSUME l.t = "open"
      PROVE  Within(Len(src) + 1)'
  BY <1>1, <1>2, <1>4
<1>5. ASSUME l.t # "close", Within(n + 1)
      PROVE  Within(Len(src) + 1)'
  <2>1. PICK o \in 1..n : src[o].t = "open" /\ \A c \in o..n : src[c].t # "close"
    BY <1>3, <1>5
  <2>2. \A c \in o..(n+1) : c \in o..n \/ c = n+1
    BY <1>1
  <2>3. \A c \in o..(n+1) : src'[c].t # "close"
    BY <1>1, <1>5, <2>1, <2>2
  <2>4. o \in 1..(n+1) /\ src'[o].t = "open"
    BY <1>1, <2>1
  <2> QED BY <1>2, <2>3, <2>4
<1>6. ASSUME Within(Len(src) + 1)', l.t # "open"
      PROVE  l.t # "close" /\ Within(n + 1)
  <2>1. PICK o \in 1..(n+1) : src'[o].t = "open" /\ \A c \in o..(n+1) : src'[c].t # "close"
    BY <1>2, <1>6
  <2>2. o \in 1..n
    BY <1>1, <1>6, <2>1
  <2>3. n+1 \in o..(n+1) /\ \A c \in o..n : c \in o..(n+1) /\ c \in 1..n
    BY <1>1, <2>2
  <2> QED BY <1>1, <1>3, <2>1, <2>2, <2>3
<1> QED BY <1>4, <1>5, <1>6

(* Lines that had their place keep it when the next one has its own and is *)
(* neither a second block nor a second value of a key.                     *)
LEMMA FitsKept ==
  ASSUME TypeOK, NEW l \in Line, src' = Append(src, l), AllFit,
         l.t = "open" => \A j \in 1..Len(src) : src[j].t # "open",
         l.t = "set" => \A j \in 1..Len(src) : ~(src[j].t = "set" /\ src[j].key = l.key),
         Fits(Len(src))'
  PROVE  AllFit'
<1> DEFINE n == Len(src)
<1>1. n \in Nat /\ Len(src') = n + 1 /\ src'[n+1] = l
      /\ \A i \in 1..n : src'[i] = src[i] /\ src[i] \in Line
  BY Extended
<1>2. ASSUME NEW i \in 1..n
      PROVE  Fits(i)'
  <2>1. Within(i)' <=> Within(i)
    BY <1>1, WithinKept
  <2>2. src'[i] = src[i] /\ Fits(i)
    BY <1>1 DEF AllFit
  <2>3. src[i].t \in {"blank", "open", "close", "set"}
    BY <1>1, <2>2, LineAssumption DEF Fits
  <2>4. \A j \in 1..Len(src') : j \in 1..n \/ j = n + 1
    BY <1>1
  <2>5. CASE src[i].t = "blank"
    BY <2>2, <2>5 DEF Fits
  <2>6. CASE src[i].t = "close"
    BY <2>1, <2>2, <2>6 DEF Fits
  <2>7. CASE src[i].t = "open"
    <3>1. \A j \in 1..n : src[j].t = "open" => j = i
      BY <2>2, <2>7 DEF Fits
    <3>2. ~Within(i)
      BY <2>2, <2>7 DEF Fits
    <3>3. l.t # "open"
      BY <2>7
    <3>4. \A j \in 1..Len(src') : src'[j].t = "open" => j = i
      BY <1>1, <2>4, <3>1, <3>3
    <3> QED BY <2>1, <2>2, <2>7, <3>2, <3>4 DEF Fits
  <2>8. CASE src[i].t = "set"
    <3>1. \A j \in 1..n : src[j].t = "set" /\ src[j].key = src[i].key => j = i
      BY <2>2, <2>8 DEF Fits
    <3>2. /\ src[i].key \in (IF Within(i) THEN RedisKeys ELSE QueueKeys)
          /\ Valid(src[i].key, src[i].val)
      BY <2>2, <2>8 DEF Fits
    <3>3. ~(l.t = "set" /\ l.key = src[i].key)
      BY <2>8
    <3>4. \A j \in 1..Len(src') : src'[j].t = "set" /\ src'[j].key = src'[i].key => j = i
      BY <1>1, <2>2, <2>4, <3>1, <3>3
    <3> QED BY <2>1, <2>2, <2>8, <3>2, <3>4 DEF Fits
  <2> QED BY <2>3, <2>5, <2>6, <2>7, <2>8
<1>3. \A i \in 1..Len(src') : i \in 1..n \/ i = Len(src')
  BY <1>1
<1> QED BY <1>2, <1>3 DEF AllFit

(* What the lines hold, with one line more. *)
LEMMA HeldNext ==
  ASSUME TypeOK, NEW l \in Line, src' = Append(src, l)
  PROVE  /\ (\E i \in 1..Len(src') : src'[i].t = "open")
              <=> (l.t = "open" \/ \E i \in 1..Len(src) : src[i].t = "open")
         /\ \A k : (\E i \in 1..Len(src') : src'[i].t = "set" /\ src'[i].key = k)
              <=> ((l.t = "set" /\ l.key = k) \/ \E i \in 1..Len(src) : src[i].t = "set" /\ src[i].key = k)
         /\ \A k : (\A i \in 1..Len(src') : src'[i].key # k)
              <=> (l.key # k /\ \A i \in 1..Len(src) : src[i].key # k)
         /\ \A k, v : (\E i \in 1..Len(src') : src'[i].key = k /\ src'[i].val = v)
              <=> ((l.key = k /\ l.val = v) \/ \E i \in 1..Len(src) : src[i].key = k /\ src[i].val = v)
<1> DEFINE n == Len(src)
<1>1. n \in Nat /\ Len(src') = n + 1 /\ src'[n+1] = l /\ \A i \in 1..n : src'[i] = src[i]
  BY Extended
<1>2. \A i : i \in 1..Len(src') <=> (i \in 1..n \/ i = n + 1)
  BY <1>1
<1> HIDE DEF n
<1>3. /\ \A i \in 1..n : i \in 1..Len(src') /\ src'[i] = src[i]
      /\ n + 1 \in 1..Len(src') /\ src'[n+1] = l
      /\ \A i \in 1..Len(src') : (i \in 1..n /\ src'[i] = src[i]) \/ src'[i] = l
  BY <1>1, <1>2
<1>4. (\E i \in 1..Len(src') : src'[i].t = "open") <=> (l.t = "open" \/ \E i \in 1..n : src[i].t = "open")
  BY <1>3
<1>5. ASSUME NEW k
      PROVE  /\ (\E i \in 1..Len(src') : src'[i].t = "set" /\ src'[i].key = k)
                  <=> ((l.t = "set" /\ l.key = k) \/ \E i \in 1..n : src[i].t = "set" /\ src[i].key = k)
             /\ (\A i \in 1..Len(src') : src'[i].key # k)
                  <=> (l.key # k /\ \A i \in 1..n : src[i].key # k)
  BY <1>3
<1>6. ASSUME NEW k, NEW v
      PROVE  (\E i \in 1..Len(src') : src'[i].key = k /\ src'[i].val = v)
               <=> ((l.key = k /\ l.val = v) \/ \E i \in 1..n : src[i].key = k /\ src[i].val = v)
  BY <1>3
<1> QED BY <1>4, <1>5, <1>6 DEF n

(* The line that is accepted has its place. *)
LEMMA NewFits ==
  ASSUME TypeOK, Parser, AllFit, NEW l \in Line, src' = Append(src, l),
         \/ l.t = "blank"
         \/ l.t = "close" /\ block
         \/ l.t = "open" /\ ~block /\ "redis" \notin seen
         \/ /\ l.t = "set" /\ l.key \in (IF block THEN RedisKeys ELSE QueueKeys)
            /\ l.key \notin seen /\ Valid(l.key, l.val)
  PROVE  AllFit'
<1> DEFINE n == Len(src)
<1>1. n \in Nat /\ Len(src') = n + 1 /\ src'[n+1] = l /\ \A i \in 1..n : src'[i] = src[i]
  BY Extended
<1>2. ASSUME NEW m, m = n + 1
      PROVE  Within(m)' <=> block
  <2>1. m \in 1..(Len(src) + 1)
    BY <1>1, <1>2
  <2>2. Within(m) <=> block
    BY <1>2 DEF Parser
  <2> QED BY <2>1, <2>2, WithinKept
<1>3. Within(Len(src))' <=> block
  BY <1>1, <1>2 DEF Within
<1>4. \A j \in 1..Len(src') : j \in 1..n \/ j = Len(src')
  BY <1>1
<1>5. l.t = "open" => \A j \in 1..n : src[j].t # "open"
  BY DEF Parser
<1>6. l.t = "set" => \A j \in 1..n : ~(src[j].t = "set" /\ src[j].key = l.key)
  BY DEF Parser, Keys
<1>7. src'[Len(src')] = l
  BY <1>1
<1>8. Fits(Len(src))'
  <2>1. CASE l.t = "blank"
    BY <1>7, <2>1 DEF Fits
  <2>2. CASE l.t = "close" /\ block
    BY <1>3, <1>7, <2>2 DEF Fits
  <2>3. CASE l.t = "open" /\ ~block
    <3>1. \A j \in 1..Len(src') : src'[j].t = "open" => j = Len(src')
      BY <1>1, <1>4, <1>5, <2>3
    <3> QED BY <1>3, <1>7, <2>3, <3>1 DEF Fits
  <2>4. CASE /\ l.t = "set" /\ l.key \in (IF block THEN RedisKeys ELSE QueueKeys)
             /\ Valid(l.key, l.val)
    <3>1. \A j \in 1..Len(src') : src'[j].t = "set" /\ src'[j].key = l.key => j = Len(src')
      BY <1>1, <1>4, <1>6, <2>4
    <3> QED BY <1>3, <1>7, <2>4, <3>1 DEF Fits
  <2> QED BY <2>1, <2>2, <2>3, <2>4
<1> QED BY <1>5, <1>6, <1>8, FitsKept

-----------------------------------------------------------------------------
(* The invariant *)

LEMMA InitIInv == Init => IInv
<1> SUFFICES ASSUME Init PROVE IInv
  OBVIOUS
<1> USE DEF Init
<1>1. src \in Seq(Line) /\ Len(src) = 0
  OBVIOUS
<1>2. TypeOK
  <2>1. block \in BOOLEAN
    BY Zenon
  <2> QED BY <1>1, <2>1, LinesAssumption DEF TypeOK, Empty, NoEnv
<1>3. ~Within(Len(src) + 1)
  BY <1>1 DEF Within
<1>4. Parser
  BY <1>1, <1>3 DEF Parser
<1>5. Source /\ AllFit
  BY <1>1 DEF Source, AllFit, Empty, Keys
<1> QED BY <1>2, <1>4, <1>5 DEF IInv, Parsed, Precedence

(* A line that is not refused is read for what it says. *)
LEMMA ReadAccepted ==
  ASSUME TypeOK, Parser, Source, AllFit, NEW l \in Line, ReadLine(l), step' # "refused"
  PROVE  /\ Parser' /\ Source' /\ AllFit' /\ step' = step
         /\ seen' \subseteq {"redis"} \cup Keys /\ block' \in BOOLEAN /\ DOMAIN file' = Keys
<1>0. src' = Append(src, l)
  BY DEF ReadLine
<1>1. Within(Len(src) + 1)' <=> (l.t = "open" \/ (l.t # "close" /\ block))
  BY <1>0, WithinNext DEF Parser
<1>2. /\ l.t \in {"blank", "open", "openOther", "close", "broken", "set"}
      /\ l.key \in Keys \cup {"other"} /\ (l.t # "set" => l.key = "other")
  BY LineAssumption DEF Keys
<1>3. /\ seen \subseteq {"redis"} \cup Keys /\ block \in BOOLEAN /\ DOMAIN file = Keys
  BY DEF TypeOK, Keys
<1>4. "other" \notin Keys /\ "redis" \notin Keys
  BY DEF Keys, QueueKeys, RedisKeys
<1>5. CASE l.t = "blank"
  <2>1. UNCHANGED <<step, seen, block, file>>
    BY <1>5 DEF ReadLine, splitDirective
  <2>2. AllFit'
    BY <1>0, <1>5, NewFits
  <2>3. Parser'
    BY <1>0, <1>1, <1>5, <2>1, HeldNext DEF Parser
  <2>4. Source'
    BY <1>0, <1>2, <1>4, <1>5, <2>1, HeldNext DEF Source
  <2> QED BY <1>3, <2>1, <2>2, <2>3, <2>4
<1>6. CASE l.t = "close"
  <2>1. block /\ block' = FALSE /\ UNCHANGED <<step, seen, file>>
    <3>1. CloseBlock
      BY <1>6 DEF ReadLine, splitDirective
    <3> QED BY Zenon, <3>1 DEF CloseBlock, Refuse
  <2>2. AllFit'
    BY <1>0, <1>6, <2>1, NewFits
  <2>3. Parser'
    BY <1>0, <1>1, <1>6, <2>1, HeldNext DEF Parser
  <2>4. Source'
    BY <1>0, <1>2, <1>4, <1>6, <2>1, HeldNext DEF Source
  <2> QED BY <1>3, <2>1, <2>2, <2>3, <2>4
<1>7. CASE l.t \in {"open", "openOther"}
  <2>1. /\ l.t = "open" /\ ~block /\ "redis" \notin seen
        /\ block' = TRUE /\ seen' = seen \cup {"redis"} /\ UNCHANGED <<step, file>>
    BY <1>7 DEF ReadLine, OpenBlock, Refuse, splitDirective
  <2>2. AllFit'
    BY <1>0, <2>1, NewFits
  <2>3. Parser'
    BY <1>0, <1>1, <1>4, <2>1, HeldNext DEF Parser
  <2>4. Source'
    BY <1>0, <1>2, <1>4, <2>1, HeldNext DEF Source
  <2> QED BY <1>3, <2>1, <2>2, <2>3, <2>4
<1>8. CASE l.t = "set"
  <2>1. /\ l.key \in (IF block THEN RedisKeys ELSE QueueKeys)
        /\ l.key \notin seen /\ Valid(l.key, l.val)
        /\ file' = [file EXCEPT ![l.key] = l.val] /\ seen' = seen \cup {l.key}
        /\ UNCHANGED <<step, block>>
    BY <1>8 DEF ReadLine, SetKey, Refuse, splitDirective
  <2>2. l.key \in Keys
    BY <2>1 DEF Keys
  <2>3. AllFit'
    BY <1>0, <1>8, <2>1, NewFits
  <2>4. Parser'
    BY <1>0, <1>1, <1>4, <1>8, <2>1, <2>2, HeldNext DEF Parser
  <2>5. ASSUME NEW k \in Keys
        PROVE  \/ /\ file'[k] = Unset
                  /\ \A i \in 1..Len(src') : src'[i].key # k
               \/ /\ Valid(k, file'[k])
                  /\ \E i \in 1..Len(src') : src'[i].key = k /\ src'[i].val = file'[k]
    <3>1. CASE k = l.key
      <4>1. file'[k] = l.val
        BY <1>3, <2>1, <3>1
      <4> QED BY <1>0, <2>1, <3>1, <4>1, HeldNext
    <3>2. CASE k # l.key
      <4>1. file'[k] = file[k]
        BY <1>3, <2>1, <3>2
      <4> QED BY <1>0, <3>2, <4>1, HeldNext DEF Source
    <3> QED BY <3>1, <3>2
  <2>6. Source'
    BY <2>5 DEF Source, Valid
  <2> QED BY <1>3, <2>1, <2>2, <2>3, <2>4, <2>6
<1>9. CASE l.t = "broken"
  BY <1>9 DEF ReadLine, Refuse, splitDirective
<1> QED BY <1>2, <1>5, <1>6, <1>7, <1>8, <1>9

(* A line that is refused has no place, and changes nothing else. *)
LEMMA ReadRefused ==
  ASSUME TypeOK, Parser, NEW l \in Line, ReadLine(l), step' = "refused"
  PROVE  ~WellFormed' /\ UNCHANGED <<seen, block, file>>
<1> DEFINE n == Len(src)
<1>0. src' = Append(src, l) /\ step = "lines"
  BY DEF ReadLine
<1>1. n \in Nat /\ Len(src') = n + 1 /\ src'[n+1] = l /\ \A i \in 1..n : src'[i] = src[i]
  BY <1>0, Extended
<1>2. /\ l.t \in {"blank", "open", "openOther", "close", "broken", "set"}
      /\ l.key \in Keys \cup {"other"} /\ (l.t # "set" => l.key = "other")
  BY LineAssumption DEF Keys
<1>3. UNCHANGED <<seen, block, file>>
  BY <1>0, <1>2 DEF ReadLine, Refuse, OpenBlock, CloseBlock, SetKey, splitDirective
<1>4. \/ l.t \in {"openOther", "broken"}
      \/ l.t = "close" /\ ~block
      \/ l.t = "open" /\ (block \/ "redis" \in seen)
      \/ /\ l.t = "set"
         /\ \/ l.key \notin (IF block THEN RedisKeys ELSE QueueKeys)
            \/ l.key \in seen
            \/ ~Valid(l.key, l.val)
  BY <1>0, <1>2 DEF ReadLine, Refuse, OpenBlock, CloseBlock, SetKey, splitDirective
<1>5. Within(Len(src))' <=> block
  <2>1. ASSUME NEW m, m = n + 1
        PROVE  Within(m)' <=> block
    <3>1. m \in 1..(Len(src) + 1) /\ (Within(m) <=> block)
      BY <1>1, <2>1 DEF Parser
    <3> QED BY <1>0, <3>1, WithinKept
  <2> QED BY <1>1, <2>1 DEF Within
<1>6. src'[Len(src')] = l /\ Len(src') \in 1..Len(src')
  BY <1>1
<1>7. ASSUME NEW j \in 1..n
      PROVE  j \in 1..Len(src') /\ j # Len(src') /\ src'[j] = src[j]
  BY <1>1
<1>8. ~Fits(Len(src))'
  <2>1. CASE l.t \in {"openOther", "broken"}
    BY <1>6, <2>1 DEF Fits
  <2>2. CASE l.t = "close" /\ ~block
    BY <1>5, <1>6, <2>2 DEF Fits
  <2>3. CASE l.t = "open" /\ block
    BY <1>5, <1>6, <2>3 DEF Fits
  <2>4. CASE l.t = "open" /\ "redis" \in seen
    <3>1. PICK j \in 1..n : src[j].t = "open"
      BY <2>4 DEF Parser
    <3> QED BY <1>6, <1>7, <2>4, <3>1 DEF Fits
  <2>5. CASE l.t = "set" /\ l.key \notin (IF block THEN RedisKeys ELSE QueueKeys)
    BY <1>5, <1>6, <2>5 DEF Fits
  <2>6. CASE l.t = "set" /\ l.key \in (IF block THEN RedisKeys ELSE QueueKeys) /\ l.key \in seen
    <3>1. l.key \in Keys
      BY <2>6 DEF Keys
    <3>2. PICK j \in 1..n : src[j].t = "set" /\ src[j].key = l.key
      BY <2>6, <3>1 DEF Parser
    <3> QED BY <1>6, <1>7, <2>6, <3>2 DEF Fits
  <2>7. CASE l.t = "set" /\ ~Valid(l.key, l.val)
    <3>1. ~Valid(src'[Len(src')].key, src'[Len(src')].val)
      BY <1>6, <2>7
    <3> QED BY <1>6, <2>7, <3>1 DEF Fits
  <2> QED BY <1>4, <2>1, <2>2, <2>3, <2>4, <2>5, <2>6, <2>7
<1> QED BY <1>3, <1>6, <1>8 DEF WellFormed

(* A key of the file is not set, or holds what a line of it says. *)
LEMMA SaidIs ==
  ASSUME TypeOK, Source, NEW k \in Keys, NEW def
  PROVE  Over(file[k], def) \in (IF Said(k) # {} THEN Said(k) ELSE {def})
<1>1. CASE file[k] = Unset /\ \A i \in 1..Len(src) : src[i].key # k
  BY <1>1 DEF Said, Over
<1>2. CASE \E i \in 1..Len(src) : src[i].key = k /\ src[i].val = file[k]
  <2>1. PICK i \in 1..Len(src) : src[i].key = k /\ src[i].val = file[k]
    BY <1>2
  <2>2. src[i] \in Line
    BY DEF TypeOK
  <2>3. k # "other"
    BY DEF Keys, QueueKeys, RedisKeys
  <2>4. file[k] # Unset
    BY <2>1, <2>2, <2>3, LineAssumption
  <2>5. file[k] \in Said(k)
    BY <2>1 DEF Said
  <2> QED BY <2>4, <2>5 DEF Over
<1> QED BY <1>1, <1>2 DEF Source

LEMMA LoadPrecedence ==
  ASSUME TypeOK, Source, Load
  PROVE  Precedence'
<1>1. cfg' = Effective(env') /\ file' = file /\ src' = src
  BY DEF Load
<1>2. /\ cfg'.QueueDepth = Over(env'["DEPTH"], Over(file["queue_max"], 256))
      /\ cfg'.QueueFull = Over(env'["FULL"], Over(file["queue_full"], "drop"))
      /\ cfg'.QueueExpand = Over(env'["EXPAND"], Over(file["queue_expand"], "off"))
  BY <1>1 DEF Effective, applyQueueFile
<1>3. /\ cfg'.RedisURL = Over(env'["REDIS_URL"], file["url"])
      /\ cfg'.InternalURL = Over(env'["REDIS_INTERNAL_URL"], Over(file["internal"], cfg'.RedisURL))
      /\ cfg'.Secret = loadSecret(env')
  BY <1>1 DEF Effective, internalRedis
<1>4. file["url"] = Over(file["url"], Unset)
  BY DEF Over
<1>5. ASSUME NEW v, NEW k \in Keys, NEW def
      PROVE  Over(env'[v], Over(file[k], def)) \in Wins(v, k, def)'
  <2>1. Said(k)' = Said(k)
    BY <1>1 DEF Said
  <2>2. Over(file[k], def) \in (IF Said(k) # {} THEN Said(k) ELSE {def})
    BY SaidIs
  <2> QED BY <2>1, <2>2 DEF Wins, Over
<1>6. Keys = {"queue_max", "queue_full", "queue_expand", "url", "internal"}
  BY DEF Keys, QueueKeys, RedisKeys
<1>7. /\ cfg'.QueueDepth \in Wins("DEPTH", "queue_max", 256)'
      /\ cfg'.QueueFull \in Wins("FULL", "queue_full", "drop")'
      /\ cfg'.QueueExpand \in Wins("EXPAND", "queue_expand", "off")'
  BY <1>2, <1>5, <1>6
<1>8. cfg'.RedisURL \in Wins("REDIS_URL", "url", Unset)'
  BY <1>3, <1>4, <1>5, <1>6
<1>9. cfg'.InternalURL \in Wins("REDIS_INTERNAL_URL", "internal", cfg.RedisURL)'
  <2>1. ASSUME NEW d, d = cfg'.RedisURL
        PROVE  cfg'.InternalURL \in Wins("REDIS_INTERNAL_URL", "internal", d)'
    BY <1>3, <1>5, <1>6, <2>1
  <2> QED BY <2>1 DEF Wins
<1>10. cfg'.Secret = env'[IF env'["SECRET_FILE"] # Unset THEN "SECRET_FILE" ELSE "SECRET"]
  BY <1>3 DEF loadSecret
<1> QED BY <1>7, <1>8, <1>9, <1>10 DEF Precedence

LEMMA NextIInv == IInv /\ [Next]_vars => IInv'
<1> SUFFICES ASSUME IInv, [Next]_vars PROVE IInv'
  OBVIOUS
<1>0. TypeOK /\ Parsed /\ Precedence
  BY DEF IInv
<1>1. CASE FindConf
  <2>1. step = "conf" /\ step' \in {"lines", "load", "failed"} /\ UNCHANGED <<src, seen, block, file, env, cfg>>
    BY <1>1 DEF FindConf
  <2>2. TypeOK'
    BY <1>0, <2>1 DEF TypeOK
  <2>3. Parser /\ Source /\ AllFit /\ ~block
    BY <1>0, <2>1 DEF Parsed
  <2>4. Parser' /\ Source' /\ AllFit' /\ ~block'
    BY <2>1, <2>3 DEF Parser, Source, AllFit, Within, Fits, Valid
  <2> QED BY <2>1, <2>2, <2>4 DEF IInv, Parsed, Precedence
<1>2. ASSUME NEW l \in Line, ReadLine(l)
      PROVE  IInv'
  <2>1. /\ step = "lines" /\ Len(src) < MaxLines /\ src' = Append(src, l) /\ UNCHANGED <<env, cfg>>
    BY <1>2 DEF ReadLine
  <2>2. Parser /\ Source /\ AllFit
    BY <1>0, <2>1 DEF Parsed
  <2>3. src' \in Seq(Line) /\ Len(src') <= MaxLines
    BY <1>0, <2>1, Extended, LinesAssumption
  <2>4. CASE step' = "refused"
    <3>1. ~WellFormed' /\ UNCHANGED <<seen, block, file>>
      BY <1>0, <1>2, <2>2, <2>4, ReadRefused
    <3>2. TypeOK'
      BY <1>0, <2>1, <2>3, <2>4, <3>1 DEF TypeOK
    <3> QED BY <2>4, <3>1, <3>2 DEF IInv, Parsed, Precedence
  <2>5. CASE step' # "refused"
    <3>1. /\ Parser' /\ Source' /\ AllFit' /\ step' = step
          /\ seen' \subseteq {"redis"} \cup Keys /\ block' \in BOOLEAN /\ DOMAIN file' = Keys
      BY <1>0, <1>2, <2>2, <2>5, ReadAccepted
    <3>2. TypeOK'
      BY <1>0, <2>1, <2>3, <3>1 DEF TypeOK, Keys
    <3> QED BY <2>1, <3>1, <3>2 DEF IInv, Parsed, Precedence
  <2> QED BY <2>4, <2>5
<1>3. CASE EndOfFile
  <2>1. step = "lines" /\ step' = (IF block THEN "refused" ELSE "load") /\ UNCHANGED <<src, seen, block, file, env, cfg>>
    BY <1>3 DEF EndOfFile
  <2>2. TypeOK'
    BY <1>0, <2>1 DEF TypeOK
  <2>3. Parser /\ Source /\ AllFit
    BY <1>0, <2>1 DEF Parsed
  <2>4. Parser' /\ Source' /\ AllFit'
    BY <2>1, <2>3 DEF Parser, Source, AllFit, Within, Fits, Valid
  <2>5. block => ~WellFormed'
    BY <2>1, <2>3 DEF Parser, WellFormed, Within
  <2> QED BY <2>1, <2>2, <2>4, <2>5 DEF IInv, Parsed, Precedence
<1>4. CASE Load
  <2>1. step = "load" /\ env' \in Env /\ step' \in {"loaded", "failed"} /\ UNCHANGED <<src, seen, block, file>>
    BY <1>4 DEF Load
  <2>2. TypeOK'
    BY <1>0, <2>1, EnvAssumption DEF TypeOK
  <2>3. Parser /\ Source /\ AllFit /\ ~block
    BY <1>0, <2>1 DEF Parsed
  <2>4. Parser' /\ Source' /\ AllFit' /\ ~block'
    BY <2>1, <2>3 DEF Parser, Source, AllFit, Within, Fits, Valid
  <2>5. Precedence'
    BY <1>0, <1>4, <2>3, LoadPrecedence
  <2> QED BY <2>1, <2>2, <2>4, <2>5 DEF IInv, Parsed
<1>5. CASE Started \/ UNCHANGED vars
  <2>1. UNCHANGED <<step, src, seen, block, file, env, cfg>>
    BY <1>5 DEF Started, vars
  <2>2. TypeOK' /\ Precedence'
    <3>1. \A v, k, d : Wins(v, k, d)' = Wins(v, k, d)
      BY <2>1 DEF Wins, Said
    <3>2. TypeOK'
      BY <1>0, <2>1 DEF TypeOK
    <3>3. CASE step # "loaded"
      BY <2>1, <3>2, <3>3 DEF Precedence
    <3>4. CASE step = "loaded"
      BY <1>0, <2>1, <3>1, <3>2, <3>4 DEF Precedence
    <3> QED BY <3>3, <3>4
  <2>3. Parsed'
    BY <1>0, <2>1 DEF Parsed, Parser, Source, AllFit, WellFormed, Within, Fits, Valid
  <2> QED BY <2>2, <2>3 DEF IInv
<1> QED BY <1>1, <1>2, <1>3, <1>4, <1>5 DEF Next

-----------------------------------------------------------------------------
(* The theorems *)

(* The inductive invariant holds in every behaviour: after any lines and   *)
(* any environment, the parser's flags say where the file stands.          *)
THEOREM Invariance == Spec => []IInv
BY InitIInv, NextIInv, PTL DEF Spec

(* The variables keep their types: in particular parseQueueFile never      *)
(* stores or remembers a name it does not know.                            *)
THEOREM TypeCorrect == Spec => []TypeOK
<1>1. IInv => TypeOK
  BY DEF IInv
<1> QED BY <1>1, Invariance, PTL

(* The parser's flags give the file the meaning that its lines have        *)
(* without an order of reading: a file is accepted when every line has its *)
(* place, and then a key holds the value of the line that sets it; it is   *)
(* refused only when a line has none or the block is not closed.           *)
THEOREM FileMeansWhatItSaysAlways == Spec => []FileMeansWhatItSays
<1>1. IInv => FileMeansWhatItSays
  <2> SUFFICES ASSUME IInv PROVE FileMeansWhatItSays
    OBVIOUS
  <2>1. step \in {"load", "loaded"} => Parser /\ Source /\ AllFit /\ ~block
    BY DEF IInv, Parsed
  <2>2. step = "lines" => AllFit
    BY DEF IInv, Parsed
  <2>3. Parser /\ AllFit /\ ~block => WellFormed
    BY DEF Parser, AllFit, WellFormed
  <2>4. Source => \A k \in QueueKeys \cup RedisKeys :
          \/ file[k] = Unset /\ \A i \in 1..Len(src) : src[i].key # k
          \/ \E i \in 1..Len(src) : src[i].key = k /\ src[i].val = file[k]
    BY DEF Source, Keys
  <2>5. AllFit => \A i \in 1..Len(src) : Fits(i)
    BY DEF AllFit
  <2>6. step = "refused" => ~WellFormed
    BY DEF IInv, Parsed
  <2> QED BY <2>1, <2>2, <2>3, <2>4, <2>5, <2>6 DEF FileMeansWhatItSays
<1> QED BY <1>1, Invariance, PTL

(* A setting that loads is what its variable says, else what the line of   *)
(* the file says, else the default, the internal Redis falling back to the *)
(* buffer's; the file of the key wins over the variable.                   *)
THEOREM PrecedenceAlways == Spec => []Precedence
<1>1. IInv => Precedence
  BY DEF IInv
<1> QED BY <1>1, Invariance, PTL
=============================================================================
