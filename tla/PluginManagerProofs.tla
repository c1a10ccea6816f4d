------------------------ MODULE PluginManagerProofs -------------------------
(***************************************************************************)
(* Proofs about PluginManager: what Manager.Stop has stopped stays quiet,  *)
(* and the status plugin hears of every change that no other overlapped,   *)
(* for any deployments: whatever is booted, and whatever is discovered in  *)
(* whatever order.                                                         *)
(***************************************************************************)
EXTENDS PluginManager, WellFoundedInduction, TLAPS

States == {"none", "NotReady", "OK"}
Dos == {"update", "notify", "tell", "register", "hear", "start", "run", "listen", "unlisten",
        "reconfigure", "stop", "await"}
Ops == [do : Dos, of : Names, is : States, all : [Names -> States]]

Is(op, do, of) == op.do = do /\ op.of = of
Known == {p \in Names : state[p] # "none"}

\* The calls that begin plugin p: Start, and what the Start of the status plugin does last.
Begins(op, p) == op.of = p /\ op.do \in {"start", "run", "listen"}

\* The call that makes the manager notify the status plugin, now or when it is Start's turn.
Token(op) == op.do = "listen" \/ Is(op, "start", Status)

\* What a thread has yet to do, when R are the plugins registered and K those with a state.
Orderly(l, R, K) ==
    /\ l \in Seq(Ops)
    /\ \A i \in DOMAIN l : l[i].do = "notify" => i = 1
    /\ \A i \in DOMAIN l : l[i].do = "update" => l[i].is # "none"
    /\ \A i \in DOMAIN l : l[i].do = "register" =>
          l[i].of \in K \/ l[i].of = Discovery \/ (i > 1 /\ Is(l[i - 1], "update", l[i].of))
    /\ \A i \in DOMAIN l : l[i].do = "listen" =>
          l[i].of = Status /\ i + 1 \in DOMAIN l /\ l[i + 1].do = "update"
    /\ \A i \in DOMAIN l : Token(l[i]) => Status \in R \/ \E j \in 1..(i - 1) : Is(l[j], "register", Status)
    /\ \A i, j \in DOMAIN l : Token(l[i]) /\ Token(l[j]) => i = j
    /\ \A i \in DOMAIN l : Begins(l[i], Discovery) =>
          i = Len(l) /\ (Discovery \in R \/ \E j \in 1..(i - 1) : Is(l[j], "register", Discovery))
    /\ \A i, j \in DOMAIN l : Is(l[i], "register", Discovery) /\ Token(l[j]) => i < j

\* Who makes which calls.
WorkerDos == {"update", "notify", "tell"}
ConfigureDos == {"update", "notify", "register", "hear", "start", "run", "listen", "reconfigure"}
StopDos == {"update", "notify", "stop", "await", "unlisten"}

Makes(l, dos) == \A i \in DOMAIN l : l[i].do \in dos

Duties ==
    /\ Makes(todo[Bundle], WorkerDos) /\ Makes(todo[Logs], WorkerDos)
    /\ Makes(todo[Discovery], ConfigureDos \union {"tell"})
    /\ \A i \in DOMAIN todo[Discovery] : todo[Discovery][i].do \in {"register", "start", "run", "listen"}
          => todo[Discovery][i].of # Discovery
    /\ main = "boot" => Makes(todo[Main], ConfigureDos)
    /\ main = "stop" => Makes(todo[Main], StopDos)
    /\ main \in {"up", "stopped"} => todo[Main] = <<>>

\* The goroutine of discovery has begun, and is not over.
Discovering == running[Discovery] # "off" \/ todo[Discovery] # <<>>

Types ==
    /\ env \in Deployments
    /\ plugins \in Seq(Names)
    /\ state \in [Names -> States]
    /\ running \in [Workers -> Goroutines]
    /\ todo \in [Threads -> Seq(Ops)]
    /\ main \in {"boot", "up", "stop", "stopped"}
    /\ toStop \in Seq(Names)
    /\ Range(toStop) \subseteq Registered
    /\ Registered \subseteq Known
    /\ listening \subseteq {Status}

Threaded ==
    /\ \A t \in Threads : Orderly(todo[t], Registered, Known)
    /\ Duties
    /\ Discovering => /\ main # "boot" \/ todo[Main] = <<>>
                      /\ Discovery \in Registered
                      /\ env.discovery # "no"
    /\ \A i \in DOMAIN todo[Main] : todo[Main][i].of = Discovery =>
          /\ todo[Main][i].do \in {"run", "stop"} => env.discovery # "no"
          /\ todo[Main][i].do = "stop" => Discovery \in Registered

-----------------------------------------------------------------------------
(* What Stop has stopped.                                                  *)

\* Plugin p is still to be begun by discovery.
Pending(p) == \E i \in DOMAIN todo[Discovery] : Begins(todo[Discovery][i], p)

Has(l, do, p) == \E i \in DOMAIN l : Is(l[i], do, p)

\* Main will wait for discovery, and make this call then.
HasAfter(l, do, p) ==
    \E i, j \in DOMAIN l : i < j /\ Is(l[i], "await", Discovery) /\ Is(l[j], do, p)

\* What the calls to Stop do.
Ends(do, p) ==
    IF do = "unlisten" THEN listening = {}
    ELSE IF p = Status THEN loop = "gone"
    ELSE running[p] = "off" /\ todo[p] = <<>>

\* The calls that stop a plugin: await for all, and unlisten for the status plugin.
Halts == {<<"await", p>> : p \in Names} \union {<<"unlisten", Status>>}

\* Discovery is registered before what it registers, so that Stop waits for it first.
DiscoveryFirst ==
    \A p \in Names : Pending(p) =>
        \A k \in DOMAIN plugins : plugins[k] = p => \E j \in 1..(k - 1) : plugins[j] = Discovery

Halting ==
    main \in {"stop", "stopped"} =>
        /\ Discovering => Has(todo[Main], "await", Discovery)
        /\ \A i \in DOMAIN todo[Main] : todo[Main][i].do = "stop" =>
              \E j \in DOMAIN todo[Main] : i < j /\ Is(todo[Main][j], "await", todo[Main][i].of)
        /\ \A h \in Halts : h[2] \in Range(toStop) =>
              /\ Pending(h[2]) => HasAfter(todo[Main], h[1], h[2])
              /\ Ends(h[1], h[2]) \/ Has(todo[Main], h[1], h[2])

-----------------------------------------------------------------------------
(* What the status plugin hears.                                           *)

NoNotify == \A t \in Threads : ~Calls(t, "notify")

\* Nobody has listened yet.
Unheard == listening = {} /\ channel = Nothing /\ NoNotify

HasToken(t) == \E i \in DOMAIN todo[t] : Token(todo[t][i])

ListenOnce ==
    /\ \A t, u \in Threads : HasToken(t) /\ HasToken(u) => t = u
    /\ Status \notin Registered \/ (\E t \in Threads : HasToken(t)) => Unheard
    /\ Has(todo[Main], "register", Discovery) => listening = {}

\* The latest statuses are with the thread that notifies, in the channel, or received, in
\* this order; before the first notification somebody is about to update a status.
Told ==
    listening # {} /\ raced = "no" =>
        /\ \A t \in Threads : Calls(t, "notify") => Head(todo[t]).all = state
        /\ NoNotify /\ channel # Nothing => channel = state
        /\ NoNotify /\ channel = Nothing => last = state \/ \E t \in Threads : Calls(t, "update")

IInv == Types /\ Threaded /\ DiscoveryFirst /\ Halting /\ ListenOnce /\ Told

-----------------------------------------------------------------------------
(* Lists of calls.                                                         *)

\* A set of naturals has a least member.
LEMMA LeastNat ==
  ASSUME NEW T \in SUBSET Nat, T # {}
  PROVE  \E m \in T : \A n \in T : m <= n
<1>1. PICK m \in T : \A n \in T : ~(<<n, m>> \in OpToRel(<, Nat))
  BY NatLessThanWellFounded, WFMin, Zenon
<1>2. \A n \in T : ~(n < m)
  BY <1>1, Zenon DEF OpToRel
<1> QED BY <1>2, SMT

\* The places of a list and what is there.
LEMMA Elements ==
  ASSUME NEW A, NEW l \in Seq(A)
  PROVE  /\ Len(l) \in Nat /\ DOMAIN l = 1..Len(l) /\ (Len(l) = 0 <=> l = <<>>)
         /\ \A i \in DOMAIN l : l[i] \in A
<1>1. Len(l) \in Nat /\ DOMAIN l = 1..Len(l) /\ (Len(l) = 0 <=> l = <<>>)
  BY SMT
<1>2. \A i \in 1..Len(l) : l[i] \in A
  BY SMT
<1> QED BY <1>1, <1>2, Zenon

\* A list without its head.
LEMMA Tails ==
  ASSUME NEW A, NEW l \in Seq(A), l # <<>>
  PROVE  /\ Head(l) \in A /\ Tail(l) \in Seq(A) /\ Len(Tail(l)) = Len(l) - 1
         /\ \A i \in 1..Len(Tail(l)) : Tail(l)[i] = l[i + 1]
  BY SMT

\* One list after another.
LEMMA Concats ==
  ASSUME NEW A, NEW x \in Seq(A), NEW y \in Seq(A)
  PROVE  /\ x \o y \in Seq(A) /\ Len(x \o y) = Len(x) + Len(y)
         /\ \A i \in 1..(Len(x) + Len(y)) :
               (x \o y)[i] = IF i <= Len(x) THEN x[i] ELSE y[i - Len(x)]
<1>1. x \o y \in Seq(A) /\ Len(x \o y) = Len(x) + Len(y)
  BY SMT
<1> QED BY <1>1, SMT

\* Nothing before or after a list.
LEMMA ConcatNone ==
  ASSUME NEW A, NEW x \in Seq(A)
  PROVE  x \o <<>> = x /\ <<>> \o x = x
  BY SMT

\* n is what is left to do of the head of l, ops, in front of the rest of l.
Follows(n, ops, l) ==
    /\ Len(l) \in Nat /\ Len(ops) \in Nat /\ Len(n) = Len(ops) + Len(l) - 1
    /\ DOMAIN l = 1..Len(l) /\ DOMAIN ops = 1..Len(ops) /\ DOMAIN n = 1..Len(n)
    /\ 1 \in DOMAIN l /\ l[1] = Head(l)
    /\ \A i \in DOMAIN ops : i \in DOMAIN n /\ n[i] = ops[i]
    /\ \A i \in DOMAIN l : i # 1 =>
          Len(ops) + i - 1 \in DOMAIN n /\ n[Len(ops) + i - 1] = l[i]
    /\ \A k \in DOMAIN n :
          \/ k \in DOMAIN ops /\ n[k] = ops[k]
          \/ \E i \in DOMAIN l : i # 1 /\ k = Len(ops) + i - 1 /\ n[k] = l[i]

\* A call returns with something left to do of it, in front of the rest.
LEMMA Rest ==
  ASSUME NEW A, NEW l \in Seq(A), l # <<>>, NEW ops \in Seq(A), NEW n, n = ops \o Tail(l)
  PROVE  n \in Seq(A) /\ Follows(n, ops, l)
<1>1. /\ Len(l) \in Nat /\ Len(ops) \in Nat /\ Len(l) # 0
      /\ DOMAIN l = 1..Len(l) /\ DOMAIN ops = 1..Len(ops)
      /\ l[1] = Head(l)
  BY SMT
<1>2. /\ Tail(l) \in Seq(A) /\ Len(Tail(l)) = Len(l) - 1
      /\ \A i \in 1..Len(Tail(l)) : Tail(l)[i] = l[i + 1]
  BY Tails, Zenon
<1>3. /\ n \in Seq(A) /\ Len(n) = Len(ops) + Len(Tail(l))
      /\ \A i \in 1..(Len(ops) + Len(Tail(l))) :
            n[i] = IF i <= Len(ops) THEN ops[i] ELSE Tail(l)[i - Len(ops)]
  BY <1>2, Concats, Zenon
<1>4. DOMAIN n = 1..Len(n)
  BY <1>3, Elements, Zenon
<1> DEFINE t == Tail(l)
<1> HIDE DEF t
<1>5. /\ Len(t) = Len(l) - 1 /\ \A i \in 1..Len(t) : t[i] = l[i + 1]
      /\ Len(n) = Len(ops) + Len(t)
      /\ \A i \in 1..(Len(ops) + Len(t)) : n[i] = IF i <= Len(ops) THEN ops[i] ELSE t[i - Len(ops)]
  BY <1>2, <1>3, Zenon DEF t
<1>6. \A i \in 1..Len(ops) : i \in 1..Len(n) /\ n[i] = ops[i]
  BY <1>1, <1>5, SMT
<1>7. \A i \in 1..Len(l) : i # 1 => Len(ops) + i - 1 \in 1..Len(n) /\ n[Len(ops) + i - 1] = l[i]
  BY <1>1, <1>5, SMT
<1>8. ASSUME NEW k \in 1..Len(n), k \notin 1..Len(ops)
      PROVE  \E i \in 1..Len(l) : i # 1 /\ k = Len(ops) + i - 1 /\ n[k] = l[i]
  <2>1. k - Len(ops) + 1 \in 1..Len(l) /\ k - Len(ops) + 1 # 1 /\ k = Len(ops) + (k - Len(ops) + 1) - 1
    BY <1>1, <1>5, <1>8, SMT
  <2>2. n[k] = l[k - Len(ops) + 1]
    BY <1>7, <2>1, Zenon
  <2> QED BY <2>1, <2>2, Zenon
<1>9. Len(n) = Len(ops) + Len(l) - 1 /\ 1 \in 1..Len(l)
  BY <1>1, <1>5, SMT
<1>10. \A k \in 1..Len(n) : \/ k \in 1..Len(ops) /\ n[k] = ops[k]
                            \/ \E i \in 1..Len(l) : i # 1 /\ k = Len(ops) + i - 1 /\ n[k] = l[i]
  BY <1>6, <1>8, Zenon
<1>11. /\ Len(l) \in Nat /\ Len(ops) \in Nat /\ Len(n) = Len(ops) + Len(l) - 1
       /\ DOMAIN l = 1..Len(l) /\ DOMAIN ops = 1..Len(ops) /\ DOMAIN n = 1..Len(n)
       /\ 1 \in 1..Len(l) /\ l[1] = Head(l)
  BY <1>1, <1>4, <1>9, Zenon
<1> QED BY <1>3, <1>6, <1>7, <1>10, <1>11, ZenonT(30) DEF Follows

\* What a call h may leave to do, in its place.
Fits(ops, h) ==
    /\ ops \in Seq(Ops)
    /\ \A i \in DOMAIN ops :
          /\ ops[i].do \in ConfigureDos \ {"register"}
          /\ ops[i].do = "notify" => i = 1 /\ h.do = "update"
          /\ ops[i].do # "notify" => h.do \in {"register", "start", "reconfigure"}
          /\ ops[i].do = "update" => ops[i].is # "none"
          /\ ops[i].do = "listen" =>
                ops[i].of = Status /\ i + 1 \in DOMAIN ops /\ ops[i + 1].do = "update"
          /\ Token(ops[i]) => Token(h)
          /\ ~Begins(ops[i], Discovery)
          /\ \A p : Begins(ops[i], p) => Begins(h, p)
    /\ \A i, j \in DOMAIN ops : Token(ops[i]) /\ Token(ops[j]) => i = j

\* The positions next to one that is moved by m - 1.
LEMMA Neighbours ==
  ASSUME NEW m \in Nat, NEW N \in Nat, NEW i \in 1..N
  PROVE  /\ i # 1 /\ i # 2 =>
               i - 1 \in 1..N /\ i - 1 # 1 /\ m + (i - 1) - 1 = (m + i - 1) - 1 /\ m + i - 1 > 1
         /\ i + 1 # 1 /\ m + (i + 1) - 1 = (m + i - 1) + 1
<1>1. i + 1 # 1 /\ m + (i + 1) - 1 = (m + i - 1) + 1
  BY SMT
<1>2. ASSUME i # 1, i # 2
      PROVE  i - 1 \in 1..N /\ i - 1 # 1 /\ m + (i - 1) - 1 = (m + i - 1) - 1 /\ m + i - 1 > 1
  BY <1>2, SMT
<1> QED BY <1>1, <1>2, Zenon

\* The order is kept when a call is made and does what it says.
LEMMA OrderlyRest ==
  ASSUME NEW l, NEW R, NEW K, NEW S, NEW L, Orderly(l, R, K), l # <<>>,
         R \subseteq S, K \subseteq L,
         \A p : Is(Head(l), "register", p) => p \in S,
         \A p : Is(Head(l), "update", p) => p \in L,
         NEW ops, Fits(ops, Head(l)),
         NEW n, n = ops \o Tail(l)
  PROVE  Orderly(n, S, L)
<1> DEFINE m == Len(ops)
<1>1. l \in Seq(Ops) /\ ops \in Seq(Ops)
  BY Zenon DEF Orderly, Fits
<1>2. n \in Seq(Ops) /\ Follows(n, ops, l)
  BY <1>1, Rest, Zenon
<1>a. /\ Len(l) \in Nat /\ m \in Nat /\ Len(n) = m + Len(l) - 1
      /\ DOMAIN l = 1..Len(l) /\ DOMAIN ops = 1..m /\ DOMAIN n = 1..Len(n)
      /\ 1 \in DOMAIN l /\ l[1] = Head(l)
  BY <1>2, Zenon DEF Follows
<1>b. \A i \in DOMAIN ops : i \in DOMAIN n /\ n[i] = ops[i]
  BY <1>2, Zenon DEF Follows
<1>c. \A i \in DOMAIN l : i # 1 => m + i - 1 \in DOMAIN n /\ n[m + i - 1] = l[i]
  BY <1>2, Zenon DEF Follows
<1>d. \A k \in DOMAIN n :
         \/ k \in DOMAIN ops /\ n[k] = ops[k]
         \/ \E i \in DOMAIN l : i # 1 /\ k = m + i - 1 /\ n[k] = l[i]
  BY <1>2, Zenon DEF Follows
<1>e. \A i, j \in DOMAIN l : Token(l[i]) /\ Token(l[j]) => i = j
  BY Zenon DEF Orderly
<1>f. \A i \in DOMAIN ops : Token(ops[i]) => Token(l[1])
  BY <1>a, Zenon DEF Fits
<1>g. \A i \in DOMAIN ops : ops[i].do # "register" /\ ~Begins(ops[i], Discovery)
  BY Zenon DEF Fits
<1> HIDE DEF m
<1>3. \A i \in DOMAIN n : n[i].do = "notify" => i = 1
  <2>1. /\ \A i \in DOMAIN l : l[i].do = "notify" => i = 1
        /\ \A i \in DOMAIN ops : ops[i].do = "notify" => i = 1
    BY Zenon DEF Orderly, Fits
  <2> QED BY <1>d, <2>1, Zenon
<1>4. \A i \in DOMAIN n : n[i].do = "update" => n[i].is # "none"
  <2>1. /\ \A i \in DOMAIN l : l[i].do = "update" => l[i].is # "none"
        /\ \A i \in DOMAIN ops : ops[i].do = "update" => ops[i].is # "none"
    BY Zenon DEF Orderly, Fits
  <2> QED BY <1>d, <2>1, Zenon
<1>5. ASSUME NEW k \in DOMAIN n, n[k].do = "register"
      PROVE  n[k].of \in L \/ n[k].of = Discovery \/ (k > 1 /\ Is(n[k - 1], "update", n[k].of))
  <2>1. PICK i \in DOMAIN l : i # 1 /\ k = m + i - 1 /\ n[k] = l[i]
    BY <1>d, <1>g, <1>5, Zenon
  <2>2. l[i].of \in K \/ l[i].of = Discovery \/ (i > 1 /\ Is(l[i - 1], "update", l[i].of))
    BY <1>5, <2>1, Zenon DEF Orderly
  <2>3. CASE i = 2 /\ Is(l[i - 1], "update", l[i].of)
    BY <1>a, <2>1, <2>3, SMT
  <2>4. CASE i # 2 /\ Is(l[i - 1], "update", l[i].of)
    <3>0. i \in 1..Len(l) /\ i # 1 /\ i # 2 /\ k = m + i - 1 /\ m \in Nat /\ Len(l) \in Nat
      BY <1>a, <2>1, <2>4, Zenon
    <3>1. i - 1 \in 1..Len(l) /\ i - 1 # 1 /\ m + (i - 1) - 1 = k - 1 /\ k > 1
      BY <3>0, Neighbours, Zenon
    <3>2. n[k - 1] = l[i - 1]
      BY <1>a, <1>c, <3>1, Zenon
    <3> QED BY <2>1, <2>4, <3>1, <3>2, Zenon
  <2> QED BY <2>1, <2>2, <2>3, <2>4, Zenon
<1>6. ASSUME NEW k \in DOMAIN n, n[k].do = "listen"
      PROVE  n[k].of = Status /\ k + 1 \in DOMAIN n /\ n[k + 1].do = "update"
  <2>1. CASE k \in DOMAIN ops /\ n[k] = ops[k]
    BY <1>b, <1>6, <2>1, Zenon DEF Fits
  <2>2. ASSUME NEW i \in DOMAIN l, i # 1, k = m + i - 1, n[k] = l[i]
        PROVE  n[k].of = Status /\ k + 1 \in DOMAIN n /\ n[k + 1].do = "update"
    <3>1. l[i].of = Status /\ i + 1 \in DOMAIN l /\ l[i + 1].do = "update"
      BY <1>6, <2>2, Zenon DEF Orderly
    <3>0. i \in 1..Len(l) /\ k = m + i - 1 /\ m \in Nat /\ Len(l) \in Nat
      BY <1>a, <2>2, Zenon
    <3>2. i + 1 # 1 /\ m + (i + 1) - 1 = k + 1
      BY <3>0, Neighbours, Zenon
    <3> QED BY <1>c, <2>2, <3>1, <3>2, Zenon
  <2> QED BY <1>d, <2>1, <2>2, Zenon
<1>7. ASSUME NEW k \in DOMAIN n, Token(n[k])
      PROVE  Status \in S \/ \E j \in 1..(k - 1) : Is(n[j], "register", Status)
  <2>1. CASE k \in DOMAIN ops /\ n[k] = ops[k]
    <3>1. Token(l[1])
      BY <1>f, <1>7, <2>1, Zenon
    <3>2. Status \in R \/ \E j \in 1..(1 - 1) : Is(l[j], "register", Status)
      BY <1>a, <3>1, Zenon DEF Orderly
    <3> QED BY <3>2, SMT
  <2>2. ASSUME NEW i \in DOMAIN l, i # 1, k = m + i - 1, n[k] = l[i], Status \notin S
        PROVE  \E j \in 1..(k - 1) : Is(n[j], "register", Status)
    <3>1. PICK j \in 1..(i - 1) : Is(l[j], "register", Status)
      BY <1>7, <2>2, Zenon DEF Orderly
    <3>2. j # 1
      BY <1>a, <2>2, <3>1, Zenon
    <3>3. j \in DOMAIN l /\ m + j - 1 \in 1..(k - 1)
      BY <1>a, <2>2, <3>1, <3>2, SMT
    <3> QED BY <1>c, <3>1, <3>2, <3>3, Zenon
  <2> QED BY <1>d, <2>1, <2>2, Zenon
<1>8. ASSUME NEW k \in DOMAIN n, NEW h \in DOMAIN n, Token(n[k]), Token(n[h])
      PROVE  k = h
  <2>1. CASE k \in DOMAIN ops /\ n[k] = ops[k] /\ h \in DOMAIN ops /\ n[h] = ops[h]
    BY <1>8, <2>1, Zenon DEF Fits
  <2>2. ASSUME NEW i \in DOMAIN l, i # 1, Token(l[i]), NEW o \in DOMAIN ops, Token(ops[o])
        PROVE  FALSE
    BY <1>a, <1>e, <1>f, <2>2, Zenon
  <2>3. ASSUME NEW i \in DOMAIN l, NEW j \in DOMAIN l, k = m + i - 1, n[k] = l[i],
               h = m + j - 1, n[h] = l[j]
        PROVE  k = h
    BY <1>e, <1>8, <2>3, Zenon
  <2> QED BY <1>d, <1>8, <2>1, <2>2, <2>3, Zenon
<1>9. ASSUME NEW k \in DOMAIN n, Begins(n[k], Discovery)
      PROVE  k = Len(n) /\ (Discovery \in S \/ \E j \in 1..(k - 1) : Is(n[j], "register", Discovery))
  <2>1. PICK i \in DOMAIN l : i # 1 /\ k = m + i - 1 /\ n[k] = l[i]
    BY <1>d, <1>g, <1>9, Zenon
  <2>2. i = Len(l) /\ (Discovery \in R \/ \E j \in 1..(i - 1) : Is(l[j], "register", Discovery))
    BY <1>9, <2>1, Zenon DEF Orderly
  <2>3. k = Len(n)
    BY <1>a, <2>1, <2>2, Zenon
  <2>4. ASSUME NEW j \in 1..(i - 1), Is(l[j], "register", Discovery), Discovery \notin S
        PROVE  \E q \in 1..(k - 1) : Is(n[q], "register", Discovery)
    <3>1. j # 1
      BY <1>a, <2>4, Zenon
    <3>2. j \in DOMAIN l /\ m + j - 1 \in 1..(k - 1)
      BY <1>a, <2>1, <3>1, SMT
    <3> QED BY <1>c, <2>4, <3>1, <3>2, Zenon
  <2> QED BY <2>2, <2>3, <2>4, Zenon
<1>10. ASSUME NEW k \in DOMAIN n, NEW h \in DOMAIN n, Is(n[k], "register", Discovery), Token(n[h])
       PROVE  k < h
  <2>1. PICK i \in DOMAIN l : i # 1 /\ k = m + i - 1 /\ n[k] = l[i]
    BY <1>d, <1>g, <1>10, Zenon DEF Is
  <2>3. CASE h \in DOMAIN ops /\ n[h] = ops[h]
    <3>1. Token(l[1])
      BY <1>f, <1>10, <2>3, Zenon
    <3>2. i < 1
      BY <1>a, <1>10, <2>1, <3>1, Zenon DEF Orderly
    <3> QED BY <1>a, <2>1, <3>2, SMT
  <2>4. ASSUME NEW j \in DOMAIN l, h = m + j - 1, n[h] = l[j]
        PROVE  k < h
    <3>1. i < j
      BY <1>10, <2>1, <2>4, Zenon DEF Orderly
    <3> QED BY <1>a, <2>1, <2>4, <3>1, SMT
  <2> QED BY <1>d, <2>3, <2>4, Zenon
<1> QED BY <1>2, <1>3, <1>4, <1>5, <1>6, <1>7, <1>8, <1>9, <1>10, Zenon DEF Orderly

\* What is to do of what was to do, and the other way round.
LEMMA HasRest ==
  ASSUME NEW n, NEW ops, NEW l, Follows(n, ops, l), NEW do, NEW p
  PROVE  /\ Has(n, do, p) => Has(l, do, p) \/ Has(ops, do, p)
         /\ Has(l, do, p) => Has(n, do, p) \/ Is(Head(l), do, p)
         /\ HasAfter(l, do, p) => HasAfter(n, do, p) \/ Is(Head(l), "await", Discovery)
<1> DEFINE m == Len(ops)
<1>a. /\ Len(l) \in Nat /\ m \in Nat
      /\ DOMAIN l = 1..Len(l)
      /\ 1 \in DOMAIN l /\ l[1] = Head(l)
  BY Zenon DEF Follows
<1>c. \A i \in DOMAIN l : i # 1 => m + i - 1 \in DOMAIN n /\ n[m + i - 1] = l[i]
  BY Zenon DEF Follows
<1>d. \A k \in DOMAIN n :
         \/ k \in DOMAIN ops /\ n[k] = ops[k]
         \/ \E i \in DOMAIN l : i # 1 /\ k = m + i - 1 /\ n[k] = l[i]
  BY Zenon DEF Follows
<1> HIDE DEF m
<1>1. Has(n, do, p) => Has(l, do, p) \/ Has(ops, do, p)
  BY <1>d, Zenon DEF Has
<1>2. Has(l, do, p) => Has(n, do, p) \/ Is(Head(l), do, p)
  BY <1>a, <1>c, Zenon DEF Has
<1>3. ASSUME HasAfter(l, do, p), ~Is(Head(l), "await", Discovery) PROVE HasAfter(n, do, p)
  <2>1. PICK i \in DOMAIN l, j \in DOMAIN l :
            i < j /\ Is(l[i], "await", Discovery) /\ Is(l[j], do, p)
    BY <1>3, Zenon DEF HasAfter
  <2>2. i # 1
    BY <1>a, <1>3, <2>1, Zenon
  <2>3. j # 1 /\ m + i - 1 < m + j - 1
    BY <1>a, <2>1, <2>2, SMT
  <2> QED BY <1>c, <2>1, <2>2, <2>3, Zenon DEF HasAfter
<1> QED BY <1>1, <1>2, <1>3, Zenon

\* A list stays orderly when more is registered and known.
LEMMA OrderlyMore ==
  ASSUME NEW l, NEW R, NEW K, NEW S, NEW L, Orderly(l, R, K), R \subseteq S, K \subseteq L
  PROVE  Orderly(l, S, L)
  BY Zenon DEF Orderly

\* The lists of the threads when t makes a call.
LEMMA Returned ==
  ASSUME todo \in [Threads -> Seq(Ops)], NEW t \in Threads, todo[t] # <<>>,
         NEW ops \in Seq(Ops), Return(t, ops)
  PROVE  /\ todo' \in [Threads -> Seq(Ops)]
         /\ \A u \in Threads : u # t => todo'[u] = todo[u]
         /\ todo'[t] = ops \o Tail(todo[t])
         /\ Follows(todo'[t], ops, todo[t])
<1>1. /\ todo' = [todo EXCEPT ![t] = ops \o Tail(todo[t])]
      /\ todo[t] \in Seq(Ops)
  BY Zenon DEF Return
<1>2. ops \o Tail(todo[t]) \in Seq(Ops) /\ Follows(ops \o Tail(todo[t]), ops, todo[t])
  BY <1>1, Rest, Zenon
<1>3. /\ todo' \in [Threads -> Seq(Ops)]
      /\ \A u \in Threads : u # t => todo'[u] = todo[u]
      /\ todo'[t] = ops \o Tail(todo[t])
  BY <1>1, <1>2, Zenon
<1> QED BY <1>2, <1>3, Zenon

\* The calls of a thread are among those it makes.
LEMMA MakesRest ==
  ASSUME NEW n, NEW ops, NEW l, Follows(n, ops, l), NEW D, Makes(l, D), Makes(ops, D)
  PROVE  Makes(n, D)
  BY Zenon DEF Makes, Follows

\* The thread t makes the call at its head, which leaves ops to do; what was registered
\* and had a state still is and has.
Made(t, ops) ==
    /\ t \in Threads /\ todo[t] # <<>>
    /\ Fits(ops, Head(todo[t]))
    /\ Return(t, ops)
    /\ Registered \subseteq Registered' /\ Known \subseteq Known'
    /\ \A p : Is(Head(todo[t]), "register", p) => p \in Registered'
    /\ \A p : Is(Head(todo[t]), "update", p) => p \in Known'
    /\ env' = env /\ main' = main /\ toStop' = toStop

\* What follows for the lists.
LEMMA MadeLists ==
  ASSUME Types, NEW t, NEW ops, Made(t, ops)
  PROVE  /\ t \in Threads /\ todo[t] # <<>> /\ ops \in Seq(Ops)
         /\ todo[t] \in Seq(Ops) /\ 1 \in DOMAIN todo[t] /\ todo[t][1] = Head(todo[t])
         /\ Head(todo[t]) \in Ops
         /\ todo' \in [Threads -> Seq(Ops)]
         /\ \A u \in Threads : u # t => todo'[u] = todo[u]
         /\ todo'[t] = ops \o Tail(todo[t])
         /\ Follows(todo'[t], ops, todo[t])
<1>1. t \in Threads /\ todo[t] # <<>> /\ ops \in Seq(Ops) /\ todo[t] \in Seq(Ops) /\ Return(t, ops)
  BY Zenon DEF Made, Fits, Types
<1>2. /\ todo' \in [Threads -> Seq(Ops)]
      /\ \A u \in Threads : u # t => todo'[u] = todo[u]
      /\ todo'[t] = ops \o Tail(todo[t])
      /\ Follows(todo'[t], ops, todo[t])
  BY <1>1, Returned, Zenon DEF Types
<1>3. 1 \in DOMAIN todo[t] /\ todo[t][1] = Head(todo[t])
  BY <1>2, Zenon DEF Follows
<1>4. Head(todo[t]) \in Ops
  BY <1>1, Tails, Zenon
<1> QED BY <1>1, <1>2, <1>3, <1>4, Zenon

\* Who makes a call.
LEMMA Who ==
  ASSUME Types, Threaded, NEW t \in Threads, NEW i \in DOMAIN todo[t]
  PROVE  /\ todo[t][i].do \in {"stop", "await", "unlisten"} => t = Main /\ main = "stop"
         /\ todo[t][i].do \in {"register", "hear", "start", "run", "listen", "reconfigure"}
               => t = Discovery \/ (t = Main /\ main = "boot")
         /\ t = Main => main \in {"boot", "stop"}
<1>1. /\ Duties /\ main \in {"boot", "up", "stop", "stopped"}
      /\ t = Bundle \/ t = Logs \/ t = Discovery \/ t = Main
      /\ todo[t] # <<>>
  <2>1. t = Bundle \/ t = Logs \/ t = Discovery \/ t = Main
    BY Zenon DEF Threads, Workers
  <2>2. todo[t] # <<>>
    BY SMT
  <2> QED BY <2>1, <2>2, Zenon DEF Types, Threaded
<1>2. t = Main => main = "boot" \/ main = "stop"
  BY <1>1, Zenon DEF Duties
<1>3. t = Bundle \/ t = Logs => todo[t][i].do \in WorkerDos
  BY <1>1, Zenon DEF Duties, Makes
<1>4. t = Discovery => todo[t][i].do \in ConfigureDos \union {"tell"}
  BY <1>1, Zenon DEF Duties, Makes
<1>5. t = Main /\ main = "boot" => todo[t][i].do \in ConfigureDos
  BY <1>1, Zenon DEF Duties, Makes
<1>6. t = Main /\ main = "stop" => todo[t][i].do \in StopDos
  BY <1>1, Zenon DEF Duties, Makes
<1>7. t = Discovery => t # Main
  BY Zenon DEF Main, Discovery
<1> DEFINE d == todo[t][i].do
<1>8. d \in {"stop", "await", "unlisten"} =>
        d \notin WorkerDos /\ d \notin ConfigureDos \union {"tell"} /\ d \notin ConfigureDos
  BY Zenon DEF WorkerDos, ConfigureDos
<1>9. d \in {"register", "hear", "start", "run", "listen", "reconfigure"} =>
        d \notin WorkerDos /\ d \notin StopDos
  BY Zenon DEF WorkerDos, StopDos
<1> QED BY <1>1, <1>2, <1>3, <1>4, <1>5, <1>6, <1>8, <1>9, Zenon

\* A call leaves all lists orderly.
LEMMA MadeOrderly ==
  ASSUME Types, Threaded, NEW t, NEW ops, Made(t, ops)
  PROVE  \A u \in Threads : Orderly(todo'[u], Registered', Known')
<1>1. /\ t \in Threads /\ todo[t] # <<>> /\ todo'[t] = ops \o Tail(todo[t])
      /\ \A u \in Threads : u # t => todo'[u] = todo[u]
  BY MadeLists, Zenon
<1>2. \A u \in Threads : Orderly(todo[u], Registered, Known)
  BY Zenon DEF Threaded
<1> DEFINE R == Registered'
           K == Known'
<1>3. /\ Registered \subseteq R /\ Known \subseteq K /\ Fits(ops, Head(todo[t]))
      /\ \A p : Is(Head(todo[t]), "register", p) => p \in R
      /\ \A p : Is(Head(todo[t]), "update", p) => p \in K
  BY Zenon DEF Made
<1> HIDE DEF R, K
<1>4. Orderly(todo'[t], R, K)
  BY <1>1, <1>2, <1>3, OrderlyRest, Zenon
<1>5. ASSUME NEW u \in Threads, u # t PROVE Orderly(todo'[u], R, K)
  BY <1>1, <1>2, <1>3, <1>5, OrderlyMore, Zenon
<1> QED BY <1>4, <1>5, Zenon DEF R, K

\* A call leaves to each thread what it is there for.
LEMMA MadeDuties ==
  ASSUME Types, Threaded, NEW t, NEW ops, Made(t, ops)
  PROVE  Duties'
<1>1. /\ t \in Threads /\ todo[t] # <<>> /\ 1 \in DOMAIN todo[t] /\ todo[t][1] = Head(todo[t])
      /\ \A u \in Threads : u # t => todo'[u] = todo[u]
      /\ Follows(todo'[t], ops, todo[t])
  BY MadeLists, Zenon
<1>2. Duties /\ main' = main
  BY Zenon DEF Threaded, Made
<1>3. /\ Makes(ops, ConfigureDos) /\ Makes(ops, ConfigureDos \union {"tell"})
      /\ \A i \in DOMAIN ops : ops[i].do # "register" /\ ~Begins(ops[i], Discovery)
  BY Zenon DEF Made, Fits, Makes
<1>4. ASSUME NEW D \in {WorkerDos, StopDos}, Makes(todo[t], D) PROVE Makes(todo'[t], D)
  <2>1. Head(todo[t]).do \in D
    BY <1>1, <1>4, Zenon DEF Makes
  <2>2. Head(todo[t]).do \notin {"register", "start", "reconfigure"} /\ "notify" \in D
    BY <2>1, Zenon DEF WorkerDos, StopDos
  <2>3. Makes(ops, D)
    BY <2>2, Zenon DEF Made, Fits, Makes
  <2> QED BY <1>1, <1>4, <2>3, MakesRest, Zenon
<1>5. ASSUME NEW D \in {ConfigureDos, ConfigureDos \union {"tell"}}, Makes(todo[t], D)
      PROVE  Makes(todo'[t], D)
  <2>1. Makes(ops, D)
    BY <1>3, Zenon
  <2> QED BY <1>1, <1>5, <2>1, MakesRest, Zenon
<1>6. /\ Bundle \in Threads /\ Logs \in Threads /\ Discovery \in Threads /\ Main \in Threads
      /\ t = Bundle \/ t = Logs \/ t = Discovery \/ t = Main
  BY <1>1, Zenon DEF Threads, Workers
<1>7. ASSUME NEW u \in Threads, NEW D \in {WorkerDos, StopDos, ConfigureDos, ConfigureDos \union {"tell"}},
             Makes(todo[u], D)
      PROVE  Makes(todo'[u], D)
  <2>1. CASE u # t
    BY <1>1, <1>7, <2>1, Zenon
  <2>2. CASE u = t /\ D \in {WorkerDos, StopDos}
    BY <1>4, <1>7, <2>2, Zenon
  <2>3. CASE u = t /\ D \in {ConfigureDos, ConfigureDos \union {"tell"}}
    BY <1>5, <1>7, <2>3, Zenon
  <2> QED BY <2>1, <2>2, <2>3, Zenon
<1>8. Makes(todo'[Bundle], WorkerDos) /\ Makes(todo'[Logs], WorkerDos)
  BY <1>2, <1>6, <1>7, Zenon DEF Duties
<1>9. Makes(todo'[Discovery], ConfigureDos \union {"tell"})
  BY <1>2, <1>6, <1>7, Zenon DEF Duties
<1>10. ASSUME NEW k \in DOMAIN todo'[Discovery],
              todo'[Discovery][k].do \in {"register", "start", "run", "listen"}
       PROVE  todo'[Discovery][k].of # Discovery
  <2>1. \A i \in DOMAIN todo[Discovery] : todo[Discovery][i].do \in {"register", "start", "run", "listen"}
            => todo[Discovery][i].of # Discovery
    BY <1>2, Zenon DEF Duties
  <2>2. CASE t # Discovery
    BY <1>1, <1>6, <1>10, <2>1, <2>2, Zenon
  <2>3. CASE t = Discovery
    <3>1. \/ k \in DOMAIN ops /\ todo'[t][k] = ops[k]
          \/ \E i \in DOMAIN todo[t] : todo'[t][k] = todo[t][i]
      BY <1>1, <1>10, <2>3, Zenon DEF Follows
    <3> QED BY <1>3, <1>10, <2>1, <2>3, <3>1, Zenon DEF Begins
  <2> QED BY <2>2, <2>3, Zenon
<1>11. /\ main' = "boot" => Makes(todo'[Main], ConfigureDos)
       /\ main' = "stop" => Makes(todo'[Main], StopDos)
  BY <1>2, <1>6, <1>7, Zenon DEF Duties
<1>12. main' \in {"up", "stopped"} => todo'[Main] = <<>>
  <2>1. main \in {"up", "stopped"} => todo[Main] = <<>> /\ t # Main
    BY <1>1, <1>2, Zenon DEF Duties
  <2> QED BY <1>1, <1>2, <1>6, <2>1, Zenon
<1> QED BY <1>8, <1>9, <1>10, <1>11, <1>12, Zenon DEF Duties

\* A call leaves the threads in order, if only a call to run or to stop discovery changes
\* whether its goroutine runs.
LEMMA MadeThreaded ==
  ASSUME Types, Threaded, NEW t, NEW ops, Made(t, ops),
         running'[Discovery] # "off" =>
            \/ running[Discovery] # "off"
            \/ Is(Head(todo[t]), "run", Discovery) \/ Is(Head(todo[t]), "stop", Discovery)
  PROVE  Threaded' /\ (main # "boot" /\ ~Is(Head(todo[t]), "stop", Discovery) =>
                          (Discovering' => Discovering))
<1>1. /\ t \in Threads /\ todo[t] # <<>> /\ 1 \in DOMAIN todo[t] /\ todo[t][1] = Head(todo[t])
      /\ todo'[t] = ops \o Tail(todo[t]) /\ ops \in Seq(Ops) /\ todo[t] \in Seq(Ops)
      /\ \A u \in Threads : u # t => todo'[u] = todo[u]
      /\ Follows(todo'[t], ops, todo[t])
  BY MadeLists, Zenon
<1>2. /\ Registered \subseteq Registered' /\ env' = env /\ main' = main
      /\ \A i \in DOMAIN ops : ops[i].do \notin {"run", "stop"} \/ ops[i].of # Discovery
  BY Zenon DEF Made, Fits, Begins, ConfigureDos
<1>3. /\ Discovering => /\ main # "boot" \/ todo[Main] = <<>>
                        /\ Discovery \in Registered
                        /\ env.discovery # "no"
      /\ \A i \in DOMAIN todo[Main] : todo[Main][i].of = Discovery =>
            /\ todo[Main][i].do \in {"run", "stop"} => env.discovery # "no"
            /\ todo[Main][i].do = "stop" => Discovery \in Registered
  BY Zenon DEF Threaded
<1>4. Discovery \in Threads /\ Main \in Threads
  BY Zenon DEF Threads, Workers
<1>5. ASSUME NEW k \in DOMAIN todo'[Main], todo'[Main][k].of = Discovery
      PROVE  /\ todo'[Main][k].do \in {"run", "stop"} => env'.discovery # "no"
             /\ todo'[Main][k].do = "stop" => Discovery \in Registered'
  <2>1. CASE t # Main
    BY <1>1, <1>2, <1>3, <1>4, <1>5, <2>1, Zenon
  <2>2. CASE t = Main
    <3>1. \/ k \in DOMAIN ops /\ todo'[t][k] = ops[k]
          \/ \E i \in DOMAIN todo[t] : todo'[t][k] = todo[t][i]
      BY <1>1, <1>5, <2>2, Zenon DEF Follows
    <3> QED BY <1>2, <1>3, <1>5, <2>2, <3>1, Zenon
  <2> QED BY <2>1, <2>2, Zenon
<1>6. CASE Is(Head(todo[t]), "run", Discovery)
  <2>1. t = Main /\ main = "boot"
    <3>1. t # Discovery
      BY <1>1, <1>6, Zenon DEF Threaded, Duties, Is
    <3> QED BY <1>1, <1>6, <3>1, Who, Zenon DEF Is
  <2>2. 1 = Len(todo[t]) /\ (Discovery \in Registered \/ \E j \in 1..(1 - 1) : TRUE)
    BY <1>1, <1>6, Zenon DEF Threaded, Orderly, Begins, Is
  <2>3. Discovery \in Registered
    BY <2>2, SMT
  <2>4. ops = <<>>
    <3>1. \A i \in DOMAIN ops : FALSE
      BY <1>6, Zenon DEF Made, Fits, Begins, Is
    <3> QED BY <1>1, <3>1, SMT
  <2>5. todo'[Main] = <<>>
    <3>1. Len(todo[t]) \in Nat /\ Len(todo'[t]) = Len(ops) + Len(todo[t]) - 1 /\ todo'[t] \in Seq(Ops)
      BY <1>1, MadeLists, Zenon DEF Follows
    <3> DEFINE n == todo'[t]
    <3>2. n \in Seq(Ops) /\ Len(n) = Len(ops) + 1 - 1
      BY <2>2, <3>1, Zenon
    <3> HIDE DEF n
    <3>3. n = <<>>
      BY <2>4, <3>2, SMT
    <3> QED BY <2>1, <3>3, Zenon DEF n
  <2>6. env.discovery # "no"
    BY <1>1, <1>3, <1>6, <2>1, Zenon DEF Is
  <2> QED BY <1>2, <1>5, <2>1, <2>3, <2>5, <2>6, MadeOrderly, MadeDuties, Zenon DEF Threaded
<1>7. CASE Is(Head(todo[t]), "stop", Discovery)
  <2>1. t = Main /\ main = "stop"
    BY <1>1, <1>7, Who, Zenon DEF Is
  <2>2. Discovery \in Registered /\ env.discovery # "no"
    BY <1>1, <1>3, <1>7, <2>1, Zenon DEF Is
  <2> QED BY <1>2, <1>5, <1>7, <2>1, <2>2, MadeOrderly, MadeDuties, Zenon DEF Threaded
<1>8. CASE ~Is(Head(todo[t]), "run", Discovery) /\ ~Is(Head(todo[t]), "stop", Discovery)
  <2>1. Discovering' => Discovering
    BY <1>1, <1>4, <1>8, Zenon DEF Discovering
  <2>2. Discovering /\ main = "boot" => t # Main
    BY <1>1, <1>3, Zenon
  <2>3. Discovering' => /\ main' # "boot" \/ todo'[Main] = <<>>
                        /\ Discovery \in Registered'
                        /\ env'.discovery # "no"
    BY <1>1, <1>2, <1>3, <1>4, <2>1, <2>2, Zenon
  <2> QED BY <1>5, <2>1, <2>3, MadeOrderly, MadeDuties, Zenon DEF Threaded
<1> QED BY <1>6, <1>7, <1>8, Zenon

\* A call begins no plugin that was not to be begun.
LEMMA MadePending ==
  ASSUME Types, NEW t, NEW ops, Made(t, ops), NEW p, Pending(p)'
  PROVE  Pending(p)
<1>1. /\ 1 \in DOMAIN todo[t] /\ todo[t][1] = Head(todo[t])
      /\ \A u \in Threads : u # t => todo'[u] = todo[u]
      /\ Follows(todo'[t], ops, todo[t])
  BY MadeLists, Zenon
<1>2. PICK k \in DOMAIN todo'[Discovery] : Begins(todo'[Discovery][k], p)
  BY Zenon DEF Pending
<1>3. CASE t # Discovery
  BY <1>1, <1>2, <1>3, Zenon DEF Pending, Threads, Workers
<1>4. CASE t = Discovery
  <2>1. \/ k \in DOMAIN ops /\ todo'[t][k] = ops[k]
        \/ \E i \in DOMAIN todo[t] : todo'[t][k] = todo[t][i]
    BY <1>1, <1>2, <1>4, Zenon DEF Follows
  <2>2. \A i \in DOMAIN ops : Begins(ops[i], p) => Begins(todo[t][1], p)
    BY <1>1, Zenon DEF Made, Fits
  <2> QED BY <1>1, <1>2, <1>4, <2>1, <2>2, Zenon DEF Pending
<1> QED BY <1>3, <1>4, Zenon

\* Discovery stays first when a call registers nothing.
LEMMA MadeFirst ==
  ASSUME Types, DiscoveryFirst, NEW t, NEW ops, Made(t, ops), plugins' = plugins
  PROVE  DiscoveryFirst'
  BY MadePending, Zenon DEF DiscoveryFirst

\* What Stop has to do is still to do after a call, or done.
LEMMA MadeHalting ==
  ASSUME Types, Threaded, Halting, NEW t, NEW ops, Made(t, ops),
         Discovering' => Discovering \/ Is(Head(todo[t]), "stop", Discovery) \/ main = "boot",
         Is(Head(todo[t]), "await", Discovery) => ~Discovering',
         \A h \in Halts : Ends(h[1], h[2]) =>
            \/ Ends(h[1], h[2])'
            \/ t = Discovery /\ Pending(h[2])
            \/ h[1] = "await" /\ Is(Head(todo[t]), "stop", h[2])
            \/ main = "boot",
         \A h \in Halts : Is(Head(todo[t]), h[1], h[2]) => Ends(h[1], h[2])'
  PROVE  Halting'
<1> DEFINE l == todo[Main]
           n == todo'[Main]
<1>0. main' = main /\ toStop' = toStop
  BY Zenon DEF Made
<1> SUFFICES ASSUME main \in {"stop", "stopped"}
             PROVE  /\ Discovering' => Has(n, "await", Discovery)
                    /\ \A i \in DOMAIN n : n[i].do = "stop" =>
                          \E j \in DOMAIN n : i < j /\ Is(n[j], "await", n[i].of)
                    /\ \A h \in Halts : h[2] \in Range(toStop) =>
                          /\ Pending(h[2])' => HasAfter(n, h[1], h[2])
                          /\ Ends(h[1], h[2])' \/ Has(n, h[1], h[2])
  BY <1>0, Zenon DEF Halting
<1>1. /\ t \in Threads /\ 1 \in DOMAIN todo[t] /\ todo[t][1] = Head(todo[t])
      /\ \A u \in Threads : u # t => todo'[u] = todo[u]
      /\ Follows(todo'[t], ops, todo[t])
  BY MadeLists, Zenon
<1>2. /\ Discovering => Has(l, "await", Discovery)
      /\ \A i \in DOMAIN l : l[i].do = "stop" =>
            \E j \in DOMAIN l : i < j /\ Is(l[j], "await", l[i].of)
      /\ \A h \in Halts : h[2] \in Range(toStop) =>
            /\ Pending(h[2]) => HasAfter(l, h[1], h[2])
            /\ Ends(h[1], h[2]) \/ Has(l, h[1], h[2])
  BY Zenon DEF Halting
<1>3. main # "boot" /\ Main \in Threads /\ Main # Discovery
  BY Zenon DEF Threads, Main, Discovery
<1>4. \A p : Pending(p)' => Pending(p)
  BY MadePending, Zenon
<1>5. \A p : Pending(p)' => Discovering'
  <2> SUFFICES ASSUME NEW p, Pending(p)' PROVE todo'[Discovery] # <<>>
    BY Zenon DEF Discovering
  <2>1. DOMAIN todo'[Discovery] # {}
    BY Zenon DEF Pending
  <2>2. DOMAIN <<>> = {}
    BY SMT
  <2> QED BY <2>1, <2>2, Zenon
<1>6. ASSUME NEW do, NEW p PROVE HasAfter(l, do, p) => Has(l, do, p)
  BY Zenon DEF Has, HasAfter
<1>7. CASE t # Main
  <2>1. n = l
    BY <1>1, <1>3, <1>7, Zenon
  <2>2. ~Is(Head(todo[t]), "stop", Discovery) /\ \A p : ~Is(Head(todo[t]), "stop", p)
    BY <1>1, <1>7, Who, Zenon DEF Is
  <2> HIDE DEF l, n
  <2>3. Discovering' => Has(n, "await", Discovery)
    BY <1>2, <1>3, <2>1, <2>2, Zenon
  <2>4. ASSUME NEW h \in Halts, h[2] \in Range(toStop)
        PROVE  /\ Pending(h[2])' => HasAfter(n, h[1], h[2])
               /\ Ends(h[1], h[2])' \/ Has(n, h[1], h[2])
    BY <1>2, <1>3, <1>4, <1>6, <2>1, <2>2, <2>4, Zenon
  <2> QED BY <1>2, <2>1, <2>3, <2>4, Zenon
<1>8. CASE t = Main
  <2>1. Follows(n, ops, l) /\ 1 \in DOMAIN l /\ l[1] = Head(l)
    BY <1>1, <1>8, Zenon
  <2>2. \A i \in DOMAIN ops : ops[i].do # "stop"
    BY Zenon DEF Made, Fits, ConfigureDos
  <2>3. Follows(n, ops, l) /\ Head(l) = Head(todo[t]) /\ t # Discovery
    BY <1>3, <1>8, <2>1, Zenon
  <2> HIDE DEF l, n
  <2>4. ASSUME NEW i \in DOMAIN l, i # 1, NEW j \in DOMAIN l, i < j,
               NEW k \in DOMAIN n, k = Len(ops) + i - 1, Is(l[j], "await", l[i].of)
        PROVE  \E q \in DOMAIN n : k < q /\ Is(n[q], "await", l[i].of)
    <3>1. /\ Len(l) \in Nat /\ Len(ops) \in Nat /\ DOMAIN l = 1..Len(l)
          /\ j # 1 => Len(ops) + j - 1 \in DOMAIN n /\ n[Len(ops) + j - 1] = l[j]
      BY <2>1, Zenon DEF Follows
    <3>2. j # 1 /\ k < Len(ops) + j - 1
      BY <2>4, <3>1, SMT
    <3> QED BY <2>4, <3>1, <3>2, Zenon
  <2>5. ASSUME NEW k \in DOMAIN n, n[k].do = "stop"
        PROVE  \E j \in DOMAIN n : k < j /\ Is(n[j], "await", n[k].of)
    <3>1. PICK i \in DOMAIN l : i # 1 /\ k = Len(ops) + i - 1 /\ n[k] = l[i]
      BY <2>1, <2>2, <2>5, Zenon DEF Follows
    <3>2. PICK j \in DOMAIN l : i < j /\ Is(l[j], "await", l[i].of)
      BY <1>2, <2>5, <3>1, Zenon
    <3> QED BY <2>4, <3>1, <3>2, Zenon
  <2>6. ASSUME NEW p, Is(Head(l), "stop", p) PROVE Has(n, "await", p)
    <3>1. PICK j \in DOMAIN l : 1 < j /\ Is(l[j], "await", p)
      BY <1>2, <2>1, <2>6, Zenon DEF Is
    <3>2. j # 1
      BY <3>1, SMT
    <3> QED BY <2>1, <3>1, <3>2, Zenon DEF Follows, Has
  <2>7. /\ Has(l, "await", Discovery) => Has(n, "await", Discovery) \/ Is(Head(l), "await", Discovery)
        /\ \A do, p : Has(l, do, p) => Has(n, do, p) \/ Is(Head(l), do, p)
        /\ \A do, p : HasAfter(l, do, p) => HasAfter(n, do, p) \/ Is(Head(l), "await", Discovery)
    BY <2>1, HasRest, Zenon
  <2>8. Discovering' => Has(n, "await", Discovery)
    BY <1>2, <1>3, <2>3, <2>6, <2>7, Zenon
  <2>9. ASSUME NEW h \in Halts, h[2] \in Range(toStop)
        PROVE  /\ Pending(h[2])' => HasAfter(n, h[1], h[2])
               /\ Ends(h[1], h[2])' \/ Has(n, h[1], h[2])
    <3>1. Pending(h[2])' => HasAfter(n, h[1], h[2])
      BY <1>2, <1>4, <1>5, <2>3, <2>7, <2>9, Zenon
    <3>a. Is(Head(l), h[1], h[2]) => Ends(h[1], h[2])'
      <4>1. Is(Head(todo[t]), h[1], h[2]) => Ends(h[1], h[2])'
        BY Zenon
      <4> QED BY <2>3, <4>1, Zenon
    <3>2. CASE Has(l, h[1], h[2])
      BY <2>7, <3>1, <3>2, <3>a, Zenon
    <3>3. CASE Ends(h[1], h[2])
      <4>1. Ends(h[1], h[2])' \/ (h[1] = "await" /\ Is(Head(todo[t]), "stop", h[2]))
        BY <1>3, <2>3, <3>3, Zenon
      <4> QED BY <2>3, <2>6, <3>1, <4>1, Zenon
    <3> QED BY <1>2, <2>9, <3>1, <3>2, <3>3, Zenon
  <2> QED BY <2>5, <2>8, <2>9, Zenon
<1> QED BY <1>7, <1>8, Zenon

\* A call leaves the status plugin's registration to whom it was left, and whoever has it
\* makes it once.
LEMMA MadeListen ==
  ASSUME Types, Threaded, ListenOnce, NEW t, NEW ops, Made(t, ops),
         Unheard => Unheard' \/ Head(todo[t]).do = "listen",
         listening = {} => listening' = {} \/ Head(todo[t]).do = "listen"
  PROVE  ListenOnce'
<1>1. /\ t \in Threads /\ 1 \in DOMAIN todo[t] /\ todo[t][1] = Head(todo[t])
      /\ \A u \in Threads : u # t => todo'[u] = todo[u]
      /\ Follows(todo'[t], ops, todo[t])
  BY MadeLists, Zenon
<1>2. /\ \A i \in DOMAIN ops : ops[i].do # "register" /\ (Token(ops[i]) => Token(todo[t][1]))
      /\ Head(todo[t]).do = "listen" => \A i \in DOMAIN ops : ~Token(ops[i])
  <2>1. \A i \in DOMAIN ops : ops[i].do # "register" /\ (Token(ops[i]) => Token(todo[t][1]))
    BY <1>1, Zenon DEF Made, Fits
  <2>2. ASSUME Head(todo[t]).do = "listen", NEW i \in DOMAIN ops PROVE FALSE
    BY <2>2, Zenon DEF Made, Fits
  <2> QED BY <2>1, <2>2, Zenon
<1>3. \A k \in DOMAIN todo'[t] :
         \/ k \in DOMAIN ops /\ todo'[t][k] = ops[k]
         \/ \E i \in DOMAIN todo[t] : i # 1 /\ todo'[t][k] = todo[t][i]
  BY <1>1, Zenon DEF Follows
<1>4. ASSUME NEW u \in Threads, HasToken(u)' PROVE HasToken(u)
  <2>1. CASE u # t
    BY <1>1, <1>4, <2>1, Zenon DEF HasToken
  <2>2. CASE u = t
    <3>1. PICK k \in DOMAIN todo'[t] : Token(todo'[t][k])
      BY <1>4, <2>2, Zenon DEF HasToken
    <3> QED BY <1>1, <1>2, <1>3, <2>2, <3>1, Zenon DEF HasToken
  <2> QED BY <2>1, <2>2, Zenon
<1>5. ASSUME Head(todo[t]).do = "listen"
      PROVE  Status \in Registered /\ \A u \in Threads : ~HasToken(u)'
  <2>1. Token(todo[t][1])
    BY <1>1, <1>5, Zenon DEF Token
  <2>2. Status \in Registered \/ \E j \in 1..(1 - 1) : Is(todo[t][j], "register", Status)
    BY <1>1, <2>1, Zenon DEF Threaded, Orderly
  <2>3. Status \in Registered
    BY <2>2, SMT
  <2>4. \A i \in DOMAIN todo[t] : Token(todo[t][i]) => i = 1
    BY <1>1, <2>1, Zenon DEF Threaded, Orderly
  <2>5. ASSUME NEW u \in Threads, HasToken(u)' PROVE FALSE
    <3>1. u = t
      <4>1. HasToken(u) /\ HasToken(t)
        BY <1>1, <1>4, <2>1, <2>5, Zenon DEF HasToken
      <4> QED BY <1>1, <4>1, Zenon DEF ListenOnce
    <3>2. PICK k \in DOMAIN todo'[t] : Token(todo'[t][k])
      BY <2>5, <3>1, Zenon DEF HasToken
    <3> QED BY <1>2, <1>3, <1>5, <2>4, <3>2, Zenon
  <2> QED BY <2>3, <2>5, Zenon
<1>6. \A u, v \in Threads : HasToken(u)' /\ HasToken(v)' => u = v
  BY <1>4, Zenon DEF ListenOnce
<1>7. ASSUME Status \notin Registered' \/ \E u \in Threads : HasToken(u)' PROVE Unheard'
  <2>1. Head(todo[t]).do # "listen"
    BY <1>5, <1>7, Zenon DEF Made
  <2>2. Status \notin Registered \/ \E u \in Threads : HasToken(u)
    BY <1>4, <1>7, Zenon DEF Made
  <2> QED BY <2>1, <2>2, Zenon DEF ListenOnce
<1>8. ASSUME Has(todo'[Main], "register", Discovery) PROVE listening' = {}
  <2>0. Main \in Threads /\ Main # Discovery
    BY Zenon DEF Threads, Main, Discovery
  <2>1. PICK k \in DOMAIN todo'[Main] : Is(todo'[Main][k], "register", Discovery)
    BY <1>8, Zenon DEF Has
  <2>2. PICK i \in DOMAIN todo[Main] : Is(todo[Main][i], "register", Discovery) /\ (t = Main => i # 1)
    <3>1. CASE t # Main
      BY <1>1, <2>0, <2>1, <3>1, Zenon
    <3>2. CASE t = Main
      <4>1. todo'[t][k].do = "register" /\ k \in DOMAIN todo'[t]
        BY <2>1, <3>2, Zenon DEF Is
      <4>2. PICK i \in DOMAIN todo[t] : i # 1 /\ todo'[t][k] = todo[t][i]
        BY <1>2, <1>3, <4>1, Zenon
      <4> QED BY <2>1, <3>2, <4>2, Zenon
    <3> QED BY <3>1, <3>2, Zenon
  <2>3. listening = {}
    BY <2>2, Zenon DEF ListenOnce, Has
  <2>4. ASSUME Head(todo[t]).do = "listen" PROVE FALSE
    <3>1. main = "boot"
      BY <2>0, <2>2, Who, Zenon DEF Is
    <3>2. t = Discovery \/ t = Main
      BY <1>1, <2>4, Who, Zenon
    <3>3. CASE t = Main
      <4>1. i < 1
        BY <1>1, <2>2, <2>4, <3>3, Zenon DEF Threaded, Orderly, Token
      <4>2. i \in 1..Len(todo[t]) /\ Len(todo[t]) \in Nat
        BY <1>1, <3>3, Zenon DEF Follows
      <4> QED BY <4>1, <4>2, SMT
    <3>4. CASE t = Discovery
      <4>1. todo[Main] = <<>>
        BY <3>1, <3>4, Zenon DEF Threaded, Discovering, Made
      <4>2. DOMAIN <<>> = {}
        BY SMT
      <4> QED BY <2>2, <4>1, <4>2, Zenon
    <3> QED BY <3>2, <3>3, <3>4, Zenon
  <2> QED BY <2>3, <2>4, Zenon
<1> QED BY <1>6, <1>7, <1>8, Zenon DEF ListenOnce

\* The head of a list that is not empty.
LEMMA FirstCall ==
  ASSUME NEW A, NEW l \in Seq(A), l # <<>>
  PROVE  1 \in DOMAIN l /\ Head(l) = l[1] /\ Head(l) \in A
<1>1. Len(l) \in Nat \ {0} /\ DOMAIN l = 1..Len(l)
  BY Elements, Zenon
<1>2. 1 \in 1..Len(l) /\ Head(l) = l[1]
  BY <1>1, SMT
<1> QED BY <1>1, <1>2, Tails, Zenon

\* After a call that leaves no notification to make, its thread does not notify.
LEMMA MadeSilent ==
  ASSUME Types, Threaded, NEW t, NEW ops, Made(t, ops), \A i \in DOMAIN ops : ops[i].do # "notify"
  PROVE  ~Calls(t, "notify")'
<1>1. /\ t \in Threads /\ todo'[t] \in Seq(Ops) /\ Follows(todo'[t], ops, todo[t])
      /\ 1 \in DOMAIN todo[t]
  BY MadeLists, Zenon
<1> SUFFICES ASSUME todo'[t] # <<>>, Head(todo'[t]).do = "notify" PROVE FALSE
  BY Zenon DEF Calls
<1>2. 1 \in DOMAIN todo'[t] /\ todo'[t][1].do = "notify"
  BY <1>1, FirstCall, Zenon
<1>3. PICK i \in DOMAIN todo[t] : i # 1 /\ todo'[t][1] = todo[t][i]
  BY <1>1, <1>2, Zenon DEF Follows
<1> QED BY <1>1, <1>2, <1>3, Zenon DEF Threaded, Orderly

\* After a call that updates no status, or tells nobody, its thread does not notify.
LEMMA MadeQuiet ==
  ASSUME Types, Threaded, NEW t, NEW ops, Made(t, ops), Head(todo[t]).do # "update" \/ ops = <<>>
  PROVE  ~Calls(t, "notify")'
<1>1. \A i \in DOMAIN ops : ops[i].do # "notify"
  <2>1. CASE ops = <<>>
    BY <2>1, SMT
  <2>2. CASE Head(todo[t]).do # "update"
    BY <2>2, Zenon DEF Made, Fits
  <2> QED BY <2>1, <2>2, Zenon
<1> QED BY <1>1, MadeSilent, Zenon

\* What the status plugin has heard and will hear of is not changed by other calls.
LEMMA MadeTold ==
  ASSUME Types, Threaded, Told, NEW t, NEW ops, Made(t, ops),
         Head(todo[t]).do \notin {"update", "notify"},
         listening' # {} => listening # {} /\ state' = state,
         raced' = raced, channel' = channel, last' = last
  PROVE  Told'
<1>1. /\ t \in Threads /\ \A u \in Threads : u # t => todo'[u] = todo[u]
  BY MadeLists, Zenon
<1>2. ~Calls(t, "notify")' /\ ~Calls(t, "notify") /\ ~Calls(t, "update")
  BY MadeQuiet, Zenon DEF Calls
<1>3. \A u \in Threads \ {t}, do \in {"notify", "update"} : Calls(u, do)' <=> Calls(u, do)
  BY <1>1, Zenon DEF Calls
<1>4. NoNotify' <=> NoNotify
  BY <1>1, <1>2, <1>3, Zenon DEF NoNotify
<1> SUFFICES ASSUME listening' # {}, raced' = "no"
             PROVE  /\ \A u \in Threads : Calls(u, "notify")' => Head(todo'[u]).all = state
                    /\ NoNotify' /\ channel # Nothing => channel = state
                    /\ NoNotify' /\ channel = Nothing =>
                          last = state \/ \E u \in Threads : Calls(u, "update")'
  BY Zenon DEF Told, Nothing
<1>5. /\ \A u \in Threads : Calls(u, "notify") => Head(todo[u]).all = state
      /\ NoNotify /\ channel # Nothing => channel = state
      /\ NoNotify /\ channel = Nothing => last = state \/ \E u \in Threads : Calls(u, "update")
  BY Zenon DEF Told
<1>6. \A u \in Threads : Calls(u, "notify")' => Head(todo'[u]).all = state
  BY <1>1, <1>2, <1>3, <1>5, Zenon
<1>7. (\E u \in Threads : Calls(u, "update")) => \E u \in Threads : Calls(u, "update")'
  BY <1>2, <1>3, Zenon
<1> QED BY <1>4, <1>5, <1>6, <1>7, Zenon

-----------------------------------------------------------------------------
(* The calls.                                                              *)

\* The two parts of a call that stops a plugin.
LEMMA HaltParts ==
  ASSUME NEW h \in Halts
  PROVE  h[1] \in {"await", "unlisten"} /\ h[2] \in Names /\ (h[1] = "unlisten" => h[2] = Status)
<1>1. CASE h = <<"unlisten", Status>>
  BY <1>1, SMT DEF Names
<1>2. ASSUME NEW p \in Names, h = <<"await", p>>
      PROVE  h[1] = "await" /\ h[2] \in Names
  BY <1>2, SMT
<1> QED BY <1>1, <1>2, Zenon DEF Halts

\* What has ended stays ended if the goroutine and the listener do.
LEMMA EndsKept ==
  ASSUME Types, NEW t, NEW ops, Made(t, ops), NEW h \in Halts, Ends(h[1], h[2]),
         h[1] = "unlisten" /\ listening = {} => listening' = {},
         h[1] = "await" /\ h[2] = Status /\ loop = "gone" => loop' = "gone",
         h[1] = "await" /\ h[2] # Status /\ running[h[2]] = "off" => running'[h[2]] = "off"
  PROVE  Ends(h[1], h[2])'
<1>1. /\ todo[t] # <<>>
      /\ \A u \in Threads : u # t => todo'[u] = todo[u]
  BY MadeLists, Zenon
<1>2. (h[2] = Status \/ h[2] \in Threads) /\ h[1] \in {"await", "unlisten"}
  BY HaltParts, Zenon DEF Names, Threads
<1>3. CASE h[1] = "unlisten"
  BY <1>3, Zenon DEF Ends
<1>4. CASE h[1] = "await" /\ h[2] = Status
  BY <1>4, Zenon DEF Ends
<1>5. CASE h[1] = "await" /\ h[2] # Status
  <2>1. running[h[2]] = "off" /\ todo[h[2]] = <<>>
    BY <1>5, Zenon DEF Ends
  <2>2. running'[h[2]] = "off" /\ todo'[h[2]] = <<>>
    BY <1>1, <1>2, <1>5, <2>1, Zenon
  <2> QED BY <1>5, <2>2, Zenon DEF Ends
<1> QED BY <1>2, <1>3, <1>4, <1>5, Zenon

\* A call that changes no status, no registration, no goroutine and no listener.
LEMMA PlainKeeps ==
  ASSUME IInv, NEW t \in Threads, todo[t] # <<>>, NEW ops, Fits(ops, Head(todo[t])), Return(t, ops),
         Head(todo[t]).do \in {"hear", "start", "reconfigure", "tell"},
         UNCHANGED <<env, plugins, state, listening, running, channel, last, main, toStop, raced>>,
         loop = "gone" => loop' = "gone"
  PROVE  IInv'
<1> DEFINE d == Head(todo[t]).do
<1>1. /\ env' = env /\ plugins' = plugins /\ state' = state /\ listening' = listening
      /\ running' = running /\ channel' = channel /\ last' = last /\ main' = main
      /\ toStop' = toStop /\ raced' = raced
      /\ Registered' = Registered /\ Known' = Known
  BY Zenon DEF Registered, Known
<1>2. d \notin {"register", "update", "run", "stop", "await", "unlisten", "listen", "notify"}
  BY Zenon
<1>3. Made(t, ops)
  BY <1>1, <1>2, Zenon DEF Made, Is
<1>4. Types /\ Threaded /\ DiscoveryFirst /\ Halting /\ ListenOnce /\ Told
  BY Zenon DEF IInv
<1>5. Types'
  BY <1>1, <1>3, <1>4, MadeLists, Zenon DEF Types
<1>6. Threaded'
  BY <1>1, <1>3, <1>4, MadeThreaded, Zenon
<1>7. DiscoveryFirst'
  BY <1>1, <1>3, <1>4, MadeFirst, Zenon
<1>8. Halting'
  <2>1. Discovering' => Discovering \/ main = "boot"
    BY <1>1, <1>2, <1>3, <1>4, MadeThreaded, Zenon DEF Is
  <2>2. \A h \in Halts : Ends(h[1], h[2]) => Ends(h[1], h[2])'
    BY <1>1, <1>3, <1>4, EndsKept, Zenon
  <2>3. \A h \in Halts : ~Is(Head(todo[t]), h[1], h[2])
    BY <1>2, HaltParts, Zenon DEF Is
  <2>4. ~Is(Head(todo[t]), "await", Discovery)
    BY <1>2, Zenon DEF Is
  <2> QED BY <1>3, <1>4, <2>1, <2>2, <2>3, <2>4, MadeHalting, Zenon
<1>9. ListenOnce'
  <2>1. NoNotify => NoNotify'
    <3>1. ~Calls(t, "notify")' /\ \A u \in Threads : u # t => todo'[u] = todo[u]
      BY <1>2, <1>3, <1>4, MadeQuiet, MadeLists, Zenon
    <3> QED BY <3>1, Zenon DEF NoNotify, Calls
  <2>2. Unheard => Unheard'
    BY <1>1, <2>1, Zenon DEF Unheard, Nothing
  <2> QED BY <1>1, <1>3, <1>4, <2>2, MadeListen, Zenon
<1>10. Told'
  BY <1>1, <1>2, <1>3, <1>4, MadeTold, Zenon
<1> QED BY <1>5, <1>6, <1>7, <1>8, <1>9, <1>10, Zenon DEF IInv

\* A call that leaves nothing to do of it, or one call.
LEMMA FitsShort ==
  ASSUME NEW h, NEW op \in Ops
  PROVE  /\ Fits(<<>>, h)
         /\ \/ op.do = "notify" /\ h.do = "update"
            \/ op.do = "hear" /\ h.do = "register"
            \/ op.do = "update" /\ op.is # "none" /\ h.do = "reconfigure"
            => Fits(<<op>>, h)
<1>1. <<>> \in Seq(Ops) /\ DOMAIN <<>> = {}
  BY SMT
<1>2. <<op>> \in Seq(Ops) /\ <<op>>[1] = op /\ \A i \in DOMAIN <<op>> : i = 1
  BY SMT
<1>3. Fits(<<>>, h)
  BY <1>1, Zenon DEF Fits
<1>4. ASSUME NEW l, l \in Seq(Ops), l[1] = op, \A i \in DOMAIN l : i = 1,
             \/ op.do = "notify" /\ h.do = "update"
             \/ op.do = "hear" /\ h.do = "register"
             \/ op.do = "update" /\ op.is # "none" /\ h.do = "reconfigure"
      PROVE  Fits(l, h)
  <2>1. /\ op.do \in ConfigureDos \ {"register"} /\ op.do # "listen"
        /\ op.do = "notify" => h.do = "update"
        /\ op.do # "notify" => h.do \in {"register", "start", "reconfigure"}
        /\ op.do = "update" => op.is # "none"
        /\ ~Token(op) /\ \A p : ~Begins(op, p)
    BY <1>4, Zenon DEF ConfigureDos, Token, Begins, Is
  <2> QED BY <1>4, <2>1, Zenon DEF Fits
<1> QED BY <1>2, <1>3, <1>4, Zenon

\* A call of Op is one.
LEMMA OneOp ==
  ASSUME NEW do \in Dos, NEW of \in Names, NEW is \in States, NEW all \in [Names -> States]
  PROVE  /\ Op(do, of, is, all) = <<[do |-> do, of |-> of, is |-> is, all |-> all]>>
         /\ [do |-> do, of |-> of, is |-> is, all |-> all] \in Ops
  BY Zenon DEF Op, Ops

\* The call a thread makes.
LEMMA CallHead ==
  ASSUME Types, NEW t \in Threads, NEW do, Calls(t, do)
  PROVE  /\ todo[t] # <<>> /\ Head(todo[t]) \in Ops /\ Head(todo[t]).do = do
         /\ Arg(t) = Head(todo[t]).of /\ Arg(t) \in Names
         /\ 1 \in DOMAIN todo[t] /\ todo[t][1] = Head(todo[t])
<1>1. todo[t] # <<>> /\ todo[t] \in Seq(Ops) /\ Head(todo[t]).do = do
  BY Zenon DEF Types, Calls
<1>2. 1 \in DOMAIN todo[t] /\ Head(todo[t]) = todo[t][1] /\ Head(todo[t]) \in Ops
  BY <1>1, FirstCall, Zenon
<1>3. Head(todo[t]).of \in Names
  BY <1>2, SMT DEF Ops
<1> QED BY <1>1, <1>2, <1>3, Zenon DEF Arg

\* The status of no plugin.
LEMMA NothingType == Nothing \in [Names -> States]
  BY Zenon DEF Nothing, States

\* The bundle plugin takes the status plugin as a listener.
LEMMA HearKeeps ==
  ASSUME IInv, NEW t \in Threads, Hear(t)
  PROVE  IInv'
<1>1. Types /\ Calls(t, "hear") /\ Return(t, <<>>)
  BY Zenon DEF Hear, IInv
<1>2. todo[t] # <<>> /\ Head(todo[t]) \in Ops /\ Head(todo[t]).do = "hear"
  BY <1>1, CallHead, Zenon
<1>3. Fits(<<>>, Head(todo[t]))
  BY <1>2, FitsShort, Zenon
<1>4. /\ UNCHANGED <<env, plugins, state, listening, running, channel, last, main, toStop, raced>>
      /\ loop' = loop
  BY Zenon DEF Hear
<1> QED BY <1>1, <1>2, <1>3, <1>4, PlainKeeps, Zenon

\* A report to the status plugin.
LEMMA TellKeeps ==
  ASSUME IInv, NEW t \in Threads, Tell(t)
  PROVE  IInv'
<1>1. Types /\ Calls(t, "tell") /\ Return(t, <<>>)
  BY Zenon DEF Tell, IInv
<1>2. todo[t] # <<>> /\ Head(todo[t]) \in Ops /\ Head(todo[t]).do = "tell"
  BY <1>1, CallHead, Zenon
<1>3. Fits(<<>>, Head(todo[t]))
  BY <1>2, FitsShort, Zenon
<1>4. /\ UNCHANGED <<env, plugins, state, listening, running, channel, last, main, toStop, raced>>
      /\ loop = "gone" => loop' = "gone"
  BY Zenon DEF Tell
<1> QED BY <1>1, <1>2, <1>3, <1>4, PlainKeeps, Zenon

\* A plugin takes a new configuration.
LEMMA ReconfigureKeeps ==
  ASSUME IInv, NEW t \in Threads, Reconfigure(t)
  PROVE  IInv'
<1>1. /\ Types /\ Calls(t, "reconfigure")
      /\ Return(t, <<>>) \/ Return(t, UpdateTo(Bundle, "NotReady"))
  BY Zenon DEF Reconfigure, IInv
<1>2. todo[t] # <<>> /\ Head(todo[t]) \in Ops /\ Head(todo[t]).do = "reconfigure"
  BY <1>1, CallHead, Zenon
<1> DEFINE op == [do |-> "update", of |-> Bundle, is |-> "NotReady", all |-> Nothing]
<1>3. op \in Ops /\ UpdateTo(Bundle, "NotReady") = <<op>> /\ op.do = "update" /\ op.is = "NotReady"
  <2>1. "update" \in Dos /\ Bundle \in Names /\ "NotReady" \in States
    BY Zenon DEF Dos, Names, Workers, States
  <2>2. op \in Ops /\ UpdateTo(Bundle, "NotReady") = <<op>>
    BY <2>1, NothingType, OneOp, Zenon DEF UpdateTo
  <2> QED BY <2>2, Zenon
<1> HIDE DEF op
<1>4. Fits(<<>>, Head(todo[t])) /\ Fits(<<op>>, Head(todo[t]))
  BY <1>2, <1>3, FitsShort, Zenon
<1>5. /\ UNCHANGED <<env, plugins, state, listening, running, channel, last, main, toStop, raced>>
      /\ loop' = loop
  BY Zenon DEF Reconfigure
<1>6. Head(todo[t]).do \in {"hear", "start", "reconfigure", "tell"} /\ (loop = "gone" => loop' = "gone")
  BY <1>2, <1>5, Zenon
<1>7. CASE Return(t, <<>>)
  BY <1>2, <1>4, <1>5, <1>6, <1>7, PlainKeeps, Zenon
<1>8. CASE Return(t, <<op>>)
  BY <1>2, <1>4, <1>5, <1>6, <1>8, PlainKeeps, Zenon
<1> QED BY <1>1, <1>3, <1>7, <1>8, Zenon

\* What the Start of a plugin other than discovery does is of the plugin's own.
LEMMA FitsStart ==
  ASSUME NEW p \in Configurable, NEW h, Is(h, "start", p), NEW ops \in Seq(Ops),
         \A i \in DOMAIN ops :
            \/ Is(ops[i], "run", p)
            \/ ops[i].do = "update" /\ ops[i].is = "OK"
            \/ /\ p = Status /\ Is(ops[i], "listen", Status)
               /\ i = 2 /\ 3 \in DOMAIN ops /\ ops[3].do = "update"
  PROVE  Fits(ops, h)
<1>1. p # Discovery /\ Begins(h, p) /\ h.do = "start" /\ (p = Status => Token(h))
  BY Zenon DEF Configurable, Discovery, Bundle, Logs, Status, Begins, Is, Token
<1>2. 2 + 1 = 3
  BY SMT
<1>3. ASSUME NEW i \in DOMAIN ops
      PROVE  /\ ops[i].do \in ConfigureDos \ {"register"} /\ ops[i].do # "notify"
             /\ ops[i].do = "update" => ops[i].is # "none"
             /\ ops[i].do = "listen" =>
                   ops[i].of = Status /\ i + 1 \in DOMAIN ops /\ ops[i + 1].do = "update"
             /\ Token(ops[i]) => Token(h) /\ i = 2
             /\ ~Begins(ops[i], Discovery)
             /\ \A q : Begins(ops[i], q) => Begins(h, q)
  <2>1. CASE Is(ops[i], "run", p)
    BY <1>1, <2>1, Zenon DEF Is, ConfigureDos, Token, Begins
  <2>2. CASE ops[i].do = "update" /\ ops[i].is = "OK"
    BY <1>1, <2>2, Zenon DEF Is, ConfigureDos, Token, Begins
  <2>3. CASE /\ p = Status /\ Is(ops[i], "listen", Status)
             /\ i = 2 /\ 3 \in DOMAIN ops /\ ops[3].do = "update"
    BY <1>1, <1>2, <2>3, Zenon DEF Is, ConfigureDos, Token, Begins
  <2> QED BY <2>1, <2>2, <2>3, Zenon
<1> QED BY <1>1, <1>3, Zenon DEF Fits

\* l is x and then y.
IsJoin(l, x, y) ==
    /\ Len(l) = Len(x) + Len(y) /\ DOMAIN l = 1..(Len(x) + Len(y))
    /\ Len(x) \in Nat /\ Len(y) \in Nat /\ DOMAIN x = 1..Len(x) /\ DOMAIN y = 1..Len(y)
    /\ \A i \in DOMAIN x : i \in DOMAIN l /\ l[i] = x[i]
    /\ \A i \in DOMAIN y : Len(x) + i \in DOMAIN l /\ l[Len(x) + i] = y[i]
    /\ \A k \in DOMAIN l : \/ k \in DOMAIN x /\ l[k] = x[k]
                           \/ \E i \in DOMAIN y : k = Len(x) + i /\ l[k] = y[i]

\* One list of calls after another.
LEMMA Joined ==
  ASSUME NEW A, NEW x \in Seq(A), NEW y \in Seq(A)
  PROVE  x \o y \in Seq(A) /\ IsJoin(x \o y, x, y)
<1> DEFINE l == x \o y
           m == Len(x)
           n == Len(y)
<1>1. /\ l \in Seq(A) /\ Len(l) = m + n
      /\ \A i \in 1..(m + n) : l[i] = IF i <= m THEN x[i] ELSE y[i - m]
  BY Concats, Zenon
<1> HIDE DEF l
<1>2. m \in Nat /\ n \in Nat /\ DOMAIN x = 1..m /\ DOMAIN y = 1..n /\ DOMAIN l = 1..(m + n)
  BY <1>1, Elements, Zenon
<1> HIDE DEF m, n
<1>3. \A i \in 1..m : i \in 1..(m + n) /\ l[i] = x[i]
  BY <1>1, <1>2, SMT
<1>4. \A i \in 1..n : m + i \in 1..(m + n) /\ l[m + i] = y[i]
  <2> SUFFICES ASSUME NEW i \in 1..n PROVE m + i \in 1..(m + n) /\ l[m + i] = y[i]
    OBVIOUS
  <2>1. m + i \in 1..(m + n) /\ ~(m + i <= m) /\ (m + i) - m = i
    BY <1>2, SMT
  <2> QED BY <1>1, <2>1, Zenon
<1>5. \A k \in 1..(m + n) : \/ k \in 1..m /\ l[k] = x[k]
                            \/ \E i \in 1..n : k = m + i /\ l[k] = y[i]
  <2> SUFFICES ASSUME NEW k \in 1..(m + n), k \notin 1..m
               PROVE  \E i \in 1..n : k = m + i /\ l[k] = y[i]
    BY <1>3, Zenon
  <2>1. k - m \in 1..n /\ k = m + (k - m)
    BY <1>2, SMT
  <2>2. l[k] = y[k - m]
    BY <1>4, <2>1, Zenon
  <2> QED BY <2>1, <2>2, Zenon
<1>6. IsJoin(l, x, y)
  BY <1>1, <1>2, <1>3, <1>4, <1>5, Zenon DEF IsJoin, m, n
<1> QED BY <1>1, <1>6, Zenon DEF l

\* One call.
LEMMA One ==
  ASSUME NEW A, NEW a \in A
  PROVE  <<a>> \in Seq(A) /\ Len(<<a>>) = 1 /\ DOMAIN <<a>> = {1} /\ <<a>>[1] = a
  BY SMT

IsTwo(l, A, a, b) == l \in Seq(A) /\ Len(l) = 2 /\ DOMAIN l = {1, 2} /\ l[1] = a /\ l[2] = b
IsThree(l, A, a, b, c) ==
    l \in Seq(A) /\ Len(l) = 3 /\ DOMAIN l = {1, 2, 3} /\ l[1] = a /\ l[2] = b /\ l[3] = c

\* Two calls one after the other.
LEMMA Two ==
  ASSUME NEW A, NEW a \in A, NEW b \in A
  PROVE  IsTwo(<<a>> \o <<b>>, A, a, b)
<1> DEFINE x == <<a>>
           y == <<b>>
           l == x \o y
<1>1. /\ x \in Seq(A) /\ Len(x) = 1 /\ DOMAIN x = {1} /\ x[1] = a
      /\ y \in Seq(A) /\ Len(y) = 1 /\ DOMAIN y = {1} /\ y[1] = b
  BY One, Zenon
<1> HIDE DEF x, y
<1>2. l \in Seq(A) /\ IsJoin(l, x, y)
  BY <1>1, Joined, Zenon
<1> HIDE DEF l
<1>3. 1 + 1 = 2 /\ 1..2 = {1, 2}
  BY SMT
<1>4. Len(l) = 2 /\ DOMAIN l = {1, 2} /\ l[1] = a /\ l[2] = b
  BY <1>1, <1>2, <1>3, Zenon DEF IsJoin
<1> QED BY <1>2, <1>4, Zenon DEF IsTwo, l, x, y

\* Three calls one after the other.
LEMMA Three ==
  ASSUME NEW A, NEW a \in A, NEW b \in A, NEW c \in A
  PROVE  IsThree(<<a>> \o <<b>> \o <<c>>, A, a, b, c)
<1> DEFINE x == <<a>> \o <<b>>
           y == <<c>>
           l == x \o y
<1>1. y \in Seq(A) /\ Len(y) = 1 /\ DOMAIN y = {1} /\ y[1] = c
  BY One, Zenon
<1>2. IsTwo(x, A, a, b)
  BY Two, Zenon
<1> HIDE DEF x, y
<1>3. x \in Seq(A) /\ Len(x) = 2 /\ DOMAIN x = {1, 2} /\ x[1] = a /\ x[2] = b
  BY <1>2, Zenon DEF IsTwo
<1>4. l \in Seq(A) /\ IsJoin(l, x, y)
  BY <1>1, <1>3, Joined, Zenon
<1> HIDE DEF l
<1>5. 2 + 1 = 3 /\ 1..3 = {1, 2, 3}
  BY SMT
<1>6. Len(l) = 3 /\ DOMAIN l = {1, 2, 3} /\ l[3] = c
  <2>1. Len(l) = Len(x) + Len(y) /\ DOMAIN l = 1..(Len(x) + Len(y))
    BY <1>4, Zenon DEF IsJoin
  <2>2. l[Len(x) + 1] = y[1]
    BY <1>1, <1>4, Zenon DEF IsJoin
  <2> QED BY <1>1, <1>3, <1>5, <2>1, <2>2, Zenon
<1>7. l[1] = a /\ l[2] = b
  BY <1>3, <1>4, Zenon DEF IsJoin
<1> QED BY <1>4, <1>6, <1>7, Zenon DEF IsThree, l, x, y

\* The Start and the Stop of each plugin.
LEMMA OfPlugin ==
  /\ Starts[Bundle] = BundleStart /\ Starts[Logs] = LogsStart
  /\ Starts[Status] = StatusStart /\ Starts[Discovery] = DiscoveryStart
  /\ StopOps(Bundle) = BundleStop /\ StopOps(Logs) = LogsStop
  /\ StopOps(Status) = StatusStop /\ StopOps(Discovery) = DiscoveryStop
<1>1. /\ StopOps(Bundle) = BundleStop /\ StopOps(Logs) = LogsStop
      /\ StopOps(Status) = StatusStop /\ StopOps(Discovery) = DiscoveryStop
  BY SMT DEF StopOps, Bundle, Logs, Status, Discovery
<1>2. Bundle \in Names /\ Logs \in Names /\ Status \in Names /\ Discovery \in Names
  BY Zenon DEF Names, Workers
<1>3. /\ Starts[Bundle] = BundleStart /\ Starts[Logs] = LogsStart
      /\ Starts[Status] = StatusStart /\ Starts[Discovery] = DiscoveryStart
  BY <1>2, SMT DEF Starts, Bundle, Logs, Status, Discovery
<1> QED BY <1>1, <1>3, Zenon

\* The Start of a plugin other than discovery leaves calls that fit.
LEMMA StartsFit ==
  ASSUME NEW h, h.do = "start", h.of \in Configurable, NEW ops \in Starts[h.of]
  PROVE  Fits(ops, h)
<1> DEFINE U(p) == [do |-> "update", of |-> p, is |-> "OK", all |-> Nothing]
           R(p) == [do |-> "run", of |-> p, is |-> "none", all |-> Nothing]
           l == [do |-> "listen", of |-> Status, is |-> "none", all |-> Nothing]
<1>1. ASSUME NEW p \in Names
      PROVE  /\ U(p) \in Ops /\ UpdateTo(p, "OK") = <<U(p)>> /\ U(p).do = "update" /\ U(p).is = "OK"
             /\ R(p) \in Ops /\ Call("run", p) = <<R(p)>> /\ Is(R(p), "run", p)
  <2>1. "update" \in Dos /\ "run" \in Dos /\ "OK" \in States /\ "none" \in States
    BY Zenon DEF Dos, States
  <2>2. U(p) \in Ops /\ UpdateTo(p, "OK") = <<U(p)>>
    BY <2>1, NothingType, OneOp, Zenon DEF UpdateTo
  <2>3. R(p) \in Ops /\ Call("run", p) = <<R(p)>>
    BY <2>1, NothingType, OneOp, Zenon DEF Call
  <2> QED BY <2>2, <2>3, Zenon DEF Is
<1>2. l \in Ops /\ Call("listen", Status) = <<l>> /\ Is(l, "listen", Status)
  <2>1. "listen" \in Dos /\ "none" \in States /\ Status \in Names
    BY Zenon DEF Dos, States, Names
  <2>2. l \in Ops /\ Call("listen", Status) = <<l>>
    BY <2>1, NothingType, OneOp, Zenon DEF Call
  <2> QED BY <2>2, Zenon DEF Is
<1>3. /\ Bundle \in Names /\ Logs \in Names /\ Status \in Names
      /\ h.of = Bundle \/ h.of = Logs \/ h.of = Status
      /\ Bundle # Logs /\ Bundle # Status /\ Logs # Status
  BY Zenon DEF Names, Workers, Configurable, Bundle, Logs, Status
<1>4. Is(h, "start", h.of)
  BY Zenon DEF Is
<1> DEFINE u == U(h.of)
           r == R(h.of)
<1>5. /\ u \in Ops /\ UpdateTo(h.of, "OK") = <<u>> /\ u.do = "update" /\ u.is = "OK"
      /\ r \in Ops /\ Call("run", h.of) = <<r>> /\ Is(r, "run", h.of)
  BY <1>1, <1>3, Zenon
<1> HIDE DEF U, R, u, r, l
<1>6. CASE h.of = Bundle
  <2>1. ops = <<r>> \/ ops = <<u>> \o <<r>>
    <3>1. ops \in BundleStart
      BY <1>6, OfPlugin, Zenon
    <3> QED BY <1>5, <1>6, <3>1, Zenon DEF BundleStart
  <2>2. ops \in Seq(Ops) /\ \A i \in DOMAIN ops : ops[i] = u \/ ops[i] = r
    <3>1. CASE ops = <<r>>
      BY <1>5, <3>1, SMT
    <3>2. CASE ops = <<u>> \o <<r>>
      <4>1. IsTwo(<<u>> \o <<r>>, Ops, u, r)
        BY <1>5, Two, Zenon
      <4>2. IsTwo(ops, Ops, u, r)
        BY <3>2, <4>1, Zenon
      <4> QED BY <4>2, Zenon DEF IsTwo
    <3> QED BY <2>1, <3>1, <3>2, Zenon
  <2> QED BY <1>4, <1>5, <2>2, FitsStart, Zenon
<1>7. CASE h.of = Logs
  <2>1. ops = <<r>> \o <<u>>
    <3>1. ops \in LogsStart
      BY <1>7, OfPlugin, Zenon
    <3> QED BY <1>5, <1>7, <3>1, Zenon DEF LogsStart
  <2>2. ops \in Seq(Ops) /\ \A i \in DOMAIN ops : ops[i] = u \/ ops[i] = r
    <3>1. IsTwo(<<r>> \o <<u>>, Ops, r, u)
      BY <1>5, Two, Zenon
    <3>2. IsTwo(ops, Ops, r, u)
      BY <2>1, <3>1, Zenon
    <3> QED BY <3>2, Zenon DEF IsTwo
  <2> QED BY <1>4, <1>5, <2>2, FitsStart, Zenon
<1>8. CASE h.of = Status
  <2>1. ops = <<r>> \o <<l>> \o <<u>>
    <3>1. ops \in StatusStart
      BY <1>8, OfPlugin, Zenon
    <3> QED BY <1>2, <1>5, <1>8, <3>1, Zenon DEF StatusStart
  <2>2. /\ ops \in Seq(Ops)
        /\ \A i \in DOMAIN ops : ops[i] = u \/ ops[i] = r \/ (ops[i] = l /\ i = 2)
        /\ 3 \in DOMAIN ops /\ ops[3] = u
    <3>1. IsThree(<<r>> \o <<l>> \o <<u>>, Ops, r, l, u)
      BY <1>2, <1>5, Three, Zenon
    <3>2. IsThree(ops, Ops, r, l, u)
      BY <2>1, <3>1, Zenon
    <3> QED BY <3>2, Zenon DEF IsThree
  <2> QED BY <1>2, <1>4, <1>5, <1>8, <2>2, FitsStart, Zenon
<1> QED BY <1>3, <1>6, <1>7, <1>8, Zenon

\* A plugin other than discovery is started.
LEMMA StartKeeps ==
  ASSUME IInv, NEW t \in Threads, Start(t), Arg(t) # Discovery
  PROVE  IInv'
<1>1. Types /\ Calls(t, "start")
  BY Zenon DEF Start, IInv
<1>2. /\ todo[t] # <<>> /\ Head(todo[t]) \in Ops /\ Head(todo[t]).do = "start"
      /\ Arg(t) = Head(todo[t]).of /\ Arg(t) \in Names
  BY <1>1, CallHead, Zenon
<1>3. PICK ops \in Starts[Arg(t)] : Return(t, ops)
  BY Zenon DEF Start
<1>4. Head(todo[t]).of \in Configurable
  BY <1>2, Zenon DEF Names, Workers, Configurable
<1>5. Fits(ops, Head(todo[t]))
  BY <1>2, <1>3, <1>4, StartsFit, Zenon
<1>6. /\ UNCHANGED <<env, plugins, state, listening, running, channel, last, main, toStop, raced>>
      /\ loop' = loop
  BY Zenon DEF Start
<1> QED BY <1>2, <1>3, <1>5, <1>6, PlainKeeps, Zenon

\* A call that registers nothing.
LEMMA MadeKeeps ==
  ASSUME IInv, NEW t, NEW ops, Made(t, ops), Types', plugins' = plugins, Told',
         running'[Discovery] # "off" =>
            \/ running[Discovery] # "off"
            \/ Is(Head(todo[t]), "run", Discovery) \/ Is(Head(todo[t]), "stop", Discovery),
         Is(Head(todo[t]), "await", Discovery) => ~Discovering',
         \A h \in Halts : Ends(h[1], h[2]) =>
            \/ Ends(h[1], h[2])'
            \/ t = Discovery /\ Pending(h[2])
            \/ h[1] = "await" /\ Is(Head(todo[t]), "stop", h[2])
            \/ main = "boot",
         \A h \in Halts : Is(Head(todo[t]), h[1], h[2]) => Ends(h[1], h[2])',
         Unheard => Unheard' \/ Head(todo[t]).do = "listen",
         listening = {} => listening' = {} \/ Head(todo[t]).do = "listen"
  PROVE  IInv'
<1>1. Types /\ Threaded /\ DiscoveryFirst /\ Halting /\ ListenOnce /\ Told
  BY Zenon DEF IInv
<1>2. Threaded' /\ (main # "boot" /\ ~Is(Head(todo[t]), "stop", Discovery) => (Discovering' => Discovering))
  BY <1>1, MadeThreaded, Zenon
<1>3. DiscoveryFirst'
  BY <1>1, MadeFirst, Zenon
<1>4. Halting'
  BY <1>1, <1>2, MadeHalting, Zenon
<1>5. ListenOnce'
  BY <1>1, MadeListen, Zenon
<1> QED BY <1>2, <1>3, <1>4, <1>5, Zenon DEF IInv

\* A call that changes no status and registers nothing is made.
LEMMA MadeUnchanged ==
  ASSUME NEW t \in Threads, todo[t] # <<>>, NEW ops, Fits(ops, Head(todo[t])), Return(t, ops),
         Head(todo[t]).do \notin {"register", "update"},
         env' = env, plugins' = plugins, state' = state, main' = main, toStop' = toStop
  PROVE  Made(t, ops) /\ Registered' = Registered /\ Known' = Known
<1>1. Registered' = Registered /\ Known' = Known
  BY Zenon DEF Registered, Known
<1> QED BY <1>1, Zenon DEF Made, Is

\* Nobody notifies after a call that tells nobody, if nobody did.
LEMMA MadeNoNotify ==
  ASSUME Types, Threaded, NEW t, NEW ops, Made(t, ops), Head(todo[t]).do # "update" \/ ops = <<>>,
         NoNotify
  PROVE  NoNotify'
<1>1. ~Calls(t, "notify")' /\ \A u \in Threads : u # t => todo'[u] = todo[u]
  BY MadeQuiet, MadeLists, Zenon
<1> QED BY <1>1, Zenon DEF NoNotify, Calls

\* A goroutine begins.
LEMMA RunKeeps ==
  ASSUME IInv, NEW t \in Threads, Run(t)
  PROVE  IInv'
<1> DEFINE h == Head(todo[t])
           q == Arg(t)
<1>1. /\ Types /\ Threaded /\ DiscoveryFirst /\ Halting /\ ListenOnce /\ Told
      /\ Calls(t, "run") /\ Return(t, <<>>)
  BY Zenon DEF Run, IInv
<1>2. /\ todo[t] # <<>> /\ h \in Ops /\ h.do = "run" /\ q = h.of /\ q \in Names
      /\ 1 \in DOMAIN todo[t] /\ todo[t][1] = h
  BY <1>1, CallHead, Zenon
<1>3. /\ env' = env /\ plugins' = plugins /\ state' = state /\ listening' = listening
      /\ channel' = channel /\ last' = last /\ main' = main /\ toStop' = toStop /\ raced' = raced
      /\ q = Status => running' = running
      /\ q # Status => loop' = loop /\ running' = [running EXCEPT ![q] = "on"]
  BY Zenon DEF Run
<1>4. Fits(<<>>, h)
  BY <1>2, FitsShort, Zenon
<1>5. Made(t, <<>>) /\ Registered' = Registered /\ Known' = Known
  BY <1>1, <1>2, <1>3, <1>4, MadeUnchanged, Zenon
<1>6. t = Discovery \/ (t = Main /\ main = "boot")
  BY <1>1, <1>2, Who, Zenon
<1>7. Types'
  <2>1. running' \in [Workers -> Goroutines]
    BY <1>1, <1>3, Zenon DEF Types, Goroutines
  <2> QED BY <1>1, <1>3, <1>5, <2>1, MadeLists, Zenon DEF Types
<1>8. Told'
  BY <1>1, <1>2, <1>3, <1>5, MadeTold, Zenon
<1>9. \A p : Is(h, "run", p) <=> p = q
  BY <1>2, Zenon DEF Is
<1>10. running'[Discovery] # "off" => running[Discovery] # "off" \/ Is(h, "run", Discovery)
  BY <1>1, <1>3, <1>9, Zenon DEF Types, Workers
<1>11. ASSUME NEW k \in Halts, Ends(k[1], k[2])
       PROVE  Ends(k[1], k[2])' \/ (t = Discovery /\ Pending(k[2])) \/ main = "boot"
  <2>1. CASE k[2] = q
    <3>1. Begins(todo[t][1], k[2])
      BY <1>2, <2>1, Zenon DEF Begins
    <3> QED BY <1>2, <1>6, <3>1, Zenon DEF Pending
  <2>2. CASE k[2] # q
    <3>1. k[2] # Status => running'[k[2]] = running[k[2]]
      BY <1>1, <1>3, <2>2, HaltParts, Zenon DEF Types, Names
    <3>2. k[2] = Status => loop' = loop
      BY <1>3, <2>2, Zenon
    <3> QED BY <1>1, <1>3, <1>5, <1>11, <3>1, <3>2, EndsKept, Zenon
  <2> QED BY <2>1, <2>2, Zenon
<1>12. (\A k \in Halts : ~Is(h, k[1], k[2])) /\ ~Is(h, "await", Discovery)
  BY <1>2, HaltParts, Zenon DEF Is
<1>13. Unheard => Unheard'
  BY <1>1, <1>2, <1>3, <1>5, MadeNoNotify, Zenon DEF Unheard, Nothing
<1> QED BY <1>3, <1>5, <1>7, <1>8, <1>10, <1>11, <1>12, <1>13, MadeKeeps, Zenon

\* The status plugin begins or ends to listen.
LEMMA ListenKeeps ==
  ASSUME IInv, NEW t \in Threads, Listen(t)
  PROVE  IInv'
<1> DEFINE h == Head(todo[t])
<1>1. /\ Types /\ Threaded /\ DiscoveryFirst /\ Halting /\ ListenOnce /\ Told
      /\ Calls(t, "listen") \/ Calls(t, "unlisten")
      /\ Return(t, <<>>)
  BY Zenon DEF Listen, IInv
<1>2. /\ todo[t] # <<>> /\ h \in Ops /\ h.do \in {"listen", "unlisten"}
      /\ 1 \in DOMAIN todo[t] /\ todo[t][1] = h
  BY <1>1, CallHead, Zenon
<1>3. /\ env' = env /\ plugins' = plugins /\ state' = state /\ running' = running /\ loop' = loop
      /\ channel' = channel /\ last' = last /\ main' = main /\ toStop' = toStop /\ raced' = raced
      /\ h.do = "listen" => listening' = {Status}
      /\ h.do = "unlisten" => listening' = {}
  BY <1>2, Zenon DEF Listen, Calls
<1>4. Fits(<<>>, h)
  BY <1>2, FitsShort, Zenon
<1>5. Made(t, <<>>) /\ Registered' = Registered /\ Known' = Known
  BY <1>1, <1>2, <1>3, <1>4, MadeUnchanged, Zenon
<1>6. h.do = "listen" => h.of = Status /\ (t = Discovery \/ main = "boot")
  <2>1. h.do = "listen" => h.of = Status
    BY <1>1, <1>2, Zenon DEF Threaded, Orderly
  <2> QED BY <1>1, <1>2, <2>1, Who, Zenon
<1>7. Types'
  BY <1>1, <1>2, <1>3, <1>5, MadeLists, Zenon DEF Types
<1>8. Told'
  <2>1. CASE h.do = "unlisten"
    BY <1>3, <2>1, Zenon DEF Told
  <2>2. CASE h.do = "listen"
    <3>1. HasToken(t)
      BY <1>2, <2>2, Zenon DEF HasToken, Token
    <3>2. channel = Nothing /\ NoNotify
      BY <1>1, <3>1, Zenon DEF ListenOnce, Unheard
    <3>3. NoNotify'
      BY <1>1, <1>2, <1>5, <3>2, MadeNoNotify, Zenon
    <3>4. 1 + 1 \in DOMAIN todo[t] /\ todo[t][1 + 1].do = "update"
      BY <1>1, <1>2, <2>2, Zenon DEF Threaded, Orderly
    <3>5. 1 + 1 # 1 /\ Len(<<>>) + (1 + 1) - 1 = 1
      BY SMT
    <3>6. /\ Follows(todo'[t], <<>>, todo[t]) /\ todo'[t] \in Seq(Ops)
      BY <1>1, <1>5, MadeLists, Zenon
    <3>7. 1 \in DOMAIN todo'[t] /\ todo'[t][1].do = "update"
      BY <3>4, <3>5, <3>6, Zenon DEF Follows
    <3>8. todo'[t] # <<>>
      BY <3>7, SMT
    <3>9. Head(todo'[t]) = todo'[t][1]
      BY <3>6, <3>8, FirstCall, Zenon
    <3>10. Calls(t, "update")'
      BY <3>7, <3>8, <3>9, Zenon DEF Calls
    <3>11. channel' = Nothing'
      BY <1>3, <3>2, Zenon DEF Nothing
    <3> QED BY <3>3, <3>10, <3>11, Zenon DEF Told, NoNotify
  <2> QED BY <1>2, <2>1, <2>2, Zenon
<1>9. ASSUME NEW k \in Halts, Ends(k[1], k[2])
      PROVE  Ends(k[1], k[2])' \/ (t = Discovery /\ Pending(k[2])) \/ main = "boot"
  <2>1. CASE k[1] = "unlisten" /\ h.do = "listen"
    <3>1. k[2] = Status
      BY <2>1, HaltParts, Zenon
    <3>2. Begins(todo[t][1], k[2])
      BY <1>2, <1>6, <2>1, <3>1, Zenon DEF Begins
    <3> QED BY <1>2, <1>6, <2>1, <3>2, Zenon DEF Pending
  <2>2. CASE k[1] # "unlisten" \/ h.do = "unlisten"
    BY <1>1, <1>3, <1>5, <1>9, <2>2, EndsKept, Zenon
  <2> QED BY <1>2, <2>1, <2>2, Zenon
<1>10. ASSUME NEW k \in Halts, Is(h, k[1], k[2])
       PROVE  Ends(k[1], k[2])'
  <2>1. k[1] = "unlisten" /\ h.do = "unlisten"
    BY <1>2, <1>10, HaltParts, Zenon DEF Is
  <2> QED BY <1>3, <2>1, Zenon DEF Ends
<1>11. ~Is(h, "await", Discovery)
  BY <1>2, Zenon DEF Is
<1>12. Unheard => Unheard' \/ h.do = "listen"
  BY <1>1, <1>2, <1>3, <1>5, MadeNoNotify, Zenon DEF Unheard, Nothing
<1> QED BY <1>2, <1>3, <1>5, <1>7, <1>8, <1>9, <1>10, <1>11, <1>12, MadeKeeps, Zenon

\* Stop tells a goroutine to stop.
LEMMA StopWorkerKeeps ==
  ASSUME IInv, NEW t \in Threads, StopWorker(t)
  PROVE  IInv'
<1> DEFINE h == Head(todo[t])
           q == Arg(t)
<1>1. /\ Types /\ Threaded /\ DiscoveryFirst /\ Halting /\ ListenOnce /\ Told
      /\ Calls(t, "stop") /\ Return(t, <<>>)
  BY Zenon DEF StopWorker, IInv
<1>2. /\ todo[t] # <<>> /\ h \in Ops /\ h.do = "stop" /\ q = h.of /\ q \in Names
      /\ 1 \in DOMAIN todo[t] /\ todo[t][1] = h
  BY <1>1, CallHead, Zenon
<1>3. /\ env' = env /\ plugins' = plugins /\ state' = state /\ listening' = listening /\ loop' = loop
      /\ channel' = channel /\ last' = last /\ main' = main /\ toStop' = toStop /\ raced' = raced
      /\ running' = [running EXCEPT ![q] = "stopping"]
  BY Zenon DEF StopWorker
<1>4. Fits(<<>>, h)
  BY <1>2, FitsShort, Zenon
<1>5. Made(t, <<>>) /\ Registered' = Registered /\ Known' = Known
  BY <1>1, <1>2, <1>3, <1>4, MadeUnchanged, Zenon
<1>6. \A p : Is(h, "stop", p) <=> p = q
  BY <1>2, Zenon DEF Is
<1>7. Types'
  <2>1. running' \in [Workers -> Goroutines]
    BY <1>1, <1>3, Zenon DEF Types, Goroutines
  <2> QED BY <1>1, <1>3, <1>5, <2>1, MadeLists, Zenon DEF Types
<1>8. Told'
  BY <1>1, <1>2, <1>3, <1>5, MadeTold, Zenon
<1>9. running'[Discovery] # "off" => running[Discovery] # "off" \/ Is(h, "stop", Discovery)
  BY <1>1, <1>3, <1>6, Zenon DEF Types, Workers
<1>10. ASSUME NEW k \in Halts, Ends(k[1], k[2])
       PROVE  Ends(k[1], k[2])' \/ (k[1] = "await" /\ Is(h, "stop", k[2]))
  <2>1. CASE k[1] = "await" /\ k[2] = q
    BY <1>6, <2>1, Zenon
  <2>2. CASE ~(k[1] = "await" /\ k[2] = q)
    <3>1. k[1] = "await" /\ k[2] # Status => running'[k[2]] = running[k[2]]
      BY <1>1, <1>3, <2>2, HaltParts, Zenon DEF Types, Names
    <3> QED BY <1>1, <1>3, <1>5, <1>10, <3>1, EndsKept, Zenon
  <2> QED BY <2>1, <2>2, Zenon
<1>11. (\A k \in Halts : ~Is(h, k[1], k[2])) /\ ~Is(h, "await", Discovery)
  BY <1>2, HaltParts, Zenon DEF Is
<1>12. Unheard => Unheard'
  BY <1>1, <1>2, <1>3, <1>5, MadeNoNotify, Zenon DEF Unheard, Nothing
<1> QED BY <1>3, <1>5, <1>7, <1>8, <1>9, <1>10, <1>11, <1>12, MadeKeeps, Zenon

\* Stop has waited for a goroutine.
LEMMA AwaitKeeps ==
  ASSUME IInv, NEW t \in Threads, Await(t)
  PROVE  IInv'
<1> DEFINE h == Head(todo[t])
           q == Arg(t)
<1>1. /\ Types /\ Threaded /\ DiscoveryFirst /\ Halting /\ ListenOnce /\ Told
      /\ Calls(t, "await") /\ Return(t, <<>>)
  BY Zenon DEF Await, IInv
<1>2. /\ todo[t] # <<>> /\ h \in Ops /\ h.do = "await" /\ q = h.of /\ q \in Names
      /\ 1 \in DOMAIN todo[t] /\ todo[t][1] = h
  BY <1>1, CallHead, Zenon
<1>3. /\ env' = env /\ plugins' = plugins /\ state' = state /\ listening' = listening
      /\ channel' = channel /\ last' = last /\ main' = main /\ toStop' = toStop /\ raced' = raced
      /\ q = Status => loop' = "gone" /\ running' = running
      /\ q # Status => loop' = loop /\ running' = [running EXCEPT ![q] = "off"] /\ todo[q] = <<>>
  BY Zenon DEF Await, AtSelect
<1>4. Fits(<<>>, h)
  BY <1>2, FitsShort, Zenon
<1>5. Made(t, <<>>) /\ Registered' = Registered /\ Known' = Known
  BY <1>1, <1>2, <1>3, <1>4, MadeUnchanged, Zenon
<1>6. \A p : Is(h, "await", p) <=> p = q
  BY <1>2, Zenon DEF Is
<1>7. Types'
  <2>1. running' \in [Workers -> Goroutines]
    BY <1>1, <1>3, Zenon DEF Types, Goroutines
  <2> QED BY <1>1, <1>3, <1>5, <2>1, MadeLists, Zenon DEF Types
<1>8. Told'
  BY <1>1, <1>2, <1>3, <1>5, MadeTold, Zenon
<1>9. \A w \in Workers : running[w] = "off" => running'[w] = "off"
  BY <1>1, <1>3, Zenon DEF Types
<1>10. Discovery \in Workers
  BY Zenon DEF Workers
<1>11. q # Status => running'[q] = "off" /\ todo'[q] = <<>>
  <2> SUFFICES ASSUME q # Status PROVE running'[q] = "off" /\ todo'[q] = <<>>
    OBVIOUS
  <2>1. q \in Workers /\ q \in Threads /\ q # t
    BY <1>2, <1>3, Zenon DEF Names, Threads
  <2>2. todo'[q] = todo[q]
    BY <1>1, <1>5, <2>1, MadeLists, Zenon
  <2> QED BY <1>1, <1>3, <2>1, <2>2, Zenon DEF Types
<1>12. ASSUME NEW k \in Halts, Ends(k[1], k[2])
       PROVE  Ends(k[1], k[2])'
  <2>1. k[1] = "await" /\ k[2] # Status /\ running[k[2]] = "off" => running'[k[2]] = "off"
    BY <1>9, HaltParts, Zenon DEF Names
  <2>2. loop = "gone" => loop' = "gone"
    BY <1>3, Zenon
  <2> QED BY <1>1, <1>3, <1>5, <1>12, <2>1, <2>2, EndsKept, Zenon
<1>13. ASSUME NEW k \in Halts, Is(h, k[1], k[2])
       PROVE  Ends(k[1], k[2])'
  <2>1. k[1] = "await" /\ k[2] = q
    BY <1>2, <1>13, Zenon DEF Is
  <2> QED BY <1>3, <1>11, <2>1, Zenon DEF Ends
<1>14. Is(h, "await", Discovery) => ~Discovering'
  <2>1. Discovery # Status
    BY Zenon DEF Discovery, Status
  <2> QED BY <1>6, <1>11, <2>1, Zenon DEF Discovering
<1>15. Unheard => Unheard'
  BY <1>1, <1>2, <1>3, <1>5, MadeNoNotify, Zenon DEF Unheard, Nothing
<1>16. running'[Discovery] # "off" => running[Discovery] # "off"
  BY <1>9, <1>10, Zenon
<1> QED BY <1>3, <1>5, <1>7, <1>8, <1>12, <1>13, <1>14, <1>15, <1>16, MadeKeeps, Zenon

\* The status plugin's channel takes the statuses.
LEMMA NotifyKeeps ==
  ASSUME IInv, NEW t \in Threads, Notify(t)
  PROVE  IInv'
<1> DEFINE h == Head(todo[t])
<1>1. /\ Types /\ Threaded /\ DiscoveryFirst /\ Halting /\ ListenOnce /\ Told
      /\ Calls(t, "notify") /\ Return(t, <<>>)
  BY Zenon DEF Notify, IInv
<1>2. todo[t] # <<>> /\ h \in Ops /\ h.do = "notify"
  BY <1>1, CallHead, Zenon
<1>3. /\ env' = env /\ plugins' = plugins /\ state' = state /\ listening' = listening
      /\ running' = running /\ loop' = loop /\ channel' = h.all /\ last' = last
      /\ main' = main /\ toStop' = toStop /\ raced' = raced
  BY Zenon DEF Notify
<1>4. Fits(<<>>, h)
  BY <1>2, FitsShort, Zenon
<1>5. Made(t, <<>>) /\ Registered' = Registered /\ Known' = Known
  BY <1>1, <1>2, <1>3, <1>4, MadeUnchanged, Zenon
<1>6. Types'
  BY <1>1, <1>3, <1>5, MadeLists, Zenon DEF Types
<1>7. Told'
  <2> SUFFICES ASSUME listening # {}, raced = "no"
               PROVE  /\ \A u \in Threads : Calls(u, "notify")' => Head(todo'[u]).all = state
                      /\ channel' # Nothing /\ channel' = state
    BY <1>3, Zenon DEF Told, Nothing
  <2>1. \A u \in Threads : Calls(u, "notify") => Head(todo[u]).all = state
    BY <1>1, Zenon DEF Told
  <2>2. channel' = state
    BY <1>1, <1>3, <2>1, Zenon
  <2>3. state # Nothing
    <3>1. Status \in Registered /\ Status \in Names
      BY <1>1, Zenon DEF ListenOnce, Unheard, Names
    <3>2. state[Status] # "none"
      BY <1>1, <3>1, Zenon DEF Types, Known
    <3>3. Nothing[Status] = "none"
      BY <3>1, Zenon DEF Nothing
    <3> QED BY <3>2, <3>3, Zenon
  <2>4. ~Calls(t, "notify")' /\ \A u \in Threads : u # t => todo'[u] = todo[u]
    BY <1>1, <1>5, MadeQuiet, MadeLists, Zenon
  <2> QED BY <2>1, <2>2, <2>3, <2>4, Zenon DEF Calls
<1>8. \A k \in Halts : Ends(k[1], k[2]) => Ends(k[1], k[2])'
  BY <1>1, <1>3, <1>5, EndsKept, Zenon
<1>9. (\A k \in Halts : ~Is(h, k[1], k[2])) /\ ~Is(h, "await", Discovery)
  BY <1>2, HaltParts, Zenon DEF Is
<1>10. ~Unheard
  BY <1>1, Zenon DEF Unheard, NoNotify
<1> QED BY <1>3, <1>5, <1>6, <1>7, <1>8, <1>9, <1>10, MadeKeeps, Zenon

\* A status is updated.
LEMMA UpdateKeeps ==
  ASSUME IInv, NEW t \in Threads, UpdatePluginStatus(t)
  PROVE  IInv'
<1> DEFINE h == Head(todo[t])
           q == Arg(t)
           op == [do |-> "notify", of |-> q, is |-> "none", all |-> state']
           ops == IF listening = {} THEN <<>> ELSE <<op>>
<1>1. /\ Types /\ Threaded /\ DiscoveryFirst /\ Halting /\ ListenOnce /\ Told /\ Calls(t, "update")
  BY Zenon DEF UpdatePluginStatus, IInv
<1>2. /\ todo[t] # <<>> /\ h \in Ops /\ h.do = "update" /\ q = h.of /\ q \in Names
      /\ 1 \in DOMAIN todo[t] /\ todo[t][1] = h
  BY <1>1, CallHead, Zenon
<1>3. /\ env' = env /\ plugins' = plugins /\ listening' = listening /\ running' = running
      /\ loop' = loop /\ channel' = channel /\ last' = last /\ main' = main /\ toStop' = toStop
      /\ raced' = IF Overlaps(t) THEN "yes" ELSE raced
      /\ state' = [state EXCEPT ![q] = h.is]
  BY Zenon DEF UpdatePluginStatus
<1>4. Return(t, ops)
  BY Zenon DEF UpdatePluginStatus, Op
<1>5. h.is # "none" /\ h.is \in States
  <2>1. h.is # "none"
    BY <1>1, <1>2, Zenon DEF Threaded, Orderly
  <2>2. h.is \in States
    BY <1>2, SMT DEF Ops
  <2> QED BY <2>1, <2>2, Zenon
<1>6. state' \in [Names -> States] /\ Known' = Known \union {q}
  <2>1. state' \in [Names -> States] /\ \A p \in Names : state'[p] = IF p = q THEN h.is ELSE state[p]
    BY <1>1, <1>3, <1>5, Zenon DEF Types
  <2> QED BY <1>2, <1>5, <2>1, Zenon DEF Known
<1>7. op \in Ops /\ op.do = "notify" /\ op.all = state'
  <2>1. "notify" \in Dos /\ "none" \in States
    BY Zenon DEF Dos, States
  <2> QED BY <1>2, <1>6, <2>1, OneOp, Zenon
<1> HIDE DEF op
<1>8. Fits(ops, h)
  BY <1>2, <1>7, FitsShort, Zenon
<1>9. Made(t, ops)
  <2>1. Registered' = Registered
    BY <1>3, Zenon DEF Registered
  <2> QED BY <1>2, <1>3, <1>4, <1>6, <1>8, <2>1, Zenon DEF Made, Is
<1>10. Types'
  <2>1. Registered' = Registered
    BY <1>3, Zenon DEF Registered
  <2> QED BY <1>1, <1>3, <1>6, <1>9, <2>1, MadeLists, Zenon DEF Types
<1>11. Told'
  <2> SUFFICES ASSUME listening # {}, raced' = "no"
               PROVE  /\ \A u \in Threads : Calls(u, "notify")' => Head(todo'[u]).all = state'
                      /\ ~NoNotify'
    BY <1>3, Zenon DEF Told
  <2>1. /\ Follows(todo'[t], ops, todo[t]) /\ todo'[t] \in Seq(Ops)
        /\ \A u \in Threads : u # t => todo'[u] = todo[u]
    BY <1>1, <1>9, MadeLists, Zenon
  <2>2. ops = <<op>>
    OBVIOUS
  <2>3. 1 \in DOMAIN ops /\ ops[1] = op
    BY <1>7, <2>2, One, Zenon
  <2>4. 1 \in DOMAIN todo'[t] /\ todo'[t][1] = op
    BY <2>1, <2>3, Zenon DEF Follows
  <2>5. todo'[t] # <<>>
    BY <2>4, SMT
  <2>6. Head(todo'[t]) = op
    BY <2>1, <2>4, <2>5, FirstCall, Zenon
  <2>7. Calls(t, "notify")'
    BY <1>7, <2>5, <2>6, Zenon DEF Calls
  <2>8. ~Overlaps(t)
    BY <1>3, Zenon
  <2>9. \A u \in Threads : u # t => ~Calls(u, "notify")'
    BY <2>1, <2>8, Zenon DEF Overlaps, Calls
  <2> QED BY <1>7, <2>6, <2>7, <2>9, Zenon DEF NoNotify
<1>12. \A k \in Halts : Ends(k[1], k[2]) => Ends(k[1], k[2])'
  BY <1>1, <1>3, <1>9, EndsKept, Zenon
<1>13. (\A k \in Halts : ~Is(h, k[1], k[2])) /\ ~Is(h, "await", Discovery)
  BY <1>2, HaltParts, Zenon DEF Is
<1>14. Unheard => Unheard'
  <2> SUFFICES ASSUME Unheard PROVE Unheard'
    OBVIOUS
  <2>1. listening = {} /\ channel = Nothing /\ NoNotify
    BY Zenon DEF Unheard
  <2>2. ops = <<>>
    BY <2>1, Zenon
  <2>3. NoNotify'
    BY <1>1, <1>9, <2>1, <2>2, MadeNoNotify, Zenon
  <2> QED BY <1>3, <2>1, <2>3, Zenon DEF Unheard, Nothing
<1> QED BY <1>3, <1>9, <1>10, <1>11, <1>12, <1>13, <1>14, MadeKeeps, Zenon

\* n is l with a at its end.
IsMore(n, A, l, a) ==
    /\ n \in Seq(A) /\ Len(l) \in Nat /\ DOMAIN l = 1..Len(l) /\ DOMAIN n = 1..(Len(l) + 1)
    /\ \A i \in DOMAIN l : i \in DOMAIN n /\ n[i] = l[i] /\ 1..(i - 1) \subseteq DOMAIN l
    /\ \A i \in DOMAIN n : i \in DOMAIN l \/ (i = Len(l) + 1 /\ 1..(i - 1) = DOMAIN l)
    /\ n[Len(l) + 1] = a /\ Len(l) + 1 \in DOMAIN n
    /\ Range(n) = Range(l) \union {a}

\* One more plugin.
LEMMA Registering ==
  ASSUME NEW A, NEW l \in Seq(A), NEW a \in A
  PROVE  IsMore(Append(l, a), A, l, a)
<1> DEFINE n == Append(l, a)
           m == Len(l)
<1>1. /\ n \in Seq(A) /\ m \in Nat /\ DOMAIN l = 1..m /\ DOMAIN n = 1..(m + 1)
      /\ n[m + 1] = a /\ \A i \in 1..m : n[i] = l[i]
  BY SMT
<1> HIDE DEF n, m
<1>2. /\ \A i \in 1..m : i \in 1..(m + 1) /\ 1..(i - 1) \subseteq 1..m
      /\ \A i \in 1..(m + 1) : i \in 1..m \/ (i = m + 1 /\ 1..(i - 1) = 1..m)
      /\ m + 1 \in 1..(m + 1)
  BY <1>1, SMT
<1>3. Range(n) = Range(l) \union {a}
  BY <1>1, <1>2, Zenon DEF Range
<1>4. IsMore(n, A, l, a)
  BY <1>1, <1>2, <1>3, Zenon DEF IsMore, m
<1> QED BY <1>4, Zenon DEF n

\* A plugin is registered.
LEMMA RegisterKeeps ==
  ASSUME IInv, NEW t \in Threads, Register(t)
  PROVE  IInv'
<1> DEFINE h == Head(todo[t])
           q == Arg(t)
           op == [do |-> "hear", of |-> Bundle, is |-> "none", all |-> Nothing]
<1>1. /\ Types /\ Threaded /\ DiscoveryFirst /\ Halting /\ ListenOnce /\ Told /\ Calls(t, "register")
  BY Zenon DEF Register, IInv
<1>2. /\ todo[t] # <<>> /\ h \in Ops /\ h.do = "register" /\ q = h.of /\ q \in Names
      /\ 1 \in DOMAIN todo[t] /\ todo[t][1] = h
  BY <1>1, CallHead, Zenon
<1>3. /\ env' = env /\ listening' = listening /\ running' = running /\ loop' = loop
      /\ channel' = channel /\ last' = last /\ main' = main /\ toStop' = toStop /\ raced' = raced
      /\ plugins' = Append(plugins, q)
      /\ state' = IF state[q] = "none" THEN [state EXCEPT ![q] = "NotReady"] ELSE state
  BY Zenon DEF Register
<1>4. op \in Ops /\ Call("hear", Bundle) = <<op>> /\ op.do = "hear"
  <2>1. "hear" \in Dos /\ "none" \in States /\ Bundle \in Names
    BY Zenon DEF Dos, States, Names, Workers
  <2> QED BY <2>1, NothingType, OneOp, Zenon DEF Call
<1> HIDE DEF op
<1>5. PICK ops : Return(t, ops) /\ Fits(ops, h)
  <2>1. Return(t, <<>>) \/ Return(t, <<op>>)
    BY <1>4, Zenon DEF Register
  <2>2. Fits(<<>>, h) /\ Fits(<<op>>, h)
    BY <1>2, <1>4, FitsShort, Zenon
  <2> QED BY <2>1, <2>2, Zenon
<1>6. state' \in [Names -> States] /\ Known' = Known \union {q}
  <2>1. CASE state[q] = "none"
    <3>1. state' \in [Names -> States] /\ \A p \in Names : state'[p] = IF p = q THEN "NotReady" ELSE state[p]
      BY <1>1, <1>3, <2>1, Zenon DEF Types, States
    <3> QED BY <1>2, <3>1, Zenon DEF Known
  <2>2. CASE state[q] # "none"
    BY <1>1, <1>2, <1>3, <2>2, Zenon DEF Types, Known
  <2> QED BY <2>1, <2>2, Zenon
<1>7. plugins \in Seq(Names)
  BY <1>1, Zenon DEF Types
<1>a. IsMore(plugins', Names, plugins, q)
  BY <1>2, <1>3, <1>7, Registering, Zenon
<1>8. plugins' \in Seq(Names) /\ Registered' = Registered \union {q}
  BY <1>a, Zenon DEF Registered, IsMore
<1>9. Made(t, ops)
  BY <1>2, <1>3, <1>5, <1>6, <1>8, Zenon DEF Made, Is
<1>10. Types'
  BY <1>1, <1>3, <1>6, <1>8, <1>9, MadeLists, Zenon DEF Types
<1>11. Threaded' /\ (main # "boot" => (Discovering' => Discovering))
  BY <1>1, <1>2, <1>3, <1>9, MadeThreaded, Zenon DEF Is
<1>12. t = Discovery \/ (t = Main /\ main = "boot")
  BY <1>1, <1>2, Who, Zenon
<1>13. DiscoveryFirst'
  <2> SUFFICES ASSUME NEW p \in Names, Pending(p)', NEW k \in DOMAIN plugins', plugins'[k] = p
               PROVE  \E j \in 1..(k - 1) : plugins'[j] = Discovery
    BY Zenon DEF DiscoveryFirst
  <2>1. Pending(p)
    BY <1>1, <1>9, MadePending, Zenon
  <2>2. /\ \A i \in DOMAIN plugins : plugins'[i] = plugins[i] /\ 1..(i - 1) \subseteq DOMAIN plugins
        /\ k \in DOMAIN plugins \/ 1..(k - 1) = DOMAIN plugins
    BY <1>a, Zenon DEF IsMore
  <2>3. CASE k \in DOMAIN plugins
    BY <1>1, <2>1, <2>2, <2>3, Zenon DEF DiscoveryFirst
  <2>4. CASE 1..(k - 1) = DOMAIN plugins
    <3>1. \E i \in DOMAIN todo[Discovery] : TRUE
      BY <2>1, Zenon DEF Pending
    <3>2. todo[Discovery] # <<>>
      BY <3>1, SMT
    <3>3. Discovery \in Registered
      BY <1>1, <3>2, Zenon DEF Threaded, Discovering
    <3> QED BY <2>2, <2>4, <3>3, Zenon DEF Registered, Range
  <2> QED BY <2>2, <2>3, <2>4, Zenon
<1>14. Halting'
  <2>1. \A k \in Halts : Ends(k[1], k[2]) => Ends(k[1], k[2])'
    BY <1>1, <1>3, <1>9, EndsKept, Zenon
  <2>2. (\A k \in Halts : ~Is(h, k[1], k[2])) /\ ~Is(h, "await", Discovery)
    BY <1>2, HaltParts, Zenon DEF Is
  <2> QED BY <1>1, <1>9, <1>11, <2>1, <2>2, MadeHalting, Zenon
<1>15. ListenOnce'
  <2>1. Unheard => Unheard'
    BY <1>1, <1>2, <1>3, <1>9, MadeNoNotify, Zenon DEF Unheard, Nothing
  <2> QED BY <1>1, <1>3, <1>9, <2>1, MadeListen, Zenon
<1>16. Told'
  <2>1. listening # {} => state' = state
    <3> SUFFICES ASSUME listening # {} PROVE state[q] # "none"
      BY <1>3, Zenon
    <3>1. ~(1 > 1)
      BY SMT
    <3>2. q \in Known \/ q = Discovery
      BY <1>1, <1>2, <3>1, Zenon DEF Threaded, Orderly
    <3>3. CASE q \in Known
      BY <3>3, Zenon DEF Known
    <3>4. CASE q = Discovery
      <4>1. t = Main
        BY <1>1, <1>2, <1>12, <3>4, Zenon DEF Threaded, Duties
      <4>2. Has(todo[Main], "register", Discovery)
        BY <1>2, <3>4, <4>1, Zenon DEF Has, Is
      <4> QED BY <1>1, <4>2, Zenon DEF ListenOnce
    <3> QED BY <3>2, <3>3, <3>4, Zenon
  <2> QED BY <1>1, <1>2, <1>3, <1>9, <2>1, MadeTold, Zenon
<1> QED BY <1>10, <1>11, <1>13, <1>14, <1>15, <1>16, Zenon DEF IInv

-----------------------------------------------------------------------------
(* The lists of calls the threads begin with.                              *)

\* Places in the second of two lists, of m and n calls.
LEMMA Places ==
  ASSUME NEW m \in Nat, NEW n \in Nat
  PROVE  /\ \A i \in 1..m : 1..(i - 1) \subseteq 1..m /\ (i > 1 => i - 1 \in 1..m)
         /\ \A i \in 1..n : /\ i > 1 => i - 1 \in 1..n /\ m + i > 1 /\ m + (i - 1) = (m + i) - 1
                            /\ m + (i + 1) = (m + i) + 1
                            /\ 1..m \subseteq 1..((m + i) - 1)
                            /\ \A j \in 1..(i - 1) : j \in 1..n /\ m + j \in 1..((m + i) - 1)
                            /\ \A j \in 1..m : j < m + i
                            /\ \A j \in 1..n : i < j => m + i < m + j
<1>1. \A i \in 1..m : 1..(i - 1) \subseteq 1..m /\ (i > 1 => i - 1 \in 1..m)
  BY SMT
<1> SUFFICES ASSUME NEW i \in 1..n
             PROVE  /\ i > 1 => i - 1 \in 1..n /\ m + i > 1 /\ m + (i - 1) = (m + i) - 1
                    /\ m + (i + 1) = (m + i) + 1
                    /\ 1..m \subseteq 1..((m + i) - 1)
                    /\ \A j \in 1..(i - 1) : j \in 1..n /\ m + j \in 1..((m + i) - 1)
                    /\ \A j \in 1..m : j < m + i
                    /\ \A j \in 1..n : i < j => m + i < m + j
  BY <1>1, Zenon
<1>2. i > 1 => i - 1 \in 1..n /\ m + i > 1 /\ m + (i - 1) = (m + i) - 1
  BY SMT
<1>3. m + (i + 1) = (m + i) + 1 /\ 1..m \subseteq 1..((m + i) - 1)
  BY SMT
<1>4. /\ \A j \in 1..(i - 1) : j \in 1..n /\ m + j \in 1..((m + i) - 1)
      /\ \A j \in 1..m : j < m + i
      /\ \A j \in 1..n : i < j => m + i < m + j
  BY SMT
<1> QED BY <1>2, <1>3, <1>4, Zenon

\* What can be done in order after what is done in order.
LEMMA OrderlyJoin ==
  ASSUME NEW R, NEW K, NEW S, NEW x, NEW y, Orderly(x, R, K), Orderly(y, S, K),
         \A p \in S : p \in R \/ Has(x, "register", p),
         \A i \in DOMAIN x : ~Begins(x[i], Discovery),
         \A i \in DOMAIN y : y[i].do # "notify",
         \A i \in DOMAIN x, j \in DOMAIN y : Token(x[i]) => ~Token(y[j]),
         \A i \in DOMAIN x, j \in DOMAIN y : Token(x[i]) => ~Is(y[j], "register", Discovery)
  PROVE  Orderly(x \o y, R, K)
<1> DEFINE l == x \o y
           m == Len(x)
           n == Len(y)
<1>1. x \in Seq(Ops) /\ y \in Seq(Ops)
  BY Zenon DEF Orderly
<1>2. l \in Seq(Ops) /\ IsJoin(l, x, y)
  BY <1>1, Joined, Zenon
<1> HIDE DEF l
<1>3. /\ m \in Nat /\ n \in Nat /\ DOMAIN x = 1..m /\ DOMAIN y = 1..n /\ Len(l) = m + n
      /\ \A i \in DOMAIN x : i \in DOMAIN l /\ l[i] = x[i]
      /\ \A i \in DOMAIN y : m + i \in DOMAIN l /\ l[m + i] = y[i]
      /\ \A k \in DOMAIN l : \/ k \in DOMAIN x /\ l[k] = x[k]
                             \/ \E i \in DOMAIN y : k = m + i /\ l[k] = y[i]
  BY <1>2, Zenon DEF IsJoin
<1> HIDE DEF m, n
<1>4. \A k \in DOMAIN l : l[k].do = "notify" => k = 1
  <2>1. \A i \in DOMAIN x : x[i].do = "notify" => i = 1
    BY Zenon DEF Orderly
  <2> QED BY <1>3, <2>1, Zenon
<1>5. \A k \in DOMAIN l : l[k].do = "update" => l[k].is # "none"
  <2>1. /\ \A i \in DOMAIN x : x[i].do = "update" => x[i].is # "none"
        /\ \A i \in DOMAIN y : y[i].do = "update" => y[i].is # "none"
    BY Zenon DEF Orderly
  <2> QED BY <1>3, <2>1, Zenon
<1>6. ASSUME NEW k \in DOMAIN l, l[k].do = "register"
      PROVE  l[k].of \in K \/ l[k].of = Discovery \/ (k > 1 /\ Is(l[k - 1], "update", l[k].of))
  <2>1. CASE k \in DOMAIN x /\ l[k] = x[k]
    <3>1. x[k].of \in K \/ x[k].of = Discovery \/ (k > 1 /\ Is(x[k - 1], "update", x[k].of))
      BY <1>6, <2>1, Zenon DEF Orderly
    <3>2. k > 1 => k - 1 \in DOMAIN x
      BY <1>3, <2>1, Places, Zenon
    <3> QED BY <1>3, <2>1, <3>1, <3>2, Zenon
  <2>2. ASSUME NEW i \in DOMAIN y, k = m + i, l[k] = y[i]
        PROVE  l[k].of \in K \/ l[k].of = Discovery \/ (k > 1 /\ Is(l[k - 1], "update", l[k].of))
    <3>1. y[i].of \in K \/ y[i].of = Discovery \/ (i > 1 /\ Is(y[i - 1], "update", y[i].of))
      BY <1>6, <2>2, Zenon DEF Orderly
    <3>2. i > 1 => i - 1 \in DOMAIN y /\ k > 1 /\ m + (i - 1) = k - 1
      BY <1>3, <2>2, Places, Zenon
    <3>3. i > 1 => l[k - 1] = y[i - 1] /\ k > 1
      BY <1>3, <3>2, Zenon
    <3> QED BY <2>2, <3>1, <3>3, Zenon
  <2> QED BY <1>3, <2>1, <2>2, Zenon
<1>7. ASSUME NEW k \in DOMAIN l, l[k].do = "listen"
      PROVE  l[k].of = Status /\ k + 1 \in DOMAIN l /\ l[k + 1].do = "update"
  <2>1. CASE k \in DOMAIN x /\ l[k] = x[k]
    <3>1. x[k].of = Status /\ k + 1 \in DOMAIN x /\ x[k + 1].do = "update"
      BY <1>7, <2>1, Zenon DEF Orderly
    <3> QED BY <1>3, <2>1, <3>1, Zenon
  <2>2. ASSUME NEW i \in DOMAIN y, k = m + i, l[k] = y[i]
        PROVE  l[k].of = Status /\ k + 1 \in DOMAIN l /\ l[k + 1].do = "update"
    <3>1. y[i].of = Status /\ i + 1 \in DOMAIN y /\ y[i + 1].do = "update"
      BY <1>7, <2>2, Zenon DEF Orderly
    <3>2. m + (i + 1) = k + 1
      BY <1>3, <2>2, Places, Zenon
    <3> QED BY <1>3, <2>2, <3>1, <3>2, Zenon
  <2> QED BY <1>3, <2>1, <2>2, Zenon
<1>8. ASSUME NEW p, NEW k \in DOMAIN l, NEW i \in DOMAIN y, k = m + i,
             p \in S \/ \E j \in 1..(i - 1) : Is(y[j], "register", p)
      PROVE  p \in R \/ \E j \in 1..(k - 1) : Is(l[j], "register", p)
  <2>1. 1..m \subseteq 1..(k - 1) /\ \A j \in 1..(i - 1) : j \in DOMAIN y /\ m + j \in 1..(k - 1)
    BY <1>3, <1>8, Places, Zenon
  <2>2. CASE Has(x, "register", p)
    BY <1>3, <2>1, <2>2, Zenon DEF Has
  <2>3. CASE \E j \in 1..(i - 1) : Is(y[j], "register", p)
    BY <1>3, <2>1, <2>3, Zenon
  <2> QED BY <1>8, <2>2, <2>3, Zenon
<1>9. ASSUME NEW k \in DOMAIN l, Token(l[k])
      PROVE  Status \in R \/ \E j \in 1..(k - 1) : Is(l[j], "register", Status)
  <2>1. CASE k \in DOMAIN x /\ l[k] = x[k]
    <3>1. 1..(k - 1) \subseteq DOMAIN x
      BY <1>3, <2>1, Places, Zenon
    <3>2. Status \in R \/ \E j \in 1..(k - 1) : Is(x[j], "register", Status)
      BY <1>9, <2>1, Zenon DEF Orderly
    <3> QED BY <1>3, <3>1, <3>2, Zenon
  <2>2. ASSUME NEW i \in DOMAIN y, k = m + i, l[k] = y[i]
        PROVE  Status \in R \/ \E j \in 1..(k - 1) : Is(l[j], "register", Status)
    <3>1. Status \in S \/ \E j \in 1..(i - 1) : Is(y[j], "register", Status)
      BY <1>9, <2>2, Zenon DEF Orderly
    <3> QED BY <1>8, <2>2, <3>1, Zenon
  <2> QED BY <1>3, <2>1, <2>2, Zenon
<1>10. ASSUME NEW k \in DOMAIN l, NEW h \in DOMAIN l, Token(l[k]), Token(l[h])
       PROVE  k = h
  <2>1. /\ \A i, j \in DOMAIN x : Token(x[i]) /\ Token(x[j]) => i = j
        /\ \A i, j \in DOMAIN y : Token(y[i]) /\ Token(y[j]) => i = j
    BY Zenon DEF Orderly
  <2>2. CASE k \in DOMAIN x /\ l[k] = x[k] /\ h \in DOMAIN x /\ l[h] = x[h]
    BY <1>10, <2>1, <2>2, Zenon
  <2>3. ASSUME NEW i \in DOMAIN y, k = m + i, l[k] = y[i], NEW j \in DOMAIN y, h = m + j, l[h] = y[j]
        PROVE  k = h
    BY <1>10, <2>1, <2>3, Zenon
  <2>4. ASSUME NEW i \in DOMAIN x, Token(x[i]), NEW j \in DOMAIN y, Token(y[j])
        PROVE  FALSE
    BY <2>4, Zenon
  <2> QED BY <1>3, <1>10, <2>2, <2>3, <2>4, Zenon
<1>11. ASSUME NEW k \in DOMAIN l, Begins(l[k], Discovery)
       PROVE  k = Len(l) /\ (Discovery \in R \/ \E j \in 1..(k - 1) : Is(l[j], "register", Discovery))
  <2>1. PICK i \in DOMAIN y : k = m + i /\ l[k] = y[i]
    BY <1>3, <1>11, Zenon
  <2>2. i = n /\ (Discovery \in S \/ \E j \in 1..(i - 1) : Is(y[j], "register", Discovery))
    BY <1>11, <2>1, Zenon DEF Orderly, n
  <2>3. Discovery \in R \/ \E j \in 1..(k - 1) : Is(l[j], "register", Discovery)
    BY <1>8, <2>1, <2>2, Zenon
  <2> QED BY <1>3, <2>1, <2>2, <2>3, Zenon
<1>12. ASSUME NEW k \in DOMAIN l, NEW h \in DOMAIN l, Is(l[k], "register", Discovery), Token(l[h])
       PROVE  k < h
  <2>1. /\ \A i, j \in DOMAIN x : Is(x[i], "register", Discovery) /\ Token(x[j]) => i < j
        /\ \A i, j \in DOMAIN y : Is(y[i], "register", Discovery) /\ Token(y[j]) => i < j
    BY Zenon DEF Orderly
  <2>2. /\ \A i \in DOMAIN x, j \in DOMAIN y : i < m + j
        /\ \A i, j \in DOMAIN y : i < j => m + i < m + j
    BY <1>3, Places, Zenon
  <2>3. CASE k \in DOMAIN x /\ l[k] = x[k] /\ h \in DOMAIN x /\ l[h] = x[h]
    BY <1>12, <2>1, <2>3, Zenon
  <2>4. ASSUME NEW i \in DOMAIN y, k = m + i, l[k] = y[i], NEW j \in DOMAIN y, h = m + j, l[h] = y[j]
        PROVE  k < h
    BY <1>12, <2>1, <2>2, <2>4, Zenon
  <2>5. ASSUME k \in DOMAIN x, NEW j \in DOMAIN y, h = m + j
        PROVE  k < h
    BY <2>2, <2>5, Zenon
  <2>6. ASSUME NEW i \in DOMAIN x, Token(x[i]), NEW j \in DOMAIN y, Is(y[j], "register", Discovery)
        PROVE  FALSE
    BY <2>6, Zenon
  <2> QED BY <1>3, <1>12, <2>3, <2>4, <2>5, <2>6, Zenon
<1>13. Orderly(l, R, K)
  BY <1>2, <1>4, <1>5, <1>6, <1>7, <1>9, <1>10, <1>11, <1>12, Zenon DEF Orderly
<1> QED BY <1>13, Zenon DEF l

\* The calls of one kind for each of the plugins ps.
Block(l, ps, dos) ==
    /\ l \in Seq(Ops)
    /\ \A i \in DOMAIN l : l[i].do \in dos /\ l[i].of \in ps /\ (l[i].do = "update" => l[i].is # "none")
    /\ \A i \in DOMAIN l : l[i].do = "register" => i > 1 /\ Is(l[i - 1], "update", l[i].of)
    /\ "register" \in dos => \A p \in ps : Has(l, "register", p)
    /\ \A i, j \in DOMAIN l : l[i].do = "start" /\ l[j].do = "start" /\ l[i].of = l[j].of => i = j

\* The calls for some plugins, then those for others.
LEMMA BlockJoin ==
  ASSUME NEW x, NEW y, NEW P, NEW Q, NEW D, Block(x, P, D), Block(y, Q, D),
         \A p \in P : p \notin Q
  PROVE  Block(x \o y, P \union Q, D)
<1> DEFINE l == x \o y
           m == Len(x)
           n == Len(y)
<1>1. x \in Seq(Ops) /\ y \in Seq(Ops)
  BY Zenon DEF Block
<1>2. l \in Seq(Ops) /\ IsJoin(l, x, y)
  BY <1>1, Joined, Zenon
<1> HIDE DEF l
<1>3. /\ m \in Nat /\ n \in Nat /\ DOMAIN x = 1..m /\ DOMAIN y = 1..n
      /\ \A i \in DOMAIN x : i \in DOMAIN l /\ l[i] = x[i]
      /\ \A i \in DOMAIN y : m + i \in DOMAIN l /\ l[m + i] = y[i]
      /\ \A k \in DOMAIN l : \/ k \in DOMAIN x /\ l[k] = x[k]
                             \/ \E i \in DOMAIN y : k = m + i /\ l[k] = y[i]
  BY <1>2, Zenon DEF IsJoin
<1> HIDE DEF m, n
<1>4. /\ \A i \in DOMAIN x : x[i].do \in D /\ x[i].of \in P /\ (x[i].do = "update" => x[i].is # "none")
      /\ \A i \in DOMAIN y : y[i].do \in D /\ y[i].of \in Q /\ (y[i].do = "update" => y[i].is # "none")
  BY Zenon DEF Block
<1>5. ASSUME NEW k \in DOMAIN l
      PROVE  l[k].do \in D /\ l[k].of \in P \union Q /\ (l[k].do = "update" => l[k].is # "none")
  <2>1. CASE k \in DOMAIN x /\ l[k] = x[k]
    BY <1>4, <2>1, Zenon
  <2>2. ASSUME NEW i \in DOMAIN y, l[k] = y[i]
        PROVE  l[k].do \in D /\ l[k].of \in P \union Q /\ (l[k].do = "update" => l[k].is # "none")
    BY <1>4, <2>2, Zenon
  <2> QED BY <1>3, <2>1, <2>2, Zenon
<1>6. ASSUME NEW k \in DOMAIN l, l[k].do = "register"
      PROVE  k > 1 /\ Is(l[k - 1], "update", l[k].of)
  <2>1. CASE k \in DOMAIN x /\ l[k] = x[k]
    <3>1. k > 1 /\ Is(x[k - 1], "update", x[k].of)
      BY <1>6, <2>1, Zenon DEF Block
    <3>2. k - 1 \in DOMAIN x
      BY <1>3, <2>1, <3>1, Places, Zenon
    <3> QED BY <1>3, <2>1, <3>1, <3>2, Zenon
  <2>2. ASSUME NEW i \in DOMAIN y, k = m + i, l[k] = y[i]
        PROVE  k > 1 /\ Is(l[k - 1], "update", l[k].of)
    <3>1. i > 1 /\ Is(y[i - 1], "update", y[i].of)
      BY <1>6, <2>2, Zenon DEF Block
    <3>2. i - 1 \in DOMAIN y /\ k > 1 /\ m + (i - 1) = k - 1
      BY <1>3, <2>2, <3>1, Places, Zenon
    <3>3. l[k - 1] = y[i - 1]
      BY <1>3, <3>2, Zenon
    <3> QED BY <2>2, <3>1, <3>2, <3>3, Zenon
  <2> QED BY <1>3, <2>1, <2>2, Zenon
<1>7. ASSUME "register" \in D, NEW p \in P \union Q
      PROVE  Has(l, "register", p)
  <2>1. CASE p \in P
    <3>1. Has(x, "register", p)
      BY <1>7, <2>1, Zenon DEF Block
    <3> QED BY <1>3, <3>1, Zenon DEF Has
  <2>2. CASE p \in Q
    <3>1. Has(y, "register", p)
      BY <1>7, <2>2, Zenon DEF Block
    <3> QED BY <1>3, <3>1, Zenon DEF Has
  <2> QED BY <1>7, <2>1, <2>2, Zenon
<1>8. ASSUME NEW k \in DOMAIN l, NEW h \in DOMAIN l, l[k].do = "start", l[h].do = "start", l[k].of = l[h].of
      PROVE  k = h
  <2>1. /\ \A i, j \in DOMAIN x : x[i].do = "start" /\ x[j].do = "start" /\ x[i].of = x[j].of => i = j
        /\ \A i, j \in DOMAIN y : y[i].do = "start" /\ y[j].do = "start" /\ y[i].of = y[j].of => i = j
    BY Zenon DEF Block
  <2>2. CASE k \in DOMAIN x /\ l[k] = x[k] /\ h \in DOMAIN x /\ l[h] = x[h]
    BY <1>8, <2>1, <2>2, Zenon
  <2>3. ASSUME NEW i \in DOMAIN y, k = m + i, l[k] = y[i], NEW j \in DOMAIN y, h = m + j, l[h] = y[j]
        PROVE  k = h
    BY <1>8, <2>1, <2>3, Zenon
  <2>4. ASSUME NEW i \in DOMAIN x, NEW j \in DOMAIN y, x[i].of = y[j].of
        PROVE  FALSE
    BY <1>4, <2>4, Zenon
  <2>5. (h \in DOMAIN x /\ l[h] = x[h]) \/ \E i \in DOMAIN y : h = m + i /\ l[h] = y[i]
    BY <1>3, Zenon
  <2>6. CASE k \in DOMAIN x /\ l[k] = x[k]
    BY <1>8, <2>2, <2>4, <2>5, <2>6, Zenon
  <2>7. ASSUME NEW i \in DOMAIN y, k = m + i, l[k] = y[i]
        PROVE  k = h
    BY <1>8, <2>3, <2>4, <2>5, <2>7, Zenon
  <2> QED BY <1>3, <2>6, <2>7, Zenon
<1>9. Block(l, P \union Q, D)
  BY <1>2, <1>5, <1>6, <1>7, <1>8, Zenon DEF Block
<1> QED BY <1>9, Zenon DEF l

\* The calls for none.
LEMMA BlockNone ==
  ASSUME NEW D
  PROVE  Block(<<>>, {}, D)
<1>1. <<>> \in Seq(Ops) /\ \A i \in DOMAIN <<>> : FALSE
  BY SMT
<1> QED BY <1>1, Zenon DEF Block

\* A call, and an update.
LEMMA CallOp ==
  ASSUME NEW do \in Dos, NEW p \in Names, NEW is \in States
  PROVE  /\ \E op \in Ops : Call(do, p) = <<op>> /\ Is(op, do, p)
         /\ \E op \in Ops : UpdateTo(p, is) = <<op>> /\ Is(op, "update", p) /\ op.is = is
<1> DEFINE c == [do |-> do, of |-> p, is |-> "none", all |-> Nothing]
           u == [do |-> "update", of |-> p, is |-> is, all |-> Nothing]
<1>1. "none" \in States /\ "update" \in Dos
  BY Zenon DEF States, Dos
<1>2. c \in Ops /\ Call(do, p) = <<c>>
  BY <1>1, NothingType, OneOp, Zenon DEF Call
<1>3. u \in Ops /\ UpdateTo(p, is) = <<u>>
  BY <1>1, NothingType, OneOp, Zenon DEF UpdateTo
<1>4. Is(c, do, p) /\ Is(u, "update", p) /\ u.is = is
  BY Zenon DEF Is
<1> QED BY <1>2, <1>3, <1>4, Zenon

\* What is done in getPluginSet and reconfigure for one plugin.
LEMMA BlockOf ==
  ASSUME NEW p \in Names
  PROVE  /\ Block(CreateOps(p), {p}, {"update", "register"})
         /\ Block(StartOps(p), {p}, {"start"})
         /\ Block(ReconfigureOps(p), {p}, {"reconfigure"})
<1>1. "NotReady" \in States /\ "none" \in States /\ {"register", "start", "reconfigure"} \subseteq Dos
  BY Zenon DEF States, Dos
<1>2. PICK u \in Ops : UpdateTo(p, "NotReady") = <<u>> /\ Is(u, "update", p) /\ u.is = "NotReady"
  BY <1>1, CallOp, Zenon
<1>3. PICK r \in Ops : Call("register", p) = <<r>> /\ Is(r, "register", p)
  BY <1>1, CallOp, Zenon
<1>4. PICK s \in Ops : Call("start", p) = <<s>> /\ Is(s, "start", p)
  BY <1>1, CallOp, Zenon
<1>5. PICK c \in Ops : Call("reconfigure", p) = <<c>> /\ Is(c, "reconfigure", p)
  BY <1>1, CallOp, Zenon
<1>6. Block(CreateOps(p), {p}, {"update", "register"})
  <2> DEFINE l == <<u>> \o <<r>>
  <2>1. l = CreateOps(p)
    BY <1>2, <1>3, Zenon DEF CreateOps
  <2>2. IsTwo(l, Ops, u, r)
    BY Two, Zenon
  <2> HIDE DEF l
  <2>3. l \in Seq(Ops) /\ DOMAIN l = {1, 2} /\ l[1] = u /\ l[2] = r
    BY <2>2, Zenon DEF IsTwo
  <2>4. 2 > 1 /\ 2 - 1 = 1 /\ 1 # 2
    BY SMT
  <2>5. Has(l, "register", p)
    BY <1>3, <2>3, Zenon DEF Has
  <2>6. \A i \in DOMAIN l : /\ l[i].do \in {"update", "register"} /\ l[i].of \in {p} /\ l[i].do # "start"
                            /\ l[i].do = "update" => l[i].is # "none"
                            /\ l[i].do = "register" => i = 2
    BY <1>2, <1>3, <2>3, Zenon DEF Is
  <2>7. \A i \in DOMAIN l : l[i].do = "register" => i > 1 /\ Is(l[i - 1], "update", l[i].of)
    BY <1>2, <1>3, <2>3, <2>4, <2>6, Zenon DEF Is
  <2>8. Block(l, {p}, {"update", "register"})
    BY <2>3, <2>5, <2>6, <2>7, Zenon DEF Block
  <2> QED BY <2>1, <2>8, Zenon
<1>7. ASSUME NEW op \in Ops, NEW do, Is(op, do, p), do \notin {"update", "register"}
      PROVE  Block(<<op>>, {p}, {do})
  <2> DEFINE l == <<op>>
  <2>1. l \in Seq(Ops) /\ DOMAIN l = {1} /\ l[1] = op
    BY One, Zenon
  <2> HIDE DEF l
  <2>2. Block(l, {p}, {do})
    BY <1>7, <2>1, Zenon DEF Block, Is
  <2> QED BY <2>2, Zenon DEF l
<1>8. Block(StartOps(p), {p}, {"start"})
  BY <1>4, <1>7, Zenon DEF StartOps
<1>9. Block(ReconfigureOps(p), {p}, {"reconfigure"})
  BY <1>5, <1>7, Zenon DEF ReconfigureOps
<1> QED BY <1>6, <1>8, <1>9, Zenon

\* The calls for the plugins getPluginSet goes through.
LEMMA BlockEach ==
  ASSUME NEW ps \in SUBSET Configurable, NEW D, NEW a, NEW b, NEW c,
         Block(a, ps \intersect {Bundle}, D), Block(b, ps \intersect {Logs}, D),
         Block(c, ps \intersect {Status}, D)
  PROVE  Block(a \o b \o c, ps, D)
<1>1. Bundle # Logs /\ Bundle # Status /\ Logs # Status
  BY Zenon DEF Bundle, Logs, Status
<1>2. Block(a \o b, (ps \intersect {Bundle}) \union (ps \intersect {Logs}), D)
  BY <1>1, BlockJoin, Zenon
<1>3. Block(a \o b \o c, ((ps \intersect {Bundle}) \union (ps \intersect {Logs})) \union (ps \intersect {Status}), D)
  BY <1>1, <1>2, BlockJoin, Zenon
<1>4. ((ps \intersect {Bundle}) \union (ps \intersect {Logs})) \union (ps \intersect {Status}) = ps
  BY Zenon DEF Configurable
<1> QED BY <1>3, <1>4, Zenon

\* What is done for each of a set of plugins.
LEMMA Blocks ==
  ASSUME NEW ps \in SUBSET Configurable
  PROVE  /\ Block(Each(CreateOps, ps), ps, {"update", "register"})
         /\ Block(Each(StartOps, ps), ps, {"start"})
         /\ Block(Each(ReconfigureOps, ps), ps, {"reconfigure"})
<1>1. Bundle \in Names /\ Logs \in Names /\ Status \in Names
  BY Zenon DEF Names, Workers
<1>2. ASSUME NEW p \in Names, NEW l, NEW D, Block(l, {p}, D)
      PROVE  Block(IF p \in ps THEN l ELSE <<>>, ps \intersect {p}, D)
  <2>1. CASE p \in ps
    <3>1. ps \intersect {p} = {p}
      BY <2>1, Zenon
    <3> QED BY <1>2, <2>1, <3>1, Zenon
  <2>2. CASE p \notin ps
    <3>1. ps \intersect {p} = {}
      BY <2>2, Zenon
    <3> QED BY <2>2, <3>1, BlockNone, Zenon
  <2> QED BY <2>1, <2>2, Zenon
<1>3. Block(Each(CreateOps, ps), ps, {"update", "register"})
  <2> DEFINE D == {"update", "register"}
             f(p) == IF p \in ps THEN CreateOps(p) ELSE <<>>
  <2>1. \A p \in Names : Block(CreateOps(p), {p}, D)
    BY BlockOf, Zenon
  <2> HIDE DEF D
  <2>2. \A p \in Names : Block(f(p), ps \intersect {p}, D)
    BY <1>2, <2>1, Zenon
  <2>3. Each(CreateOps, ps) = f(Bundle) \o f(Logs) \o f(Status)
    BY DEF Each
  <2> HIDE DEF f
  <2>4. Block(f(Bundle) \o f(Logs) \o f(Status), ps, D)
    BY <1>1, <2>2, BlockEach, Zenon
  <2> QED BY <2>3, <2>4, Zenon DEF D
<1>4. Block(Each(StartOps, ps), ps, {"start"})
  <2> DEFINE D == {"start"}
             f(p) == IF p \in ps THEN StartOps(p) ELSE <<>>
  <2>1. \A p \in Names : Block(StartOps(p), {p}, D)
    BY BlockOf, Zenon
  <2> HIDE DEF D
  <2>2. \A p \in Names : Block(f(p), ps \intersect {p}, D)
    BY <1>2, <2>1, Zenon
  <2>3. Each(StartOps, ps) = f(Bundle) \o f(Logs) \o f(Status)
    BY DEF Each
  <2> HIDE DEF f
  <2>4. Block(f(Bundle) \o f(Logs) \o f(Status), ps, D)
    BY <1>1, <2>2, BlockEach, Zenon
  <2> QED BY <2>3, <2>4, Zenon DEF D
<1>5. Block(Each(ReconfigureOps, ps), ps, {"reconfigure"})
  <2> DEFINE D == {"reconfigure"}
             f(p) == IF p \in ps THEN ReconfigureOps(p) ELSE <<>>
  <2>1. \A p \in Names : Block(ReconfigureOps(p), {p}, D)
    BY BlockOf, Zenon
  <2> HIDE DEF D
  <2>2. \A p \in Names : Block(f(p), ps \intersect {p}, D)
    BY <1>2, <2>1, Zenon
  <2>3. Each(ReconfigureOps, ps) = f(Bundle) \o f(Logs) \o f(Status)
    BY DEF Each
  <2> HIDE DEF f
  <2>4. Block(f(Bundle) \o f(Logs) \o f(Status), ps, D)
    BY <1>1, <2>2, BlockEach, Zenon
  <2> QED BY <2>3, <2>4, Zenon DEF D
<1> QED BY <1>3, <1>4, <1>5, Zenon

\* Calls that register and begin nothing.
Plain(l) ==
    /\ l \in Seq(Ops)
    /\ \A i \in DOMAIN l : /\ l[i].do \notin {"notify", "register", "start", "run", "listen"}
                           /\ l[i].do = "update" => l[i].is # "none"

\* They are in order.
LEMMA PlainOrderly ==
  ASSUME NEW l, Plain(l), NEW R, NEW K
  PROVE  Orderly(l, R, K) /\ \A i \in DOMAIN l : ~Token(l[i]) /\ \A p : ~Begins(l[i], p)
<1>1. \A i \in DOMAIN l : ~Token(l[i]) /\ \A p : ~Begins(l[i], p)
  BY Zenon DEF Plain, Token, Begins, Is
<1> QED BY <1>1, Zenon DEF Orderly, Plain, Is

\* The calls with which a set of plugins is created, and those with which it is started.
LEMMA BlockOrderly ==
  ASSUME NEW l, NEW ps \in SUBSET Configurable, NEW D, Block(l, ps, D),
         D \subseteq {"update", "register", "start"}, NEW R, NEW K, "start" \in D => ps \subseteq R
  PROVE  Orderly(l, R, K)
<1>1. \A i \in DOMAIN l : /\ l[i].do \in D /\ l[i].of \in ps
                          /\ l[i].do \in {"update", "register", "start"}
                          /\ l[i].do = "update" => l[i].is # "none"
  BY Zenon DEF Block
<1>2. Discovery \notin ps
  BY Zenon DEF Configurable, Discovery, Bundle, Logs, Status
<1>3. \A i \in DOMAIN l : Token(l[i]) => l[i].do = "start" /\ l[i].of = Status /\ Status \in R
  BY <1>1, Zenon DEF Token, Is
<1>4. \A i, j \in DOMAIN l : Token(l[i]) /\ Token(l[j]) => i = j
  BY <1>3, Zenon DEF Block
<1>5. \A i \in DOMAIN l : ~Begins(l[i], Discovery) /\ ~Is(l[i], "register", Discovery)
  BY <1>1, <1>2, Zenon DEF Begins, Is
<1>6. \A i \in DOMAIN l : l[i].do # "notify" /\ l[i].do # "listen"
  BY <1>1, Zenon
<1>7. \A i \in DOMAIN l : l[i].do = "register" =>
         l[i].of \in K \/ l[i].of = Discovery \/ (i > 1 /\ Is(l[i - 1], "update", l[i].of))
  BY Zenon DEF Block
<1>8. l \in Seq(Ops)
  BY Zenon DEF Block
<1> QED BY <1>1, <1>3, <1>4, <1>5, <1>6, <1>7, <1>8, Zenon DEF Orderly

\* The elements of two lists, one after the other.
LEMMA JoinElements ==
  ASSUME NEW x \in Seq(Ops), NEW y \in Seq(Ops), NEW k \in DOMAIN (x \o y)
  PROVE  (\E i \in DOMAIN x : (x \o y)[k] = x[i]) \/ (\E i \in DOMAIN y : (x \o y)[k] = y[i])
<1> DEFINE l == x \o y
<1>1. IsJoin(l, x, y) /\ k \in DOMAIN l
  BY Joined, Zenon
<1> HIDE DEF l
<1>2. (\E i \in DOMAIN x : l[k] = x[i]) \/ (\E i \in DOMAIN y : l[k] = y[i])
  BY <1>1, Zenon DEF IsJoin
<1> QED BY <1>2, Zenon DEF l

\* What follows in order when it registers and begins nothing.
LEMMA PlainJoin ==
  ASSUME NEW R, NEW K, NEW x, NEW y, Orderly(x, R, K), Plain(y),
         \A i \in DOMAIN x : ~Begins(x[i], Discovery)
  PROVE  Orderly(x \o y, R, K)
<1>1. Orderly(y, R, K) /\ \A i \in DOMAIN y : ~Token(y[i])
  BY PlainOrderly, Zenon
<1>2. \A i \in DOMAIN y : y[i].do # "notify" /\ ~Is(y[i], "register", Discovery)
  BY Zenon DEF Plain, Is
<1> QED BY <1>1, <1>2, OrderlyJoin, Zenon

\* What discovery does with a configuration: it registers and starts plugins that were not
\* registered, never itself.
Configuring(l) ==
    /\ Orderly(l, Registered, Known)
    /\ \A i \in DOMAIN l : /\ l[i].do \in {"update", "register", "start", "reconfigure", "tell"}
                           /\ l[i].do \in {"register", "start"} => l[i].of # Discovery
                           /\ l[i].do = "start" => l[i].of \notin Registered

ConfigDos == {"update", "register", "start", "reconfigure"}

\* The calls of getPluginSet and reconfigure.
LEMMA ConfigureShape ==
  ASSUME NEW config \in SUBSET Configurable
  PROVE  Configuring(ConfigureOps(config)) /\ Makes(ConfigureOps(config), ConfigDos)
<1> DEFINE new == config \ Registered
           old == config \intersect Registered
           a == Each(CreateOps, new)
           b == Each(StartOps, new)
           c == Each(ReconfigureOps, old)
           ab == a \o b
           l == ab \o c
<1>1. new \in SUBSET Configurable /\ old \in SUBSET Configurable
  BY Zenon
<1>2. \A p \in new : p \notin Registered /\ p # Discovery
  BY Zenon DEF Configurable, Discovery, Bundle, Logs, Status
<1>3. l = ConfigureOps(config)
  BY DEF ConfigureOps
<1> HIDE DEF new, old
<1>4. Block(a, new, {"update", "register"}) /\ Block(b, new, {"start"}) /\ Block(c, old, {"reconfigure"})
  BY <1>1, Blocks, Zenon
<1> HIDE DEF a, b, c
<1>5. /\ a \in Seq(Ops) /\ b \in Seq(Ops) /\ c \in Seq(Ops)
      /\ \A i \in DOMAIN a : a[i].do \in {"update", "register"} /\ a[i].of \in new
      /\ \A i \in DOMAIN b : b[i].do = "start" /\ b[i].of \in new
      /\ \A i \in DOMAIN c : c[i].do = "reconfigure"
      /\ \A p \in new : Has(a, "register", p)
  BY <1>4, Zenon DEF Block
<1>6. Orderly(a, Registered, Known) /\ Orderly(b, Registered \union new, Known)
  <2>1. /\ {"update", "register"} \subseteq {"update", "register", "start"}
        /\ {"start"} \subseteq {"update", "register", "start"}
        /\ "start" \notin {"update", "register"} /\ new \subseteq Registered \union new
    BY Zenon
  <2>2. Orderly(a, Registered, Known)
    BY <1>1, <1>4, <2>1, BlockOrderly, Zenon
  <2>3. Orderly(b, Registered \union new, Known)
    BY <1>1, <1>4, <2>1, BlockOrderly, Zenon
  <2> QED BY <2>2, <2>3, Zenon
<1>7. \A i \in DOMAIN a : ~Token(a[i]) /\ ~Begins(a[i], Discovery)
  BY <1>5, Zenon DEF Token, Begins, Is
<1>8. \A i \in DOMAIN b : b[i].do # "notify" /\ ~Begins(b[i], Discovery)
  BY <1>2, <1>5, Zenon DEF Begins
<1>9. Orderly(ab, Registered, Known)
  BY <1>5, <1>6, <1>7, <1>8, OrderlyJoin, Zenon
<1>10. ab \in Seq(Ops)
  BY <1>5, Joined, Zenon
<1>11. ASSUME NEW k \in DOMAIN ab
       PROVE  /\ ab[k].do \in {"update", "register", "start"} /\ ab[k].of \in new
              /\ ~Begins(ab[k], Discovery)
  <2>1. (\E i \in DOMAIN a : ab[k] = a[i]) \/ (\E i \in DOMAIN b : ab[k] = b[i])
    BY <1>5, JoinElements, Zenon
  <2>2. CASE \E i \in DOMAIN a : ab[k] = a[i]
    BY <1>5, <1>7, <2>2, Zenon
  <2>3. CASE \E i \in DOMAIN b : ab[k] = b[i]
    BY <1>5, <1>8, <2>3, Zenon
  <2> QED BY <2>1, <2>2, <2>3, Zenon
<1> HIDE DEF ab
<1>12. Plain(c)
  BY <1>5, Zenon DEF Plain
<1>13. Orderly(l, Registered, Known)
  BY <1>9, <1>11, <1>12, PlainJoin, Zenon
<1>14. ASSUME NEW k \in DOMAIN l
       PROVE  /\ l[k].do \in {"update", "register", "start", "reconfigure"}
              /\ l[k].do \in {"register", "start"} => l[k].of # Discovery
              /\ l[k].do = "start" => l[k].of \notin Registered
  <2>1. (\E i \in DOMAIN ab : l[k] = ab[i]) \/ (\E i \in DOMAIN c : l[k] = c[i])
    BY <1>5, <1>10, JoinElements, Zenon
  <2>2. CASE \E i \in DOMAIN ab : l[k] = ab[i]
    BY <1>2, <1>11, <2>2, Zenon
  <2>3. CASE \E i \in DOMAIN c : l[k] = c[i]
    BY <1>5, <2>3, Zenon
  <2> QED BY <2>1, <2>2, <2>3, Zenon
<1>15. Configuring(l) /\ Makes(l, ConfigDos)
  BY <1>13, <1>14, Zenon DEF Configuring, Makes, ConfigDos
<1> QED BY <1>3, <1>15, Zenon

\* What is begun then is not discovery.
LEMMA ConfiguringBegins ==
  ASSUME NEW l, Configuring(l), NEW i \in DOMAIN l
  PROVE  /\ \A p : Begins(l[i], p) => p \notin Registered
         /\ ~Begins(l[i], Discovery)
         /\ Token(l[i]) => Status \notin Registered
         /\ ~Is(l[i], "register", Discovery)
<1>1. /\ l[i].do \in {"update", "register", "start", "reconfigure", "tell"}
      /\ l[i].do \in {"register", "start"} => l[i].of # Discovery
      /\ l[i].do = "start" => l[i].of \notin Registered
  BY Zenon DEF Configuring
<1>2. \A p : Begins(l[i], p) => l[i].do = "start" /\ l[i].of = p
  BY <1>1, Zenon DEF Begins
<1>3. Token(l[i]) => l[i].do = "start" /\ l[i].of = Status
  BY <1>1, Zenon DEF Token, Is
<1>4. ~Is(l[i], "register", Discovery)
  BY <1>1, Zenon DEF Is
<1> QED BY <1>1, <1>2, <1>3, <1>4, Zenon

\* A status that is updated, or a report, after that.
LEMMA ConfiguringMore ==
  ASSUME NEW x, Configuring(x), NEW y, Plain(y), \A i \in DOMAIN y : y[i].do \in {"update", "tell"}
  PROVE  Configuring(x \o y)
<1> DEFINE l == x \o y
<1>1. Orderly(l, Registered, Known)
  BY ConfiguringBegins, PlainJoin, Zenon DEF Configuring
<1>2. x \in Seq(Ops) /\ y \in Seq(Ops)
  BY Zenon DEF Configuring, Orderly, Plain
<1>3. ASSUME NEW k \in DOMAIN l
      PROVE  /\ l[k].do \in {"update", "register", "start", "reconfigure", "tell"}
             /\ l[k].do \in {"register", "start"} => l[k].of # Discovery
             /\ l[k].do = "start" => l[k].of \notin Registered
  <2>1. (\E i \in DOMAIN x : l[k] = x[i]) \/ (\E i \in DOMAIN y : l[k] = y[i])
    BY <1>2, JoinElements, Zenon
  <2>2. CASE \E i \in DOMAIN x : l[k] = x[i]
    BY <2>2, Zenon DEF Configuring
  <2>3. CASE \E i \in DOMAIN y : l[k] = y[i]
    BY <2>3, Zenon
  <2> QED BY <2>1, <2>2, <2>3, Zenon
<1> HIDE DEF l
<1>4. Configuring(l)
  BY <1>1, <1>3, Zenon DEF Configuring
<1> QED BY <1>4, Zenon DEF l

\* One call that registers and begins nothing, or none.
LEMMA PlainShort ==
  ASSUME NEW op \in Ops, op.do \notin {"notify", "register", "start", "run", "listen"},
         op.do = "update" => op.is # "none"
  PROVE  /\ Plain(<<>>) /\ \A i \in DOMAIN <<>> : FALSE
         /\ Plain(<<op>>) /\ \A i \in DOMAIN <<op>> : <<op>>[i] = op
<1>1. <<>> \in Seq(Ops) /\ \A i \in DOMAIN <<>> : FALSE
  BY SMT
<1>2. <<op>> \in Seq(Ops) /\ DOMAIN <<op>> = {1} /\ <<op>>[1] = op
  BY One, Zenon
<1>3. \A i \in DOMAIN <<op>> : <<op>>[i] = op
  BY <1>2, Zenon
<1> QED BY <1>1, <1>2, <1>3, Zenon DEF Plain

-----------------------------------------------------------------------------
(* A thread that begins a list.                                            *)

\* The thread t has l to do now, instead of what it had, which told nobody.
Begun(t, l) ==
    /\ t \in Threads /\ ~Calls(t, "notify") /\ ~Calls(t, "update")
    /\ todo' = [todo EXCEPT ![t] = l]
    /\ Orderly(l, Registered, Known)
    /\ \A i \in DOMAIN l :
          /\ l[i].do # "notify" /\ ~Is(l[i], "register", Discovery)
          /\ Token(l[i]) => Status \notin Registered /\ \A u \in Threads \ {t} : ~HasToken(u)
    /\ env' = env /\ plugins' = plugins /\ state' = state /\ listening' = listening
    /\ channel' = channel /\ last' = last /\ raced' = raced

\* What follows for the lists.
LEMMA BegunLists ==
  ASSUME Types, NEW t, NEW l, Begun(t, l)
  PROVE  /\ t \in Threads /\ l \in Seq(Ops) /\ todo' \in [Threads -> Seq(Ops)] /\ todo'[t] = l
         /\ \A u \in Threads : u # t => todo'[u] = todo[u]
         /\ Registered' = Registered /\ Known' = Known
         /\ ~Calls(t, "notify")'
<1>1. t \in Threads /\ l \in Seq(Ops) /\ todo' = [todo EXCEPT ![t] = l]
  BY Zenon DEF Begun, Orderly
<1>2. /\ todo' \in [Threads -> Seq(Ops)] /\ todo'[t] = l
      /\ \A u \in Threads : u # t => todo'[u] = todo[u]
  BY <1>1, Zenon DEF Types
<1>3. Registered' = Registered /\ Known' = Known
  BY Zenon DEF Begun, Registered, Known
<1>4. l # <<>> => Head(l).do # "notify"
  <2> SUFFICES ASSUME l # <<>> PROVE Head(l).do # "notify"
    OBVIOUS
  <2>1. 1 \in DOMAIN l /\ Head(l) = l[1]
    BY <1>1, FirstCall, Zenon
  <2> QED BY <2>1, Zenon DEF Begun
<1>5. ~Calls(t, "notify")'
  BY <1>2, <1>4, Zenon DEF Calls
<1> QED BY <1>1, <1>2, <1>3, <1>5, Zenon

\* All lists are in order.
LEMMA BegunOrderly ==
  ASSUME Types, Threaded, NEW t, NEW l, Begun(t, l)
  PROVE  \A u \in Threads : Orderly(todo'[u], Registered', Known')
<1>1. /\ todo'[t] = l /\ \A u \in Threads : u # t => todo'[u] = todo[u]
      /\ Registered' = Registered /\ Known' = Known
  BY BegunLists, Zenon
<1>2. Orderly(l, Registered, Known) /\ \A u \in Threads : Orderly(todo[u], Registered, Known)
  BY Zenon DEF Begun, Threaded
<1> QED BY <1>1, <1>2, Zenon

\* Who notifies, and who updates, stays the same, but for t, which may begin to update.
LEMMA BegunCalls ==
  ASSUME Types, NEW t, NEW l, Begun(t, l)
  PROVE  /\ NoNotify' <=> NoNotify
         /\ \A u \in Threads : Calls(u, "notify")' => u # t /\ Calls(u, "notify") /\ todo'[u] = todo[u]
         /\ (\E u \in Threads : Calls(u, "update")) => \E u \in Threads : Calls(u, "update")'
<1>1. /\ \A u \in Threads : u # t => todo'[u] = todo[u]
      /\ ~Calls(t, "notify")'
  BY BegunLists, Zenon
<1>2. ~Calls(t, "notify") /\ ~Calls(t, "update")
  BY Zenon DEF Begun
<1>3. \A u \in Threads : u # t =>
         (Calls(u, "notify")' <=> Calls(u, "notify")) /\ (Calls(u, "update")' <=> Calls(u, "update"))
  BY <1>1, Zenon DEF Calls
<1>4. NoNotify' <=> NoNotify
  BY <1>1, <1>2, <1>3, Zenon DEF NoNotify
<1> QED BY <1>1, <1>2, <1>3, <1>4, Zenon

\* What the status plugin has heard and will hear of is the same.
LEMMA BegunTold ==
  ASSUME Types, Told, NEW t, NEW l, Begun(t, l)
  PROVE  Told'
<1>1. /\ state' = state /\ listening' = listening /\ channel' = channel /\ last' = last
      /\ raced' = raced
  BY Zenon DEF Begun
<1> SUFFICES ASSUME listening # {}, raced = "no"
             PROVE  /\ \A u \in Threads : Calls(u, "notify")' => Head(todo'[u]).all = state
                    /\ NoNotify' /\ channel # Nothing => channel = state
                    /\ NoNotify' /\ channel = Nothing =>
                          last = state \/ \E u \in Threads : Calls(u, "update")'
  BY <1>1, Zenon DEF Told, Nothing
<1>2. /\ \A u \in Threads : Calls(u, "notify") => Head(todo[u]).all = state
      /\ NoNotify /\ channel # Nothing => channel = state
      /\ NoNotify /\ channel = Nothing => last = state \/ \E u \in Threads : Calls(u, "update")
  BY Zenon DEF Told
<1>3. /\ NoNotify' <=> NoNotify
      /\ \A u \in Threads : Calls(u, "notify")' => Calls(u, "notify") /\ todo'[u] = todo[u]
      /\ (\E u \in Threads : Calls(u, "update")) => \E u \in Threads : Calls(u, "update")'
  BY BegunCalls, Zenon
<1> QED BY <1>2, <1>3, Zenon

\* At most one thread will make the status plugin listen, and nobody has until then.
LEMMA BegunListen ==
  ASSUME Types, ListenOnce, NEW t, NEW l, Begun(t, l)
  PROVE  ListenOnce'
<1>1. /\ t \in Threads /\ todo'[t] = l /\ \A u \in Threads : u # t => todo'[u] = todo[u]
      /\ Registered' = Registered
  BY BegunLists, Zenon
<1>2. \A u \in Threads : u # t => (HasToken(u)' <=> HasToken(u))
  BY <1>1, Zenon DEF HasToken
<1>3. HasToken(t)' => Status \notin Registered /\ \A u \in Threads : u # t => ~HasToken(u)
  BY <1>1, Zenon DEF HasToken, Begun
<1>4. \A u, v \in Threads : HasToken(u)' /\ HasToken(v)' => u = v
  <2>1. \A u, v \in Threads : HasToken(u) /\ HasToken(v) => u = v
    BY Zenon DEF ListenOnce
  <2> QED BY <1>2, <1>3, <2>1, Zenon
<1>5. Unheard => Unheard'
  <2>1. listening' = listening /\ channel' = channel
    BY Zenon DEF Begun
  <2> QED BY <2>1, BegunCalls, Zenon DEF Unheard, Nothing
<1>6. Status \notin Registered \/ (\E u \in Threads : HasToken(u)') => Unheard'
  <2>1. Status \notin Registered \/ (\E u \in Threads : HasToken(u)) => Unheard
    BY Zenon DEF ListenOnce
  <2> QED BY <1>2, <1>3, <1>5, <2>1, Zenon
<1>7. ASSUME Has(todo'[Main], "register", Discovery)
      PROVE  listening' = {}
  <2>1. Main \in Threads /\ listening' = listening
    BY Zenon DEF Threads, Begun
  <2>2. t # Main
    BY <1>1, <1>7, Zenon DEF Has, Begun
  <2>3. Has(todo[Main], "register", Discovery)
    BY <1>1, <1>7, <2>1, <2>2, Zenon
  <2> QED BY <2>1, <2>3, Zenon DEF ListenOnce
<1> QED BY <1>1, <1>4, <1>6, <1>7, Zenon DEF ListenOnce

\* When discovery has begun, nobody else will make the status plugin listen.
LEMMA OnlyDiscovery ==
  ASSUME Types, Threaded, Discovering, NEW u \in Threads, u # Discovery
  PROVE  ~HasToken(u)
<1> SUFFICES ASSUME NEW i \in DOMAIN todo[u], Token(todo[u][i]) PROVE FALSE
  BY Zenon DEF HasToken
<1>1. todo[u][i].do \in {"start", "listen"}
  BY Zenon DEF Token, Is
<1>2. u = Main /\ main = "boot"
  BY <1>1, Who, Zenon
<1>3. todo[Main] = <<>>
  BY <1>2, Zenon DEF Threaded
<1> QED BY <1>2, <1>3, SMT

\* A goroutine begins a callback.
LEMMA WorkerKeeps ==
  ASSUME IInv, NEW t \in Workers, NEW l, Begun(t, l), todo[t] = <<>>, running[t] # "off",
         running' \in [Workers -> Goroutines],
         \A w \in Workers : running'[w] = "off" <=> running[w] = "off",
         loop' = loop, main' = main, toStop' = toStop,
         t # Discovery => Makes(l, WorkerDos),
         t = Discovery => Configuring(l)
  PROVE  IInv'
<1>1. Types /\ Threaded /\ DiscoveryFirst /\ Halting /\ ListenOnce /\ Told
  BY Zenon DEF IInv
<1>2. /\ l \in Seq(Ops) /\ todo' \in [Threads -> Seq(Ops)] /\ todo'[t] = l
      /\ \A u \in Threads : u # t => todo'[u] = todo[u]
      /\ Registered' = Registered /\ Known' = Known
  BY <1>1, BegunLists, Zenon
<1>3. /\ env' = env /\ plugins' = plugins /\ state' = state /\ listening' = listening
  BY Zenon DEF Begun
<1>4. /\ Bundle \in Threads /\ Logs \in Threads /\ Discovery \in Threads /\ Main \in Threads
      /\ Discovery \in Workers /\ t # Main /\ t \in {Discovery, Bundle, Logs}
      /\ Bundle # Discovery /\ Logs # Discovery
  BY Zenon DEF Threads, Workers, Main, Discovery, Bundle, Logs
<1>5. todo'[Main] = todo[Main]
  BY <1>2, <1>4, Zenon
<1>6. Types'
  BY <1>1, <1>2, <1>3, Zenon DEF Types
<1>7. Discovering' <=> Discovering
  <2>1. CASE t = Discovery
    BY <1>4, <2>1, Zenon DEF Discovering
  <2>2. CASE t # Discovery
    BY <1>2, <1>4, <2>2, Zenon DEF Discovering
  <2> QED BY <2>1, <2>2, Zenon
<1>8. Duties'
  <2>1. /\ Makes(todo[Bundle], WorkerDos) /\ Makes(todo[Logs], WorkerDos)
        /\ Makes(todo[Discovery], ConfigureDos \union {"tell"})
        /\ \A i \in DOMAIN todo[Discovery] : todo[Discovery][i].do \in {"register", "start", "run", "listen"}
              => todo[Discovery][i].of # Discovery
        /\ main = "boot" => Makes(todo[Main], ConfigureDos)
        /\ main = "stop" => Makes(todo[Main], StopDos)
        /\ main \in {"up", "stopped"} => todo[Main] = <<>>
    BY <1>1, Zenon DEF Threaded, Duties
  <2>2. Makes(todo'[Bundle], WorkerDos) /\ Makes(todo'[Logs], WorkerDos)
    BY <1>2, <1>4, <2>1, Zenon
  <2>3. /\ Makes(todo'[Discovery], ConfigureDos \union {"tell"})
        /\ \A i \in DOMAIN todo'[Discovery] : todo'[Discovery][i].do \in {"register", "start", "run", "listen"}
              => todo'[Discovery][i].of # Discovery
    <3>1. CASE t = Discovery
      <4>1. \A i \in DOMAIN l : /\ l[i].do \in {"update", "register", "start", "reconfigure", "tell"}
                                /\ l[i].do \in {"register", "start"} => l[i].of # Discovery
        BY <3>1, Zenon DEF Configuring
      <4>2. Makes(l, ConfigureDos \union {"tell"})
        BY <4>1, Zenon DEF Makes, ConfigureDos
      <4> QED BY <1>2, <3>1, <4>1, <4>2, Zenon
    <3>2. CASE t # Discovery
      BY <1>2, <1>4, <2>1, <3>2, Zenon
    <3> QED BY <3>1, <3>2, Zenon
  <2> QED BY <1>5, <2>1, <2>2, <2>3, Zenon DEF Duties
<1>9. Threaded'
  <2>1. \A u \in Threads : Orderly(todo'[u], Registered', Known')
    BY <1>1, BegunOrderly, Zenon
  <2>2. /\ Discovering => /\ main # "boot" \/ todo[Main] = <<>>
                          /\ Discovery \in Registered
                          /\ env.discovery # "no"
        /\ \A i \in DOMAIN todo[Main] : todo[Main][i].of = Discovery =>
              /\ todo[Main][i].do \in {"run", "stop"} => env.discovery # "no"
              /\ todo[Main][i].do = "stop" => Discovery \in Registered
    BY <1>1, Zenon DEF Threaded
  <2> QED BY <1>2, <1>3, <1>5, <1>7, <1>8, <2>1, <2>2, Zenon DEF Threaded
<1>10. \A p : Pending(p)' => Pending(p) \/ p \notin Registered
  <2>1. CASE t = Discovery
    BY <1>2, <2>1, ConfiguringBegins, Zenon DEF Pending
  <2>2. CASE t # Discovery
    BY <1>2, <1>4, <2>2, Zenon DEF Pending
  <2> QED BY <2>1, <2>2, Zenon
<1>11. DiscoveryFirst'
  <2> SUFFICES ASSUME NEW p \in Names, Pending(p)', NEW k \in DOMAIN plugins, plugins[k] = p
               PROVE  \E j \in 1..(k - 1) : plugins[j] = Discovery
    BY <1>3, Zenon DEF DiscoveryFirst
  <2>1. p \in Registered
    BY Zenon DEF Registered, Range
  <2> QED BY <1>1, <1>10, <2>1, Zenon DEF DiscoveryFirst
<1>12. Halting'
  <2> SUFFICES ASSUME main \in {"stop", "stopped"}
               PROVE  /\ Discovering' => Has(todo[Main], "await", Discovery)
                      /\ \A i \in DOMAIN todo[Main] : todo[Main][i].do = "stop" =>
                            \E j \in DOMAIN todo[Main] : i < j /\ Is(todo[Main][j], "await", todo[Main][i].of)
                      /\ \A h \in Halts : h[2] \in Range(toStop) =>
                            /\ Pending(h[2])' => HasAfter(todo[Main], h[1], h[2])
                            /\ Ends(h[1], h[2])' \/ Has(todo[Main], h[1], h[2])
    BY <1>5, Zenon DEF Halting
  <2>1. /\ Discovering => Has(todo[Main], "await", Discovery)
        /\ \A i \in DOMAIN todo[Main] : todo[Main][i].do = "stop" =>
              \E j \in DOMAIN todo[Main] : i < j /\ Is(todo[Main][j], "await", todo[Main][i].of)
        /\ \A h \in Halts : h[2] \in Range(toStop) =>
              /\ Pending(h[2]) => HasAfter(todo[Main], h[1], h[2])
              /\ Ends(h[1], h[2]) \/ Has(todo[Main], h[1], h[2])
    BY <1>1, Zenon DEF Halting
  <2>2. ASSUME NEW h \in Halts, h[2] \in Range(toStop)
        PROVE  Pending(h[2])' => HasAfter(todo[Main], h[1], h[2])
    <3>1. h[2] \in Registered
      BY <1>1, <2>2, Zenon DEF Types
    <3> QED BY <1>10, <2>1, <2>2, <3>1, Zenon
  <2>3. ASSUME NEW h \in Halts, Ends(h[1], h[2])
        PROVE  Ends(h[1], h[2])'
    <3>1. h[1] \in {"await", "unlisten"} /\ h[2] \in Names
      BY HaltParts, Zenon
    <3>2. CASE h[1] = "unlisten" \/ h[2] = Status
      BY <1>3, <2>3, <3>2, Zenon DEF Ends
    <3>3. CASE h[1] # "unlisten" /\ h[2] # Status
      <4>1. h[2] \in Workers /\ h[2] \in Threads /\ running[h[2]] = "off" /\ todo[h[2]] = <<>>
        BY <2>3, <3>1, <3>3, Zenon DEF Ends, Names, Threads
      <4>2. running'[h[2]] = "off" /\ todo'[h[2]] = <<>>
        BY <1>2, <4>1, Zenon
      <4> QED BY <3>3, <4>2, Zenon DEF Ends
    <3> QED BY <3>2, <3>3, Zenon
  <2> QED BY <1>7, <2>1, <2>2, <2>3, Zenon
<1> QED BY <1>1, <1>6, <1>9, <1>11, <1>12, BegunListen, BegunTold, Zenon DEF IInv

\* Calls that register and begin nothing, one list after another.
LEMMA PlainAppend ==
  ASSUME NEW x, NEW y, Plain(x), Plain(y), NEW D, Makes(x, D), Makes(y, D)
  PROVE  Plain(x \o y) /\ Makes(x \o y, D)
<1> DEFINE l == x \o y
<1>1. x \in Seq(Ops) /\ y \in Seq(Ops)
  BY Zenon DEF Plain
<1>2. l \in Seq(Ops)
  BY <1>1, Joined, Zenon
<1>3. ASSUME NEW k \in DOMAIN l
      PROVE  /\ l[k].do \notin {"notify", "register", "start", "run", "listen"}
             /\ l[k].do = "update" => l[k].is # "none"
             /\ l[k].do \in D
  <2>1. (\E i \in DOMAIN x : l[k] = x[i]) \/ (\E i \in DOMAIN y : l[k] = y[i])
    BY <1>1, JoinElements, Zenon
  <2>2. CASE \E i \in DOMAIN x : l[k] = x[i]
    BY <2>2, Zenon DEF Plain, Makes
  <2>3. CASE \E i \in DOMAIN y : l[k] = y[i]
    BY <2>3, Zenon DEF Plain, Makes
  <2> QED BY <2>1, <2>2, <2>3, Zenon
<1> HIDE DEF l
<1>4. Plain(l) /\ Makes(l, D)
  BY <1>2, <1>3, Zenon DEF Plain, Makes
<1> QED BY <1>4, Zenon DEF l

\* The reports.
LEMMA Reports ==
  /\ Plain(<<>>) /\ Makes(<<>>, {"update"})
  /\ Plain(Call("tell", Status)) /\ Makes(Call("tell", Status), {"tell"})
  /\ \A p \in Names : Plain(UpdateTo(p, "OK")) /\ Makes(UpdateTo(p, "OK"), {"update"})
<1>1. "tell" \in Dos /\ Status \in Names /\ "OK" \in States
  BY Zenon DEF Dos, Names, States
<1>2. PICK o \in Ops : Call("tell", Status) = <<o>> /\ Is(o, "tell", Status)
  BY <1>1, CallOp, Zenon
<1>3. o.do = "tell"
  BY <1>2, Zenon DEF Is
<1>4. /\ Plain(<<>>) /\ \A i \in DOMAIN <<>> : FALSE
      /\ Plain(<<o>>) /\ \A i \in DOMAIN <<o>> : <<o>>[i] = o
  BY <1>3, PlainShort, Zenon
<1>5. ASSUME NEW p \in Names
      PROVE  Plain(UpdateTo(p, "OK")) /\ Makes(UpdateTo(p, "OK"), {"update"})
  <2>1. PICK u \in Ops : UpdateTo(p, "OK") = <<u>> /\ Is(u, "update", p) /\ u.is = "OK"
    BY <1>1, CallOp, Zenon
  <2>2. u.do = "update" /\ u.is # "none"
    BY <2>1, Zenon DEF Is
  <2>3. Plain(<<u>>) /\ \A i \in DOMAIN <<u>> : <<u>>[i] = u
    BY <2>2, PlainShort, Zenon
  <2> QED BY <2>1, <2>2, <2>3, Zenon DEF Makes
<1> QED BY <1>2, <1>3, <1>4, <1>5, Zenon DEF Makes

\* A goroutine that begins a callback was idle.
LEMMA Going ==
  ASSUME Types, NEW w \in Workers, MayGo(w)
  PROVE  /\ w \in Threads /\ todo[w] = <<>> /\ running[w] # "off"
         /\ ~Calls(w, "notify") /\ ~Calls(w, "update")
         /\ Goes(w) \in [Workers -> Goroutines]
         /\ \A v \in Workers : Goes(w)[v] = "off" <=> running[v] = "off"
<1>1. w \in Threads /\ todo[w] = <<>> /\ running[w] # "off"
  BY Zenon DEF Threads, MayGo
<1>2. ~Calls(w, "notify") /\ ~Calls(w, "update")
  BY <1>1, Zenon DEF Calls
<1>3. Goes(w) \in [Workers -> Goroutines]
  BY SMT DEF Goes, Types, Goroutines
<1>4. \A v \in Workers : Goes(w)[v] = "off" <=> running[v] = "off"
  BY <1>1, SMT DEF Goes, Types
<1> QED BY <1>1, <1>2, <1>3, <1>4, Zenon

\* The callbacks of the bundle plugin and of the decision logger, which begin nothing.
LEMMA PlainCallback ==
  ASSUME IInv, NEW t \in Workers, t # Discovery, MayGo(t), NEW l, Plain(l), Makes(l, WorkerDos),
         todo' = [todo EXCEPT ![t] = l], running' = Goes(t) \/ running' = running,
         UNCHANGED <<env, plugins, state, listening, heard, loop, channel, last, main, toStop, raced>>
  PROVE  IInv'
<1>1. Types
  BY Zenon DEF IInv
<1>2. /\ t \in Threads /\ todo[t] = <<>> /\ running[t] # "off"
      /\ ~Calls(t, "notify") /\ ~Calls(t, "update")
      /\ running' \in [Workers -> Goroutines]
      /\ \A v \in Workers : running'[v] = "off" <=> running[v] = "off"
  <2>1. /\ t \in Threads /\ todo[t] = <<>> /\ running[t] # "off"
        /\ ~Calls(t, "notify") /\ ~Calls(t, "update")
        /\ Goes(t) \in [Workers -> Goroutines]
        /\ \A v \in Workers : Goes(t)[v] = "off" <=> running[v] = "off"
    BY <1>1, Going, Zenon
  <2>2. CASE running' = Goes(t)
    BY <2>1, <2>2, Zenon
  <2>3. CASE running' = running
    BY <1>1, <2>1, <2>3, Zenon DEF Types
  <2> QED BY <2>2, <2>3, Zenon
<1>3. Begun(t, l)
  <2>1. Orderly(l, Registered, Known) /\ \A i \in DOMAIN l : ~Token(l[i])
    BY PlainOrderly, Zenon
  <2>2. \A i \in DOMAIN l : l[i].do # "notify" /\ ~Is(l[i], "register", Discovery)
    BY Zenon DEF Plain, Is
  <2> QED BY <1>2, <2>1, <2>2, Zenon DEF Begun
<1> QED BY <1>2, <1>3, WorkerKeeps, Zenon

\* The callbacks of discovery.
LEMMA DiscoveryCallback ==
  ASSUME IInv, MayGo(Discovery), NEW l, Configuring(l),
         todo' = [todo EXCEPT ![Discovery] = l], running' = Goes(Discovery),
         UNCHANGED <<env, plugins, state, listening, heard, loop, channel, last, main, toStop, raced>>
  PROVE  IInv'
<1>1. Types /\ Threaded /\ Discovery \in Workers
  BY Zenon DEF IInv, Workers
<1>2. /\ Discovery \in Threads /\ todo[Discovery] = <<>> /\ running[Discovery] # "off"
      /\ ~Calls(Discovery, "notify") /\ ~Calls(Discovery, "update")
      /\ running' \in [Workers -> Goroutines]
      /\ \A v \in Workers : running'[v] = "off" <=> running[v] = "off"
  BY <1>1, Going, Zenon
<1>3. \A u \in Threads \ {Discovery} : ~HasToken(u)
  BY <1>1, <1>2, OnlyDiscovery, Zenon DEF Discovering
<1>4. Begun(Discovery, l)
  <2>1. \A i \in DOMAIN l : ~Is(l[i], "register", Discovery) /\ (Token(l[i]) => Status \notin Registered)
    BY ConfiguringBegins, Zenon
  <2>2. Orderly(l, Registered, Known) /\ \A i \in DOMAIN l : l[i].do # "notify"
    BY Zenon DEF Configuring
  <2> QED BY <1>2, <1>3, <2>1, <2>2, Zenon DEF Begun
<1> QED BY <1>1, <1>2, <1>4, WorkerKeeps, Zenon

\* The bundle plugin's callback.
LEMMA BundleCallbackKeeps ==
  ASSUME IInv, BundleCallback
  PROVE  IInv'
<1>1. PICK ready \in {<<>>, UpdateTo(Bundle, "OK")} :
         todo' = [todo EXCEPT ![Bundle] = ready \o Call("tell", Status)]
  BY Zenon DEF BundleCallback
<1>2. Bundle \in Workers /\ Bundle \in Names /\ Bundle # Discovery
  BY Zenon DEF Workers, Names, Bundle, Discovery
<1>3. /\ Plain(ready) /\ Makes(ready, WorkerDos)
      /\ Plain(Call("tell", Status)) /\ Makes(Call("tell", Status), WorkerDos)
  BY <1>2, Reports, Zenon DEF Makes, WorkerDos
<1>4. Plain(ready \o Call("tell", Status)) /\ Makes(ready \o Call("tell", Status), WorkerDos)
  BY <1>3, PlainAppend, Zenon
<1>5. /\ MayGo(Bundle) /\ running' = Goes(Bundle)
      /\ UNCHANGED <<env, plugins, state, listening, heard, loop, channel, last, main, toStop, raced>>
  BY Zenon DEF BundleCallback
<1> QED BY <1>1, <1>2, <1>4, <1>5, PlainCallback, Zenon

\* The decision logger's upload.
LEMMA LogsUploadKeeps ==
  ASSUME IInv, LogsUpload
  PROVE  IInv'
<1>1. Logs \in Workers /\ Logs # Discovery
  BY Zenon DEF Workers, Logs, Discovery
<1>2. Plain(Call("tell", Status)) /\ Makes(Call("tell", Status), WorkerDos)
  BY Reports, Zenon DEF Makes, WorkerDos
<1>3. /\ MayGo(Logs) /\ running' = running /\ todo' = [todo EXCEPT ![Logs] = Call("tell", Status)]
      /\ UNCHANGED <<env, plugins, state, listening, heard, loop, channel, last, main, toStop, raced>>
  BY Zenon DEF LogsUpload
<1> QED BY <1>1, <1>2, <1>3, PlainCallback, Zenon

\* Discovery's callback, when it has no configuration.
LEMMA DiscoveryFailsKeeps ==
  ASSUME IInv, DiscoveryFails
  PROVE  IInv'
<1> DEFINE l == Call("tell", Status)
<1>1. Plain(l) /\ \A i \in DOMAIN l : l[i].do = "tell"
  BY Reports, Zenon DEF Makes
<1>2. /\ MayGo(Discovery) /\ running' = Goes(Discovery) /\ todo' = [todo EXCEPT ![Discovery] = l]
      /\ UNCHANGED <<env, plugins, state, listening, heard, loop, channel, last, main, toStop, raced>>
  BY Zenon DEF DiscoveryFails
<1> HIDE DEF l
<1>3. Configuring(l)
  BY <1>1, PlainOrderly, Zenon DEF Configuring
<1> QED BY <1>2, <1>3, DiscoveryCallback, Zenon

\* The configurations discovery finds.
LEMMA Deployed ==
  ASSUME Types
  PROVE  /\ env.discovery \in {"yes", "no"} /\ env.boot \in SUBSET Configurable
         /\ \A c \in env.configs : c \in SUBSET Configurable
  BY DeploymentsValid, Zenon DEF Types

\* What discovery does with a configuration, and then it may be ready.
LEMMA ConfigureReady ==
  ASSUME NEW c \in SUBSET Configurable, NEW ready \in {<<>>, ReadyOps}
  PROVE  Configuring(ConfigureOps(c) \o ready) /\ Makes(ConfigureOps(c) \o ready, ConfigDos)
<1> DEFINE x == ConfigureOps(c)
           l == x \o ready
<1>1. Discovery \in Names
  BY Zenon DEF Names, Workers
<1>2. ready = <<>> \/ ready = UpdateTo(Discovery, "OK")
  BY Zenon DEF ReadyOps
<1>3. Plain(ready) /\ \A i \in DOMAIN ready : ready[i].do \in {"update"}
  BY <1>1, <1>2, Reports, Zenon DEF Makes
<1>4. Configuring(x) /\ Makes(x, ConfigDos)
  BY ConfigureShape, Zenon
<1> HIDE DEF x
<1>5. Configuring(l)
  BY <1>3, <1>4, ConfiguringMore, Zenon
<1>6. x \in Seq(Ops) /\ ready \in Seq(Ops)
  BY <1>3, <1>4, Zenon DEF Configuring, Orderly, Plain
<1>7. ASSUME NEW k \in DOMAIN l
      PROVE  l[k].do \in ConfigDos
  <2>1. (\E i \in DOMAIN x : l[k] = x[i]) \/ (\E i \in DOMAIN ready : l[k] = ready[i])
    BY <1>6, JoinElements, Zenon
  <2> QED BY <1>3, <1>4, <2>1, Zenon DEF Makes, ConfigDos
<1>8. Makes(l, ConfigDos)
  BY <1>7, Zenon DEF Makes
<1> QED BY <1>5, <1>8, Zenon DEF x

\* Discovery's callback, with a configuration.
LEMMA DiscoveryConfiguresKeeps ==
  ASSUME IInv, NEW c \in env.configs, DiscoveryConfigures(c)
  PROVE  IInv'
<1>1. c \in SUBSET Configurable
  BY Deployed, Zenon DEF IInv
<1>2. PICK ready \in {<<>>, ReadyOps} :
         todo' = [todo EXCEPT ![Discovery] = ConfigureOps(c) \o ready \o Call("tell", Status)]
  BY Zenon DEF DiscoveryConfigures
<1> DEFINE x == ConfigureOps(c) \o ready
           y == Call("tell", Status)
<1>3. Configuring(x)
  BY <1>1, ConfigureReady, Zenon
<1>4. Plain(y) /\ \A i \in DOMAIN y : y[i].do \in {"update", "tell"}
  BY Reports, Zenon DEF Makes
<1>5. /\ MayGo(Discovery) /\ running' = Goes(Discovery) /\ todo' = [todo EXCEPT ![Discovery] = x \o y]
      /\ UNCHANGED <<env, plugins, state, listening, heard, loop, channel, last, main, toStop, raced>>
  BY <1>2, Zenon DEF DiscoveryConfigures
<1> HIDE DEF x, y
<1>6. Configuring(x \o y)
  BY <1>3, <1>4, ConfiguringMore, Zenon
<1> QED BY <1>5, <1>6, DiscoveryCallback, Zenon

-----------------------------------------------------------------------------
(* The process.                                                            *)

\* What the Start of discovery does.
Discovers(l) ==
    /\ Orderly(l, Registered, Known)
    /\ \A i \in DOMAIN l : /\ l[i].do \in ConfigDos \union {"run"}
                           /\ ~Is(l[i], "register", Discovery)
                           /\ Token(l[i]) => Status \notin Registered
                           /\ l[i].do = "run" => env.discovery # "no"

\* Its goroutine begins at the end.
LEMMA DiscoveryRuns ==
  ASSUME Discovery \in Registered, env.discovery # "no"
  PROVE  /\ Discovers(Call("run", Discovery))
         /\ \A x : Configuring(x) /\ Makes(x, ConfigDos) => Discovers(x \o Call("run", Discovery))
<1>1. "run" \in Dos /\ Discovery \in Names /\ "none" \in States
  BY Zenon DEF Dos, Names, Workers, States
<1>2. PICK o \in Ops : Call("run", Discovery) = <<o>> /\ Is(o, "run", Discovery)
  BY <1>1, CallOp, Zenon
<1> DEFINE y == <<o>>
<1>3. y \in Seq(Ops) /\ Len(y) = 1 /\ DOMAIN y = {1} /\ y[1] = o
  BY One, Zenon
<1>4. y = Call("run", Discovery)
  BY <1>2, Zenon
<1> HIDE DEF y
<1>5. \A i \in DOMAIN y : /\ y[i].do = "run" /\ ~Token(y[i]) /\ ~Is(y[i], "register", Discovery)
                          /\ y[i].do # "notify"
  BY <1>2, <1>3, Zenon DEF Is, Token
<1>6. Orderly(y, Registered, Known)
  BY <1>3, <1>5, Zenon DEF Orderly
<1>7. Discovers(y)
  BY <1>5, <1>6, Zenon DEF Discovers, ConfigDos
<1>8. ASSUME NEW x, Configuring(x), Makes(x, ConfigDos)
      PROVE  Discovers(x \o y)
  <2> DEFINE l == x \o y
  <2>1. /\ Orderly(x, Registered, Known) /\ x \in Seq(Ops)
        /\ \A i \in DOMAIN x : x[i].do \in ConfigDos /\ x[i].do # "run"
    BY <1>8, Zenon DEF Configuring, Orderly, Makes
  <2>2. \A i \in DOMAIN x : /\ ~Begins(x[i], Discovery) /\ ~Is(x[i], "register", Discovery)
                            /\ Token(x[i]) => Status \notin Registered
    BY <1>8, ConfiguringBegins, Zenon
  <2>3. Orderly(l, Registered, Known)
    BY <1>5, <1>6, <2>1, <2>2, OrderlyJoin, Zenon
  <2>4. ASSUME NEW k \in DOMAIN l
        PROVE  /\ l[k].do \in ConfigDos \union {"run"}
               /\ ~Is(l[k], "register", Discovery)
               /\ Token(l[k]) => Status \notin Registered
    <3>1. (\E i \in DOMAIN x : l[k] = x[i]) \/ (\E i \in DOMAIN y : l[k] = y[i])
      BY <1>3, <2>1, JoinElements, Zenon
    <3>2. CASE \E i \in DOMAIN x : l[k] = x[i]
      BY <2>1, <2>2, <3>2, Zenon
    <3>3. CASE \E i \in DOMAIN y : l[k] = y[i]
      BY <1>5, <3>3, Zenon
    <3> QED BY <3>1, <3>2, <3>3, Zenon
  <2> HIDE DEF l
  <2>5. Discovers(l)
    BY <2>3, <2>4, Zenon DEF Discovers
  <2> QED BY <2>5, Zenon DEF l
<1> QED BY <1>4, <1>7, <1>8, Zenon

\* The Start of discovery.
LEMMA DiscoveryStarts ==
  ASSUME Types, Discovery \in Registered, NEW ops \in DiscoveryStart
  PROVE  Discovers(ops)
<1>1. CASE env.discovery = "no"
  <2>1. ops = UpdateTo(Discovery, "OK") /\ Discovery \in Names
    BY <1>1, Zenon DEF DiscoveryStart, Names, Workers
  <2>2. Plain(ops) /\ \A i \in DOMAIN ops : ops[i].do = "update"
    BY <2>1, Reports, Zenon DEF Makes
  <2>3. Orderly(ops, Registered, Known) /\ \A i \in DOMAIN ops : ~Token(ops[i])
    BY <2>2, PlainOrderly, Zenon
  <2> QED BY <2>2, <2>3, Zenon DEF Discovers, Is, ConfigDos
<1>2. CASE env.discovery # "no"
  <2>1. \/ ops = Call("run", Discovery)
        \/ \E c \in env.configs : ops = ConfigureOps(c) \o ReadyOps \o Call("run", Discovery)
    BY <1>2, Zenon DEF DiscoveryStart
  <2>2. CASE ops = Call("run", Discovery)
    BY <1>2, <2>2, DiscoveryRuns, Zenon
  <2>3. ASSUME NEW c \in env.configs, ops = ConfigureOps(c) \o ReadyOps \o Call("run", Discovery)
        PROVE  Discovers(ops)
    <3>1. c \in SUBSET Configurable
      BY Deployed, Zenon
    <3>2. Configuring(ConfigureOps(c) \o ReadyOps) /\ Makes(ConfigureOps(c) \o ReadyOps, ConfigDos)
      BY <3>1, ConfigureReady, Zenon
    <3> QED BY <1>2, <2>3, <3>2, DiscoveryRuns, Zenon
  <2> QED BY <2>1, <2>2, <2>3, Zenon
<1> QED BY <1>1, <1>2, Zenon

\* A list of one call that returns with ops.
LEMMA LastCall ==
  ASSUME NEW A, NEW l \in Seq(A), Len(l) = 1, NEW ops \in Seq(A)
  PROVE  ops \o Tail(l) = ops
<1>1. Tail(l) = <<>>
  <2>1. l # <<>> /\ 1 - 1 = 0
    BY SMT
  <2>2. Tail(l) \in Seq(A) /\ Len(Tail(l)) = 0
    BY <2>1, Tails, Zenon
  <2> QED BY <2>2, Elements, Zenon
<1>2. ops \o <<>> = ops
  BY ConcatNone, Zenon
<1> QED BY <1>1, <1>2, Zenon

\* Discovery is started.
LEMMA StartDiscoveryKeeps ==
  ASSUME IInv, NEW t \in Threads, Start(t), Arg(t) = Discovery
  PROVE  IInv'
<1> DEFINE h == Head(todo[t])
<1>1. /\ Types /\ Threaded /\ DiscoveryFirst /\ Halting /\ ListenOnce /\ Told /\ Calls(t, "start")
  BY Zenon DEF Start, IInv
<1>2. /\ todo[t] # <<>> /\ h \in Ops /\ h.do = "start" /\ h.of = Discovery
      /\ 1 \in DOMAIN todo[t] /\ todo[t][1] = h
  BY <1>1, CallHead, Zenon
<1>3. t = Main /\ main = "boot"
  <2>1. t = Discovery \/ (t = Main /\ main = "boot")
    BY <1>1, <1>2, Who, Zenon
  <2> QED BY <1>1, <1>2, <2>1, Zenon DEF Threaded, Duties
<1>4. PICK ops \in Starts[Discovery] : Return(Main, ops)
  BY <1>3, Zenon DEF Start
<1>5. /\ env' = env /\ plugins' = plugins /\ state' = state /\ listening' = listening
      /\ running' = running /\ loop' = loop /\ channel' = channel /\ last' = last
      /\ main' = main /\ toStop' = toStop /\ raced' = raced
  BY Zenon DEF Start
<1>6. Len(todo[Main]) = 1 /\ Discovery \in Registered
  <2>1. Begins(todo[Main][1], Discovery) /\ Main \in Threads
    BY <1>2, <1>3, Zenon DEF Begins
  <2>2. 1 = Len(todo[Main]) /\ (Discovery \in Registered \/ \E j \in 1..(1 - 1) : Is(todo[Main][j], "register", Discovery))
    BY <1>1, <1>2, <1>3, <2>1, Zenon DEF Threaded, Orderly
  <2>3. \A j \in 1..(1 - 1) : FALSE
    BY SMT
  <2> QED BY <2>2, <2>3, Zenon
<1>7. ~Discovering
  BY <1>1, <1>2, <1>3, Zenon DEF Threaded
<1>8. Discovers(ops)
  BY <1>1, <1>4, <1>6, DiscoveryStarts, OfPlugin, Zenon
<1>9. Begun(Main, ops)
  <2>1. ops \in Seq(Ops) /\ todo[Main] \in Seq(Ops) /\ Main \in Threads
    BY <1>1, <1>3, <1>8, Zenon DEF Discovers, Orderly, Types
  <2>2. ops \o Tail(todo[Main]) = ops
    BY <1>6, <2>1, LastCall, Zenon
  <2>3. todo' = [todo EXCEPT ![Main] = ops]
    BY <1>4, <2>2, Zenon DEF Return
  <2>4. ~Calls(Main, "notify") /\ ~Calls(Main, "update")
    BY <1>2, <1>3, Zenon DEF Calls
  <2>5. ASSUME NEW u \in Threads \ {Main}
        PROVE  ~HasToken(u)
    <3> SUFFICES ASSUME NEW i \in DOMAIN todo[u], Token(todo[u][i]) PROVE FALSE
      BY Zenon DEF HasToken
    <3>1. todo[u][i].do \in {"start", "listen"}
      BY Zenon DEF Token, Is
    <3>2. u = Discovery
      BY <1>1, <3>1, Who, Zenon
    <3>3. todo[u] = <<>>
      BY <1>7, <3>2, Zenon DEF Discovering
    <3> QED BY <3>3, SMT
  <2>6. \A i \in DOMAIN ops : ops[i].do # "notify"
    BY <1>8, Zenon DEF Discovers, ConfigDos
  <2> QED BY <1>5, <1>8, <2>1, <2>3, <2>4, <2>5, <2>6, Zenon DEF Begun, Discovers
<1>10. /\ todo' \in [Threads -> Seq(Ops)] /\ todo'[Main] = ops
       /\ \A u \in Threads : u # Main => todo'[u] = todo[u]
       /\ Registered' = Registered /\ Known' = Known
  BY <1>1, <1>9, BegunLists, Zenon
<1>11. /\ Bundle \in Threads /\ Logs \in Threads /\ Discovery \in Threads
       /\ Bundle # Main /\ Logs # Main /\ Discovery # Main
  BY Zenon DEF Threads, Workers, Bundle, Logs, Discovery, Main
<1>12. todo'[Bundle] = todo[Bundle] /\ todo'[Logs] = todo[Logs] /\ todo'[Discovery] = todo[Discovery]
  BY <1>10, <1>11, Zenon
<1>13. Types'
  BY <1>1, <1>5, <1>10, Zenon DEF Types
<1>14. Duties'
  <2>1. Makes(todo'[Main], ConfigureDos)
    BY <1>8, <1>10, Zenon DEF Discovers, ConfigDos, ConfigureDos, Makes
  <2>2. /\ Makes(todo[Bundle], WorkerDos) /\ Makes(todo[Logs], WorkerDos)
        /\ Makes(todo[Discovery], ConfigureDos \union {"tell"})
        /\ \A i \in DOMAIN todo[Discovery] : todo[Discovery][i].do \in {"register", "start", "run", "listen"}
              => todo[Discovery][i].of # Discovery
    BY <1>1, Zenon DEF Threaded, Duties
  <2> QED BY <1>3, <1>5, <1>12, <2>1, <2>2, Zenon DEF Duties
<1>15. ~Discovering'
  BY <1>5, <1>7, <1>12, Zenon DEF Discovering
<1>16. Threaded'
  <2>1. \A u \in Threads : Orderly(todo'[u], Registered', Known')
    BY <1>1, <1>9, BegunOrderly, Zenon
  <2>2. \A i \in DOMAIN ops : ops[i].do # "stop" /\ (ops[i].do = "run" => env.discovery # "no")
    BY <1>8, Zenon DEF Discovers, ConfigDos
  <2> QED BY <1>5, <1>10, <1>14, <1>15, <2>1, <2>2, Zenon DEF Threaded
<1>17. DiscoveryFirst'
  BY <1>1, <1>5, <1>12, Zenon DEF DiscoveryFirst, Pending
<1>18. Halting'
  BY <1>3, <1>5, Zenon DEF Halting
<1> QED BY <1>1, <1>9, <1>13, <1>16, <1>17, <1>18, BegunListen, BegunTold, Zenon DEF IInv

\* What Stop does: whoever is told to stop is waited for, and discovery is only if it runs.
Stops(l, P) ==
    /\ Plain(l) /\ Makes(l, StopDos)
    /\ \A i \in DOMAIN l : l[i].do = "stop" =>
          /\ \E j \in DOMAIN l : i < j /\ Is(l[j], "await", l[i].of)
          /\ l[i].of \in P
          /\ l[i].of = Discovery => env.discovery # "no"

\* The Stops of some plugins, then those of others.
LEMMA StopsJoin ==
  ASSUME NEW P, NEW x, NEW y, Stops(x, P), Stops(y, P)
  PROVE  /\ Stops(x \o y, P)
         /\ \A do, p : Has(x, do, p) \/ Has(y, do, p) => Has(x \o y, do, p)
         /\ \A do, p : HasAfter(x, do, p) => HasAfter(x \o y, do, p)
         /\ \A do, p : Has(x, "await", Discovery) /\ Has(y, do, p) => HasAfter(x \o y, do, p)
<1> DEFINE l == x \o y
           m == Len(x)
           n == Len(y)
<1>1. x \in Seq(Ops) /\ y \in Seq(Ops)
  BY Zenon DEF Stops, Plain
<1>2. Plain(l) /\ Makes(l, StopDos)
  BY PlainAppend, Zenon DEF Stops
<1>3. IsJoin(l, x, y)
  BY <1>1, Joined, Zenon
<1> HIDE DEF l
<1>4. /\ m \in Nat /\ n \in Nat /\ DOMAIN x = 1..m /\ DOMAIN y = 1..n
      /\ \A i \in DOMAIN x : i \in DOMAIN l /\ l[i] = x[i]
      /\ \A i \in DOMAIN y : m + i \in DOMAIN l /\ l[m + i] = y[i]
      /\ \A k \in DOMAIN l : \/ k \in DOMAIN x /\ l[k] = x[k]
                             \/ \E i \in DOMAIN y : k = m + i /\ l[k] = y[i]
  BY <1>3, Zenon DEF IsJoin
<1> HIDE DEF m, n
<1>5. /\ \A i \in DOMAIN x, j \in DOMAIN y : i < m + j
      /\ \A i, j \in DOMAIN y : i < j => m + i < m + j
  BY <1>4, Places, Zenon
<1>6. ASSUME NEW k \in DOMAIN l, l[k].do = "stop"
      PROVE  /\ \E j \in DOMAIN l : k < j /\ Is(l[j], "await", l[k].of)
             /\ l[k].of \in P
             /\ l[k].of = Discovery => env.discovery # "no"
  <2>1. CASE k \in DOMAIN x /\ l[k] = x[k]
    <3>1. /\ \E j \in DOMAIN x : k < j /\ Is(x[j], "await", x[k].of)
          /\ x[k].of \in P
          /\ x[k].of = Discovery => env.discovery # "no"
      BY <1>6, <2>1, Zenon DEF Stops
    <3>2. PICK j \in DOMAIN x : k < j /\ Is(x[j], "await", x[k].of)
      BY <3>1, Zenon
    <3>3. j \in DOMAIN l /\ Is(l[j], "await", l[k].of)
      BY <1>4, <2>1, <3>2, Zenon
    <3> QED BY <2>1, <3>1, <3>2, <3>3, Zenon
  <2>2. ASSUME NEW i \in DOMAIN y, k = m + i, l[k] = y[i]
        PROVE  /\ \E j \in DOMAIN l : k < j /\ Is(l[j], "await", l[k].of)
               /\ l[k].of \in P
               /\ l[k].of = Discovery => env.discovery # "no"
    <3>1. /\ \E j \in DOMAIN y : i < j /\ Is(y[j], "await", y[i].of)
          /\ y[i].of \in P
          /\ y[i].of = Discovery => env.discovery # "no"
      BY <1>6, <2>2, Zenon DEF Stops
    <3>2. PICK j \in DOMAIN y : i < j /\ Is(y[j], "await", y[i].of)
      BY <3>1, Zenon
    <3>3. m + j \in DOMAIN l /\ Is(l[m + j], "await", l[k].of) /\ k < m + j
      BY <1>4, <1>5, <2>2, <3>2, Zenon
    <3> QED BY <2>2, <3>1, <3>3, Zenon
  <2> QED BY <1>4, <2>1, <2>2, Zenon
<1>7. Stops(l, P)
  BY <1>2, <1>6, Zenon DEF Stops
<1>8. ASSUME NEW do, NEW p
      PROVE  /\ Has(x, do, p) \/ Has(y, do, p) => Has(l, do, p)
             /\ HasAfter(x, do, p) => HasAfter(l, do, p)
             /\ Has(x, "await", Discovery) /\ Has(y, do, p) => HasAfter(l, do, p)
  <2>1. Has(x, do, p) => Has(l, do, p)
    BY <1>4, Zenon DEF Has
  <2>2. Has(y, do, p) => Has(l, do, p)
    BY <1>4, Zenon DEF Has
  <2>3. HasAfter(x, do, p) => HasAfter(l, do, p)
    BY <1>4, Zenon DEF HasAfter
  <2>4. ASSUME Has(x, "await", Discovery), Has(y, do, p)
        PROVE  HasAfter(l, do, p)
    <3>1. PICK i \in DOMAIN x : Is(x[i], "await", Discovery)
      BY <2>4, Zenon DEF Has
    <3>2. PICK j \in DOMAIN y : Is(y[j], do, p)
      BY <2>4, Zenon DEF Has
    <3>3. /\ i \in DOMAIN l /\ Is(l[i], "await", Discovery)
          /\ m + j \in DOMAIN l /\ Is(l[m + j], do, p) /\ i < m + j
      BY <1>4, <1>5, <3>1, <3>2, Zenon
    <3> QED BY <3>3, Zenon DEF HasAfter
  <2> QED BY <2>1, <2>2, <2>3, <2>4, Zenon
<1> QED BY <1>7, <1>8, Zenon DEF l

\* A plugin that does not run is not waited for.
Waits(p) == p = Discovery => env.discovery # "no"

\* The Stop of each plugin.
LEMMA StopShape ==
  ASSUME NEW P \in SUBSET Names, NEW p \in P
  PROVE  /\ Stops(StopOps(p), P)
         /\ \A h \in Halts : h[2] = p /\ Waits(p) => Has(StopOps(p), h[1], p)
<1> DEFINE y == StopOps(p)
<1>1. /\ {"stop", "await", "unlisten"} \subseteq Dos /\ "NotReady" \in States /\ p \in Names
      /\ "none" \in States
  BY Zenon DEF Dos, States
<1>2. PICK s \in Ops : Call("stop", p) = <<s>> /\ Is(s, "stop", p)
  BY <1>1, CallOp, Zenon
<1>3. PICK a \in Ops : Call("await", p) = <<a>> /\ Is(a, "await", p)
  BY <1>1, CallOp, Zenon
<1>4. PICK v \in Ops : Call("unlisten", p) = <<v>> /\ Is(v, "unlisten", p)
  BY <1>1, CallOp, Zenon
<1>5. PICK u \in Ops : UpdateTo(p, "NotReady") = <<u>> /\ Is(u, "update", p) /\ u.is = "NotReady"
  BY <1>1, CallOp, Zenon
<1>6. ASSUME NEW l \in Seq(Ops),
             \A i \in DOMAIN l : l[i] = a \/ l[i] = v \/ l[i] = u \/ (l[i] = s /\ i = 1),
             1 \in DOMAIN l /\ l[1] = s => 2 \in DOMAIN l /\ l[2] = a /\ Waits(p)
      PROVE  Stops(l, P)
  <2>1. /\ s.do = "stop" /\ s.of = p /\ a.do = "await" /\ a.of = p /\ v.do = "unlisten"
        /\ u.do = "update" /\ u.is # "none"
    BY <1>2, <1>3, <1>4, <1>5, Zenon DEF Is
  <2>2. \A i \in DOMAIN l : /\ l[i].do \in {"await", "unlisten", "update", "stop"}
                            /\ l[i].do = "update" => l[i].is # "none"
                            /\ l[i].do = "stop" => l[i] = s /\ i = 1
    BY <1>6, <2>1, Zenon
  <2>3. Plain(l) /\ Makes(l, StopDos)
    BY <2>2, Zenon DEF Plain, Makes, StopDos
  <2>4. ASSUME NEW i \in DOMAIN l, l[i].do = "stop"
        PROVE  /\ \E j \in DOMAIN l : i < j /\ Is(l[j], "await", l[i].of)
               /\ l[i].of \in P
               /\ l[i].of = Discovery => env.discovery # "no"
    <3>1. i = 1 /\ l[1] = s /\ l[i].of = p
      BY <2>1, <2>2, <2>4, Zenon
    <3>2. 2 \in DOMAIN l /\ l[2] = a /\ Waits(p)
      BY <1>6, <2>4, <3>1, Zenon
    <3>3. 1 < 2
      BY SMT
    <3> QED BY <1>3, <3>1, <3>2, <3>3, Zenon DEF Waits
  <2> QED BY <2>3, <2>4, Zenon DEF Stops
<1>7. a # s /\ v # s /\ u # s
  BY <1>2, <1>3, <1>4, <1>5, Zenon DEF Is
<1>8. ASSUME NEW l, IsTwo(l, Ops, s, a), Waits(p)
      PROVE  Stops(l, P) /\ Has(l, "await", p)
  <2>1. l \in Seq(Ops) /\ DOMAIN l = {1, 2} /\ l[1] = s /\ l[2] = a
    BY <1>8, Zenon DEF IsTwo
  <2> QED BY <1>3, <1>6, <1>8, <2>1, Zenon DEF Has
<1>9. ASSUME NEW l, IsTwo(l, Ops, a, u)
      PROVE  Stops(l, P) /\ Has(l, "await", p)
  <2>1. l \in Seq(Ops) /\ DOMAIN l = {1, 2} /\ l[1] = a /\ l[2] = u
    BY <1>9, Zenon DEF IsTwo
  <2> QED BY <1>3, <1>6, <1>7, <2>1, Zenon DEF Has
<1>10. ASSUME NEW l, IsThree(l, Ops, v, a, u)
       PROVE  Stops(l, P) /\ Has(l, "await", p) /\ Has(l, "unlisten", p)
  <2>1. l \in Seq(Ops) /\ DOMAIN l = {1, 2, 3} /\ l[1] = v /\ l[2] = a /\ l[3] = u
    BY <1>10, Zenon DEF IsThree
  <2> QED BY <1>3, <1>4, <1>6, <1>7, <2>1, Zenon DEF Has
<1>11. ASSUME NEW l, IsThree(l, Ops, s, a, u), Waits(p)
       PROVE  Stops(l, P) /\ Has(l, "await", p)
  <2>1. l \in Seq(Ops) /\ DOMAIN l = {1, 2, 3} /\ l[1] = s /\ l[2] = a /\ l[3] = u
    BY <1>11, Zenon DEF IsThree
  <2> QED BY <1>3, <1>6, <1>11, <2>1, Zenon DEF Has
<1>12. Stops(<<u>>, P)
  <2> DEFINE l == <<u>>
  <2>1. l \in Seq(Ops) /\ DOMAIN l = {1} /\ l[1] = u
    BY One, Zenon
  <2> HIDE DEF l
  <2>2. Stops(l, P)
    BY <1>6, <1>7, <2>1, Zenon
  <2> QED BY <2>2, Zenon DEF l
<1>13. /\ p = Bundle \/ p = Logs \/ p = Status \/ p = Discovery
       /\ Bundle # Status /\ Logs # Status /\ Discovery # Status
       /\ Bundle # Discovery /\ Logs # Discovery
  BY <1>1, Zenon DEF Names, Workers, Bundle, Logs, Status, Discovery
<1>14. \A h \in Halts : h[2] = p => h[1] = "await" \/ (h[1] = "unlisten" /\ p = Status)
  BY HaltParts, Zenon
<1>15. CASE p = Bundle
  <2>1. IsTwo(<<s>> \o <<a>>, Ops, s, a)
    BY Two, Zenon
  <2>2. y = <<s>> \o <<a>>
    BY <1>2, <1>3, <1>15, OfPlugin, Zenon DEF BundleStop
  <2>3. IsTwo(y, Ops, s, a) /\ Waits(p)
    BY <1>13, <1>15, <2>1, <2>2, Zenon DEF Waits
  <2> QED BY <1>8, <1>13, <1>14, <1>15, <2>3, Zenon
<1>16. CASE p = Logs
  <2>1. IsTwo(<<a>> \o <<u>>, Ops, a, u)
    BY Two, Zenon
  <2>2. y = <<a>> \o <<u>>
    BY <1>3, <1>5, <1>16, OfPlugin, Zenon DEF LogsStop
  <2>3. IsTwo(y, Ops, a, u)
    BY <2>1, <2>2, Zenon
  <2> QED BY <1>9, <1>13, <1>14, <1>16, <2>3, Zenon
<1>17. CASE p = Status
  <2>1. IsThree(<<v>> \o <<a>> \o <<u>>, Ops, v, a, u)
    BY Three, Zenon
  <2>2. y = <<v>> \o <<a>> \o <<u>>
    BY <1>3, <1>4, <1>5, <1>17, OfPlugin, Zenon DEF StatusStop
  <2>3. IsThree(y, Ops, v, a, u)
    BY <2>1, <2>2, Zenon
  <2> QED BY <1>10, <1>14, <2>3, Zenon
<1>18. CASE p = Discovery /\ env.discovery # "no"
  <2>1. IsThree(<<s>> \o <<a>> \o <<u>>, Ops, s, a, u)
    BY Three, Zenon
  <2>2. y = <<s>> \o <<a>> \o <<u>>
    BY <1>2, <1>3, <1>5, <1>18, OfPlugin, Zenon DEF DiscoveryStop
  <2>3. IsThree(y, Ops, s, a, u) /\ Waits(p)
    BY <1>18, <2>1, <2>2, Zenon DEF Waits
  <2> QED BY <1>11, <1>13, <1>14, <1>18, <2>3, Zenon
<1>19. CASE p = Discovery /\ env.discovery = "no"
  <2>1. <<u>> \in Seq(Ops)
    BY One, Zenon
  <2>2. y = <<>> \o <<u>>
    BY <1>5, <1>19, OfPlugin, Zenon DEF DiscoveryStop
  <2>3. y = <<u>>
    BY <2>1, <2>2, ConcatNone, Zenon
  <2> QED BY <1>12, <1>19, <2>3, Zenon DEF Waits
<1> QED BY <1>13, <1>15, <1>16, <1>17, <1>18, <1>19, Zenon

\* The lists the loop of Manager.Stop goes through, one plugin at a time.
StopRun(it, ps, n) ==
    it = [k \in 0..n |-> IF k = 0 THEN <<>> ELSE it[k - 1] \o StopOps(ps[k])]

\* What such a run is.
LEMMA StopRunParts ==
  ASSUME NEW it, NEW ps, NEW n \in Nat, StopRun(it, ps, n)
  PROVE  /\ it[0] = <<>> /\ DOMAIN it = 0..n
         /\ \A k \in 0..n : k # 0 => it[k] = it[k - 1] \o StopOps(ps[k])
<1>1. 0 \in 0..n
  BY SMT
<1> QED BY <1>1, Zenon DEF StopRun

\* The loop ends where that run ends.
LEMMA StopsRun ==
  ASSUME NEW ps \in Seq(Names)
  PROVE  \E it : StopRun(it, ps, Len(ps)) /\ StopAll(ps) = it[Len(ps)]
<1> DEFINE Bad == {n \in Nat : ~\E h : StopRun(h, ps, n)}
           it == CHOOSE h : StopRun(h, ps, Len(ps))
<1>1. StopAll(ps) = it[Len(ps)]
  BY Zenon DEF StopAll, StopRun
<1> HIDE DEF it
<1>2. Bad = {}
  <2> SUFFICES ASSUME Bad # {} PROVE FALSE
    BY Zenon
  <2>1. PICK n \in Bad : \A m \in Bad : n <= m
    BY LeastNat, Zenon
  <2>2. n # 0
    <3> DEFINE h == [k \in 0..0 |-> <<>>]
    <3>1. \A k \in 0..0 : k = 0
      BY SMT
    <3>2. h = [k \in 0..0 |-> IF k = 0 THEN <<>> ELSE h[k - 1] \o StopOps(ps[k])]
      BY <3>1, Zenon
    <3>3. StopRun(h, ps, 0)
      BY <3>2, Zenon DEF StopRun
    <3> QED BY <3>3, Zenon
  <2>3. /\ n \in Nat /\ n - 1 \in Nat /\ ~(n <= n - 1)
        /\ \A k \in 0..n : k # n => k \in 0..(n - 1)
        /\ \A k \in 0..n : k # 0 => k - 1 \in 0..n /\ k - 1 # n /\ k - 1 \in 0..(n - 1)
    BY <2>2, SMT
  <2>4. PICK h : StopRun(h, ps, n - 1)
    BY <2>1, <2>3, Zenon
  <2>5. /\ h[0] = <<>>
        /\ \A k \in 0..(n - 1) : k # 0 => h[k] = h[k - 1] \o StopOps(ps[k])
    BY <2>3, <2>4, StopRunParts, Zenon
  <2> DEFINE g == [k \in 0..n |-> IF k = n THEN h[n - 1] \o StopOps(ps[n]) ELSE h[k]]
             f == [k \in 0..n |-> IF k = 0 THEN <<>> ELSE g[k - 1] \o StopOps(ps[k])]
  <2>6. \A k \in 0..n : k # 0 => g[k - 1] = h[k - 1]
    BY <2>3, Zenon
  <2>7. ASSUME NEW k \in 0..n PROVE g[k] = f[k]
    <3>1. CASE k = 0
      BY <2>2, <2>5, <3>1, Zenon
    <3>2. CASE k # 0 /\ k = n
      BY <2>6, <3>2, Zenon
    <3>3. CASE k # 0 /\ k # n
      <4>1. h[k] = h[k - 1] \o StopOps(ps[k])
        BY <2>3, <2>5, <3>3, Zenon
      <4> QED BY <2>6, <3>3, <4>1, Zenon
    <3> QED BY <3>1, <3>2, <3>3, Zenon
  <2>8. g = f
    BY <2>7, Zenon
  <2>9. StopRun(g, ps, n)
    BY <2>8, Zenon DEF StopRun
  <2> QED BY <2>9, Zenon
<1>3. Len(ps) \in Nat
  BY Elements, Zenon
<1>4. \E h : StopRun(h, ps, Len(ps))
  BY <1>2, <1>3, Zenon
<1>5. StopRun(it, ps, Len(ps))
  BY <1>4, Zenon DEF it
<1> QED BY <1>1, <1>5, Zenon

\* l stops the first n plugins of ps, in this order.
StopsUpTo(l, ps, n) ==
    /\ Stops(l, Range(ps))
    /\ \A k \in 1..n, h \in Halts : h[2] = ps[k] /\ Waits(ps[k]) => Has(l, h[1], h[2])
    /\ \A k \in 1..n, h \in Halts :
          h[2] = ps[k] /\ env.discovery # "no" /\ (\E j \in 1..n : j < k /\ ps[j] = Discovery)
             => HasAfter(l, h[1], h[2])

\* One more plugin is stopped.
LEMMA StopsMore ==
  ASSUME NEW ps \in Seq(Names), NEW n \in 1..Len(ps), NEW x, StopsUpTo(x, ps, n - 1)
  PROVE  StopsUpTo(x \o StopOps(ps[n]), ps, n)
<1> DEFINE y == StopOps(ps[n])
           l == x \o y
<1>1. /\ DOMAIN ps = 1..Len(ps) /\ Len(ps) \in Nat /\ n \in DOMAIN ps
      /\ \A i \in DOMAIN ps : ps[i] \in Names
  BY Elements, Zenon
<1>2. \A k \in 1..n : (k # n => k \in 1..(n - 1)) /\ \A j \in 1..n : j < k => j \in 1..(n - 1)
  BY <1>1, SMT
<1>3. ps[n] \in Range(ps) /\ Range(ps) \in SUBSET Names
  BY <1>1, Zenon DEF Range
<1>4. Stops(y, Range(ps)) /\ \A h \in Halts : h[2] = ps[n] /\ Waits(ps[n]) => Has(y, h[1], ps[n])
  BY <1>3, StopShape, Zenon
<1> HIDE DEF y
<1>5. /\ Stops(x, Range(ps))
      /\ \A k \in 1..(n - 1), h \in Halts : h[2] = ps[k] /\ Waits(ps[k]) => Has(x, h[1], h[2])
      /\ \A k \in 1..(n - 1), h \in Halts :
            h[2] = ps[k] /\ env.discovery # "no" /\ (\E j \in 1..(n - 1) : j < k /\ ps[j] = Discovery)
               => HasAfter(x, h[1], h[2])
  BY Zenon DEF StopsUpTo
<1>6. /\ Stops(l, Range(ps))
      /\ \A do, p : Has(x, do, p) \/ Has(y, do, p) => Has(l, do, p)
      /\ \A do, p : HasAfter(x, do, p) => HasAfter(l, do, p)
      /\ \A do, p : Has(x, "await", Discovery) /\ Has(y, do, p) => HasAfter(l, do, p)
  BY <1>4, <1>5, StopsJoin, Zenon
<1> HIDE DEF l
<1>7. ASSUME NEW k \in 1..n, NEW h \in Halts, h[2] = ps[k], Waits(ps[k])
      PROVE  Has(l, h[1], h[2])
  <2>1. CASE k = n
    BY <1>4, <1>6, <1>7, <2>1, Zenon
  <2>2. CASE k # n
    BY <1>2, <1>5, <1>6, <1>7, <2>2, Zenon
  <2> QED BY <2>1, <2>2, Zenon
<1>8. ASSUME NEW k \in 1..n, NEW h \in Halts, h[2] = ps[k], env.discovery # "no",
             NEW j \in 1..n, j < k, ps[j] = Discovery
      PROVE  HasAfter(l, h[1], h[2])
  <2>1. j \in 1..(n - 1)
    BY <1>2, <1>8, Zenon
  <2>2. CASE k # n
    BY <1>2, <1>5, <1>6, <1>8, <2>1, <2>2, Zenon
  <2>3. CASE k = n
    <3>1. \E d \in Halts : d[1] = "await" /\ d[2] = Discovery
      <4>1. <<"await", Discovery>> \in Halts
        BY Zenon DEF Halts, Names, Workers
      <4>2. <<"await", Discovery>>[1] = "await" /\ <<"await", Discovery>>[2] = Discovery
        BY SMT
      <4> QED BY <4>1, <4>2, Zenon
    <3>2. Waits(Discovery) /\ Waits(ps[n])
      BY <1>8, Zenon DEF Waits
    <3>3. Has(x, "await", Discovery)
      BY <1>5, <1>8, <2>1, <3>1, <3>2, Zenon
    <3>4. Has(y, h[1], h[2])
      BY <1>4, <1>8, <2>3, <3>2, Zenon
    <3> QED BY <1>6, <3>3, <3>4, Zenon
  <2> QED BY <2>2, <2>3, Zenon
<1>9. StopsUpTo(l, ps, n)
  BY <1>6, <1>7, <1>8, Zenon DEF StopsUpTo
<1> QED BY <1>9, Zenon DEF l, y

\* Manager.Stop stops all plugins, in the order of their registration.
LEMMA StopsAll ==
  ASSUME NEW ps \in Seq(Names)
  PROVE  StopsUpTo(StopAll(ps), ps, Len(ps))
<1>1. PICK it : StopRun(it, ps, Len(ps)) /\ StopAll(ps) = it[Len(ps)]
  BY StopsRun, Zenon
<1>2. Len(ps) \in Nat
  BY Elements, Zenon
<1>3. it[0] = <<>> /\ \A k \in 0..Len(ps) : k # 0 => it[k] = it[k - 1] \o StopOps(ps[k])
  BY <1>1, <1>2, StopRunParts, Zenon
<1> DEFINE Bad == {n \in Nat : n <= Len(ps) /\ ~StopsUpTo(it[n], ps, n)}
<1>4. Bad = {}
  <2> SUFFICES ASSUME Bad # {} PROVE FALSE
    BY Zenon
  <2>1. PICK n \in Bad : \A m \in Bad : n <= m
    BY LeastNat, Zenon
  <2>2. n # 0
    <3>1. Stops(<<>>, Range(ps))
      <4>1. \A i \in DOMAIN <<>> : FALSE
        BY SMT
      <4> QED BY <4>1, Reports, Zenon DEF Stops, Makes
    <3>2. \A k \in 1..0 : FALSE
      BY SMT
    <3>3. StopsUpTo(it[0], ps, 0)
      BY <1>3, <3>1, <3>2, Zenon DEF StopsUpTo
    <3> QED BY <3>3, Zenon
  <2>3. /\ n \in 1..Len(ps) /\ n \in 0..Len(ps) /\ n - 1 \in Nat /\ n - 1 <= Len(ps) /\ ~(n <= n - 1)
    BY <1>2, <2>2, SMT
  <2>4. StopsUpTo(it[n - 1], ps, n - 1)
    BY <2>1, <2>3, Zenon
  <2>5. StopsUpTo(it[n - 1] \o StopOps(ps[n]), ps, n)
    BY <2>3, <2>4, StopsMore, Zenon
  <2> QED BY <1>3, <2>2, <2>3, <2>5, Zenon
<1>5. Len(ps) <= Len(ps)
  BY <1>2, SMT
<1>6. StopsUpTo(it[Len(ps)], ps, Len(ps))
  BY <1>2, <1>4, <1>5, Zenon
<1> QED BY <1>1, <1>6, Zenon

\* Manager.Stop is called.
LEMMA StopCalledKeeps ==
  ASSUME IInv, StopCalled
  PROVE  IInv'
<1> DEFINE l == StopAll(plugins)
<1>1. Types /\ Threaded /\ DiscoveryFirst /\ Halting /\ ListenOnce /\ Told
  BY Zenon DEF IInv
<1>2. /\ main = "up" /\ main' = "stop" /\ toStop' = plugins /\ todo' = [todo EXCEPT ![Main] = l]
      /\ env' = env /\ plugins' = plugins /\ state' = state /\ listening' = listening
      /\ running' = running /\ loop' = loop /\ channel' = channel /\ last' = last /\ raced' = raced
  BY Zenon DEF StopCalled
<1>3. todo[Main] = <<>>
  BY <1>1, <1>2, Zenon DEF Threaded, Duties
<1>4. /\ StopsUpTo(l, plugins, Len(plugins)) /\ DOMAIN plugins = 1..Len(plugins)
      /\ Registered = Range(plugins)
  BY <1>1, StopsAll, Elements, Zenon DEF Types, Registered
<1> HIDE DEF l
<1>5. Stops(l, Registered) /\ Plain(l) /\ Makes(l, StopDos)
  BY <1>4, Zenon DEF StopsUpTo, Stops
<1>6. Begun(Main, l)
  <2>1. Orderly(l, Registered, Known) /\ \A i \in DOMAIN l : ~Token(l[i])
    BY <1>5, PlainOrderly, Zenon
  <2>2. \A i \in DOMAIN l : l[i].do # "notify" /\ ~Is(l[i], "register", Discovery)
    BY <1>5, Zenon DEF Plain, Is
  <2>3. Main \in Threads /\ ~Calls(Main, "notify") /\ ~Calls(Main, "update")
    BY <1>3, Zenon DEF Threads, Calls
  <2> QED BY <1>2, <2>1, <2>2, <2>3, Zenon DEF Begun
<1>7. /\ todo' \in [Threads -> Seq(Ops)] /\ todo'[Main] = l
      /\ \A u \in Threads : u # Main => todo'[u] = todo[u]
      /\ Registered' = Registered /\ Known' = Known
  BY <1>1, <1>6, BegunLists, Zenon
<1>8. /\ Bundle \in Threads /\ Logs \in Threads /\ Discovery \in Threads
      /\ Bundle # Main /\ Logs # Main /\ Discovery # Main
  BY Zenon DEF Threads, Workers, Bundle, Logs, Discovery, Main
<1>9. todo'[Bundle] = todo[Bundle] /\ todo'[Logs] = todo[Logs] /\ todo'[Discovery] = todo[Discovery]
  BY <1>7, <1>8, Zenon
<1>10. Types'
  <2>1. Range(toStop') = Registered'
    BY <1>2, <1>4, <1>7, Zenon
  <2> QED BY <1>1, <1>2, <1>7, <2>1, Zenon DEF Types
<1>11. Duties'
  <2>1. /\ Makes(todo[Bundle], WorkerDos) /\ Makes(todo[Logs], WorkerDos)
        /\ Makes(todo[Discovery], ConfigureDos \union {"tell"})
        /\ \A i \in DOMAIN todo[Discovery] : todo[Discovery][i].do \in {"register", "start", "run", "listen"}
              => todo[Discovery][i].of # Discovery
    BY <1>1, Zenon DEF Threaded, Duties
  <2> QED BY <1>2, <1>5, <1>7, <1>9, <2>1, Zenon DEF Duties
<1>12. Discovering' <=> Discovering
  BY <1>2, <1>9, Zenon DEF Discovering
<1>13. Discovering => Discovery \in Registered /\ env.discovery # "no"
  BY <1>1, Zenon DEF Threaded
<1>14. Threaded'
  <2>1. \A u \in Threads : Orderly(todo'[u], Registered', Known')
    BY <1>1, <1>6, BegunOrderly, Zenon
  <2>2. \A i \in DOMAIN l : l[i].of = Discovery =>
           /\ l[i].do \in {"run", "stop"} => env.discovery # "no"
           /\ l[i].do = "stop" => Discovery \in Registered
    BY <1>5, Zenon DEF Stops, Plain
  <2> QED BY <1>2, <1>7, <1>11, <1>12, <1>13, <2>1, <2>2, Zenon DEF Threaded
<1>15. \A p : Pending(p)' <=> Pending(p)
  BY <1>9, Zenon DEF Pending
<1>16. DiscoveryFirst'
  BY <1>1, <1>2, <1>15, Zenon DEF DiscoveryFirst
<1>17. ASSUME NEW k \in DOMAIN plugins, NEW h \in Halts, h[2] = plugins[k]
       PROVE  /\ Pending(h[2]) => HasAfter(l, h[1], h[2])
              /\ Ends(h[1], h[2]) \/ Has(l, h[1], h[2])
  <2>1. /\ Waits(plugins[k]) => Has(l, h[1], h[2])
        /\ env.discovery # "no" /\ (\E j \in DOMAIN plugins : j < k /\ plugins[j] = Discovery)
              => HasAfter(l, h[1], h[2])
    BY <1>4, <1>17, Zenon DEF StopsUpTo
  <2>2. ASSUME Pending(h[2]) PROVE HasAfter(l, h[1], h[2])
    <3>1. h[2] \in Names
      BY HaltParts, Zenon
    <3>2. PICK j \in 1..(k - 1) : plugins[j] = Discovery
      BY <1>1, <1>17, <2>2, <3>1, Zenon DEF DiscoveryFirst
    <3>3. Len(plugins) \in Nat /\ k \in 1..Len(plugins) /\ DOMAIN plugins = 1..Len(plugins)
      BY <1>1, Elements, Zenon DEF Types
    <3>4. j \in 1..Len(plugins) /\ j < k
      BY <3>3, SMT
    <3>5. Discovering
      <4>1. todo[Discovery] # <<>>
        <5> SUFFICES ASSUME todo[Discovery] = <<>> PROVE FALSE
          OBVIOUS
        <5>1. \A i \in DOMAIN <<>> : FALSE
          BY SMT
        <5> QED BY <2>2, <5>1, Zenon DEF Pending
      <4> QED BY <4>1, Zenon DEF Discovering
    <3> QED BY <1>13, <2>1, <3>2, <3>3, <3>4, <3>5, Zenon
  <2>3. ASSUME ~Has(l, h[1], h[2]) PROVE Ends(h[1], h[2])
    <3>1. plugins[k] = Discovery /\ env.discovery = "no"
      BY <2>1, <2>3, Zenon DEF Waits
    <3>2. ~Discovering
      BY <1>13, <3>1, Zenon
    <3>3. h[1] # "unlisten" /\ h[2] # Status
      BY <1>17, <3>1, HaltParts, Zenon DEF Discovery, Status
    <3>4. running[h[2]] = "off" /\ todo[h[2]] = <<>>
      BY <1>17, <3>1, <3>2, Zenon DEF Discovering
    <3> QED BY <3>3, <3>4, Zenon DEF Ends
  <2> QED BY <2>2, <2>3, Zenon
<1>18. \A h \in Halts : Ends(h[1], h[2]) => Ends(h[1], h[2])'
  <2> SUFFICES ASSUME NEW h \in Halts, Ends(h[1], h[2]) PROVE Ends(h[1], h[2])'
    BY Zenon
  <2>1. h[1] \in {"await", "unlisten"} /\ h[2] \in Names
    BY HaltParts, Zenon
  <2>2. CASE h[1] = "unlisten" \/ h[2] = Status
    BY <1>2, <2>2, Zenon DEF Ends
  <2>3. CASE h[1] # "unlisten" /\ h[2] # Status
    <3>1. h[2] \in {Discovery, Bundle, Logs} /\ running[h[2]] = "off" /\ todo[h[2]] = <<>>
      BY <2>1, <2>3, Zenon DEF Ends, Names, Workers
    <3>2. running'[h[2]] = "off" /\ todo'[h[2]] = <<>>
      BY <1>2, <1>9, <3>1, Zenon
    <3> QED BY <2>3, <3>2, Zenon DEF Ends
  <2> QED BY <2>2, <2>3, Zenon
<1>19. ASSUME Discovering PROVE Has(l, "await", Discovery)
  <2>1. PICK k \in DOMAIN plugins : plugins[k] = Discovery
    BY <1>4, <1>13, <1>19, Zenon DEF Range
  <2>2. <<"await", Discovery>> \in Halts
    BY Zenon DEF Halts, Names, Workers
  <2>3. <<"await", Discovery>>[1] = "await" /\ <<"await", Discovery>>[2] = Discovery
    BY SMT
  <2>4. PICK d \in Halts : d[1] = "await" /\ d[2] = Discovery
    BY <2>2, <2>3, Zenon
  <2>5. Waits(plugins[k])
    BY <1>13, <1>19, Zenon DEF Waits
  <2>6. Has(l, d[1], d[2])
    BY <1>4, <2>1, <2>4, <2>5, Zenon DEF StopsUpTo
  <2> QED BY <2>4, <2>6, Zenon
<1>20. Halting'
  <2>1. \A i \in DOMAIN l : l[i].do = "stop" => \E j \in DOMAIN l : i < j /\ Is(l[j], "await", l[i].of)
    BY <1>5, Zenon DEF Stops
  <2>2. ASSUME NEW h \in Halts, h[2] \in Range(plugins)
        PROVE  /\ Pending(h[2]) => HasAfter(l, h[1], h[2])
               /\ Ends(h[1], h[2])' \/ Has(l, h[1], h[2])
    <3>1. PICK k \in DOMAIN plugins : plugins[k] = h[2]
      BY <2>2, Zenon DEF Range
    <3> QED BY <1>17, <1>18, <3>1, Zenon
  <2> QED BY <1>2, <1>7, <1>12, <1>15, <1>19, <2>1, <2>2, Zenon DEF Halting
<1> QED BY <1>1, <1>6, <1>10, <1>14, <1>16, <1>20, BegunListen, BegunTold, Zenon DEF IInv

\* A step of the status plugin's loop, or of the process between its calls.
LEMMA StillKeeps ==
  ASSUME IInv,
         UNCHANGED <<env, plugins, state, listening, running, todo, toStop, raced>>,
         loop = "gone" => loop' = "gone",
         \/ main' = main
         \/ todo[Main] = <<>> /\ main = "boot" /\ main' = "up"
         \/ todo[Main] = <<>> /\ main = "stop" /\ main' = "stopped",
         \/ channel' = channel /\ last' = last
         \/ channel # Nothing /\ last' = channel /\ channel' = Nothing
  PROVE  IInv'
<1>1. Types /\ Threaded /\ DiscoveryFirst /\ Halting /\ ListenOnce /\ Told
  BY Zenon DEF IInv
<1>2. /\ env' = env /\ plugins' = plugins /\ state' = state /\ listening' = listening
      /\ running' = running /\ todo' = todo /\ toStop' = toStop /\ raced' = raced
  OBVIOUS
<1>3. Registered' = Registered /\ Known' = Known /\ main' \in {"boot", "up", "stop", "stopped"}
  BY <1>1, <1>2, Zenon DEF Registered, Known, Types
<1>4. Types'
  BY <1>1, <1>2, <1>3, Zenon DEF Types
<1>5. Duties'
  <2>1. /\ Makes(todo[Bundle], WorkerDos) /\ Makes(todo[Logs], WorkerDos)
        /\ Makes(todo[Discovery], ConfigureDos \union {"tell"})
        /\ \A i \in DOMAIN todo[Discovery] : todo[Discovery][i].do \in {"register", "start", "run", "listen"}
              => todo[Discovery][i].of # Discovery
        /\ main = "boot" => Makes(todo[Main], ConfigureDos)
        /\ main = "stop" => Makes(todo[Main], StopDos)
        /\ main \in {"up", "stopped"} => todo[Main] = <<>>
    BY <1>1, Zenon DEF Threaded, Duties
  <2> QED BY <1>2, <2>1, Zenon DEF Duties
<1>6. Threaded'
  <2>1. /\ \A u \in Threads : Orderly(todo[u], Registered, Known)
        /\ Discovering => /\ main # "boot" \/ todo[Main] = <<>>
                          /\ Discovery \in Registered
                          /\ env.discovery # "no"
        /\ \A i \in DOMAIN todo[Main] : todo[Main][i].of = Discovery =>
              /\ todo[Main][i].do \in {"run", "stop"} => env.discovery # "no"
              /\ todo[Main][i].do = "stop" => Discovery \in Registered
    BY <1>1, Zenon DEF Threaded
  <2>2. Discovering' <=> Discovering
    BY <1>2, Zenon DEF Discovering
  <2>3. main' = "boot" => main = "boot"
    BY Zenon
  <2> QED BY <1>2, <1>3, <1>5, <2>1, <2>2, <2>3, Zenon DEF Threaded
<1>7. DiscoveryFirst'
  BY <1>1, <1>2, Zenon DEF DiscoveryFirst, Pending
<1>8. Halting'
  <2>1. main' \in {"stop", "stopped"} => main \in {"stop", "stopped"}
    BY Zenon
  <2>2. \A h \in Halts : Ends(h[1], h[2]) => Ends(h[1], h[2])'
    BY <1>2, Zenon DEF Ends
  <2>3. (Discovering' <=> Discovering) /\ \A p : Pending(p)' <=> Pending(p)
    BY <1>2, Zenon DEF Discovering, Pending
  <2> QED BY <1>1, <1>2, <2>1, <2>2, <2>3, Zenon DEF Halting
<1>9. NoNotify' <=> NoNotify
  BY <1>2, Zenon DEF NoNotify, Calls
<1>10. ListenOnce'
  <2>1. Unheard => Unheard'
    BY <1>2, <1>9, Zenon DEF Unheard, Nothing
  <2>2. \A u \in Threads : HasToken(u)' <=> HasToken(u)
    BY <1>2, Zenon DEF HasToken
  <2> QED BY <1>1, <1>2, <1>3, <2>1, <2>2, Zenon DEF ListenOnce
<1>11. Told'
  <2>1. \A u \in Threads : (Calls(u, "notify")' <=> Calls(u, "notify")) /\ (Calls(u, "update")' <=> Calls(u, "update"))
    BY <1>2, Zenon DEF Calls
  <2> SUFFICES ASSUME listening # {}, raced = "no"
               PROVE  /\ \A u \in Threads : Calls(u, "notify") => Head(todo[u]).all = state
                      /\ NoNotify /\ channel' # Nothing => channel' = state
                      /\ NoNotify /\ channel' = Nothing =>
                            last' = state \/ \E u \in Threads : Calls(u, "update")
    BY <1>2, <1>9, <2>1, Zenon DEF Told, Nothing
  <2>2. /\ \A u \in Threads : Calls(u, "notify") => Head(todo[u]).all = state
        /\ NoNotify /\ channel # Nothing => channel = state
        /\ NoNotify /\ channel = Nothing => last = state \/ \E u \in Threads : Calls(u, "update")
    BY <1>1, Zenon DEF Told
  <2>3. CASE channel' = channel /\ last' = last
    BY <2>2, <2>3, Zenon
  <2>4. CASE channel # Nothing /\ last' = channel /\ channel' = Nothing
    BY <2>2, <2>4, Zenon
  <2> QED BY <2>3, <2>4, Zenon
<1> QED BY <1>4, <1>6, <1>7, <1>8, <1>10, <1>11, Zenon DEF IInv

\* The status plugin takes the statuses, or has posted them; the process has booted, or
\* stopped.
LEMMA StillSteps ==
  ASSUME IInv, StatusReceives \/ StatusPosted \/ Booted \/ StopReturned \/ UNCHANGED vars
  PROVE  IInv'
<1>1. CASE StatusReceives
  <2>1. loop # "gone"
    BY <1>1, Zenon DEF StatusReceives
  <2> QED BY <1>1, <2>1, StillKeeps, Zenon DEF StatusReceives
<1>2. CASE StatusPosted
  <2>1. loop # "gone"
    BY <1>2, Zenon DEF StatusPosted
  <2> QED BY <1>2, <2>1, StillKeeps, Zenon DEF StatusPosted
<1>3. CASE Booted
  BY <1>3, StillKeeps, Zenon DEF Booted
<1>4. CASE StopReturned
  BY <1>4, StillKeeps, Zenon DEF StopReturned
<1>5. CASE UNCHANGED vars
  BY <1>5, StillKeeps, Zenon DEF vars
<1> QED BY <1>1, <1>2, <1>3, <1>4, <1>5, Zenon

\* y may follow x at boot, and l is then what is done.
MayFollow(x, y, S) ==
    /\ Orderly(x, {}, {}) /\ Orderly(y, S, {})
    /\ \A p \in S : Has(x, "register", p)
    /\ Makes(x, ConfigDos) /\ Makes(y, ConfigDos)
    /\ \A i \in DOMAIN x : ~Begins(x[i], Discovery)
    /\ \A i \in DOMAIN x, j \in DOMAIN y : Token(x[i]) => ~Token(y[j]) /\ ~Is(y[j], "register", Discovery)

Followed(l, x, y) ==
    /\ Orderly(l, {}, {}) /\ Makes(l, ConfigDos)
    /\ \A do, p : Has(x, do, p) \/ Has(y, do, p) => Has(l, do, p)
    /\ \A k \in DOMAIN l : (\E i \in DOMAIN x : l[k] = x[i]) \/ (\E i \in DOMAIN y : l[k] = y[i])

\* More of what the process does at boot.
LEMMA BootJoin ==
  ASSUME NEW x, NEW y, NEW S, MayFollow(x, y, S)
  PROVE  Followed(x \o y, x, y)
<1> DEFINE l == x \o y
<1>1. x \in Seq(Ops) /\ y \in Seq(Ops)
  BY Zenon DEF Orderly, MayFollow
<1>2. \A i \in DOMAIN y : y[i].do # "notify"
  BY Zenon DEF Makes, ConfigDos, MayFollow
<1>3. Orderly(l, {}, {})
  <2>1. /\ Orderly(x, {}, {}) /\ Orderly(y, S, {})
        /\ \A p \in S : p \in {} \/ Has(x, "register", p)
        /\ \A i \in DOMAIN x : ~Begins(x[i], Discovery)
        /\ \A i \in DOMAIN x, j \in DOMAIN y : Token(x[i]) => ~Token(y[j])
        /\ \A i \in DOMAIN x, j \in DOMAIN y : Token(x[i]) => ~Is(y[j], "register", Discovery)
    BY Zenon DEF MayFollow
  <2> QED BY <1>2, <2>1, OrderlyJoin, Zenon
<1>4. IsJoin(l, x, y)
  BY <1>1, Joined, Zenon
<1> HIDE DEF l
<1>5. /\ \A i \in DOMAIN x : i \in DOMAIN l /\ l[i] = x[i]
      /\ \A i \in DOMAIN y : \E k \in DOMAIN l : l[k] = y[i]
      /\ \A k \in DOMAIN l : (\E i \in DOMAIN x : l[k] = x[i]) \/ (\E i \in DOMAIN y : l[k] = y[i])
  BY <1>4, Zenon DEF IsJoin
<1>6. Makes(l, ConfigDos)
  BY <1>5, Zenon DEF Makes, MayFollow
<1>7. \A do, p : Has(x, do, p) \/ Has(y, do, p) => Has(l, do, p)
  BY <1>5, Zenon DEF Has
<1>8. Followed(l, x, y)
  BY <1>3, <1>5, <1>6, <1>7, Zenon DEF Followed
<1> QED BY <1>8, Zenon DEF l

\* What the process does at boot is in order, from nothing.
LEMMA BootOrderly ==
  ASSUME NEW e \in Deployments
  PROVE  Orderly(BootOps(e), {}, {}) /\ Makes(BootOps(e), ConfigDos)
<1> DEFINE a == Each(CreateOps, e.boot)
           u == IF e.discovery = "no" THEN <<>> ELSE UpdateTo(Discovery, "NotReady")
           r == Call("register", Discovery)
           b == Each(StartOps, e.boot)
           d == Call("start", Discovery)
<1>1. e.boot \in SUBSET Configurable
  BY DeploymentsValid, Zenon
<1>2. /\ Discovery \in Names /\ "NotReady" \in States /\ "register" \in Dos /\ "start" \in Dos
      /\ Discovery # Status
  BY Zenon DEF Names, Workers, States, Dos, Discovery, Status
<1>3. Block(a, e.boot, {"update", "register"}) /\ Block(b, e.boot, {"start"})
  BY <1>1, Blocks, Zenon
<1>4. Orderly(a, {}, {}) /\ Orderly(b, e.boot, {})
  <2>1. /\ {"update", "register"} \subseteq {"update", "register", "start"}
        /\ {"start"} \subseteq {"update", "register", "start"}
        /\ "start" \notin {"update", "register"} /\ e.boot \subseteq e.boot
    BY Zenon
  <2> HIDE DEF a, b
  <2>2. Orderly(a, {}, {})
    BY <1>1, <1>3, <2>1, BlockOrderly, Zenon
  <2>3. Orderly(b, e.boot, {})
    BY <1>1, <1>3, <2>1, BlockOrderly, Zenon
  <2> QED BY <2>2, <2>3, Zenon
<1>5. Plain(u) /\ \A i \in DOMAIN u : u[i].do = "update"
  <2>1. PICK o \in Ops : UpdateTo(Discovery, "NotReady") = <<o>> /\ Is(o, "update", Discovery) /\ o.is = "NotReady"
    BY <1>2, CallOp, Zenon
  <2>2. o.do = "update" /\ o.is # "none"
    BY <2>1, Zenon DEF Is
  <2>3. /\ Plain(<<>>) /\ \A i \in DOMAIN <<>> : FALSE
        /\ Plain(<<o>>) /\ \A i \in DOMAIN <<o>> : <<o>>[i] = o
    BY <2>2, PlainShort, Zenon
  <2>4. u = <<>> \/ u = <<o>>
    BY <2>1, Zenon
  <2> HIDE DEF u
  <2> QED BY <2>2, <2>3, <2>4, Zenon
<1>6. /\ Orderly(r, {}, {}) /\ Has(r, "register", Discovery)
      /\ \A i \in DOMAIN r : Is(r[i], "register", Discovery)
  <2>1. PICK o \in Ops : r = <<o>> /\ Is(o, "register", Discovery)
    BY <1>2, CallOp, Zenon
  <2>2. r \in Seq(Ops) /\ DOMAIN r = {1} /\ r[1] = o
    BY <2>1, One, Zenon
  <2> HIDE DEF r
  <2>3. \A i \in DOMAIN r : Is(r[i], "register", Discovery)
    BY <2>1, <2>2, Zenon
  <2>4. Orderly(r, {}, {})
    BY <2>2, <2>3, Zenon DEF Orderly, Token, Begins, Is
  <2>5. Has(r, "register", Discovery)
    BY <2>2, <2>3, Zenon DEF Has
  <2> QED BY <2>3, <2>4, <2>5, Zenon
<1>7. Orderly(d, {Discovery}, {}) /\ \A i \in DOMAIN d : Is(d[i], "start", Discovery)
  <2>1. PICK o \in Ops : d = <<o>> /\ Is(o, "start", Discovery)
    BY <1>2, CallOp, Zenon
  <2>2. d \in Seq(Ops) /\ Len(d) = 1 /\ DOMAIN d = {1} /\ d[1] = o
    BY <2>1, One, Zenon
  <2> HIDE DEF d
  <2>3. \A i \in DOMAIN d : i = Len(d) /\ Is(d[i], "start", Discovery) /\ ~Token(d[i])
    BY <1>2, <2>1, <2>2, Zenon DEF Token, Is
  <2>4. Orderly(d, {Discovery}, {})
    BY <2>2, <2>3, Zenon DEF Orderly, Is
  <2> QED BY <2>3, <2>4, Zenon
<1>8. BootOps(e) = a \o u \o r \o b \o d
  BY Zenon DEF BootOps, StartOps
<1> HIDE DEF a, u, r, b, d
<1>9. /\ \A i \in DOMAIN a : a[i].do \in {"update", "register"} /\ a[i].of \in e.boot
      /\ \A i \in DOMAIN b : b[i].do = "start" /\ b[i].of \in e.boot
      /\ \A p \in e.boot : Has(a, "register", p)
  BY <1>3, Zenon DEF Block
<1>10. Discovery \notin e.boot
  BY <1>1, Zenon DEF Configurable, Discovery, Bundle, Logs, Status
<1> DEFINE v == a \o u
<1>11. /\ Orderly(v, {}, {}) /\ Makes(v, ConfigDos) /\ \A p \in e.boot : Has(v, "register", p)
       /\ \A i \in DOMAIN v : v[i].do \in {"update", "register"}
  <2>1. Orderly(u, {}, {}) /\ Makes(a, ConfigDos) /\ Makes(u, ConfigDos)
    BY <1>5, <1>9, PlainOrderly, Zenon DEF Makes, ConfigDos
  <2>2. \A i \in DOMAIN a : ~Begins(a[i], Discovery) /\ ~Token(a[i])
    BY <1>9, Zenon DEF Begins, Token, Is
  <2>3. \A p \in {} : Has(a, "register", p)
    BY Zenon
  <2>4. Followed(v, a, u)
    <3>1. MayFollow(a, u, {})
      BY <1>4, <2>1, <2>2, <2>3, Zenon DEF MayFollow
    <3> QED BY <3>1, BootJoin, Zenon
  <2> HIDE DEF v
  <2> QED BY <1>5, <1>9, <2>4, Zenon DEF Followed
<1> DEFINE w == v \o r
<1> HIDE DEF v
<1>12. /\ Orderly(w, {}, {}) /\ Makes(w, ConfigDos)
       /\ \A p \in e.boot : Has(w, "register", p)
       /\ Has(w, "register", Discovery)
       /\ \A i \in DOMAIN w : w[i].do \in {"update", "register"}
  <2>1. \A i \in DOMAIN v : ~Begins(v[i], Discovery) /\ ~Token(v[i])
    BY <1>11, Zenon DEF Begins, Token, Is
  <2>2. (\A p \in {} : Has(v, "register", p)) /\ Makes(r, ConfigDos)
    BY <1>6, Zenon DEF Makes, ConfigDos, Is
  <2>3. Followed(w, v, r)
    <3>1. MayFollow(v, r, {})
      BY <1>6, <1>11, <2>1, <2>2, Zenon DEF MayFollow
    <3> QED BY <3>1, BootJoin, Zenon
  <2>4. \A i \in DOMAIN r : r[i].do = "register"
    BY <1>6, Zenon DEF Is
  <2> HIDE DEF w
  <2> QED BY <1>6, <1>11, <2>3, <2>4, Zenon DEF Followed
<1> DEFINE x == w \o b
<1> HIDE DEF w
<1>13. /\ Orderly(x, {}, {}) /\ Makes(x, ConfigDos) /\ Has(x, "register", Discovery)
       /\ \A i \in DOMAIN x : ~Begins(x[i], Discovery)
  <2>1. \A i \in DOMAIN w : ~Begins(w[i], Discovery) /\ ~Token(w[i])
    BY <1>12, Zenon DEF Begins, Token, Is
  <2>2. Makes(b, ConfigDos)
    BY <1>9, Zenon DEF Makes, ConfigDos
  <2>3. Followed(x, w, b)
    <3>1. MayFollow(w, b, e.boot)
      BY <1>4, <1>12, <2>1, <2>2, Zenon DEF MayFollow
    <3> QED BY <3>1, BootJoin, Zenon
  <2>4. \A i \in DOMAIN b : ~Begins(b[i], Discovery)
    BY <1>9, <1>10, Zenon DEF Begins
  <2> HIDE DEF x
  <2> QED BY <1>12, <2>1, <2>3, <2>4, Zenon DEF Followed
<1> HIDE DEF x
<1>14. Orderly(x \o d, {}, {}) /\ Makes(x \o d, ConfigDos)
  <2>1. \A i \in DOMAIN d : ~Token(d[i]) /\ ~Is(d[i], "register", Discovery)
    BY <1>2, <1>7, Zenon DEF Token, Is
  <2>2. (\A p \in {Discovery} : Has(x, "register", p)) /\ Makes(d, ConfigDos)
    BY <1>7, <1>13, Zenon DEF Makes, ConfigDos, Is
  <2>3. MayFollow(x, d, {Discovery})
    BY <1>7, <1>13, <2>1, <2>2, Zenon DEF MayFollow
  <2> QED BY <2>3, BootJoin, Zenon DEF Followed
<1> QED BY <1>8, <1>14, Zenon DEF x, w, v

\* The process boots with nothing registered, nobody listening and nothing running.
LEMMA InitHolds ==
  ASSUME Init
  PROVE  IInv
<1> DEFINE l == BootOps(env)
<1>1. /\ env \in Deployments /\ plugins = <<>> /\ state = Nothing /\ listening = {}
      /\ running = [w \in Workers |-> "off"] /\ channel = Nothing
      /\ todo = [t \in Threads |-> IF t = Main THEN l ELSE <<>>]
      /\ main = "boot" /\ toStop = <<>>
  BY Zenon DEF Init
<1>2. Orderly(l, {}, {}) /\ Makes(l, ConfigDos) /\ l \in Seq(Ops)
  BY <1>1, BootOrderly, Zenon DEF Orderly
<1> HIDE DEF l
<1>3. /\ <<>> \in Seq(Ops) /\ <<>> \in Seq(Names) /\ \A i \in DOMAIN <<>> : FALSE
  BY SMT
<1>4. Plain(<<>>) /\ Orderly(<<>>, {}, {})
  BY Reports, PlainOrderly, Zenon
<1>5. /\ Discovery \in Threads /\ Bundle \in Threads /\ Logs \in Threads /\ Main \in Threads
      /\ Discovery # Main /\ Bundle # Main /\ Logs # Main /\ Discovery \in Workers
  BY Zenon DEF Threads, Workers, Discovery, Bundle, Logs, Main
<1>6. todo[Main] = l /\ \A t \in Threads : t # Main => todo[t] = <<>>
  BY <1>1, <1>5, Zenon
<1>7. Registered = {} /\ Range(toStop) = {}
  BY <1>1, <1>3, Zenon DEF Registered, Range
<1>8. Known = {} /\ state \in [Names -> States]
  <2>1. \A p \in Names : state[p] = "none"
    BY <1>1, Zenon DEF Nothing
  <2> QED BY <1>1, <2>1, NothingType, Zenon DEF Known
<1>9. Types
  <2>1. running \in [Workers -> Goroutines]
    BY <1>1, Zenon DEF Goroutines
  <2>2. todo \in [Threads -> Seq(Ops)]
    BY <1>1, <1>2, <1>3, Zenon
  <2> QED BY <1>1, <1>3, <1>7, <1>8, <2>1, <2>2, Zenon DEF Types
<1>10. \A i \in DOMAIN l : l[i].do \in ConfigDos /\ l[i].do \in ConfigureDos /\ l[i].do \notin {"notify", "run", "stop"}
  BY <1>2, Zenon DEF Makes, ConfigDos, ConfigureDos
<1>11. ~Discovering
  BY <1>1, <1>5, <1>6, Zenon DEF Discovering
<1>12. Threaded
  <2>1. \A t \in Threads : Orderly(todo[t], Registered, Known)
    BY <1>2, <1>4, <1>6, <1>7, <1>8, Zenon
  <2>2. todo[Bundle] = <<>> /\ todo[Logs] = <<>> /\ todo[Discovery] = <<>>
    BY <1>5, <1>6, Zenon
  <2>3. Duties
    BY <1>1, <1>3, <1>6, <1>10, <2>2, Zenon DEF Duties, Makes
  <2> QED BY <1>6, <1>10, <1>11, <2>1, <2>3, Zenon DEF Threaded
<1>13. DiscoveryFirst
  <2>1. todo[Discovery] = <<>>
    BY <1>5, <1>6, Zenon
  <2> QED BY <1>3, <2>1, Zenon DEF DiscoveryFirst, Pending
<1>14. Halting
  BY <1>1, Zenon DEF Halting
<1>15. NoNotify
  <2> SUFFICES ASSUME NEW t \in Threads, todo[t] # <<>> PROVE Head(todo[t]).do # "notify"
    BY Zenon DEF NoNotify, Calls
  <2>1. todo[t] = l
    BY <1>6, Zenon
  <2>2. 1 \in DOMAIN l /\ Head(l) = l[1]
    BY <1>2, <2>1, FirstCall, Zenon
  <2> QED BY <1>10, <2>1, <2>2, Zenon
<1>16. ListenOnce
  <2>1. \A t \in Threads : HasToken(t) => t = Main
    BY <1>3, <1>6, Zenon DEF HasToken
  <2> QED BY <1>1, <1>15, <2>1, Zenon DEF ListenOnce, Unheard
<1>17. Told
  BY <1>1, Zenon DEF Told
<1> QED BY <1>9, <1>12, <1>13, <1>14, <1>16, <1>17, Zenon DEF IInv

\* Every step of every thread keeps what the invariant says.
LEMMA NextKeeps ==
  ASSUME IInv, [Next]_vars
  PROVE  IInv'
<1>1. ASSUME NEW t \in Threads, Calling(t) PROVE IInv'
  <2>1. CASE UpdatePluginStatus(t)
    BY <2>1, UpdateKeeps, Zenon
  <2>2. CASE Notify(t)
    BY <2>2, NotifyKeeps, Zenon
  <2>3. CASE Register(t)
    BY <2>3, RegisterKeeps, Zenon
  <2>4. CASE Hear(t)
    BY <2>4, HearKeeps, Zenon
  <2>5. CASE Start(t)
    BY <2>5, StartKeeps, StartDiscoveryKeeps, Zenon
  <2>6. CASE Run(t)
    BY <2>6, RunKeeps, Zenon
  <2>7. CASE Listen(t)
    BY <2>7, ListenKeeps, Zenon
  <2>8. CASE Reconfigure(t)
    BY <2>8, ReconfigureKeeps, Zenon
  <2>9. CASE Tell(t)
    BY <2>9, TellKeeps, Zenon
  <2>10. CASE StopWorker(t)
    BY <2>10, StopWorkerKeeps, Zenon
  <2>11. CASE Await(t)
    BY <2>11, AwaitKeeps, Zenon
  <2> QED
    BY <1>1, <2>1, <2>2, <2>3, <2>4, <2>5, <2>6, <2>7, <2>8, <2>9, <2>10, <2>11, Zenon DEF Calling
<1>2. CASE BundleCallback
  BY <1>2, BundleCallbackKeeps, Zenon
<1>3. CASE LogsUpload
  BY <1>3, LogsUploadKeeps, Zenon
<1>4. CASE DiscoveryFails
  BY <1>4, DiscoveryFailsKeeps, Zenon
<1>5. CASE \E c \in env.configs : DiscoveryConfigures(c)
  BY <1>5, DiscoveryConfiguresKeeps, Zenon
<1>6. CASE StopCalled
  BY <1>6, StopCalledKeeps, Zenon
<1>7. CASE StatusReceives \/ StatusPosted \/ Booted \/ StopReturned \/ UNCHANGED vars
  BY <1>7, StillSteps, Zenon
<1> QED BY <1>1, <1>2, <1>3, <1>4, <1>5, <1>6, <1>7, Zenon DEF Next

\* The inductive invariant: the calls the threads have yet to make are in order, what Stop
\* has yet to wait for is in its list, discovery before what discovery still begins, and
\* the latest statuses are on their way to the status plugin or there.
THEOREM LifecycleInductive == Spec => []IInv
<1>1. Init => IInv
  BY InitHolds
<1>2. IInv /\ [Next]_vars => IInv'
  BY NextKeeps
<1> QED BY <1>1, <1>2, PTL DEF Spec

\* When Manager.Stop has returned, no plugin it stopped runs, reports or is notified, for
\* any deployment and any configurations discovered meanwhile.
THEOREM StopLeavesQuiet == Spec => []StoppedIsQuiet
<1>1. ASSUME IInv PROVE StoppedIsQuiet
  <2> SUFFICES ASSUME main = "stopped", NEW p \in Range(toStop)
               PROVE  IF p = Status THEN loop = "gone" /\ listening = {}
                      ELSE running[p] = "off" /\ todo[p] = <<>>
    BY Zenon DEF StoppedIsQuiet
  <2>1. Types /\ Threaded /\ Halting
    BY <1>1, Zenon DEF IInv
  <2>2. todo[Main] = <<>>
    BY <2>1, Zenon DEF Threaded, Duties
  <2>3. \A i \in DOMAIN todo[Main] : FALSE
    BY <2>2, SMT
  <2>4. ASSUME NEW h \in Halts, h[2] = p PROVE Ends(h[1], h[2])
    BY <2>1, <2>3, <2>4, Zenon DEF Halting, Has
  <2>5. p \in Names
    <3>1. \A i \in DOMAIN toStop : toStop[i] \in Names
      BY <2>1, Elements, Zenon DEF Types
    <3> QED BY <3>1, Zenon DEF Range
  <2>6. <<"await", p>> \in Halts /\ <<"unlisten", Status>> \in Halts
    BY <2>5, Zenon DEF Halts
  <2>7. /\ <<"await", p>>[1] = "await" /\ <<"await", p>>[2] = p
        /\ <<"unlisten", Status>>[1] = "unlisten" /\ <<"unlisten", Status>>[2] = Status
    BY SMT
  <2>8. Ends("await", p)
    <3>1. Ends(<<"await", p>>[1], <<"await", p>>[2])
      BY <2>4, <2>6, <2>7, Zenon
    <3> QED BY <2>7, <3>1, Zenon
  <2>9. p = Status => Ends("unlisten", p)
    <3>1. p = Status => Ends(<<"unlisten", Status>>[1], <<"unlisten", Status>>[2])
      BY <2>4, <2>6, <2>7, Zenon
    <3> QED BY <2>7, <3>1, Zenon
  <2> QED BY <2>8, <2>9, Zenon DEF Ends
<1> QED BY <1>1, LifecycleInductive, PTL

\* When no notification is on its way and no two updates overlapped, the status plugin has
\* the statuses the manager holds, whoever updates which of them in whatever order.
THEOREM LastReportIsCurrent == Spec => []ReportsSettle
<1>1. ASSUME IInv PROVE ReportsSettle
  <2> SUFFICES ASSUME listening # {}, raced = "no", channel = Nothing,
                      ~(\E t \in Threads : Calls(t, "notify") \/ Calls(t, "update"))
               PROVE  \A p \in Names : last[p] = state[p]
    BY Zenon DEF ReportsSettle
  <2>1. NoNotify /\ ~\E t \in Threads : Calls(t, "update")
    BY Zenon DEF NoNotify
  <2>2. last = state
    BY <1>1, <2>1, Zenon DEF IInv, Told
  <2> QED BY <2>2, Zenon
<1> QED BY <1>1, LifecycleInductive, PTL
=============================================================================
