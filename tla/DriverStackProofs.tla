-------------------------- MODULE DriverStackProofs --------------------------
(***************************************************************************)
(* Proofs about DriverStack, for every build, console and setting, whatever *)
(* fails to start, and for any order of calls.                             *)
(*                                                                         *)
(* What a step of `todo' may rely on was arranged by steps before it: a     *)
(* disk driver is loaded behind setupPowerOff, the MMCE driver behind the   *)
(* switch of the storage stack.  Tokens say what is arranged at a place of  *)
(* `todo'; a step has tokens it needs, loses and gives.                    *)
(***************************************************************************)
EXTENDS DriverStack, SequenceTheorems, TLAPS

Pair == {"mmce", "mx4sio"}
Other(a) == IF a = "mmce" THEN "mx4sio" ELSE "mmce"
DiskModules == {"ps2hdd", "ata_bd"}
BothNetworks == {"eth", "udpfs"}

(* armed: the poweroff handler is registered.  mmce, mx4sio: the stack may  *)
(* be loaded.  settled: the mode names the resident one of the two.  eth,   *)
(* udpfs: the mode of the network.  toEth, toUdpfs: it may be set.  still:  *)
(* no network yet.  mc1free: MX4SIO does not hold the slot of mc1:.         *)
(* cached: ip_config_cached.                                               *)
Tokens == {"armed", "mmce", "mx4sio", "settled", "eth", "udpfs", "toEth", "toUdpfs",
           "still", "mc1free", "cached"}
To(a) == IF a = "eth" THEN "toEth" ELSE "toUdpfs"
NetTokens == {"eth", "udpfs", "toEth", "toUdpfs", "still"}
ResetLoses == {"armed", "eth", "udpfs", "still", "mc1free"}
(* A reset restarts the keyboard, which loads the stack its files are on.   *)
Away(apart) == ResetLoses \cup (IF apart THEN {} ELSE Pair)

CallOps == {"switchStorage", "switchBlock", "switchNetwork", "ensureMc1", "getIpConfig",
            "startKbd", "loadKbd", "kbdInit", "kbdMap", "genFixPath", "deviceReady"}

MayReset(C, x) ==
  /\ x.op \in CallOps
  /\ ~(x.op = "switchNetwork" /\ "still" \in C)
  /\ ~(x.op = "getIpConfig" /\ ("cached" \in C \/ "mc1free" \in C))
  /\ ~("mc1free" \in C /\ (x.op = "ensureMc1" \/ (x.op = "genFixPath" /\ x.on = "mc1")))
Loses(k, C, x, apart) ==
  \/ MayReset(C, x) /\ k \in Away(apart)
  \/ x.op \in {"Reset", "signerReboot"} /\ k \in ResetLoses
  \/ x.op = "load" /\ x.on \in Pair /\ k \in {"settled", Other(x.on), "mc1free"}
  \/ x.op = "storageMode" /\ k \in {Other(x.on), "mc1free"}
  \/ x.op = "switchStorage" /\ k = Other(x.on)
  \/ x.op \in {"genFixPath", "deviceReady"} /\ x.on \in Pair /\ k \in Pair
  \/ x.op \in {"networkMode", "switchNetwork"} /\ k \in NetTokens
  \/ x.op = "deviceReady" /\ x.on \in {"host", "udpfs"} /\ k \in NetTokens
Gives(k, x, apart) ==
  \/ x.op = "setupPowerOff" /\ k = "armed"
  \/ x.op \in {"Reset", "signerReboot"} /\ k \in Pair \cup {"toEth", "toUdpfs", "settled"}
  \/ x.op = "storageMode" /\ k = "settled"
  \/ x.op = "switchStorage" /\ apart /\ k = x.on
  \/ x.op \in {"networkMode", "switchNetwork"} /\ k = x.on
  \/ x.op = "getIpConfig" /\ k = "cached"
After(C, x, apart) == {k \in Tokens : (k \in C /\ ~Loses(k, C, x, apart)) \/ Gives(k, x, apart)}

Fits(x, C, apart) ==
  /\ x.op = "load" =>
       /\ x.on \in DiskModules => "armed" \in C
       /\ x.on \in Pair /\ apart => x.on \in C
       /\ x.on \in EthModules => "eth" \in C
       /\ x.on \in UdpfsModules => "udpfs" \in C
  /\ x.op = "flag" /\ x.on = "donePowerOff" => "armed" \in C
  /\ x.op = "storageMode" /\ apart => x.on \in C
  /\ x.op = "networkMode" => To(x.on) \in C
  /\ x.op \in CallOps => "settled" \in C
  /\ x.op = "deviceReady" /\ x.on = "udpfs" => "cached" \in C \/ {"still", "mc1free"} \subseteq C

Apart(u) == {u.kbdFile, u.kbdMap} \cap Pair = {}
Ops == {"load", "core", "dev9", "setupPowerOff", "flag", "vmcmanProbe", "loadExternal", "storageMode", "blockMode",
        "networkMode", "partyList", "use", "Reset", "signerReboot"} \cup CallOps
Flags == {"HDD", "DVRP", "NetModules", "donePowerOff", "signer"}
Names == Devices \cup Checked \cup Flags \cup {"vmcman", "xfrom", "hdl_info", "eth", "dev9"}
Steps == [op : Ops, on : Names, needs : SUBSET Names]
Known(x, u) ==
  /\ x.op \in {"storageMode", "switchStorage"} => x.on \in Pair
  /\ x.op \in {"switchNetwork", "networkMode"} => x.on \in BothNetworks
  /\ x.op = "blockMode" => \/ x.on = "ata" /\ x.needs = {"ata_bd"}
                           \/ x.on = "hdd" /\ x.needs = {"HDD"}
  /\ x.op = "partyList" => \/ x.on = "hdd" /\ x.needs = {"HDD"}
                           \/ x.on = "dvr" /\ x.needs = {"DVRP"}
  /\ x.op = "flag" => \/ x.on \in {"donePowerOff", "NetModules", "signer"}
                      \/ x.on = "HDD" /\ x.needs = {"ps2hdd", "ps2fs"}
                      \/ x.on = "DVRP" /\ x.needs = {"dvrdrv", "dvrfile"}
  /\ x.op = "load" =>
       /\ x.on \in Checked \cup {"vmcman", "xfrom", "hdl_info"}
       /\ x.on \in EthModules => "eth" \in u.networks
       /\ x.on \in UdpfsModules => "udpfs" \in u.networks
KnownSteps(u) == {x \in Steps : Known(x, u)}

(* The steps s lead from the tokens C to the tokens D by the moves R, where <<c, x, d>> is a move if the step x    *)
(* finds what it needs in c and leaves d.                                  *)
Path(s, C, D, R, T) ==
  \E f \in [0 .. Len(s) -> SUBSET T] :
    /\ f[0] \subseteq C
    /\ D \subseteq f[Len(s)]
    /\ \A i \in 1 .. Len(s) : <<f[i - 1], s[i], f[i]>> \in R
(* A move may leave less than it could. *)
Lossy(R, T) == \A c, d \in SUBSET T : \A e \in SUBSET d : \A x : <<c, x, d>> \in R => <<c, x, e>> \in R

Moves(u) == {m \in (SUBSET Tokens) \X KnownSteps(u) \X (SUBSET Tokens) :
               Fits(m[2], m[1], Apart(u)) /\ m[3] \subseteq After(m[1], m[2], Apart(u))}
Leads(s, C, D, u) == s \in Seq(KnownSteps(u)) /\ Path(s, C, D, Moves(u), Tokens)
(* The steps that keep the tokens C, and find in it what they need.         *)
Quiet(C, u) == {x \in KnownSteps(u) : Fits(x, C, Apart(u)) /\ C \subseteq After(C, x, Apart(u))}
-----------------------------------------------------------------------------
(* Sequences of steps.                                                     *)

(* More tokens before, fewer after. *)
LEMMA WeakerPath ==
  ASSUME NEW R, NEW T, NEW s, NEW C, NEW D, NEW K \in SUBSET C, NEW E \in SUBSET D, Path(s, K, D, R, T)
  PROVE  Path(s, C, E, R, T)
BY DEF Path

(* No step. *)
LEMMA NoPath ==
  ASSUME NEW R, NEW T, NEW C \in SUBSET T
  PROVE  Path(<<>>, C, C, R, T)
<1> DEFINE f == [i \in 0 .. 0 |-> C]
<1>1. f \in [0 .. Len(<<>>) -> SUBSET T] /\ f[0] = C
  OBVIOUS
<1>2. Len(<<>>) = 0
  OBVIOUS
<1> HIDE DEF f
<1> QED
  BY <1>1, <1>2 DEF Path

(* One step. *)
LEMMA OnePath ==
  ASSUME NEW R, NEW T, NEW C \in SUBSET T, NEW D \in SUBSET T, NEW x, <<C, x, D>> \in R
  PROVE  Path(<<x>>, C, D, R, T)
<1> DEFINE f == [i \in 0 .. 1 |-> IF i = 0 THEN C ELSE D]
<1>1. Len(<<x>>) = 1 /\ <<x>>[1] = x
  OBVIOUS
<1>2. f \in [0 .. 1 -> SUBSET T] /\ f[0] = C /\ f[1] = D
  OBVIOUS
<1> HIDE DEF f
<1>3. \A i \in 1 .. 1 : i = 1 /\ i - 1 = 0
  OBVIOUS
<1> QED
  BY <1>1, <1>2, <1>3 DEF Path

(* Steps that keep C. *)
LEMMA SteadyPath ==
  ASSUME NEW R, NEW T, NEW C \in SUBSET T, NEW X, NEW s \in Seq(X), \A x \in X : <<C, x, C>> \in R
  PROVE  Path(s, C, C, R, T)
<1> DEFINE f == [i \in 0 .. Len(s) |-> C]
<1>1. Len(s) \in Nat /\ \A i \in 1 .. Len(s) : s[i] \in X
  BY LenProperties, ElementOfSeq
<1>2. f \in [0 .. Len(s) -> SUBSET T] /\ \A i \in 0 .. Len(s) : f[i] = C
  OBVIOUS
<1> HIDE DEF f
<1>3. \A i \in 1 .. Len(s) : f[i - 1] = C /\ f[i] = C
  BY <1>1, <1>2
<1>4. f[0] = C /\ f[Len(s)] = C
  BY <1>1, <1>2
<1> QED
  BY <1>1, <1>2, <1>3, <1>4 DEF Path

(* One behind another. *)
LEMMA BehindPath ==
  ASSUME NEW R, NEW T, Lossy(R, T), NEW X, NEW s \in Seq(X), NEW t \in Seq(X), NEW C, NEW D, NEW E,
         Path(s, C, D, R, T), Path(t, D, E, R, T)
  PROVE  Path(s \o t, C, E, R, T)
<1> DEFINE m == Len(s)
           n == Len(t)
<1>1. m \in Nat /\ n \in Nat
  BY LenProperties
<1>2. PICK f \in [0 .. m -> SUBSET T] :
        f[0] \subseteq C /\ D \subseteq f[m] /\ \A i \in 1 .. m : <<f[i - 1], s[i], f[i]>> \in R
  BY DEF Path
<1>3. PICK g \in [0 .. n -> SUBSET T] :
        g[0] \subseteq D /\ E \subseteq g[n] /\ \A i \in 1 .. n : <<g[i - 1], t[i], g[i]>> \in R
  BY DEF Path
<1> DEFINE h == [i \in 0 .. m + n |-> IF i < m THEN f[i] ELSE g[i - m]]
<1>4. /\ Len(s \o t) = m + n
      /\ \A i \in 1 .. m + n : (s \o t)[i] = IF i <= m THEN s[i] ELSE t[i - m]
  BY <1>1, ConcatProperties
<1> HIDE DEF m, n
<1>5. h \in [0 .. m + n -> SUBSET T] /\ \A i \in 0 .. m + n : h[i] = IF i < m THEN f[i] ELSE g[i - m]
  <2>1. \A i \in 0 .. m + n : (IF i < m THEN f[i] ELSE g[i - m]) \in SUBSET T
    BY <1>1
  <2> QED
    BY <2>1
<1> HIDE DEF h
<1>6. h[0] \subseteq C /\ E \subseteq h[m + n]
  <2>1. 0 \in 0 .. m + n /\ m + n \in 0 .. m + n /\ ~(m + n < m) /\ m + n - m = n
    BY <1>1
  <2>2. CASE m = 0
    BY <1>1, <1>2, <1>3, <1>5, <2>1, <2>2
  <2>3. CASE m > 0
    BY <1>1, <1>2, <1>3, <1>5, <2>1, <2>3
  <2> QED
    BY <1>1, <2>2, <2>3
<1>7. ASSUME NEW i \in 1 .. m + n
      PROVE  <<h[i - 1], (s \o t)[i], h[i]>> \in R
  <2>1. i \in 0 .. m + n /\ i - 1 \in 0 .. m + n
    BY <1>1
  <2>2. CASE i < m
    <3>1. i \in 1 .. m /\ i <= m /\ i - 1 < m
      BY <1>1, <2>2
    <3>2. (s \o t)[i] = s[i] /\ h[i] = f[i] /\ h[i - 1] = f[i - 1]
      BY <1>4, <1>5, <2>1, <2>2, <3>1
    <3> QED
      BY <1>2, <3>1, <3>2
  <2>3. CASE i = m
    <3>1. i \in 1 .. m /\ i <= m /\ i - 1 < m /\ ~(i < m) /\ i - m = 0
      BY <1>1, <2>3
    <3>2. (s \o t)[i] = s[i] /\ h[i] = g[0] /\ h[i - 1] = f[i - 1]
      BY <1>4, <1>5, <2>1, <3>1
    <3>3. h[i] \in SUBSET f[i] /\ f[i] \in SUBSET T /\ f[i - 1] \in SUBSET T
      BY <1>1, <1>2, <1>3, <2>3, <3>1, <3>2
    <3>4. <<f[i - 1], s[i], f[i]>> \in R
      BY <1>2, <3>1
    <3>5. <<f[i - 1], s[i], h[i]>> \in R
      BY <3>3, <3>4 DEF Lossy
    <3> QED
      BY <3>2, <3>5
  <2>4. CASE i > m
    <3>1. i - m \in 1 .. n /\ ~(i <= m) /\ ~(i < m) /\ ~(i - 1 < m) /\ i - 1 - m = (i - m) - 1
      BY <1>1, <2>4
    <3>2. (s \o t)[i] = t[i - m] /\ h[i] = g[i - m] /\ h[i - 1] = g[(i - m) - 1]
      BY <1>4, <1>5, <2>1, <3>1
    <3> QED
      BY <1>3, <3>1, <3>2
  <2>5. i < m \/ i = m \/ i > m
    BY <1>1
  <2> QED
    BY <2>2, <2>3, <2>4, <2>5
<1> QED
  BY <1>4, <1>5, <1>6, <1>7 DEF Path, m, n

(* The first step of a path, and those that follow. *)
Begins(s, C, D, R, T) ==
  \E K \in SUBSET C, E \in SUBSET T : K \in SUBSET T /\ <<K, Head(s), E>> \in R /\ Path(Tail(s), E, D, R, T)
LEMMA FirstPath ==
  ASSUME NEW R, NEW T, NEW X, NEW s \in Seq(X), NEW C, NEW D, Path(s, C, D, R, T), s # <<>>
  PROVE  /\ Head(s) \in X /\ Tail(s) \in Seq(X)
         /\ Begins(s, C, D, R, T)
<1> DEFINE n == Len(s)
           t == Tail(s)
<1>1. n \in Nat \ {0} /\ s[1] = Head(s)
  BY EmptySeq
<1>2. /\ Head(s) \in X /\ t \in Seq(X) /\ Len(t) = n - 1
      /\ \A i \in 1 .. Len(t) : t[i] = s[i + 1]
  BY <1>1, HeadTailProperties
<1>3. PICK f \in [0 .. n -> SUBSET T] :
        f[0] \subseteq C /\ D \subseteq f[n] /\ \A i \in 1 .. n : <<f[i - 1], s[i], f[i]>> \in R
  BY DEF Path
<1> HIDE DEF n, t
<1> DEFINE g == [i \in 0 .. n - 1 |-> f[i + 1]]
<1>4. g \in [0 .. n - 1 -> SUBSET T] /\ \A i \in 0 .. n - 1 : g[i] = f[i + 1]
  BY <1>1, <1>3
<1> HIDE DEF g
<1>5. <<f[0], Head(s), g[0]>> \in R /\ g[0] \in SUBSET T /\ f[0] \in SUBSET T /\ D \subseteq g[n - 1]
  <2>1. /\ 1 \in 1 .. n /\ 1 - 1 = 0 /\ 0 \in 0 .. n /\ 0 \in 0 .. n - 1 /\ n - 1 \in 0 .. n - 1
        /\ n - 1 + 1 = n /\ 0 + 1 = 1
    BY <1>1
  <2>2. g[0] = f[1] /\ g[n - 1] = f[n]
    BY <1>4, <2>1
  <2>3. <<f[0], s[1], f[1]>> \in R
    BY <1>3, <2>1
  <2> QED
    BY <1>1, <1>3, <1>4, <2>1, <2>2, <2>3
<1>6. ASSUME NEW i \in 1 .. n - 1
      PROVE  <<g[i - 1], t[i], g[i]>> \in R
  <2>1. i + 1 \in 1 .. n /\ i \in 0 .. n - 1 /\ i - 1 \in 0 .. n - 1 /\ i - 1 + 1 = i /\ i + 1 - 1 = i
    BY <1>1
  <2>2. g[i] = f[i + 1] /\ g[i - 1] = f[i] /\ t[i] = s[i + 1]
    BY <1>2, <1>4, <2>1
  <2>3. <<f[i], s[i + 1], f[i + 1]>> \in R
    BY <1>3, <2>1
  <2> QED
    BY <2>2, <2>3
<1>7. Path(t, g[0], D, R, T)
  BY <1>2, <1>4, <1>5, <1>6 DEF Path
<1> QED
  BY <1>2, <1>3, <1>5, <1>7 DEF t, Begins
-----------------------------------------------------------------------------
(* The same of the tokens above.                                           *)

(* A move of Moves. *)
LEMMA MovesLossy ==
  ASSUME NEW u
  PROVE  Lossy(Moves(u), Tokens)
BY DEF Lossy, Moves

LEMMA Weaker ==
  ASSUME NEW u, NEW s, NEW C, NEW D, NEW K \in SUBSET C, NEW E \in SUBSET D, Leads(s, K, D, u)
  PROVE  Leads(s, C, E, u)
BY WeakerPath DEF Leads

LEMMA Nothing ==
  ASSUME NEW u, NEW C \in SUBSET Tokens
  PROVE  Leads(<<>>, C, C, u)
BY NoPath DEF Leads

LEMMA One ==
  ASSUME NEW u, NEW C \in SUBSET Tokens, NEW D \in SUBSET Tokens, NEW x \in KnownSteps(u),
         Fits(x, C, Apart(u)), D \subseteq After(C, x, Apart(u))
  PROVE  Leads(<<x>>, C, D, u)
<1>1. <<C, x, D>> \in Moves(u)
  BY DEF Moves
<1>2. <<x>> \in Seq(KnownSteps(u))
  OBVIOUS
<1> QED
  BY <1>1, <1>2, OnePath DEF Leads

LEMMA Steady ==
  ASSUME NEW u, NEW C \in SUBSET Tokens, NEW s \in Seq(Quiet(C, u))
  PROVE  Leads(s, C, C, u)
<1>1. \A x \in Quiet(C, u) : <<C, x, C>> \in Moves(u)
  BY DEF Quiet, Moves
<1>2. s \in Seq(KnownSteps(u))
  BY SeqMonotonic DEF Quiet
<1> QED
  BY <1>1, <1>2, SteadyPath DEF Leads

LEMMA Behind ==
  ASSUME NEW u, NEW s, NEW t, NEW C, NEW D, NEW E, Leads(s, C, D, u), Leads(t, D, E, u)
  PROVE  Leads(s \o t, C, E, u)
<1>1. s \o t \in Seq(KnownSteps(u))
  BY ConcatProperties DEF Leads
<1> QED
  BY <1>1, MovesLossy, BehindPath DEF Leads

LEMMA First ==
  ASSUME NEW u, NEW s, NEW C \in SUBSET Tokens, NEW D, Leads(s, C, D, u), s # <<>>
  PROVE  /\ Head(s) \in KnownSteps(u)
         /\ \E K \in SUBSET C : /\ Fits(Head(s), K, Apart(u))
                              /\ Leads(Tail(s), After(K, Head(s), Apart(u)), D, u)
<1>0. s \in Seq(KnownSteps(u)) /\ Path(s, C, D, Moves(u), Tokens)
  BY DEF Leads
<1>1. Head(s) \in KnownSteps(u) /\ Tail(s) \in Seq(KnownSteps(u)) /\ Begins(s, C, D, Moves(u), Tokens)
  BY <1>0, FirstPath
<1>2. PICK K \in SUBSET C, E \in SUBSET Tokens :
        <<K, Head(s), E>> \in Moves(u) /\ Path(Tail(s), E, D, Moves(u), Tokens)
  BY <1>1 DEF Begins
<1>3. Fits(Head(s), K, Apart(u)) /\ E \in SUBSET After(K, Head(s), Apart(u))
  BY <1>2 DEF Moves
<1>4. Path(Tail(s), After(K, Head(s), Apart(u)), D, Moves(u), Tokens)
  BY <1>2, <1>3, WeakerPath
<1> QED
  BY <1>1, <1>3, <1>4 DEF Leads
-----------------------------------------------------------------------------
(* The steps of the bodies.                                                *)

(* The parts of a step. *)
LEMMA Parts ==
  ASSUME NEW op \in Ops, NEW on \in Names, NEW n \in SUBSET Names
  PROVE  /\ Step(op, on, n) \in Steps
         /\ Step(op, on, n).op = op /\ Step(op, on, n).on = on /\ Step(op, on, n).needs = n
BY DEF Step, Steps

(* Steps that call nothing and that no token is about. *)
LEMMA PlainSteps ==
  ASSUME NEW u, NEW C \in SUBSET Tokens, NEW x \in KnownSteps(u),
         x.op \in {"core", "dev9", "setupPowerOff", "vmcmanProbe", "loadExternal", "blockMode", "partyList", "use"}
  PROVE  x \in Quiet(C, u)
<1>1. Fits(x, C, Apart(u))
  BY DEF Fits, CallOps
<1>2. \A k \in C : ~Loses(k, C, x, Apart(u))
  BY DEF Loses, MayReset, CallOps
<1> QED
  BY <1>1, <1>2 DEF Quiet, After

(* A load or a flag, with the token it needs. *)
LEMMA LoadSteps ==
  ASSUME NEW u, NEW C \in SUBSET Tokens, NEW x \in KnownSteps(u), x.op \in {"load", "flag"}, x.on \notin Pair,
         x.on \in DiskModules \cup {"donePowerOff"} => "armed" \in C,
         x.on \in EthModules => "eth" \in C,
         x.on \in UdpfsModules => "udpfs" \in C
  PROVE  x \in Quiet(C, u)
<1>1. Fits(x, C, Apart(u))
  BY DEF Fits, CallOps
<1>2. \A k \in C : ~Loses(k, C, x, Apart(u))
  BY DEF Loses, MayReset, CallOps
<1> QED
  BY <1>1, <1>2 DEF Quiet, After

(* Calls, which may end in a reset. *)
LEMMA CallSteps ==
  ASSUME NEW u, NEW C \in SUBSET (Tokens \ Away(Apart(u))), "settled" \in C, NEW x \in KnownSteps(u),
         x.op \in CallOps \ {"switchStorage", "switchNetwork"},
         x.op \in {"genFixPath", "deviceReady"} => x.on \notin Pair \/ C \cap Pair = {},
         x.op = "deviceReady" /\ x.on \in {"host", "udpfs"} => C \cap NetTokens = {} /\ "cached" \in C
  PROVE  x \in Quiet(C, u)
<1>1. Fits(x, C, Apart(u))
  BY DEF Fits, CallOps
<1>2. \A k \in C : ~Loses(k, C, x, Apart(u))
  BY DEF Loses, CallOps, Away, ResetLoses
<1> QED
  BY <1>1, <1>2 DEF Quiet, After, Tokens

(* The steps of the bodies, by what they load. *)
PlainModules == {"vmcman", "usbd", "bdm", "bdmfs", "usb_mass", "ps2fs", "dvrdrv", "dvrfile", "xfrom", "secrsif",
                 "hdl_info"}
(* These steps, as they stand in the bodies. *)
LEMMA Plain ==
  ASSUME NEW u, NEW C \in SUBSET Tokens, NEW n \in SUBSET Names
  PROVE  /\ \A op \in {"core", "dev9", "setupPowerOff", "vmcmanProbe", "loadExternal", "use"}, d \in Names :
              Step(op, d, n) \in Quiet(C, u)
         /\ \A m \in PlainModules : Load(m, n) \in Quiet(C, u)
         /\ \A f \in {"NetModules", "signer"} : Flag(f, n) \in Quiet(C, u)
<1>1. ASSUME NEW op \in {"core", "dev9", "setupPowerOff", "vmcmanProbe", "loadExternal", "use"}, NEW d \in Names
      PROVE  Step(op, d, n) \in Quiet(C, u)
  <2>1. Step(op, d, n) \in Steps /\ Step(op, d, n).op = op
    BY Parts DEF Ops
  <2>2. Step(op, d, n) \in KnownSteps(u)
    BY <2>1 DEF KnownSteps, Known
  <2> QED
    BY <2>1, <2>2, PlainSteps
<1>2. ASSUME NEW m \in PlainModules
      PROVE  Load(m, n) \in Quiet(C, u)
  <2>0. m \in Names /\ "load" \in Ops
    BY DEF Ops, Names, PlainModules, Checked
  <2>1. Load(m, n) \in Steps /\ Load(m, n).op = "load" /\ Load(m, n).on = m
    BY <2>0, Parts DEF Load
  <2>2. Load(m, n) \in KnownSteps(u)
    BY <2>1 DEF KnownSteps, Known, PlainModules, Checked, EthModules, UdpfsModules
  <2>3. m \notin Pair \cup DiskModules \cup EthModules \cup UdpfsModules \cup {"donePowerOff"}
    BY DEF PlainModules, Pair, DiskModules, EthModules, UdpfsModules
  <2> QED
    BY <2>1, <2>2, <2>3, LoadSteps
<1>3. ASSUME NEW f \in {"NetModules", "signer"}
      PROVE  Flag(f, n) \in Quiet(C, u)
  <2>0. f \in Names /\ "flag" \in Ops
    BY DEF Ops, Names, Flags
  <2>1. Flag(f, n) \in Steps /\ Flag(f, n).op = "flag" /\ Flag(f, n).on = f
    BY <2>0, Parts DEF Flag
  <2>2. Flag(f, n) \in KnownSteps(u)
    BY <2>1 DEF KnownSteps, Known
  <2>3. f \notin Pair \cup DiskModules \cup EthModules \cup UdpfsModules \cup {"donePowerOff"}
    BY DEF Pair, DiskModules, EthModules, UdpfsModules
  <2> QED
    BY <2>1, <2>2, <2>3, LoadSteps
<1> QED
  BY <1>1, <1>2, <1>3

(* What has a mode or a list for its end. *)
LEMMA Ends ==
  ASSUME NEW u, NEW C \in SUBSET Tokens
  PROVE  /\ Flag("HDD", {"ps2hdd", "ps2fs"}) \in Quiet(C, u) /\ Flag("DVRP", {"dvrdrv", "dvrfile"}) \in Quiet(C, u)
         /\ Step("blockMode", "ata", {"ata_bd"}) \in Quiet(C, u) /\ Step("blockMode", "hdd", {"HDD"}) \in Quiet(C, u)
         /\ Step("partyList", "hdd", {"HDD"}) \in Quiet(C, u) /\ Step("partyList", "dvr", {"DVRP"}) \in Quiet(C, u)
<1>1. /\ {"ps2hdd", "ps2fs"} \in SUBSET Names /\ {"dvrdrv", "dvrfile"} \in SUBSET Names /\ {"ata_bd"} \in SUBSET Names
      /\ {"HDD"} \in SUBSET Names /\ {"DVRP"} \in SUBSET Names /\ "HDD" \in Names /\ "DVRP" \in Names
      /\ "ata" \in Names /\ "hdd" \in Names /\ "dvr" \in Names
      /\ "flag" \in Ops /\ "blockMode" \in Ops /\ "partyList" \in Ops
  BY DEF Names, Flags, Checked, Devices, Ops
<1>2. ASSUME NEW f \in {"HDD", "DVRP"}, NEW n \in SUBSET Names,
             f = "HDD" => n = {"ps2hdd", "ps2fs"}, f = "DVRP" => n = {"dvrdrv", "dvrfile"}
      PROVE  Flag(f, n) \in Quiet(C, u)
  <2>1. Flag(f, n) \in Steps /\ Flag(f, n).op = "flag" /\ Flag(f, n).on = f /\ Flag(f, n).needs = n
    BY <1>1, Parts DEF Flag
  <2>2. Flag(f, n) \in KnownSteps(u)
    BY <1>2, <2>1 DEF KnownSteps, Known
  <2>3. f \notin Pair \cup DiskModules \cup EthModules \cup UdpfsModules \cup {"donePowerOff"}
    BY DEF Pair, DiskModules, EthModules, UdpfsModules
  <2> QED
    BY <2>1, <2>2, <2>3, LoadSteps
<1>3. ASSUME NEW op \in {"blockMode", "partyList"}, NEW d \in Names, NEW n \in SUBSET Names,
             \/ d = "hdd" /\ n = {"HDD"}
             \/ op = "blockMode" /\ d = "ata" /\ n = {"ata_bd"}
             \/ op = "partyList" /\ d = "dvr" /\ n = {"DVRP"}
      PROVE  Step(op, d, n) \in Quiet(C, u)
  <2>1. Step(op, d, n) \in Steps /\ Step(op, d, n).op = op /\ Step(op, d, n).on = d /\ Step(op, d, n).needs = n
    BY <1>1, Parts
  <2>2. Step(op, d, n) \in KnownSteps(u)
    BY <1>3, <2>1 DEF KnownSteps, Known
  <2> QED
    BY <2>1, <2>2, PlainSteps
<1> QED
  BY <1>1, <1>2, <1>3

(* The loads that wait for a token. *)
LEMMA Guarded ==
  ASSUME NEW u, NEW C \in SUBSET Tokens, NEW n \in SUBSET Names
  PROVE  /\ "armed" \in C => \A m \in DiskModules : Load(m, n) \in Quiet(C, u)
         /\ "armed" \in C => Flag("donePowerOff", n) \in Quiet(C, u)
         /\ "eth" \in C /\ "eth" \in u.networks => \A m \in EthModules : Load(m, n) \in Quiet(C, u)
         /\ "udpfs" \in C /\ "udpfs" \in u.networks => \A m \in UdpfsModules : Load(m, n) \in Quiet(C, u)
<1>1. ASSUME NEW m \in DiskModules \cup EthModules \cup UdpfsModules,
             m \in DiskModules => "armed" \in C,
             m \in EthModules => "eth" \in C /\ "eth" \in u.networks,
             m \in UdpfsModules => "udpfs" \in C /\ "udpfs" \in u.networks
      PROVE  Load(m, n) \in Quiet(C, u)
  <2>0. m \in Checked /\ m \notin Pair \cup {"donePowerOff"}
    BY DEF DiskModules, EthModules, UdpfsModules, Checked, Pair
  <2>1. Load(m, n) \in Steps /\ Load(m, n).op = "load" /\ Load(m, n).on = m
    BY <2>0, Parts DEF Ops, Names, Load
  <2>2. Load(m, n) \in KnownSteps(u)
    BY <1>1, <2>0, <2>1 DEF KnownSteps, Known
  <2> QED
    BY <1>1, <2>0, <2>1, <2>2, LoadSteps
<1>2. DiskModules \cap (EthModules \cup UdpfsModules) = {} /\ EthModules \cap UdpfsModules = {}
  BY DEF DiskModules, EthModules, UdpfsModules
<1>3. ASSUME "armed" \in C
      PROVE  Flag("donePowerOff", n) \in Quiet(C, u)
  <2>1. /\ Flag("donePowerOff", n) \in Steps /\ Flag("donePowerOff", n).op = "flag"
        /\ Flag("donePowerOff", n).on = "donePowerOff"
    BY Parts DEF Ops, Names, Flags, Flag
  <2>2. Flag("donePowerOff", n) \in KnownSteps(u)
    BY <2>1 DEF KnownSteps, Known
  <2>3. "donePowerOff" \notin Pair \cup EthModules \cup UdpfsModules
    BY DEF Pair, EthModules, UdpfsModules
  <2> QED
    BY <1>3, <2>1, <2>2, <2>3, LoadSteps
<1> QED
  BY <1>1, <1>2, <1>3

(* The calls, as they stand in the bodies. *)
LEMMA Calls ==
  ASSUME NEW u, NEW C \in SUBSET (Tokens \ Away(Apart(u))), "settled" \in C
  PROVE  /\ \A d \in Names : On("switchBlock", d) \in Quiet(C, u)
         /\ \A op \in {"ensureMc1", "getIpConfig", "startKbd", "loadKbd", "kbdInit", "kbdMap"} : Do(op) \in Quiet(C, u)
         /\ \A d \in Names : d \notin Pair \/ C \cap Pair = {} => On("genFixPath", d) \in Quiet(C, u)
         /\ \A d \in Names : (d \notin Pair \/ C \cap Pair = {}) /\ d \notin {"host", "udpfs"} =>
              On("deviceReady", d) \in Quiet(C, u)
<1>1. ASSUME NEW op \in CallOps \ {"switchStorage", "switchNetwork"}, NEW d \in Names,
             op \in {"genFixPath", "deviceReady"} => d \notin Pair \/ C \cap Pair = {},
             op = "deviceReady" => d \notin {"host", "udpfs"}
      PROVE  On(op, d) \in Quiet(C, u)
  <2>0. op \in Ops /\ {} \in SUBSET Names
    BY DEF Ops
  <2>1. On(op, d) \in Steps /\ On(op, d).op = op /\ On(op, d).on = d
    BY <2>0, Parts DEF On
  <2>2. On(op, d) \in KnownSteps(u)
    BY <2>1 DEF KnownSteps, Known, CallOps
  <2> QED
    BY <1>1, <2>1, <2>2, CallSteps
<1>2. "none" \in Names /\ \A op \in Ops : Do(op) = On(op, "none")
  BY DEF Names, Devices, Do, On
<1> QED
  BY <1>1, <1>2 DEF CallOps, Ops
(* The names that steps are about. *)
LEMMA NamesOf ==
  /\ Devices \subseteq Names /\ {} \in SUBSET Names /\ \A m \in Checked \cup Flags \cup {"dev9"} : {m} \in SUBSET Names
  /\ "none" \in Names /\ {"eth", "udpfs", "ata", "hdd", "mmce", "mx4sio"} \subseteq Names
  /\ Checked \subseteq Names /\ "dev9" \in Names
BY DEF Names, Devices

(* The configuration that was read, or that may be read without a reset. *)
LEMMA ConfigKnown ==
  ASSUME NEW u, NEW C \in SUBSET Tokens
  PROVE  /\ "cached" \in C /\ "settled" \in C => Do("getIpConfig") \in Quiet(C, u)
         /\ "mc1free" \in C /\ "settled" \in C => Do("getIpConfig") \in Quiet(C, u) /\ Do("ensureMc1") \in Quiet(C, u)
                              /\ On("genFixPath", "mc1") \in Quiet(C, u)
<1>1. ASSUME NEW op \in {"getIpConfig", "ensureMc1", "genFixPath"}, NEW d \in {"none", "mc1"},
             op = "genFixPath" => d = "mc1", "settled" \in C,
             "mc1free" \in C \/ (op = "getIpConfig" /\ "cached" \in C)
      PROVE  On(op, d) \in Quiet(C, u)
  <2>0. op \in Ops /\ {} \in SUBSET Names /\ d \in Names
    BY NamesOf DEF Ops, CallOps, Devices
  <2>1. On(op, d) \in Steps /\ On(op, d).op = op /\ On(op, d).on = d
    BY <2>0, Parts DEF On
  <2> DEFINE x == On(op, d)
  <2> HIDE DEF x
  <2>2. x \in KnownSteps(u)
    BY <2>1 DEF KnownSteps, Known, x
  <2>3. Fits(x, C, Apart(u))
    BY <1>1, <2>1 DEF Fits, x
  <2>4. \A k \in C : ~Loses(k, C, x, Apart(u))
    BY <1>1, <2>1 DEF Loses, MayReset, x, Pair
  <2> QED
    BY <2>2, <2>3, <2>4 DEF Quiet, After, x
<1>2. \A op \in Ops : Do(op) = On(op, "none")
  BY DEF Do, On
<1>3. "getIpConfig" \in Ops /\ "ensureMc1" \in Ops
  BY DEF Ops, CallOps
<1> QED
  BY <1>1, <1>2, <1>3

-----------------------------------------------------------------------------
(* The bodies.                                                             *)

(* Tuples, written with \o. *)
LEMMA Two ==
  ASSUME NEW S, NEW x \in S, NEW y \in S
  PROVE  <<x>> \o <<y>> = <<x, y>>
<1>1. /\ <<x>> \in Seq(S) /\ <<y>> \in Seq(S) /\ <<x, y>> \in Seq(S)
      /\ Len(<<x>>) = 1 /\ Len(<<y>>) = 1 /\ Len(<<x, y>>) = 2
      /\ <<x>>[1] = x /\ <<y>>[1] = y /\ <<x, y>>[1] = x /\ <<x, y>>[2] = y
  OBVIOUS
<1> DEFINE c == <<x>> \o <<y>>
<1>2. /\ c \in Seq(S) /\ Len(c) = 1 + 1
      /\ \A i \in 1 .. 1 + 1 : c[i] = IF i <= 1 THEN <<x>>[i] ELSE <<y>>[i - 1]
  BY <1>1, ConcatProperties
<1> HIDE DEF c
<1>3. \A i \in 1 .. 2 : i = 1 \/ i = 2
  OBVIOUS
<1>4. Len(c) = 2 /\ c[1] = x /\ c[2] = y
  BY <1>1, <1>2
<1>5. c = <<x, y>>
  BY <1>1, <1>2, <1>3, <1>4, SeqEqual
<1> QED
  BY <1>5 DEF c

(* The same with three steps, *)
LEMMA Three ==
  ASSUME NEW x, NEW y, NEW z
  PROVE  <<x>> \o <<y, z>> = <<x, y, z>>
<1> DEFINE S == {x, y, z}
<1>1. /\ <<x>> \in Seq(S) /\ <<y, z>> \in Seq(S) /\ <<x, y, z>> \in Seq(S)
      /\ Len(<<x>>) = 1 /\ Len(<<y, z>>) = 2 /\ Len(<<x, y, z>>) = 3
      /\ <<x>>[1] = x /\ <<y, z>>[1] = y /\ <<y, z>>[2] = z
      /\ <<x, y, z>>[1] = x /\ <<x, y, z>>[2] = y /\ <<x, y, z>>[3] = z
  OBVIOUS
<1> DEFINE c == <<x>> \o <<y, z>>
<1>2. /\ c \in Seq(S) /\ Len(c) = 1 + 2
      /\ \A i \in 1 .. 1 + 2 : c[i] = IF i <= 1 THEN <<x>>[i] ELSE <<y, z>>[i - 1]
  BY <1>1, ConcatProperties
<1> HIDE DEF c, S
<1>3. \A i \in 1 .. 3 : i = 1 \/ i = 2 \/ i = 3
  OBVIOUS
<1>4. Len(c) = 3 /\ c[1] = x /\ c[2] = y /\ c[3] = z
  BY <1>1, <1>2
<1>5. c = <<x, y, z>>
  BY <1>1, <1>2, <1>3, <1>4, SeqEqual
<1> QED
  BY <1>5 DEF c

(* and with four. *)
LEMMA Four ==
  ASSUME NEW w, NEW x, NEW y, NEW z
  PROVE  <<w>> \o <<x, y, z>> = <<w, x, y, z>>
<1> DEFINE S == {w, x, y, z}
<1>1. /\ <<w>> \in Seq(S) /\ <<x, y, z>> \in Seq(S) /\ <<w, x, y, z>> \in Seq(S)
      /\ Len(<<w>>) = 1 /\ Len(<<x, y, z>>) = 3 /\ Len(<<w, x, y, z>>) = 4
      /\ <<w>>[1] = w /\ <<x, y, z>>[1] = x /\ <<x, y, z>>[2] = y /\ <<x, y, z>>[3] = z
      /\ <<w, x, y, z>>[1] = w /\ <<w, x, y, z>>[2] = x /\ <<w, x, y, z>>[3] = y /\ <<w, x, y, z>>[4] = z
  OBVIOUS
<1> DEFINE c == <<w>> \o <<x, y, z>>
<1>2. /\ c \in Seq(S) /\ Len(c) = 1 + 3
      /\ \A i \in 1 .. 1 + 3 : c[i] = IF i <= 1 THEN <<w>>[i] ELSE <<x, y, z>>[i - 1]
  BY <1>1, ConcatProperties
<1> HIDE DEF c, S
<1>3. \A i \in 1 .. 4 : i = 1 \/ i = 2 \/ i = 3 \/ i = 4
  OBVIOUS
<1>4. Len(c) = 4 /\ c[1] = w /\ c[2] = x /\ c[3] = y /\ c[4] = z
  BY <1>1, <1>2
<1>5. c = <<w, x, y, z>>
  BY <1>1, <1>2, <1>3, <1>4, SeqEqual
<1> QED
  BY <1>5 DEF c

(* Two steps in one tuple. *)
LEMMA OneMore ==
  ASSUME NEW u, NEW C, NEW D, NEW E, NEW x \in KnownSteps(u), NEW y \in KnownSteps(u),
         Leads(<<x>>, C, D, u), Leads(<<y>>, D, E, u)
  PROVE  Leads(<<x, y>>, C, E, u)
BY Two, Behind

(* Bodies that call nothing. *)
LEMMA QuietBodies ==
  ASSUME NEW u, NEW C \in SUBSET Tokens
  PROVE  /\ ensureCoreIoStackReady \in Seq(Quiet(C, u)) /\ loadBdmCoreModules \in Seq(Quiet(C, u))
         /\ loadUsbModules \in Seq(Quiet(C, u)) /\ load_vmcman \in Seq(Quiet(C, u))
         /\ loadSecrSifModule \in Seq(Quiet(C, u)) /\ setupPowerOff \in Seq(Quiet(C, u))
         /\ "armed" \in C => loadAtaBlockDriver \in Seq(Quiet(C, u)) /\ load_ps2hdd_stack \in Seq(Quiet(C, u))
<1> DEFINE Q == Quiet(C, u)
<1>1. /\ {} \in SUBSET Names /\ {"bdm"} \in SUBSET Names /\ {"usbd"} \in SUBSET Names
      /\ {"usbd", "bdm"} \in SUBSET Names /\ {"usbd", "bdm", "bdmfs"} \in SUBSET Names /\ {"vmcman"} \in SUBSET Names
      /\ {"bdm", "bdmfs"} \in SUBSET Names /\ {"bdm", "bdmfs", "dev9"} \in SUBSET Names
      /\ {"ata_bd", "dev9"} \in SUBSET Names /\ {"ata_bd", "dev9", "ps2hdd"} \in SUBSET Names /\ "none" \in Names
  BY DEF Names, Checked, Devices
<1>2. Do("core") \in Q /\ Do("setupPowerOff") \in Q
  BY <1>1, Plain DEF Do
<1>3. /\ Load("vmcman", {}) \in Q /\ Load("secrsif", {}) \in Q
      /\ Load("bdm", {}) \in Q /\ Load("bdmfs", {"bdm"}) \in Q
      /\ Load("usbd", {}) \in Q /\ Load("bdm", {"usbd"}) \in Q /\ Load("bdmfs", {"usbd", "bdm"}) \in Q
      /\ Load("usb_mass", {"usbd", "bdm", "bdmfs"}) \in Q
      /\ Load("ps2fs", {"ata_bd", "dev9", "ps2hdd"}) \in Q
  BY <1>1, Plain DEF PlainModules
<1>4. Step("vmcmanProbe", "none", {"vmcman"}) \in Q /\ Step("dev9", "none", {"bdm", "bdmfs"}) \in Q
  BY <1>1, Plain
<1>5. "armed" \in C => Load("ata_bd", {"bdm", "bdmfs", "dev9"}) \in Q /\ Load("ps2hdd", {"ata_bd", "dev9"}) \in Q
  BY <1>1, Guarded DEF DiskModules
<1> HIDE DEF Q
<1>6. ensureCoreIoStackReady \in Seq(Q) /\ loadBdmCoreModules \in Seq(Q) /\ setupPowerOff \in Seq(Q)
  BY <1>2, <1>3 DEF ensureCoreIoStackReady, loadBdmCoreModules, setupPowerOff
<1>7. loadUsbModules \in Seq(Q)
  BY <1>3, <1>6, ConcatProperties DEF loadUsbModules
<1>8. load_vmcman \in Seq(Q) /\ loadSecrSifModule \in Seq(Q)
  BY <1>3, <1>4, <1>6, ConcatProperties DEF load_vmcman, loadSecrSifModule
<1>9. ASSUME "armed" \in C
      PROVE  loadAtaBlockDriver \in Seq(Q) /\ load_ps2hdd_stack \in Seq(Q)
  <2>1. loadAtaBlockDriver \in Seq(Q)
    BY <1>4, <1>5, <1>6, <1>9, ConcatProperties DEF loadAtaBlockDriver
  <2> QED
    BY <1>3, <1>5, <1>9, <2>1, ConcatProperties DEF load_ps2hdd_stack
<1> QED
  BY <1>6, <1>7, <1>8, <1>9 DEF Q

(* A step that gives tokens to those behind it. *)
LEMMA Framed ==
  ASSUME NEW u, NEW C \in SUBSET Tokens, NEW D \in SUBSET Tokens, NEW E \in SUBSET D, NEW x \in KnownSteps(u),
         NEW s \in Seq(Quiet(C, u)), NEW t \in Seq(Quiet(D, u)),
         Fits(x, C, Apart(u)), D \subseteq After(C, x, Apart(u))
  PROVE  Leads((s \o <<x>>) \o t, C, E, u)
<1>1. Leads(s, C, C, u) /\ Leads(t, D, D, u) /\ Leads(<<x>>, C, D, u)
  BY Steady, One
<1>2. Leads(s \o <<x>>, C, D, u)
  BY <1>1, Behind
<1>3. Leads((s \o <<x>>) \o t, C, D, u)
  BY <1>1, <1>2, Behind
<1>4. C \in SUBSET C
  OBVIOUS
<1> QED
  BY <1>3, <1>4, Weaker

(* The power-off handler in front of a disk's drivers. *)
LEMMA PowerOffFirst ==
  ASSUME NEW u, NEW C \in SUBSET Tokens
  PROVE  /\ Do("setupPowerOff") \in KnownSteps(u) /\ Fits(Do("setupPowerOff"), C, Apart(u))
         /\ C \cup {"armed"} \in SUBSET Tokens
         /\ C \cup {"armed"} \subseteq After(C, Do("setupPowerOff"), Apart(u))
<1>1. Do("setupPowerOff") \in Quiet(C, u) /\ Do("setupPowerOff").op = "setupPowerOff"
  <2>1. "none" \in Names /\ {} \in SUBSET Names /\ "setupPowerOff" \in Ops
    BY DEF Names, Devices, Ops
  <2> QED
    BY <2>1, Plain, Parts DEF Do
<1> QED
  BY <1>1 DEF Quiet, After, Gives, Tokens

(* One of MMCE and MX4SIO: the switch, the driver and the mode. *)
LEMMA StorageSteps ==
  ASSUME NEW u, NEW a \in Pair, NEW C \in SUBSET (Tokens \ (Away(Apart(u)) \cup Pair)), "settled" \in C,
         NEW n \in SUBSET Names
  PROVE  /\ Leads(<<On("switchStorage", a)>>, C, C \cup (IF Apart(u) THEN {a} ELSE {}), u)
         /\ Leads(<<Load(a, n), On("storageMode", a)>>, C \cup (IF Apart(u) THEN {a} ELSE {}), C, u)
<1> DEFINE D == C \cup (IF Apart(u) THEN {a} ELSE {})
           x == On("switchStorage", a)
           y == Load(a, n)
           z == On("storageMode", a)
<1>1. C \in SUBSET Tokens /\ D \in SUBSET Tokens /\ D \ {"settled"} \in SUBSET Tokens /\ D \subseteq C \cup {a}
  BY DEF Tokens, Pair
<1>2. /\ x \in Steps /\ x.op = "switchStorage" /\ x.on = a
      /\ y \in Steps /\ y.op = "load" /\ y.on = a
      /\ z \in Steps /\ z.op = "storageMode" /\ z.on = a
  <2>1. a \in Names /\ {} \in SUBSET Names /\ "switchStorage" \in Ops /\ "load" \in Ops /\ "storageMode" \in Ops
    BY NamesOf DEF Pair, Ops, CallOps
  <2> QED
    BY <2>1, Parts DEF On, Load
<1>0. (Apart(u) => a \in D) /\ D = C \cup (IF Apart(u) THEN {a} ELSE {})
  OBVIOUS
<1> HIDE DEF x, y, z
<1>3. x \in KnownSteps(u) /\ y \in KnownSteps(u) /\ z \in KnownSteps(u)
  BY <1>2 DEF KnownSteps, Known, Checked, Pair, EthModules, UdpfsModules
<1>4. Fits(x, C, Apart(u)) /\ D \subseteq After(C, x, Apart(u))
  <2>1. Fits(x, C, Apart(u))
    BY <1>2 DEF Fits
  <2>2. \A k \in C : ~Loses(k, C, x, Apart(u))
    BY <1>2 DEF Loses, Pair, Other
  <2>3. Apart(u) => Gives(a, x, Apart(u))
    BY <1>2 DEF Gives
  <2> QED
    BY <1>1, <2>1, <2>2, <2>3 DEF After
<1> HIDE DEF D
<1>5. Fits(y, D, Apart(u)) /\ D \ {"settled"} \subseteq After(D, y, Apart(u))
  <2>1. Fits(y, D, Apart(u))
    BY <1>0, <1>2 DEF Fits, Pair, DiskModules, EthModules, UdpfsModules, CallOps
  <2>2. \A k \in D \ {"settled"} : ~Loses(k, D, y, Apart(u))
    BY <1>1, <1>2 DEF Loses, MayReset, CallOps, Pair, Other, Away, ResetLoses
  <2> QED
    BY <1>1, <2>1, <2>2 DEF After
<1>6. Fits(z, D \ {"settled"}, Apart(u)) /\ C \subseteq After(D \ {"settled"}, z, Apart(u))
  <2>1. Fits(z, D \ {"settled"}, Apart(u))
    BY <1>0, <1>2 DEF Fits, Pair, CallOps
  <2>2. \A k \in D \ {"settled"} : ~Loses(k, D \ {"settled"}, z, Apart(u))
    BY <1>1, <1>2 DEF Loses, MayReset, CallOps, Pair, Other, Away, ResetLoses
  <2>3. Gives("settled", z, Apart(u)) /\ "settled" \in Tokens
    BY <1>2 DEF Gives, Tokens
  <2> QED
    BY <1>0, <1>1, <2>1, <2>2, <2>3 DEF After
<1>7. Leads(<<x>>, C, D, u)
  BY <1>1, <1>3, <1>4, One
<1>8. Leads(<<y>>, D, D \ {"settled"}, u) /\ Leads(<<z>>, D \ {"settled"}, C, u)
  BY <1>1, <1>3, <1>5, <1>6, One
<1>9. Leads(<<y, z>>, D, C, u)
  BY <1>3, <1>8, OneMore
<1> QED
  BY <1>7, <1>9 DEF D, x, y, z

(* loadMmceModules and loadMx4sioModules: neither is a token of the caller. *)
LEMMA StorageStacks ==
  ASSUME NEW u, NEW C \in SUBSET (Tokens \ (Away(Apart(u)) \cup Pair)), "settled" \in C
  PROVE  Leads(loadMmceModules, C, C, u) /\ Leads(loadMx4sioModules, C, C, u)
<1>1. C \in SUBSET Tokens /\ "mmce" \in Pair /\ "mx4sio" \in Pair /\ {} \in SUBSET Names /\ {"bdm", "bdmfs"} \in SUBSET Names
  BY NamesOf DEF Pair, Names, Checked
<1> DEFINE D(a) == C \cup (IF Apart(u) THEN {a} ELSE {})
<1>2. \A a \in Pair : D(a) \in SUBSET Tokens
  BY DEF Pair, Tokens
<1>3. \A a \in Pair : /\ Leads(<<On("switchStorage", a)>>, C, D(a), u)
                   /\ \A n \in SUBSET Names : Leads(<<Load(a, n), On("storageMode", a)>>, D(a), C, u)
  BY StorageSteps
<1>4. Leads(ensureCoreIoStackReady, C, C, u) /\ \A a \in Pair : Leads(loadBdmCoreModules, D(a), D(a), u)
  BY <1>1, <1>2, QuietBodies, Steady
<1> HIDE DEF D
<1>5. Leads(loadMmceModules, C, C, u)
  <2>1. Leads(<<On("switchStorage", "mmce")>> \o <<Load("mmce", {}), On("storageMode", "mmce")>>, C, C, u)
    BY <1>1, <1>3, Behind
  <2> DEFINE x == On("switchStorage", "mmce")
             y == Load("mmce", {})
             z == On("storageMode", "mmce")
  <2>2. <<x>> \o <<y, z>> = <<x, y, z>>
    BY Three
  <2>3. Leads(<<x, y, z>>, C, C, u)
    BY <2>1, <2>2
  <2>4. loadMmceModules = ensureCoreIoStackReady \o <<x, y, z>>
    BY DEF loadMmceModules
  <2> HIDE DEF x, y, z
  <2> QED
    BY <1>4, <2>3, <2>4, Behind
<1>6. Leads(loadMx4sioModules, C, C, u)
  <2>1. Leads(ensureCoreIoStackReady \o <<On("switchStorage", "mx4sio")>>, C, D("mx4sio"), u)
    BY <1>1, <1>3, <1>4, Behind
  <2>2. Leads((ensureCoreIoStackReady \o <<On("switchStorage", "mx4sio")>>) \o loadBdmCoreModules, C, D("mx4sio"), u)
    BY <1>1, <1>4, <2>1, Behind
  <2>3. Leads(<<Load("mx4sio", {"bdm", "bdmfs"}), On("storageMode", "mx4sio")>>, D("mx4sio"), C, u)
    BY <1>1, <1>3
  <2> QED
    BY <2>2, <2>3, Behind DEF loadMx4sioModules
<1> QED
  BY <1>5, <1>6

(* The disk's stacks. *)
LEMMA DiskStacks ==
  ASSUME NEW u, NEW C \in SUBSET (Tokens \ Away(Apart(u))), "settled" \in C
  PROVE  /\ Leads(loadAtaModules, C, C, u) /\ Leads(loadHddModules, C, C, u)
         /\ Leads(loadDVRPHddModules, C, C, u) /\ Leads(loadFlashModules, C, C, u)
<1> DEFINE D == C \cup {"armed"}
           x == Do("setupPowerOff")
<1>1. /\ C \in SUBSET Tokens /\ D \in SUBSET Tokens /\ "armed" \in D /\ C \in SUBSET D
      /\ {"dvrdrv"} \in SUBSET Names /\ {"ps2hdd", "ps2fs"} \in SUBSET Names /\ {} \in SUBSET Names
      /\ "none" \in Names /\ "ata" \in Names /\ "hdd" \in Names
  BY DEF Tokens, Names, Devices, Checked
<1>2. x \in KnownSteps(u) /\ Fits(x, C, Apart(u)) /\ D \subseteq After(C, x, Apart(u))
  BY <1>1, PowerOffFirst
<1>3. /\ \A d \in {"ata", "hdd"} : On("switchBlock", d) \in Quiet(C, u)
      /\ ensureCoreIoStackReady \in Seq(Quiet(C, u))
      /\ Step("blockMode", "ata", {"ata_bd"}) \in Quiet(C, u) /\ Step("blockMode", "hdd", {"HDD"}) \in Quiet(C, u)
      /\ Do("dev9") \in Quiet(C, u)
  BY <1>1, Calls, Ends, Plain, QuietBodies DEF Do
<1>4. /\ loadAtaBlockDriver \in Seq(Quiet(D, u)) /\ load_ps2hdd_stack \in Seq(Quiet(D, u))
      /\ Flag("HDD", {"ps2hdd", "ps2fs"}) \in Quiet(D, u) /\ Flag("DVRP", {"dvrdrv", "dvrfile"}) \in Quiet(D, u)
      /\ Load("dvrdrv", {"ps2hdd", "ps2fs"}) \in Quiet(D, u) /\ Load("dvrfile", {"dvrdrv"}) \in Quiet(D, u)
      /\ Load("xfrom", {}) \in Quiet(D, u)
  BY <1>1, Ends, Plain, QuietBodies DEF PlainModules
<1>5. Leads(<<>>, C, C, u) /\ setupPowerOff = <<x>>
  BY <1>1, Nothing DEF setupPowerOff
<1>6. ASSUME NEW s \in Seq(Quiet(C, u)), NEW t \in Seq(Quiet(D, u))
      PROVE  Leads((s \o <<x>>) \o t, C, C, u)
  BY <1>1, <1>2, Framed
<1>7. ASSUME NEW t \in Seq(Quiet(D, u))
      PROVE  Leads(<<x>> \o t, C, C, u)
  BY <1>1, <1>2, One, Steady, Behind, Weaker
<1>8. /\ <<Step("blockMode", "ata", {"ata_bd"})>> \in Seq(Quiet(C, u))
      /\ <<Step("blockMode", "hdd", {"HDD"})>> \in Seq(Quiet(C, u))
      /\ <<On("switchBlock", "ata")>> \in Seq(Quiet(C, u)) /\ <<On("switchBlock", "hdd")>> \in Seq(Quiet(C, u))
  BY <1>3
<1> HIDE DEF D, x
<1>9. Leads(loadAtaModules, C, C, u)
  <2>1. <<On("switchBlock", "ata")>> \o ensureCoreIoStackReady \in Seq(Quiet(C, u))
    BY <1>3, <1>8, ConcatProperties
  <2>2. Leads(((<<On("switchBlock", "ata")>> \o ensureCoreIoStackReady) \o setupPowerOff) \o loadAtaBlockDriver, C, C, u)
    BY <1>4, <1>5, <1>6, <2>1
  <2>3. Leads(<<Step("blockMode", "ata", {"ata_bd"})>>, C, C, u)
    BY <1>1, <1>8, Steady
  <2>4. Leads((((<<On("switchBlock", "ata")>> \o ensureCoreIoStackReady) \o setupPowerOff) \o loadAtaBlockDriver)
                \o <<Step("blockMode", "ata", {"ata_bd"})>>, C, C, u)
    BY <2>2, <2>3, Behind
  <2> QED
    BY <1>5, <2>4 DEF loadAtaModules
<1>10. Leads(loadHddModules, C, C, u)
  <2>1. <<On("switchBlock", "hdd")>> \o ensureCoreIoStackReady \in Seq(Quiet(C, u))
    BY <1>3, <1>8, ConcatProperties
  <2>2. load_ps2hdd_stack \o <<Flag("HDD", {"ps2hdd", "ps2fs"})>> \in Seq(Quiet(D, u))
    <3>1. <<Flag("HDD", {"ps2hdd", "ps2fs"})>> \in Seq(Quiet(D, u))
      BY <1>4
    <3> QED
      BY <1>4, <3>1, ConcatProperties
  <2>3. (setupPowerOff \o load_ps2hdd_stack) \o <<Flag("HDD", {"ps2hdd", "ps2fs"})>>
          = setupPowerOff \o (load_ps2hdd_stack \o <<Flag("HDD", {"ps2hdd", "ps2fs"})>>)
    <3>1. /\ setupPowerOff \in Seq(Quiet(D, u)) /\ load_ps2hdd_stack \in Seq(Quiet(D, u))
          /\ <<Flag("HDD", {"ps2hdd", "ps2fs"})>> \in Seq(Quiet(D, u))
      BY <1>1, <1>4, QuietBodies
    <3> QED
      BY <3>1, ConcatAssociative
  <2>4. Leads((setupPowerOff \o load_ps2hdd_stack) \o <<Flag("HDD", {"ps2hdd", "ps2fs"})>>, C, C, u)
    BY <1>5, <1>7, <2>2, <2>3
  <2> DEFINE w == When("HDD" \notin have,
                       (setupPowerOff \o load_ps2hdd_stack) \o <<Flag("HDD", {"ps2hdd", "ps2fs"})>>)
  <2>5. Leads(w, C, C, u)
    BY <1>5, <2>4 DEF When
  <2> HIDE DEF w
  <2>6. Leads(<<On("switchBlock", "hdd")>> \o ensureCoreIoStackReady, C, C, u)
    BY <1>1, <2>1, Steady
  <2>7. Leads(<<Step("blockMode", "hdd", {"HDD"})>>, C, C, u)
    BY <1>1, <1>8, Steady
  <2>8. Leads(((<<On("switchBlock", "hdd")>> \o ensureCoreIoStackReady) \o w) \o <<Step("blockMode", "hdd", {"HDD"})>>, C, C, u)
    BY <2>5, <2>6, <2>7, Behind
  <2> QED
    BY <1>5, <2>8 DEF loadHddModules, w
<1>11. Leads(loadDVRPHddModules, C, C, u)
  <2> DEFINE b == <<Load("dvrdrv", {"ps2hdd", "ps2fs"}), Load("dvrfile", {"dvrdrv"}), Flag("DVRP", {"dvrdrv", "dvrfile"})>>
  <2>1. b \in Seq(Quiet(D, u))
    BY <1>4
  <2> HIDE DEF b
  <2>2. load_ps2hdd_stack \o b \in Seq(Quiet(D, u))
    BY <1>4, <2>1, ConcatProperties
  <2>3. (setupPowerOff \o load_ps2hdd_stack) \o b = setupPowerOff \o (load_ps2hdd_stack \o b)
    <3>1. setupPowerOff \in Seq(Quiet(D, u))
      BY <1>1, QuietBodies
    <3> QED
      BY <1>4, <2>1, <3>1, ConcatAssociative
  <2>4. Leads((setupPowerOff \o load_ps2hdd_stack) \o b, C, C, u)
    BY <1>5, <1>7, <2>2, <2>3
  <2> DEFINE w == When("DVRP" \notin have, (setupPowerOff \o load_ps2hdd_stack) \o b)
  <2>5. Leads(w, C, C, u)
    BY <1>5, <2>4 DEF When
  <2> HIDE DEF w
  <2>6. Leads(ensureCoreIoStackReady, C, C, u)
    BY <1>1, <1>3, Steady
  <2>7. Leads(ensureCoreIoStackReady \o w, C, C, u)
    BY <2>5, <2>6, Behind
  <2> QED
    BY <1>5, <2>7 DEF loadDVRPHddModules, When, w, b
<1>12. Leads(loadFlashModules, C, C, u)
  <2>1. <<Do("dev9")>> \in Seq(Quiet(C, u)) /\ <<Load("xfrom", {})>> \in Seq(Quiet(D, u))
    BY <1>3, <1>4
  <2>2. Leads((<<Do("dev9")>> \o setupPowerOff) \o <<Load("xfrom", {})>>, C, C, u)
    BY <1>5, <1>6, <2>1
  <2> DEFINE w == When("xfrom" \notin have, (<<Do("dev9")>> \o setupPowerOff) \o <<Load("xfrom", {})>>)
  <2>3. Leads(w, C, C, u)
    BY <1>5, <2>2 DEF When
  <2> HIDE DEF w
  <2>4. Leads(ensureCoreIoStackReady, C, C, u)
    BY <1>1, <1>3, Steady
  <2>5. Leads(ensureCoreIoStackReady \o w, C, C, u)
    BY <2>3, <2>4, Behind
  <2> QED
    BY <1>5, <2>5 DEF loadFlashModules, When, w
<1> QED
  BY <1>9, <1>10, <1>11, <1>12

(* The switch of the network stack, and what waits for it. *)
LEMMA NetworkSwitch ==
  ASSUME NEW u, NEW a \in BothNetworks, NEW C \in SUBSET Tokens, "settled" \in C,
         NEW K \in SUBSET (C \ NetTokens), "still" \in C \/ K \cap Away(Apart(u)) = {}
  PROVE  /\ On("switchNetwork", a) \in KnownSteps(u)
         /\ Leads(<<On("switchNetwork", a)>>, C, K \cup {a}, u)
<1> DEFINE x == On("switchNetwork", a)
<1>1. x \in Steps /\ x.op = "switchNetwork" /\ x.on = a
  <2>1. a \in Names /\ {} \in SUBSET Names /\ "switchNetwork" \in Ops
    BY NamesOf DEF BothNetworks, Ops, CallOps
  <2> QED
    BY <2>1, Parts DEF On
<1> HIDE DEF x
<1>2. x \in KnownSteps(u)
  BY <1>1 DEF KnownSteps, Known
<1>3. Fits(x, C, Apart(u))
  BY <1>1 DEF Fits
<1>4. K \cup {a} \subseteq After(C, x, Apart(u))
  <2>1. \A k \in K : k \in C /\ k \in Tokens /\ ~Loses(k, C, x, Apart(u))
    BY <1>1 DEF Loses, MayReset
  <2>2. Gives(a, x, Apart(u)) /\ a \in Tokens
    BY <1>1 DEF Gives, Tokens, BothNetworks
  <2> QED
    BY <2>1, <2>2 DEF After
<1>5. K \cup {a} \in SUBSET Tokens
  BY <1>4 DEF After
<1>6. Leads(<<x>>, C, K \cup {a}, u)
  BY <1>2, <1>3, <1>4, <1>5, One
<1> QED
  BY <1>2, <1>6 DEF x

(* The stacks of the host: C holds before and after, the network is ETH. *)
LEMMA EthStacks ==
  ASSUME NEW u, NEW C \in SUBSET (Tokens \ (Away(Apart(u)) \cup NetTokens)), "settled" \in C, "eth" \in u.networks
  PROVE  Leads(load_ps2host, C, C, u) /\ Leads(loadNetModules, C, C, u)
<1> DEFINE D == C \cup {"eth"}
           x == On("switchNetwork", "eth")
           b == <<Do("dev9"), Load("ps2ip", {"dev9"}), Load("ps2smap", {"dev9", "ps2ip"})>>
<1>1. /\ C \in SUBSET Tokens /\ D \in SUBSET Tokens /\ C \in SUBSET D /\ C \in SUBSET (C \ NetTokens)
      /\ C \in SUBSET (D \ NetTokens) /\ "settled" \in D /\ "eth" \in D /\ C \cap Away(Apart(u)) = {}
      /\ C \in SUBSET (Tokens \ Away(Apart(u)))
  BY DEF Tokens, NetTokens
<1>2. /\ {"dev9"} \in SUBSET Names /\ {"dev9", "ps2ip"} \in SUBSET Names /\ {"ps2ip", "ps2smap"} \in SUBSET Names
      /\ {"ps2netfs", "ps2ftpd"} \in SUBSET Names /\ {} \in SUBSET Names /\ "none" \in Names
  BY NamesOf DEF Checked, EthModules
<1>3. /\ Do("dev9") \in Quiet(D, u) /\ Do("setupPowerOff") \in Quiet(D, u)
      /\ Load("ps2ip", {"dev9"}) \in Quiet(D, u) /\ Load("ps2smap", {"dev9", "ps2ip"}) \in Quiet(D, u)
      /\ Load("ps2host", {"ps2ip", "ps2smap"}) \in Quiet(D, u) /\ Load("ps2netfs", {"ps2ip", "ps2smap"}) \in Quiet(D, u)
      /\ Load("ps2ftpd", {"ps2ip", "ps2smap"}) \in Quiet(D, u)
      /\ Flag("NetModules", {"ps2netfs", "ps2ftpd"}) \in Quiet(D, u)
  BY <1>1, <1>2, Plain, Guarded DEF Do, EthModules
<1>4. ensureCoreIoStackReady \in Seq(Quiet(D, u)) /\ setupPowerOff \in Seq(Quiet(D, u)) /\ ensureCoreIoStackReady \in Seq(Quiet(C, u))
  BY <1>1, QuietBodies
<1>5. /\ Leads(<<x>>, C, D, u) /\ Leads(<<x>>, D, D, u)
  BY <1>1, NetworkSwitch DEF BothNetworks
<1>6. Leads(b, D, D, u) /\ b \in Seq(Quiet(D, u))
  <2>1. b \in Seq(Quiet(D, u))
    BY <1>3
  <2> QED
    BY <1>1, <2>1, Steady
<1> HIDE DEF x, b, D
<1>7. Leads(load_ps2ip, C, D, u) /\ Leads(load_ps2ip, D, D, u)
  <2>1. Leads(<<x>> \o b, C, D, u) /\ Leads(<<x>> \o b, D, D, u)
    BY <1>5, <1>6, Behind
  <2> QED
    BY <2>1, Four DEF load_ps2ip, x, b
<1>8. Leads(load_ps2host, C, C, u)
  <2>1. Leads(<<x>> \o ensureCoreIoStackReady, C, D, u)
    BY <1>1, <1>4, <1>5, Steady, Behind
  <2>2. Leads((<<x>> \o ensureCoreIoStackReady) \o setupPowerOff, C, D, u)
    BY <1>1, <1>4, <2>1, Steady, Behind
  <2>3. Leads(((<<x>> \o ensureCoreIoStackReady) \o setupPowerOff) \o load_ps2ip, C, D, u)
    BY <1>7, <2>2, Behind
  <2>4. <<Load("ps2host", {"ps2ip", "ps2smap"})>> \in Seq(Quiet(D, u))
    BY <1>3
  <2>5. Leads(load_ps2host, C, D, u)
    BY <1>1, <2>3, <2>4, Steady, Behind DEF load_ps2host, x
  <2> QED
    BY <1>1, <2>5, Weaker
<1>9. Leads(loadNetModules, C, C, u)
  <2> DEFINE n == <<Load("ps2netfs", {"ps2ip", "ps2smap"})>>
             f == <<Load("ps2ftpd", {"ps2ip", "ps2smap"})>>
             l == <<Flag("NetModules", {"ps2netfs", "ps2ftpd"})>>
             g == <<Do("getIpConfig")>>
  <2>1. n \in Seq(Quiet(D, u)) /\ f \in Seq(Quiet(D, u)) /\ l \in Seq(Quiet(D, u))
    BY <1>3
  <2>2. Do("getIpConfig") \in Quiet(C, u)
    BY <1>1, Calls
  <2>3. g \in Seq(Quiet(C, u))
    BY <2>2
  <2> DEFINE w == ((((g \o load_ps2ip) \o n) \o load_ps2ip) \o f) \o l
  <2> HIDE DEF n, f, l, g
  <2>4. Leads(g, C, C, u) /\ Leads(n, D, D, u) /\ Leads(f, D, D, u) /\ Leads(l, D, D, u)
    BY <1>1, <2>1, <2>3, Steady
  <2>5. Leads(g \o load_ps2ip, C, D, u)
    BY <1>7, <2>4, Behind
  <2>6. Leads(((g \o load_ps2ip) \o n) \o load_ps2ip, C, D, u)
    BY <1>7, <2>4, <2>5, Behind
  <2>7. Leads(w, C, D, u)
    BY <2>4, <2>6, Behind
  <2>8. Leads(w, C, C, u) /\ Leads(<<>>, C, C, u)
    BY <1>1, <2>7, Weaker, Nothing
  <2> DEFINE v == When("NetModules" \notin have, w)
  <2>9. Leads(v, C, C, u)
    BY <2>8 DEF When
  <2> HIDE DEF w, v
  <2>10. Leads(ensureCoreIoStackReady \o v, C, C, u)
    BY <1>1, <1>4, <2>9, Steady, Behind
  <2> QED
    BY <2>10 DEF loadNetModules, v, w, n, f, l, g
<1> QED
  BY <1>8, <1>9

(* UDPFS: the configuration is read behind the switch of the network. *)
LEMMA UdpfsStack ==
  ASSUME NEW u, NEW C \in SUBSET Tokens, NEW D \in SUBSET Tokens, "udpfs" \in u.networks, "udpfs" \in D,
         Leads(<<On("switchNetwork", "udpfs")>>, C, D, u), Do("getIpConfig") \in Quiet(D, u)
  PROVE  Leads(load_udpfs, C, D, u)
<1> DEFINE x == On("switchNetwork", "udpfs")
           b == <<Do("getIpConfig"), Do("dev9"), Load("udpfs_smap", {"dev9"}),
                  Load("udpfs_ministack", {"dev9", "udpfs_smap"}),
                  Load("udpfs_ioman", {"dev9", "udpfs_smap", "udpfs_ministack"})>>
<1>1. /\ {"dev9"} \in SUBSET Names /\ {"dev9", "udpfs_smap"} \in SUBSET Names
      /\ {"dev9", "udpfs_smap", "udpfs_ministack"} \in SUBSET Names /\ "none" \in Names /\ {} \in SUBSET Names
  BY NamesOf DEF Checked, UdpfsModules
<1>2. /\ Do("dev9") \in Quiet(D, u) /\ Load("udpfs_smap", {"dev9"}) \in Quiet(D, u)
      /\ Load("udpfs_ministack", {"dev9", "udpfs_smap"}) \in Quiet(D, u)
      /\ Load("udpfs_ioman", {"dev9", "udpfs_smap", "udpfs_ministack"}) \in Quiet(D, u)
  BY <1>1, Plain, Guarded DEF Do, UdpfsModules
<1>3. b \in Seq(Quiet(D, u))
  BY <1>2
<1> HIDE DEF x, b
<1>4. ensureCoreIoStackReady \in Seq(Quiet(D, u)) /\ setupPowerOff \in Seq(Quiet(D, u))
  BY QuietBodies
<1>5. Leads(ensureCoreIoStackReady, D, D, u) /\ Leads(setupPowerOff, D, D, u) /\ Leads(b, D, D, u)
  BY <1>3, <1>4, Steady
<1>6. Leads(<<x>> \o ensureCoreIoStackReady, C, D, u)
  BY <1>5, Behind DEF x
<1>7. Leads(((<<x>> \o ensureCoreIoStackReady) \o setupPowerOff) \o b, C, D, u)
  BY <1>5, <1>6, Behind
<1> QED
  BY <1>7 DEF load_udpfs, x, b

(* A reset, with the keyboard that it restarts. *)
LEMMA ResetGives ==
  ASSUME NEW u, NEW C \in SUBSET Tokens
  PROVE  /\ Do("Reset") \in KnownSteps(u) /\ Fits(Do("Reset"), C, Apart(u))
         /\ Leads(<<Do("Reset")>>, C, (C \ ResetLoses) \cup Pair \cup {"settled", "toEth", "toUdpfs"}, u)
<1> DEFINE x == Do("Reset")
           D == (C \ ResetLoses) \cup Pair \cup {"settled", "toEth", "toUdpfs"}
<1>1. x \in Steps /\ x.op = "Reset"
  <2>1. "none" \in Names /\ {} \in SUBSET Names /\ "Reset" \in Ops
    BY NamesOf DEF Ops
  <2> QED
    BY <2>1, Parts DEF Do
<1> HIDE DEF x
<1>2. x \in KnownSteps(u)
  BY <1>1 DEF KnownSteps, Known
<1>3. Fits(x, C, Apart(u))
  BY <1>1 DEF Fits, CallOps
<1>4. D \in SUBSET Tokens
  BY DEF Tokens, Pair
<1>5. D \subseteq After(C, x, Apart(u))
  <2>1. \A k \in C \ ResetLoses : ~Loses(k, C, x, Apart(u))
    BY <1>1 DEF Loses, MayReset, CallOps
  <2>2. \A k \in Pair \cup {"settled", "toEth", "toUdpfs"} : Gives(k, x, Apart(u))
    BY <1>1 DEF Gives
  <2> QED
    BY <1>4, <2>1, <2>2 DEF After
<1> HIDE DEF D
<1>6. Leads(<<x>>, C, D, u)
  BY <1>2, <1>3, <1>4, <1>5, One
<1> QED
  BY <1>2, <1>3, <1>6 DEF x, D

(* resetRuntimeDeviceState, whatever the keyboard loads on its way. *)
LEMMA ResetStack ==
  ASSUME NEW u, NEW C \in SUBSET Tokens
  PROVE  Leads(resetRuntimeDeviceState, C,
               (C \ Away(Apart(u))) \cup {"settled", "toEth", "toUdpfs"} \cup (IF Apart(u) THEN Pair ELSE {}), u)
<1> DEFINE D == (C \ ResetLoses) \cup Pair \cup {"settled", "toEth", "toUdpfs"}
           E == (C \ Away(Apart(u))) \cup {"settled", "toEth", "toUdpfs"} \cup (IF Apart(u) THEN Pair ELSE {})
<1>1. /\ D \in SUBSET Tokens /\ E \in SUBSET (Tokens \ Away(Apart(u))) /\ "settled" \in E /\ E \in SUBSET D
      /\ E \in SUBSET E
  BY DEF Tokens, Pair, Away, ResetLoses
<1>2. Leads(<<Do("Reset")>>, C, D, u)
  BY ResetGives
<1> HIDE DEF D, E
<1>3. Leads(ensureCoreIoStackReady, D, D, u)
  BY <1>1, QuietBodies, Steady
<1>4. Leads(<<Do("startKbd")>>, E, E, u)
  <2>1. Do("startKbd") \in Quiet(E, u)
    BY <1>1, Calls
  <2>2. <<Do("startKbd")>> \in Seq(Quiet(E, u)) /\ E \in SUBSET Tokens
    BY <1>1, <2>1
  <2> QED
    BY <2>2, Steady
<1>5. Leads(<<Do("startKbd")>>, D, E, u)
  BY <1>1, <1>4, Weaker
<1>6. Leads((<<Do("Reset")>> \o ensureCoreIoStackReady) \o <<Do("startKbd")>>, C, E, u)
  BY <1>2, <1>3, <1>5, Behind
<1> QED
  BY <1>6 DEF resetRuntimeDeviceState, E

(* The stack of a device, for one that opens a path of it. *)
LEMMA DeviceStacks ==
  ASSUME NEW C \in SUBSET (Tokens \ Away(Apart(setup))), "settled" \in C, NEW d \in Names,
         d \in Pair => C \cap Pair = {},
         d \in {"host", "udpfs"} => C \cap NetTokens = {},
         d = "udpfs" => "cached" \in C
  PROVE  /\ Leads(ensurePathDeviceStackReady(d), C, C, setup)
         /\ Leads(loadDeviceStackForPath(d), C, C, setup)
<1>1. C \in SUBSET Tokens /\ Leads(<<>>, C, C, setup)
  BY Nothing
<1>2. d = "mass" => Leads(loadUsbModules, C, C, setup)
  BY <1>1, QuietBodies, Steady
<1>3. d \in Pair => Leads(loadMmceModules, C, C, setup) /\ Leads(loadMx4sioModules, C, C, setup)
  <2>1. d \in Pair => C \in SUBSET (Tokens \ (Away(Apart(setup)) \cup Pair))
    OBVIOUS
  <2> QED
    BY <2>1, StorageStacks
<1>4. /\ Leads(loadAtaModules, C, C, setup) /\ Leads(loadHddModules, C, C, setup)
      /\ Leads(loadDVRPHddModules, C, C, setup) /\ Leads(loadFlashModules, C, C, setup)
  BY DiskStacks
<1>5. d = "host" => Leads(When("eth" \in Networks, load_ps2host), C, C, setup)
  <2>1. ASSUME d = "host", "eth" \in setup.networks
        PROVE  Leads(load_ps2host, C, C, setup)
    <3>1. C \in SUBSET (Tokens \ (Away(Apart(setup)) \cup NetTokens))
      BY <2>1
    <3> QED
      BY <2>1, <3>1, EthStacks
  <2> QED
    BY <1>1, <2>1 DEF When, Networks
<1>6. d = "udpfs" => Leads(When("udpfs" \in Networks, load_udpfs), C, C, setup)
  <2>1. ASSUME d = "udpfs", "udpfs" \in setup.networks
        PROVE  Leads(load_udpfs, C, C, setup)
    <3> DEFINE D == C \cup {"udpfs"}
    <3>1. /\ C \in SUBSET (C \ NetTokens) /\ C \cap Away(Apart(setup)) = {} /\ D \in SUBSET Tokens /\ "udpfs" \in D
          /\ C \in SUBSET D /\ "udpfs" \in BothNetworks /\ "cached" \in D
      BY <2>1 DEF Tokens, BothNetworks
    <3>2. Leads(<<On("switchNetwork", "udpfs")>>, C, D, setup)
      BY <1>1, <3>1, NetworkSwitch
    <3>3. Do("getIpConfig") \in Quiet(D, setup)
      BY <3>1, ConfigKnown
    <3>4. Leads(load_udpfs, C, D, setup)
      BY <1>1, <2>1, <3>1, <3>2, <3>3, UdpfsStack
    <3> HIDE DEF D
    <3> QED
      BY <3>1, <3>4, Weaker
  <2> QED
    BY <1>1, <2>1 DEF When, Networks
<1>7. Leads(ensurePathDeviceStackReady(d), C, C, setup)
  BY <1>1, <1>2, <1>3, <1>4, <1>5, <1>6 DEF ensurePathDeviceStackReady, Pair
<1>8. Leads(load_vmcman, C, C, setup)
  BY <1>1, QuietBodies, Steady
<1> QED
  BY <1>7, <1>8 DEF loadDeviceStackForPath

(* UDPFS as the device of the program, before the configuration was read. *)
LEMMA BootUdpfs ==
  ASSUME NEW C \in SUBSET Tokens, {"settled", "still", "mc1free"} \subseteq C
  PROVE  Leads(loadDeviceStackForPath("udpfs"), C, C \ NetTokens, setup)
<1> DEFINE K == C \ NetTokens
           D == K \cup {"udpfs"}
<1>1. /\ K \in SUBSET (C \ NetTokens) /\ D \in SUBSET Tokens /\ "udpfs" \in D /\ {"settled", "mc1free"} \subseteq D
      /\ K \in SUBSET D /\ K \in SUBSET C /\ K \in SUBSET Tokens /\ "udpfs" \in BothNetworks /\ C \in SUBSET C
  BY DEF Tokens, BothNetworks, NetTokens
<1>2. Leads(<<On("switchNetwork", "udpfs")>>, C, D, setup)
  BY <1>1, NetworkSwitch
<1>3. Do("getIpConfig") \in Quiet(D, setup)
  BY <1>1, ConfigKnown
<1> HIDE DEF K, D
<1>4. "udpfs" \in setup.networks => Leads(load_udpfs, C, D, setup)
  BY <1>1, <1>2, <1>3, UdpfsStack
<1>5. "udpfs" \in setup.networks => Leads(load_udpfs, C, K, setup)
  BY <1>1, <1>4, Weaker
<1>6. Leads(<<>>, C, K, setup)
  BY <1>1, Nothing, Weaker
<1>7. Leads(When("udpfs" \in Networks, load_udpfs), C, K, setup)
  BY <1>5, <1>6 DEF When, Networks
<1> QED
  BY <1>7 DEF loadDeviceStackForPath, ensurePathDeviceStackReady, K

(* What genFixPath does to the drivers. *)
LEMMA FixPath ==
  ASSUME NEW C \in SUBSET (Tokens \ Away(Apart(setup))), "settled" \in C, NEW d \in Names,
         d \in Pair => C \cap Pair = {}
  PROVE  Leads(genFixPath(d), C, C, setup)
<1>1. C \in SUBSET Tokens /\ Leads(<<>>, C, C, setup)
  BY Nothing
<1>2. d = "mc1" => Leads(<<Do("ensureMc1")>>, C, C, setup)
  <2>1. Do("ensureMc1") \in Quiet(C, setup)
    BY Calls
  <2>2. <<Do("ensureMc1")>> \in Seq(Quiet(C, setup))
    BY <2>1
  <2> QED
    BY <1>1, <2>2, Steady
<1>3. Leads(loadUsbModules, C, C, setup)
  BY <1>1, QuietBodies, Steady
<1>4. d \in Pair => Leads(loadMmceModules, C, C, setup) /\ Leads(loadMx4sioModules, C, C, setup)
  <2>1. d \in Pair => C \in SUBSET (Tokens \ (Away(Apart(setup)) \cup Pair))
    OBVIOUS
  <2> QED
    BY <2>1, StorageStacks
<1>5. Leads(loadAtaModules, C, C, setup) /\ Leads(loadHddModules, C, C, setup) /\ Leads(loadDVRPHddModules, C, C, setup)
  BY DiskStacks
<1>6. /\ <<Step("partyList", "hdd", {"HDD"})>> \in Seq(Quiet(C, setup))
      /\ <<Step("partyList", "dvr", {"DVRP"})>> \in Seq(Quiet(C, setup))
      /\ <<On("use", d)>> \in Seq(Quiet(C, setup))
  <2>1. On("use", d) \in Quiet(C, setup)
    BY <1>1, NamesOf, Plain DEF On
  <2> QED
    BY <1>1, <2>1, Ends
<1>7. /\ Leads(loadHddModules \o <<Step("partyList", "hdd", {"HDD"})>>, C, C, setup)
      /\ Leads(loadDVRPHddModules \o <<Step("partyList", "dvr", {"DVRP"})>>, C, C, setup)
  BY <1>1, <1>5, <1>6, Steady, Behind
<1> DEFINE s == CASE d = "mc1" -> <<Do("ensureMc1")>>
                  [] d = "mass" -> loadUsbModules
                  [] d = "ata" -> loadAtaModules
                  [] d = "mx4sio" -> When("mx4sio" \notin have, loadMx4sioModules)
                  [] d = "mmce" -> loadMmceModules
                  [] d = "hdd" -> When("hdd" \notin parties,
                                       loadHddModules \o <<Step("partyList", "hdd", {"HDD"})>>)
                  [] d = "dvr" -> When(PSX /\ "dvr" \notin parties,
                                       loadDVRPHddModules \o <<Step("partyList", "dvr", {"DVRP"})>>)
                  [] OTHER -> << >>
<1>8. Leads(s, C, C, setup)
  BY <1>1, <1>2, <1>3, <1>4, <1>5, <1>7 DEF When, Pair
<1>9. Leads(<<On("use", d)>>, C, C, setup)
  BY <1>1, <1>6, Steady
<1>10. genFixPath(d) = s \o <<On("use", d)>>
  BY DEF genFixPath
<1> HIDE DEF s
<1> QED
  BY <1>8, <1>9, <1>10, Behind

(* mc1: while MX4SIO does not hold its slot: nothing is reset. *)
LEMMA FixPathMc1 ==
  ASSUME NEW C \in SUBSET Tokens, {"settled", "mc1free"} \subseteq C
  PROVE  Leads(genFixPath("mc1"), C, C, setup)
<1>1. <<Do("ensureMc1"), On("use", "mc1")>> \in Seq(Quiet(C, setup))
  <2>1. Do("ensureMc1") \in Quiet(C, setup)
    BY ConfigKnown
  <2>2. On("use", "mc1") \in Quiet(C, setup)
    BY NamesOf, Plain DEF On, Devices
  <2> QED
    BY <2>1, <2>2
<1>2. genFixPath("mc1") = <<Do("ensureMc1")>> \o <<On("use", "mc1")>>
  BY DEF genFixPath
<1>3. <<Do("ensureMc1")>> \o <<On("use", "mc1")>> = <<Do("ensureMc1"), On("use", "mc1")>>
  <2> DEFINE x == Do("ensureMc1")
             y == On("use", "mc1")
  <2>1. x \in {x, y} /\ y \in {x, y}
    OBVIOUS
  <2> HIDE DEF x, y
  <2>2. <<x>> \o <<y>> = <<x, y>>
    BY <2>1, Two
  <2> QED
    BY <2>2 DEF x, y
<1> QED
  BY <1>1, <1>2, <1>3, Steady

(* The file of a setting. *)
LEMMA ExternalPath ==
  ASSUME NEW C \in SUBSET (Tokens \ Away(Apart(setup))), "settled" \in C, NEW d \in Names,
         d \in {KbdFile, KbdMap}
  PROVE  Leads(getExternalFilePath(d), C, C, setup)
<1>1. C \in SUBSET Tokens /\ Leads(<<>>, C, C, setup)
  BY Nothing
<1>2. d \in Pair => C \cap Pair = {}
  BY DEF Apart, KbdFile, KbdMap, Away
<1>3. Leads(loadHddModules, C, C, setup) /\ Leads(loadDVRPHddModules, C, C, setup)
  BY DiskStacks
<1>4. Leads(<<On("genFixPath", d)>>, C, C, setup)
  <2>1. On("genFixPath", d) \in Quiet(C, setup)
    BY <1>2, Calls, NamesOf
  <2>2. <<On("genFixPath", d)>> \in Seq(Quiet(C, setup))
    BY <2>1
  <2> QED
    BY <1>1, <2>2, Steady
<1> QED
  BY <1>1, <1>3, <1>4 DEF getExternalFilePath
-----------------------------------------------------------------------------
Holds(C) ==
  /\ "armed" \in C => armed
  /\ KbdApart /\ RebootWorks =>
       /\ "mmce" \in C => storage # "mx4sio" /\ "mx4sio" \notin resident
       /\ "mx4sio" \in C => storage # "mmce" /\ "mmce" \notin resident
       /\ "settled" \in C => \A a \in Pair : a \in resident => storage = a
  /\ RebootWorks /\ Networks = BothNetworks =>
       /\ "eth" \in C => net = "eth"
       /\ "udpfs" \in C => net = "udpfs"
       /\ "toEth" \in C => net # "udpfs"
       /\ "toUdpfs" \in C => net # "eth"
  /\ "still" \in C => net = "none"
  /\ "mc1free" \in C => storage # "mx4sio" /\ "mx4sio" \notin have
  /\ "cached" \in C => ipCached

IdleTokens == {"settled", "cached"}
TodoInv == \E C \in SUBSET Tokens : Holds(C) /\ Leads(todo, C, IdleTokens, setup)

ModesProven ==
  /\ storage \in {"default", "mmce", "mx4sio"} /\ net \in {"none", "eth", "udpfs"}
  /\ block \subseteq {"ata", "hdd"} /\ parties \subseteq {"hdd", "dvr"}
  /\ have \cap Checked \subseteq resident
  /\ "HDD" \in have => {"ps2hdd", "ps2fs"} \subseteq resident
  /\ "DVRP" \in have => {"dvrdrv", "dvrfile"} \subseteq resident
  /\ storage # "default" => storage \in resident
  /\ "ata" \in block => "ata_bd" \in resident
  /\ "hdd" \in block => {"ps2hdd", "ps2fs"} \subseteq resident
  /\ "hdd" \in parties => {"ps2hdd", "ps2fs"} \subseteq resident
  /\ "dvr" \in parties => {"dvrdrv", "dvrfile"} \subseteq resident
Armed ==
  /\ resident \cap DiskModules # {} => armed
  /\ "donePowerOff" \in have => armed
Exclusive ==
  /\ RebootWorks => resident \cap Pair \subseteq have
  /\ KbdApart /\ RebootWorks => ~(Pair \subseteq resident)
  /\ resident \cap EthModules # {} => "eth" \in Networks
  /\ resident \cap UdpfsModules # {} => "udpfs" \in Networks
  /\ RebootWorks /\ Networks = BothNetworks =>
       /\ resident \cap EthModules # {} => net = "eth"
       /\ resident \cap UdpfsModules # {} => net = "udpfs"

Safe == setup \in Setups /\ ModesProven /\ Armed /\ Exclusive
IndInv == TodoInv /\ Safe

(* What a step may rely on: the tokens K. *)
At(K) ==
  /\ todo # <<>> /\ Holds(K)
  /\ Head(todo) \in KnownSteps(setup) /\ Fits(Head(todo), K, Apart(setup))
  /\ Leads(Tail(todo), After(K, Head(todo), Apart(setup)), IdleTokens, setup)
-----------------------------------------------------------------------------
(* Steps and tokens.                                                       *)

(* The tokens the next step is given. *)
LEMMA AtStep ==
  ASSUME TodoInv, todo # <<>>
  PROVE  \E K \in SUBSET Tokens : At(K)
<1>1. PICK C \in SUBSET Tokens : Holds(C) /\ Leads(todo, C, IdleTokens, setup)
  BY DEF TodoInv
<1>2. PICK K \in SUBSET C : /\ Fits(Head(todo), K, Apart(setup))
                           /\ Leads(Tail(todo), After(K, Head(todo), Apart(setup)), IdleTokens, setup)
  BY <1>1, First
<1>3. Head(todo) \in KnownSteps(setup)
  BY <1>1, First
<1>4. Holds(K) /\ K \in SUBSET Tokens
  BY <1>1 DEF Holds
<1> QED
  BY <1>2, <1>3, <1>4 DEF At

(* The step is done. *)
LEMMA Done ==
  ASSUME NEW K \in SUBSET Tokens, At(K), Return, setup' = setup,
         NEW D \in SUBSET Tokens, D = After(K, Head(todo), Apart(setup)), Holds(D)'
  PROVE  TodoInv'
BY DEF Return, TodoInv, At

(* The step is replaced by the steps of its body. *)
LEMMA Replaced ==
  ASSUME NEW K \in SUBSET Tokens, At(K), NEW body, Then(body), setup' = setup,
         NEW C \in SUBSET Tokens, Holds(C)', Leads(body, C, After(K, Head(todo), Apart(setup)), setup)
  PROVE  TodoInv'
<1>1. Leads(body \o Tail(todo), C, IdleTokens, setup)
  BY Behind DEF At
<1>2. Leads(todo', C, IdleTokens, setup')
  BY <1>1 DEF Then
<1> QED
  BY <1>2 DEF TodoInv

(* Fewer tokens hold where nothing they are about has changed. *)
LEMMA StillHolds ==
  ASSUME NEW K \in SUBSET Tokens, NEW C \in SUBSET K, Holds(K),
         UNCHANGED <<setup, armed, storage, net, resident, have, ipCached>>
  PROVE  Holds(C)'
BY DEF Holds, KbdApart, RebootWorks, Networks, KbdFile, KbdMap, Flaky

(* The state of the IOP and its flags, where nothing of it has changed. *)
LEMMA StillSafe ==
  ASSUME Safe, UNCHANGED <<setup, armed, resident, have, modes, parties>>
  PROVE  Safe'
BY DEF Safe, ModesProven, Armed, Exclusive, KbdApart, RebootWorks, Networks, KbdFile, KbdMap, Flaky, modes

(* The tokens behind a call that gives none. *)
LEMMA AfterCalls ==
  ASSUME NEW u, NEW K \in SUBSET Tokens, NEW x, Fits(x, K, Apart(u)),
         x.op \in CallOps \ {"switchStorage", "switchNetwork", "getIpConfig"}
  PROVE  /\ After(K, x, Apart(u)) \in SUBSET K /\ "settled" \in After(K, x, Apart(u))
         /\ MayReset(K, x) => After(K, x, Apart(u)) \in SUBSET (Tokens \ Away(Apart(u)))
         /\ ~MayReset(K, x) => "mc1free" \in K /\ (x.op = "ensureMc1" \/ (x.op = "genFixPath" /\ x.on = "mc1"))
         /\ x.op \in {"genFixPath", "deviceReady"} /\ x.on \in Pair => After(K, x, Apart(u)) \cap Pair = {}
         /\ x.op = "deviceReady" /\ x.on \in {"host", "udpfs"} => After(K, x, Apart(u)) \cap NetTokens = {}
         /\ "cached" \in K => "cached" \in After(K, x, Apart(u))
         /\ ~MayReset(K, x) => "mc1free" \in After(K, x, Apart(u))
<1>1. "settled" \in K /\ "settled" \in Tokens /\ "cached" \in Tokens /\ "mc1free" \in Tokens
  BY DEF Fits, Tokens
<1>2. \A k \in Tokens : ~Gives(k, x, Apart(u))
  BY DEF Gives, CallOps
<1>3. \A k \in {"settled", "cached"} : ~Loses(k, K, x, Apart(u))
  BY DEF Loses, CallOps, Away, ResetLoses, Pair, NetTokens
<1>4. ~MayReset(K, x) => "mc1free" \in K /\ (x.op = "ensureMc1" \/ (x.op = "genFixPath" /\ x.on = "mc1"))
  BY DEF MayReset
<1>5. ~MayReset(K, x) => ~Loses("mc1free", K, x, Apart(u))
  BY <1>4 DEF Loses, Pair, NetTokens
<1>6. ASSUME NEW k \in Tokens
      PROVE  /\ MayReset(K, x) /\ k \in Away(Apart(u)) => Loses(k, K, x, Apart(u))
             /\ x.op \in {"genFixPath", "deviceReady"} /\ x.on \in Pair /\ k \in Pair => Loses(k, K, x, Apart(u))
             /\ x.op = "deviceReady" /\ x.on \in {"host", "udpfs"} /\ k \in NetTokens => Loses(k, K, x, Apart(u))
  BY DEF Loses, CallOps
<1> QED
  BY <1>1, <1>2, <1>3, <1>4, <1>5, <1>6 DEF After
-----------------------------------------------------------------------------
(* The calls: what their bodies need is there, and the rest of the caller   *)
(* finds what it relies on.                                                *)
Untouched == UNCHANGED <<setup, armed, storage, net, resident, have, ipCached, block, parties>>

(* A call: its body has the tokens C, and leaves those the rest of its caller has. *)
LEMMA Calling ==
  ASSUME NEW K \in SUBSET Tokens, At(K), Safe, NEW body, Then(body), Untouched,
         NEW C \in SUBSET K, Leads(body, C, After(K, Head(todo), Apart(setup)), setup)
  PROVE  IndInv'
<1>1. Holds(C)' /\ C \in SUBSET Tokens
  BY StillHolds DEF At, Untouched
<1>2. Safe'
  BY StillSafe DEF Untouched, modes
<1>3. setup' = setup
  BY DEF Untouched
<1> QED
  BY <1>1, <1>2, <1>3, Replaced DEF IndInv

(* A call that has nothing to do. *)
LEMMA Returning ==
  ASSUME NEW K \in SUBSET Tokens, At(K), Safe, Return, Untouched,
         After(K, Head(todo), Apart(setup)) \in SUBSET K
  PROVE  IndInv'
<1> DEFINE D == After(K, Head(todo), Apart(setup))
<1> HIDE DEF D
<1>1. D \in SUBSET K
  BY DEF D
<1>2. PICK C \in SUBSET K : C = D
  BY <1>1
<1>3. Holds(C)' /\ C \in SUBSET Tokens
  BY StillHolds DEF At, Untouched
<1>4. Safe'
  BY StillSafe DEF Untouched, modes
<1>5. setup' = setup
  BY DEF Untouched
<1>6. C = After(K, Head(todo), Apart(setup))
  BY <1>2 DEF D
<1> QED
  BY <1>3, <1>4, <1>5, <1>6, Done DEF IndInv

(* switchBlockStorageStack: reset or not, the caller has lost what a reset takes. *)
LEMMA SwitchBlockStep ==
  ASSUME NEW K \in SUBSET Tokens, At(K), Safe, SwitchBlockStorageStack, setup' = setup
  PROVE  IndInv'
<1> DEFINE D == After(K, Head(todo), Apart(setup))
           body == When(Arg \notin block /\ block \cup {Arg} # {"hdd", "ata"} /\ block # {}, resetRuntimeDeviceState)
<1>1. Then(body) /\ Untouched /\ Head(todo).op = "switchBlock"
  BY DEF SwitchBlockStorageStack, Untouched, modes, caches, Now
<1>2. D \in SUBSET K /\ "settled" \in D /\ D \in SUBSET (Tokens \ Away(Apart(setup)))
  BY <1>1, AfterCalls DEF At, CallOps, MayReset
<1> HIDE DEF D
<1>3. D \in SUBSET Tokens /\ D \in SUBSET D /\ Leads(<<>>, D, D, setup)
  BY <1>2, Nothing
<1>4. Leads(resetRuntimeDeviceState, D, D, setup)
  BY <1>2, <1>3, ResetStack, Weaker
<1>5. Leads(body, D, D, setup)
  BY <1>3, <1>4 DEF When
<1> HIDE DEF body
<1>6. Leads(body, D, After(K, Head(todo), Apart(setup)), setup)
  BY <1>5 DEF D
<1> QED
  BY <1>1, <1>2, <1>6, Calling

(* ensureMemoryCardPortAccessible resets only where MX4SIO holds the slot. *)
LEMMA EnsureMc1Step ==
  ASSUME NEW K \in SUBSET Tokens, At(K), Safe, EnsureMemoryCardPortAccessible, setup' = setup
  PROVE  IndInv'
<1> DEFINE D == After(K, Head(todo), Apart(setup))
           body == When(storage = "mx4sio" \/ "mx4sio" \in have, resetRuntimeDeviceState)
<1>1. Then(body) /\ Untouched /\ Head(todo).op = "ensureMc1"
  BY DEF EnsureMemoryCardPortAccessible, Untouched, modes, caches, Now
<1>2. /\ D \in SUBSET K /\ "settled" \in D
      /\ "mc1free" \notin K => D \in SUBSET (Tokens \ Away(Apart(setup)))
  BY <1>1, AfterCalls DEF At, CallOps
<1> HIDE DEF D
<1>3. D \in SUBSET Tokens /\ D \in SUBSET D /\ Leads(<<>>, D, D, setup)
  BY <1>2, Nothing
<1>4. "mc1free" \notin K => Leads(resetRuntimeDeviceState, D, D, setup)
  BY <1>2, <1>3, ResetStack, Weaker
<1>5. "mc1free" \in K => body = <<>>
  BY DEF At, Holds, When
<1>6. Leads(body, D, D, setup)
  BY <1>3, <1>4, <1>5 DEF When
<1> HIDE DEF body
<1>7. Leads(body, D, After(K, Head(todo), Apart(setup)), setup)
  BY <1>6 DEF D
<1> QED
  BY <1>1, <1>2, <1>7, Calling

(* Setup_USB_Kbd, which every reset ends in. *)
LEMMA StartKbdStep ==
  ASSUME NEW K \in SUBSET Tokens, At(K), Safe, StartKbd, setup' = setup
  PROVE  IndInv'
<1> DEFINE D == After(K, Head(todo), Apart(setup))
           usb == When(KbdFile = "mass", loadUsbModules)
           last == <<Load("usbd", {}), Do("loadKbd"), Do("kbdInit")>>
           body == When(KbdUsed /\ ~kbdOpen, (usb \o ensureCoreIoStackReady) \o last)
<1>1. Then(body) /\ Untouched /\ Head(todo).op = "startKbd"
  BY DEF StartKbd, Untouched, modes, caches, Now
<1>2. D \in SUBSET K /\ "settled" \in D /\ D \in SUBSET (Tokens \ Away(Apart(setup)))
  BY <1>1, AfterCalls DEF At, CallOps, MayReset
<1> HIDE DEF D
<1>3. D \in SUBSET Tokens /\ Leads(<<>>, D, D, setup)
  BY <1>2, Nothing
<1>4. Leads(usb, D, D, setup) /\ Leads(ensureCoreIoStackReady, D, D, setup)
  BY <1>3, QuietBodies, Steady DEF When
<1>5. Leads(last, D, D, setup)
  <2>1. Load("usbd", {}) \in Quiet(D, setup) /\ Do("loadKbd") \in Quiet(D, setup) /\ Do("kbdInit") \in Quiet(D, setup)
    BY <1>2, <1>3, NamesOf, Plain, Calls DEF PlainModules
  <2>2. last \in Seq(Quiet(D, setup))
    BY <2>1
  <2> QED
    BY <1>3, <2>2, Steady
<1> HIDE DEF usb, last
<1>6. Leads((usb \o ensureCoreIoStackReady) \o last, D, D, setup)
  BY <1>4, <1>5, Behind
<1>7. Leads(body, D, D, setup)
  BY <1>3, <1>6 DEF When
<1> HIDE DEF body
<1>8. Leads(body, D, After(K, Head(todo), Apart(setup)), setup)
  BY <1>7 DEF D
<1> QED
  BY <1>1, <1>2, <1>8, Calling

(* loadKbdModules: the driver may be a file on any device. *)
LEMMA LoadKbdStep ==
  ASSUME NEW K \in SUBSET Tokens, At(K), Safe, LoadKbdModules, setup' = setup
  PROVE  IndInv'
<1> DEFINE D == After(K, Head(todo), Apart(setup))
           path == getExternalFilePath(KbdFile)
           body == When("usbd" \in have /\ "ps2kbd" \notin have, path \o <<Do("loadExternal")>>)
<1>1. Then(body) /\ Untouched /\ Head(todo).op = "loadKbd"
  BY DEF LoadKbdModules, Untouched, modes, caches, Now
<1>2. D \in SUBSET K /\ "settled" \in D /\ D \in SUBSET (Tokens \ Away(Apart(setup)))
  BY <1>1, AfterCalls DEF At, CallOps, MayReset
<1> HIDE DEF D
<1>3. D \in SUBSET Tokens /\ Leads(<<>>, D, D, setup) /\ KbdFile \in Names
  BY <1>2, Nothing, SetupAssumption, NamesOf DEF Safe, KbdFile
<1>4. Leads(path, D, D, setup)
  BY <1>2, <1>3, ExternalPath
<1>5. Leads(<<Do("loadExternal")>>, D, D, setup)
  <2>1. Do("loadExternal") \in Quiet(D, setup)
    BY <1>3, NamesOf, Plain DEF Do
  <2>2. <<Do("loadExternal")>> \in Seq(Quiet(D, setup))
    BY <2>1
  <2> QED
    BY <1>3, <2>2, Steady
<1> HIDE DEF path
<1>6. Leads(path \o <<Do("loadExternal")>>, D, D, setup)
  BY <1>4, <1>5, Behind
<1>7. Leads(body, D, D, setup)
  BY <1>3, <1>6 DEF When
<1> HIDE DEF body
<1>8. Leads(body, D, After(K, Head(todo), Apart(setup)), setup)
  BY <1>7 DEF D
<1> QED
  BY <1>1, <1>2, <1>8, Calling

(* The same for the map of the keys. *)
LEMMA LoadKbdMapStep ==
  ASSUME NEW K \in SUBSET Tokens, At(K), Safe, LoadKbdMap, setup' = setup
  PROVE  IndInv'
<1> DEFINE D == After(K, Head(todo), Apart(setup))
           body == When("ps2kbd" \in resident, getExternalFilePath(KbdMap))
<1>1. Then(body) /\ Untouched /\ Head(todo).op = "kbdMap"
  BY DEF LoadKbdMap, Untouched, modes, caches, Now
<1>2. D \in SUBSET K /\ "settled" \in D /\ D \in SUBSET (Tokens \ Away(Apart(setup)))
  BY <1>1, AfterCalls DEF At, CallOps, MayReset
<1> HIDE DEF D
<1>3. D \in SUBSET Tokens /\ Leads(<<>>, D, D, setup) /\ KbdMap \in Names
  BY <1>2, Nothing, SetupAssumption, NamesOf DEF Safe, KbdMap
<1>4. Leads(getExternalFilePath(KbdMap), D, D, setup)
  BY <1>2, <1>3, ExternalPath
<1>5. Leads(body, D, D, setup)
  BY <1>3, <1>4 DEF When
<1> HIDE DEF body
<1>6. Leads(body, D, After(K, Head(todo), Apart(setup)), setup)
  BY <1>5 DEF D
<1> QED
  BY <1>1, <1>2, <1>6, Calling

(* PS2KbdInit, and the map behind it. *)
LEMMA KbdInitStep ==
  ASSUME NEW K \in SUBSET Tokens, At(K), Safe, KbdInit, setup' = setup
  PROVE  IndInv'
<1> DEFINE D == After(K, Head(todo), Apart(setup))
           usb == When(KbdMap = "mass", loadUsbModules)
           body == usb \o <<Do("kbdMap")>>
<1>1. (Then(body) \/ Return) /\ Untouched /\ Head(todo).op = "kbdInit"
  BY DEF KbdInit, Untouched, modes, Now
<1>2. D \in SUBSET K /\ "settled" \in D /\ D \in SUBSET (Tokens \ Away(Apart(setup)))
  BY <1>1, AfterCalls DEF At, CallOps, MayReset
<1> HIDE DEF D
<1>3. D \in SUBSET Tokens /\ Leads(<<>>, D, D, setup)
  BY <1>2, Nothing
<1>4. Leads(usb, D, D, setup)
  BY <1>3, QuietBodies, Steady DEF When
<1>5. Leads(<<Do("kbdMap")>>, D, D, setup)
  <2>1. Do("kbdMap") \in Quiet(D, setup)
    BY <1>2, Calls
  <2>2. <<Do("kbdMap")>> \in Seq(Quiet(D, setup))
    BY <2>1
  <2> QED
    BY <1>3, <2>2, Steady
<1> HIDE DEF usb
<1>6. Leads(body, D, D, setup)
  BY <1>4, <1>5, Behind
<1> HIDE DEF body
<1>7. Leads(body, D, After(K, Head(todo), Apart(setup)), setup)
  BY <1>6 DEF D
<1>8. CASE Then(body)
  BY <1>1, <1>2, <1>7, <1>8, Calling
<1>9. CASE Return
  BY <1>1, <1>2, <1>9, Returning DEF D
<1> QED
  BY <1>1, <1>8, <1>9

(* genFixPath, before the path is used. *)
LEMMA GenFixPathStep ==
  ASSUME NEW K \in SUBSET Tokens, At(K), Safe, GenFixPath, setup' = setup
  PROVE  IndInv'
<1> DEFINE D == After(K, Head(todo), Apart(setup))
           body == genFixPath(Arg)
<1>1. Then(body) /\ Untouched /\ Head(todo).op = "genFixPath"
  BY DEF GenFixPath, Untouched, modes, caches, Now
<1>2. /\ D \in SUBSET K /\ "settled" \in D
      /\ MayReset(K, Head(todo)) => D \in SUBSET (Tokens \ Away(Apart(setup)))
      /\ ~MayReset(K, Head(todo)) => Arg = "mc1" /\ "mc1free" \in D
      /\ Arg \in Pair => D \cap Pair = {}
  <2> DEFINE x == Head(todo)
  <2>1. Fits(x, K, Apart(setup)) /\ x.op = "genFixPath" /\ x.on = Arg
    BY <1>1 DEF At, Arg
  <2> HIDE DEF x
  <2>2. x.op \in CallOps \ {"switchStorage", "switchNetwork", "getIpConfig"}
    BY <2>1 DEF CallOps
  <2>3. /\ After(K, x, Apart(setup)) \in SUBSET K /\ "settled" \in After(K, x, Apart(setup))
        /\ MayReset(K, x) => After(K, x, Apart(setup)) \in SUBSET (Tokens \ Away(Apart(setup)))
        /\ ~MayReset(K, x) => x.on = "mc1" /\ "mc1free" \in After(K, x, Apart(setup))
        /\ x.on \in Pair => After(K, x, Apart(setup)) \cap Pair = {}
    BY <2>1, <2>2, AfterCalls
  <2> QED
    BY <2>1, <2>3 DEF x
<1>3. Arg \in Names
  BY DEF At, KnownSteps, Steps, Arg
<1> HIDE DEF D
<1>4. MayReset(K, Head(todo)) => Leads(body, D, D, setup)
  BY <1>2, <1>3, FixPath
<1>5. ~MayReset(K, Head(todo)) => Leads(body, D, D, setup)
  <2>1. D \in SUBSET Tokens
    BY <1>2
  <2>2. "mc1free" \in D => Leads(genFixPath("mc1"), D, D, setup)
    BY <1>2, <2>1, FixPathMc1
  <2> QED
    BY <1>2, <2>2
<1> HIDE DEF body
<1>6. Leads(body, D, After(K, Head(todo), Apart(setup)), setup)
  BY <1>4, <1>5 DEF D
<1> QED
  BY <1>1, <1>2, <1>6, Calling

(* loadDeviceStackForPath. *)
LEMMA DeviceReadyStep ==
  ASSUME NEW K \in SUBSET Tokens, At(K), Safe, DeviceReady, setup' = setup
  PROVE  IndInv'
<1> DEFINE D == After(K, Head(todo), Apart(setup))
           body == loadDeviceStackForPath(Arg)
<1>1. Then(body) /\ Untouched /\ Head(todo).op = "deviceReady"
  BY DEF DeviceReady, Untouched, modes, caches, Now
<1>2. /\ D \in SUBSET K /\ "settled" \in D /\ D \in SUBSET (Tokens \ Away(Apart(setup)))
      /\ Arg \in Pair => D \cap Pair = {}
      /\ Arg \in {"host", "udpfs"} => D \cap NetTokens = {}
      /\ "cached" \in K => "cached" \in D
  BY <1>1, AfterCalls DEF At, CallOps, MayReset, Arg
<1>3. Arg \in Names /\ (Arg = "udpfs" => "cached" \in K \/ {"still", "mc1free"} \subseteq K) /\ "settled" \in K
  BY <1>1 DEF At, KnownSteps, Steps, Arg, Fits, CallOps
<1> HIDE DEF D
<1>4. CASE Arg = "udpfs" /\ "cached" \notin K
  <2>1. K \in SUBSET K /\ D \in SUBSET (K \ NetTokens)
    BY <1>2, <1>4
  <2>2. Leads(loadDeviceStackForPath("udpfs"), K, K \ NetTokens, setup)
    BY <1>3, <1>4, BootUdpfs
  <2>3. Leads(body, K, K \ NetTokens, setup)
    BY <1>4, <2>2
  <2> HIDE DEF body
  <2>4. Leads(body, K, D, setup)
    BY <2>1, <2>3, Weaker
  <2>5. Leads(body, K, After(K, Head(todo), Apart(setup)), setup)
    BY <2>4 DEF D
  <2> QED
    BY <1>1, <2>1, <2>5, Calling
<1>5. CASE ~(Arg = "udpfs" /\ "cached" \notin K)
  <2>1. Leads(body, D, D, setup)
    BY <1>2, <1>3, <1>5, DeviceStacks
  <2> HIDE DEF body
  <2>2. Leads(body, D, After(K, Head(todo), Apart(setup)), setup)
    BY <2>1 DEF D
  <2> QED
    BY <1>1, <1>2, <2>2, Calling
<1> QED
  BY <1>4, <1>5

(* The configuration is cached, whether or not it was found. *)
LEMMA GetIpConfigStep ==
  ASSUME NEW K \in SUBSET Tokens, At(K), Safe, GetIpConfig, setup' = setup
  PROVE  IndInv'
<1> DEFINE x == Head(todo)
<1>1. /\ x.op = "getIpConfig" /\ ipCached' = TRUE
      /\ UNCHANGED <<setup, armed, storage, net, resident, have, block, parties>>
      /\ \/ Return /\ ipCached
         \/ Then(<<>>) \/ Then(<<On("genFixPath", "mc1")>>)
  BY DEF GetIpConfig, modes, caches, Now, When
<1>2. Safe'
  BY <1>1, StillSafe DEF modes
<1>3. "settled" \in K /\ Fits(x, K, Apart(setup))
  BY <1>1 DEF At, Fits, CallOps
<1> HIDE DEF x
<1>0. PICK D \in SUBSET Tokens : D = After(K, x, Apart(setup))
  BY DEF After
<1>4. /\ D \in SUBSET Tokens /\ "settled" \in D /\ D \subseteq K \cup {"cached"}
      /\ "mc1free" \in K => "mc1free" \in D
      /\ "mc1free" \notin K /\ "cached" \notin K => D \in SUBSET (Tokens \ Away(Apart(setup)))
  <2>1. ~Loses("settled", K, x, Apart(setup)) /\ ("mc1free" \in K => ~Loses("mc1free", K, x, Apart(setup)))
    BY <1>1 DEF Loses, MayReset, Away, ResetLoses, Pair
  <2>2. ASSUME "mc1free" \notin K, "cached" \notin K
        PROVE  \A k \in Away(Apart(setup)) : Loses(k, K, x, Apart(setup)) /\ ~Gives(k, x, Apart(setup))
    BY <1>1, <2>2 DEF Loses, MayReset, CallOps, Gives, Away, ResetLoses, Pair
  <2>3. \A k \in Tokens : Gives(k, x, Apart(setup)) => k = "cached"
    BY <1>1 DEF Gives
  <2> QED
    BY <1>0, <1>3, <2>1, <2>2, <2>3 DEF After, Tokens
<1>5. Holds(D)'
  BY <1>1, <1>4 DEF At, Holds, KbdApart, RebootWorks, Networks, KbdFile, KbdMap, Flaky
<1>6. Return => TodoInv'
  BY <1>0, <1>1, <1>4, <1>5, Done DEF x
<1>7. Then(<<>>) => TodoInv'
  <2>1. Leads(<<>>, D, After(K, Head(todo), Apart(setup)), setup)
    BY <1>0, <1>4, Nothing DEF x
  <2> QED
    BY <1>1, <1>4, <1>5, <2>1, Replaced
<1>8. Then(<<On("genFixPath", "mc1")>>) /\ ~(ipCached /\ Return) => TodoInv'
  <2>1. CASE "mc1free" \in K \/ "cached" \notin K
    <3>1. On("genFixPath", "mc1") \in Quiet(D, setup)
      <4>1. "mc1free" \in D => On("genFixPath", "mc1") \in Quiet(D, setup)
        BY <1>4, ConfigKnown
      <4>2. "mc1" \in Names /\ "mc1" \notin Pair
        BY NamesOf DEF Devices, Pair
      <4>3. D \in SUBSET (Tokens \ Away(Apart(setup))) => On("genFixPath", "mc1") \in Quiet(D, setup)
        BY <1>4, <4>2, Calls
      <4> QED
        BY <1>4, <2>1, <4>1, <4>3
    <3>2. <<On("genFixPath", "mc1")>> \in Seq(Quiet(D, setup))
      BY <3>1
    <3>3. Leads(<<On("genFixPath", "mc1")>>, D, D, setup)
      BY <1>4, <3>2, Steady
    <3>4. Leads(<<On("genFixPath", "mc1")>>, D, After(K, Head(todo), Apart(setup)), setup)
      BY <1>0, <3>3 DEF x
    <3> QED
      BY <1>1, <1>4, <1>5, <3>4, Replaced
  <2>2. CASE "cached" \in K
    <3>1. ipCached
      BY <2>2 DEF At, Holds
    <3> QED
      BY <3>1 DEF GetIpConfig
  <2> QED
    BY <2>1, <2>2
<1> QED
  BY <1>1, <1>2, <1>6, <1>7, <1>8 DEF IndInv

(* MMCE and MX4SIO: when no reset is needed the other one is not there. *)
LEMMA SwitchStorageStep ==
  ASSUME NEW K \in SUBSET Tokens, At(K), Safe, SwitchStorageDriverStack, setup' = setup
  PROVE  IndInv'
<1> DEFINE x == Head(todo)
           body == When(storage \notin {Arg, "default"}, resetRuntimeDeviceState)
<1>1. Then(body) /\ Untouched /\ x.op = "switchStorage" /\ x.on = Arg
  BY DEF SwitchStorageDriverStack, Untouched, modes, caches, Now, Arg
<1>2. Safe'
  BY <1>1, StillSafe DEF Untouched, modes
<1>3. "settled" \in K /\ Arg \in Pair
  BY <1>1 DEF At, Fits, CallOps, KnownSteps, Known
<1> HIDE DEF x
<1>0. PICK D \in SUBSET Tokens : D = After(K, x, Apart(setup))
  BY DEF After
<1>4. /\ D \in SUBSET Tokens
      /\ D \subseteq (K \ (Away(Apart(setup)) \cup {Other(Arg)})) \cup (IF Apart(setup) THEN {Arg} ELSE {})
  <2>1. \A k \in Away(Apart(setup)) \cup {Other(Arg)} : Loses(k, K, x, Apart(setup))
    BY <1>1 DEF Loses, MayReset, CallOps
  <2>2. \A k \in Tokens : Gives(k, x, Apart(setup)) => Apart(setup) /\ k = Arg
    BY <1>1 DEF Gives
  <2> QED
    BY <1>0, <2>1, <2>2 DEF After
<1>5. CASE storage \in {Arg, "default"}
  <2>1. Holds(D)'
    <3>1. Holds(D)
      BY <1>3, <1>4, <1>5 DEF At, Holds, Pair, Other
    <3>2. D \in SUBSET D
      OBVIOUS
    <3> QED
      BY <1>1, <1>4, <3>1, <3>2, StillHolds DEF Untouched
  <2>2. Leads(body, D, D, setup)
    BY <1>4, <1>5, Nothing DEF When
  <2> HIDE DEF body
  <2>3. Leads(body, D, After(K, Head(todo), Apart(setup)), setup)
    BY <1>0, <2>2 DEF x
  <2> QED
    BY <1>1, <1>2, <1>4, <2>1, <2>3, Replaced DEF Untouched, IndInv
<1>6. CASE storage \notin {Arg, "default"}
  <2> DEFINE C == K \ Away(Apart(setup))
             E == (C \ Away(Apart(setup))) \cup {"settled", "toEth", "toUdpfs"} \cup (IF Apart(setup) THEN Pair ELSE {})
  <2>1. C \in SUBSET K /\ C \in SUBSET Tokens /\ D \in SUBSET E
    BY <1>3, <1>4
  <2>2. Leads(resetRuntimeDeviceState, C, E, setup)
    BY <2>1, ResetStack
  <2>3. C \in SUBSET C
    OBVIOUS
  <2> HIDE DEF C, E
  <2>4. Leads(resetRuntimeDeviceState, C, D, setup)
    BY <2>1, <2>2, <2>3, Weaker
  <2>5. Leads(body, C, After(K, Head(todo), Apart(setup)), setup)
    BY <1>0, <1>6, <2>4 DEF When, x
  <2> HIDE DEF body
  <2> QED
    BY <1>1, <2>1, <2>5, Calling
<1> QED
  BY <1>5, <1>6

(* The tokens behind a change of the network's mode. *)
LEMMA AfterNetwork ==
  ASSUME NEW u, NEW K \in SUBSET Tokens, NEW x, NEW a \in BothNetworks, x.on = a,
         x.op \in {"switchNetwork", "networkMode"}
  PROVE  /\ After(K, x, Apart(u)) \in SUBSET Tokens
         /\ After(K, x, Apart(u)) \subseteq (K \ NetTokens) \cup {a}
         /\ x.op = "switchNetwork" /\ "still" \notin K => After(K, x, Apart(u)) \subseteq (K \ (NetTokens \cup Away(Apart(u)))) \cup {a}
<1>1. \A k \in Tokens : k \in NetTokens => Loses(k, K, x, Apart(u))
  BY DEF Loses
<1>2. \A k \in Tokens : Gives(k, x, Apart(u)) => k = a
  BY DEF Gives
<1>3. x.op = "switchNetwork" /\ "still" \notin K => \A k \in Away(Apart(u)) : Loses(k, K, x, Apart(u))
  BY DEF Loses, MayReset, CallOps
<1> QED
  BY <1>1, <1>2, <1>3 DEF After

(* The mode of the network is set: no module of the other one is there. *)
LEMMA NetworkSet ==
  ASSUME NEW K \in SUBSET Tokens, Holds(K), Safe, NEW a \in BothNetworks,
         UNCHANGED <<setup, armed, storage, resident, have, ipCached, block, parties>>,
         net' = a \/ (Networks # BothNetworks /\ net' = net),
         net' = net \/ net = "none" \/ To(a) \in K,
         NEW D \in SUBSET Tokens, D \subseteq (K \ NetTokens) \cup {a}
  PROVE  Safe' /\ Holds(D)'
<1>1. Holds(D)'
  <2>1. \A k \in D : k \in K \/ k = a
    OBVIOUS
  <2>2. "still" \notin D /\ "toEth" \notin D /\ "toUdpfs" \notin D
    BY DEF NetTokens, BothNetworks
  <2>3. "eth" \in D => a = "eth"
    BY DEF NetTokens
  <2>4. "udpfs" \in D => a = "udpfs"
    BY DEF NetTokens
  <2> QED
    BY <2>1, <2>2, <2>3, <2>4 DEF Holds, KbdApart, RebootWorks, Networks, KbdFile, KbdMap, Flaky, BothNetworks
<1>2. ModesProven'
  BY DEF Safe, ModesProven, BothNetworks
<1>3. Armed'
  BY DEF Safe, Armed
<1>4. Exclusive'
  <2>1. RebootWorks /\ Networks = BothNetworks /\ net' # net =>
           /\ resident \cap EthModules # {} => a = "eth"
           /\ resident \cap UdpfsModules # {} => a = "udpfs"
    BY DEF Safe, Exclusive, ModesProven, Holds, To, BothNetworks
  <2> QED
    BY <2>1 DEF Safe, Exclusive, KbdApart, RebootWorks, Networks, KbdFile, KbdMap, Flaky
<1> QED
  BY <1>1, <1>2, <1>3, <1>4 DEF Safe

(* The mode is set behind the reset. *)
LEMMA NetworkModeStep ==
  ASSUME NEW K \in SUBSET Tokens, At(K), Safe, NetworkMode, setup' = setup
  PROVE  IndInv'
<1> DEFINE x == Head(todo)
<1>1. /\ x.op = "networkMode" /\ x.on = Arg /\ Return /\ net' = Arg
      /\ UNCHANGED <<setup, armed, storage, resident, have, ipCached, block, parties>>
  BY DEF NetworkMode, caches, Now, Arg
<1>2. Arg \in BothNetworks /\ To(Arg) \in K /\ Holds(K)
  BY <1>1 DEF At, Fits, KnownSteps, Known
<1> HIDE DEF x
<1>0. PICK D \in SUBSET Tokens : D = After(K, x, Apart(setup))
  BY DEF After
<1>3. D \in SUBSET Tokens /\ D \subseteq (K \ NetTokens) \cup {Arg}
  BY <1>0, <1>1, <1>2, AfterNetwork
<1>4. Safe' /\ Holds(D)'
  <2>1. PICK a \in BothNetworks : a = Arg
    BY <1>2
  <2> QED
    BY <1>1, <1>2, <1>3, <2>1, NetworkSet
<1> QED
  BY <1>0, <1>1, <1>3, <1>4, Done DEF IndInv, x

(* switchNetworkStack, with and without the reset. *)
LEMMA SwitchNetworkStep ==
  ASSUME NEW K \in SUBSET Tokens, At(K), Safe, SwitchNetworkStack, setup' = setup
  PROVE  IndInv'
<1> DEFINE x == Head(todo)
           body == resetRuntimeDeviceState \o <<On("networkMode", Arg)>>
<1>1. /\ x.op = "switchNetwork" /\ x.on = Arg
      /\ UNCHANGED <<setup, armed, storage, resident, have, ipCached, block, parties>>
      /\ \/ Return /\ net' = net /\ (Networks # BothNetworks \/ net = Arg)
         \/ Return /\ net' = Arg /\ net = "none"
         \/ Then(body) /\ net' = net /\ net # "none"
  BY DEF SwitchNetworkStack, caches, Now, Arg, BothNetworks
<1>2. Arg \in BothNetworks /\ Holds(K) /\ "settled" \in K
  BY <1>1 DEF At, Fits, KnownSteps, Known, CallOps
<1> HIDE DEF x
<1>0. PICK D \in SUBSET Tokens : D = After(K, x, Apart(setup))
  BY DEF After
<1>3. /\ D \in SUBSET Tokens /\ D \subseteq (K \ NetTokens) \cup {Arg}
      /\ "still" \notin K => D \subseteq (K \ (NetTokens \cup Away(Apart(setup)))) \cup {Arg}
  BY <1>0, <1>1, <1>2, AfterNetwork
<1>4. ASSUME Return, (net' = net /\ (Networks # BothNetworks \/ net = Arg)) \/ (net' = Arg /\ net = "none")
      PROVE  IndInv'
  <2>1. PICK a \in BothNetworks : a = Arg
    BY <1>2
  <2>2. Safe' /\ Holds(D)'
    BY <1>1, <1>2, <1>3, <1>4, <2>1, NetworkSet
  <2> QED
    BY <1>0, <1>1, <1>3, <1>4, <2>2, Done DEF IndInv, x
<1>5. ASSUME Then(body), net' = net, net # "none"
      PROVE  IndInv'
  <2> DEFINE C == K \ Away(Apart(setup))
             E == (C \ Away(Apart(setup))) \cup {"settled", "toEth", "toUdpfs"} \cup (IF Apart(setup) THEN Pair ELSE {})
             n == On("networkMode", Arg)
  <2>1. "still" \notin K
    BY <1>2, <1>5 DEF Holds
  <2>2. /\ C \in SUBSET K /\ C \in SUBSET Tokens /\ E \in SUBSET Tokens /\ To(Arg) \in E
        /\ D \subseteq (E \ NetTokens) \cup {Arg}
    BY <1>2, <1>3, <2>1 DEF Tokens, Pair, To
  <2>3. Leads(resetRuntimeDeviceState, C, E, setup)
    BY <2>2, ResetStack
  <2> HIDE DEF C, E
  <2>4. n \in Steps /\ n.op = "networkMode" /\ n.on = Arg
    <3>1. Arg \in Names /\ {} \in SUBSET Names /\ "networkMode" \in Ops
      BY <1>2, NamesOf DEF BothNetworks, Ops
    <3> QED
      BY <3>1, Parts DEF On
  <2> HIDE DEF n
  <2>5. n \in KnownSteps(setup) /\ Fits(n, E, Apart(setup))
    BY <1>2, <2>2, <2>4 DEF KnownSteps, Known, Fits, CallOps
  <2>6. D \subseteq After(E, n, Apart(setup))
    <3>1. \A k \in E \ NetTokens : ~Loses(k, E, n, Apart(setup))
      BY <2>4 DEF Loses, MayReset, CallOps
    <3>2. Gives(Arg, n, Apart(setup)) /\ Arg \in Tokens
      BY <1>2, <2>4 DEF Gives, Tokens, BothNetworks
    <3> QED
      BY <2>2, <3>1, <3>2 DEF After
  <2>7. Leads(<<n>>, E, D, setup)
    BY <1>3, <2>2, <2>5, <2>6, One
  <2>8. Leads(body, C, D, setup)
    BY <2>3, <2>7, Behind DEF n
  <2> HIDE DEF body
  <2>9. Leads(body, C, After(K, Head(todo), Apart(setup)), setup)
    BY <1>0, <2>8 DEF x
  <2> QED
    BY <1>1, <1>5, <2>2, <2>9, Calling DEF Untouched
<1> HIDE DEF body
<1> QED
  BY <1>1, <1>4, <1>5
-----------------------------------------------------------------------------
(* The steps that load, reset or remember.                                 *)

(* The tokens behind such a step. *)
LEMMA AfterPlain ==
  ASSUME NEW u, NEW K \in SUBSET Tokens, NEW x,
         x.op \notin CallOps \cup {"Reset", "signerReboot", "networkMode", "storageMode"}
  PROVE  /\ After(K, x, Apart(u)) \subseteq K \cup (IF x.op = "setupPowerOff" THEN {"armed"} ELSE {})
         /\ x.op = "load" /\ x.on \in Pair => After(K, x, Apart(u)) \cap {"settled", "mc1free", Other(x.on)} = {}
         /\ x.op # "load" => K \subseteq After(K, x, Apart(u))
<1>1. \A k \in Tokens : Gives(k, x, Apart(u)) => x.op = "setupPowerOff" /\ k = "armed"
  BY DEF Gives, CallOps
<1>2. x.op = "load" /\ x.on \in Pair => \A k \in {"settled", "mc1free", Other(x.on)} : Loses(k, K, x, Apart(u))
  BY DEF Loses
<1>3. x.op # "load" => \A k \in K : ~Loses(k, K, x, Apart(u))
  BY DEF Loses, MayReset, CallOps
<1> QED
  BY <1>1, <1>2, <1>3 DEF After

(* Modules that no token and no mode is about. *)
Beside == {"basic", "dev9", "poweroff", "ps2kbd", "filexio", "mcrpc", "dev9tried", "vmcman", "xfrom", "hdl_info",
           "NetModules", "signer"}
(* Where only such modules start, or are given up. *)
LEMMA StartedBeside ==
  ASSUME NEW K \in SUBSET Tokens, NEW D \in SUBSET K, Holds(K), Safe,
         resident \subseteq resident', resident' \subseteq resident \cup Beside,
         have \subseteq have' \cup Beside, have' \subseteq have \cup Beside,
         UNCHANGED <<setup, storage, net, block, parties, ipCached>>, armed => armed', armed' = armed \/ armed' = TRUE
  PROVE  Safe' /\ Holds(D)'
<1>1. Beside \cap (Checked \cup Pair \cup DiskModules \cup EthModules \cup UdpfsModules \cup {"HDD", "DVRP", "donePowerOff"}) = {}
  BY DEF Beside, Checked, Pair, DiskModules, EthModules, UdpfsModules
<1>2. \A m \in Checked \cup Pair \cup DiskModules \cup EthModules \cup UdpfsModules \cup {"HDD", "DVRP", "donePowerOff"} :
         (m \in resident' <=> m \in resident) /\ (m \in have' <=> m \in have)
  BY <1>1
<1>3. ModesProven'
  <2>1. {"ps2hdd", "ps2fs", "dvrdrv", "dvrfile", "mmce", "mx4sio", "ata_bd"} \subseteq Checked
    BY DEF Checked
  <2> QED
    BY <1>2, <2>1 DEF Safe, ModesProven
<1>4. Armed'
  BY <1>2 DEF Safe, Armed
<1>5. Exclusive'
  BY <1>2 DEF Safe, Exclusive, KbdApart, RebootWorks, Networks, KbdFile, KbdMap, Flaky
<1>6. Holds(D)'
  BY <1>2 DEF Holds, KbdApart, RebootWorks, Networks, KbdFile, KbdMap, Flaky, Pair
<1> QED
  BY <1>3, <1>4, <1>5, <1>6 DEF Safe

(* A step that starts only such modules. *)
LEMMA BesideStep ==
  ASSUME NEW K \in SUBSET Tokens, At(K), Safe, Return,
         Head(todo).op \in {"load", "core", "dev9", "flag", "vmcmanProbe", "loadExternal", "use"},
         resident \subseteq resident', resident' \subseteq resident \cup Beside,
         have \subseteq have' \cup Beside, have' \subseteq have \cup Beside,
         UNCHANGED <<setup, storage, net, block, parties, ipCached, armed>>
  PROVE  IndInv'
<1> DEFINE x == Head(todo)
<1>1. x.op \notin CallOps \cup {"Reset", "signerReboot", "networkMode", "storageMode", "setupPowerOff"}
  BY DEF CallOps
<1> HIDE DEF x
<1>2. PICK D \in SUBSET Tokens : D = After(K, x, Apart(setup))
  BY DEF After
<1>3. D \subseteq K
  BY <1>1, <1>2, AfterPlain
<1>4. Safe' /\ Holds(D)'
  BY <1>3, StartedBeside DEF At
<1> QED
  BY <1>2, <1>4, Done DEF IndInv, x

(* ensureCoreIoStackReady. *)
LEMMA EnsureCoreStep ==
  ASSUME NEW K \in SUBSET Tokens, At(K), Safe, EnsureCore, setup' = setup
  PROVE  IndInv'
<1>1. /\ resident \subseteq resident' /\ resident' \subseteq resident \cup Beside
      /\ have \subseteq have' \cup Beside /\ have' \subseteq have \cup Beside
      /\ UNCHANGED <<setup, storage, net, block, parties, ipCached, armed>> /\ Return /\ Head(todo).op = "core"
  BY DEF EnsureCore, SifExecModule, Beside, modes, caches, Now
<1> QED
  BY <1>1, BesideStep

(* load_ps2dev9. *)
LEMMA LoadDev9Step ==
  ASSUME NEW K \in SUBSET Tokens, At(K), Safe, LoadDev9, setup' = setup
  PROVE  IndInv'
<1>1. /\ resident \subseteq resident' /\ resident' \subseteq resident \cup Beside
      /\ have \subseteq have' \cup Beside /\ have' \subseteq have \cup Beside
      /\ UNCHANGED <<setup, storage, net, block, parties, ipCached, armed>> /\ Return /\ Head(todo).op = "dev9"
  BY DEF LoadDev9, SifExecModule, Beside, modes, caches, Now
<1> QED
  BY <1>1, BesideStep

(* The probe of load_vmcman. *)
LEMMA VmcmanProbeStep ==
  ASSUME NEW K \in SUBSET Tokens, At(K), Safe, VmcmanProbe, setup' = setup
  PROVE  IndInv'
<1>1. /\ resident \subseteq resident' /\ resident' \subseteq resident \cup Beside
      /\ have \subseteq have' \cup Beside /\ have' \subseteq have \cup Beside
      /\ UNCHANGED <<setup, storage, net, block, parties, ipCached, armed>> /\ Return /\ Head(todo).op = "vmcmanProbe"
  BY DEF VmcmanProbe, Beside, modes, caches, Now
<1> QED
  BY <1>1, BesideStep

(* The keyboard's driver. *)
LEMMA LoadExternalStep ==
  ASSUME NEW K \in SUBSET Tokens, At(K), Safe, LoadExternalModule, setup' = setup
  PROVE  IndInv'
<1>1. /\ resident \subseteq resident' /\ resident' \subseteq resident \cup Beside
      /\ have \subseteq have' \cup Beside /\ have' \subseteq have \cup Beside
      /\ UNCHANGED <<setup, storage, net, block, parties, ipCached, armed>> /\ Return /\ Head(todo).op = "loadExternal"
  BY DEF LoadExternalModule, SifExecModule, Beside, modes, caches, Now
<1> QED
  BY <1>1, BesideStep

(* The path is used. *)
LEMMA UsePathStep ==
  ASSUME NEW K \in SUBSET Tokens, At(K), Safe, UsePath, setup' = setup
  PROVE  IndInv'
<1>1. /\ resident \subseteq resident' /\ resident' \subseteq resident \cup Beside
      /\ have \subseteq have' \cup Beside /\ have' \subseteq have \cup Beside
      /\ UNCHANGED <<setup, storage, net, block, parties, ipCached, armed>> /\ Return /\ Head(todo).op = "use"
  BY DEF UsePath, Beside, modes, caches, Now
<1> QED
  BY <1>1, BesideStep

(* A flag of a stack says that its modules are there. *)
LEMMA SetFlagStep ==
  ASSUME NEW K \in SUBSET Tokens, At(K), Safe, SetFlag, setup' = setup
  PROVE  IndInv'
<1> DEFINE x == Head(todo)
<1>1. /\ x.op = "flag" /\ Return /\ have' = IF x.needs \subseteq have THEN have \cup {x.on} ELSE have
      /\ UNCHANGED <<setup, storage, net, block, parties, ipCached, armed, resident>>
  BY DEF SetFlag, modes, caches, Now, Needed, Arg
<1>2. /\ \/ x.on \in {"donePowerOff", "NetModules", "signer"}
         \/ x.on = "HDD" /\ x.needs = {"ps2hdd", "ps2fs"}
         \/ x.on = "DVRP" /\ x.needs = {"dvrdrv", "dvrfile"}
      /\ x.on = "donePowerOff" => "armed" \in K
  BY <1>1 DEF At, KnownSteps, Known, Fits
<1> HIDE DEF x
<1>3. PICK D \in SUBSET Tokens : D = After(K, x, Apart(setup))
  BY DEF After
<1>4. D \subseteq K
  BY <1>1, <1>3, AfterPlain DEF CallOps
<1>5. {"ps2hdd", "ps2fs", "dvrdrv", "dvrfile"} \subseteq Checked /\ x.on \notin Checked \cup Pair
  BY <1>2 DEF Checked, Pair, EthModules, UdpfsModules
<1>6. Holds(D)'
  BY <1>1, <1>4, <1>5 DEF At, Holds, KbdApart, RebootWorks, Networks, KbdFile, KbdMap, Flaky, Pair
<1>7. ModesProven'
  BY <1>1, <1>2, <1>5 DEF Safe, ModesProven
<1>8. Armed'
  BY <1>1, <1>2 DEF Safe, Armed, At, Holds
<1>9. Exclusive'
  BY <1>1, <1>5 DEF Safe, Exclusive, KbdApart, RebootWorks, Networks, KbdFile, KbdMap, Flaky
<1> QED
  BY <1>1, <1>3, <1>6, <1>7, <1>8, <1>9, Done DEF IndInv, Safe, x

(* The handler is registered before DEV9 is loaded, or was registered. *)
LEMMA SetupPowerOffStep ==
  ASSUME NEW K \in SUBSET Tokens, At(K), Safe, SetupPowerOff, setup' = setup
  PROVE  IndInv'
<1> DEFINE x == Head(todo)
           body == <<Do("dev9"), Flag("donePowerOff", {})>>
<1>1. /\ x.op = "setupPowerOff" /\ armed' /\ (armed' = armed \/ armed' = TRUE)
      /\ UNCHANGED <<setup, storage, net, block, parties, ipCached>>
      /\ resident \subseteq resident' /\ resident' \subseteq resident \cup Beside
      /\ have \subseteq have' \cup Beside /\ have' \subseteq have \cup Beside
      /\ Return \/ Then(body)
  <2>1. CASE "donePowerOff" \in have
    <3>1. armed
      BY <2>1 DEF Safe, Armed
    <3> QED
      BY <2>1, <3>1 DEF SetupPowerOff, modes, caches, Now, Beside
  <2>2. CASE "donePowerOff" \notin have
    BY <2>2 DEF SetupPowerOff, SifExecModule, modes, caches, Now, Beside
  <2> QED
    BY <2>1, <2>2
<1> HIDE DEF x
<1>2. PICK D \in SUBSET Tokens : D = After(K, x, Apart(setup))
  BY DEF After
<1>3. D \subseteq K \cup {"armed"} /\ K \subseteq D
  BY <1>1, <1>2, AfterPlain DEF CallOps
<1>4. Safe' /\ Holds(K)'
  <2>1. K \in SUBSET K
    OBVIOUS
  <2> QED
    BY <1>1, <2>1, StartedBeside DEF At
<1>5. Holds(D)'
  BY <1>1, <1>3, <1>4 DEF Holds
<1>6. "armed" \in D
  <2>1. Gives("armed", x, Apart(setup)) /\ "armed" \in Tokens
    BY <1>1 DEF Gives, Tokens
  <2> QED
    BY <1>2, <2>1 DEF After
<1>7. Leads(body, D, D, setup)
  <2>1. Do("dev9") \in Quiet(D, setup) /\ Flag("donePowerOff", {}) \in Quiet(D, setup)
    BY <1>6, NamesOf, Plain, Guarded DEF Do
  <2>2. body \in Seq(Quiet(D, setup))
    BY <2>1
  <2> QED
    BY <2>2, Steady
<1> HIDE DEF body
<1>8. Leads(body, D, After(K, Head(todo), Apart(setup)), setup)
  BY <1>2, <1>7 DEF x
<1>9. CASE Return
  BY <1>1, <1>2, <1>4, <1>5, <1>9, Done DEF IndInv, x
<1>10. CASE Then(body)
  BY <1>1, <1>4, <1>5, <1>8, <1>10, Replaced DEF IndInv
<1> QED
  BY <1>1, <1>9, <1>10

(* A module is started where its token says that it may be. *)
LEMMA LoadModuleStep ==
  ASSUME NEW K \in SUBSET Tokens, At(K), Safe, LoadModule, setup' = setup
  PROVE  IndInv'
<1> DEFINE x == Head(todo)
<1>1. PICK m \in Names : m = x.on
  BY DEF At, KnownSteps, Steps
<1>2. /\ x.op = "load" /\ Return
      /\ UNCHANGED <<setup, storage, net, block, parties, ipCached, armed>>
      /\ resident \subseteq resident' /\ resident' \subseteq resident \cup {m}
      /\ have \subseteq have' /\ have' \subseteq have \cup {m}
      /\ m \in have' \ have /\ m \notin {"xfrom", "hdl_info", "vmcman"} => m \in resident'
      /\ m \in resident' /\ m \notin {"xfrom", "hdl_info", "vmcman"} => m \in resident \/ m \in have'
  <2>1. Now("load") /\ Return /\ UNCHANGED <<setup, storage, net, block, parties, ipCached, armed>>
    BY DEF LoadModule, modes, caches
  <2>2. CASE Arg \notin have /\ Needed
    <3>1. PICK o \in Outcomes(m) : SifExecModule(m, o) /\ have' = IF o \in Accepted(m) THEN have \cup {m} ELSE have
      BY <1>1, <2>2 DEF LoadModule, Arg
    <3>2. m \notin {"xfrom", "hdl_info", "vmcman"} => Accepted(m) = {"resident"}
      BY DEF Accepted, Unchecked
    <3> QED
      BY <2>1, <3>1, <3>2 DEF SifExecModule, Now
  <2>3. CASE ~(Arg \notin have /\ Needed)
    BY <2>1, <2>3 DEF LoadModule, Now
  <2> QED
    BY <2>2, <2>3
<1>3. /\ m \in Checked \cup {"vmcman", "xfrom", "hdl_info"}
      /\ m \in DiskModules => "armed" \in K
      /\ m \in Pair /\ Apart(setup) => m \in K
      /\ m \in EthModules => "eth" \in K /\ "eth" \in setup.networks
      /\ m \in UdpfsModules => "udpfs" \in K /\ "udpfs" \in setup.networks
  BY <1>1, <1>2 DEF At, KnownSteps, Known, Fits
<1> HIDE DEF x
<1>4. PICK D \in SUBSET Tokens : D = After(K, x, Apart(setup))
  BY DEF After
<1>5. D \subseteq K /\ (m \in Pair => D \cap {"settled", "mc1free", Other(m)} = {})
  BY <1>1, <1>2, <1>4, AfterPlain DEF CallOps
<1>6. Holds(K)
  BY DEF At
<1>7. Holds(D)'
  <2>1. m \in Pair => m \in {"mmce", "mx4sio"} /\ (m = "mmce" => "mx4sio" \notin D) /\ (m = "mx4sio" => "mmce" \notin D)
    BY <1>5 DEF Pair, Other
  <2>2. m \notin Pair => \A a \in Pair : (a \in resident' <=> a \in resident) /\ (a \in have' <=> a \in have)
    BY <1>2
  <2>3. CASE m \in Pair
    BY <1>2, <1>5, <1>6, <2>1, <2>3 DEF Holds, KbdApart, RebootWorks, Networks, KbdFile, KbdMap, Flaky, Pair
  <2>4. CASE m \notin Pair
    BY <1>2, <1>5, <1>6, <2>2, <2>4 DEF Holds, KbdApart, RebootWorks, Networks, KbdFile, KbdMap, Flaky, Pair
  <2> QED
    BY <2>3, <2>4
<1>8. {"xfrom", "hdl_info", "vmcman", "HDD", "DVRP", "donePowerOff"} \cap (Checked \cup DiskModules \cup Pair) = {}
  BY DEF Checked, DiskModules, Pair, EthModules, UdpfsModules
<1>9. ModesProven'
  <2>1. m \notin {"HDD", "DVRP"}
    BY <1>3, <1>8
  <2> QED
    BY <1>2, <1>3, <1>8, <2>1 DEF Safe, ModesProven
<1>10. Armed'
  <2>1. m # "donePowerOff"
    BY <1>3, <1>8
  <2>2. m \in DiskModules => armed
    BY <1>3, <1>6 DEF Holds
  <2> QED
    BY <1>2, <2>1, <2>2 DEF Safe, Armed
<1>11. Exclusive'
  <2>1. RebootWorks => resident' \cap Pair \subseteq have'
    BY <1>2, <1>8 DEF Safe, Exclusive
  <2>2. KbdApart /\ RebootWorks => ~(Pair \subseteq resident')
    <3>1. KbdApart = Apart(setup)
      BY DEF KbdApart, Apart, KbdFile, KbdMap, Pair
    <3>2. KbdApart /\ RebootWorks /\ m \in Pair => Other(m) \notin resident
      BY <1>3, <1>6, <3>1 DEF Holds, Pair, Other
    <3> QED
      BY <1>2, <3>2 DEF Safe, Exclusive, Pair, Other
  <2>3. EthModules \cap UdpfsModules = {}
    BY DEF EthModules, UdpfsModules
  <2>4. /\ resident' \cap EthModules # {} => "eth" \in Networks
        /\ resident' \cap UdpfsModules # {} => "udpfs" \in Networks
    BY <1>2, <1>3 DEF Safe, Exclusive, Networks
  <2>5. RebootWorks /\ Networks = BothNetworks =>
           /\ resident' \cap EthModules # {} => net = "eth"
           /\ resident' \cap UdpfsModules # {} => net = "udpfs"
    BY <1>2, <1>3, <1>6 DEF Safe, Exclusive, Holds
  <2> QED
    BY <1>2, <2>1, <2>2, <2>4, <2>5 DEF Exclusive, KbdApart, RebootWorks, Networks, KbdFile, KbdMap, Flaky
<1>12. setup' \in Setups
  BY <1>2 DEF Safe
<1> QED
  BY <1>2, <1>4, <1>7, <1>9, <1>10, <1>11, <1>12, Done DEF IndInv, Safe, x

(* The mode names what is resident. *)
LEMMA StorageModeStep ==
  ASSUME NEW K \in SUBSET Tokens, At(K), Safe, StorageMode, setup' = setup
  PROVE  IndInv'
<1> DEFINE x == Head(todo)
<1>1. PICK a \in Pair : a = x.on
  BY DEF At, KnownSteps, Known, StorageMode, Now
<1>2. /\ x.op = "storageMode" /\ Return /\ storage' = IF a \in have THEN a ELSE storage
      /\ UNCHANGED <<setup, resident, have, net, block, parties, ipCached, armed>>
  BY <1>1 DEF StorageMode, caches, Now, Arg
<1>3. Holds(K) /\ (Apart(setup) => a \in K)
  BY <1>1, <1>2 DEF At, Fits
<1> HIDE DEF x
<1>4. PICK D \in SUBSET Tokens : D = After(K, x, Apart(setup))
  BY DEF After
<1>5. D \subseteq (K \ {Other(a), "mc1free"}) \cup {"settled"}
  <2>1. Loses(Other(a), K, x, Apart(setup)) /\ Loses("mc1free", K, x, Apart(setup))
    BY <1>1, <1>2 DEF Loses
  <2>2. \A k \in Tokens : Gives(k, x, Apart(setup)) => k = "settled"
    BY <1>2 DEF Gives
  <2>3. \A k \in {Other(a), "mc1free"} : ~Gives(k, x, Apart(setup))
    BY <2>2, <1>2 DEF Gives, Other
  <2> QED
    BY <1>4, <2>1, <2>2, <2>3 DEF After
<1>6. KbdApart = Apart(setup)
  BY DEF KbdApart, Apart, KbdFile, KbdMap, Pair
<1>7. Holds(D)'
  <2>1. KbdApart /\ RebootWorks => storage # Other(a) /\ Other(a) \notin resident
    BY <1>3, <1>6 DEF Holds, Pair, Other
  <2>2. KbdApart /\ RebootWorks => \A b \in Pair : b \in resident => storage' = b
    <3>1. RebootWorks /\ a \in resident => a \in have
      BY DEF Safe, Exclusive
    <3> QED
      BY <1>2, <2>1, <3>1 DEF Pair, Other
  <2>3. "mc1free" \notin D /\ Other(a) \notin D
    BY <1>5 DEF Other
  <2>4. KbdApart /\ RebootWorks => storage' # Other(a)
    BY <1>2, <2>1 DEF Pair, Other
  <2>5. \A k \in D : k = "settled" \/ k \in K
    BY <1>5
  <2> QED
    BY <1>2, <1>3, <2>1, <2>2, <2>3, <2>4, <2>5
       DEF Holds, KbdApart, RebootWorks, Networks, KbdFile, KbdMap, Flaky, Pair, Other
<1>8. ModesProven'
  <2>1. a \in have => a \in resident
    BY DEF Safe, ModesProven, Checked, Pair
  <2> QED
    BY <1>2, <2>1 DEF Safe, ModesProven, Pair
<1>9. Armed' /\ Exclusive'
  BY <1>2 DEF Safe, Armed, Exclusive, KbdApart, RebootWorks, Networks, KbdFile, KbdMap, Flaky
<1> QED
  BY <1>2, <1>4, <1>7, <1>8, <1>9, Done DEF IndInv, Safe, x

(* The mode of the block stack is set behind its driver. *)
LEMMA BlockModeStep ==
  ASSUME NEW K \in SUBSET Tokens, At(K), Safe, BlockMode, setup' = setup
  PROVE  IndInv'
<1> DEFINE x == Head(todo)
<1>1. /\ x.op = "blockMode" /\ Return /\ block' = IF x.needs \subseteq have THEN block \cup {x.on} ELSE block
      /\ UNCHANGED <<setup, resident, have, storage, net, parties, ipCached, armed>>
  BY DEF BlockMode, caches, Now, Arg, Needed
<1>2. (x.on = "ata" /\ x.needs = {"ata_bd"}) \/ (x.on = "hdd" /\ x.needs = {"HDD"})
  BY <1>1 DEF At, KnownSteps, Known
<1> HIDE DEF x
<1>3. PICK D \in SUBSET Tokens : D = After(K, x, Apart(setup))
  BY DEF After
<1>4. D \subseteq K /\ Holds(K)
  BY <1>1, <1>3, AfterPlain DEF CallOps, At
<1>5. Holds(D)'
  <2>1. D \in SUBSET K
    BY <1>4
  <2> QED
    BY <1>1, <1>4, <2>1, StillHolds
<1>6. ModesProven'
  BY <1>1, <1>2 DEF Safe, ModesProven, Checked
<1>7. Armed' /\ Exclusive'
  BY <1>1 DEF Safe, Armed, Exclusive, KbdApart, RebootWorks, Networks, KbdFile, KbdMap, Flaky
<1> QED
  BY <1>1, <1>3, <1>5, <1>6, <1>7, Done DEF IndInv, Safe, x

(* A partition list is cached behind its driver. *)
LEMMA PartyListStep ==
  ASSUME NEW K \in SUBSET Tokens, At(K), Safe, PartyList, setup' = setup
  PROVE  IndInv'
<1> DEFINE x == Head(todo)
<1>1. /\ x.op = "partyList" /\ Return /\ parties' = IF x.needs \subseteq have THEN parties \cup {x.on} ELSE parties
      /\ UNCHANGED <<setup, resident, have, storage, net, block, ipCached, armed>>
  BY DEF PartyList, modes, Now, Arg, Needed
<1>2. (x.on = "dvr" /\ x.needs = {"DVRP"}) \/ (x.on = "hdd" /\ x.needs = {"HDD"})
  BY <1>1 DEF At, KnownSteps, Known
<1> HIDE DEF x
<1>3. PICK D \in SUBSET Tokens : D = After(K, x, Apart(setup))
  BY DEF After
<1>4. D \subseteq K /\ Holds(K)
  BY <1>1, <1>3, AfterPlain DEF CallOps, At
<1>5. Holds(D)'
  <2>1. D \in SUBSET K
    BY <1>4
  <2> QED
    BY <1>1, <1>4, <2>1, StillHolds
<1>6. ModesProven'
  BY <1>1, <1>2 DEF Safe, ModesProven
<1>7. Armed' /\ Exclusive'
  BY <1>1 DEF Safe, Armed, Exclusive, KbdApart, RebootWorks, Networks, KbdFile, KbdMap, Flaky
<1> QED
  BY <1>1, <1>3, <1>5, <1>6, <1>7, Done DEF IndInv, Safe, x

(* A reset: the flags, the modes and the handler go with the modules. *)
LEMMA Forgotten ==
  ASSUME NEW K \in SUBSET Tokens, At(K), Safe, Head(todo).op \in {"Reset", "signerReboot"}, clearIopModuleState,
         UNCHANGED <<setup, ipCached>>,
         \/ resident' = {} /\ armed' = FALSE
         \/ ~RebootWorks /\ UNCHANGED <<resident, armed>>
  PROVE  /\ Safe'
         /\ \E D \in SUBSET Tokens : D = After(K, Head(todo), Apart(setup)) /\ Holds(D)'
<1> DEFINE x == Head(todo)
<1> HIDE DEF x
<1>0. x.op \in {"Reset", "signerReboot"}
  BY DEF x
<1>1. PICK D \in SUBSET Tokens : D = After(K, x, Apart(setup))
  BY DEF After
<1>2. D \cap ResetLoses = {} /\ ("cached" \in D => "cached" \in K)
  <2>1. \A k \in ResetLoses : Loses(k, K, x, Apart(setup)) /\ ~Gives(k, x, Apart(setup))
    BY <1>0 DEF Loses, Gives, ResetLoses, Pair
  <2>2. ~Gives("cached", x, Apart(setup))
    BY <1>0 DEF Gives, Pair
  <2> QED
    BY <1>1, <2>1, <2>2 DEF After
<1>3. have' = {} /\ storage' = "default" /\ block' = {} /\ net' = "none" /\ parties' = {}
  BY DEF clearIopModuleState
<1>4. Holds(D)'
  <2>1. "cached" \in D => ipCached
    BY <1>2 DEF At, Holds
  <2> QED
    BY <1>2, <1>3, <2>1 DEF Holds, ResetLoses, KbdApart, RebootWorks, Networks, KbdFile, KbdMap, Flaky
<1>5. ModesProven'
  BY <1>3 DEF ModesProven
<1>6. Armed'
  BY <1>3 DEF Safe, Armed
<1>7. Exclusive'
  BY <1>3 DEF Safe, Exclusive, KbdApart, RebootWorks, Networks, KbdFile, KbdMap, Flaky, Pair
<1> QED
  BY <1>1, <1>4, <1>5, <1>6, <1>7 DEF Safe, x

(* Reset. *)
LEMMA ResetStep ==
  ASSUME NEW K \in SUBSET Tokens, At(K), Safe, Reset, setup' = setup
  PROVE  IndInv'
<1>1. /\ Head(todo).op = "Reset" /\ clearIopModuleState /\ UNCHANGED <<setup, ipCached>> /\ Return
      /\ resident' = {} /\ armed' = FALSE
  BY DEF Reset, Now
<1>2. Safe' /\ \E D \in SUBSET Tokens : D = After(K, Head(todo), Apart(setup)) /\ Holds(D)'
  BY <1>1, Forgotten
<1> QED
  BY <1>1, <1>2, Done DEF IndInv

(* The reboot for the signer; where it fails the modules stay. *)
LEMMA SignerRebootStep ==
  ASSUME NEW K \in SUBSET Tokens, At(K), Safe, SignerReboot, setup' = setup
  PROVE  IndInv'
<1> DEFINE long == (ensureCoreIoStackReady \o loadSecrSifModule) \o <<Flag("signer", {"secrsif"})>>
<1>1. /\ Head(todo).op = "signerReboot" /\ clearIopModuleState /\ UNCHANGED <<setup, ipCached>>
      /\ \/ Then(long) /\ resident' = {} /\ armed' = FALSE
         \/ Then(ensureCoreIoStackReady) /\ ~RebootWorks /\ UNCHANGED <<resident, armed>>
  BY DEF SignerReboot, Now, RebootWorks
<1>2. Safe' /\ \E D \in SUBSET Tokens : D = After(K, Head(todo), Apart(setup)) /\ Holds(D)'
  BY <1>1, Forgotten
<1>3. PICK D \in SUBSET Tokens : D = After(K, Head(todo), Apart(setup)) /\ Holds(D)'
  BY <1>2
<1>4. Leads(ensureCoreIoStackReady, D, D, setup) /\ Leads(loadSecrSifModule, D, D, setup)
  BY QuietBodies, Steady
<1>5. Leads(<<Flag("signer", {"secrsif"})>>, D, D, setup)
  <2>1. Flag("signer", {"secrsif"}) \in Quiet(D, setup)
    BY NamesOf, Plain DEF Checked
  <2>2. <<Flag("signer", {"secrsif"})>> \in Seq(Quiet(D, setup))
    BY <2>1
  <2> QED
    BY <2>2, Steady
<1>6. Leads(long, D, D, setup)
  BY <1>4, <1>5, Behind
<1> HIDE DEF long
<1>7. /\ Leads(long, D, After(K, Head(todo), Apart(setup)), setup)
      /\ Leads(ensureCoreIoStackReady, D, After(K, Head(todo), Apart(setup)), setup)
  BY <1>3, <1>4, <1>6
<1>8. TodoInv'
  BY <1>1, <1>3, <1>7, Replaced
<1> QED
  BY <1>2, <1>8 DEF IndInv
-----------------------------------------------------------------------------
(* Calls of the user interface start where nothing is left to do.          *)

(* What holds when a call has returned. *)
LEMMA IdleHolds ==
  ASSUME TodoInv, todo = <<>>
  PROVE  Holds(IdleTokens)
<1>1. PICK C \in SUBSET Tokens : Holds(C) /\ Leads(<<>>, C, IdleTokens, setup)
  BY DEF TodoInv
<1>2. PICK f \in [0 .. Len(<<>>) -> SUBSET Tokens] : f[0] \subseteq C /\ IdleTokens \subseteq f[Len(<<>>)]
  BY <1>1 DEF Leads, Path
<1>3. IdleTokens \subseteq C
  BY <1>2
<1> QED
  BY <1>1, <1>3 DEF Holds

(* A call needs no more than that to start. *)
LEMMA IdleFacts ==
  ASSUME NEW u
  PROVE  /\ IdleTokens \in SUBSET Tokens /\ IdleTokens \in SUBSET (Tokens \ Away(Apart(u)))
         /\ "settled" \in IdleTokens /\ "cached" \in IdleTokens
         /\ IdleTokens \cap Pair = {} /\ IdleTokens \cap NetTokens = {}
         /\ \A d \in Names : On("deviceReady", d) \in Quiet(IdleTokens, u) /\ On("genFixPath", d) \in Quiet(IdleTokens, u)
<1>1. /\ IdleTokens \in SUBSET Tokens /\ IdleTokens \in SUBSET (Tokens \ Away(Apart(u)))
      /\ "settled" \in IdleTokens /\ "cached" \in IdleTokens
      /\ IdleTokens \cap Pair = {} /\ IdleTokens \cap NetTokens = {}
  BY DEF IdleTokens, Tokens, Away, ResetLoses, Pair, NetTokens
<1>2. ASSUME NEW d \in Names
      PROVE  On("deviceReady", d) \in Quiet(IdleTokens, u)
  <2> DEFINE x == On("deviceReady", d)
  <2>1. x \in Steps /\ x.op = "deviceReady" /\ x.on = d
    <3>1. {} \in SUBSET Names /\ "deviceReady" \in Ops
      BY DEF Ops, CallOps
    <3> QED
      BY <3>1, Parts DEF On
  <2> HIDE DEF x
  <2>2. x \in KnownSteps(u) /\ x.op \in CallOps
    BY <2>1 DEF KnownSteps, Known, CallOps
  <2>3. x \in Quiet(IdleTokens, u)
    BY <1>1, <2>1, <2>2, CallSteps
  <2> QED
    BY <2>3 DEF x
<1> QED
  BY <1>1, <1>2, Calls

(* A call starts. *)
LEMMA Beginning ==
  ASSUME IndInv, NEW body, Call(body), Leads(body, IdleTokens, IdleTokens, setup)
  PROVE  IndInv'
<1>1. /\ todo = <<>> /\ todo' = body
      /\ UNCHANGED <<setup, armed, storage, net, resident, have, ipCached, block, parties>>
  BY DEF Call, Idle, modes, caches
<1>2. Holds(IdleTokens) /\ IdleTokens \in SUBSET Tokens /\ IdleTokens \in SUBSET IdleTokens
  BY <1>1, IdleHolds, IdleFacts DEF IndInv
<1>3. Holds(IdleTokens)'
  BY <1>1, <1>2, StillHolds
<1>4. Leads(todo', IdleTokens, IdleTokens, setup')
  BY <1>1
<1>5. Safe'
  BY <1>1, StillSafe DEF IndInv, modes
<1> QED
  BY <1>2, <1>3, <1>4, <1>5 DEF IndInv, TodoInv

(* Each call of the user interface. *)
LEMMA BeginStep ==
  ASSUME IndInv, Begin
  PROVE  IndInv'
<1> DEFINE I == IdleTokens
<1>1. /\ I \in SUBSET Tokens /\ I \in SUBSET (Tokens \ Away(Apart(setup)))
      /\ "settled" \in I /\ "cached" \in I /\ I \cap Pair = {} /\ I \cap NetTokens = {}
      /\ \A d \in Names : On("deviceReady", d) \in Quiet(I, setup) /\ On("genFixPath", d) \in Quiet(I, setup)
  BY IdleFacts
<1>2. Paths \subseteq Names /\ "udpfs" \in Names
  BY SetupAssumption, NamesOf DEF IndInv, Safe, Paths
<1>3. ASSUME NEW s \in Seq(Quiet(I, setup))
      PROVE  Leads(s, I, I, setup)
  BY <1>1, Steady
<1>4. /\ \A d \in Names : <<On("genFixPath", d)>> \in Seq(Quiet(I, setup))
      /\ \A d \in Names : <<On("deviceReady", d)>> \in Seq(Quiet(I, setup))
      /\ \A d, e \in Names : <<On("deviceReady", d), On("deviceReady", e)>> \in Seq(Quiet(I, setup))
  BY <1>1
<1>5. Leads(resetRuntimeDeviceState, I, I, setup)
  <2>1. I \in SUBSET I /\ I \in SUBSET ((I \ Away(Apart(setup))) \cup {"settled", "toEth", "toUdpfs"}
                                     \cup (IF Apart(setup) THEN Pair ELSE {}))
    BY <1>1
  <2> QED
    BY <1>1, <2>1, ResetStack, Weaker
<1>6. Leads(ensureCoreIoStackReady, I, I, setup)
  BY <1>1, QuietBodies, Steady
<1>7. ASSUME NEW d \in Names
      PROVE  Leads(ensurePathDeviceStackReady(d), I, I, setup)
  BY <1>1, DeviceStacks
<1> HIDE DEF I
<1>8. CASE OpenPath
  <2>1. PICK d \in Paths : Call(<<On("genFixPath", d)>>)
    BY <1>8 DEF OpenPath
  <2> QED
    BY <1>2, <1>3, <1>4, <2>1, Beginning DEF I
<1>9. CASE EnsurePathDeviceStackReady
  <2>1. PICK d \in Paths : Call(ensurePathDeviceStackReady(d))
    BY <1>9 DEF EnsurePathDeviceStackReady
  <2> QED
    BY <1>2, <1>7, <2>1, Beginning DEF I
<1>10. CASE PrepareTransferDeviceStacks
  <2>1. PICK d \in Paths, e \in Paths : Call(<<On("deviceReady", d), On("deviceReady", e)>>)
    BY <1>10 DEF PrepareTransferDeviceStacks
  <2> QED
    BY <1>2, <1>3, <1>4, <2>1, Beginning DEF I
<1>11. CASE RebootIopAndReloadCoreStack
  BY <1>5, <1>11, Beginning DEF I, RebootIopAndReloadCoreStack
<1>12. CASE RebootIopAndLoadDeviceStackForPath
  <2>1. PICK d \in Paths : Call((<<Do("Reset")>> \o ensureCoreIoStackReady) \o <<On("deviceReady", d)>>)
    BY <1>12 DEF RebootIopAndLoadDeviceStackForPath
  <2>2. Leads(<<Do("Reset")>>, I, I, setup)
    <3>1. I \in SUBSET I /\ I \in SUBSET ((I \ ResetLoses) \cup Pair \cup {"settled", "toEth", "toUdpfs"})
      BY <1>1 DEF Away
    <3> QED
      BY <1>1, <3>1, ResetGives, Weaker
  <2>3. Leads(<<On("deviceReady", d)>>, I, I, setup)
    BY <1>2, <1>3, <1>4
  <2>4. Leads((<<Do("Reset")>> \o ensureCoreIoStackReady) \o <<On("deviceReady", d)>>, I, I, setup)
    BY <1>6, <2>2, <2>3, Behind
  <2> QED
    BY <2>1, <2>4, Beginning DEF I
<1>13. CASE LoadVmcman
  <2>1. Leads(load_vmcman, I, I, setup)
    BY <1>1, QuietBodies, Steady
  <2> QED
    BY <1>13, <2>1, Beginning DEF I, LoadVmcman
<1>14. CASE LoadNetModules
  <2>1. "eth" \in setup.networks /\ Call(loadNetModules)
    BY <1>14 DEF LoadNetModules, Networks
  <2>2. I \in SUBSET (Tokens \ (Away(Apart(setup)) \cup NetTokens))
    BY <1>1
  <2>3. Leads(loadNetModules, I, I, setup)
    BY <1>1, <2>1, <2>2, EthStacks
  <2> QED
    BY <2>1, <2>3, Beginning DEF I
<1>15. CASE PrepareExploitSignerIop
  <2> DEFINE x == Do("signerReboot")
  <2>1. x \in Steps /\ x.op = "signerReboot"
    <3>1. "none" \in Names /\ {} \in SUBSET Names /\ "signerReboot" \in Ops
      BY NamesOf DEF Ops
    <3> QED
      BY <3>1, Parts DEF Do
  <2> HIDE DEF x
  <2>2. x \in KnownSteps(setup) /\ Fits(x, I, Apart(setup))
    BY <2>1 DEF KnownSteps, Known, Fits, CallOps
  <2>3. I \subseteq After(I, x, Apart(setup))
    <3>1. \A k \in I : ~Loses(k, I, x, Apart(setup))
      BY <1>1, <2>1 DEF Loses, MayReset, CallOps, Away
    <3> QED
      BY <1>1, <3>1 DEF After
  <2>4. Leads(<<x>>, I, I, setup)
    BY <1>1, <2>2, <2>3, One
  <2>5. Leads(loadSecrSifModule, I, I, setup)
    BY <1>1, QuietBodies, Steady
  <2>6. Leads(prepareExploitSignerIop, I, I, setup)
    BY <2>4, <2>5 DEF prepareExploitSignerIop, x
  <2> QED
    BY <1>15, <2>6, Beginning DEF I, PrepareExploitSignerIop
<1>16. CASE ReadPad
  <2>1. Do("startKbd") \in Quiet(I, setup)
    BY <1>1, Calls
  <2>2. <<Do("startKbd")>> \in Seq(Quiet(I, setup))
    BY <2>1
  <2> QED
    BY <1>3, <1>16, <2>2, Beginning DEF I, ReadPad
<1>17. CASE PowerOffMenu
  <2>1. Leads(setupPowerOff, I, I, setup)
    BY <1>1, QuietBodies, Steady
  <2> QED
    BY <1>17, <2>1, Beginning DEF I, PowerOffMenu
<1>18. CASE LoadHdlInfoModule
  <2>1. Load("hdl_info", {}) \in Quiet(I, setup)
    BY <1>1, NamesOf, Plain DEF PlainModules
  <2>2. <<Load("hdl_info", {})>> \in Seq(Quiet(I, setup))
    BY <2>1
  <2> QED
    BY <1>3, <1>18, <2>2, Beginning DEF I, LoadHdlInfoModule
<1>19. CASE LoadSecrSifModule
  <2>1. Leads(loadSecrSifModule, I, I, setup)
    BY <1>1, QuietBodies, Steady
  <2> QED
    BY <1>19, <2>1, Beginning DEF I, LoadSecrSifModule
<1>20. CASE ReloadUdpfsModules
  <2>1. Leads(<<On("deviceReady", "udpfs")>>, I, I, setup)
    BY <1>2, <1>3, <1>4
  <2>2. Leads(resetRuntimeDeviceState \o <<On("deviceReady", "udpfs")>>, I, I, setup)
    BY <1>5, <2>1, Behind
  <2> QED
    BY <1>20, <2>2, Beginning DEF I, ReloadUdpfsModules
<1> QED
  BY <1>8, <1>9, <1>10, <1>11, <1>12, <1>13, <1>14, <1>15, <1>16, <1>17, <1>18, <1>19, <1>20 DEF Begin
-----------------------------------------------------------------------------
(* The start of the program: nothing is loaded, so everything may be.      *)
LEMMA InitInv ==
  ASSUME Init
  PROVE  IndInv
<1> DEFINE C == {"settled", "still", "mc1free"}
           K == {"settled", "mc1free", "cached"}
           I == IdleTokens
           c == Do("getIpConfig")
           k == <<Do("startKbd")>>
<1>1. Holds(C)
  BY DEF Init, Holds
<1>2. Safe
  BY DEF Init, Safe, ModesProven, Armed, Exclusive, Pair
<1>3. /\ C \in SUBSET Tokens /\ K \in SUBSET Tokens /\ I \in SUBSET Tokens /\ {"settled"} \in SUBSET Tokens
      /\ C \in SUBSET C /\ I \in SUBSET K /\ I \in SUBSET I /\ {"settled"} \in SUBSET (C \ NetTokens)
      /\ {"settled"} \in SUBSET (Tokens \ Away(Apart(setup)))
  BY DEF Tokens, IdleTokens, NetTokens, Away, ResetLoses, Pair
<1>4. Leads(ensureCoreIoStackReady, C, C, setup)
  BY <1>3, QuietBodies, Steady
<1>5. Leads(k, I, I, setup)
  <2>1. Do("startKbd") \in Quiet(I, setup)
    BY IdleFacts, Calls
  <2>2. k \in Seq(Quiet(I, setup))
    BY <2>1
  <2> QED
    BY <1>3, <2>2, Steady
<1>6. c \in Steps /\ c.op = "getIpConfig"
  <2>1. "none" \in Names /\ {} \in SUBSET Names /\ "getIpConfig" \in Ops
    BY NamesOf DEF Ops, CallOps
  <2> QED
    BY <2>1, Parts DEF Do
<1> HIDE DEF c
<1>7. c \in KnownSteps(setup)
  BY <1>6 DEF KnownSteps, Known
<1>8. Leads(<<c>>, C, K, setup) /\ Leads(<<c>>, {"settled"}, I, setup)
  <2>1. Fits(c, C, Apart(setup)) /\ Fits(c, {"settled"}, Apart(setup))
    BY <1>6 DEF Fits
  <2>2. \A t \in {"settled", "mc1free"} : ~Loses(t, C, c, Apart(setup)) /\ ~Loses("settled", {"settled"}, c, Apart(setup))
    BY <1>6 DEF Loses, MayReset, Away, ResetLoses, Pair
  <2>3. Gives("cached", c, Apart(setup))
    BY <1>6 DEF Gives
  <2>4. K \subseteq After(C, c, Apart(setup)) /\ I \subseteq After({"settled"}, c, Apart(setup))
    BY <2>2, <2>3 DEF After, Tokens, IdleTokens
  <2> QED
    BY <1>3, <1>7, <2>1, <2>4, One
<1>9. ASSUME NEW d \in Names
      PROVE  /\ On("deviceReady", d) \in KnownSteps(setup)
             /\ Leads(<<On("deviceReady", d)>>, C, {"settled"}, setup)
             /\ Leads(<<On("deviceReady", d)>>, I, I, setup)
  <2> DEFINE x == On("deviceReady", d)
  <2>1. x \in Steps /\ x.op = "deviceReady" /\ x.on = d
    <3>1. {} \in SUBSET Names /\ "deviceReady" \in Ops
      BY DEF Ops, CallOps
    <3> QED
      BY <3>1, Parts DEF On
  <2>2. Leads(<<x>>, I, I, setup)
    <3>1. x \in Quiet(I, setup)
      BY IdleFacts
    <3>2. <<x>> \in Seq(Quiet(I, setup))
      BY <3>1
    <3> QED
      BY <1>3, <3>2, Steady
  <2> HIDE DEF x
  <2>3. x \in KnownSteps(setup) /\ Fits(x, C, Apart(setup))
    BY <2>1 DEF KnownSteps, Known, Fits, CallOps
  <2>4. "settled" \in After(C, x, Apart(setup))
    <3>1. ~Loses("settled", C, x, Apart(setup))
      BY <2>1 DEF Loses, Away, ResetLoses, Pair, NetTokens
    <3> QED
      BY <3>1 DEF After, Tokens
  <2>5. Leads(<<x>>, C, {"settled"}, setup)
    BY <1>3, <2>3, <2>4, One
  <2> QED
    BY <2>2, <2>3, <2>5 DEF x
<1>10. PICK d \in Boots :
         todo = (ensureCoreIoStackReady \o (IF d = "host" THEN <<c, On("deviceReady", d)>> ELSE <<On("deviceReady", d), c>>)) \o k
  BY DEF Init, c
<1>11. d \in Names
  BY SetupAssumption, NamesOf DEF Init, Boots
<1>12. Leads(IF d = "host" THEN <<c, On("deviceReady", d)>> ELSE <<On("deviceReady", d), c>>, C, I, setup)
  <2> DEFINE x == On("deviceReady", d)
  <2>1. /\ x \in KnownSteps(setup) /\ Leads(<<x>>, C, {"settled"}, setup) /\ Leads(<<x>>, I, I, setup)
    BY <1>9, <1>11
  <2> HIDE DEF x
  <2>2. Leads(<<x>>, K, I, setup)
    BY <1>3, <2>1, Weaker
  <2>3. Leads(<<c, x>>, C, I, setup) /\ Leads(<<x, c>>, C, I, setup)
    BY <1>7, <1>8, <2>1, <2>2, OneMore
  <2> QED
    BY <2>3 DEF x
<1> HIDE DEF C, K, I, k
<1> DEFINE b == IF d = "host" THEN <<c, On("deviceReady", d)>> ELSE <<On("deviceReady", d), c>>
<1>13. Leads(b, C, I, setup) /\ todo = (ensureCoreIoStackReady \o b) \o k
  BY <1>10, <1>12
<1> HIDE DEF b
<1>14. Leads(todo, C, I, setup)
  BY <1>4, <1>5, <1>13, Behind
<1> QED
  BY <1>1, <1>2, <1>3, <1>14 DEF IndInv, TodoInv, I

(* Every step. *)
LEMMA StepInv ==
  ASSUME IndInv, [Next]_vars
  PROVE  IndInv'
<1>1. CASE UNCHANGED vars
  <2>1. UNCHANGED <<todo, setup, armed, storage, net, resident, have, ipCached, block, parties>>
    BY <1>1 DEF vars
  <2>2. Safe'
    BY <2>1, StillSafe DEF IndInv, modes
  <2>3. PICK C \in SUBSET Tokens : Holds(C) /\ Leads(todo, C, IdleTokens, setup)
    BY DEF IndInv, TodoInv
  <2>4. C \in SUBSET C
    OBVIOUS
  <2>5. Holds(C)'
    BY <2>1, <2>3, <2>4, StillHolds
  <2>6. Leads(todo', C, IdleTokens, setup')
    BY <2>1, <2>3
  <2> QED
    BY <2>2, <2>5, <2>6 DEF IndInv, TodoInv
<1>2. CASE Begin
  BY <1>2, BeginStep
<1>3. CASE Continue
  <2>1. todo # <<>> /\ setup' = setup /\ Safe /\ TodoInv
    BY <1>3 DEF IndInv, Continue, Now, LoadModule, EnsureCore, LoadDev9, SetupPowerOff, SetFlag, VmcmanProbe, Reset,
       SignerReboot, SwitchStorageDriverStack, StorageMode, SwitchBlockStorageStack, BlockMode, SwitchNetworkStack,
       NetworkMode, EnsureMemoryCardPortAccessible, PartyList, GetIpConfig, StartKbd, LoadKbdModules,
       LoadExternalModule, KbdInit, LoadKbdMap, GenFixPath, UsePath, DeviceReady
  <2>2. PICK K \in SUBSET Tokens : At(K)
    BY <2>1, AtStep
  <2> QED
    BY <1>3, <2>1, <2>2, LoadModuleStep, EnsureCoreStep, LoadDev9Step, SetupPowerOffStep, SetFlagStep, VmcmanProbeStep,
       ResetStep, SignerRebootStep, SwitchStorageStep, StorageModeStep, SwitchBlockStep, BlockModeStep,
       SwitchNetworkStep, NetworkModeStep, EnsureMc1Step, PartyListStep, GetIpConfigStep, StartKbdStep, LoadKbdStep,
       LoadExternalStep, KbdInitStep, LoadKbdMapStep, GenFixPathStep, UsePathStep, DeviceReadyStep DEF Continue
<1> QED
  BY <1>1, <1>2, <1>3 DEF Next
-----------------------------------------------------------------------------
(* Every step of the program finds what it relies on: `todo' leads from    *)
(* what is arranged now to a state in which any call may start.            *)
THEOREM Arranged == Spec => []IndInv
<1>1. Init => IndInv
  BY InitInv
<1>2. IndInv /\ [Next]_vars => IndInv'
  BY StepInv
<1> QED
  BY <1>1, <1>2, PTL DEF Spec

(* What the flags and the stack modes say is loaded is resident: the have_* *)
(* flags and the *_stack_mode of init.c, whatever fails to start.          *)
THEOREM FlagsProven == Spec => []StacksProven
<1>1. IndInv => StacksProven
  BY DEF IndInv, Safe, ModesProven, StacksProven
<1> QED
  BY <1>1, Arranged, PTL

(* No disk driver is resident without the handler that idles the disk      *)
(* (setupPowerOff in every stack that loads ATA_BD or PS2HDD).             *)
THEOREM DiskIsIdled == Spec => []PowerOffArmed
<1>1. IndInv => PowerOffArmed
  BY DEF IndInv, Safe, Armed, PowerOffArmed, DiskModules
<1> QED
  BY <1>1, Arranged, PTL

(* MMCE and MX4SIO, and the two networks, never share the IOP              *)
(* (switchStorageDriverStack, switchNetworkStack).                         *)
THEOREM StacksExclude == Spec => []NeverBoth
<1>1. IndInv => NeverBoth
  <2> SUFFICES ASSUME IndInv, RebootWorks
               PROVE  /\ KbdApart => ~({"mmce", "mx4sio"} \subseteq resident)
                      /\ resident \cap EthModules = {} \/ resident \cap UdpfsModules = {}
    BY DEF NeverBoth
  <2>1. KbdApart => ~({"mmce", "mx4sio"} \subseteq resident)
    BY DEF IndInv, Safe, Exclusive, Pair
  <2>2. resident \cap EthModules = {} \/ resident \cap UdpfsModules = {}
    <3>1. SUFFICES ASSUME resident \cap EthModules # {}, resident \cap UdpfsModules # {}
                   PROVE  FALSE
      OBVIOUS
    <3>2. "eth" \in Networks /\ "udpfs" \in Networks
      BY <3>1 DEF IndInv, Safe, Exclusive
    <3>3. Networks = BothNetworks
      BY <3>2, SetupAssumption DEF IndInv, Safe, Networks, BothNetworks
    <3> QED
      BY <3>1, <3>3 DEF IndInv, Safe, Exclusive
  <2> QED
    BY <2>1, <2>2
<1> QED
  BY <1>1, Arranged, PTL
-----------------------------------------------------------------------------
(***************************************************************************)
(* What a caller of DriverStack finds where every driver starts: the driver *)
(* of the path it was given is resident, and no driver was started twice.   *)
(*                                                                         *)
(* Tokens again say what is arranged at a place of `todo', now the modules *)
(* that were loaded since the last call that may reset the IOP.             *)
(***************************************************************************)
(* bdm, ...: the module is loaded.  mc1free: MX4SIO does not hold the slot *)
(* of mc1:.  unstarted: the keyboard driver is not resident.               *)
Loaded == {"usbd", "bdm", "bdmfs", "usb_mass", "mmce", "mx4sio", "ata_bd", "ps2hdd", "ps2fs", "dev9"}
Marks == Loaded \cup {"mc1free", "unstarted"}
(* Devices whose opening may reset the IOP, and keyboards that need MX4SIO. *)
Resetting == {"mc1", "mmce", "mx4sio"}
OnMx(u) == "mx4sio" \in {u.kbdFile, u.kbdMap}

(* Calls that may reset the IOP; switchBlockStorageStack never does.       *)
Resets(x) == x.op \in CallOps \ {"switchBlock"}
Drops(k, x, u) ==
  \/ x.op \in {"Reset", "signerReboot"} /\ k \in Loaded
  \/ Resets(x) /\ k \in Loaded
  \/ Resets(x) /\ k = "unstarted" /\ ~(x.op = "genFixPath" /\ x.on \notin Resetting)
  \/ x.op = "loadExternal" /\ k = "unstarted"
  \/ Resets(x) /\ k = "mc1free" /\ OnMx(u)
  \/ x.op \in {"load", "genFixPath", "deviceReady"} /\ x.on = "mx4sio" /\ k = "mc1free"
Brings(k, C, x, u) ==
  \/ x.op = "load" /\ x.on = k /\ k \in Loaded /\ x.needs \subseteq C \cap Loaded
  \/ x.op = "dev9" /\ k = "dev9" /\ x.needs \subseteq C \cap Loaded
  \/ x.op = "ensureMc1" /\ k = "mc1free" /\ ~OnMx(u)
  \/ x.op \in {"Reset", "signerReboot"} /\ k \in {"mc1free", "unstarted"}
Passed(C, x, u) == {k \in Marks : (k \in C /\ ~Drops(k, x, u)) \/ Brings(k, C, x, u)}

(* What a step relies on, and two facts about how the steps are written.   *)
Finds(x, C, u) ==
  /\ x.op = "use" =>
       /\ x.on \in DOMAIN StackOf => StackOf[x.on] \subseteq C
       /\ x.on = "mc1" /\ ~OnMx(u) => "mc1free" \in C
  /\ x.op = "loadExternal" /\ u.kbdFile \notin Resetting => "unstarted" \in C
  /\ x.op = "load" /\ x.on = "mx4sio" => {"bdm", "bdmfs"} \subseteq x.needs
  /\ x.op = "switchBlock" => x.on \in {"ata", "hdd"}

ReadyMoves(u) == {m \in (SUBSET Marks) \X Steps \X (SUBSET Marks) :
                    Finds(m[2], m[1], u) /\ m[3] \subseteq Passed(m[1], m[2], u)}
Ready(s, C, D, u) == s \in Seq(Steps) /\ Path(s, C, D, ReadyMoves(u), Marks)

(* Steps that rely on nothing; those of them that leave the slot of mc1:   *)
(* as it is, and those that lose no token.                                 *)
Easy(u) == {x \in Steps : Finds(x, {}, u)}
Gentle(u) == {x \in Easy(u) : x.op \in {"load", "genFixPath", "deviceReady"} /\ x.on = "mx4sio" => OnMx(u)}
Calm(u) == {x \in Gentle(u) : /\ ~Resets(x) /\ x.op \notin {"Reset", "signerReboot", "loadExternal"}
                             /\ ~(x.op = "load" /\ x.on = "mx4sio")}
-----------------------------------------------------------------------------
(* Sequences of steps, as in DriverStackProofs.                            *)

LEMMA ReadyLossy ==
  ASSUME NEW u
  PROVE  Lossy(ReadyMoves(u), Marks)
BY DEF Lossy, ReadyMoves

LEMMA ReadyWeaker ==
  ASSUME NEW u, NEW s, NEW C, NEW D, NEW K \in SUBSET C, NEW E \in SUBSET D, Ready(s, K, D, u)
  PROVE  Ready(s, C, E, u)
BY WeakerPath DEF Ready

LEMMA ReadyNothing ==
  ASSUME NEW u, NEW C \in SUBSET Marks
  PROVE  Ready(<<>>, C, C, u)
BY NoPath DEF Ready

LEMMA ReadyOne ==
  ASSUME NEW u, NEW C \in SUBSET Marks, NEW D \in SUBSET Marks, NEW x \in Steps,
         Finds(x, C, u), D \subseteq Passed(C, x, u)
  PROVE  Ready(<<x>>, C, D, u)
<1>1. <<C, x, D>> \in ReadyMoves(u)
  BY DEF ReadyMoves
<1>2. <<x>> \in Seq(Steps)
  OBVIOUS
<1> QED
  BY <1>1, <1>2, OnePath DEF Ready

LEMMA ReadyBehind ==
  ASSUME NEW u, NEW s, NEW t, NEW C, NEW D, NEW E, Ready(s, C, D, u), Ready(t, D, E, u)
  PROVE  Ready(s \o t, C, E, u)
<1>1. s \o t \in Seq(Steps)
  BY ConcatProperties DEF Ready
<1> QED
  BY <1>1, ReadyLossy, BehindPath DEF Ready

LEMMA ReadyTwo ==
  ASSUME NEW u, NEW x, NEW y, NEW C, NEW D, NEW E, Ready(<<x>>, C, D, u), Ready(<<y>>, D, E, u)
  PROVE  Ready(<<x, y>>, C, E, u)
<1>1. x \in {x, y} /\ y \in {x, y}
  OBVIOUS
<1>2. <<x>> \o <<y>> = <<x, y>>
  BY <1>1, Two
<1> QED
  BY <1>2, ReadyBehind

LEMMA ReadyFirst ==
  ASSUME NEW u, NEW s, NEW C \in SUBSET Marks, NEW D, Ready(s, C, D, u), s # <<>>
  PROVE  /\ Head(s) \in Steps
         /\ \E K \in SUBSET C : Finds(Head(s), K, u) /\ Ready(Tail(s), Passed(K, Head(s), u), D, u)
<1>0. s \in Seq(Steps) /\ Path(s, C, D, ReadyMoves(u), Marks)
  BY DEF Ready
<1>1. Head(s) \in Steps /\ Tail(s) \in Seq(Steps) /\ Begins(s, C, D, ReadyMoves(u), Marks)
  BY <1>0, FirstPath
<1>2. PICK K \in SUBSET C, E \in SUBSET Marks :
        <<K, Head(s), E>> \in ReadyMoves(u) /\ Path(Tail(s), E, D, ReadyMoves(u), Marks)
  BY <1>1 DEF Begins
<1>3. Finds(Head(s), K, u) /\ E \in SUBSET Passed(K, Head(s), u)
  BY <1>2 DEF ReadyMoves
<1>4. Path(Tail(s), Passed(K, Head(s), u), D, ReadyMoves(u), Marks)
  BY <1>2, <1>3, WeakerPath
<1> QED
  BY <1>1, <1>3, <1>4 DEF Ready

(* Steps that find what they need in C and keep it. *)
LEMMA ReadySteady ==
  ASSUME NEW u, NEW C \in SUBSET Marks, NEW X \in SUBSET Steps, NEW s \in Seq(X),
         \A x \in X : Finds(x, C, u) /\ C \subseteq Passed(C, x, u)
  PROVE  Ready(s, C, C, u)
<1>1. \A x \in X : <<C, x, C>> \in ReadyMoves(u)
  BY DEF ReadyMoves
<1>2. s \in Seq(Steps)
  BY SeqMonotonic
<1> QED
  BY <1>1, <1>2, SteadyPath DEF Ready

(* More tokens are no harm. *)
LEMMA FindsMore ==
  ASSUME NEW u, NEW C, NEW x, Finds(x, {}, u)
  PROVE  Finds(x, C, u)
BY DEF Finds

LEMMA EasyPath ==
  ASSUME NEW u, NEW C \in SUBSET Marks, NEW s \in Seq(Easy(u))
  PROVE  Ready(s, C, {}, u)
<1>1. \A x \in Easy(u) : Finds(x, {}, u) /\ {} \subseteq Passed({}, x, u)
  BY DEF Easy
<1>2. Easy(u) \in SUBSET Steps /\ {} \in SUBSET Marks /\ {} \in SUBSET C /\ {} \in SUBSET {}
  BY DEF Easy
<1>3. Ready(s, {}, {}, u)
  BY <1>1, <1>2, ReadySteady
<1> QED
  BY <1>2, <1>3, ReadyWeaker

LEMMA GentlePath ==
  ASSUME NEW u, NEW C \in SUBSET Marks, "mc1free" \in C, ~OnMx(u), NEW s \in Seq(Gentle(u))
  PROVE  Ready(s, C, {"mc1free"}, u)
<1> DEFINE D == {"mc1free"}
<1>1. \A x \in Gentle(u) : Finds(x, D, u)
  BY FindsMore DEF Gentle, Easy
<1>2. \A x \in Gentle(u) : ~Drops("mc1free", x, u)
  BY DEF Gentle, Drops, Loaded
<1>3. Gentle(u) \in SUBSET Steps /\ D \in SUBSET Marks /\ D \in SUBSET C /\ D \in SUBSET D
  BY DEF Gentle, Easy, Marks
<1>4. \A x \in Gentle(u) : D \subseteq Passed(D, x, u)
  BY <1>2, <1>3 DEF Passed
<1> HIDE DEF D
<1>5. Ready(s, D, D, u)
  BY <1>1, <1>3, <1>4, ReadySteady
<1>6. Ready(s, C, D, u)
  BY <1>3, <1>5, ReadyWeaker
<1> QED
  BY <1>6 DEF D

LEMMA CalmPath ==
  ASSUME NEW u, NEW C \in SUBSET Marks, NEW s \in Seq(Calm(u))
  PROVE  Ready(s, C, C, u)
<1>1. \A x \in Calm(u) : Finds(x, C, u)
  BY FindsMore DEF Calm, Gentle, Easy
<1>2. \A x \in Calm(u) : \A k \in Marks : ~Drops(k, x, u)
  BY DEF Calm, Gentle, Drops, Loaded, Marks, Resets, CallOps
<1>3. Calm(u) \in SUBSET Steps
  BY DEF Calm, Gentle, Easy
<1>4. \A x \in Calm(u) : C \subseteq Passed(C, x, u)
  BY <1>2 DEF Passed
<1> QED
  BY <1>1, <1>3, <1>4, ReadySteady
-----------------------------------------------------------------------------
(* The steps of the bodies.                                                *)

LEMMA StackFacts ==
  /\ DOMAIN StackOf = {"mmce", "mx4sio", "mass", "ata", "hdd"}
  /\ StackOf["mmce"] = {"mmce"} /\ StackOf["mx4sio"] = {"mx4sio", "bdm", "bdmfs"}
  /\ StackOf["mass"] = {"usbd", "bdm", "bdmfs", "usb_mass"} /\ StackOf["ata"] = {"bdm", "bdmfs", "ata_bd"}
  /\ StackOf["hdd"] = {"ps2hdd", "ps2fs"}
BY DEF StackOf

LEMMA CalmSteps ==
  ASSUME NEW u, NEW n \in SUBSET Names
  PROVE  /\ \A op \in {"core", "dev9", "setupPowerOff", "flag", "vmcmanProbe", "storageMode", "blockMode",
                        "networkMode", "partyList"}, d \in Names : Step(op, d, n) \in Calm(u)
         /\ \A m \in Names \ {"mx4sio"} : Step("load", m, n) \in Calm(u)
         /\ \A d \in {"ata", "hdd"} : Step("switchBlock", d, n) \in Calm(u)
<1>1. ASSUME NEW op \in Ops, NEW d \in Names,
             \/ op \in {"core", "dev9", "setupPowerOff", "flag", "vmcmanProbe", "storageMode", "blockMode",
                        "networkMode", "partyList"}
             \/ op = "load" /\ d # "mx4sio"
             \/ op = "switchBlock" /\ d \in {"ata", "hdd"}
      PROVE  Step(op, d, n) \in Calm(u)
  <2> DEFINE x == Step(op, d, n)
  <2>1. x \in Steps /\ x.op = op /\ x.on = d /\ x.needs = n
    BY Parts
  <2> HIDE DEF x
  <2>2. Finds(x, {}, u)
    BY <1>1, <2>1 DEF Finds
  <2>3. x \in Gentle(u)
    BY <1>1, <2>1, <2>2 DEF Gentle, Easy
  <2>4. x \in Calm(u)
    BY <1>1, <2>1, <2>3 DEF Calm, Resets, CallOps
  <2> QED
    BY <2>4 DEF x
<1>2. {"ata", "hdd"} \subseteq Names
  BY DEF Names, Devices
<1> QED
  BY <1>1, <1>2 DEF Ops, CallOps

LEMMA CallsGentle ==
  ASSUME NEW u, NEW op \in (CallOps \ {"switchBlock"}) \cup {"Reset", "signerReboot"}, NEW d \in Names
  PROVE  /\ On(op, d) \in Easy(u)
         /\ op \notin {"genFixPath", "deviceReady"} \/ d # "mx4sio" \/ OnMx(u) => On(op, d) \in Gentle(u)
<1> DEFINE x == On(op, d)
<1>1. x \in Steps /\ x.op = op /\ x.on = d
  <2>1. op \in Ops /\ {} \in SUBSET Names
    BY DEF Ops
  <2> QED
    BY <2>1, Parts DEF On
<1> HIDE DEF x
<1>2. Finds(x, {}, u)
  BY <1>1 DEF Finds, CallOps
<1>3. x \in Easy(u)
  BY <1>1, <1>2 DEF Easy
<1>4. op \notin {"genFixPath", "deviceReady"} \/ d # "mx4sio" \/ OnMx(u) => x \in Gentle(u)
  BY <1>1, <1>3 DEF Gentle, CallOps
<1> QED
  BY <1>3, <1>4 DEF x

LEMMA Kinds ==
  ASSUME NEW u
  PROVE  /\ Calm(u) \in SUBSET Gentle(u) /\ Gentle(u) \in SUBSET Easy(u) /\ Easy(u) \in SUBSET Steps
         /\ \A s \in Seq(Calm(u)) : s \in Seq(Gentle(u))
         /\ \A s \in Seq(Gentle(u)) : s \in Seq(Easy(u))
<1>1. Calm(u) \in SUBSET Gentle(u) /\ Gentle(u) \in SUBSET Easy(u) /\ Easy(u) \in SUBSET Steps
  BY DEF Calm, Gentle, Easy
<1> QED
  BY <1>1, SeqMonotonic

(* Bodies that lose nothing. *)
LEMMA CalmBodies ==
  ASSUME NEW u
  PROVE  /\ ensureCoreIoStackReady \in Seq(Calm(u)) /\ setupPowerOff \in Seq(Calm(u))
         /\ loadBdmCoreModules \in Seq(Calm(u)) /\ loadUsbModules \in Seq(Calm(u))
         /\ loadAtaBlockDriver \in Seq(Calm(u)) /\ load_ps2hdd_stack \in Seq(Calm(u))
         /\ loadAtaModules \in Seq(Calm(u)) /\ loadHddModules \in Seq(Calm(u))
         /\ loadDVRPHddModules \in Seq(Calm(u)) /\ loadFlashModules \in Seq(Calm(u))
         /\ load_vmcman \in Seq(Calm(u)) /\ loadSecrSifModule \in Seq(Calm(u))
<1> DEFINE S == Calm(u)
           Any == SUBSET Names
<1>1. /\ \A op \in {"core", "dev9", "setupPowerOff", "vmcmanProbe"} : Do(op) \in S
      /\ \A m \in Names \ {"mx4sio"}, n \in Any : Load(m, n) \in S
      /\ \A f \in Names, n \in Any : Flag(f, n) \in S
      /\ \A op \in {"dev9", "vmcmanProbe"}, n \in Any : Step(op, "none", n) \in S
      /\ \A d \in Names, n \in Any : Step("blockMode", d, n) \in S
      /\ On("switchBlock", "ata") \in S /\ On("switchBlock", "hdd") \in S
  <2>1. "none" \in Names /\ {} \in SUBSET Names
    BY NamesOf
  <2> QED
    BY <2>1, CalmSteps DEF Do, On, Load, Flag
<1>2. /\ {"usbd", "bdm", "bdmfs", "usb_mass", "ata_bd", "ps2hdd", "ps2fs", "dvrdrv", "dvrfile", "secrsif", "dev9",
          "HDD", "DVRP", "vmcman", "xfrom", "ata", "hdd", "none"} \subseteq Names
  BY DEF Names, Checked, Flags, Devices
<1> HIDE DEF S, Any
<1>3. \A n \in SUBSET {"usbd", "bdm", "bdmfs", "usb_mass", "ata_bd", "ps2hdd", "ps2fs", "dvrdrv", "dvrfile", "secrsif",
                       "dev9", "HDD", "DVRP", "vmcman"} : n \in Any
  BY <1>2 DEF Any
<1>4. ensureCoreIoStackReady \in Seq(S) /\ setupPowerOff \in Seq(S) /\ loadBdmCoreModules \in Seq(S)
  BY <1>1, <1>2, <1>3 DEF ensureCoreIoStackReady, setupPowerOff, loadBdmCoreModules
<1>5. loadUsbModules \in Seq(S) /\ loadAtaBlockDriver \in Seq(S)
  BY <1>1, <1>2, <1>3, <1>4 DEF loadUsbModules, loadAtaBlockDriver
<1>6. load_ps2hdd_stack \in Seq(S)
  BY <1>1, <1>2, <1>3, <1>5 DEF load_ps2hdd_stack
<1>7. loadAtaModules \in Seq(S)
  BY <1>1, <1>2, <1>3, <1>4, <1>5 DEF loadAtaModules
<1>8. loadHddModules \in Seq(S)
  BY <1>1, <1>2, <1>3, <1>4, <1>6 DEF loadHddModules, When
<1>9. loadDVRPHddModules \in Seq(S)
  <2>1. /\ Load("dvrdrv", {"ps2hdd", "ps2fs"}) \in S /\ Load("dvrfile", {"dvrdrv"}) \in S
        /\ Flag("DVRP", {"dvrdrv", "dvrfile"}) \in S
    BY <1>1, <1>2, <1>3
  <2>2. /\ <<Load("dvrdrv", {"ps2hdd", "ps2fs"}), Load("dvrfile", {"dvrdrv"}),
            Flag("DVRP", {"dvrdrv", "dvrfile"})>> \in Seq(S)
        /\ <<>> \in Seq(S)
    BY <2>1
  <2> QED
    BY <1>4, <1>6, <2>2, ConcatProperties DEF loadDVRPHddModules, When
<1>10. loadFlashModules \in Seq(S)
  BY <1>1, <1>2, <1>3, <1>4 DEF loadFlashModules, When
<1>11. load_vmcman \in Seq(S) /\ loadSecrSifModule \in Seq(S)
  BY <1>1, <1>2, <1>3, <1>4 DEF load_vmcman, loadSecrSifModule
<1> QED
  BY <1>4, <1>5, <1>6, <1>7, <1>8, <1>9, <1>10, <1>11 DEF S

(* Bodies that may reset the IOP, but do not load MX4SIO. *)
LEMMA GentleBodies ==
  ASSUME NEW u
  PROVE  /\ loadMmceModules \in Seq(Gentle(u)) /\ load_ps2host \in Seq(Gentle(u)) /\ load_udpfs \in Seq(Gentle(u))
         /\ loadNetModules \in Seq(Gentle(u)) /\ prepareExploitSignerIop \in Seq(Gentle(u))
         /\ resetRuntimeDeviceState \in Seq(Gentle(u))
<1> DEFINE S == Gentle(u)
           Any == SUBSET Names
<1>1. /\ Do("dev9") \in S /\ \A m \in Names \ {"mx4sio"}, n \in Any : Load(m, n) \in S
      /\ \A f \in Names, n \in Any : Flag(f, n) \in S
      /\ On("storageMode", "mmce") \in S
  <2>1. "none" \in Names /\ {} \in SUBSET Names /\ "mmce" \in Names
    BY NamesOf
  <2> QED
    BY <2>1, CalmSteps, Kinds DEF Do, On, Load, Flag
<1>2. /\ \A op \in {"Reset", "signerReboot", "startKbd", "getIpConfig"} : Do(op) \in S
      /\ On("switchStorage", "mmce") \in S /\ On("switchNetwork", "eth") \in S /\ On("switchNetwork", "udpfs") \in S
  <2>1. "none" \in Names /\ "mmce" \in Names /\ "eth" \in Names /\ "udpfs" \in Names
    BY NamesOf
  <2>2. \A op \in {"Reset", "signerReboot", "startKbd", "getIpConfig", "switchStorage", "switchNetwork"} :
          op \in (CallOps \ {"switchBlock"}) \cup {"Reset", "signerReboot"}
    BY DEF CallOps
  <2>3. \A op \in {"Reset", "signerReboot", "startKbd", "getIpConfig", "switchStorage", "switchNetwork"}, d \in Names :
          On(op, d) \in S
    BY <2>2, CallsGentle
  <2> QED
    BY <2>1, <2>3 DEF Do, On
<1>3. ensureCoreIoStackReady \in Seq(S) /\ setupPowerOff \in Seq(S) /\ loadSecrSifModule \in Seq(S)
  BY CalmBodies, Kinds
<1>4. EthModules \cup UdpfsModules \cup {"dev9", "mmce", "NetModules"} \subseteq Names
  BY DEF Names, Checked, Flags
<1> HIDE DEF S
<1>5. \A n \in SUBSET (EthModules \cup UdpfsModules \cup {"dev9"}) : n \in Any
  BY <1>4
<1> HIDE DEF Any
<1>6. resetRuntimeDeviceState \in Seq(S) /\ prepareExploitSignerIop \in Seq(S)
  BY <1>2, <1>3 DEF resetRuntimeDeviceState, prepareExploitSignerIop
<1>7. /\ Load("ps2ip", {"dev9"}) \in S /\ Load("ps2smap", {"dev9", "ps2ip"}) \in S
      /\ Load("ps2host", {"ps2ip", "ps2smap"}) \in S
      /\ Load("ps2netfs", {"ps2ip", "ps2smap"}) \in S /\ Load("ps2ftpd", {"ps2ip", "ps2smap"}) \in S
      /\ Flag("NetModules", {"ps2netfs", "ps2ftpd"}) \in S
  BY <1>1, <1>4, <1>5 DEF EthModules
<1>8. load_ps2ip \in Seq(S)
  BY <1>1, <1>2, <1>7 DEF load_ps2ip
<1>9. load_ps2host \in Seq(S)
  BY <1>2, <1>3, <1>7, <1>8 DEF load_ps2host
<1>10. loadNetModules \in Seq(S)
  BY <1>2, <1>3, <1>7, <1>8 DEF loadNetModules, When
<1>11. load_udpfs \in Seq(S)
  <2>1. /\ Load("udpfs_smap", {"dev9"}) \in S /\ Load("udpfs_ministack", {"dev9", "udpfs_smap"}) \in S
        /\ Load("udpfs_ioman", {"dev9", "udpfs_smap", "udpfs_ministack"}) \in S
    BY <1>1, <1>4, <1>5 DEF UdpfsModules
  <2> QED
    BY <1>1, <1>2, <1>3, <2>1 DEF load_udpfs
<1>12. loadMmceModules \in Seq(S)
  <2>1. Load("mmce", {}) \in S
    BY <1>1, <1>4, <1>5
  <2> QED
    BY <1>1, <1>2, <1>3, <2>1 DEF loadMmceModules
<1> QED
  BY <1>6, <1>9, <1>10, <1>11, <1>12 DEF S

(* The body that loads it. *)
LEMMA Mx4sioBody ==
  ASSUME NEW u
  PROVE  /\ loadMx4sioModules \in Seq(Easy(u))
         /\ OnMx(u) => loadMx4sioModules \in Seq(Gentle(u))
<1> DEFINE y == Load("mx4sio", {"bdm", "bdmfs"})
<1>1. {"bdm", "bdmfs"} \in SUBSET Names /\ "mx4sio" \in Names /\ "load" \in Ops /\ {} \in SUBSET Names
  BY DEF Names, Checked, Ops
<1>2. y \in Steps /\ y.op = "load" /\ y.on = "mx4sio" /\ y.needs = {"bdm", "bdmfs"}
  BY <1>1, Parts DEF Load
<1> HIDE DEF y
<1>3. y \in Easy(u)
  BY <1>2 DEF Easy, Finds
<1>4. OnMx(u) => y \in Gentle(u)
  BY <1>3 DEF Gentle
<1>5. On("storageMode", "mx4sio") \in Gentle(u) /\ On("switchStorage", "mx4sio") \in Gentle(u)
  <2>1. "switchStorage" \in CallOps \ {"switchBlock"}
    BY DEF CallOps
  <2> QED
    BY <1>1, <2>1, CallsGentle, CalmSteps, Kinds DEF On
<1>6. ensureCoreIoStackReady \in Seq(Gentle(u)) /\ loadBdmCoreModules \in Seq(Gentle(u))
  BY CalmBodies, Kinds
<1>7. ASSUME NEW S, y \in S, On("storageMode", "mx4sio") \in S, On("switchStorage", "mx4sio") \in S,
             ensureCoreIoStackReady \in Seq(S), loadBdmCoreModules \in Seq(S)
      PROVE  loadMx4sioModules \in Seq(S)
  BY <1>7 DEF loadMx4sioModules, y
<1>8. loadMx4sioModules \in Seq(Easy(u))
  BY <1>3, <1>5, <1>6, <1>7, Kinds
<1>9. OnMx(u) => loadMx4sioModules \in Seq(Gentle(u))
  BY <1>4, <1>5, <1>6, <1>7
<1> QED
  BY <1>8, <1>9

(* ensurePathDeviceStackReady, loadDeviceStackForPath, and the files that the settings name. *)
LEMMA DeviceBodies ==
  ASSUME NEW u, NEW d \in Names
  PROVE  /\ ensurePathDeviceStackReady(d) \in Seq(Easy(u)) /\ loadDeviceStackForPath(d) \in Seq(Easy(u))
         /\ getExternalFilePath(d) \in Seq(Easy(u))
         /\ d # "mx4sio" \/ OnMx(u) =>
              /\ ensurePathDeviceStackReady(d) \in Seq(Gentle(u)) /\ loadDeviceStackForPath(d) \in Seq(Gentle(u))
              /\ getExternalFilePath(d) \in Seq(Gentle(u))
<1>1. ASSUME NEW S, S \in {Easy(u), Gentle(u)}, S = Easy(u) \/ d # "mx4sio" \/ OnMx(u)
      PROVE  /\ ensurePathDeviceStackReady(d) \in Seq(S) /\ loadDeviceStackForPath(d) \in Seq(S)
             /\ getExternalFilePath(d) \in Seq(S)
  <2>1. /\ loadUsbModules \in Seq(S) /\ loadAtaModules \in Seq(S) /\ loadHddModules \in Seq(S)
        /\ loadDVRPHddModules \in Seq(S) /\ loadFlashModules \in Seq(S) /\ load_vmcman \in Seq(S)
    BY <1>1, CalmBodies, Kinds
  <2>2. loadMmceModules \in Seq(S) /\ load_ps2host \in Seq(S) /\ load_udpfs \in Seq(S) /\ <<>> \in Seq(S)
    BY <1>1, GentleBodies, Kinds
  <2>3. d = "mx4sio" => loadMx4sioModules \in Seq(S)
    BY <1>1, Mx4sioBody
  <2>4. <<On("genFixPath", d)>> \in Seq(S)
    <3>1. "genFixPath" \in CallOps \ {"switchBlock"}
      BY DEF CallOps
    <3>2. On("genFixPath", d) \in S
      BY <1>1, <3>1, CallsGentle
    <3> QED
      BY <3>2
  <2>5. ensurePathDeviceStackReady(d) \in Seq(S)
    BY <2>1, <2>2, <2>3 DEF ensurePathDeviceStackReady, When
  <2>6. loadDeviceStackForPath(d) \in Seq(S)
    BY <2>1, <2>5 DEF loadDeviceStackForPath
  <2>7. getExternalFilePath(d) \in Seq(S)
    BY <2>1, <2>2, <2>4 DEF getExternalFilePath
  <2> QED
    BY <2>5, <2>6, <2>7
<1> QED
  BY <1>1
-----------------------------------------------------------------------------
(* What the bodies bring.                                                  *)

(* A module that is loaded, whose needs are. *)
LEMMA LoadBrings ==
  ASSUME NEW u, NEW C \in SUBSET Marks, NEW m \in Loaded \ {"mx4sio", "dev9"}, NEW n \in SUBSET (C \cap Loaded)
  PROVE  Ready(<<Load(m, n)>>, C, C \cup {m}, u)
<1> DEFINE x == Load(m, n)
<1>1. m \in Names /\ n \in SUBSET Names /\ "load" \in Ops /\ m \in Marks
  BY DEF Loaded, Names, Checked, Ops, Marks
<1>2. x \in Steps /\ x.op = "load" /\ x.on = m /\ x.needs = n /\ x \in Calm(u)
  BY <1>1, Parts, CalmSteps DEF Load
<1> HIDE DEF x
<1>3. Finds(x, C, u)
  BY <1>2 DEF Finds
<1>4. \A k \in C : ~Drops(k, x, u)
  BY <1>2 DEF Drops, Resets, CallOps
<1>5. Brings(m, C, x, u)
  BY <1>2 DEF Brings
<1>6. C \cup {m} \in SUBSET Marks /\ C \cup {m} \subseteq Passed(C, x, u)
  BY <1>1, <1>4, <1>5 DEF Passed
<1>7. Ready(<<x>>, C, C \cup {m}, u)
  BY <1>2, <1>3, <1>6, ReadyOne
<1> QED
  BY <1>7 DEF x

(* DEV9, and MX4SIO, which takes the slot of mc1:. *)
LEMMA Dev9Brings ==
  ASSUME NEW u, NEW C \in SUBSET Marks, NEW n \in SUBSET (C \cap Loaded)
  PROVE  Ready(<<Step("dev9", "none", n)>>, C, C \cup {"dev9"}, u)
<1> DEFINE x == Step("dev9", "none", n)
<1>1. "none" \in Names /\ n \in SUBSET Names /\ "dev9" \in Ops /\ "dev9" \in Marks
  BY DEF Loaded, Names, Checked, Devices, Ops, Marks
<1>2. x \in Steps /\ x.op = "dev9" /\ x.needs = n
  BY <1>1, Parts
<1> HIDE DEF x
<1>3. Finds(x, C, u)
  BY <1>2 DEF Finds
<1>4. \A k \in C : ~Drops(k, x, u)
  BY <1>2 DEF Drops, Resets, CallOps
<1>5. Brings("dev9", C, x, u)
  BY <1>2 DEF Brings
<1>6. C \cup {"dev9"} \in SUBSET Marks /\ C \cup {"dev9"} \subseteq Passed(C, x, u)
  BY <1>1, <1>4, <1>5 DEF Passed
<1>7. Ready(<<x>>, C, C \cup {"dev9"}, u)
  BY <1>2, <1>3, <1>6, ReadyOne
<1> QED
  BY <1>7 DEF x

LEMMA MxBrings ==
  ASSUME NEW u
  PROVE  Ready(<<Load("mx4sio", {"bdm", "bdmfs"})>>, {"bdm", "bdmfs"}, {"bdm", "bdmfs", "mx4sio"}, u)
<1> DEFINE x == Load("mx4sio", {"bdm", "bdmfs"})
           C == {"bdm", "bdmfs"}
           D == {"bdm", "bdmfs", "mx4sio"}
<1>1. "mx4sio" \in Names /\ C \in SUBSET Names /\ "load" \in Ops /\ D \in SUBSET Marks /\ C \in SUBSET Marks
  BY DEF Loaded, Names, Checked, Ops, Marks
<1>2. x \in Steps /\ x.op = "load" /\ x.on = "mx4sio" /\ x.needs = C
  BY <1>1, Parts DEF Load
<1> HIDE DEF x
<1>3. Finds(x, C, u)
  BY <1>2 DEF Finds
<1>4. \A k \in C : ~Drops(k, x, u)
  BY <1>2 DEF Drops, Resets, CallOps
<1>5. Brings("mx4sio", C, x, u)
  BY <1>2 DEF Brings, Loaded
<1>6. D \subseteq Passed(C, x, u)
  BY <1>1, <1>4, <1>5 DEF Passed
<1>7. Ready(<<x>>, C, D, u)
  BY <1>1, <1>2, <1>3, <1>6, ReadyOne
<1> QED
  BY <1>7 DEF x

(* A path that is handed out. *)
LEMMA UseReady ==
  ASSUME NEW u, NEW C \in SUBSET Marks, NEW d \in Names,
         d \in DOMAIN StackOf => StackOf[d] \subseteq C, d = "mc1" /\ ~OnMx(u) => "mc1free" \in C
  PROVE  Ready(<<On("use", d)>>, C, C, u)
<1> DEFINE x == On("use", d)
<1>1. x \in Steps /\ x.op = "use" /\ x.on = d
  <2>1. {} \in SUBSET Names /\ "use" \in Ops
    BY DEF Ops
  <2> QED
    BY <2>1, Parts DEF On
<1> HIDE DEF x
<1>2. Finds(x, C, u)
  BY <1>1 DEF Finds
<1>3. \A k \in C : ~Drops(k, x, u)
  BY <1>1 DEF Drops, Resets, CallOps
<1>4. C \subseteq Passed(C, x, u)
  BY <1>3 DEF Passed
<1>5. Ready(<<x>>, C, C, u)
  BY <1>1, <1>2, <1>4, ReadyOne
<1> QED
  BY <1>5 DEF x

(* The block devices. *)
LEMMA BdmBrings ==
  ASSUME NEW u, NEW C \in SUBSET Marks
  PROVE  Ready(loadBdmCoreModules, C, C \cup {"bdm", "bdmfs"}, u)
<1> DEFINE D == C \cup {"bdm"}
           E == C \cup {"bdm", "bdmfs"}
<1>1. {} \in SUBSET (C \cap Loaded) /\ {"bdm"} \in SUBSET (D \cap Loaded) /\ D \in SUBSET Marks /\ E = D \cup {"bdmfs"}
      /\ "bdm" \in Loaded \ {"mx4sio", "dev9"} /\ "bdmfs" \in Loaded \ {"mx4sio", "dev9"}
  BY DEF Loaded, Marks
<1>2. Ready(<<Load("bdm", {})>>, C, D, u)
  BY <1>1, LoadBrings
<1> HIDE DEF D
<1>3. Ready(<<Load("bdmfs", {"bdm"})>>, D, E, u)
  BY <1>1, LoadBrings
<1> HIDE DEF E
<1>4. Ready(<<Load("bdm", {}), Load("bdmfs", {"bdm"})>>, C, E, u)
  BY <1>2, <1>3, ReadyTwo
<1> QED
  BY <1>4 DEF E, loadBdmCoreModules

LEMMA UsbBrings ==
  ASSUME NEW u, NEW C \in SUBSET Marks
  PROVE  Ready(loadUsbModules, C, C \cup {"usbd", "bdm", "bdmfs", "usb_mass"}, u)
<1> DEFINE D == C \cup {"usbd"}
           E == C \cup {"usbd", "bdm"}
           F == C \cup {"usbd", "bdm", "bdmfs"}
           G == C \cup {"usbd", "bdm", "bdmfs", "usb_mass"}
           a == Load("usbd", {})
           b == Load("bdm", {"usbd"})
           c == Load("bdmfs", {"usbd", "bdm"})
           e == Load("usb_mass", {"usbd", "bdm", "bdmfs"})
<1>1. /\ {} \in SUBSET (C \cap Loaded) /\ {"usbd"} \in SUBSET (D \cap Loaded)
      /\ {"usbd", "bdm"} \in SUBSET (E \cap Loaded) /\ {"usbd", "bdm", "bdmfs"} \in SUBSET (F \cap Loaded)
      /\ D \in SUBSET Marks /\ E \in SUBSET Marks /\ F \in SUBSET Marks
      /\ E = D \cup {"bdm"} /\ F = E \cup {"bdmfs"} /\ G = F \cup {"usb_mass"}
      /\ {"usbd", "bdm", "bdmfs", "usb_mass"} \subseteq Loaded \ {"mx4sio", "dev9"}
  BY DEF Loaded, Marks
<1>2. Ready(<<a>>, C, D, u)
  BY <1>1, LoadBrings
<1> HIDE DEF D
<1>3. Ready(<<b>>, D, E, u)
  BY <1>1, LoadBrings
<1> HIDE DEF E
<1>4. Ready(<<c>>, E, F, u)
  BY <1>1, LoadBrings
<1> HIDE DEF F
<1>5. Ready(<<e>>, F, G, u)
  BY <1>1, LoadBrings
<1> HIDE DEF G
<1>6. Ready(ensureCoreIoStackReady, C, C, u)
  BY CalmBodies, CalmPath
<1>7. loadUsbModules = ensureCoreIoStackReady \o <<a, b, c, e>>
  BY DEF loadUsbModules
<1> HIDE DEF a, b, c, e
<1>8. Ready(<<c, e>>, E, G, u)
  BY <1>4, <1>5, ReadyTwo
<1>9. Ready(<<b, c, e>>, D, G, u)
  BY <1>3, <1>8, Three, ReadyBehind
<1>11. Ready(<<a, b, c, e>>, C, G, u)
  BY <1>2, <1>9, Four, ReadyBehind
<1> QED
  BY <1>6, <1>7, <1>11, ReadyBehind DEF G

LEMMA AtaBrings ==
  ASSUME NEW u, NEW C \in SUBSET Marks
  PROVE  Ready(loadAtaBlockDriver, C, C \cup {"bdm", "bdmfs", "dev9", "ata_bd"}, u)
<1> DEFINE D == C \cup {"bdm", "bdmfs"}
           E == C \cup {"bdm", "bdmfs", "dev9"}
           F == C \cup {"bdm", "bdmfs", "dev9", "ata_bd"}
           a == Step("dev9", "none", {"bdm", "bdmfs"})
           b == Load("ata_bd", {"bdm", "bdmfs", "dev9"})
<1>1. /\ {"bdm", "bdmfs"} \in SUBSET (D \cap Loaded) /\ {"bdm", "bdmfs", "dev9"} \in SUBSET (E \cap Loaded)
      /\ D \in SUBSET Marks /\ E \in SUBSET Marks
      /\ E = D \cup {"dev9"} /\ F = E \cup {"ata_bd"} /\ "ata_bd" \in Loaded \ {"mx4sio", "dev9"}
  BY DEF Loaded, Marks
<1>2. Ready(loadBdmCoreModules, C, D, u)
  BY BdmBrings
<1> HIDE DEF D
<1>3. Ready(<<a>>, D, E, u)
  BY <1>1, Dev9Brings
<1> HIDE DEF E
<1>4. Ready(<<b>>, E, F, u)
  BY <1>1, LoadBrings
<1> HIDE DEF F
<1>5. loadAtaBlockDriver = loadBdmCoreModules \o <<a, b>>
  BY DEF loadAtaBlockDriver
<1> HIDE DEF a, b
<1>7. Ready(<<a, b>>, D, F, u)
  BY <1>3, <1>4, ReadyTwo
<1> QED
  BY <1>2, <1>5, <1>7, ReadyBehind DEF F

LEMMA HddBrings ==
  ASSUME NEW u, NEW C \in SUBSET Marks
  PROVE  Ready(load_ps2hdd_stack, C, {"ps2hdd", "ps2fs"} \cup C, u)
<1> DEFINE D == C \cup {"bdm", "bdmfs", "dev9", "ata_bd"}
           E == D \cup {"ps2hdd"}
           F == E \cup {"ps2fs"}
           G == {"ps2hdd", "ps2fs"} \cup C
           a == Load("ps2hdd", {"ata_bd", "dev9"})
           b == Load("ps2fs", {"ata_bd", "dev9", "ps2hdd"})
<1>1. /\ {"ata_bd", "dev9"} \in SUBSET (D \cap Loaded) /\ {"ata_bd", "dev9", "ps2hdd"} \in SUBSET (E \cap Loaded)
      /\ D \in SUBSET Marks /\ E \in SUBSET Marks /\ G \in SUBSET F /\ C \in SUBSET C
      /\ "ps2hdd" \in Loaded \ {"mx4sio", "dev9"} /\ "ps2fs" \in Loaded \ {"mx4sio", "dev9"}
  BY DEF Loaded, Marks
<1>2. Ready(loadAtaBlockDriver, C, D, u)
  BY AtaBrings
<1> HIDE DEF D
<1>3. Ready(<<a>>, D, E, u)
  BY <1>1, LoadBrings
<1> HIDE DEF E
<1>4. Ready(<<b>>, E, F, u)
  BY <1>1, LoadBrings
<1> HIDE DEF F, G
<1>5. load_ps2hdd_stack = loadAtaBlockDriver \o <<a, b>>
  BY DEF load_ps2hdd_stack
<1> HIDE DEF a, b
<1>7. Ready(<<a, b>>, D, F, u)
  BY <1>3, <1>4, ReadyTwo
<1>8. Ready(load_ps2hdd_stack, C, F, u)
  BY <1>2, <1>5, <1>7, ReadyBehind
<1> QED
  BY <1>1, <1>8, ReadyWeaker DEF G
-----------------------------------------------------------------------------
(* The state that the tokens are about.                                    *)

Marked(C) ==
  /\ C \cap Loaded \subseteq have
  /\ "mc1free" \in C => "mx4sio" \notin resident
  /\ "unstarted" \in C => "ps2kbd" \notin resident

(* What is resident is known to be; what a stack stands on is there; and    *)
(* nothing but the keyboard driver was started again.                      *)
Once ==
  /\ resident \subseteq have
  /\ "dev9" \in have <=> "dev9tried" \in have
  /\ "mx4sio" \in have => {"bdm", "bdmfs"} \subseteq have
  /\ again \subseteq (IF KbdFile \in Resetting THEN {"ps2kbd"} ELSE {})

Arranging == \E C \in SUBSET Marks : Marked(C) /\ Ready(todo, C, {}, setup)
Sure == setup.flaky = {}
ReadyInv == Sure => Arranging /\ Once

(* What is loaded, and what of C is not about modules. *)
Here(C) == (have \cap Loaded) \cup (C \ Loaded)

LEMMA HereMarked ==
  ASSUME NEW C \in SUBSET Marks, Marked(C)
  PROVE  Here(C) \in SUBSET Marks /\ Marked(Here(C)) /\ C \in SUBSET Here(C)
BY DEF Here, Marked, Marks, Loaded

(* The next step, and what it is given. *)
Given(C) ==
  /\ todo # <<>> /\ C \in SUBSET Marks /\ Marked(C)
  /\ Head(todo) \in Steps /\ Finds(Head(todo), C, setup)
  /\ Ready(Tail(todo), Passed(C, Head(todo), setup), {}, setup)

LEMMA GivenStep ==
  ASSUME Arranging, todo # <<>>
  PROVE  \E C \in SUBSET Marks : Given(C)
<1>1. PICK D \in SUBSET Marks : Marked(D) /\ Ready(todo, D, {}, setup)
  BY DEF Arranging
<1>2. /\ Head(todo) \in Steps
      /\ \E C \in SUBSET D : Finds(Head(todo), C, setup) /\ Ready(Tail(todo), Passed(C, Head(todo), setup), {}, setup)
  BY <1>1, ReadyFirst
<1>3. PICK C \in SUBSET D : Finds(Head(todo), C, setup) /\ Ready(Tail(todo), Passed(C, Head(todo), setup), {}, setup)
  BY <1>2
<1>4. C \in SUBSET Marks /\ Marked(C)
  BY <1>1 DEF Marked
<1> QED
  BY <1>2, <1>3, <1>4 DEF Given

(* The step is done, *)
LEMMA ReadyDone ==
  ASSUME NEW C, Given(C), Return, setup' = setup,
         NEW D \in SUBSET Marks, D = Passed(C, Head(todo), setup), Marked(D)'
  PROVE  Arranging'
BY DEF Given, Return, Arranging

(* or is replaced by those of its body. *)
LEMMA ReadyReplaced ==
  ASSUME NEW C, Given(C), NEW body, Then(body), setup' = setup,
         NEW D \in SUBSET Marks, Marked(D)', Ready(body, D, Passed(C, Head(todo), setup), setup)
  PROVE  Arranging'
<1>1. Ready(body \o Tail(todo), D, {}, setup)
  BY ReadyBehind DEF Given
<1>2. Ready(todo', D, {}, setup')
  BY <1>1 DEF Then
<1> QED
  BY <1>2 DEF Arranging

(* Where nothing that the tokens are about has changed. *)
LEMMA StillMarked ==
  ASSUME NEW C, NEW D \in SUBSET C, Marked(C), UNCHANGED <<have, resident>>
  PROVE  Marked(D)'
BY DEF Marked

LEMMA StillOnce ==
  ASSUME Once, UNCHANGED <<setup, have, resident, again>>
  PROVE  Once'
BY DEF Once, KbdFile

(* What is left of the tokens behind a call that may reset the IOP. *)
LEMMA CallLeaves ==
  ASSUME NEW u, NEW C \in SUBSET Marks, NEW x, Resets(x), x.op # "ensureMc1"
  PROVE  /\ Passed(C, x, u) \in SUBSET C /\ Passed(C, x, u) \in SUBSET {"mc1free", "unstarted"}
         /\ "mc1free" \in Passed(C, x, u) =>
              ~OnMx(u) /\ "mc1free" \in C /\ ~(x.op \in {"genFixPath", "deviceReady"} /\ x.on = "mx4sio")
         /\ "unstarted" \in Passed(C, x, u) => x.op = "genFixPath" /\ x.on \notin Resetting
<1>1. \A k \in Loaded : Drops(k, x, u)
  BY DEF Drops
<1>2. \A k : ~Brings(k, C, x, u)
  BY DEF Brings, Resets, CallOps
<1>3. /\ "mc1free" \in Passed(C, x, u) => ~Drops("mc1free", x, u) /\ "mc1free" \in C
      /\ "unstarted" \in Passed(C, x, u) => ~Drops("unstarted", x, u)
  BY <1>2 DEF Passed
<1>4. /\ ~Drops("mc1free", x, u) => ~OnMx(u) /\ ~(x.op \in {"genFixPath", "deviceReady"} /\ x.on = "mx4sio")
      /\ ~Drops("unstarted", x, u) => x.op = "genFixPath" /\ x.on \notin Resetting
  BY DEF Drops
<1>5. Passed(C, x, u) \in SUBSET C /\ \A k \in Passed(C, x, u) : k \in Marks /\ k \notin Loaded
  BY <1>1, <1>2 DEF Passed
<1> QED
  BY <1>3, <1>4, <1>5 DEF Marks

(* A call whose body relies on nothing. *)
LEMMA CallReady ==
  ASSUME NEW C, Given(C), Resets(Head(todo)), Head(todo).op \notin {"ensureMc1", "genFixPath"},
         NEW body \in Seq(Easy(setup)), Then(body), UNCHANGED <<setup, have, resident>>,
         \/ OnMx(setup)
         \/ Head(todo).op = "deviceReady" /\ Head(todo).on = "mx4sio"
         \/ body \in Seq(Gentle(setup))
  PROVE  Arranging'
<1> DEFINE x == Head(todo)
           P == Passed(C, x, setup)
<1>1. C \in SUBSET Marks /\ Marked(C)
  BY DEF Given
<1>0. Resets(x) /\ x.op \notin {"ensureMc1", "genFixPath"}
  OBVIOUS
<1> HIDE DEF x
<1>2. /\ P \in SUBSET C /\ P \in SUBSET {"mc1free"}
      /\ "mc1free" \in P => ~OnMx(setup) /\ "mc1free" \in C /\ ~(x.op = "deviceReady" /\ x.on = "mx4sio")
  <2>1. /\ P \in SUBSET C /\ P \in SUBSET {"mc1free", "unstarted"}
        /\ "mc1free" \in P =>
             ~OnMx(setup) /\ "mc1free" \in C /\ ~(x.op \in {"genFixPath", "deviceReady"} /\ x.on = "mx4sio")
        /\ "unstarted" \in P => x.op = "genFixPath" /\ x.on \notin Resetting
    BY <1>0, <1>1, CallLeaves
  <2> HIDE DEF P
  <2> QED
    BY <1>0, <2>1
<1>3. Ready(body, C, P, setup)
  <2> HIDE DEF P
  <2>1. CASE "mc1free" \in P
    <3>1. body \in Seq(Gentle(setup))
      BY <1>2, <2>1 DEF x
    <3>2. Ready(body, C, {"mc1free"}, setup)
      BY <1>1, <1>2, <2>1, <3>1, GentlePath
    <3>3. C \in SUBSET C
      OBVIOUS
    <3> QED
      BY <1>2, <3>2, <3>3, ReadyWeaker
  <2>2. CASE "mc1free" \notin P
    <3>1. P = {}
      BY <1>2, <2>2
    <3> QED
      BY <1>1, <3>1, EasyPath
  <2> QED
    BY <2>1, <2>2
<1>4. Marked(C)'
  BY <1>1 DEF Marked
<1> QED
  BY <1>1, <1>3, <1>4, ReadyReplaced DEF x
-----------------------------------------------------------------------------
(* The calls.                                                              *)
Kept == UNCHANGED <<setup, have, resident, again>>

(* A reset leaves the slot of mc1: free, unless the keyboard needs MX4SIO. *)
LEMMA ResetFrees ==
  ASSUME NEW u, NEW C \in SUBSET Marks, ~OnMx(u)
  PROVE  Ready(resetRuntimeDeviceState, C, {"mc1free"}, u)
<1> DEFINE x == Do("Reset")
           D == {"mc1free"}
           k == <<Do("startKbd")>>
<1>1. "none" \in Names /\ "Reset" \in Ops /\ {} \in SUBSET Names
  BY NamesOf DEF Ops
<1>2. x \in Steps /\ x.op = "Reset"
  BY <1>1, Parts DEF Do
<1>3. Ready(ensureCoreIoStackReady, D, D, u)
  <2>1. D \in SUBSET Marks
    BY DEF Marks
  <2> QED
    BY <2>1, CalmBodies, CalmPath
<1>4. Ready(k, D, D, u)
  <2>1. "startKbd" \in (CallOps \ {"switchBlock"}) \cup {"Reset", "signerReboot"}
    BY DEF CallOps
  <2>2. On("startKbd", "none") \in Gentle(u)
    BY <1>1, <2>1, CallsGentle
  <2>3. k \in Seq(Gentle(u))
    BY <2>2 DEF Do, On
  <2>4. D \in SUBSET Marks /\ "mc1free" \in D
    BY DEF Marks
  <2> QED
    BY <2>3, <2>4, GentlePath
<1> HIDE DEF x
<1>5. Ready(<<x>>, C, D, u)
  <2>1. Finds(x, C, u)
    BY <1>2 DEF Finds
  <2>2. Brings("mc1free", C, x, u)
    BY <1>2 DEF Brings
  <2>3. D \in SUBSET Marks /\ D \subseteq Passed(C, x, u)
    BY <2>2 DEF Marks, Passed
  <2> QED
    BY <1>2, <2>1, <2>3, ReadyOne
<1> HIDE DEF D, k
<1>6. Ready((<<x>> \o ensureCoreIoStackReady) \o k, C, D, u)
  BY <1>3, <1>4, <1>5, ReadyBehind
<1> QED
  BY <1>6 DEF x, D, k, resetRuntimeDeviceState

LEMMA SwitchStorageReady ==
  ASSUME NEW C, Given(C), Once, SwitchStorageDriverStack, setup' = setup
  PROVE  Arranging' /\ Once'
<1> DEFINE body == When(storage \notin {Arg, "default"}, resetRuntimeDeviceState)
<1>1. Then(body) /\ Kept /\ Head(todo).op = "switchStorage"
  BY DEF SwitchStorageDriverStack, Kept, Now
<1>2. body \in Seq(Gentle(setup))
  BY GentleBodies DEF When
<1> HIDE DEF body
<1> QED
  BY <1>1, <1>2, Kinds, CallReady, StillOnce DEF Kept, Resets, CallOps

LEMMA GetIpConfigReady ==
  ASSUME NEW C, Given(C), Once, GetIpConfig, setup' = setup
  PROVE  Arranging' /\ Once'
<1>1. Kept /\ Head(todo).op = "getIpConfig" /\ (Return \/ Then(<<>>) \/ Then(<<On("genFixPath", "mc1")>>))
  BY DEF GetIpConfig, Kept, Now, When
<1>2. <<>> \in Seq(Gentle(setup)) /\ <<On("genFixPath", "mc1")>> \in Seq(Gentle(setup))
  <2>1. "genFixPath" \in CallOps \ {"switchBlock"} /\ "mc1" \in Names
    BY DEF CallOps, Names, Devices
  <2>2. On("genFixPath", "mc1") \in Gentle(setup)
    BY <2>1, CallsGentle
  <2> QED
    BY <2>2
<1>3. Return => Then(<<>>)
  BY DEF Return, Then, Given, Ready
<1> QED
  BY <1>1, <1>2, <1>3, Kinds, CallReady, StillOnce DEF Kept, Resets, CallOps

LEMMA SwitchNetworkReady ==
  ASSUME NEW C, Given(C), Once, SwitchNetworkStack, setup' = setup, Arg \in Names
  PROVE  Arranging' /\ Once'
<1> DEFINE body == resetRuntimeDeviceState \o <<On("networkMode", Arg)>>
<1>1. Kept /\ Head(todo).op = "switchNetwork" /\ (Return \/ Then(body))
  BY DEF SwitchNetworkStack, Kept, Now
<1>2. <<>> \in Seq(Gentle(setup)) /\ body \in Seq(Gentle(setup))
  <2>1. On("networkMode", Arg) \in Gentle(setup)
    BY CalmSteps, Kinds, NamesOf DEF On
  <2>2. <<On("networkMode", Arg)>> \in Seq(Gentle(setup))
    BY <2>1
  <2> QED
    BY <2>2, GentleBodies, ConcatProperties
<1>3. Return => Then(<<>>)
  BY DEF Return, Then, Given, Ready
<1> HIDE DEF body
<1> QED
  BY <1>1, <1>2, <1>3, Kinds, CallReady, StillOnce DEF Kept, Resets, CallOps

LEMMA StartKbdReady ==
  ASSUME NEW C, Given(C), Once, StartKbd, setup' = setup
  PROVE  Arranging' /\ Once'
<1> DEFINE S == Gentle(setup)
           last == <<Load("usbd", {}), Do("loadKbd"), Do("kbdInit")>>
           body == When(KbdUsed /\ ~kbdOpen, When(KbdFile = "mass", loadUsbModules) \o ensureCoreIoStackReady \o last)
<1>1. Then(body) /\ Kept /\ Head(todo).op = "startKbd"
  BY DEF StartKbd, Kept, Now
<1>2. last \in Seq(S)
  <2>1. "usbd" \in Names \ {"mx4sio"} /\ {} \in SUBSET Names /\ "none" \in Names
    BY NamesOf DEF Names, Checked
  <2>2. "loadKbd" \in CallOps \ {"switchBlock"} /\ "kbdInit" \in CallOps \ {"switchBlock"}
    BY DEF CallOps
  <2>3. Load("usbd", {}) \in S
    BY <2>1, CalmSteps, Kinds DEF Load
  <2>4. Do("loadKbd") \in S /\ Do("kbdInit") \in S
    BY <2>1, <2>2, CallsGentle DEF Do, On
  <2> QED
    BY <2>3, <2>4
<1>3. loadUsbModules \in Seq(S) /\ ensureCoreIoStackReady \in Seq(S)
  BY CalmBodies, Kinds
<1> HIDE DEF S, last
<1>4. body \in Seq(S)
  BY <1>2, <1>3, ConcatProperties DEF When
<1> HIDE DEF body
<1> QED
  BY <1>1, <1>4, Kinds, CallReady, StillOnce DEF S, Kept, Resets, CallOps

LEMMA KbdInitReady ==
  ASSUME NEW C, Given(C), Once, KbdInit, setup' = setup
  PROVE  Arranging' /\ Once'
<1> DEFINE S == Gentle(setup)
           body == When(KbdMap = "mass", loadUsbModules) \o <<Do("kbdMap")>>
<1>1. (Return \/ Then(body)) /\ Kept /\ Head(todo).op = "kbdInit"
  BY DEF KbdInit, Kept, Now
<1>2. Do("kbdMap") \in S
  <2>1. "kbdMap" \in CallOps \ {"switchBlock"} /\ "none" \in Names
    BY NamesOf DEF CallOps
  <2> QED
    BY <2>1, CallsGentle DEF Do, On
<1>3. loadUsbModules \in Seq(S) /\ <<>> \in Seq(S)
  BY CalmBodies, Kinds
<1>4. body \in Seq(S)
  BY <1>2, <1>3 DEF When
<1>5. Return => Then(<<>>)
  BY DEF Return, Then, Given, Ready
<1> HIDE DEF body
<1> QED
  BY <1>1, <1>3, <1>4, <1>5, Kinds, CallReady, StillOnce DEF Kept, Resets, CallOps

LEMMA LoadKbdMapReady ==
  ASSUME NEW C, Given(C), Once, LoadKbdMap, setup' = setup, setup \in Setups
  PROVE  Arranging' /\ Once'
<1> DEFINE body == When("ps2kbd" \in resident, getExternalFilePath(KbdMap))
<1>1. Then(body) /\ Kept /\ Head(todo).op = "kbdMap"
  BY DEF LoadKbdMap, Kept, Now
<1>2. getExternalFilePath(KbdMap) \in Seq(Gentle(setup)) /\ <<>> \in Seq(Gentle(setup))
  <2>1. KbdMap \in Names /\ (KbdMap # "mx4sio" \/ OnMx(setup))
    BY SetupAssumption, NamesOf DEF KbdMap, OnMx
  <2> QED
    BY <2>1, DeviceBodies
<1>3. body \in Seq(Gentle(setup))
  BY <1>2 DEF When
<1> HIDE DEF body
<1> QED
  BY <1>1, <1>3, Kinds, CallReady, StillOnce DEF Kept, Resets, CallOps

LEMMA DeviceReadyReady ==
  ASSUME NEW C, Given(C), Once, DeviceReady, setup' = setup
  PROVE  Arranging' /\ Once'
<1> DEFINE body == loadDeviceStackForPath(Arg)
<1>1. Then(body) /\ Kept /\ Head(todo).op = "deviceReady" /\ Arg = Head(todo).on
  BY DEF DeviceReady, Kept, Now, Arg
<1>2. Arg \in Names
  BY <1>1 DEF Given, Steps
<1>3. body \in Seq(Easy(setup)) /\ (Arg # "mx4sio" \/ OnMx(setup) => body \in Seq(Gentle(setup)))
  BY <1>2, DeviceBodies
<1> HIDE DEF body
<1> QED
  BY <1>1, <1>3, CallReady, StillOnce DEF Kept, Resets, CallOps

(* switchBlockStorageStack has nothing to leave: the two stacks go together. *)
LEMMA SwitchBlockReady ==
  ASSUME NEW C, Given(C), Once, Safe, SwitchBlockStorageStack, setup' = setup
  PROVE  Arranging' /\ Once'
<1> DEFINE P == Passed(C, Head(todo), setup)
<1>1. Kept /\ Head(todo).op = "switchBlock" /\ Arg = Head(todo).on
  BY DEF SwitchBlockStorageStack, Kept, Now, Arg
<1>2. Arg \in {"ata", "hdd"} /\ block \subseteq {"ata", "hdd"}
  BY <1>1 DEF Given, Finds, Safe, ModesProven
<1>3. Arg \notin block /\ block # {} => block \cup {Arg} = {"hdd", "ata"}
  BY <1>2
<1>4. Then(<<>>)
  BY <1>3 DEF SwitchBlockStorageStack, When
<1>5. P \in SUBSET C /\ P \in SUBSET Marks
  BY <1>1 DEF Passed, Brings, Given
<1> HIDE DEF P
<1>6. PICK D \in SUBSET Marks : D = P
  BY <1>5
<1>7. Marked(D)' /\ Ready(<<>>, D, D, setup)
  BY <1>1, <1>5, <1>6, ReadyNothing, StillMarked DEF Given, Kept
<1>8. Ready(<<>>, D, Passed(C, Head(todo), setup), setup)
  BY <1>6, <1>7 DEF P
<1> QED
  BY <1>1, <1>4, <1>7, <1>8, ReadyReplaced, StillOnce DEF Kept

(* ensureMemoryCardPortAccessible: MX4SIO is gone where it was there. *)
LEMMA EnsureMc1Ready ==
  ASSUME NEW C, Given(C), Once, EnsureMemoryCardPortAccessible, setup' = setup
  PROVE  Arranging' /\ Once'
<1> DEFINE x == Head(todo)
           P == Passed(C, x, setup)
           gone == storage # "mx4sio" /\ "mx4sio" \notin have
           body == When(storage = "mx4sio" \/ "mx4sio" \in have, resetRuntimeDeviceState)
<1>1. Then(body) /\ Kept /\ x.op = "ensureMc1" /\ C \in SUBSET Marks /\ Marked(C)
  BY DEF EnsureMemoryCardPortAccessible, Kept, Now, Given
<1> HIDE DEF x
<1>2. P \in SUBSET {"mc1free"} /\ ("mc1free" \in P => ~OnMx(setup))
  <2>1. \A k \in Marks : k # "mc1free" => Drops(k, x, setup) /\ ~Brings(k, C, x, setup)
    BY <1>1 DEF Drops, Brings, Resets, CallOps, Marks, Resetting
  <2>2. "mc1free" \in P => ~OnMx(setup)
    BY <1>1 DEF Passed, Drops, Brings, Resets, CallOps, Loaded
  <2> QED
    BY <2>1, <2>2 DEF Passed
<1> HIDE DEF P
<1>3. PICK D \in SUBSET Marks : D = P
  BY <1>2 DEF Marks
<1>4. CASE gone
  <2>1. body = <<>> /\ "mx4sio" \notin resident
    BY <1>4 DEF When, Once
  <2>2. Marked(D)'
    BY <1>1, <1>2, <1>3, <2>1 DEF Marked, Loaded, Kept
  <2>3. Ready(<<>>, D, Passed(C, Head(todo), setup), setup)
    BY <1>3, ReadyNothing DEF P, x
  <2> HIDE DEF body
  <2> QED
    BY <1>1, <2>1, <2>2, <2>3, ReadyReplaced, StillOnce DEF Kept
<1>5. CASE ~gone
  <2>1. body = resetRuntimeDeviceState
    BY <1>5 DEF When
  <2>2. Marked(C)'
    BY <1>1 DEF Marked, Kept
  <2>3. Ready(resetRuntimeDeviceState, C, P, setup)
    <3>1. CASE "mc1free" \in P
      <4>1. P = {"mc1free"}
        BY <1>2, <3>1
      <4> QED
        BY <1>1, <1>2, <3>1, <4>1, ResetFrees
    <3>2. CASE "mc1free" \notin P
      <4>1. P = {}
        BY <1>2, <3>2
      <4>2. resetRuntimeDeviceState \in Seq(Easy(setup))
        BY GentleBodies, Kinds
      <4> QED
        BY <1>1, <4>1, <4>2, EasyPath
    <3> QED
      BY <3>1, <3>2
  <2> HIDE DEF body
  <2> QED
    BY <1>1, <2>1, <2>2, <2>3, ReadyReplaced, StillOnce DEF Kept, P, x
<1> QED
  BY <1>4, <1>5

(* loadKbdModules: the driver is not resident when it is looked for, nor   *)
(* when it is started, unless the file is where a reset may come between.  *)
LEMMA LoadKbdReady ==
  ASSUME NEW C, Given(C), Once, LoadKbdModules, setup' = setup, setup \in Setups
  PROVE  Arranging' /\ Once'
<1> DEFINE x == Head(todo)
           y == Do("loadExternal")
           path == getExternalFilePath(KbdFile)
           body == When("usbd" \in have /\ "ps2kbd" \notin have, path \o <<y>>)
           P == Passed(C, x, setup)
<1>1. Then(body) /\ Kept /\ x.op = "loadKbd" /\ C \in SUBSET Marks /\ Marked(C) /\ Resets(x)
  BY DEF LoadKbdModules, Kept, Now, Given, Resets, CallOps
<1> HIDE DEF x
<1>2. KbdFile \in Names /\ KbdFile = setup.kbdFile /\ (KbdFile # "mx4sio" \/ OnMx(setup))
  BY SetupAssumption, NamesOf DEF KbdFile, OnMx
<1>3. path \in Seq(Gentle(setup)) /\ <<>> \in Seq(Gentle(setup))
  BY <1>2, DeviceBodies
<1>4. y \in Steps /\ y.op = "loadExternal"
  BY NamesOf, Parts DEF Do, Ops
<1> HIDE DEF y
<1>5. CASE "usbd" \in have /\ "ps2kbd" \notin have /\ KbdFile \notin Resetting
  <2>1. P \in SUBSET C /\ P \in SUBSET {"mc1free"} /\ ("mc1free" \in P => ~OnMx(setup))
    <3>1. /\ P \in SUBSET C /\ P \in SUBSET {"mc1free", "unstarted"}
          /\ "mc1free" \in P => ~OnMx(setup)
          /\ "unstarted" \in P => x.op = "genFixPath"
      BY <1>1, CallLeaves
    <3> HIDE DEF P
    <3> QED
      BY <1>1, <3>1
  <2> HIDE DEF P
  <2>0. PICK D \in SUBSET Marks : D = P \cup {"unstarted"}
    BY <2>1 DEF Marks
  <2>2. D \in SUBSET Marks /\ P \in SUBSET D /\ P \in SUBSET P
    BY <2>0
  <2>3. Marked(D)'
    BY <1>1, <1>5, <2>0, <2>1 DEF Marked, Once, Kept, Loaded
  <2>4. Ready(path, D, D, setup)
    <3> DEFINE z == On("genFixPath", KbdFile)
    <3>1. z \in Steps /\ z.op = "genFixPath" /\ z.on = KbdFile
      BY <1>2, NamesOf, Parts DEF On, Ops, CallOps
    <3> HIDE DEF z
    <3>2. \A k \in D : ~Drops(k, z, setup)
      BY <1>5, <2>0, <2>1, <3>1 DEF Drops, Resetting, Loaded
    <3>3. Finds(z, D, setup) /\ D \subseteq Passed(D, z, setup)
      BY <2>2, <3>1, <3>2 DEF Finds, Passed
    <3>4. Ready(<<z>>, D, D, setup)
      BY <2>2, <3>1, <3>3, ReadyOne
    <3>5. Ready(<<>>, D, D, setup) /\ Ready(loadHddModules, D, D, setup) /\ Ready(loadDVRPHddModules, D, D, setup)
      BY <2>2, ReadyNothing, CalmBodies, CalmPath
    <3> QED
      BY <3>4, <3>5 DEF getExternalFilePath, z
  <2>5. Ready(<<y>>, D, P, setup)
    <3>1. Finds(y, D, setup)
      BY <1>4, <2>0 DEF Finds
    <3>2. \A k \in P : ~Drops(k, y, setup)
      BY <1>4, <2>1 DEF Drops, Resets, CallOps, Loaded
    <3>3. P \in SUBSET Marks /\ P \subseteq Passed(D, y, setup)
      BY <2>1, <2>2, <3>2 DEF Passed
    <3> QED
      BY <1>4, <2>2, <3>1, <3>3, ReadyOne
  <2>6. body = path \o <<y>>
    BY <1>5 DEF When
  <2> HIDE DEF path, body
  <2>7. Ready(body, D, P, setup)
    BY <2>4, <2>5, <2>6, ReadyBehind
  <2> QED
    BY <1>1, <2>2, <2>3, <2>7, ReadyReplaced, StillOnce DEF Kept, P, x
<1>6. CASE ~("usbd" \in have /\ "ps2kbd" \notin have) \/ KbdFile \in Resetting
  <2>1. KbdFile \in Resetting => y \in Gentle(setup)
    BY <1>2, <1>4 DEF Gentle, Easy, Finds
  <2>2. KbdFile \in Resetting => <<y>> \in Seq(Gentle(setup))
    BY <2>1
  <2> HIDE DEF path
  <2>3. body \in Seq(Gentle(setup))
    BY <1>3, <1>6, <2>2, ConcatProperties DEF When
  <2> HIDE DEF body
  <2> QED
    BY <1>1, <2>3, Kinds, CallReady, StillOnce DEF Kept, x
<1> QED
  BY <1>5, <1>6
-----------------------------------------------------------------------------
(* genFixPath: the path is handed out with its driver resident.            *)

LEMMA Handed ==
  ASSUME NEW u, NEW s, NEW C, NEW D \in SUBSET Marks, NEW P \in SUBSET D, NEW d \in Names, Ready(s, C, D, u),
         d \in DOMAIN StackOf => StackOf[d] \subseteq D, d = "mc1" /\ ~OnMx(u) => "mc1free" \in D
  PROVE  Ready(s \o <<On("use", d)>>, C, P, u)
<1>1. Ready(<<On("use", d)>>, D, D, u)
  BY UseReady
<1>2. Ready(s \o <<On("use", d)>>, C, D, u)
  BY <1>1, ReadyBehind
<1>3. C \in SUBSET C
  OBVIOUS
<1> QED
  BY <1>2, <1>3, ReadyWeaker

(* The stacks of the disks, where they are not there. *)
LEMMA AtaStack ==
  ASSUME NEW u, NEW C \in SUBSET Marks, ~({"bdm", "bdmfs", "ata_bd"} \subseteq have)
  PROVE  Ready(loadAtaModules, C, C \cup {"bdm", "bdmfs", "dev9", "ata_bd"}, u)
<1> DEFINE D == C \cup {"bdm", "bdmfs", "dev9", "ata_bd"}
           before == (<<On("switchBlock", "ata")>> \o ensureCoreIoStackReady) \o setupPowerOff
           behind == <<Step("blockMode", "ata", {"ata_bd"})>>
<1>1. <<On("switchBlock", "ata")>> \in Seq(Calm(u)) /\ behind \in Seq(Calm(u))
  <2>1. {} \in SUBSET Names /\ {"ata_bd"} \in SUBSET Names /\ "ata" \in Names
    BY NamesOf DEF Names, Checked
  <2>2. On("switchBlock", "ata") \in Calm(u) /\ Step("blockMode", "ata", {"ata_bd"}) \in Calm(u)
    BY <2>1, CalmSteps DEF On
  <2> QED
    BY <2>2
<1>2. before \in Seq(Calm(u))
  BY <1>1, CalmBodies, ConcatProperties
<1>3. D \in SUBSET Marks
  BY DEF Marks, Loaded
<1>4. loadAtaModules = (before \o loadAtaBlockDriver) \o behind
  BY DEF loadAtaModules
<1> HIDE DEF before, behind
<1>5. Ready(before, C, C, u) /\ Ready(behind, D, D, u)
  BY <1>1, <1>2, <1>3, CalmPath
<1>6. Ready(loadAtaBlockDriver, C, D, u)
  BY AtaBrings
<1> HIDE DEF D
<1> QED
  BY <1>4, <1>5, <1>6, ReadyBehind DEF D

LEMMA HddStack ==
  ASSUME NEW u, NEW C \in SUBSET Marks, "HDD" \notin have
  PROVE  Ready(loadHddModules, C, {"ps2hdd", "ps2fs"} \cup C, u)
<1> DEFINE D == {"ps2hdd", "ps2fs"} \cup C
           before == <<On("switchBlock", "hdd")>> \o ensureCoreIoStackReady
           flag == <<Flag("HDD", {"ps2hdd", "ps2fs"})>>
           behind == <<Step("blockMode", "hdd", {"HDD"})>>
<1>1. <<On("switchBlock", "hdd")>> \in Seq(Calm(u)) /\ behind \in Seq(Calm(u)) /\ flag \in Seq(Calm(u))
  <2>1. /\ {} \in SUBSET Names /\ {"HDD"} \in SUBSET Names /\ {"ps2hdd", "ps2fs"} \in SUBSET Names
        /\ "hdd" \in Names /\ "HDD" \in Names
    BY NamesOf DEF Names, Checked, Flags
  <2>2. /\ On("switchBlock", "hdd") \in Calm(u) /\ Step("blockMode", "hdd", {"HDD"}) \in Calm(u)
        /\ Flag("HDD", {"ps2hdd", "ps2fs"}) \in Calm(u)
    BY <2>1, CalmSteps DEF On, Flag
  <2> QED
    BY <2>2
<1>2. before \in Seq(Calm(u)) /\ setupPowerOff \in Seq(Calm(u))
  BY <1>1, CalmBodies, ConcatProperties
<1>3. D \in SUBSET Marks
  BY DEF Marks, Loaded
<1>4. loadHddModules = (before \o ((setupPowerOff \o load_ps2hdd_stack) \o flag)) \o behind
  BY DEF loadHddModules, When
<1> HIDE DEF before, behind, flag
<1>5. Ready(before, C, C, u) /\ Ready(setupPowerOff, C, C, u) /\ Ready(behind, D, D, u) /\ Ready(flag, D, D, u)
  BY <1>1, <1>2, <1>3, CalmPath
<1>6. Ready(load_ps2hdd_stack, C, D, u)
  BY HddBrings
<1> HIDE DEF D
<1> QED
  BY <1>4, <1>5, <1>6, ReadyBehind DEF D

(* The stacks that exclude each other. *)
LEMMA MmceStack ==
  ASSUME NEW u, NEW C \in SUBSET Marks, NEW P \in SUBSET C, P \in SUBSET {"mc1free"}, P = {} \/ ~OnMx(u)
  PROVE  Ready(loadMmceModules, C, P \cup {"mmce"}, u)
<1> DEFINE D == P \cup {"mmce"}
           a == <<On("switchStorage", "mmce")>>
           b == <<Load("mmce", {})>>
           c == <<On("storageMode", "mmce")>>
<1>1. "mmce" \in Names /\ {} \in SUBSET Names /\ "switchStorage" \in CallOps \ {"switchBlock"}
  BY NamesOf DEF CallOps
<1>2. a \in Seq(Gentle(u)) /\ c \in Seq(Calm(u))
  <2>1. On("switchStorage", "mmce") \in Gentle(u)
    BY <1>1, CallsGentle
  <2>2. On("storageMode", "mmce") \in Calm(u)
    BY <1>1, CalmSteps DEF On
  <2> QED
    BY <2>1, <2>2
<1>3. P \in SUBSET Marks /\ D \in SUBSET Marks
  BY DEF Marks, Loaded
<1>4. Ready(ensureCoreIoStackReady, C, C, u) /\ Ready(c, D, D, u)
  BY <1>2, <1>3, CalmBodies, CalmPath
<1>5. Ready(a, C, P, u)
  <2>1. CASE P = {}
    BY <1>2, <2>1, EasyPath, Kinds
  <2>2. CASE P # {}
    <3>1. P = {"mc1free"} /\ "mc1free" \in C /\ ~OnMx(u)
      BY <2>2
    <3> QED
      BY <1>2, <3>1, GentlePath
  <2> QED
    BY <2>1, <2>2
<1>6. Ready(b, P, D, u)
  <2>1. "mmce" \in Loaded \ {"mx4sio", "dev9"} /\ {} \in SUBSET (P \cap Loaded)
    BY DEF Loaded
  <2> QED
    BY <1>3, <2>1, LoadBrings
<1> DEFINE x == On("switchStorage", "mmce")
           y == Load("mmce", {})
           z == On("storageMode", "mmce")
<1>7. loadMmceModules = ensureCoreIoStackReady \o <<x, y, z>> /\ a = <<x>> /\ b = <<y>> /\ c = <<z>>
  BY DEF loadMmceModules
<1> HIDE DEF D, a, b, c, x, y, z
<1>8. Ready(<<y, z>>, P, D, u)
  BY <1>4, <1>6, <1>7, ReadyTwo
<1>9. Ready(<<x, y, z>>, C, D, u)
  BY <1>5, <1>7, <1>8, Three, ReadyBehind
<1> QED
  BY <1>4, <1>7, <1>9, ReadyBehind DEF D

LEMMA Mx4sioStack ==
  ASSUME NEW u, NEW C \in SUBSET Marks
  PROVE  Ready(loadMx4sioModules, C, {"bdm", "bdmfs", "mx4sio"}, u)
<1> DEFINE D == {"bdm", "bdmfs"}
           E == {"bdm", "bdmfs", "mx4sio"}
           a == <<On("switchStorage", "mx4sio")>>
           y == Load("mx4sio", {"bdm", "bdmfs"})
           z == On("storageMode", "mx4sio")
<1>1. "mx4sio" \in Names /\ {} \in SUBSET Names /\ "switchStorage" \in CallOps \ {"switchBlock"}
  BY NamesOf DEF CallOps
<1>2. a \in Seq(Easy(u)) /\ <<z>> \in Seq(Calm(u))
  <2>1. On("switchStorage", "mx4sio") \in Easy(u)
    BY <1>1, CallsGentle
  <2>2. z \in Calm(u)
    BY <1>1, CalmSteps DEF On
  <2> QED
    BY <2>1, <2>2
<1>3. {} \in SUBSET Marks /\ E \in SUBSET Marks /\ {} \cup D = D
  BY DEF Marks, Loaded
<1>4. Ready(ensureCoreIoStackReady, C, C, u) /\ Ready(a, C, {}, u) /\ Ready(<<z>>, E, E, u)
  BY <1>2, <1>3, CalmBodies, CalmPath, EasyPath
<1>5. Ready(loadBdmCoreModules, {}, D, u)
  <2>1. Ready(loadBdmCoreModules, {}, {} \cup {"bdm", "bdmfs"}, u)
    BY <1>3, BdmBrings
  <2> QED
    BY <1>3, <2>1
<1>6. Ready(<<y>>, D, E, u)
  BY MxBrings
<1>7. loadMx4sioModules = ((ensureCoreIoStackReady \o a) \o loadBdmCoreModules) \o <<y, z>>
  BY DEF loadMx4sioModules
<1> HIDE DEF D, E, a, y, z
<1>8. Ready(<<y, z>>, D, E, u)
  BY <1>4, <1>6, ReadyTwo
<1> QED
  BY <1>4, <1>5, <1>7, <1>8, ReadyBehind DEF E

(* What genFixPath does before it hands out the path. *)
Fixing(d) == CASE d = "mc1" -> <<Do("ensureMc1")>>
               [] d = "mass" -> loadUsbModules
               [] d = "ata" -> loadAtaModules
               [] d = "mx4sio" -> When("mx4sio" \notin have, loadMx4sioModules)
               [] d = "mmce" -> loadMmceModules
               [] d = "hdd" -> When("hdd" \notin parties,
                                    loadHddModules \o <<Step("partyList", "hdd", {"HDD"})>>)
               [] d = "dvr" -> When(PSX /\ "dvr" \notin parties,
                                    loadDVRPHddModules \o <<Step("partyList", "dvr", {"DVRP"})>>)
               [] OTHER -> << >>

LEMMA FixPathReady ==
  ASSUME NEW C \in SUBSET Marks, C \cap Loaded = have \cap Loaded, Once, Safe, NEW d \in Names,
         NEW P \in SUBSET C, P \in SUBSET {"mc1free", "unstarted"},
         "mc1free" \in P => ~OnMx(setup) /\ d # "mx4sio", "unstarted" \in P => d \notin Resetting
  PROVE  Ready(genFixPath(d), C, P, setup)
<1>1. genFixPath(d) = Fixing(d) \o <<On("use", d)>>
  BY DEF genFixPath, Fixing
<1>2. /\ DOMAIN StackOf = {"mmce", "mx4sio", "mass", "ata", "hdd"}
      /\ StackOf["mmce"] = {"mmce"} /\ StackOf["mx4sio"] = {"mx4sio", "bdm", "bdmfs"}
      /\ StackOf["mass"] = {"usbd", "bdm", "bdmfs", "usb_mass"} /\ StackOf["ata"] = {"bdm", "bdmfs", "ata_bd"}
      /\ StackOf["hdd"] = {"ps2hdd", "ps2fs"}
  BY StackFacts
<1>3. Ready(<<>>, C, C, setup) /\ \A s \in Seq(Calm(setup)) : Ready(s, C, C, setup)
  BY ReadyNothing, CalmPath
<1>4. \A k \in Loaded : k \in have => k \in C
  OBVIOUS
<1>5. /\ <<Step("partyList", "hdd", {"HDD"})>> \in Seq(Calm(setup))
      /\ <<Step("partyList", "dvr", {"DVRP"})>> \in Seq(Calm(setup))
  <2>1. "hdd" \in Names /\ "dvr" \in Names /\ {"HDD"} \in SUBSET Names /\ {"DVRP"} \in SUBSET Names
    BY DEF Names, Devices, Flags
  <2>2. Step("partyList", "hdd", {"HDD"}) \in Calm(setup) /\ Step("partyList", "dvr", {"DVRP"}) \in Calm(setup)
    BY <2>1, CalmSteps
  <2> QED
    BY <2>2
<1>6. ASSUME NEW D \in SUBSET Marks, P \in SUBSET D, Ready(Fixing(d), C, D, setup),
             d \in DOMAIN StackOf => StackOf[d] \subseteq D, d = "mc1" /\ ~OnMx(setup) => "mc1free" \in D
      PROVE  Ready(genFixPath(d), C, P, setup)
  BY <1>1, <1>6, Handed
<1>7. CASE d = "mc1"
  <2> DEFINE x == Do("ensureMc1")
  <2>1. x \in Steps /\ x.op = "ensureMc1"
    BY NamesOf, Parts DEF Do, Ops, CallOps
  <2> HIDE DEF x
  <2>2. PICK D \in SUBSET Marks : D = IF OnMx(setup) THEN {} ELSE {"mc1free"}
    BY DEF Marks
  <2>3. Finds(x, C, setup) /\ D \subseteq Passed(C, x, setup)
    BY <2>1, <2>2 DEF Finds, Passed, Brings
  <2>4. Ready(<<x>>, C, D, setup)
    BY <2>1, <2>3, ReadyOne
  <2>5. P \in SUBSET D
    BY <1>7, <2>2 DEF Resetting
  <2>6. Fixing(d) = <<x>>
    BY <1>7 DEF Fixing, x
  <2> QED
    BY <1>2, <1>6, <1>7, <2>2, <2>4, <2>5, <2>6
<1>8. CASE d = "mass"
  <2>1. PICK D \in SUBSET Marks : D = C \cup {"usbd", "bdm", "bdmfs", "usb_mass"}
    BY DEF Marks, Loaded
  <2>2. Ready(Fixing(d), C, D, setup)
    BY <1>8, <2>1, UsbBrings DEF Fixing
  <2>3. P \in SUBSET D /\ StackOf[d] \subseteq D
    BY <1>2, <1>8, <2>1
  <2> QED
    BY <1>6, <1>8, <2>2, <2>3
<1>9. CASE d = "ata"
  <2>1. Fixing(d) = loadAtaModules
    BY <1>9 DEF Fixing
  <2>2. CASE {"bdm", "bdmfs", "ata_bd"} \subseteq have
    <3>1. Ready(loadAtaModules, C, C, setup)
      BY <1>3, CalmBodies
    <3>2. StackOf[d] \subseteq C
      BY <1>2, <1>4, <1>9, <2>2 DEF Loaded
    <3>3. P \in SUBSET C
      OBVIOUS
    <3> QED
      BY <1>6, <1>9, <2>1, <3>1, <3>2, <3>3
  <2>3. CASE ~({"bdm", "bdmfs", "ata_bd"} \subseteq have)
    <3>1. PICK D \in SUBSET Marks : D = C \cup {"bdm", "bdmfs", "dev9", "ata_bd"}
      BY DEF Marks, Loaded
    <3>2. Ready(loadAtaModules, C, D, setup)
      BY <2>3, <3>1, AtaStack
    <3>3. P \in SUBSET D /\ StackOf[d] \subseteq D
      BY <1>2, <1>9, <3>1
    <3> QED
      BY <1>6, <1>9, <2>1, <3>2, <3>3
  <2> QED
    BY <2>2, <2>3
<1>10. CASE d = "mx4sio"
  <2>1. P = {}
    BY <1>10 DEF Resetting
  <2>2. CASE "mx4sio" \in have
    <3>1. Fixing(d) = <<>>
      BY <1>10, <2>2 DEF Fixing, When
    <3>2. {"bdm", "bdmfs"} \subseteq have
      BY <2>2 DEF Once
    <3>3. StackOf[d] \subseteq C
      BY <1>2, <1>4, <1>10, <2>2, <3>2 DEF Loaded
    <3> QED
      BY <1>3, <1>6, <1>10, <2>1, <3>1, <3>3
  <2>3. CASE "mx4sio" \notin have
    <3>1. PICK D \in SUBSET Marks : D = {"bdm", "bdmfs", "mx4sio"}
      BY DEF Marks, Loaded
    <3>2. Fixing(d) = loadMx4sioModules
      BY <1>10, <2>3 DEF Fixing, When
    <3>3. Ready(Fixing(d), C, D, setup)
      BY <3>1, <3>2, Mx4sioStack
    <3>4. P \in SUBSET D /\ StackOf[d] \subseteq D
      BY <1>2, <1>10, <2>1, <3>1
    <3> QED
      BY <1>6, <1>10, <3>3, <3>4
  <2> QED
    BY <2>2, <2>3
<1>11. CASE d = "mmce"
  <2>1. P \in SUBSET {"mc1free"} /\ (P = {} \/ ~OnMx(setup))
    BY <1>11 DEF Resetting
  <2>2. PICK D \in SUBSET Marks : D = P \cup {"mmce"}
    BY <2>1 DEF Marks, Loaded
  <2>3. Ready(Fixing(d), C, D, setup)
    BY <1>11, <2>1, <2>2, MmceStack DEF Fixing
  <2>4. P \in SUBSET D /\ StackOf[d] \subseteq D
    BY <1>2, <1>11, <2>2
  <2> QED
    BY <1>6, <1>11, <2>3, <2>4
<1>12. CASE d = "hdd"
  <2>0. Fixing(d) = When("hdd" \notin parties, loadHddModules \o <<Step("partyList", "hdd", {"HDD"})>>)
    BY <1>12 DEF Fixing
  <2>1. CASE {"ps2hdd", "ps2fs"} \subseteq have
    <3>1. Ready(<<>>, C, C, setup) /\ Ready(loadHddModules \o <<Step("partyList", "hdd", {"HDD"})>>, C, C, setup)
      BY <1>3, <1>5, CalmBodies, ReadyBehind
    <3>2. StackOf[d] \subseteq C
      BY <1>2, <1>4, <1>12, <2>1 DEF Loaded
    <3>3. P \in SUBSET C
      OBVIOUS
    <3>4. Ready(Fixing(d), C, C, setup)
      BY <2>0, <3>1 DEF When
    <3> QED
      BY <1>6, <1>12, <3>2, <3>3, <3>4
  <2>2. CASE ~({"ps2hdd", "ps2fs"} \subseteq have)
    <3>1. "HDD" \notin have /\ "hdd" \notin parties
      BY <2>2 DEF Once, Safe, ModesProven
    <3>2. PICK D \in SUBSET Marks : D = {"ps2hdd", "ps2fs"} \cup C
      BY DEF Marks, Loaded
    <3>3. Ready(loadHddModules, C, D, setup)
      BY <3>1, <3>2, HddStack
    <3>4. Ready(<<Step("partyList", "hdd", {"HDD"})>>, D, D, setup)
      BY <1>5, CalmPath
    <3>5. Ready(Fixing(d), C, D, setup)
      BY <2>0, <3>1, <3>3, <3>4, ReadyBehind DEF When
    <3>6. P \in SUBSET D /\ StackOf[d] \subseteq D
      BY <1>2, <1>12, <3>2
    <3> QED
      BY <1>6, <1>12, <3>5, <3>6
  <2> QED
    BY <2>1, <2>2
<1>13. CASE d \notin {"mc1", "mass", "ata", "mx4sio", "mmce", "hdd"}
  <2>1. Fixing(d) = (IF d = "dvr"
                       THEN When(PSX /\ "dvr" \notin parties,
                                 loadDVRPHddModules \o <<Step("partyList", "dvr", {"DVRP"})>>)
                       ELSE <<>>)
    BY <1>13 DEF Fixing
  <2>2. Ready(loadDVRPHddModules \o <<Step("partyList", "dvr", {"DVRP"})>>, C, C, setup)
    BY <1>3, <1>5, CalmBodies, ReadyBehind
  <2>3. Ready(Fixing(d), C, C, setup)
    BY <1>3, <2>1, <2>2 DEF When
  <2> QED
    BY <1>2, <1>6, <1>13, <2>3
<1> QED
  BY <1>7, <1>8, <1>9, <1>10, <1>11, <1>12, <1>13

LEMMA GenFixPathReady ==
  ASSUME NEW C, Given(C), Once, Safe, GenFixPath, setup' = setup
  PROVE  Arranging' /\ Once'
<1> DEFINE x == Head(todo)
           P == Passed(C, x, setup)
           body == genFixPath(Arg)
<1>1. /\ Then(body) /\ Kept /\ x.op = "genFixPath" /\ x.on = Arg /\ Arg \in Names
      /\ C \in SUBSET Marks /\ Marked(C) /\ Resets(x)
  BY DEF GenFixPath, Kept, Now, Arg, Given, Steps, Resets, CallOps
<1> HIDE DEF x
<1>2. /\ P \in SUBSET C /\ P \in SUBSET {"mc1free", "unstarted"}
      /\ "mc1free" \in P => ~OnMx(setup) /\ Arg # "mx4sio"
      /\ "unstarted" \in P => Arg \notin Resetting
  BY <1>1, CallLeaves
<1>3. Here(C) \in SUBSET Marks /\ Marked(Here(C)) /\ C \in SUBSET Here(C)
  BY <1>1, HereMarked
<1> HIDE DEF P
<1>4. PICK D \in SUBSET Marks : D = Here(C)
  BY <1>3
<1>5. Marked(D)' /\ P \in SUBSET D
  BY <1>1, <1>2, <1>3, <1>4 DEF Marked, Kept
<1>6. D \cap Loaded = have \cap Loaded
  BY <1>4 DEF Here
<1>7. Ready(body, D, P, setup)
  BY <1>1, <1>2, <1>5, <1>6, FixPathReady
<1> HIDE DEF body
<1> QED
  BY <1>1, <1>5, <1>7, ReadyReplaced, StillOnce DEF Kept, P, x
-----------------------------------------------------------------------------
(* The steps that touch the IOP, or only the mode of a stack.              *)

(* A step that leaves the modules alone. *)
LEMMA PlainReady ==
  ASSUME NEW C, Given(C), Once, Return, Kept,
         Head(todo).op \in {"storageMode", "blockMode", "networkMode", "partyList", "use"}
  PROVE  Arranging' /\ Once'
<1> DEFINE x == Head(todo)
           P == Passed(C, x, setup)
<1>1. P \in SUBSET C /\ P \in SUBSET Marks
  BY DEF Passed, Brings
<1>2. PICK D \in SUBSET C : D = P
  BY <1>1
<1>3. Marked(D)' /\ D \in SUBSET Marks
  BY <1>1, <1>2, StillMarked DEF Given, Kept
<1> HIDE DEF P
<1>4. D = Passed(C, Head(todo), setup)
  BY <1>2 DEF P
<1> QED
  BY <1>3, <1>4, ReadyDone, StillOnce DEF Kept

(* A module is started, and its flag says so. *)
Starts(m) ==
  /\ have' = have \cup {m}
  /\ resident' = resident \cup {m}
  /\ again' = again \cup ({m} \cap resident)
SameModules == UNCHANGED <<have, resident, again>>

LEMMA LoadReady ==
  ASSUME NEW C, Given(C), Once, Sure, LoadModule, setup' = setup,
         Arg \in Checked \cup {"vmcman", "xfrom", "hdl_info"}
  PROVE  Arranging' /\ Once'
<1> DEFINE x == Head(todo)
           P == Passed(C, x, setup)
<1>1. x.op = "load" /\ x.on = Arg /\ Return /\ C \in SUBSET Marks /\ Marked(C) /\ Finds(x, C, setup)
  BY DEF LoadModule, Now, Arg, Given
<1>2. IF Arg \notin have /\ x.needs \subseteq have THEN Starts(Arg) ELSE SameModules
  <2>1. Outcomes(Arg) = {"resident"} /\ "resident" \in Accepted(Arg)
    BY DEF Sure, Outcomes, Flaky, Accepted
  <2> QED
    BY <2>1 DEF LoadModule, Needed, SifExecModule, Starts, SameModules
<1>3. Arg \notin {"dev9", "dev9tried", "ps2kbd"}
  BY DEF Checked, EthModules, UdpfsModules
<1> HIDE DEF x
<1>4. Once'
  <2>1. Arg = "mx4sio" => {"bdm", "bdmfs"} \subseteq x.needs
    BY <1>1 DEF Finds
  <2> QED
    BY <1>2, <1>3, <2>1 DEF Once, Starts, SameModules, KbdFile
<1>5. PICK D \in SUBSET Marks : D = P
  BY DEF Passed
<1>6. Marked(D)'
  <2>1. have \subseteq have'
    BY <1>2 DEF Starts, SameModules
  <2>2. ASSUME NEW k \in D, k \in Loaded
        PROVE  k \in have'
    <3>1. k \in C \/ (x.on = k /\ x.needs \subseteq C \cap Loaded)
      BY <1>1, <1>5, <2>2 DEF Passed, Brings
    <3>2. CASE k \in C
      BY <1>1, <2>1, <2>2, <3>2 DEF Marked
    <3>3. CASE x.on = k /\ x.needs \subseteq C \cap Loaded
      BY <1>1, <1>2, <3>3 DEF Marked, Starts, SameModules
    <3> QED
      BY <3>1, <3>2, <3>3
  <2>3. "mc1free" \in D => "mc1free" \in C /\ Arg # "mx4sio"
    BY <1>1, <1>5 DEF Passed, Drops, Brings, Loaded
  <2>4. "unstarted" \in D => "unstarted" \in C
    BY <1>1, <1>5 DEF Passed, Brings, Loaded
  <2>5. resident' \subseteq resident \cup {Arg}
    BY <1>2 DEF Starts, SameModules
  <2> QED
    BY <1>1, <1>3, <2>2, <2>3, <2>4, <2>5 DEF Marked
<1> HIDE DEF P
<1>7. D = Passed(C, Head(todo), setup)
  BY <1>5 DEF P, x
<1> QED
  BY <1>1, <1>4, <1>6, <1>7, ReadyDone

LEMMA LoadDev9Ready ==
  ASSUME NEW C, Given(C), Once, Sure, LoadDev9, setup' = setup
  PROVE  Arranging' /\ Once'
<1> DEFINE x == Head(todo)
           P == Passed(C, x, setup)
<1>1. x.op = "dev9" /\ Return /\ C \in SUBSET Marks /\ Marked(C)
  BY DEF LoadDev9, Now, Given
<1>2. /\ "dev9tried" \notin have /\ x.needs \subseteq have =>
           /\ have' = have \cup {"dev9tried", "dev9"} /\ resident' = resident \cup {"dev9"}
           /\ again' = again \cup ({"dev9"} \cap resident)
      /\ ~("dev9tried" \notin have /\ x.needs \subseteq have) => SameModules
  <2>1. Outcomes("dev9") = {"resident"}
    BY DEF Sure, Outcomes, Flaky
  <2> QED
    BY <2>1 DEF LoadDev9, Needed, SifExecModule, SameModules
<1> HIDE DEF x
<1>3. Once'
  BY <1>2 DEF Once, SameModules, KbdFile
<1>4. PICK D \in SUBSET Marks : D = P
  BY DEF Passed
<1>5. Marked(D)'
  <2>1. have \subseteq have' /\ resident' \subseteq resident \cup {"dev9"}
    BY <1>2 DEF SameModules
  <2>2. ASSUME NEW k \in D, k \in Loaded
        PROVE  k \in have'
    <3>1. k \in C \/ (k = "dev9" /\ x.needs \subseteq C \cap Loaded)
      BY <1>1, <1>4, <2>2 DEF Passed, Brings
    <3>2. CASE k \in C
      BY <1>1, <2>1, <2>2, <3>2 DEF Marked
    <3>3. CASE k = "dev9" /\ x.needs \subseteq C \cap Loaded
      BY <1>1, <1>2, <3>3 DEF Marked, SameModules, Once
    <3> QED
      BY <3>1, <3>2, <3>3
  <2>3. ("mc1free" \in D => "mc1free" \in C) /\ ("unstarted" \in D => "unstarted" \in C)
    BY <1>1, <1>4 DEF Passed, Brings
  <2> QED
    BY <1>1, <2>1, <2>2, <2>3 DEF Marked
<1> HIDE DEF P
<1>6. D = Passed(C, Head(todo), setup)
  BY <1>4 DEF P, x
<1> QED
  BY <1>1, <1>3, <1>5, <1>6, ReadyDone

(* Steps that start a module no token is about, or set or clear a flag of none. *)
LEMMA BesideReady ==
  ASSUME NEW C, Given(C), Once, setup' = setup, NEW body \in Seq(Calm(setup)), Then(body),
         Head(todo).op \in {"core", "setupPowerOff", "flag", "vmcmanProbe"},
         have \cap (Loaded \cup {"dev9tried"}) = have' \cap (Loaded \cup {"dev9tried"}),
         resident' \subseteq have', again' = again, resident' \subseteq resident \cup {"basic", "poweroff"}
  PROVE  Arranging' /\ Once'
<1> DEFINE x == Head(todo)
           P == Passed(C, x, setup)
<1>1. P \in SUBSET C /\ P \in SUBSET Marks /\ Marked(C)
  BY DEF Passed, Brings, Given
<1>2. PICK D \in SUBSET Marks : D = P
  BY <1>1
<1>3. Once'
  BY DEF Once, Loaded, KbdFile
<1>4. Marked(D)'
  BY <1>1, <1>2 DEF Marked
<1>5. Ready(body, D, D, setup)
  BY CalmPath
<1> HIDE DEF P
<1>6. Ready(body, D, Passed(C, Head(todo), setup), setup)
  BY <1>2, <1>5 DEF P
<1> QED
  BY <1>3, <1>4, <1>6, ReadyReplaced

LEMMA EnsureCoreReady ==
  ASSUME NEW C, Given(C), Once, EnsureCore, setup' = setup
  PROVE  Arranging' /\ Once'
<1>1. Then(<<>>) /\ <<>> \in Seq(Calm(setup)) /\ Head(todo).op = "core"
  BY DEF EnsureCore, Now, Return, Then, Given, Ready
<1>2. /\ have' = have \cup {"basic", "filexio", "mcrpc"} /\ again' = again
      /\ resident' \subseteq resident \cup {"basic"}
  BY DEF EnsureCore, SifExecModule, Once
<1>3. /\ have \cap (Loaded \cup {"dev9tried"}) = have' \cap (Loaded \cup {"dev9tried"})
      /\ resident' \subseteq have'
  BY <1>2 DEF Loaded, Once
<1> QED
  BY <1>1, <1>2, <1>3, BesideReady

LEMMA SetupPowerOffReady ==
  ASSUME NEW C, Given(C), Once, Sure, SetupPowerOff, setup' = setup
  PROVE  Arranging' /\ Once'
<1> DEFINE body == <<Do("dev9"), Flag("donePowerOff", {})>>
<1>1. (Return \/ Then(body)) /\ Head(todo).op = "setupPowerOff"
  BY DEF SetupPowerOff, Now
<1>2. Return => Then(<<>>)
  BY DEF Return, Then, Given, Ready
<1>3. body \in Seq(Calm(setup)) /\ <<>> \in Seq(Calm(setup))
  <2>1. "none" \in Names /\ {} \in SUBSET Names /\ "donePowerOff" \in Names
    BY NamesOf DEF Names, Flags
  <2>2. Do("dev9") \in Calm(setup) /\ Flag("donePowerOff", {}) \in Calm(setup)
    BY <2>1, CalmSteps DEF Do, Flag
  <2> QED
    BY <2>2
<1>4. /\ have' \in {have, have \cup {"poweroff"}} /\ again' = again
      /\ resident' \subseteq resident \cup {"poweroff"} /\ resident' \subseteq have'
  <2>1. CASE "donePowerOff" \in have
    BY <2>1 DEF SetupPowerOff, Once
  <2>2. CASE "donePowerOff" \notin have
    <3>1. /\ have' = have \cup {"poweroff"}
          /\ \E outcome \in IF "poweroff" \in have THEN {"none"} ELSE Outcomes("poweroff") :
               SifExecModule("poweroff", outcome)
      BY <2>2 DEF SetupPowerOff
    <3>2. Outcomes("poweroff") = {"resident"}
      BY DEF Sure, Outcomes, Flaky
    <3>3. "poweroff" \in have => resident' = resident /\ again' = again
      BY <3>1 DEF SifExecModule
    <3>4. "poweroff" \notin have => resident' = resident \cup {"poweroff"} /\ again' = again
      BY <3>1, <3>2 DEF SifExecModule, Once
    <3> QED
      BY <3>1, <3>3, <3>4 DEF Once
  <2> QED
    BY <2>1, <2>2
<1>5. have \cap (Loaded \cup {"dev9tried"}) = have' \cap (Loaded \cup {"dev9tried"})
  BY <1>4 DEF Loaded
<1> HIDE DEF body
<1> QED
  BY <1>1, <1>2, <1>3, <1>4, <1>5, BesideReady

LEMMA SetFlagReady ==
  ASSUME NEW C, Given(C), Once, SetFlag, setup' = setup, Arg \in Flags
  PROVE  Arranging' /\ Once'
<1>1. Then(<<>>) /\ <<>> \in Seq(Calm(setup)) /\ Head(todo).op = "flag"
  BY DEF SetFlag, Now, Return, Then, Given, Ready
<1>2. have' \in {have, have \cup {Arg}} /\ again' = again /\ resident' = resident
  BY DEF SetFlag
<1>3. /\ have \cap (Loaded \cup {"dev9tried"}) = have' \cap (Loaded \cup {"dev9tried"})
      /\ resident' \subseteq have'
  BY <1>2 DEF Loaded, Once, Flags
<1> QED
  BY <1>1, <1>2, <1>3, BesideReady

LEMMA VmcmanProbeReady ==
  ASSUME NEW C, Given(C), Once, VmcmanProbe, setup' = setup
  PROVE  Arranging' /\ Once'
<1>1. Then(<<>>) /\ <<>> \in Seq(Calm(setup)) /\ Head(todo).op = "vmcmanProbe"
  BY DEF VmcmanProbe, Now, Return, Then, Given, Ready
<1>2. /\ have' = IF "vmcman" \in resident THEN have ELSE have \ {"vmcman"}
      /\ again' = again /\ resident' = resident
  BY DEF VmcmanProbe
<1>3. /\ have \cap (Loaded \cup {"dev9tried"}) = have' \cap (Loaded \cup {"dev9tried"})
      /\ resident' \subseteq have'
  BY <1>2 DEF Loaded, Once
<1> QED
  BY <1>1, <1>2, <1>3, BesideReady

(* The driver of the keyboard, the one module that may be started again. *)
LEMMA LoadExternalReady ==
  ASSUME NEW C, Given(C), Once, Sure, LoadExternalModule, setup' = setup
  PROVE  Arranging' /\ Once'
<1> DEFINE x == Head(todo)
           P == Passed(C, x, setup)
<1>1. x.op = "loadExternal" /\ Return /\ C \in SUBSET Marks /\ Marked(C) /\ Finds(x, C, setup)
  BY DEF LoadExternalModule, Now, Given
<1>2. Starts("ps2kbd")
  <2>1. Outcomes("ps2kbd") = {"resident"}
    BY DEF Sure, Outcomes, Flaky
  <2> QED
    BY <2>1 DEF LoadExternalModule, SifExecModule, Starts
<1> HIDE DEF x
<1>3. KbdFile \notin Resetting => "ps2kbd" \notin resident
  BY <1>1 DEF Finds, Marked, KbdFile
<1>4. Once'
  BY <1>2, <1>3 DEF Once, Starts, KbdFile
<1>5. PICK D \in SUBSET Marks : D = P
  BY DEF Passed
<1>6. Marked(D)'
  <2>1. D \subseteq C /\ "unstarted" \notin D
    BY <1>1, <1>5 DEF Passed, Brings, Drops
  <2> QED
    BY <1>1, <1>2, <2>1 DEF Marked, Starts
<1> HIDE DEF P
<1>7. D = Passed(C, Head(todo), setup)
  BY <1>5 DEF P, x
<1> QED
  BY <1>1, <1>4, <1>6, <1>7, ReadyDone

(* A reset, and the reboot for the signer. *)
LEMMA ResetsReady ==
  ASSUME NEW C, Given(C), setup' = setup, Head(todo).op \in {"Reset", "signerReboot"},
         NEW body \in Seq(Calm(setup)), Then(body), have' = {}, resident' = {}, again' = {}
  PROVE  Arranging' /\ Once'
<1> DEFINE x == Head(todo)
           P == Passed(C, x, setup)
<1>1. \A k \in Loaded : Drops(k, x, setup) /\ ~Brings(k, C, x, setup)
  BY DEF Drops, Brings, Loaded
<1>2. P \in SUBSET Marks /\ P \cap Loaded = {}
  BY <1>1 DEF Passed
<1>3. PICK D \in SUBSET Marks : D = P
  BY <1>2
<1>4. Once'
  BY DEF Once
<1>5. Marked(D)'
  BY <1>2, <1>3 DEF Marked
<1>6. Ready(body, D, D, setup)
  BY CalmPath
<1> HIDE DEF P
<1>7. Ready(body, D, Passed(C, Head(todo), setup), setup)
  BY <1>3, <1>6 DEF P
<1> QED
  BY <1>4, <1>5, <1>7, ReadyReplaced

LEMMA ResetReady ==
  ASSUME NEW C, Given(C), Reset, setup' = setup
  PROVE  Arranging' /\ Once'
<1>1. Then(<<>>) /\ <<>> \in Seq(Calm(setup)) /\ Head(todo).op = "Reset"
  BY DEF Reset, Now, Return, Then, Given, Ready
<1> QED
  BY <1>1, ResetsReady DEF Reset, clearIopModuleState

LEMMA SignerRebootReady ==
  ASSUME NEW C, Given(C), Sure, SignerReboot, setup' = setup
  PROVE  Arranging' /\ Once'
<1> DEFINE body == ensureCoreIoStackReady \o loadSecrSifModule \o <<Flag("signer", {"secrsif"})>>
<1>1. Then(body) /\ Head(todo).op = "signerReboot" /\ have' = {} /\ resident' = {} /\ again' = {}
  BY DEF SignerReboot, Now, clearIopModuleState, Sure, Flaky
<1>2. body \in Seq(Calm(setup))
  <2>1. "signer" \in Names /\ {"secrsif"} \in SUBSET Names
    BY DEF Names, Flags, Checked
  <2>2. Flag("signer", {"secrsif"}) \in Calm(setup)
    BY <2>1, CalmSteps DEF Flag
  <2>3. <<Flag("signer", {"secrsif"})>> \in Seq(Calm(setup))
    BY <2>2
  <2> QED
    BY <2>3, CalmBodies, ConcatProperties
<1> HIDE DEF body
<1> QED
  BY <1>1, <1>2, ResetsReady
-----------------------------------------------------------------------------
(* The start of the program, and the calls of the user interface: their     *)
(* bodies rely on nothing.                                                 *)

LEMMA EasyCalls ==
  ASSUME NEW u
  PROVE  /\ \A op \in {"genFixPath", "deviceReady", "startKbd", "getIpConfig"}, d \in Names : On(op, d) \in Easy(u)
         /\ \A op \in {"startKbd", "getIpConfig", "Reset"} : Do(op) \in Easy(u)
         /\ Load("hdl_info", {}) \in Easy(u)
<1>1. "none" \in Names /\ {} \in SUBSET Names /\ "hdl_info" \in Names \ {"mx4sio"}
  BY NamesOf DEF Names
<1>2. ASSUME NEW op \in {"genFixPath", "deviceReady", "startKbd", "getIpConfig", "Reset"}, NEW d \in Names
      PROVE  On(op, d) \in Easy(u)
  <2>1. op \in (CallOps \ {"switchBlock"}) \cup {"Reset", "signerReboot"}
    BY DEF CallOps
  <2> QED
    BY <2>1, CallsGentle
<1>3. Load("hdl_info", {}) \in Easy(u)
  BY <1>1, CalmSteps, Kinds DEF Load
<1> QED
  BY <1>1, <1>2, <1>3 DEF Do, On

LEMMA BeginningReady ==
  ASSUME Once, NEW body, Call(body), body \in Seq(Easy(setup))
  PROVE  Arranging' /\ Once'
<1>1. todo' = body /\ Kept
  BY DEF Call, Kept
<1>2. {} \in SUBSET Marks /\ Marked({})'
  BY DEF Marked
<1>3. Ready(body, {}, {}, setup)
  BY <1>2, EasyPath
<1>4. Ready(todo', {}, {}, setup')
  BY <1>1, <1>3 DEF Kept
<1> QED
  BY <1>1, <1>2, <1>4, StillOnce DEF Arranging, Kept

LEMMA BeginReady ==
  ASSUME Once, Safe, Begin
  PROVE  Arranging' /\ Once'
<1> DEFINE S == Easy(setup)
<1>1. Paths \subseteq Names /\ "udpfs" \in Names
  BY SetupAssumption, NamesOf DEF Safe, Paths
<1>2. /\ \A op \in {"genFixPath", "deviceReady"}, d \in Names : On(op, d) \in S
      /\ Do("startKbd") \in S /\ Do("Reset") \in S /\ Load("hdl_info", {}) \in S
  BY EasyCalls
<1>3. /\ resetRuntimeDeviceState \in Seq(S) /\ ensureCoreIoStackReady \in Seq(S) /\ load_vmcman \in Seq(S)
      /\ loadNetModules \in Seq(S) /\ prepareExploitSignerIop \in Seq(S) /\ setupPowerOff \in Seq(S)
      /\ loadSecrSifModule \in Seq(S)
  BY CalmBodies, GentleBodies, Kinds
<1>4. \A d \in Names : ensurePathDeviceStackReady(d) \in Seq(S)
  BY DeviceBodies
<1>5. /\ \A d \in Names : <<On("genFixPath", d)>> \in Seq(S) /\ <<On("deviceReady", d)>> \in Seq(S)
      /\ \A d, e \in Names : <<On("deviceReady", d), On("deviceReady", e)>> \in Seq(S)
      /\ <<Do("startKbd")>> \in Seq(S) /\ <<Do("Reset")>> \in Seq(S) /\ <<Load("hdl_info", {})>> \in Seq(S)
  BY <1>2
<1>6. ASSUME NEW body, Call(body), body \in Seq(S)
      PROVE  Arranging' /\ Once'
  BY <1>6, BeginningReady
<1> HIDE DEF S
<1>7. CASE OpenPath
  <2>1. PICK d \in Paths : Call(<<On("genFixPath", d)>>)
    BY <1>7 DEF OpenPath
  <2> QED
    BY <1>1, <1>5, <1>6, <2>1
<1>8. CASE EnsurePathDeviceStackReady
  <2>1. PICK d \in Paths : Call(ensurePathDeviceStackReady(d))
    BY <1>8 DEF EnsurePathDeviceStackReady
  <2> QED
    BY <1>1, <1>4, <1>6, <2>1
<1>9. CASE PrepareTransferDeviceStacks
  <2>1. PICK d \in Paths, e \in Paths : Call(<<On("deviceReady", d), On("deviceReady", e)>>)
    BY <1>9 DEF PrepareTransferDeviceStacks
  <2> QED
    BY <1>1, <1>5, <1>6, <2>1
<1>10. CASE RebootIopAndLoadDeviceStackForPath
  <2>1. PICK d \in Paths : Call((<<Do("Reset")>> \o ensureCoreIoStackReady) \o <<On("deviceReady", d)>>)
    BY <1>10 DEF RebootIopAndLoadDeviceStackForPath
  <2>2. (<<Do("Reset")>> \o ensureCoreIoStackReady) \o <<On("deviceReady", d)>> \in Seq(S)
    BY <1>1, <1>3, <1>5, ConcatProperties
  <2> QED
    BY <1>6, <2>1, <2>2
<1>11. CASE ReloadUdpfsModules
  <2>1. resetRuntimeDeviceState \o <<On("deviceReady", "udpfs")>> \in Seq(S)
    BY <1>1, <1>3, <1>5, ConcatProperties
  <2> QED
    BY <1>6, <1>11, <2>1 DEF ReloadUdpfsModules
<1>12. CASE \/ RebootIopAndReloadCoreStack \/ LoadVmcman \/ LoadNetModules \/ PrepareExploitSignerIop \/ ReadPad
            \/ PowerOffMenu \/ LoadHdlInfoModule \/ LoadSecrSifModule
  BY <1>3, <1>5, <1>6, <1>12 DEF RebootIopAndReloadCoreStack, LoadVmcman, LoadNetModules, PrepareExploitSignerIop,
     ReadPad, PowerOffMenu, LoadHdlInfoModule, LoadSecrSifModule
<1> QED
  BY <1>7, <1>8, <1>9, <1>10, <1>11, <1>12 DEF Begin

LEMMA InitReady ==
  ASSUME Init
  PROVE  ReadyInv
<1> DEFINE S == Easy(setup)
           k == <<Do("startKbd")>>
           c == Do("getIpConfig")
<1>1. PICK d \in Boots :
        todo = (ensureCoreIoStackReady \o (IF d = "host" THEN <<c, On("deviceReady", d)>> ELSE <<On("deviceReady", d), c>>))
               \o k
  BY DEF Init
<1>2. d \in Names
  BY SetupAssumption, NamesOf DEF Init, Boots
<1>3. On("deviceReady", d) \in S /\ c \in S /\ Do("startKbd") \in S
  BY <1>2, EasyCalls
<1>4. <<c, On("deviceReady", d)>> \in Seq(S) /\ <<On("deviceReady", d), c>> \in Seq(S) /\ k \in Seq(S)
  BY <1>3
<1>5. ensureCoreIoStackReady \in Seq(S)
  BY CalmBodies, Kinds
<1> HIDE DEF c, k, S
<1>6. todo \in Seq(S)
  BY <1>1, <1>4, <1>5, ConcatProperties
<1>7. Ready(todo, {}, {}, setup)
  BY <1>6, EasyPath DEF S
<1>8. {} \in SUBSET Marks /\ Marked({})
  BY DEF Marked
<1>9. Once
  BY DEF Init, Once
<1> QED
  BY <1>7, <1>8, <1>9 DEF ReadyInv, Arranging
-----------------------------------------------------------------------------
(* Every step. *)
LEMMA StepReady ==
  ASSUME IndInv, ReadyInv, [Next]_vars
  PROVE  ReadyInv'
<1> SUFFICES ASSUME Sure, Arranging, Once
             PROVE  Arranging' /\ Once'
  <2>1. setup' = setup
    BY DEF Next, Continue, Begin, vars, Call, OpenPath, EnsurePathDeviceStackReady, PrepareTransferDeviceStacks,
       RebootIopAndReloadCoreStack, RebootIopAndLoadDeviceStackForPath, LoadVmcman, LoadNetModules,
       PrepareExploitSignerIop, ReadPad, PowerOffMenu, LoadHdlInfoModule, LoadSecrSifModule, ReloadUdpfsModules
  <2> QED
    BY <2>1 DEF ReadyInv, Sure
<1>1. CASE UNCHANGED vars
  <2>1. Kept /\ todo' = todo
    BY <1>1 DEF vars, Kept
  <2>2. PICK C \in SUBSET Marks : Marked(C) /\ Ready(todo, C, {}, setup)
    BY DEF Arranging
  <2>3. Marked(C)' /\ Ready(todo', C, {}, setup')
    BY <2>1, <2>2 DEF Marked, Kept
  <2> QED
    BY <2>1, <2>3, StillOnce DEF Arranging, Kept
<1>2. CASE Begin
  BY <1>2, BeginReady DEF IndInv
<1>3. CASE Continue
  <2>1. todo # <<>> /\ setup' = setup /\ Safe /\ TodoInv /\ setup \in Setups
    BY <1>3 DEF IndInv, Safe, Continue, Now, LoadModule, EnsureCore, LoadDev9, SetupPowerOff, SetFlag, VmcmanProbe, Reset,
       SignerReboot, SwitchStorageDriverStack, StorageMode, SwitchBlockStorageStack, BlockMode, SwitchNetworkStack,
       NetworkMode, EnsureMemoryCardPortAccessible, PartyList, GetIpConfig, StartKbd, LoadKbdModules,
       LoadExternalModule, KbdInit, LoadKbdMap, GenFixPath, UsePath, DeviceReady
  <2>2. PICK C \in SUBSET Marks : Given(C)
    BY <2>1, GivenStep
  <2>3. Known(Head(todo), setup) /\ Arg \in Names
    <3>1. \E K \in SUBSET Tokens : At(K)
      BY <2>1, AtStep
    <3> QED
      BY <3>1 DEF At, KnownSteps, Steps, Arg
  <2>4. CASE LoadModule
    <3>1. Arg \in Checked \cup {"vmcman", "xfrom", "hdl_info"}
      BY <2>3, <2>4 DEF Known, LoadModule, Now, Arg
    <3> QED
      BY <2>1, <2>2, <2>4, <3>1, LoadReady
  <2>5. CASE SetFlag
    <3>1. Arg \in Flags
      BY <2>3, <2>5 DEF Known, SetFlag, Now, Arg, Flags
    <3> QED
      BY <2>1, <2>2, <2>5, <3>1, SetFlagReady
  <2>6. CASE StorageMode \/ BlockMode \/ NetworkMode \/ PartyList \/ UsePath
    <3>1. Return /\ Kept /\ Head(todo).op \in {"storageMode", "blockMode", "networkMode", "partyList", "use"}
      BY <2>1, <2>6 DEF StorageMode, BlockMode, NetworkMode, PartyList, UsePath, Now, Kept
    <3> QED
      BY <2>2, <3>1, PlainReady
  <2>7. CASE EnsureCore \/ LoadDev9 \/ SetupPowerOff \/ VmcmanProbe \/ Reset \/ SignerReboot \/ LoadExternalModule
    BY <2>1, <2>2, <2>7, EnsureCoreReady, LoadDev9Ready, SetupPowerOffReady, VmcmanProbeReady, ResetReady,
       SignerRebootReady, LoadExternalReady
  <2>8. CASE \/ SwitchStorageDriverStack \/ SwitchBlockStorageStack \/ SwitchNetworkStack \/ EnsureMemoryCardPortAccessible
             \/ GetIpConfig \/ StartKbd \/ LoadKbdModules \/ KbdInit \/ LoadKbdMap \/ GenFixPath \/ DeviceReady
    BY <2>1, <2>2, <2>3, <2>8, SwitchStorageReady, SwitchBlockReady, SwitchNetworkReady, EnsureMc1Ready,
       GetIpConfigReady, StartKbdReady, LoadKbdReady, KbdInitReady, LoadKbdMapReady, GenFixPathReady, DeviceReadyReady
  <2> QED
    BY <1>3, <2>4, <2>5, <2>6, <2>7, <2>8 DEF Continue
<1> QED
  BY <1>1, <1>2, <1>3 DEF Next
-----------------------------------------------------------------------------
(* Where every driver starts, each step finds the modules it relies on,    *)
(* and what is resident is known to be.                                    *)
THEOREM ReadyArranged == Spec => []ReadyInv
<1>1. Init => ReadyInv
  BY InitReady
<1>2. IndInv /\ ReadyInv /\ [Next]_vars => ReadyInv'
  BY StepReady
<1> QED
  BY <1>1, <1>2, Arranged, PTL DEF Spec

(* genFixPath hands out a path only with its driver resident, and mc1: only *)
(* with its slot free, whatever was reset on the way (genFixPath of filer.c *)
(* and ensureMemoryCardPortAccessible of init.c).                          *)
THEOREM PathIsReady == Spec => []PathReady
<1>1. IndInv /\ ReadyInv => PathReady
  <2> SUFFICES ASSUME IndInv, ReadyInv, Now("use"), setup.flaky = {}
               PROVE  /\ Arg \in DOMAIN StackOf => StackOf[Arg] \subseteq resident
                      /\ Arg = "mc1" /\ "mx4sio" \notin {KbdFile, KbdMap} => "mx4sio" \notin resident
    BY DEF PathReady
  <2>1. Arranging /\ Once /\ todo # <<>> /\ Head(todo).op = "use" /\ Arg = Head(todo).on
    BY DEF ReadyInv, Sure, Now, Arg
  <2>2. PICK C \in SUBSET Marks : Given(C)
    BY <2>1, GivenStep
  <2>3. /\ Arg \in DOMAIN StackOf => StackOf[Arg] \subseteq C
        /\ Arg = "mc1" /\ ~OnMx(setup) => "mc1free" \in C
    BY <2>1, <2>2 DEF Given, Finds
  <2>4. Arg = "mc1" /\ "mx4sio" \notin {KbdFile, KbdMap} => "mx4sio" \notin resident
    BY <2>2, <2>3 DEF Given, Marked, OnMx, KbdFile, KbdMap
  <2>5. Arg \in DOMAIN StackOf => StackOf[Arg] \subseteq resident
    <3>1. C \cap Loaded \subseteq have /\ have \cap Checked \subseteq resident
      BY <2>2 DEF Given, Marked, IndInv, Safe, ModesProven
    <3>2. Arg \in DOMAIN StackOf => StackOf[Arg] \subseteq Loaded /\ StackOf[Arg] \subseteq Checked
      BY StackFacts DEF Loaded, Checked
    <3> QED
      BY <2>3, <3>1, <3>2
  <2> QED
    BY <2>4, <2>5
<1> QED
  BY <1>1, Arranged, ReadyArranged, PTL

(* No module that starts is started twice in one session of the IOP, but   *)
(* the keyboard driver where its own file may reset it (loadKbdModules).   *)
THEOREM StartedOnce == Spec => []StartOnce
<1>1. ReadyInv => StartOnce
  BY DEF ReadyInv, Sure, Once, Resetting, StartOnce
<1> QED
  BY <1>1, ReadyArranged, PTL
==============================================================================
