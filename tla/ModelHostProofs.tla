---------------------------- MODULE ModelHostProofs ----------------------------
(***************************************************************************)
(* The model lock, for any callers and any keep-alive: HostInv is          *)
(* inductive, and a model in use is loaded and used by one call.           *)
(***************************************************************************)
EXTENDS ModelHost, TLAPS

Process == Callers \union {Detector}

\* Leaving the line: those behind the head keep their order, and the head,
\* who was there once, is gone.
LEMMA TailOfLine ==
    ASSUME NEW s \in Seq(Process), s # <<>>,
           \A i, j \in DOMAIN s : s[i] = s[j] => i = j
    PROVE  /\ Tail(s) \in Seq(Process)
           /\ DOMAIN Tail(s) = 1 .. Len(s) - 1
           /\ \A i \in DOMAIN Tail(s) : i + 1 \in DOMAIN s /\ Tail(s)[i] = s[i + 1]
           /\ \A i, j \in DOMAIN Tail(s) : Tail(s)[i] = Tail(s)[j] => i = j
           /\ \A p \in Process : (\E i \in DOMAIN Tail(s) : Tail(s)[i] = p)
                 <=> (p # Head(s) /\ \E i \in DOMAIN s : s[i] = p)
  <1>1. Len(s) \in Nat /\ Len(s) > 0 /\ DOMAIN s = 1 .. Len(s) /\ Head(s) = s[1]
    OBVIOUS
  <1>2. /\ Tail(s) \in Seq(Process)
        /\ DOMAIN Tail(s) = 1 .. Len(s) - 1
        /\ \A i \in 1 .. Len(s) - 1 : Tail(s)[i] = s[i + 1]
    BY <1>1
  <1>3. \A i \in DOMAIN Tail(s) : i + 1 \in DOMAIN s /\ Tail(s)[i] = s[i + 1]
    BY <1>1, <1>2
  <1>4. \A i, j \in DOMAIN Tail(s) : Tail(s)[i] = Tail(s)[j] => i = j
    BY <1>1, <1>2, <1>3
  <1>5. ASSUME NEW p \in Process
        PROVE  (\E i \in DOMAIN Tail(s) : Tail(s)[i] = p)
                 <=> (p # Head(s) /\ \E i \in DOMAIN s : s[i] = p)
    <2>1. ASSUME NEW i \in DOMAIN Tail(s), Tail(s)[i] = p
          PROVE  p # Head(s) /\ \E k \in DOMAIN s : s[k] = p
      BY <1>1, <1>2, <1>3, <2>1
    <2>2. ASSUME p # Head(s), NEW i \in DOMAIN s, s[i] = p
          PROVE  \E k \in DOMAIN Tail(s) : Tail(s)[k] = p
      <3>1. i # 1 /\ i - 1 \in DOMAIN Tail(s)
        BY <1>1, <1>2, <2>2
      <3>2. Tail(s)[i - 1] = p
        BY <1>1, <1>2, <2>2, <3>1
      <3> QED  BY <3>1, <3>2
    <2> QED  BY <2>1, <2>2
  <1> QED  BY <1>2, <1>3, <1>4, <1>5

\* Joining the line: p comes last, and once.
LEMMA JoinLine ==
    ASSUME NEW s \in Seq(Process), NEW p \in Process,
           \A i \in DOMAIN s : s[i] # p,
           \A i, j \in DOMAIN s : s[i] = s[j] => i = j
    PROVE  /\ Append(s, p) \in Seq(Process)
           /\ \A i, j \in DOMAIN Append(s, p) : Append(s, p)[i] = Append(s, p)[j] => i = j
           /\ \A q \in Process : (\E i \in DOMAIN Append(s, p) : Append(s, p)[i] = q)
                 <=> (q = p \/ \E i \in DOMAIN s : s[i] = q)
           /\ s # <<>> => Append(s, p) # <<>> /\ Head(Append(s, p)) = Head(s)
  <1>1. Len(s) \in Nat /\ DOMAIN s = 1 .. Len(s)
    OBVIOUS
  <1>2. /\ Append(s, p) \in Seq(Process)
        /\ DOMAIN Append(s, p) = 1 .. Len(s) + 1
        /\ \A i \in 1 .. Len(s) : Append(s, p)[i] = s[i]
        /\ Append(s, p)[Len(s) + 1] = p
    BY <1>1
  <1>3. \A i, j \in DOMAIN Append(s, p) : Append(s, p)[i] = Append(s, p)[j] => i = j
    BY <1>1, <1>2
  <1>4. ASSUME NEW q \in Process
        PROVE  (\E i \in DOMAIN Append(s, p) : Append(s, p)[i] = q)
                 <=> (q = p \/ \E i \in DOMAIN s : s[i] = q)
    BY <1>1, <1>2
  <1>5. s # <<>> => Append(s, p) # <<>> /\ Head(Append(s, p)) = Head(s)
    BY <1>1, <1>2
  <1> QED  BY <1>2, <1>3, <1>4, <1>5

LEMMA HostInit == Init => HostInv
  <1> SUFFICES ASSUME Init PROVE HostInv
    OBVIOUS
  <1>1. 0 \in Ages
    BY HostAssumption DEF Ages
  <1>2. line \in Seq(Callers \union {Detector})
    BY DEF Init
  <1>3. caller \in [Callers -> {"idle", "waiting", "using"}]
    BY DEF Init
  <1>4. TypeOK
    BY <1>1, <1>2, <1>3 DEF Init, TypeOK
  <1>5. DOMAIN line = {}
    BY DEF Init
  <1>6. LineOK
    BY <1>5 DEF Init, LineOK, InLine
  <1> QED  BY <1>4, <1>6 DEF HostInv

LEMMA HostStep == HostInv /\ [Next]_vars => HostInv'
  <1> SUFFICES ASSUME HostInv, [Next]_vars PROVE HostInv'
    OBVIOUS
  <1> USE HostAssumption
  <1>0. line \in Seq(Process)
    BY DEF HostInv, TypeOK, Process
  <1>1. ASSUME NEW c \in Callers, Call(c) PROVE HostInv'
    <2>1. \A i \in DOMAIN line : line[i] # c
      BY <1>1 DEF Call, HostInv, LineOK, InLine
    <2>2. TypeOK'
      BY <1>0, <1>1 DEF Call, HostInv, TypeOK
    <2>3. /\ \A i, j \in DOMAIN line' : line'[i] = line'[j] => i = j
          /\ \A q \in Process : InLine(q)' <=> (q = c \/ InLine(q))
          /\ \A d \in Callers : HasLock(d) => HasLock(d)'
      BY <1>0, <1>1, <2>1, JoinLine DEF Call, HostInv, LineOK, InLine, HasLock, Process
    <2>4. LineOK'
      BY <1>1, <2>3 DEF Call, HostInv, TypeOK, LineOK, Process
    <2> QED  BY <2>2, <2>4 DEF HostInv
  <1>2. ASSUME NEW c \in Callers, Use(c) PROVE HostInv'
    BY <1>2 DEF Use, HostInv, TypeOK, LineOK, InLine, HasLock
  <1>3. ASSUME NEW c \in Callers, HasLock(c), line' = Tail(line),
               caller' = [caller EXCEPT ![c] = "idle"], loaded' = loaded,
               detector' = detector, idleTime' = idleTime, sleepsFor' = sleepsFor,
               idleFor' \in Ages
        PROVE  HostInv'
    <2>1. /\ line' \in Seq(Process)
          /\ \A i, j \in DOMAIN line' : line'[i] = line'[j] => i = j
          /\ \A q \in Process : InLine(q)' <=> (q # c /\ InLine(q))
      BY <1>0, <1>3, TailOfLine DEF HostInv, LineOK, InLine, HasLock
    <2>2. TypeOK'
      BY <1>3, <2>1 DEF HostInv, TypeOK, Process
    <2>3. \A d \in Callers : d # c => caller[d] # "using"
      BY <1>3 DEF HostInv, LineOK, HasLock
    <2>4. LineOK'
      BY <1>3, <2>1, <2>3 DEF HostInv, TypeOK, LineOK, Process
    <2> QED  BY <2>2, <2>4 DEF HostInv
  <1>4. ASSUME NEW c \in Callers, LoadFails(c) PROVE HostInv'
    BY <1>3, <1>4 DEF LoadFails, HostInv, TypeOK
  <1>5. ASSUME NEW c \in Callers, Return(c) PROVE HostInv'
    <2>1. HasLock(c)
      BY <1>5 DEF Return, HostInv, LineOK
    <2>2. idleFor' \in Ages
      BY <1>5 DEF Return, HostInv, TypeOK, Ages
    <2> QED  BY <1>3, <1>5, <2>1, <2>2 DEF Return
  <1>6. ASSUME Look PROVE HostInv'
    <2>1. CASE line = <<>>
      <3>1. \A c \in Callers : caller[c] # "using"
        BY <2>1 DEF HostInv, LineOK, HasLock
      <3>2. TypeOK'
        BY <1>6, <2>1 DEF Look, Sweep, HostInv, TypeOK, Ages
      <3>3. LineOK'
        BY <1>6, <2>1, <3>1 DEF Look, Sweep, HostInv, LineOK, InLine, HasLock
      <3> QED  BY <3>2, <3>3 DEF HostInv
    <2>2. CASE line # <<>>
      <3>1. \A i \in DOMAIN line : line[i] # Detector
        BY <1>6 DEF Look, HostInv, LineOK, InLine
      <3>2. TypeOK'
        BY <1>0, <1>6, <2>2 DEF Look, HostInv, TypeOK
      <3>3. /\ \A i, j \in DOMAIN line' : line'[i] = line'[j] => i = j
            /\ \A q \in Process : InLine(q)' <=> (q = Detector \/ InLine(q))
            /\ \A d \in Callers : HasLock(d) => HasLock(d)'
        BY <1>0, <1>6, <2>2, <3>1, JoinLine
        DEF Look, HostInv, LineOK, InLine, HasLock, Process
      <3>4. LineOK'
        BY <1>6, <2>2, <3>3 DEF Look, HostInv, LineOK, Process
      <3> QED  BY <3>2, <3>4 DEF HostInv
    <2> QED  BY <2>1, <2>2
  <1>7. ASSUME SweepLate PROVE HostInv'
    <2>1. /\ line' \in Seq(Process)
          /\ \A i, j \in DOMAIN line' : line'[i] = line'[j] => i = j
          /\ \A q \in Process : InLine(q)' <=> (q # Detector /\ InLine(q))
      BY <1>0, <1>7, TailOfLine DEF SweepLate, HostInv, LineOK, InLine, HasLock
    <2>2. \A c \in Callers : caller[c] # "using"
      BY <1>7 DEF SweepLate, HostInv, LineOK, HasLock
    <2>3. TypeOK'
      BY <1>7, <2>1 DEF SweepLate, Sweep, HostInv, TypeOK, Ages, Process
    <2>4. LineOK'
      BY <1>7, <2>1, <2>2 DEF SweepLate, Sweep, HostInv, LineOK, Process
    <2> QED  BY <2>3, <2>4 DEF HostInv
  <1>8. ASSUME Wake PROVE HostInv'
    BY <1>8 DEF Wake, HostInv, TypeOK, LineOK, InLine, HasLock
  <1>9. ASSUME Tick PROVE HostInv'
    <2>1. TypeOK'
      BY <1>9 DEF Tick, HostInv, TypeOK, Ages
    <2>2. LineOK'
      BY <1>9 DEF Tick, HostInv, LineOK, InLine, HasLock
    <2> QED  BY <2>1, <2>2 DEF HostInv
  <1>10. ASSUME Shutdown PROVE HostInv'
    BY <1>10 DEF Shutdown, HostInv, TypeOK, LineOK, InLine, HasLock
  <1>11. ASSUME UNCHANGED vars PROVE HostInv'
    BY <1>11 DEF vars, HostInv, TypeOK, LineOK, InLine, HasLock
  <1> QED
    BY <1>1, <1>2, <1>4, <1>5, <1>6, <1>7, <1>8, <1>9, <1>10, <1>11
    DEF Next, CallerStep

\* The types of a model host, and who is in line for its lock, always.
THEOREM HostCorrect == Spec => []HostInv
  <1> QED  BY HostInit, HostStep, PTL DEF Spec

\* No model is unloaded under a call that is using it, and no two calls use it
\* at once, however calls, failures, idle sweeps and shutdown interleave: two
\* users would both be at the head of a line in which each is once.
THEOREM HostSafe == Spec => []NeverUnloadedInUse
  <1>1. HostInv => NeverUnloadedInUse
    BY DEF HostInv, LineOK, HasLock, NeverUnloadedInUse
  <1> QED  BY <1>1, HostCorrect, PTL

----------------------------------------------------------------------------
(***************************************************************************)
(* The host, as its callers see it.                                        *)
(***************************************************************************)

LEMMA UseInit == Init => ModelOf!Init
  BY DEF Init, ModelOf!Init, Asking, Using

\* A caller that has the lock and does not use the model shows that nobody does.
LEMMA UseStep ==
    ASSUME HostInv, [Next]_vars
    PROVE  [ModelOf!Next]_ModelOf!vars
  <1> USE DEF ModelOf!vars
  <1>0. /\ caller \in [Callers -> {"idle", "waiting", "using"}]
        /\ \A c \in Callers : caller[c] = "using" => HasLock(c)
    BY DEF HostInv, TypeOK, LineOK
  <1>1. CASE UNCHANGED caller
    BY <1>1 DEF Asking, Using
  <1>2. ASSUME NEW c \in Callers, Call(c) PROVE ModelOf!Ask(c)
    <2>1. c \notin Asking \union Using /\ Asking' = Asking \union {c} /\ Using' = Using
      BY <1>0, <1>2 DEF Call, Asking, Using
    <2> QED  BY <2>1 DEF ModelOf!Ask
  <1>3. ASSUME NEW c \in Callers, Use(c) PROVE ModelOf!Enter(c)
    <2>1. c \in Asking /\ Using = {}
      BY <1>0, <1>3 DEF Use, HasLock, Asking, Using
    <2>2. Asking' = Asking \ {c} /\ Using' = Using \union {c}
      BY <1>0, <1>3 DEF Use, Asking, Using
    <2> QED  BY <2>1, <2>2 DEF ModelOf!Enter
  <1>4. ASSUME NEW c \in Callers, LoadFails(c) PROVE ModelOf!TurnAway(c)
    <2>1. c \in Asking /\ Using = {}
      BY <1>0, <1>4 DEF LoadFails, HasLock, Asking, Using
    <2>2. Asking' = Asking \ {c} /\ Using' = Using
      BY <1>0, <1>4 DEF LoadFails, Asking, Using
    <2> QED  BY <2>1, <2>2 DEF ModelOf!TurnAway
  <1>5. ASSUME NEW c \in Callers, Return(c) PROVE ModelOf!Leave
    <2>1. Using = {c}
      BY <1>0, <1>5 DEF Return, HasLock, Using
    <2>2. Asking' = Asking /\ Using' = Using \ {c}
      BY <1>0, <1>5 DEF Return, Asking, Using
    <2> QED  BY <2>1, <2>2 DEF ModelOf!Leave
  <1>6. UNCHANGED caller \/ \E c \in Callers : CallerStep(c)
    BY DEF Next, Look, Sweep, SweepLate, Wake, Tick, Shutdown, vars
  <1> QED  BY <1>1, <1>2, <1>3, <1>4, <1>5, <1>6 DEF CallerStep, ModelOf!Next

\* The host implements ModelUse for any number of callers: what the line for
\* the lock and the idle detector behind it come to is that callers have the
\* model one by one, and that nobody is turned away from a model in use.
THEOREM HostUseImplemented == Spec => HostImplementsUse
  <1> QED
    BY HostCorrect, UseInit, UseStep, PTL DEF Spec, HostImplementsUse, ModelOf!Spec
================================================================================
