---------------------------- MODULE BreakerProofs ----------------------------
(***************************************************************************)
(* Proofs about CircuitBreakers, for every set of gateways and calls and   *)
(* every two durations of which the timeout is the shorter one; and about  *)
(* the modules that read the breakers, SmartRouting, HealthReports and     *)
(* Checkout, for the three gateways there are, every spelling of a         *)
(* currency, every amount and every number of sessions.                    *)
(***************************************************************************)
EXTENDS Checkout, FiniteSetTheorems, SequenceTheorems, TLAPS

LEMMA StepCases ==
    ASSUME [BreakerNext]_breakerVars
    PROVE  \/ UNCHANGED breakerVars
           \/ \E c \in Calls, g \in Gateways : Admit(c, g)
           \/ \E c \in Calls, g \in Gateways : Reject(c, g)
           \/ \E c \in Calls : Succeeds(c)
           \/ \E c \in Calls : Fails(c)
           \/ \E g \in Gateways : HalfOpens(g)
           \/ Tick
BY DEF BreakerNext, SafeCreateIntent, TimesOut

LEMMA OutcomesAreNoGateways ==
    \A g \in Gateways : g \notin {"new", "result", "error", "unavailable"}
BY BreakerAssumption DEF Outcomes

-----------------------------------------------------------------------------
(* The variables of the breakers and of their calls keep their types; no   *)
(* call outlives its timeout.                                              *)
THEOREM BreakerTypes == BreakerSpec => []BreakerTypeOK
<1> USE BreakerAssumption DEF BreakerTypeOK, States, Outcomes
<1>1. BreakerInit => BreakerTypeOK
  BY DEF BreakerInit
<1>2. BreakerTypeOK /\ [BreakerNext]_breakerVars => BreakerTypeOK'
  <2> SUFFICES ASSUME BreakerTypeOK, [BreakerNext]_breakerVars PROVE BreakerTypeOK'
    OBVIOUS
  <2>1. CASE UNCHANGED breakerVars
    BY <2>1 DEF breakerVars
  <2>2. ASSUME NEW c \in Calls, NEW g \in Gateways, Admit(c, g) PROVE BreakerTypeOK'
    BY <2>2 DEF Admit
  <2>3. ASSUME NEW c \in Calls, NEW g \in Gateways, Reject(c, g) PROVE BreakerTypeOK'
    BY <2>3 DEF Reject, End
  <2>4. ASSUME NEW c \in Calls, Succeeds(c) PROVE BreakerTypeOK'
    BY <2>4 DEF Succeeds, End
  <2>5. ASSUME NEW c \in Calls, Fails(c) PROVE BreakerTypeOK'
    <3>1. at' \in [Calls -> Gateways \cup Outcomes] /\ age' \in [Calls -> 0 .. Timeout]
      BY <2>5 DEF Fails, End
    <3>2. CASE UNCHANGED <<breaker, mayTry, openFor>>
      BY <3>1, <3>2
    <3>3. CASE Opens(at[c])
      <4>1. breaker' \in [Gateways -> States] /\ mayTry' \in [Gateways -> BOOLEAN]
        BY <3>3 DEF Opens
      <4>2. PICK g \in Gateways : openFor' = [openFor EXCEPT ![g] = 0]
        BY <2>5, <3>3 DEF Opens, Fails
      <4>3. 0 \in 0 .. ResetTimeout
        OBVIOUS
      <4>4. openFor' \in [Gateways -> 0 .. ResetTimeout]
        BY <4>2, <4>3
      <4> QED
        BY <3>1, <4>1, <4>4
    <3> QED
      BY <2>5, <3>2, <3>3 DEF Fails
  <2>6. ASSUME NEW g \in Gateways, HalfOpens(g) PROVE BreakerTypeOK'
    BY <2>6 DEF HalfOpens
  <2>7. CASE Tick
    BY <2>7 DEF Tick, Due, ResetDue, Later
  <2> QED
    BY StepCases, <2>1, <2>2, <2>3, <2>4, <2>5, <2>6, <2>7
<1>3. QED
  BY <1>1, <1>2, PTL DEF BreakerSpec

-----------------------------------------------------------------------------
(* Why a half-open breaker has no call but its trial: a call that was let  *)
(* pass before the breaker opened is older than the opening, so it has     *)
(* timed out when the reset timer fires.                                   *)

TrialsAreHalfOpen == \A g \in Gateways : mayTry[g] => breaker[g] = "HALF_OPEN"

CallsAreOlder ==
    \A g \in Gateways, c \in Calls :
        breaker[g] = "OPEN" /\ at[c] = g => age[c] >= openFor[g]

TrialInv == TrialsAreHalfOpen /\ CallsAreOlder /\ HalfOpenHasItsTrial

LEMMA TrialInvInit == BreakerInit => TrialInv
BY DEF BreakerInit, TrialInv, TrialsAreHalfOpen, CallsAreOlder, HalfOpenHasItsTrial

LEMMA TrialInvStep ==
    ASSUME BreakerTypeOK, TrialInv, [BreakerNext]_breakerVars
    PROVE  TrialInv'
<1> USE BreakerAssumption, OutcomesAreNoGateways
    DEF BreakerTypeOK, States, Outcomes, TrialInv, TrialsAreHalfOpen, CallsAreOlder,
        HalfOpenHasItsTrial, On
<1>1. CASE UNCHANGED breakerVars
  BY <1>1 DEF breakerVars
<1>2. ASSUME NEW c \in Calls, NEW g \in Gateways, Admit(c, g) PROVE TrialInv'
  <2> USE <1>2 DEF Admit
  <2>1. TrialsAreHalfOpen'
    OBVIOUS
  <2>2. CallsAreOlder'
    OBVIOUS
  <2>3. HalfOpenHasItsTrial'
    OBVIOUS
  <2> QED
    BY <2>1, <2>2, <2>3
<1>3. ASSUME NEW c \in Calls, NEW g \in Gateways, Reject(c, g) PROVE TrialInv'
  BY <1>3 DEF Reject, End
<1>4. ASSUME NEW c \in Calls, Succeeds(c) PROVE TrialInv'
  BY <1>4 DEF Succeeds, End
<1>5. ASSUME NEW c \in Calls, Fails(c) PROVE TrialInv'
  BY <1>5 DEF Fails, End, Opens
<1>6. ASSUME NEW g \in Gateways, HalfOpens(g) PROVE TrialInv'
  <2>1. \A c \in Calls : at[c] # g
    BY <1>6 DEF HalfOpens, ResetDue
  <2> QED
    BY <1>6, <2>1 DEF HalfOpens
<1>7. CASE Tick
  BY <1>7 DEF Tick, Due, ResetDue, Later
<1> QED
  BY StepCases, <1>1, <1>2, <1>3, <1>4, <1>5, <1>6, <1>7

(* Recovery of a gateway is decided by its trial alone.                    *)
THEOREM TrialDecides == BreakerSpec => []HalfOpenHasItsTrial
<1>1. BreakerTypeOK /\ TrialInv /\ [BreakerNext]_breakerVars => TrialInv'
  BY TrialInvStep
<1>2. TrialInv => HalfOpenHasItsTrial
  BY DEF TrialInv
<1> QED
  BY TrialInvInit, BreakerTypes, <1>1, <1>2, PTL DEF BreakerSpec

-----------------------------------------------------------------------------
(* What a loop over a chain of two or three gateways has pushed, read off  *)
(* the recursive function Kept is defined by.                              *)

IsKept(k, chain, S) ==
    k = [n \in 0 .. Len(chain) |->
            IF n = 0 THEN <<>>
            ELSE IF chain[n] \in S THEN Append(k[n - 1], chain[n]) ELSE k[n - 1]]

Push(list, g, S) == IF g \in S THEN Append(list, g) ELSE list

LEMMA KeptUnfolds ==
    ASSUME NEW chain, NEW S, NEW w, IsKept(w, chain, S)
    PROVE  \E kept : IsKept(kept, chain, S) /\ Kept(chain, S) = kept[Len(chain)]
<1> DEFINE kept == CHOOSE k : IsKept(k, chain, S)
<1>1. Kept(chain, S) = kept[Len(chain)]
  BY DEF Kept, IsKept
<1>2. IsKept(kept, chain, S)
  BY Zenon
<1> HIDE DEF kept
<1> QED
  BY <1>1, <1>2

LEMMA KeptTwo ==
    ASSUME NEW a \in Gateways, NEW b \in Gateways, NEW S
    PROVE  Kept(<<a, b>>, S) = Push(Push(<<>>, a, S), b, S)
<1> DEFINE chain == <<a, b>>
           k0 == <<>>
           k1 == Push(k0, a, S)
           k2 == Push(k1, b, S)
           w == [n \in 0 .. 2 |-> IF n = 0 THEN k0 ELSE IF n = 1 THEN k1 ELSE k2]
<1>1. Len(chain) = 2 /\ chain[1] = a /\ chain[2] = b
  OBVIOUS
<1> HIDE DEF chain, k0, k1, k2
<1>2. w[0] = k0 /\ w[1] = k1 /\ w[2] = k2
  OBVIOUS
<1>3. IsKept(w, chain, S)
  <2> HIDE DEF w
  <2>1. ASSUME NEW n \in 0 .. 2
        PROVE  w[n] = IF n = 0 THEN <<>>
                      ELSE IF chain[n] \in S THEN Append(w[n - 1], chain[n]) ELSE w[n - 1]
    <3>1. CASE n = 0
      BY <1>2, <3>1 DEF k0
    <3>2. CASE n = 1
      BY <1>1, <1>2, <3>2 DEF k1, Push
    <3>3. CASE n = 2
      BY <1>1, <1>2, <3>3 DEF k2, Push
    <3> QED
      BY <3>1, <3>2, <3>3
  <2> QED
    BY <1>1, <2>1 DEF IsKept, w
<1> HIDE DEF w
<1>4. PICK kept : IsKept(kept, chain, S) /\ Kept(chain, S) = kept[Len(chain)]
  BY <1>3, KeptUnfolds
<1>5. \A n \in 0 .. 2 :
          kept[n] = IF n = 0 THEN <<>>
                    ELSE IF chain[n] \in S THEN Append(kept[n - 1], chain[n]) ELSE kept[n - 1]
  BY <1>1, <1>4, Zenon DEF IsKept
<1>6. kept[0] = k0
  BY <1>5 DEF k0
<1>7. kept[1] = k1
  BY <1>1, <1>5, <1>6 DEF Push, k1
<1>8. kept[2] = k2
  BY <1>1, <1>5, <1>7 DEF Push, k2
<1> QED
  BY <1>1, <1>4, <1>8, Zenon DEF chain, k0, k1, k2

LEMMA KeptThree ==
    ASSUME NEW a \in Gateways, NEW b \in Gateways, NEW c \in Gateways, NEW S
    PROVE  Kept(<<a, b, c>>, S) = Push(Push(Push(<<>>, a, S), b, S), c, S)
<1> DEFINE chain == <<a, b, c>>
           k0 == <<>>
           k1 == Push(k0, a, S)
           k2 == Push(k1, b, S)
           k3 == Push(k2, c, S)
           w == [n \in 0 .. 3 |-> IF n = 0 THEN k0 ELSE IF n = 1 THEN k1 ELSE IF n = 2 THEN k2 ELSE k3]
<1>1. Len(chain) = 3 /\ chain[1] = a /\ chain[2] = b /\ chain[3] = c
  OBVIOUS
<1> HIDE DEF chain, k0, k1, k2, k3
<1>2. w[0] = k0 /\ w[1] = k1 /\ w[2] = k2 /\ w[3] = k3
  OBVIOUS
<1>3. IsKept(w, chain, S)
  <2> HIDE DEF w
  <2>1. ASSUME NEW n \in 0 .. 3
        PROVE  w[n] = IF n = 0 THEN <<>>
                      ELSE IF chain[n] \in S THEN Append(w[n - 1], chain[n]) ELSE w[n - 1]
    <3>1. CASE n = 0
      BY <1>2, <3>1 DEF k0
    <3>2. CASE n = 1
      BY <1>1, <1>2, <3>2 DEF k1, Push
    <3>3. CASE n = 2
      BY <1>1, <1>2, <3>3 DEF k2, Push
    <3>4. CASE n = 3
      BY <1>1, <1>2, <3>4 DEF k3, Push
    <3> QED
      BY <3>1, <3>2, <3>3, <3>4
  <2> QED
    BY <1>1, <2>1 DEF IsKept, w
<1> HIDE DEF w
<1>4. PICK kept : IsKept(kept, chain, S) /\ Kept(chain, S) = kept[Len(chain)]
  BY <1>3, KeptUnfolds
<1>5. \A n \in 0 .. 3 :
          kept[n] = IF n = 0 THEN <<>>
                    ELSE IF chain[n] \in S THEN Append(kept[n - 1], chain[n]) ELSE kept[n - 1]
  BY <1>1, <1>4, Zenon DEF IsKept
<1>6. kept[0] = k0
  BY <1>5 DEF k0
<1>7. kept[1] = k1
  BY <1>1, <1>5, <1>6 DEF Push, k1
<1>8. kept[2] = k2
  BY <1>1, <1>5, <1>7 DEF Push, k2
<1>9. kept[3] = k3
  BY <1>1, <1>5, <1>8 DEF Push, k3
<1> QED
  BY <1>1, <1>4, <1>9, Zenon DEF chain, k0, k1, k2, k3

LEMMA Appends ==
    ASSUME NEW x \in Gateways, NEW y \in Gateways, NEW z \in Gateways
    PROVE  /\ Append(<<>>, x) = <<x>>
           /\ Append(<<x>>, y) = <<x, y>>
           /\ Append(<<x, y>>, z) = <<x, y, z>>
<1>1. Append(<<>>, x) = <<x>>
  OBVIOUS
<1>2. Append(<<x>>, y) = <<x, y>>
  <2>1. Append(<<x>>, y) \in Seq(Gateways) /\ <<x, y>> \in Seq(Gateways)
    OBVIOUS
  <2>2. Len(Append(<<x>>, y)) = 2 /\ Len(<<x, y>>) = 2
    OBVIOUS
  <2>3. \A i \in 1 .. 2 : (Append(<<x>>, y))[i] = <<x, y>>[i]
    OBVIOUS
  <2> QED
    BY <2>1, <2>2, <2>3, SeqEqual
<1>3. Append(<<x, y>>, z) = <<x, y, z>>
  <2>1. Append(<<x, y>>, z) \in Seq(Gateways) /\ <<x, y, z>> \in Seq(Gateways)
    OBVIOUS
  <2>2. Len(Append(<<x, y>>, z)) = 3 /\ Len(<<x, y, z>>) = 3
    OBVIOUS
  <2>3. \A i \in 1 .. 3 : (Append(<<x, y>>, z))[i] = <<x, y, z>>[i]
    OBVIOUS
  <2> QED
    BY <2>1, <2>2, <2>3, SeqEqual
<1> QED
  BY <1>1, <1>2, <1>3

LEMMA Joins ==
    ASSUME NEW x \in Gateways, NEW y \in Gateways, NEW z \in Gateways
    PROVE  /\ <<x>> \o <<y>> = <<x, y>>
           /\ <<x>> \o <<y, z>> = <<x, y, z>>
           /\ <<x, y>> \o <<z>> = <<x, y, z>>
           /\ \A s \in Seq(Gateways) : s \o <<>> = s /\ <<>> \o s = s
<1>1. <<x>> \o <<y>> = <<x, y>>
  <2>1. <<x>> \o <<y>> \in Seq(Gateways) /\ <<x, y>> \in Seq(Gateways)
    OBVIOUS
  <2>2. Len(<<x>> \o <<y>>) = 2 /\ Len(<<x, y>>) = 2
    OBVIOUS
  <2>3. \A i \in 1 .. 2 : (<<x>> \o <<y>>)[i] = <<x, y>>[i]
    OBVIOUS
  <2> QED
    BY <2>1, <2>2, <2>3, SeqEqual
<1>2. <<x>> \o <<y, z>> = <<x, y, z>>
  <2>1. <<x>> \o <<y, z>> \in Seq(Gateways) /\ <<x, y, z>> \in Seq(Gateways)
    OBVIOUS
  <2>2. Len(<<x>> \o <<y, z>>) = 3 /\ Len(<<x, y, z>>) = 3
    OBVIOUS
  <2>3. \A i \in 1 .. 3 : (<<x>> \o <<y, z>>)[i] = <<x, y, z>>[i]
    OBVIOUS
  <2> QED
    BY <2>1, <2>2, <2>3, SeqEqual
<1>3. <<x, y>> \o <<z>> = <<x, y, z>>
  <2>1. <<x, y>> \o <<z>> \in Seq(Gateways) /\ <<x, y, z>> \in Seq(Gateways)
    OBVIOUS
  <2>2. Len(<<x, y>> \o <<z>>) = 3 /\ Len(<<x, y, z>>) = 3
    OBVIOUS
  <2>3. \A i \in 1 .. 3 : (<<x, y>> \o <<z>>)[i] = <<x, y, z>>[i]
    OBVIOUS
  <2> QED
    BY <2>1, <2>2, <2>3, SeqEqual
<1>4. \A s \in Seq(Gateways) : s \o <<>> = s /\ <<>> \o s = s
  BY ConcatEmptySeq
<1> QED
  BY <1>1, <1>2, <1>3, <1>4

LEMMA KeptOfTwo ==
    ASSUME NEW a \in Gateways, NEW b \in Gateways, NEW S
    PROVE  /\ a \in S /\ b \in S => Kept(<<a, b>>, S) = <<a, b>>
           /\ a \in S /\ b \notin S => Kept(<<a, b>>, S) = <<a>>
           /\ a \notin S /\ b \in S => Kept(<<a, b>>, S) = <<b>>
           /\ a \notin S /\ b \notin S => Kept(<<a, b>>, S) = <<>>
<1>1. Kept(<<a, b>>, S) = Push(Push(<<>>, a, S), b, S)
  BY KeptTwo
<1>2. ASSUME a \in S, b \in S PROVE Kept(<<a, b>>, S) = <<a, b>>
  BY <1>1, <1>2, Appends, Zenon DEF Push
<1>3. ASSUME a \in S, b \notin S PROVE Kept(<<a, b>>, S) = <<a>>
  BY <1>1, <1>3, Appends, Zenon DEF Push
<1>4. ASSUME a \notin S, b \in S PROVE Kept(<<a, b>>, S) = <<b>>
  BY <1>1, <1>4, Appends, Zenon DEF Push
<1>5. ASSUME a \notin S, b \notin S PROVE Kept(<<a, b>>, S) = <<>>
  BY <1>1, <1>5, Appends, Zenon DEF Push
<1> QED
  BY <1>2, <1>3, <1>4, <1>5

LEMMA KeptOfThree ==
    ASSUME NEW a \in Gateways, NEW b \in Gateways, NEW c \in Gateways, NEW S
    PROVE  /\ a \in S /\ b \in S /\ c \in S => Kept(<<a, b, c>>, S) = <<a, b, c>>
           /\ a \in S /\ b \in S /\ c \notin S => Kept(<<a, b, c>>, S) = <<a, b>>
           /\ a \in S /\ b \notin S /\ c \in S => Kept(<<a, b, c>>, S) = <<a, c>>
           /\ a \in S /\ b \notin S /\ c \notin S => Kept(<<a, b, c>>, S) = <<a>>
           /\ a \notin S /\ b \in S /\ c \in S => Kept(<<a, b, c>>, S) = <<b, c>>
           /\ a \notin S /\ b \in S /\ c \notin S => Kept(<<a, b, c>>, S) = <<b>>
           /\ a \notin S /\ b \notin S /\ c \in S => Kept(<<a, b, c>>, S) = <<c>>
           /\ a \notin S /\ b \notin S /\ c \notin S => Kept(<<a, b, c>>, S) = <<>>
<1>1. Kept(<<a, b, c>>, S) = Push(Push(Push(<<>>, a, S), b, S), c, S)
  BY KeptThree
<1>2. ASSUME a \in S, b \in S, c \in S PROVE Kept(<<a, b, c>>, S) = <<a, b, c>>
  <2>1. Push(Push(<<>>, a, S), b, S) = <<a, b>>
    BY <1>2, Appends, Zenon DEF Push
  <2>2. Push(<<a, b>>, c, S) = <<a, b, c>>
    BY <1>2, Appends, Zenon DEF Push
  <2> QED
    BY <1>1, <2>1, <2>2, Zenon
<1>3. ASSUME a \in S, b \in S, c \notin S PROVE Kept(<<a, b, c>>, S) = <<a, b>>
  BY <1>1, <1>3, Appends, Zenon DEF Push
<1>4. ASSUME a \in S, b \notin S, c \in S PROVE Kept(<<a, b, c>>, S) = <<a, c>>
  BY <1>1, <1>4, Appends, Zenon DEF Push
<1>5. ASSUME a \in S, b \notin S, c \notin S PROVE Kept(<<a, b, c>>, S) = <<a>>
  BY <1>1, <1>5, Appends, Zenon DEF Push
<1>6. ASSUME a \notin S, b \in S, c \in S PROVE Kept(<<a, b, c>>, S) = <<b, c>>
  BY <1>1, <1>6, Appends, Zenon DEF Push
<1>7. ASSUME a \notin S, b \in S, c \notin S PROVE Kept(<<a, b, c>>, S) = <<b>>
  BY <1>1, <1>7, Appends, Zenon DEF Push
<1>8. ASSUME a \notin S, b \notin S, c \in S PROVE Kept(<<a, b, c>>, S) = <<c>>
  BY <1>1, <1>8, Appends, Zenon DEF Push
<1>9. ASSUME a \notin S, b \notin S, c \notin S PROVE Kept(<<a, b, c>>, S) = <<>>
  BY <1>1, <1>9, Appends, Zenon DEF Push
<1> QED
  BY <1>2, <1>3, <1>4, <1>5, <1>6, <1>7, <1>8, <1>9

-----------------------------------------------------------------------------
(* Every strategy names two or three different gateways. *)

IsChain(chain) ==
    \E a, b \in Gateways :
        /\ a # b
        /\ \/ chain = <<a, b>>
           \/ \E c \in Gateways : c # a /\ c # b /\ chain = <<a, b, c>>

LEMMA StrategyIsChain ==
    ASSUME NEW currency, NEW amount
    PROVE  /\ IsChain(CurrencyOptimized(currency))
           /\ IsChain(FeeOptimized(amount, currency))
           /\ IsChain(LatencyOptimized(currency))
<1>1. /\ IsChain(<<"PAYMOB", "FAWRY", "STRIPE">>)
      /\ IsChain(<<"FAWRY", "PAYMOB", "STRIPE">>)
      /\ IsChain(<<"PAYMOB", "STRIPE", "FAWRY">>)
      /\ IsChain(<<"STRIPE", "PAYMOB", "FAWRY">>)
      /\ IsChain(<<"STRIPE", "PAYMOB">>)
  BY RoutingAssumption DEF IsChain
<1> HIDE DEF IsChain
<1>2. IsChain(CurrencyOptimized(currency))
  BY <1>1 DEF CurrencyOptimized
<1>3. IsChain(FeeOptimized(amount, currency))
  BY <1>1 DEF FeeOptimized
<1>4. IsChain(LatencyOptimized(currency))
  BY <1>1 DEF LatencyOptimized
<1> QED
  BY <1>2, <1>3, <1>4

LEMMA PreferredIsChain ==
    ASSUME NEW p \in Gateways, NEW currency
    PROVE  /\ IsChain(PreferredChain(p, CurrencyOptimized(currency)))
           /\ Head(PreferredChain(p, CurrencyOptimized(currency))) = p
<1> DEFINE chain == CurrencyOptimized(currency)
           rest == Kept(chain, Gateways \ {p})
<1>1. \/ chain = <<"PAYMOB", "FAWRY", "STRIPE">>
      \/ chain = <<"PAYMOB", "STRIPE", "FAWRY">>
      \/ chain = <<"STRIPE", "PAYMOB", "FAWRY">>
      \/ chain = <<"STRIPE", "PAYMOB">>
  BY DEF CurrencyOptimized
<1> HIDE DEF chain
<1>2. \E a, b \in Gateways :
          a # b /\ p # a /\ (rest = <<a>> \/ (rest = <<a, b>> /\ p # b))
  <2>1. ASSUME NEW x \in Gateways, NEW y \in Gateways, x # y, chain = <<x, y>>
        PROVE  \E a, b \in Gateways :
                  a # b /\ p # a /\ (rest = <<a>> \/ (rest = <<a, b>> /\ p # b))
    <3>1. CASE p = x
      <4>1. rest = <<y>>
        BY <2>1, <3>1, KeptOfTwo
      <4> QED
        BY <2>1, <3>1, <4>1
    <3>2. CASE p = y
      <4>1. rest = <<x>>
        BY <2>1, <3>2, KeptOfTwo
      <4> QED
        BY <2>1, <3>2, <4>1
    <3>3. CASE p # x /\ p # y
      <4>1. rest = <<x, y>>
        BY <2>1, <3>3, KeptOfTwo
      <4> QED
        BY <2>1, <3>3, <4>1
    <3> QED
      BY <3>1, <3>2, <3>3
  <2>2. ASSUME NEW x \in Gateways, NEW y \in Gateways, NEW z \in Gateways,
               x # y, x # z, y # z, chain = <<x, y, z>>
        PROVE  \E a, b \in Gateways : a # b /\ p # a /\ rest = <<a, b>> /\ p # b
    <3>1. p \in {x, y, z}
      BY <2>2, RoutingAssumption
    <3>2. CASE p = x
      <4>1. rest = <<y, z>>
        BY <2>2, <3>2, KeptOfThree
      <4> QED
        BY <2>2, <3>2, <4>1
    <3>3. CASE p = y
      <4>1. rest = <<x, z>>
        BY <2>2, <3>3, KeptOfThree
      <4> QED
        BY <2>2, <3>3, <4>1
    <3>4. CASE p = z
      <4>1. rest = <<x, y>>
        BY <2>2, <3>4, KeptOfThree
      <4> QED
        BY <2>2, <3>4, <4>1
    <3> QED
      BY <3>1, <3>2, <3>3, <3>4
  <2> HIDE DEF rest
  <2> QED
    BY <1>1, <2>1, <2>2, RoutingAssumption
<1>3. PreferredChain(p, chain) = <<p>> \o rest
  BY DEF PreferredChain
<1> HIDE DEF rest
<1>4. PICK a \in Gateways, b \in Gateways :
          a # b /\ p # a /\ (rest = <<a>> \/ (rest = <<a, b>> /\ p # b))
  BY <1>2
<1>5. PreferredChain(p, chain) = <<p, a>> \/ (PreferredChain(p, chain) = <<p, a, b>> /\ p # b)
  <2>1. <<p>> \o <<a>> = <<p, a>> /\ <<p>> \o <<a, b>> = <<p, a, b>>
    BY Joins
  <2> QED
    BY <1>3, <1>4, <2>1
<1>6. IsChain(PreferredChain(p, chain))
  BY <1>4, <1>5 DEF IsChain
<1>7. Head(PreferredChain(p, chain)) = p
  BY <1>5
<1> QED
  BY <1>6, <1>7 DEF chain

LEMMA BaseIsChain ==
    ASSUME NEW q \in Asked
    PROVE  /\ IsChain(q.base)
           /\ q.preferred \in Gateways => Head(q.base) = q.preferred
<1>1. PICK ctx \in Contexts : q.base = BaseCandidates(ctx) /\ q.preferred = ctx.preferred
  BY DEF Asked
<1>2. ctx.preferred \in Gateways \cup {Absent} /\ Absent \notin Gateways
  BY RoutingAssumption DEF Contexts
<1> QED
  BY <1>1, <1>2, StrategyIsChain, PreferredIsChain DEF BaseCandidates

-----------------------------------------------------------------------------
(* What HealthPrioritized makes of a chain. *)

LEMMA RouteOfTwo ==
    ASSUME NEW a \in Gateways, NEW b \in Gateways
    PROVE  /\ IsAvailable(a) /\ IsAvailable(b) => HealthPrioritized(<<a, b>>) = <<a, b>>
           /\ IsAvailable(a) /\ ~IsAvailable(b) => HealthPrioritized(<<a, b>>) = <<a, b>>
           /\ ~IsAvailable(a) /\ IsAvailable(b) => HealthPrioritized(<<a, b>>) = <<b, a>>
           /\ ~IsAvailable(a) /\ ~IsAvailable(b) => HealthPrioritized(<<a, b>>) = <<a, b>>
<1>1. ASSUME IsAvailable(a), IsAvailable(b) PROVE HealthPrioritized(<<a, b>>) = <<a, b>>
  <2>1. Kept(<<a, b>>, Available) = <<a, b>> /\ Kept(<<a, b>>, Gateways \ Available) = <<>>
    BY <1>1, KeptOfTwo DEF Available
  <2>2. <<a, b>> \o <<>> = <<a, b>>
    BY Joins
  <2> QED
    BY <2>1, <2>2 DEF HealthPrioritized
<1>2. ASSUME IsAvailable(a), ~IsAvailable(b) PROVE HealthPrioritized(<<a, b>>) = <<a, b>>
  <2>1. Kept(<<a, b>>, Available) = <<a>> /\ Kept(<<a, b>>, Gateways \ Available) = <<b>>
    BY <1>2, KeptOfTwo DEF Available
  <2>2. <<a>> \o <<b>> = <<a, b>>
    BY Joins
  <2> QED
    BY <2>1, <2>2 DEF HealthPrioritized
<1>3. ASSUME ~IsAvailable(a), IsAvailable(b) PROVE HealthPrioritized(<<a, b>>) = <<b, a>>
  <2>1. Kept(<<a, b>>, Available) = <<b>> /\ Kept(<<a, b>>, Gateways \ Available) = <<a>>
    BY <1>3, KeptOfTwo DEF Available
  <2>2. <<b>> \o <<a>> = <<b, a>>
    BY Joins
  <2> QED
    BY <2>1, <2>2 DEF HealthPrioritized
<1>4. ASSUME ~IsAvailable(a), ~IsAvailable(b) PROVE HealthPrioritized(<<a, b>>) = <<a, b>>
  <2>1. Kept(<<a, b>>, Available) = <<>> /\ Kept(<<a, b>>, Gateways \ Available) = <<a, b>>
    BY <1>4, KeptOfTwo DEF Available
  <2>2. <<>> \o <<a, b>> = <<a, b>>
    BY Joins
  <2> QED
    BY <2>1, <2>2 DEF HealthPrioritized
<1> QED
  BY <1>1, <1>2, <1>3, <1>4

LEMMA RouteOfThree ==
    ASSUME NEW a \in Gateways, NEW b \in Gateways, NEW c \in Gateways
    PROVE  /\ IsAvailable(a) /\ IsAvailable(b) /\ IsAvailable(c) => HealthPrioritized(<<a, b, c>>) = <<a, b, c>>
           /\ IsAvailable(a) /\ IsAvailable(b) /\ ~IsAvailable(c) => HealthPrioritized(<<a, b, c>>) = <<a, b, c>>
           /\ IsAvailable(a) /\ ~IsAvailable(b) /\ IsAvailable(c) => HealthPrioritized(<<a, b, c>>) = <<a, c, b>>
           /\ IsAvailable(a) /\ ~IsAvailable(b) /\ ~IsAvailable(c) => HealthPrioritized(<<a, b, c>>) = <<a, b, c>>
           /\ ~IsAvailable(a) /\ IsAvailable(b) /\ IsAvailable(c) => HealthPrioritized(<<a, b, c>>) = <<b, c, a>>
           /\ ~IsAvailable(a) /\ IsAvailable(b) /\ ~IsAvailable(c) => HealthPrioritized(<<a, b, c>>) = <<b, a, c>>
           /\ ~IsAvailable(a) /\ ~IsAvailable(b) /\ IsAvailable(c) => HealthPrioritized(<<a, b, c>>) = <<c, a, b>>
           /\ ~IsAvailable(a) /\ ~IsAvailable(b) /\ ~IsAvailable(c) => HealthPrioritized(<<a, b, c>>) = <<a, b, c>>
<1>1. ASSUME IsAvailable(a), IsAvailable(b), IsAvailable(c) PROVE HealthPrioritized(<<a, b, c>>) = <<a, b, c>>
  <2>1. Kept(<<a, b, c>>, Available) = <<a, b, c>> /\ Kept(<<a, b, c>>, Gateways \ Available) = <<>>
    BY <1>1, KeptOfThree DEF Available
  <2>2. <<a, b, c>> \o <<>> = <<a, b, c>>
    BY Joins
  <2> QED
    BY <2>1, <2>2 DEF HealthPrioritized
<1>2. ASSUME IsAvailable(a), IsAvailable(b), ~IsAvailable(c) PROVE HealthPrioritized(<<a, b, c>>) = <<a, b, c>>
  <2>1. Kept(<<a, b, c>>, Available) = <<a, b>> /\ Kept(<<a, b, c>>, Gateways \ Available) = <<c>>
    BY <1>2, KeptOfThree DEF Available
  <2>2. <<a, b>> \o <<c>> = <<a, b, c>>
    BY Joins
  <2> QED
    BY <2>1, <2>2 DEF HealthPrioritized
<1>3. ASSUME IsAvailable(a), ~IsAvailable(b), IsAvailable(c) PROVE HealthPrioritized(<<a, b, c>>) = <<a, c, b>>
  <2>1. Kept(<<a, b, c>>, Available) = <<a, c>> /\ Kept(<<a, b, c>>, Gateways \ Available) = <<b>>
    BY <1>3, KeptOfThree DEF Available
  <2>2. <<a, c>> \o <<b>> = <<a, c, b>>
    BY Joins
  <2> QED
    BY <2>1, <2>2 DEF HealthPrioritized
<1>4. ASSUME IsAvailable(a), ~IsAvailable(b), ~IsAvailable(c) PROVE HealthPrioritized(<<a, b, c>>) = <<a, b, c>>
  <2>1. Kept(<<a, b, c>>, Available) = <<a>> /\ Kept(<<a, b, c>>, Gateways \ Available) = <<b, c>>
    BY <1>4, KeptOfThree DEF Available
  <2>2. <<a>> \o <<b, c>> = <<a, b, c>>
    BY Joins
  <2> QED
    BY <2>1, <2>2 DEF HealthPrioritized
<1>5. ASSUME ~IsAvailable(a), IsAvailable(b), IsAvailable(c) PROVE HealthPrioritized(<<a, b, c>>) = <<b, c, a>>
  <2>1. Kept(<<a, b, c>>, Available) = <<b, c>> /\ Kept(<<a, b, c>>, Gateways \ Available) = <<a>>
    BY <1>5, KeptOfThree DEF Available
  <2>2. <<b, c>> \o <<a>> = <<b, c, a>>
    BY Joins
  <2> QED
    BY <2>1, <2>2 DEF HealthPrioritized
<1>6. ASSUME ~IsAvailable(a), IsAvailable(b), ~IsAvailable(c) PROVE HealthPrioritized(<<a, b, c>>) = <<b, a, c>>
  <2>1. Kept(<<a, b, c>>, Available) = <<b>> /\ Kept(<<a, b, c>>, Gateways \ Available) = <<a, c>>
    BY <1>6, KeptOfThree DEF Available
  <2>2. <<b>> \o <<a, c>> = <<b, a, c>>
    BY Joins
  <2> QED
    BY <2>1, <2>2 DEF HealthPrioritized
<1>7. ASSUME ~IsAvailable(a), ~IsAvailable(b), IsAvailable(c) PROVE HealthPrioritized(<<a, b, c>>) = <<c, a, b>>
  <2>1. Kept(<<a, b, c>>, Available) = <<c>> /\ Kept(<<a, b, c>>, Gateways \ Available) = <<a, b>>
    BY <1>7, KeptOfThree DEF Available
  <2>2. <<c>> \o <<a, b>> = <<c, a, b>>
    BY Joins
  <2> QED
    BY <2>1, <2>2 DEF HealthPrioritized
<1>8. ASSUME ~IsAvailable(a), ~IsAvailable(b), ~IsAvailable(c) PROVE HealthPrioritized(<<a, b, c>>) = <<a, b, c>>
  <2>1. Kept(<<a, b, c>>, Available) = <<>> /\ Kept(<<a, b, c>>, Gateways \ Available) = <<a, b, c>>
    BY <1>8, KeptOfThree DEF Available
  <2>2. <<>> \o <<a, b, c>> = <<a, b, c>>
    BY Joins
  <2> QED
    BY <2>1, <2>2 DEF HealthPrioritized
<1> QED
  BY <1>1, <1>2, <1>3, <1>4, <1>5, <1>6, <1>7, <1>8

-----------------------------------------------------------------------------
(* Routes are sorted by availability first and by the strategy then. *)

InOrder(base, g, h) == \E m, n \in DOMAIN base : m < n /\ base[m] = g /\ base[n] = h

Before(base, g, h) ==
    \/ IsAvailable(g) /\ ~IsAvailable(h)
    \/ IsAvailable(g) = IsAvailable(h) /\ InOrder(base, g, h)

Sorted(base, chain) ==
    /\ ToSet(chain) = ToSet(base)
    /\ Len(chain) = Cardinality(ToSet(chain))
    /\ \A i, j \in DOMAIN chain : i < j => Before(base, chain[i], chain[j])

LEMMA InOrderTwo ==
    ASSUME NEW a, NEW b
    PROVE  InOrder(<<a, b>>, a, b)
<1>1. DOMAIN <<a, b>> = 1 .. 2 /\ <<a, b>>[1] = a /\ <<a, b>>[2] = b
  OBVIOUS
<1> QED
  BY <1>1 DEF InOrder

LEMMA InOrderThree ==
    ASSUME NEW a, NEW b, NEW c
    PROVE  /\ InOrder(<<a, b, c>>, a, b)
           /\ InOrder(<<a, b, c>>, a, c)
           /\ InOrder(<<a, b, c>>, b, c)
<1>1. /\ DOMAIN <<a, b, c>> = 1 .. 3
      /\ <<a, b, c>>[1] = a /\ <<a, b, c>>[2] = b /\ <<a, b, c>>[3] = c
  OBVIOUS
<1> QED
  BY <1>1 DEF InOrder

LEMMA SortedTwo ==
    ASSUME NEW a, NEW b, NEW x, NEW y, x # y, {x, y} = {a, b}, Before(<<a, b>>, x, y)
    PROVE  Sorted(<<a, b>>, <<x, y>>)
<1>1. ToSet(<<a, b>>) = {a, b} /\ ToSet(<<x, y>>) = {x, y}
  BY DEF ToSet
<1>2. Cardinality({x, y}) = 2
  <2>1. IsFiniteSet({x}) /\ Cardinality({x}) = 1
    BY FS_Singleton
  <2>2. Cardinality({x} \cup {y}) = Cardinality({x}) + 1
    BY <2>1, FS_AddElement
  <2>3. {x} \cup {y} = {x, y}
    OBVIOUS
  <2> QED
    BY <2>1, <2>2, <2>3
<1>3. /\ Len(<<x, y>>) = 2 /\ DOMAIN <<x, y>> = 1 .. 2
      /\ <<x, y>>[1] = x /\ <<x, y>>[2] = y
  OBVIOUS
<1>4. ASSUME NEW i \in 1 .. 2, NEW j \in 1 .. 2, i < j
      PROVE  Before(<<a, b>>, <<x, y>>[i], <<x, y>>[j])
  <2>1. i = 1 /\ j = 2
    BY <1>4
  <2> QED
    BY <1>3, <2>1
<1> QED
  BY <1>1, <1>2, <1>3, <1>4 DEF Sorted

LEMMA SortedThree ==
    ASSUME NEW a, NEW b, NEW c, NEW x, NEW y, NEW z,
           x # y, x # z, y # z, {x, y, z} = {a, b, c},
           Before(<<a, b, c>>, x, y), Before(<<a, b, c>>, x, z), Before(<<a, b, c>>, y, z)
    PROVE  Sorted(<<a, b, c>>, <<x, y, z>>)
<1>1. ToSet(<<a, b, c>>) = {a, b, c} /\ ToSet(<<x, y, z>>) = {x, y, z}
  BY DEF ToSet
<1>2. Cardinality({x, y, z}) = 3
  <2>1. IsFiniteSet({x}) /\ Cardinality({x}) = 1
    BY FS_Singleton
  <2>2. IsFiniteSet({x} \cup {y}) /\ Cardinality({x} \cup {y}) = Cardinality({x}) + 1
    BY <2>1, FS_AddElement
  <2>3. Cardinality({x} \cup {y} \cup {z}) = Cardinality({x} \cup {y}) + 1
    <3>1. z \notin {x} \cup {y}
      OBVIOUS
    <3> QED
      BY <2>2, <3>1, FS_AddElement
  <2>4. {x} \cup {y} \cup {z} = {x, y, z}
    OBVIOUS
  <2> QED
    BY <2>1, <2>2, <2>3, <2>4
<1>3. /\ Len(<<x, y, z>>) = 3 /\ DOMAIN <<x, y, z>> = 1 .. 3
      /\ <<x, y, z>>[1] = x /\ <<x, y, z>>[2] = y /\ <<x, y, z>>[3] = z
  OBVIOUS
<1>4. ASSUME NEW i \in 1 .. 3, NEW j \in 1 .. 3, i < j
      PROVE  Before(<<a, b, c>>, <<x, y, z>>[i], <<x, y, z>>[j])
  <2>1. (i = 1 /\ j = 2) \/ (i = 1 /\ j = 3) \/ (i = 2 /\ j = 3)
    BY <1>4
  <2> QED
    BY <1>3, <2>1
<1> QED
  BY <1>1, <1>2, <1>3, <1>4 DEF Sorted

LEMMA BeforeCases ==
    ASSUME NEW base, NEW g, NEW h
    PROVE  /\ IsAvailable(g) /\ ~IsAvailable(h) => Before(base, g, h)
           /\ (IsAvailable(g) <=> IsAvailable(h)) /\ InOrder(base, g, h) => Before(base, g, h)
<1>1. IsAvailable(g) \in BOOLEAN /\ IsAvailable(h) \in BOOLEAN
  BY DEF IsAvailable
<1> QED
  BY <1>1, Zenon DEF Before

LEMMA ChainIsSorted ==
    ASSUME NEW base, IsChain(base)
    PROVE  /\ Sorted(base, HealthPrioritized(base))
           /\ Head(HealthPrioritized(base)) \in Gateways
           /\ IsAvailable(Head(base)) => Head(HealthPrioritized(base)) = Head(base)
<1>1. ASSUME NEW a \in Gateways, NEW b \in Gateways, a # b, base = <<a, b>>
      PROVE  \E x, y \in Gateways :
                /\ HealthPrioritized(base) = <<x, y>> /\ x # y /\ {x, y} = {a, b}
                /\ Before(base, x, y)
                /\ IsAvailable(a) => x = a
  <2>1. InOrder(base, a, b)
    BY <1>1, InOrderTwo
  <2>2. CASE IsAvailable(b) /\ ~IsAvailable(a)
    <3>1. HealthPrioritized(base) = <<b, a>>
      BY <1>1, <2>2, RouteOfTwo
    <3>2. Before(base, b, a)
      BY <2>2, BeforeCases
    <3>3. {b, a} = {a, b}
      OBVIOUS
    <3> QED
      BY <1>1, <2>2, <3>1, <3>2, <3>3
  <2>3. CASE IsAvailable(a) \/ ~IsAvailable(b)
    <3>1. HealthPrioritized(base) = <<a, b>>
      BY <1>1, <2>3, RouteOfTwo
    <3>2. Before(base, a, b)
      BY <2>1, <2>3, BeforeCases
    <3> QED
      BY <1>1, <3>1, <3>2
  <2> QED
    BY <2>2, <2>3
<1>2. ASSUME NEW a \in Gateways, NEW b \in Gateways, NEW c \in Gateways,
             a # b, c # a, c # b, base = <<a, b, c>>
      PROVE  \E x, y, z \in Gateways :
                /\ HealthPrioritized(base) = <<x, y, z>>
                /\ x # y /\ x # z /\ y # z /\ {x, y, z} = {a, b, c}
                /\ Before(base, x, y) /\ Before(base, x, z) /\ Before(base, y, z)
                /\ IsAvailable(a) => x = a
  <2>1. InOrder(base, a, b) /\ InOrder(base, a, c) /\ InOrder(base, b, c)
    BY <1>2, InOrderThree
  <2>2. CASE IsAvailable(a) /\ IsAvailable(b) /\ IsAvailable(c)
    <3>1. HealthPrioritized(base) = <<a, b, c>>
      BY <1>2, <2>2, RouteOfThree
    <3>2. Before(base, a, b) /\ Before(base, a, c) /\ Before(base, b, c)
      BY <2>1, <2>2, BeforeCases
    <3>3. {a, b, c} = {a, b, c}
      OBVIOUS
    <3> QED
      BY <1>2, <2>2, <3>1, <3>2, <3>3
  <2>3. CASE IsAvailable(a) /\ IsAvailable(b) /\ ~IsAvailable(c)
    <3>1. HealthPrioritized(base) = <<a, b, c>>
      BY <1>2, <2>3, RouteOfThree
    <3>2. Before(base, a, b) /\ Before(base, a, c) /\ Before(base, b, c)
      BY <2>1, <2>3, BeforeCases
    <3>3. {a, b, c} = {a, b, c}
      OBVIOUS
    <3> QED
      BY <1>2, <2>3, <3>1, <3>2, <3>3
  <2>4. CASE IsAvailable(a) /\ ~IsAvailable(b) /\ ~IsAvailable(c)
    <3>1. HealthPrioritized(base) = <<a, b, c>>
      BY <1>2, <2>4, RouteOfThree
    <3>2. Before(base, a, b) /\ Before(base, a, c) /\ Before(base, b, c)
      BY <2>1, <2>4, BeforeCases
    <3>3. {a, b, c} = {a, b, c}
      OBVIOUS
    <3> QED
      BY <1>2, <2>4, <3>1, <3>2, <3>3
  <2>5. CASE ~IsAvailable(a) /\ ~IsAvailable(b) /\ ~IsAvailable(c)
    <3>1. HealthPrioritized(base) = <<a, b, c>>
      BY <1>2, <2>5, RouteOfThree
    <3>2. Before(base, a, b) /\ Before(base, a, c) /\ Before(base, b, c)
      BY <2>1, <2>5, BeforeCases
    <3>3. {a, b, c} = {a, b, c}
      OBVIOUS
    <3> QED
      BY <1>2, <2>5, <3>1, <3>2, <3>3
  <2>6. CASE IsAvailable(a) /\ ~IsAvailable(b) /\ IsAvailable(c)
    <3>1. HealthPrioritized(base) = <<a, c, b>>
      BY <1>2, <2>6, RouteOfThree
    <3>2. Before(base, a, c) /\ Before(base, a, b) /\ Before(base, c, b)
      BY <2>1, <2>6, BeforeCases
    <3>3. {a, c, b} = {a, b, c}
      OBVIOUS
    <3> QED
      BY <1>2, <2>6, <3>1, <3>2, <3>3
  <2>7. CASE ~IsAvailable(a) /\ IsAvailable(b) /\ IsAvailable(c)
    <3>1. HealthPrioritized(base) = <<b, c, a>>
      BY <1>2, <2>7, RouteOfThree
    <3>2. Before(base, b, c) /\ Before(base, b, a) /\ Before(base, c, a)
      BY <2>1, <2>7, BeforeCases
    <3>3. {b, c, a} = {a, b, c}
      OBVIOUS
    <3> QED
      BY <1>2, <2>7, <3>1, <3>2, <3>3
  <2>8. CASE ~IsAvailable(a) /\ IsAvailable(b) /\ ~IsAvailable(c)
    <3>1. HealthPrioritized(base) = <<b, a, c>>
      BY <1>2, <2>8, RouteOfThree
    <3>2. Before(base, b, a) /\ Before(base, b, c) /\ Before(base, a, c)
      BY <2>1, <2>8, BeforeCases
    <3>3. {b, a, c} = {a, b, c}
      OBVIOUS
    <3> QED
      BY <1>2, <2>8, <3>1, <3>2, <3>3
  <2>9. CASE ~IsAvailable(a) /\ ~IsAvailable(b) /\ IsAvailable(c)
    <3>1. HealthPrioritized(base) = <<c, a, b>>
      BY <1>2, <2>9, RouteOfThree
    <3>2. Before(base, c, a) /\ Before(base, c, b) /\ Before(base, a, b)
      BY <2>1, <2>9, BeforeCases
    <3>3. {c, a, b} = {a, b, c}
      OBVIOUS
    <3> QED
      BY <1>2, <2>9, <3>1, <3>2, <3>3
  <2> QED
    BY <2>2, <2>3, <2>4, <2>5, <2>6, <2>7, <2>8, <2>9
<1>3. ASSUME NEW a \in Gateways, NEW b \in Gateways, a # b, base = <<a, b>>
      PROVE  /\ Sorted(base, HealthPrioritized(base))
             /\ Head(HealthPrioritized(base)) \in Gateways
             /\ IsAvailable(Head(base)) => Head(HealthPrioritized(base)) = Head(base)
  <2>1. PICK x \in Gateways, y \in Gateways :
                /\ HealthPrioritized(base) = <<x, y>> /\ x # y /\ {x, y} = {a, b}
                /\ Before(base, x, y)
                /\ IsAvailable(a) => x = a
    BY <1>1, <1>3
  <2>2. Sorted(base, <<x, y>>)
    BY <1>3, <2>1, SortedTwo
  <2>3. Head(<<x, y>>) = x /\ Head(base) = a
    BY <1>3
  <2> QED
    BY <2>1, <2>2, <2>3
<1>4. ASSUME NEW a \in Gateways, NEW b \in Gateways, NEW c \in Gateways,
             a # b, c # a, c # b, base = <<a, b, c>>
      PROVE  /\ Sorted(base, HealthPrioritized(base))
             /\ Head(HealthPrioritized(base)) \in Gateways
             /\ IsAvailable(Head(base)) => Head(HealthPrioritized(base)) = Head(base)
  <2>1. PICK x \in Gateways, y \in Gateways, z \in Gateways :
                /\ HealthPrioritized(base) = <<x, y, z>>
                /\ x # y /\ x # z /\ y # z /\ {x, y, z} = {a, b, c}
                /\ Before(base, x, y) /\ Before(base, x, z) /\ Before(base, y, z)
                /\ IsAvailable(a) => x = a
    BY <1>2, <1>4
  <2>2. Sorted(base, <<x, y, z>>)
    BY <1>4, <2>1, SortedThree
  <2>3. Head(<<x, y, z>>) = x /\ Head(base) = a
    BY <1>4
  <2> QED
    BY <2>1, <2>2, <2>3
<1> QED
  BY <1>3, <1>4 DEF IsChain

(* Whatever a checkout asks for and whichever breakers are open, its route *)
(* tries every gateway of its strategy once, the open ones last.           *)
THEOREM RoutesPrefer == Spec => []RoutesPreferAvailable
<1>1. RoutesPreferAvailable
  <2> SUFFICES ASSUME NEW q \in Asked
               PROVE  /\ Sorted(q.base, HealthPrioritized(q.base))
                      /\ q.preferred \in Gateways /\ IsAvailable(q.preferred)
                            => Head(HealthPrioritized(q.base)) = q.preferred
    BY DEF RoutesPreferAvailable, Sorted, Before, InOrder
  <2> QED
    BY BaseIsChain, ChainIsSorted
<1> QED
  BY <1>1, PTL

LEMMA HeadOfChain ==
    ASSUME NEW chain, IsChain(chain)
    PROVE  Head(chain) \in Gateways
BY DEF IsChain

LEMMA GaugeTells ==
    ASSUME BreakerTypeOK, NEW g \in Gateways
    PROVE  /\ IsAvailable(g) <=> GetBreakerStatus(g) # "OPEN"
           /\ IsAvailable(g) <=> BreakerOpenGauge(g) = 0
           /\ ~IsAvailable(g) <=> BreakerOpenGauge(g) = 1
BY DEF BreakerTypeOK, States, IsAvailable, GetBreakerStatus, BreakerOpenGauge

LEMMA EveryGatewayIsAskedFor ==
    ASSUME NEW g \in Gateways
    PROVE  \E q \in Asked : IsChain(q.base) /\ Head(q.base) = g
<1>1. PICK currency \in DOMAIN UpperCase, amount \in Amounts : TRUE
  BY RoutingAssumption
<1> DEFINE ctx == [currency |-> currency, amount |-> amount, preferred |-> g, strategy |-> Absent]
<1>2. ctx \in Contexts /\ ctx.preferred = g
  BY DEF Contexts
<1> HIDE DEF ctx
<1> DEFINE q == [base |-> BaseCandidates(ctx), preferred |-> ctx.preferred]
<1>3. q \in Asked
  BY <1>2, Zenon DEF Asked
<1>4. q.preferred = g
  BY <1>2
<1> HIDE DEF q
<1> QED
  BY <1>3, <1>4, BaseIsChain

(* A checkout only reads the breakers: whatever holds of the breakers by    *)
(* themselves holds of them when routes are asked for.                     *)
THEOREM CheckoutIsBreakers == Spec => BreakerSpec
<1>1. Init => BreakerInit
  BY DEF Init
<1>2. [Next]_vars => [BreakerNext]_breakerVars
  BY DEF Next, CreateSession, vars
<1> QED
  BY <1>1, <1>2, PTL DEF Spec, BreakerSpec

(* Health, the gauge of the metrics and the routes agree.                  *)
THEOREM HealthTells == Spec => []HealthTellsRoutes
<1> DEFINE Primary(q) == Head(HealthPrioritized(q.base))
           open == {g \in Gateways : GetBreakerStatus(g) = "OPEN"}
<1>1. ASSUME BreakerTypeOK PROVE HealthTellsRoutes
  <2>1. \A q \in Asked : /\ Primary(q) \in Gateways /\ Head(q.base) \in Gateways
                         /\ IsAvailable(Head(q.base)) => Primary(q) = Head(q.base)
    <3> SUFFICES ASSUME NEW q \in Asked
                 PROVE  /\ Primary(q) \in Gateways /\ Head(q.base) \in Gateways
                        /\ IsAvailable(Head(q.base)) => Primary(q) = Head(q.base)
      OBVIOUS
    <3>1. IsChain(q.base)
      BY BaseIsChain
    <3> QED
      BY <3>1, HeadOfChain, ChainIsSorted
  <2>2. \A g \in Gateways : \E q \in Asked : Head(q.base) = g
    BY EveryGatewayIsAskedFor
  <2>3. \A g \in Gateways : /\ g \in open <=> ~IsAvailable(g)
                            /\ g \in open <=> BreakerOpenGauge(g) = 1
                            /\ g \notin open <=> BreakerOpenGauge(g) = 0
    BY <1>1, GaugeTells
  <2>4. /\ CheckCircuitBreakers = "DOWN" <=> open = Gateways
        /\ CheckHealth("UP", "UP") = "UP" <=> open = {}
        /\ HealthCode("UP", "UP") = 200
    <3>1. Gateways # {}
      BY RoutingAssumption
    <3> QED
      BY <3>1 DEF CheckHealth, CheckCircuitBreakers, HealthCode
  <2> HIDE DEF open, Primary
  <2>5. open = {} <=> \A q \in Asked : Primary(q) = Head(q.base) /\ BreakerOpenGauge(Primary(q)) = 0
    <3>1. ASSUME open = {}, NEW q \in Asked
          PROVE  Primary(q) = Head(q.base) /\ BreakerOpenGauge(Primary(q)) = 0
      BY <2>1, <2>3, <3>1
    <3>2. ASSUME NEW g \in open,
                 \A q \in Asked : Primary(q) = Head(q.base) /\ BreakerOpenGauge(Primary(q)) = 0
          PROVE  FALSE
      <4>1. g \in Gateways
        BY DEF open
      <4> QED
        BY <2>2, <2>3, <3>2, <4>1
    <3> QED
      BY <3>1, <3>2
  <2>6. open = Gateways <=> \A q \in Asked : BreakerOpenGauge(Primary(q)) = 1
    <3>1. ASSUME open = Gateways, NEW q \in Asked PROVE BreakerOpenGauge(Primary(q)) = 1
      BY <2>1, <2>3, <3>1
    <3>2. ASSUME NEW g \in Gateways, g \notin open, \A q \in Asked : BreakerOpenGauge(Primary(q)) = 1
          PROVE  FALSE
      <4>1. PICK q \in Asked : Head(q.base) = g
        BY <2>2
      <4>2. Primary(q) = g
        BY <2>1, <2>3, <3>2, <4>1
      <4> QED
        BY <2>3, <3>2, <4>2
    <3>3. open \subseteq Gateways
      BY DEF open
    <3> QED
      BY <3>1, <3>2, <3>3
  <2> QED
    BY <2>4, <2>5, <2>6 DEF HealthTellsRoutes, Primary
<1> QED
  BY <1>1, CheckoutIsBreakers, BreakerTypes, PTL

=============================================================================
