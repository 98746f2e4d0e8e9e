-------------------------- MODULE RdEntitiesProofs --------------------------
(***************************************************************************)
(* Theorems about the replicated entities, for every number of changes and *)
(* every finite set of values and keys.                                    *)
(***************************************************************************)
EXTENDS RdEntities, FiniteSetTheorems, WellFoundedInduction, TLAPS

Slave == Other(Master)

LEMMA TwoEnds ==
    /\ Master \in Ends /\ Slave \in Ends /\ Master # Slave
    /\ Other(Slave) = Master /\ Other(Master) = Slave
    /\ \A e \in Ends : e = Master \/ e = Slave
BY RdReactiveBaseAssumption DEF Slave, Other, Ends

\* What Append and Tail do to the elements of a sequence.
LEMMA Appended ==
    ASSUME NEW S, NEW s \in Seq(S), NEW x \in S
    PROVE  /\ Append(s, x) \in Seq(S) /\ Append(s, x) # <<>>
           /\ Len(Append(s, x)) = Len(s) + 1 /\ Len(s) \in Nat
           /\ DOMAIN s = 1 .. Len(s) /\ DOMAIN Append(s, x) = 1 .. Len(s) + 1
           /\ \A i \in DOMAIN s : Append(s, x)[i] = s[i]
           /\ Append(s, x)[Len(s) + 1] = x
OBVIOUS

LEMMA SequenceIs ==
    ASSUME NEW S, NEW s \in Seq(S)
    PROVE  /\ Len(s) \in Nat /\ DOMAIN s = 1 .. Len(s)
           /\ \A i \in 1 .. Len(s) : s[i] \in S
           /\ Len(s) = 0 <=> s = <<>>
OBVIOUS

LEMMA Taken ==
    ASSUME NEW S, NEW s \in Seq(S), s # <<>>
    PROVE  /\ Head(s) \in S /\ Tail(s) \in Seq(S)
           /\ Len(s) \in Nat \ {0} /\ Len(Tail(s)) = Len(s) - 1
           /\ Len(s) = 1 <=> Tail(s) = <<>>
           /\ DOMAIN s = 1 .. Len(s) /\ DOMAIN Tail(s) = 1 .. Len(s) - 1
           /\ Head(s) = s[1]
           /\ \A i \in DOMAIN Tail(s) : Tail(s)[i] = s[i + 1]
<1>1. Head(s) \in S /\ Tail(s) \in Seq(S) /\ Head(s) = s[1]
  OBVIOUS
<1>2. Len(s) \in Nat \ {0} /\ Len(Tail(s)) = Len(s) - 1 /\ DOMAIN s = 1 .. Len(s)
  OBVIOUS
<1>3. DOMAIN Tail(s) = 1 .. Len(s) - 1 /\ (Len(s) = 1 <=> Tail(s) = <<>>)
  BY <1>1, <1>2, SequenceIs
<1>4. \A i \in DOMAIN Tail(s) : Tail(s)[i] = s[i + 1]
  BY <1>1, <1>2, <1>3
<1>5. QED
  BY <1>1, <1>2, <1>3, <1>4

-----------------------------------------------------------------------------
(***************************************************************************)
(* Properties.  The values that the master set are under way to the slave  *)
(* with consecutive versions up to the master's, the last of them is the   *)
(* master's value.  The slave's values carry versions that it knew, so the *)
(* master takes one only if nothing of its own is under way, and then they *)
(* have its version already.                                               *)
(***************************************************************************)
PropertyMessages == [version : Nat, value : Values]

PropertyTypes ==
    /\ wire \in [Ends -> Seq(PropertyMessages)]
    /\ bound \in [Ends -> BOOLEAN]
    /\ careful \in BOOLEAN
    /\ value \in [Ends -> Values \union {NoValue}]
    /\ master_version \in [Ends -> Nat]

LEMMA PropertyMessagesAre ==
    ASSUME NEW s \in Seq(PropertyMessages)
    PROVE  \A i \in 1 .. Len(s) : s[i].version \in Nat /\ s[i].value \in Values
<1>1. \A m \in PropertyMessages : m.version \in Nat /\ m.value \in Values
  BY DEF PropertyMessages
<1>2. \A i \in 1 .. Len(s) : s[i] \in PropertyMessages
  BY SequenceIs
<1>3. QED
  BY <1>1, <1>2

\* ws and wm are under way to slave and master, ns and nm are their versions,
\* xs and xm their values.
TakenLast(wm, ns) == wm # <<>> /\ wm[Len(wm)].version = ns

Converging(ws, wm, ns, nm, xs, xm) ==
    /\ \A i \in 1 .. Len(ws) : ws[i].version = ns + i
    /\ nm = ns + Len(ws)
    /\ ws # <<>> => ws[Len(ws)].value = xm
    /\ \A i \in 1 .. Len(wm) : wm[i].version <= ns
    /\ \A i, j \in 1 .. Len(wm) : i < j => wm[i].version <= wm[j].version
    /\ ws = <<>> => IF TakenLast(wm, ns) THEN wm[Len(wm)].value = xs ELSE xm = xs

PropertyInv ==
    /\ PropertyTypes
    /\ careful => Converging(wire[Slave], wire[Master], master_version[Slave],
                             master_version[Master], value[Slave], value[Master])

LEMMA MasterSets ==
    ASSUME NEW ws \in Seq(PropertyMessages), NEW wm \in Seq(PropertyMessages),
           NEW ns \in Nat, NEW nm \in Nat, NEW xs, NEW xm, NEW v \in Values,
           Converging(ws, wm, ns, nm, xs, xm)
    PROVE  Converging(Append(ws, [version |-> nm + 1, value |-> v]), wm, ns, nm + 1, xs, v)
<1>. DEFINE m == [version |-> nm + 1, value |-> v]
            t == Append(ws, m)
<1>1. m \in PropertyMessages /\ m.version = nm + 1 /\ m.value = v
  BY DEF PropertyMessages
<1>2. /\ t # <<>> /\ Len(t) = Len(ws) + 1 /\ Len(ws) \in Nat
      /\ \A i \in 1 .. Len(ws) : t[i] = ws[i]
      /\ t[Len(ws) + 1] = m
  BY <1>1, Appended
<1>. HIDE DEF m, t
<1>3. Converging(t, wm, ns, nm + 1, xs, v)
  <2>1. \A i \in 1 .. Len(t) : t[i].version = ns + i
    <3>1. nm = ns + Len(ws) /\ \A i \in 1 .. Len(ws) : ws[i].version = ns + i
      BY DEF Converging
    <3>2. \A i \in 1 .. Len(t) : i \in 1 .. Len(ws) \/ i = Len(ws) + 1
      BY ONLY <1>2
    <3>3. nm + 1 = ns + (Len(ws) + 1)
      BY ONLY <1>2, <3>1, ns \in Nat
    <3>4. QED
      BY ONLY <1>1, <1>2, <3>1, <3>2, <3>3
  <2>2. nm + 1 = ns + Len(t) /\ t[Len(t)].value = v
    <3>1. nm = ns + Len(ws)
      BY DEF Converging
    <3>2. t[Len(t)] = m
      BY ONLY <1>2
    <3>3. QED
      BY ONLY <1>1, <1>2, <3>1, <3>2, ns \in Nat
  <2>3. QED
    BY <1>2, <2>1, <2>2 DEF Converging
<1>4. QED
  BY <1>3 DEF m, t

LEMMA SlaveSets ==
    ASSUME NEW ws \in Seq(PropertyMessages), NEW wm \in Seq(PropertyMessages),
           NEW ns \in Nat, NEW nm \in Nat, NEW xs, NEW xm, NEW v \in Values,
           Converging(ws, wm, ns, nm, xs, xm)
    PROVE  Converging(ws, Append(wm, [version |-> ns, value |-> v]), ns, nm, v, xm)
<1>. DEFINE m == [version |-> ns, value |-> v]
            t == Append(wm, m)
<1>1. m \in PropertyMessages /\ m.version = ns /\ m.value = v
  BY DEF PropertyMessages
<1>2. /\ t # <<>> /\ Len(t) = Len(wm) + 1 /\ Len(wm) \in Nat
      /\ \A i \in 1 .. Len(wm) : t[i] = wm[i]
      /\ t[Len(wm) + 1] = m
  BY <1>1, Appended
<1>. HIDE DEF m, t
<1>3. TakenLast(t, ns) /\ t[Len(t)].value = v
  BY <1>1, <1>2 DEF TakenLast
<1>4. Converging(ws, t, ns, nm, v, xm)
  <2>1. \A i \in 1 .. Len(t) : t[i].version <= ns
    BY <1>1, <1>2 DEF Converging
  <2>2. \A i, j \in 1 .. Len(t) : i < j => t[i].version <= t[j].version
    <3>1. \A i \in 1 .. Len(wm) : wm[i].version <= ns
      BY DEF Converging
    <3>2. \A i, j \in 1 .. Len(wm) : i < j => wm[i].version <= wm[j].version
      BY DEF Converging
    <3>3. QED
      BY ONLY <1>1, <1>2, <3>1, <3>2
  <2>3. QED
    BY <1>3, <2>1, <2>2 DEF Converging
<1>5. QED
  BY <1>4 DEF m, t

LEMMA SlaveReceives ==
    ASSUME NEW ws \in Seq(PropertyMessages), NEW wm \in Seq(PropertyMessages),
           NEW ns \in Nat, NEW nm \in Nat, NEW xs, NEW xm,
           Converging(ws, wm, ns, nm, xs, xm), ws # <<>>
    PROVE  Converging(Tail(ws), wm, Head(ws).version, nm, Head(ws).value, xm)
<1>. DEFINE m == Head(ws)
            t == Tail(ws)
<1>1. /\ Len(ws) \in Nat \ {0} /\ Len(t) = Len(ws) - 1 /\ m = ws[1]
      /\ Len(ws) = 1 <=> t = <<>>
      /\ \A i \in 1 .. Len(ws) - 1 : t[i] = ws[i + 1]
  BY Taken
<1>. HIDE DEF m, t
<1>2. m.version = ns + 1
  BY <1>1 DEF Converging
<1>3. \A i \in 1 .. Len(wm) : wm[i].version \in Nat /\ wm[i].version <= ns
  BY SequenceIs, PropertyMessagesAre DEF Converging
<1>4. Len(wm) \in Nat /\ (Len(wm) = 0 <=> wm = <<>>)
  BY SequenceIs
<1>5. ~TakenLast(wm, ns + 1)
  BY <1>3, <1>4 DEF TakenLast
<1>6. t # <<>> => t[Len(t)].value = xm
  BY <1>1 DEF Converging
<1>7. t = <<>> => xm = m.value
  BY <1>1 DEF Converging
<1>8. \A i \in 1 .. Len(t) : t[i].version = ns + 1 + i
  <2>1. \A i \in 1 .. Len(t) : i + 1 \in 1 .. Len(ws) /\ t[i] = ws[i + 1]
    BY <1>1
  <2>2. QED
    BY <1>1, <2>1 DEF Converging
<1>9. Converging(t, wm, ns + 1, nm, m.value, xm)
  BY <1>1, <1>3, <1>5, <1>6, <1>7, <1>8 DEF Converging
<1>10. QED
  BY <1>2, <1>9 DEF m, t

LEMMA MasterReceives ==
    ASSUME NEW ws \in Seq(PropertyMessages), NEW wm \in Seq(PropertyMessages),
           NEW ns \in Nat, NEW nm \in Nat, NEW xs, NEW xm,
           Converging(ws, wm, ns, nm, xs, xm), wm # <<>>
    PROVE  IF Head(wm).version < nm
           THEN Converging(ws, Tail(wm), ns, nm, xs, xm)
           ELSE Converging(ws, Tail(wm), ns, Head(wm).version, xs, Head(wm).value)
<1>. DEFINE m == Head(wm)
            t == Tail(wm)
<1>1. /\ Len(wm) \in Nat \ {0} /\ Len(t) = Len(wm) - 1 /\ m = wm[1]
      /\ Len(wm) = 1 <=> t = <<>>
      /\ \A i \in 1 .. Len(wm) - 1 : t[i] = wm[i + 1]
  BY Taken
<1>2. /\ Len(ws) \in Nat /\ (Len(ws) = 0 <=> ws = <<>>)
      /\ \A i \in 1 .. Len(wm) : wm[i].version \in Nat /\ wm[i].version <= ns
  BY SequenceIs, PropertyMessagesAre DEF Converging
<1>. HIDE DEF m, t
<1>3. /\ \A i \in 1 .. Len(t) : t[i].version <= ns
      /\ \A i, j \in 1 .. Len(t) : i < j => t[i].version <= t[j].version
  <2>1. \A i \in 1 .. Len(t) : i + 1 \in 1 .. Len(wm) /\ t[i] = wm[i + 1]
    BY <1>1
  <2>2. \A i, j \in 1 .. Len(wm) : i < j => wm[i].version <= wm[j].version
    BY DEF Converging
  <2>3. \A i, j \in 1 .. Len(t) : i < j => i + 1 < j + 1
    BY <1>1
  <2>4. \A i, j \in 1 .. Len(t) : i < j => t[i].version <= t[j].version
    BY ONLY <2>1, <2>2, <2>3
  <2>5. QED
    BY <1>2, <2>1, <2>4
<1>4. t # <<>> => t[Len(t)] = wm[Len(wm)]
  BY <1>1
<1>5. CASE m.version < nm
  <2>1. ws = <<>> => nm = ns
    BY <1>2 DEF Converging
  <2>2. ws = <<>> => IF TakenLast(t, ns) THEN t[Len(t)].value = xs ELSE xm = xs
    BY <1>1, <1>2, <1>4, <1>5, <2>1 DEF Converging, TakenLast
  <2>3. Converging(ws, t, ns, nm, xs, xm)
    BY <1>3, <2>2 DEF Converging
  <2>4. QED
    BY <1>5, <2>3 DEF m, t
<1>6. CASE ~(m.version < nm)
  <2>1. m.version \in Nat /\ m.version <= ns /\ nm = ns + Len(ws)
    BY <1>1, <1>2 DEF Converging
  <2>2. Len(ws) = 0 /\ m.version = ns /\ nm = ns
    BY ONLY <1>2, <1>6, <2>1, ns \in Nat, nm \in Nat
  <2>3. ws = <<>>
    BY <1>2, <2>2
  <2>4. wm[Len(wm)].version = ns
    <3>1. Len(wm) = 1 \/ wm[1].version <= wm[Len(wm)].version
      BY <1>1 DEF Converging
    <3>2. wm[Len(wm)].version \in Nat /\ wm[Len(wm)].version <= ns
      BY <1>1, <1>2
    <3>3. QED
      BY <1>1, <2>2, <3>1, <3>2
  <2>5. wm[Len(wm)].value = xs
    BY <2>3, <2>4 DEF Converging, TakenLast
  <2>6. IF TakenLast(t, ns) THEN t[Len(t)].value = xs ELSE m.value = xs
    BY <1>1, <1>4, <2>4, <2>5 DEF TakenLast
  <2>7. Converging(ws, t, ns, ns, xs, m.value)
    BY <1>3, <2>2, <2>3, <2>6 DEF Converging
  <2>8. QED
    BY <1>6, <2>2, <2>7 DEF m, t
<1>7. QED
  BY <1>5, <1>6 DEF m

LEMMA PropertyInvInit == EntitiesInit => PropertyInv
<1> SUFFICES ASSUME EntitiesInit PROVE PropertyInv
  OBVIOUS
<1>1. <<>> \in Seq(PropertyMessages) /\ Len(<<>>) = 0 /\ 0 \in Nat
  OBVIOUS
<1>2. PropertyTypes
  BY <1>1 DEF EntitiesInit, ReactiveInit, PropertyInit, PropertyTypes
<1>3. /\ wire[Slave] = <<>> /\ wire[Master] = <<>>
      /\ master_version[Slave] = 0 /\ master_version[Master] = 0
      /\ value[Slave] = value[Master]
  BY TwoEnds DEF EntitiesInit, ReactiveInit, PropertyInit
<1>4. Converging(<<>>, <<>>, 0, 0, value[Slave], value[Master])
  BY <1>1, <1>3 DEF Converging, TakenLast
<1> QED BY <1>2, <1>3, <1>4 DEF PropertyInv

LEMMA PropertySetKeepsInv ==
    ASSUME PropertyInv, NEW e \in Ends, NEW v \in Values, PropertySet(e, v)
    PROVE  PropertyInv'
<1>. DEFINE m == [version |-> NextVersion(e), value |-> v]
<1>1. PropertyTypes
  BY DEF PropertyInv
<1>2. /\ wire \in [Ends -> Seq(PropertyMessages)] /\ bound \in [Ends -> BOOLEAN]
      /\ value \in [Ends -> Values \union {NoValue}] /\ master_version \in [Ends -> Nat]
  BY <1>1 DEF PropertyTypes
<1>3. NextVersion(e) \in Nat /\ m \in PropertyMessages
  BY <1>2 DEF NextVersion, PropertyMessages
<1>4. Other(e) \in Ends /\ wire[Other(e)] \in Seq(PropertyMessages)
  BY <1>2, TwoEnds
<1>5. wire[Other(e)] \o <<m>> = Append(wire[Other(e)], m)
  BY <1>3, <1>4
<1>6. /\ value' = [value EXCEPT ![e] = v]
      /\ master_version' = [master_version EXCEPT ![e] = NextVersion(e)]
      /\ wire' = IF bound[e] THEN [wire EXCEPT ![Other(e)] = Append(@, m)] ELSE wire
      /\ bound' = bound /\ careful' = (careful /\ bound[e])
  BY <1>5 DEF PropertySet, LocalChange
<1>. HIDE DEF m
<1>7. PropertyTypes'
  <2>1. Append(wire[Other(e)], m) \in Seq(PropertyMessages)
    BY <1>3, <1>4, Appended
  <2>2. wire' \in [Ends -> Seq(PropertyMessages)]
    BY <1>2, <1>6, <2>1
  <2>3. careful' \in BOOLEAN
    BY <1>1, <1>2, <1>6 DEF PropertyTypes
  <2>4. QED
    BY <1>2, <1>3, <1>6, <2>2, <2>3 DEF PropertyTypes
<1>8. ASSUME careful'
      PROVE  Converging(wire'[Slave], wire'[Master], master_version'[Slave],
                        master_version'[Master], value'[Slave], value'[Master])
  <2>1. careful /\ bound[e]
    BY <1>6, <1>8
  <2>2. Converging(wire[Slave], wire[Master], master_version[Slave],
                   master_version[Master], value[Slave], value[Master])
    BY <2>1 DEF PropertyInv
  <2>3. wire' = [wire EXCEPT ![Other(e)] = Append(@, m)]
    BY <1>6, <2>1
  <2>4. /\ wire[Slave] \in Seq(PropertyMessages) /\ wire[Master] \in Seq(PropertyMessages)
        /\ master_version[Slave] \in Nat /\ master_version[Master] \in Nat
    BY <1>2, TwoEnds
  <2>5. CASE e = Master
    <3>1. NextVersion(e) = master_version[Master] + 1
      BY <2>1, <2>5 DEF NextVersion
    <3>2. /\ wire'[Slave] = Append(wire[Slave], m) /\ wire'[Master] = wire[Master]
          /\ master_version'[Slave] = master_version[Slave]
          /\ master_version'[Master] = master_version[Master] + 1
          /\ value'[Slave] = value[Slave] /\ value'[Master] = v
      BY <1>2, <1>6, <2>3, <2>5, <3>1, TwoEnds
    <3>3. m = [version |-> master_version[Master] + 1, value |-> v]
      BY <3>1 DEF m
    <3>4. QED
      BY <2>2, <2>4, <3>2, <3>3, MasterSets
  <2>6. CASE e = Slave
    <3>1. NextVersion(e) = master_version[Slave]
      BY <2>6, TwoEnds DEF NextVersion
    <3>2. /\ wire'[Slave] = wire[Slave] /\ wire'[Master] = Append(wire[Master], m)
          /\ master_version'[Slave] = master_version[Slave]
          /\ master_version'[Master] = master_version[Master]
          /\ value'[Slave] = v /\ value'[Master] = value[Master]
      BY <1>2, <1>6, <2>3, <2>6, <3>1, TwoEnds
    <3>3. m = [version |-> master_version[Slave], value |-> v]
      BY <3>1 DEF m
    <3>4. QED
      BY <2>2, <2>4, <3>2, <3>3, SlaveSets
  <2>7. QED
    BY <2>5, <2>6, TwoEnds
<1>9. QED
  BY <1>7, <1>8 DEF PropertyInv

LEMMA PropertyReceivedKeepsInv ==
    ASSUME PropertyInv, NEW e \in Ends, PropertyReceived(e)
    PROVE  PropertyInv'
<1>. DEFINE m == Head(wire[e])
            t == Tail(wire[e])
<1>1. PropertyTypes
  BY DEF PropertyInv
<1>2. /\ wire \in [Ends -> Seq(PropertyMessages)] /\ bound \in [Ends -> BOOLEAN]
      /\ value \in [Ends -> Values \union {NoValue}] /\ master_version \in [Ends -> Nat]
  BY <1>1 DEF PropertyTypes
<1>3. wire[e] # <<>> /\ wire[e] \in Seq(PropertyMessages)
  BY <1>2 DEF PropertyReceived, WireReceived
<1>4. m \in PropertyMessages /\ t \in Seq(PropertyMessages)
  BY <1>3, Taken
<1>5. m.version \in Nat /\ m.value \in Values
  BY <1>4 DEF PropertyMessages
<1>6. \A s \in Seq(PropertyMessages) : s \o <<>> = s
  OBVIOUS
<1>7. Other(e) \in Ends /\ Other(e) # e /\ wire[Other(e)] \o <<>> = wire[Other(e)]
  BY <1>2, <1>6, TwoEnds
<1>8. wire' = [wire EXCEPT ![e] = t]
  <2>1. wire' = [wire EXCEPT ![e] = t, ![Other(e)] = @ \o <<>>]
    BY DEF PropertyReceived, WireReceived
  <2>2. QED
    BY <1>2, <1>7, <2>1
<1>9. /\ IF Rejected(e, m.version)
         THEN UNCHANGED propertyVars
         ELSE /\ master_version' = [master_version EXCEPT ![e] = m.version]
              /\ value' = [value EXCEPT ![e] = m.value]
      /\ bound' = bound /\ careful' = careful
  BY DEF PropertyReceived, WireReceived
<1>. HIDE DEF m, t
<1>10. PropertyTypes'
  <2>1. wire' \in [Ends -> Seq(PropertyMessages)]
    BY <1>2, <1>4, <1>8
  <2>2. /\ value' \in [Ends -> Values \union {NoValue}]
        /\ master_version' \in [Ends -> Nat]
    BY <1>2, <1>5, <1>9 DEF propertyVars
  <2>3. QED
    BY <1>1, <1>9, <2>1, <2>2 DEF PropertyTypes
<1>11. ASSUME careful'
       PROVE  Converging(wire'[Slave], wire'[Master], master_version'[Slave],
                         master_version'[Master], value'[Slave], value'[Master])
  <2>1. Converging(wire[Slave], wire[Master], master_version[Slave],
                   master_version[Master], value[Slave], value[Master])
    BY <1>9, <1>11 DEF PropertyInv
  <2>2. /\ wire[Slave] \in Seq(PropertyMessages) /\ wire[Master] \in Seq(PropertyMessages)
        /\ master_version[Slave] \in Nat /\ master_version[Master] \in Nat
    BY <1>2, TwoEnds
  <2>3. CASE e = Slave
    <3>1. ~Rejected(e, m.version)
      BY <2>3, TwoEnds DEF Rejected
    <3>2. /\ wire'[Slave] = Tail(wire[Slave]) /\ wire'[Master] = wire[Master]
          /\ master_version'[Slave] = Head(wire[Slave]).version
          /\ master_version'[Master] = master_version[Master]
          /\ value'[Slave] = Head(wire[Slave]).value /\ value'[Master] = value[Master]
      BY <1>2, <1>8, <1>9, <2>3, <3>1, TwoEnds DEF m, t
    <3>3. wire[Slave] # <<>>
      BY <1>3, <2>3
    <3>4. QED
      BY <2>1, <2>2, <3>2, <3>3, SlaveReceives
  <2>4. CASE e = Master
    <3>1. Rejected(e, m.version) <=> Head(wire[Master]).version < master_version[Master]
      BY <2>4 DEF Rejected, m
    <3>2. /\ wire'[Slave] = wire[Slave] /\ wire'[Master] = Tail(wire[Master])
          /\ wire[Master] # <<>>
      BY <1>2, <1>3, <1>8, <2>4, TwoEnds DEF t
    <3>3. IF Head(wire[Master]).version < master_version[Master]
          THEN master_version' = master_version /\ value' = value
          ELSE /\ master_version'[Slave] = master_version[Slave]
               /\ master_version'[Master] = Head(wire[Master]).version
               /\ value'[Slave] = value[Slave]
               /\ value'[Master] = Head(wire[Master]).value
      BY <1>2, <1>9, <2>4, <3>1, TwoEnds DEF propertyVars, m
    <3>4. IF Head(wire[Master]).version < master_version[Master]
          THEN Converging(wire[Slave], Tail(wire[Master]), master_version[Slave],
                          master_version[Master], value[Slave], value[Master])
          ELSE Converging(wire[Slave], Tail(wire[Master]), master_version[Slave],
                          Head(wire[Master]).version, value[Slave],
                          Head(wire[Master]).value)
      BY <2>1, <2>2, <3>2, MasterReceives
    <3>5. QED
      BY <3>2, <3>3, <3>4
  <2>5. QED
    BY <2>3, <2>4, TwoEnds
<1>12. QED
  BY <1>10, <1>11 DEF PropertyInv

LEMMA PropertyStep ==
    kind = "property" /\ PropertyInv /\ [EntitiesNext]_entityVars
        => kind' = kind /\ PropertyInv'
<1> SUFFICES ASSUME kind = "property", PropertyInv, [EntitiesNext]_entityVars
             PROVE  kind' = kind /\ PropertyInv'
  OBVIOUS
<1>1. CASE UNCHANGED entityVars
  BY <1>1 DEF entityVars, reactiveVars, propertyVars, PropertyInv, PropertyTypes
<1>2. CASE kind' = kind /\ PropertyNext
  <2>1. CASE \E e \in Ends : \E v \in Values : PropertySet(e, v)
    BY <1>2, <2>1, PropertySetKeepsInv
  <2>2. ASSUME NEW e \in Ends, PropertyBind(e)
        PROVE  PropertyInv'
    <3>1. /\ wire \in [Ends -> Seq(PropertyMessages)] /\ bound \in [Ends -> BOOLEAN]
          /\ Other(e) \in Ends
      BY TwoEnds DEF PropertyInv, PropertyTypes
    <3>2. \A s \in Seq(PropertyMessages) : s \o <<>> = s
      OBVIOUS
    <3>3. wire' = [wire EXCEPT ![Other(e)] = @ \o <<>>] /\ bound' = [bound EXCEPT ![e] = TRUE]
      BY <2>2 DEF PropertyBind, Bind
    <3>4. wire' = wire
      BY <3>1, <3>2, <3>3
    <3>5. bound' \in [Ends -> BOOLEAN]
      BY <3>1, <3>3
    <3>6. QED
      BY <2>2, <3>4, <3>5 DEF PropertyBind, propertyVars, PropertyInv, PropertyTypes
  <2>3. CASE \E e \in Ends : PropertyReceived(e)
    BY <1>2, <2>3, PropertyReceivedKeepsInv
  <2>4. QED
    BY <1>2, <2>1, <2>2, <2>3 DEF PropertyNext
<1>3. QED
  BY <1>1, <1>2 DEF EntitiesNext, OnlyProperty, OnlyMap, OnlyList, OnlySet, OnlyExtension

\* Nothing is under way: what is left of the invariant is the property.
LEMMA PropertyInvConverges == PropertyInv => PropertyConverges
<1> SUFFICES ASSUME PropertyInv, Quiet, careful
             PROVE  \A e, o \in Ends :
                       value[e] = value[o] /\ master_version[e] = master_version[o]
  BY DEF PropertyConverges
<1>1. wire[Slave] = <<>> /\ wire[Master] = <<>>
  BY TwoEnds DEF Quiet
<1>2. /\ master_version[Master] = master_version[Slave] + Len(<<>>)
      /\ value[Master] = value[Slave]
  BY <1>1 DEF PropertyInv, Converging, TakenLast
<1>3. master_version[Slave] \in Nat
  BY TwoEnds DEF PropertyInv, PropertyTypes
<1>4. master_version[Master] = master_version[Slave]
  BY <1>2, <1>3
<1> QED BY <1>2, <1>4, TwoEnds

(***************************************************************************)
(* The copies of a property are equal when nothing is under way, however   *)
(* the values that both ends set cross: what the master rejects was set    *)
(* without knowing the value that the master has since.                    *)
(***************************************************************************)
THEOREM CopiesOfPropertiesConverge == EntitiesSpec => []PropertiesConverge
<1>1. EntitiesInit => (kind = "property" => PropertyInv)
  BY PropertyInvInit
<1>2. (kind = "property" => PropertyInv) /\ [EntitiesNext]_entityVars
        => (kind = "property" => PropertyInv)'
  <2> SUFFICES ASSUME kind = "property" => PropertyInv, [EntitiesNext]_entityVars,
                      kind' = "property"
               PROVE  PropertyInv'
    OBVIOUS
  <2>1. kind' = kind
    BY DEF EntitiesNext, OnlyProperty, OnlyMap, OnlyList, OnlySet, OnlyExtension, entityVars
  <2> QED BY <2>1, PropertyStep
<1>3. (kind = "property" => PropertyInv) => PropertiesConverge
  BY PropertyInvConverges DEF PropertiesConverge
<1> QED BY <1>1, <1>2, <1>3, PTL DEF EntitiesSpec

-----------------------------------------------------------------------------
(***************************************************************************)
(* Sequences of the elements of a finite set                               *)
(***************************************************************************)
LEMMA SetToSeqIs ==
    ASSUME NEW S, IsFiniteSet(S)
    PROVE  /\ SetToSeq(S) \in Seq(S) /\ IsInjective(SetToSeq(S))
           /\ \A v \in S : \E i \in DOMAIN SetToSeq(S) : SetToSeq(S)[i] = v
<1>. DEFINE n == Cardinality(S)
            q == SetToSeq(S)
<1>1. n \in Nat /\ ExistsBijection(1 .. n, S)
  BY FS_CardinalityType
<1>2. \E f \in [1 .. n -> S] : IsInjective(f)
  BY <1>1 DEF ExistsBijection, Bijection, Injection
<1>3. q \in [1 .. n -> S] /\ IsInjective(q)
  BY <1>2 DEF SetToSeq
<1>4. q \in Injection(1 .. n, S)
  BY <1>3 DEF Injection
<1>5. Cardinality(1 .. n) = n
  <2>1. \A a, b \in Int : Cardinality(a .. b) = IF a > b THEN 0 ELSE b - a + 1
    BY FS_Interval
  <2>2. Cardinality(1 .. n) = IF 1 > n THEN 0 ELSE n - 1 + 1
    BY <1>1, <2>1
  <2>3. QED
    BY <1>1, <2>2
<1>6. q \in Surjection(1 .. n, S)
  BY <1>4, <1>5, FS_Injection
<1>7. DOMAIN q = 1 .. n /\ q \in Seq(S)
  BY <1>1, <1>3
<1>8. \A v \in S : \E i \in 1 .. n : q[i] = v
  BY <1>6 DEF Surjection
<1>9. QED
  BY <1>3, <1>7, <1>8

LEMMA Concatenated ==
    ASSUME NEW S, NEW s \in Seq(S), NEW t \in Seq(S)
    PROVE  /\ s \o t \in Seq(S) /\ Len(s) \in Nat /\ Len(t) \in Nat
           /\ Len(s \o t) = Len(s) + Len(t)
           /\ \A i \in 1 .. Len(s) : (s \o t)[i] = s[i]
           /\ \A i \in 1 .. Len(t) : (s \o t)[Len(s) + i] = t[i]
           /\ \A i \in 1 .. Len(s) + Len(t) : i \in 1 .. Len(s) \/ i - Len(s) \in 1 .. Len(t)
OBVIOUS

-----------------------------------------------------------------------------
(***************************************************************************)
(* Sets.  Unless both ends change an element at a time, messages about it  *)
(* are under way in one direction only, and the last of them says whether  *)
(* the end that sent it holds the element.                                 *)
(***************************************************************************)
SetMessages == [kind : {"ADD", "REMOVE"}, value : Values]

About(s, v) == \E i \in 1 .. Len(s) : s[i].value = v

SaysAdd(s, v) == \E i \in 1 .. Len(s) :
    s[i].value = v /\ s[i].kind = "ADD" /\ \A j \in 1 .. Len(s) : j > i => s[j].value # v

SetTypes ==
    /\ wire \in [Ends -> Seq(SetMessages)]
    /\ bound \in [Ends -> BOOLEAN]
    /\ careful \in BOOLEAN
    /\ set \in [Ends -> SUBSET Values]
    /\ \A e \in Ends : ~bound[e] => wire[Other(e)] = <<>>

OneWay(v) == \A e, o \in Ends : e # o /\ About(wire[e], v) => ~About(wire[o], v)

Truthful(v) == \A e \in Ends :
    About(wire[e], v) => (SaysAdd(wire[e], v) <=> v \in set[Other(e)])

Settled(v) ==
    (\A e \in Ends : ~About(wire[e], v)) => \A e, o \in Ends :
        /\ bound[e] /\ bound[o] => (v \in set[e] <=> v \in set[o])
        /\ bound[e] /\ ~bound[o] => v \notin set[e]

SetInv ==
    /\ SetTypes
    /\ careful => \A v \in Values : OneWay(v) /\ Truthful(v) /\ Settled(v)

LEMMA EventsAre ==
    ASSUME NEW S, S \subseteq Values, NEW k \in {"ADD", "REMOVE"}
    PROVE  /\ Events(k, S) \in Seq(SetMessages)
           /\ \A i \in 1 .. Len(Events(k, S)) : Events(k, S)[i].kind = k
           /\ \A v : About(Events(k, S), v) <=> v \in S
           /\ \A v \in S : SaysAdd(Events(k, S), v) <=> k = "ADD"
<1>. DEFINE q == SetToSeq(S)
            t == Events(k, S)
<1>1. IsFiniteSet(S)
  BY RdReactiveBaseAssumption, FS_Subset
<1>2. q \in Seq(S) /\ IsInjective(q) /\ \A v \in S : \E i \in DOMAIN q : q[i] = v
  BY <1>1, SetToSeqIs
<1>3. Len(q) \in Nat /\ DOMAIN q = 1 .. Len(q) /\ \A i \in 1 .. Len(q) : q[i] \in S
  BY <1>2, SequenceIs
<1>4. t = [i \in 1 .. Len(q) |-> Event(k, q[i])]
  BY <1>3 DEF Events
<1>. HIDE DEF q, t
<1>5. \A i \in 1 .. Len(q) : Event(k, q[i]) \in SetMessages
  BY <1>3 DEF Event, SetMessages
<1>6. t \in Seq(SetMessages) /\ Len(t) = Len(q)
  BY <1>3, <1>4, <1>5
<1>7. \A i \in 1 .. Len(t) : t[i].kind = k /\ t[i].value = q[i]
  BY <1>4, <1>6 DEF Event
<1>8. \A v : About(t, v) <=> v \in S
  BY <1>2, <1>3, <1>6, <1>7 DEF About
<1>9. ASSUME NEW v \in S
      PROVE  SaysAdd(t, v) <=> k = "ADD"
  <2>1. PICK i \in 1 .. Len(t) : q[i] = v
    BY <1>2, <1>3, <1>6
  <2>2. \A j \in 1 .. Len(t) : j > i => q[j] # v
    BY <1>2, <1>3, <1>6, <2>1 DEF IsInjective
  <2>3. QED
    BY <1>7, <2>1, <2>2 DEF SaysAdd
<1>10. QED
  BY <1>6, <1>7, <1>8, <1>9 DEF t

\* More messages, about the elements of S.
LEMMA AboutMore ==
    ASSUME NEW s \in Seq(SetMessages), NEW t \in Seq(SetMessages), NEW v
    PROVE  /\ About(s \o t, v) <=> About(s, v) \/ About(t, v)
           /\ ~About(t, v) => (SaysAdd(s \o t, v) <=> SaysAdd(s, v))
           /\ About(t, v) => (SaysAdd(s \o t, v) <=> SaysAdd(t, v))
<1>. DEFINE u == s \o t
            n == Len(s)
<1>1. /\ n \in Nat /\ Len(t) \in Nat /\ Len(u) = n + Len(t)
      /\ \A i \in 1 .. n : u[i] = s[i]
      /\ \A i \in 1 .. Len(t) : u[n + i] = t[i]
      /\ \A i \in 1 .. n + Len(t) : i \in 1 .. n \/ i - n \in 1 .. Len(t)
  BY Concatenated
<1>. HIDE DEF u
<1>2. \A i \in 1 .. Len(t) : n + i \in 1 .. Len(u) /\ n + i > n
  BY <1>1
<1>3. \A i \in 1 .. Len(u) : i \notin 1 .. n =>
        i - n \in 1 .. Len(t) /\ u[i] = t[i - n] /\ i > n
  <2>1. SUFFICES ASSUME NEW i \in 1 .. Len(u), i \notin 1 .. n
                 PROVE  i - n \in 1 .. Len(t) /\ u[i] = t[i - n] /\ i > n
    OBVIOUS
  <2>2. i - n \in 1 .. Len(t) /\ n + (i - n) = i /\ i > n
    BY ONLY <1>1, <2>1
  <2>3. QED
    BY <1>1, <2>2
<1>4. \A i \in 1 .. n : i \in 1 .. Len(u) /\ i <= n
  BY <1>1
<1>5. About(u, v) <=> About(s, v) \/ About(t, v)
  <2>1. About(s, v) => About(u, v)
    BY <1>1, <1>4 DEF About
  <2>2. About(t, v) => About(u, v)
    BY <1>1, <1>2 DEF About
  <2>3. ASSUME About(u, v), ~About(s, v) PROVE About(t, v)
    <3>1. PICK i \in 1 .. Len(u) : u[i].value = v
      BY <2>3 DEF About
    <3>2. i \notin 1 .. n
      BY <1>1, <2>3, <3>1 DEF About
    <3>3. QED
      BY <1>3, <3>1, <3>2 DEF About
  <2>4. QED
    BY <2>1, <2>2, <2>3
<1>6. ASSUME ~About(t, v)
      PROVE  SaysAdd(u, v) <=> SaysAdd(s, v)
  <2>1. \A i \in 1 .. Len(u) : u[i].value = v => i \in 1 .. n
    BY <1>3, <1>6 DEF About
  <2>2. SaysAdd(u, v) => SaysAdd(s, v)
    <3>1. SUFFICES ASSUME NEW i \in 1 .. Len(u), u[i].value = v, u[i].kind = "ADD",
                          \A j \in 1 .. Len(u) : j > i => u[j].value # v
                   PROVE  SaysAdd(s, v)
      BY DEF SaysAdd
    <3>2. i \in 1 .. n /\ \A j \in 1 .. n : j > i => s[j].value # v
      BY <1>1, <1>4, <2>1, <3>1
    <3>3. QED
      BY <1>1, <3>1, <3>2 DEF SaysAdd
  <2>3. SaysAdd(s, v) => SaysAdd(u, v)
    <3>1. SUFFICES ASSUME NEW i \in 1 .. n, s[i].value = v, s[i].kind = "ADD",
                          \A j \in 1 .. n : j > i => s[j].value # v
                   PROVE  SaysAdd(u, v)
      BY DEF SaysAdd
    <3>2. \A j \in 1 .. Len(u) : j > i => u[j].value # v
      BY <1>1, <2>1, <3>1
    <3>3. QED
      BY <1>1, <1>4, <3>1, <3>2 DEF SaysAdd
  <2>4. QED
    BY <2>2, <2>3
<1>7. ASSUME About(t, v)
      PROVE  SaysAdd(u, v) <=> SaysAdd(t, v)
  <2>1. SaysAdd(t, v) => SaysAdd(u, v)
    <3>1. SUFFICES ASSUME NEW i \in 1 .. Len(t), t[i].value = v, t[i].kind = "ADD",
                          \A j \in 1 .. Len(t) : j > i => t[j].value # v
                   PROVE  SaysAdd(u, v)
      BY DEF SaysAdd
    <3>2. n + i \in 1 .. Len(u) /\ u[n + i] = t[i]
      BY <1>1, <1>2
    <3>3. ASSUME NEW j \in 1 .. Len(u), j > n + i
          PROVE  u[j].value # v
      <4>1. j \notin 1 .. n /\ j - n > i
        BY ONLY <1>1, <3>3, i \in 1 .. Len(t)
      <4>2. QED
        BY <1>3, <3>1, <3>3, <4>1
    <3>4. QED
      BY <3>1, <3>2, <3>3 DEF SaysAdd
  <2>2. SaysAdd(u, v) => SaysAdd(t, v)
    <3>1. SUFFICES ASSUME NEW i \in 1 .. Len(u), u[i].value = v, u[i].kind = "ADD",
                          \A j \in 1 .. Len(u) : j > i => u[j].value # v
                   PROVE  SaysAdd(t, v)
      BY DEF SaysAdd
    <3>2. PICK k \in 1 .. Len(t) : t[k].value = v
      BY <1>7 DEF About
    <3>3. i \notin 1 .. n
      <4>1. n + k \in 1 .. Len(u) /\ u[n + k].value = v
        BY <1>1, <1>2, <3>2
      <4>2. ~(n + k > i)
        BY <3>1, <4>1
      <4>3. QED
        BY ONLY <1>1, <4>2, k \in 1 .. Len(t)
    <3>4. i - n \in 1 .. Len(t) /\ u[i] = t[i - n]
      BY <1>3, <3>3
    <3>5. ASSUME NEW j \in 1 .. Len(t), j > i - n
          PROVE  t[j].value # v
      <4>1. n + j \in 1 .. Len(u) /\ n + j > i /\ u[n + j] = t[j]
        BY <1>1, <1>2, <3>5
      <4>2. QED
        BY <3>1, <4>1
    <3>6. QED
      BY <3>1, <3>4, <3>5 DEF SaysAdd
  <2>3. QED
    BY <2>1, <2>2
<1>8. QED
  BY <1>5, <1>6, <1>7 DEF u

\* The first message goes.
LEMMA AboutLess ==
    ASSUME NEW s \in Seq(SetMessages), s # <<>>, NEW v
    PROVE  /\ Head(s).value # v =>
                /\ About(Tail(s), v) <=> About(s, v)
                /\ SaysAdd(Tail(s), v) <=> SaysAdd(s, v)
           /\ Head(s).value = v =>
                /\ About(s, v)
                /\ About(Tail(s), v) => (SaysAdd(Tail(s), v) <=> SaysAdd(s, v))
                /\ ~About(Tail(s), v) => (SaysAdd(s, v) <=> Head(s).kind = "ADD")
<1>. DEFINE h == <<Head(s)>>
            t == Tail(s)
<1>1. /\ Head(s) \in SetMessages /\ t \in Seq(SetMessages)
  BY Taken
<1>2. h \in Seq(SetMessages) /\ Len(h) = 1 /\ h[1] = Head(s) /\ s = h \o t
  BY <1>1
<1>. HIDE DEF h, t
<1>3. /\ About(s, v) <=> About(h, v) \/ About(t, v)
      /\ ~About(t, v) => (SaysAdd(s, v) <=> SaysAdd(h, v))
      /\ About(t, v) => (SaysAdd(s, v) <=> SaysAdd(t, v))
  BY <1>1, <1>2, AboutMore
<1>4. /\ About(h, v) <=> Head(s).value = v
      /\ SaysAdd(h, v) <=> Head(s).value = v /\ Head(s).kind = "ADD"
  BY <1>2 DEF About, SaysAdd
<1>5. ~About(t, v) => ~SaysAdd(t, v)
  BY DEF About, SaysAdd
<1>6. QED
  BY <1>3, <1>4, <1>5 DEF t

LEMMA SetInvInit == EntitiesInit => SetInv
<1> SUFFICES ASSUME EntitiesInit PROVE SetInv
  OBVIOUS
<1>1. <<>> \in Seq(SetMessages) /\ Len(<<>>) = 0
  OBVIOUS
<1>2. /\ wire = [e \in Ends |-> <<>>] /\ bound = [e \in Ends |-> FALSE] /\ careful = TRUE
      /\ set = [e \in Ends |-> {}]
  BY DEF EntitiesInit, ReactiveInit, SetInit
<1>3. SetTypes
  BY <1>1, <1>2, TwoEnds DEF SetTypes
<1>4. \A e \in Ends : \A v : ~About(wire[e], v)
  BY <1>1, <1>2 DEF About
<1>5. \A v \in Values : OneWay(v) /\ Truthful(v) /\ Settled(v)
  BY <1>2, <1>4 DEF OneWay, Truthful, Settled
<1> QED BY <1>3, <1>5 DEF SetInv

\* What e makes of the elements in S, and says so in messages that are sent.
\* No element of S is in a message to e.
LEMMA SetChangeKeepsInv ==
    ASSUME SetInv, NEW e \in Ends, NEW S, S \subseteq Values,
           NEW k \in {"ADD", "REMOVE"}, NEW held, held \subseteq Values,
           \A v \in S : v \in held <=> k = "ADD",
           \A v \in Values \ S : v \in held <=> v \in set[e],
           set' = [set EXCEPT ![e] = held],
           careful' \in BOOLEAN, careful' => careful /\ \A v \in S : ~About(wire[e], v),
           \/ /\ bound' = bound \/ bound' = [bound EXCEPT ![e] = TRUE]
              /\ bound'[e] = TRUE
              /\ bound[e] \/ (k = "ADD" /\ S = set[e])
              /\ wire' = [wire EXCEPT ![Other(e)] = @ \o Events(k, S)]
           \/ bound' = bound /\ ~bound[e] /\ wire' = wire
    PROVE  SetInv'
<1>. DEFINE o == Other(e)
            t == Events(k, S)
<1>1. /\ wire \in [Ends -> Seq(SetMessages)] /\ bound \in [Ends -> BOOLEAN]
      /\ set \in [Ends -> SUBSET Values]
      /\ \A f \in Ends : ~bound[f] => wire[Other(f)] = <<>>
  BY DEF SetInv, SetTypes
<1>2. o \in Ends /\ o # e /\ Other(o) = e /\ \A f \in Ends : f = e \/ f = o
  BY TwoEnds
<1>3. /\ t \in Seq(SetMessages)
      /\ \A v : About(t, v) <=> v \in S
      /\ \A v \in S : SaysAdd(t, v) <=> k = "ADD"
  BY EventsAre
<1>4. wire[o] \in Seq(SetMessages) /\ wire[o] \o t \in Seq(SetMessages)
  BY <1>1, <1>2, <1>3
<1>5. \A v : /\ About(wire[o] \o t, v) <=> About(wire[o], v) \/ v \in S
             /\ v \notin S => (SaysAdd(wire[o] \o t, v) <=> SaysAdd(wire[o], v))
             /\ v \in S => (SaysAdd(wire[o] \o t, v) <=> k = "ADD")
  BY <1>1, <1>2, <1>3, <1>4, AboutMore
<1>. HIDE DEF o, t
<1>6. wire'[e] = wire[e] /\ set'[o] = set[o] /\ set'[e] = held /\ bound'[o] = bound[o]
  BY <1>1, <1>2 DEF o
<1>7. \/ bound'[e] = TRUE /\ wire'[o] = wire[o] \o t
      \/ bound'[e] = bound[e] /\ ~bound[e] /\ wire'[o] = <<>>
  BY <1>1, <1>2 DEF o, t
<1>8. SetTypes'
  <2>1. wire' \in [Ends -> Seq(SetMessages)] /\ bound' \in [Ends -> BOOLEAN]
    BY <1>1, <1>2, <1>4 DEF o, t
  <2>2. set' \in [Ends -> SUBSET Values]
    BY <1>1
  <2>3. ~bound'[e] => wire'[Other(e)] = <<>>
    BY <1>7 DEF o
  <2>4. ~bound'[o] => wire'[Other(o)] = <<>>
    BY <1>1, <1>2, <1>6
  <2>5. QED
    BY <1>2, <2>1, <2>2, <2>3, <2>4 DEF SetTypes
<1>9. ASSUME careful', NEW v \in Values
      PROVE  (OneWay(v) /\ Truthful(v) /\ Settled(v))'
  <2>1. OneWay(v) /\ Truthful(v) /\ Settled(v) /\ (v \in S => ~About(wire[e], v))
    BY <1>9 DEF SetInv
  <2>2. ~About(<<>>, v)
    BY DEF About
  <2>3. CASE bound'[e] = TRUE /\ wire'[o] = wire[o] \o t /\ v \in S
    <3>1. /\ About(wire'[o], v) /\ (SaysAdd(wire'[o], v) <=> k = "ADD")
          /\ ~About(wire'[e], v) /\ (v \in held <=> k = "ADD")
      BY <1>5, <1>6, <2>1, <2>3
    <3>2. QED
      BY <1>2, <1>6, <3>1 DEF OneWay, Truthful, Settled
  <2>4. CASE bound'[e] = TRUE /\ wire'[o] = wire[o] \o t /\ v \notin S
    <3>1. /\ About(wire'[o], v) <=> About(wire[o], v)
          /\ SaysAdd(wire'[o], v) <=> SaysAdd(wire[o], v)
          /\ v \in set'[e] <=> v \in set[e]
      BY <1>5, <1>6, <2>4
    <3>2. OneWay(v)' /\ Truthful(v)'
      BY <1>2, <1>6, <2>1, <3>1 DEF OneWay, Truthful
    <3>3. CASE bound[e]
      <4>1. Settled(v)'
        BY <1>2, <1>6, <2>1, <2>4, <3>1, <3>3 DEF Settled
      <4>2. QED
        BY <3>2, <4>1
    <3>4. CASE ~bound[e]
      <4>1. v \notin set[e]
        BY <2>4, <3>4
      <4>2. Settled(v)'
        BY <1>2, <1>6, <2>1, <2>4, <3>1, <3>4, <4>1 DEF Settled
      <4>3. QED
        BY <3>2, <4>2
    <3>5. QED
      BY <3>2, <3>3, <3>4
  <2>5. CASE bound'[e] = bound[e] /\ ~bound[e] /\ wire'[o] = <<>>
    <3>1. wire[o] = <<>>
      BY <1>1, <2>5 DEF o
    <3>2. OneWay(v)' /\ Truthful(v)'
      <4>1. \A f \in Ends : wire'[f] = wire[f]
        BY <1>2, <1>6, <2>5, <3>1
      <4>2. ~About(wire[o], v)
        BY <2>2, <3>1
      <4>3. QED
        BY <1>2, <1>6, <2>1, <4>1, <4>2 DEF OneWay, Truthful
    <3>3. Settled(v)'
      <4>1. ~About(wire[o], v) /\ ~About(wire'[o], v)
        BY <2>2, <2>5, <3>1
      <4>2. QED
        BY <1>2, <1>6, <2>1, <2>5, <4>1 DEF Settled
    <3>4. QED
      BY <3>2, <3>3
  <2>6. QED
    BY <1>7, <2>3, <2>4, <2>5
<1>10. QED
  BY <1>8, <1>9 DEF SetInv

\* What is crossing is in a message.
LEMMA CrossingIsAbout ==
    ASSUME SetTypes, NEW e \in Ends, NEW S, ~CrossingElement(e, S), NEW v \in S
    PROVE  ~About(wire[e], v)
<1>1. wire[e] \in Seq(SetMessages)
  BY DEF SetTypes
<1>2. DOMAIN wire[e] = 1 .. Len(wire[e])
  BY <1>1, SequenceIs
<1>3. QED
  BY <1>2 DEF CrossingElement, About, Range

LEMMA SetLocalChange ==
    ASSUME SetInv, NEW e \in Ends, NEW S, S \subseteq Values,
           SetAdd(e, S) \/ SetRemove(e, S)
    PROVE  SetInv'
<1>1. SetTypes /\ careful \in BOOLEAN /\ set[e] \subseteq Values /\ bound[e] \in BOOLEAN
  BY DEF SetInv, SetTypes
<1>2. CASE SetAdd(e, S)
  <2>. DEFINE C == Added(e, S)
              held == set[e] \union S
  <2>1. /\ C \subseteq Values /\ held \subseteq Values
        /\ \A v \in C : v \in held
        /\ \A v \in Values \ C : v \in held <=> v \in set[e]
    BY <1>1 DEF Added
  <2>2. /\ set' = [set EXCEPT ![e] = held] /\ bound' = bound
        /\ careful' = (careful /\ ~CrossingElement(e, S))
        /\ wire' = IF bound[e] THEN [wire EXCEPT ![Other(e)] = @ \o Events("ADD", C)]
                   ELSE wire
    BY <1>2 DEF SetAdd, LocalChange
  <2>3. /\ careful' \in BOOLEAN
        /\ careful' => careful /\ \A v \in C : ~About(wire[e], v)
    BY <1>1, <2>2, CrossingIsAbout DEF Added
  <2>. HIDE DEF C, held
  <2>4. QED
    BY <1>1, <2>1, <2>2, <2>3, SetChangeKeepsInv
<1>3. CASE SetRemove(e, S)
  <2>. DEFINE held == set[e] \ S
  <2>1. /\ held \subseteq Values
        /\ \A v \in S : v \notin held
        /\ \A v \in Values \ S : v \in held <=> v \in set[e]
    BY <1>1
  <2>2. /\ set' = [set EXCEPT ![e] = held] /\ bound' = bound
        /\ careful' = (careful /\ ~CrossingElement(e, S))
        /\ wire' = IF bound[e] THEN [wire EXCEPT ![Other(e)] = @ \o Events("REMOVE", S)]
                   ELSE wire
    BY <1>3 DEF SetRemove, LocalChange
  <2>3. /\ careful' \in BOOLEAN
        /\ careful' => careful /\ \A v \in S : ~About(wire[e], v)
    BY <1>1, <2>2, CrossingIsAbout
  <2>. HIDE DEF held
  <2>4. QED
    BY <1>1, <2>1, <2>2, <2>3, SetChangeKeepsInv
<1>4. QED
  BY <1>2, <1>3

LEMMA SetBindKeepsInv ==
    ASSUME SetInv, NEW e \in Ends, SetBind(e)
    PROVE  SetInv'
<1>1. /\ SetTypes /\ careful \in BOOLEAN /\ set[e] \subseteq Values
      /\ set \in [Ends -> SUBSET Values] /\ bound \in [Ends -> BOOLEAN]
  BY DEF SetInv, SetTypes
<1>2. /\ set' = set /\ bound' = [bound EXCEPT ![e] = TRUE] /\ ~bound[e]
      /\ careful' = (careful /\ ~CrossingElement(e, set[e]))
      /\ wire' = [wire EXCEPT ![Other(e)] = @ \o Events("ADD", set[e])]
  BY DEF SetBind, Bind
<1>3. set' = [set EXCEPT ![e] = set[e]] /\ bound'[e] = TRUE
  BY <1>1, <1>2
<1>4. /\ careful' \in BOOLEAN
      /\ careful' => careful /\ \A v \in set[e] : ~About(wire[e], v)
  BY <1>1, <1>2, CrossingIsAbout
<1>5. QED
  BY <1>1, <1>2, <1>3, <1>4, SetChangeKeepsInv

LEMMA SetReceivedKeepsInv ==
    ASSUME SetInv, NEW e \in Ends, SetReceived(e)
    PROVE  SetInv'
<1>. DEFINE o == Other(e)
            m == Head(wire[e])
            t == Tail(wire[e])
<1>1. /\ wire \in [Ends -> Seq(SetMessages)] /\ bound \in [Ends -> BOOLEAN]
      /\ set \in [Ends -> SUBSET Values] /\ careful \in BOOLEAN
      /\ \A f \in Ends : ~bound[f] => wire[Other(f)] = <<>>
  BY DEF SetInv, SetTypes
<1>2. o \in Ends /\ o # e /\ Other(o) = e /\ \A f \in Ends : f = e \/ f = o
  BY TwoEnds
<1>3. wire[e] # <<>> /\ wire[e] \in Seq(SetMessages) /\ bound[e]
  BY <1>1 DEF SetReceived, WireReceived
<1>4. m \in SetMessages /\ t \in Seq(SetMessages)
  BY <1>3, Taken
<1>5. m.kind \in {"ADD", "REMOVE"} /\ m.value \in Values
  BY <1>4 DEF SetMessages
<1>6. bound[o]
  BY <1>1, <1>2, <1>3
<1>7. \A s \in Seq(SetMessages) : s \o <<>> = s
  OBVIOUS
<1>8. wire' = [wire EXCEPT ![e] = t]
  <2>1. wire' = [wire EXCEPT ![e] = t, ![o] = @ \o <<>>]
    BY DEF SetReceived, WireReceived
  <2>2. QED
    BY <1>1, <1>2, <1>7, <2>1
<1>9. /\ bound' = bound /\ careful' = careful
      /\ set' = [set EXCEPT ![e] = ApplyElement(@, m)]
  BY DEF SetReceived, WireReceived
<1>10. \A v : /\ m.value # v => /\ About(t, v) <=> About(wire[e], v)
                                /\ SaysAdd(t, v) <=> SaysAdd(wire[e], v)
              /\ m.value = v =>
                   /\ About(wire[e], v)
                   /\ About(t, v) => (SaysAdd(t, v) <=> SaysAdd(wire[e], v))
                   /\ ~About(t, v) => (SaysAdd(wire[e], v) <=> m.kind = "ADD")
  BY <1>3, AboutLess
<1>. HIDE DEF o, m, t
<1>11. /\ wire'[e] = t /\ wire'[o] = wire[o] /\ set'[o] = set[o]
       /\ set'[e] = ApplyElement(set[e], m)
  BY <1>1, <1>2, <1>8, <1>9
<1>12. SetTypes'
  <2>1. wire' \in [Ends -> Seq(SetMessages)]
    BY <1>1, <1>4, <1>8
  <2>2. ApplyElement(set[e], m) \subseteq Values
    BY <1>1, <1>5 DEF ApplyElement
  <2>3. set' \in [Ends -> SUBSET Values]
    BY <1>1, <1>9, <2>2
  <2>4. \A f \in Ends : ~bound'[f] => wire'[Other(f)] = <<>>
    BY <1>1, <1>2, <1>3, <1>6, <1>9
  <2>5. QED
    BY <1>1, <1>9, <2>1, <2>3, <2>4 DEF SetTypes
<1>13. ASSUME careful', NEW v \in Values
       PROVE  (OneWay(v) /\ Truthful(v) /\ Settled(v))'
  <2>1. OneWay(v) /\ Truthful(v) /\ Settled(v)
    BY <1>9, <1>13 DEF SetInv
  <2>2. CASE m.value # v
    <3>1. /\ About(wire'[e], v) <=> About(wire[e], v)
          /\ SaysAdd(wire'[e], v) <=> SaysAdd(wire[e], v)
          /\ v \in set'[e] <=> v \in set[e]
      BY <1>10, <1>11, <2>2 DEF ApplyElement
    <3>2. QED
      BY <1>2, <1>9, <1>11, <2>1, <3>1 DEF OneWay, Truthful, Settled
  <2>3. CASE m.value = v
    <3>1. About(wire[e], v) /\ ~About(wire[o], v)
      BY <1>2, <1>10, <2>1, <2>3 DEF OneWay
    <3>2. SaysAdd(wire[e], v) <=> v \in set[o]
      BY <2>1, <3>1 DEF Truthful, o
    <3>3. About(t, v) => (SaysAdd(t, v) <=> v \in set[o])
      BY <1>10, <2>3, <3>2
    <3>4. ~About(t, v) => (v \in set'[e] <=> v \in set[o])
      <4>1. v \in set'[e] <=> m.kind = "ADD"
        BY <1>5, <1>11, <2>3 DEF ApplyElement
      <4>2. QED
        BY <1>10, <2>3, <3>2, <4>1
    <3>5. OneWay(v)' /\ Truthful(v)'
      BY <1>2, <1>11, <3>1, <3>3 DEF OneWay, Truthful, o
    <3>6. Settled(v)'
      BY <1>2, <1>3, <1>6, <1>9, <1>11, <3>4 DEF Settled
    <3>7. QED
      BY <3>5, <3>6
  <2>4. QED
    BY <2>2, <2>3
<1>14. QED
  BY <1>12, <1>13 DEF SetInv

LEMMA SetStep ==
    kind = "set" /\ SetInv /\ [EntitiesNext]_entityVars => SetInv'
<1> SUFFICES ASSUME kind = "set", SetInv, [EntitiesNext]_entityVars
             PROVE  SetInv'
  OBVIOUS
<1>1. CASE UNCHANGED entityVars
  BY <1>1 DEF entityVars, reactiveVars, SetInv, SetTypes, OneWay, Truthful, Settled
<1>2. CASE SetNext
  <2>1. CASE \E e \in Ends : \E S \in SUBSET Values : SetAdd(e, S) \/ SetRemove(e, S)
    BY <2>1, SetLocalChange
  <2>2. CASE \E e \in Ends : SetBind(e)
    BY <2>2, SetBindKeepsInv
  <2>3. CASE \E e \in Ends : SetReceived(e)
    BY <2>3, SetReceivedKeepsInv
  <2>4. QED
    BY <1>2, <2>1, <2>2, <2>3 DEF SetNext
<1>3. QED
  BY <1>1, <1>2 DEF EntitiesNext, OnlyProperty, OnlyMap, OnlyList, OnlySet, OnlyExtension

LEMMA ArrivingIs ==
    ASSUME SetTypes, NEW e \in Ends
    PROVE  \A v \in Values :
             /\ About(wire[e], v) => (v \in ArrivingElements(e) <=> SaysAdd(wire[e], v))
             /\ ~About(wire[e], v) => (v \in ArrivingElements(e) <=> v \in set[e])
<1>. DEFINE s == wire[e]
<1>1. Len(s) \in Nat /\ DOMAIN s = 1 .. Len(s)
  BY SequenceIs DEF SetTypes
<1>. HIDE DEF s
<1>2. SUFFICES ASSUME NEW v \in Values
               PROVE  /\ About(s, v) => (v \in ArrivingElements(e) <=> SaysAdd(s, v))
                      /\ ~About(s, v) => (v \in ArrivingElements(e) <=> v \in set[e])
  BY DEF s
<1>. DEFINE about == {i \in DOMAIN s : s[i].value = v}
<1>3. v \in ArrivingElements(e) <=>
        IF about = {} THEN v \in set[e]
        ELSE \E i \in about : s[i].kind = "ADD" /\ \A j \in about : j <= i
  BY DEF ArrivingElements, s
<1>4. about = {} <=> ~About(s, v)
  BY <1>1 DEF About
<1>5. (\E i \in about : s[i].kind = "ADD" /\ \A j \in about : j <= i) <=> SaysAdd(s, v)
  <2>1. ASSUME NEW i \in about, s[i].kind = "ADD", \A j \in about : j <= i
        PROVE  SaysAdd(s, v)
    <3>1. i \in 1 .. Len(s) /\ s[i].value = v
      BY <1>1
    <3>2. \A j \in 1 .. Len(s) : j > i => s[j].value # v
      BY <1>1, <2>1
    <3>3. QED
      BY <2>1, <3>1, <3>2 DEF SaysAdd
  <2>2. ASSUME SaysAdd(s, v)
        PROVE  \E i \in about : s[i].kind = "ADD" /\ \A j \in about : j <= i
    <3>1. PICK i \in 1 .. Len(s) : s[i].value = v /\ s[i].kind = "ADD"
                                   /\ \A j \in 1 .. Len(s) : j > i => s[j].value # v
      BY <2>2 DEF SaysAdd
    <3>2. i \in about /\ \A j \in about : j <= i
      BY <1>1, <3>1
    <3>3. QED
      BY <3>1, <3>2
  <2>3. QED
    BY <2>1, <2>2
<1>6. QED
  BY <1>3, <1>4, <1>5

LEMMA SetInvMeets == SetInv => SetsMeet
<1> SUFFICES ASSUME SetInv, careful, \A e \in Ends : bound[e]
             PROVE  ArrivingElements("editor") = ArrivingElements("rider")
  BY DEF SetsMeet
<1>1. /\ "editor" \in Ends /\ "rider" \in Ends
      /\ \A e \in Ends : e = "editor" \/ e = "rider"
      /\ Other("editor") = "rider" /\ Other("rider") = "editor"
  BY DEF Ends, Other
<1>2. \A e \in Ends : \A v \in Values :
        /\ About(wire[e], v) => (v \in ArrivingElements(e) <=> SaysAdd(wire[e], v))
        /\ ~About(wire[e], v) => (v \in ArrivingElements(e) <=> v \in set[e])
  BY ArrivingIs DEF SetInv
<1>3. ASSUME NEW v \in Values
      PROVE  v \in ArrivingElements("editor") <=> v \in ArrivingElements("rider")
  <2>1. OneWay(v) /\ Truthful(v) /\ Settled(v)
    BY DEF SetInv
  <2>2. CASE \A e \in Ends : ~About(wire[e], v)
    BY <1>1, <1>2, <2>1, <2>2 DEF Settled
  <2>3. CASE About(wire["editor"], v)
    <3>1. ~About(wire["rider"], v)
      BY <1>1, <2>1, <2>3 DEF OneWay
    <3>2. QED
      BY <1>1, <1>2, <2>1, <2>3, <3>1 DEF Truthful
  <2>4. CASE About(wire["rider"], v)
    <3>1. ~About(wire["editor"], v)
      BY <1>1, <2>1, <2>4 DEF OneWay
    <3>2. QED
      BY <1>1, <1>2, <2>1, <2>4, <3>1 DEF Truthful
  <2>5. QED
    BY <1>1, <2>2, <2>3, <2>4
<1>4. \A e : ArrivingElements(e) \subseteq Values
  BY DEF ArrivingElements
<1> QED BY <1>3, <1>4

(***************************************************************************)
(* Elements that both ends add and remove may cross: the messages under    *)
(* way make the two sets equal, unless both change one element at a time.  *)
(***************************************************************************)
THEOREM SetsMeetOnTheWay == EntitiesSpec => []SetsConverge
<1>1. EntitiesInit => (kind = "set" => SetInv)
  BY SetInvInit
<1>2. (kind = "set" => SetInv) /\ [EntitiesNext]_entityVars => (kind = "set" => SetInv)'
  <2> SUFFICES ASSUME kind = "set" => SetInv, [EntitiesNext]_entityVars, kind' = "set"
               PROVE  SetInv'
    OBVIOUS
  <2>1. kind' = kind
    BY DEF EntitiesNext, OnlyProperty, OnlyMap, OnlyList, OnlySet, OnlyExtension, entityVars
  <2> QED BY <2>1, SetStep
<1>3. (kind = "set" => SetInv) => SetsConverge
  BY SetInvMeets DEF SetsConverge
<1> QED BY <1>1, <1>2, <1>3, PTL DEF EntitiesSpec

-----------------------------------------------------------------------------
(***************************************************************************)
(* Maps, key by key.  Unless the master changes a key that is pending or   *)
(* removes one, a key is free, or the master's value for it is under way   *)
(* to the slave, or its acknowledgement is under way to the master; a key  *)
(* that is not free has one entry in pendingForAck.  The slave holds what  *)
(* its last message about the key tells the master, and the master's value *)
(* if that message is an acknowledgement or there is none.                 *)
(***************************************************************************)
MapValues == Values \union {NoValue}

MapMessages == [ack : BOOLEAN, key : Keys, value : MapValues, version : Nat]

Entries == [key : Keys, version : Nat \ {0}, live : BOOLEAN]

MapTypes ==
    /\ wire \in [Ends -> Seq(MapMessages)]
    /\ bound \in [Ends -> BOOLEAN]
    /\ careful \in BOOLEAN
    /\ map \in [Ends -> [Keys -> MapValues]]
    /\ next_version \in Nat
    /\ pendingForAck \subseteq Entries

\* Only changes of the master carry a version, and only they are acknowledged.
ToSlave(s)  == \A i \in 1 .. Len(s) : ~s[i].ack /\ s[i].version > 0
ToMaster(s) == \A i \in 1 .. Len(s) : s[i].ack <=> s[i].version > 0

MapShape ==
    /\ ToSlave(wire[Slave]) /\ ToMaster(wire[Master])
    /\ ~bound[Slave] => wire[Master] = <<>>
    /\ ~bound[Master] => wire[Slave] = <<>> /\ pendingForAck = {}

\* About the key k in a sequence of messages.
NoneFor(s, k) == \A i \in 1 .. Len(s) : s[i].key # k

OnlyOne(s, k, i) == s[i].key = k /\ \A j \in 1 .. Len(s) : j # i => s[j].key # k

\* One change, to v; with the version n.
ChangesTo(s, k, v) == \E i \in 1 .. Len(s) :
    OnlyOne(s, k, i) /\ ~s[i].ack /\ s[i].value = v

OneFor(s, k, n, v) == \E i \in 1 .. Len(s) :
    OnlyOne(s, k, i) /\ s[i].version = n /\ s[i].value = v

NoAck(s, k) == \A i \in 1 .. Len(s) : s[i].ack => s[i].key # k

OneAck(s, k, n) == \E i \in 1 .. Len(s) :
    /\ s[i].key = k /\ s[i].ack /\ s[i].version = n
    /\ \A j \in 1 .. Len(s) : j # i /\ s[j].ack => s[j].key # k

LastFor(s, k, i) == s[i].key = k /\ \A j \in 1 .. Len(s) : j > i => s[j].key # k

\* The slave holds x if the master, who is told s, holds y.
Tells(s, k, x, y) ==
    \/ \E i \in 1 .. Len(s) : LastFor(s, k, i) /\ ~s[i].ack /\ s[i].value = x
    \/ x = y /\ \E i \in 1 .. Len(s) : LastFor(s, k, i) /\ s[i].ack
    \/ x = y /\ NoneFor(s, k)

\* ws and wm are under way to slave and master, P is what is pending for k, x
\* and y are their values for k, bs and bm whether they are bound.
Free(ws, wm, P, x, y, bs, bm, k) ==
    /\ P = {} /\ NoneFor(ws, k) /\ NoAck(wm, k)
    /\ bs /\ bm => Tells(wm, k, x, y)
    /\ bs /\ ~bm => Tells(wm, k, x, NoValue)
    /\ ~bs /\ bm => y = NoValue

Entry(k, n) == [key |-> k, version |-> n, live |-> TRUE]

Sent(ws, wm, P, y, bm, k) ==
    \E n \in Nat \ {0} :
        bm /\ P = {Entry(k, n)} /\ OneFor(ws, k, n, y) /\ NoAck(wm, k)

Acked(ws, wm, P, x, y, bs, bm, k) ==
    \E n \in Nat \ {0} :
        /\ bs /\ bm /\ P = {Entry(k, n)}
        /\ NoneFor(ws, k) /\ OneAck(wm, k, n) /\ Tells(wm, k, x, y)

KeyInv(ws, wm, P, x, y, bs, bm, k) ==
    \/ Free(ws, wm, P, x, y, bs, bm, k)
    \/ Sent(ws, wm, P, y, bm, k)
    \/ Acked(ws, wm, P, x, y, bs, bm, k)

PendingOf(k) == {p \in pendingForAck : p.key = k}

KeyIs(k) == KeyInv(wire[Slave], wire[Master], PendingOf(k), map[Slave][k], map[Master][k],
                   bound[Slave], bound[Master], k)

MapInv ==
    /\ MapTypes /\ MapShape
    /\ careful => \A k \in Keys : KeyIs(k)

\* Messages t follow.  None of them is about k:
LEMMA NoneMore ==
    ASSUME NEW s \in Seq(MapMessages), NEW t \in Seq(MapMessages), NEW k, NoneFor(t, k)
    PROVE  /\ NoneFor(s, k) => NoneFor(s \o t, k)
           /\ NoAck(s, k) => NoAck(s \o t, k)
           /\ \A n, v : OneFor(s, k, n, v) => OneFor(s \o t, k, n, v)
           /\ \A n : OneAck(s, k, n) => OneAck(s \o t, k, n)
           /\ \A x, y : Tells(s, k, x, y) => Tells(s \o t, k, x, y)
<1>. DEFINE u == s \o t
            l == Len(s)
<1>1. /\ l \in Nat /\ Len(t) \in Nat /\ Len(u) = l + Len(t)
      /\ \A i \in 1 .. l : u[i] = s[i]
      /\ \A i \in 1 .. Len(t) : u[l + i] = t[i]
      /\ \A i \in 1 .. l + Len(t) : i \in 1 .. l \/ i - l \in 1 .. Len(t)
  BY Concatenated
<1>. HIDE DEF u, l
<1>2. \A i \in 1 .. Len(u) : u[i].key # k \/ (i \in 1 .. l /\ u[i] = s[i])
  <2>1. SUFFICES ASSUME NEW i \in 1 .. Len(u), i \notin 1 .. l
                 PROVE  u[i].key # k
    BY <1>1
  <2>2. i - l \in 1 .. Len(t) /\ l + (i - l) = i
    BY ONLY <1>1, <2>1
  <2>3. QED
    BY <1>1, <2>2 DEF NoneFor
<1>3. \A i \in 1 .. l : i \in 1 .. Len(u) /\ u[i] = s[i]
  BY <1>1
<1>4. \A i \in 1 .. l : LastFor(s, k, i) => LastFor(u, k, i)
  BY <1>2, <1>3 DEF LastFor, l
<1>5. NoneFor(s, k) => NoneFor(u, k)
  BY <1>2 DEF NoneFor, l
<1>6. NoAck(s, k) => NoAck(u, k)
  BY <1>2 DEF NoAck, l
<1>7. ASSUME NEW n, NEW v, OneFor(s, k, n, v)
      PROVE  OneFor(u, k, n, v)
  BY <1>2, <1>3, <1>7 DEF OneFor, OnlyOne, l
<1>8. ASSUME NEW n, OneAck(s, k, n)
      PROVE  OneAck(u, k, n)
  <2>1. PICK i \in 1 .. l : /\ s[i].key = k /\ s[i].ack /\ s[i].version = n
                            /\ \A j \in 1 .. l : j # i /\ s[j].ack => s[j].key # k
    BY <1>8 DEF OneAck, l
  <2>2. i \in 1 .. Len(u) /\ u[i].key = k /\ u[i].ack /\ u[i].version = n
    BY ONLY <1>3, <2>1
  <2>3. \A j \in 1 .. Len(u) : j # i /\ u[j].ack => u[j].key # k
    BY ONLY <1>2, <2>1
  <2>. QED
    BY ONLY <2>2, <2>3 DEF OneAck
<1>9. ASSUME NEW x, NEW y, Tells(s, k, x, y)
      PROVE  Tells(u, k, x, y)
  BY <1>3, <1>4, <1>5, <1>9 DEF Tells, l
<1>10. QED
  BY <1>5, <1>6, <1>7, <1>8, <1>9 DEF u

\* One of them is about k.
LEMMA OneMore ==
    ASSUME NEW s \in Seq(MapMessages), NEW t \in Seq(MapMessages), NEW k,
           NEW j \in 1 .. Len(t), OnlyOne(t, k, j)
    PROVE  /\ NoneFor(s, k) => OneFor(s \o t, k, t[j].version, t[j].value)
           /\ ~t[j].ack => /\ NoAck(s, k) => NoAck(s \o t, k)
                           /\ \A n : OneAck(s, k, n) => OneAck(s \o t, k, n)
                           /\ \A y : Tells(s \o t, k, t[j].value, y)
           /\ t[j].ack => /\ NoAck(s, k) => OneAck(s \o t, k, t[j].version)
                          /\ \A x : Tells(s \o t, k, x, x)
<1>. DEFINE u == s \o t
            l == Len(s)
            h == l + j
<1>1. /\ l \in Nat /\ Len(t) \in Nat /\ Len(u) = l + Len(t)
      /\ \A i \in 1 .. l : u[i] = s[i]
      /\ \A i \in 1 .. Len(t) : u[l + i] = t[i]
      /\ \A i \in 1 .. l + Len(t) : i \in 1 .. l \/ i - l \in 1 .. Len(t)
  BY Concatenated
<1>. HIDE DEF u, l
<1>2. h \in 1 .. Len(u) /\ h > l /\ u[h] = t[j]
  BY <1>1
<1>. HIDE DEF h
<1>3. \A i \in 1 .. Len(u) : i = h \/ u[i].key # k \/ (i \in 1 .. l /\ u[i] = s[i])
  <2>1. SUFFICES ASSUME NEW i \in 1 .. Len(u), i \notin 1 .. l, i # h
                 PROVE  u[i].key # k
    BY <1>1
  <2>2. i - l \in 1 .. Len(t) /\ l + (i - l) = i /\ i - l # j
    BY ONLY <1>1, <2>1 DEF h
  <2>3. u[i] = t[i - l]
    BY ONLY <1>1, <2>2
  <2>4. QED
    BY <2>2, <2>3 DEF OnlyOne
<1>4. \A i \in 1 .. l : i \in 1 .. Len(u) /\ u[i] = s[i] /\ i # h /\ i < h
  BY ONLY <1>1, <1>2
<1>5. \A i \in 1 .. Len(u) : i > h => u[i].key # k
  BY ONLY <1>1, <1>2, <1>3
<1>6. u[h].key = k
  BY <1>2 DEF OnlyOne
<1>7. LastFor(u, k, h)
  BY <1>5, <1>6 DEF LastFor
<1>8. NoneFor(s, k) => OneFor(u, k, t[j].version, t[j].value)
  <2>1. SUFFICES ASSUME NoneFor(s, k) PROVE OnlyOne(u, k, h)
    BY <1>2 DEF OneFor
  <2>2. \A i \in 1 .. l : s[i].key # k
    BY <2>1 DEF NoneFor, l
  <2>3. QED
    BY <1>3, <1>6, <2>2 DEF OnlyOne
<1>9. ~t[j].ack => /\ NoAck(s, k) => NoAck(u, k)
                   /\ \A n : OneAck(s, k, n) => OneAck(u, k, n)
                   /\ \A y : Tells(u, k, t[j].value, y)
  <2>1. SUFFICES ASSUME ~t[j].ack
                 PROVE  /\ NoAck(s, k) => NoAck(u, k)
                        /\ \A n : OneAck(s, k, n) => OneAck(u, k, n)
                        /\ \A y : Tells(u, k, t[j].value, y)
    OBVIOUS
  <2>2. ~u[h].ack /\ u[h].value = t[j].value
    BY <1>2, <2>1
  <2>3. NoAck(s, k) => NoAck(u, k)
    BY <1>3, <2>2 DEF NoAck, l
  <2>4. ASSUME NEW n, OneAck(s, k, n)
        PROVE  OneAck(u, k, n)
    BY <1>3, <1>4, <2>2, <2>4 DEF OneAck, l
  <2>5. \A y : Tells(u, k, t[j].value, y)
    BY <1>2, <1>7, <2>2 DEF Tells
  <2>6. QED
    BY <2>3, <2>4, <2>5
<1>10. t[j].ack => /\ NoAck(s, k) => OneAck(u, k, t[j].version)
                   /\ \A x : Tells(u, k, x, x)
  <2>1. SUFFICES ASSUME t[j].ack
                 PROVE  /\ NoAck(s, k) => OneAck(u, k, t[j].version)
                        /\ \A x : Tells(u, k, x, x)
    OBVIOUS
  <2>2. u[h].ack /\ u[h].version = t[j].version
    BY <1>2, <2>1
  <2>3. ASSUME NoAck(s, k) PROVE OneAck(u, k, t[j].version)
    <3>1. \A i \in 1 .. l : s[i].ack => s[i].key # k
      BY <2>3 DEF NoAck, l
    <3>2. \A i \in 1 .. Len(u) : i # h /\ u[i].ack => u[i].key # k
      BY <1>3, <3>1
    <3>3. QED
      BY <1>2, <1>6, <2>2, <3>2 DEF OneAck
  <2>4. \A x : Tells(u, k, x, x)
    BY <1>2, <1>7, <2>2 DEF Tells
  <2>5. QED
    BY <2>3, <2>4
<1>11. QED
  BY <1>8, <1>9, <1>10 DEF u

\* The first message goes.
LEMMA FirstGoes ==
    ASSUME NEW s \in Seq(MapMessages), s # <<>>, NEW k
    PROVE  /\ NoneFor(s, k) => NoneFor(Tail(s), k)
           /\ NoAck(s, k) => NoAck(Tail(s), k)
           /\ Head(s).key # k =>
                /\ \A n, v : OneFor(s, k, n, v) => OneFor(Tail(s), k, n, v)
                /\ \A n : OneAck(s, k, n) => OneAck(Tail(s), k, n)
                /\ \A x, y : Tells(s, k, x, y) => Tells(Tail(s), k, x, y)
           /\ Head(s).key = k =>
                /\ \A n, v : OneFor(s, k, n, v) =>
                     Head(s).version = n /\ Head(s).value = v /\ NoneFor(Tail(s), k)
                /\ \A x, y : ~Head(s).ack /\ NoAck(s, k) /\ Tells(s, k, x, y)
                               => Tells(Tail(s), k, x, Head(s).value)
                /\ \A n : ~Head(s).ack /\ OneAck(s, k, n) => OneAck(Tail(s), k, n)
                /\ \A n, x, y : ~Head(s).ack /\ OneAck(s, k, n) /\ Tells(s, k, x, y)
                                  => Tells(Tail(s), k, x, y)
                /\ \A n : Head(s).ack /\ OneAck(s, k, n)
                               => Head(s).version = n /\ NoAck(Tail(s), k)
                /\ \A x, y : Head(s).ack /\ Tells(s, k, x, y) => Tells(Tail(s), k, x, y)
<1>. DEFINE t == Tail(s)
            h == Head(s)
            l == Len(s)
<1>1. /\ l \in Nat \ {0} /\ Len(t) = l - 1 /\ h = s[1]
      /\ \A i \in 1 .. l - 1 : t[i] = s[i + 1]
  BY Taken
<1>. HIDE DEF t, h, l
<1>2. \A i \in 1 .. Len(t) : i + 1 \in 1 .. l /\ t[i] = s[i + 1] /\ i + 1 # 1
  BY <1>1
<1>3. \A i \in 1 .. l : i # 1 => i - 1 \in 1 .. Len(t) /\ t[i - 1] = s[i]
  <2>1. SUFFICES ASSUME NEW i \in 1 .. l, i # 1
                 PROVE  i - 1 \in 1 .. Len(t) /\ t[i - 1] = s[i]
    OBVIOUS
  <2>2. i - 1 \in 1 .. l - 1 /\ (i - 1) + 1 = i
    BY ONLY <1>1, <2>1
  <2>3. QED
    BY ONLY <1>1, <2>2
<1>4. 1 \in 1 .. l
  BY <1>1
<1>5. \A i, j \in 1 .. l : j > i /\ i # 1 => j # 1 /\ j - 1 > i - 1
  BY ONLY <1>1
<1>6. \A i, j \in 1 .. Len(t) : j > i => j + 1 > i + 1
  BY ONLY <1>1
<1>7. ASSUME NEW i \in 1 .. l, LastFor(s, k, i), i # 1
      PROVE  i - 1 \in 1 .. Len(t) /\ LastFor(t, k, i - 1) /\ t[i - 1] = s[i]
  <2>1. i - 1 \in 1 .. Len(t) /\ t[i - 1] = s[i]
    BY <1>3, <1>7
  <2>2. ASSUME NEW j \in 1 .. Len(t), j > i - 1
        PROVE  t[j].key # k
    <3>1. j + 1 \in 1 .. l /\ j + 1 > i /\ t[j] = s[j + 1]
      <4>1. j + 1 > i
        BY ONLY <1>1, <2>2, i \in 1 .. l
      <4>2. QED
        BY <1>2, <4>1
    <3>2. QED
      BY <1>7, <3>1 DEF LastFor, l
  <2>3. QED
    BY <1>7, <2>1, <2>2 DEF LastFor
<1>8. ASSUME LastFor(s, k, 1)
      PROVE  NoneFor(t, k)
  <2>1. SUFFICES ASSUME NEW i \in 1 .. Len(t) PROVE t[i].key # k
    BY DEF NoneFor
  <2>2. i + 1 \in 1 .. l /\ t[i] = s[i + 1] /\ i + 1 > 1
    BY <1>1, <1>2
  <2>3. QED
    BY <1>8, <2>2 DEF LastFor, l
<1>9. NoneFor(s, k) => NoneFor(t, k)
  BY <1>2 DEF NoneFor, l
<1>10. NoAck(s, k) => NoAck(t, k)
  BY <1>2 DEF NoAck, l
<1>11. ASSUME NEW n, OneAck(s, k, n), h.key # k \/ ~h.ack
       PROVE  OneAck(t, k, n)
  <2>1. PICK i \in 1 .. l : /\ s[i].key = k /\ s[i].ack /\ s[i].version = n
                            /\ \A j \in 1 .. l : j # i /\ s[j].ack => s[j].key # k
    BY <1>11 DEF OneAck, l
  <2>2. i # 1
    BY <1>1, <1>11, <2>1
  <2>3. i - 1 \in 1 .. Len(t) /\ t[i - 1] = s[i]
    BY <1>3, <2>2
  <2>4. \A j \in 1 .. Len(t) : j # i - 1 => j + 1 # i
    BY ONLY <1>1, i \in 1 .. l
  <2>5. \A j \in 1 .. Len(t) : j # i - 1 /\ t[j].ack => t[j].key # k
    BY <1>2, <2>1, <2>4
  <2>6. QED
    BY <2>1, <2>3, <2>5 DEF OneAck
<1>12. ASSUME NEW x, NEW y, Tells(s, k, x, y), ~LastFor(s, k, 1)
       PROVE  Tells(t, k, x, y)
  BY <1>7, <1>9, <1>12 DEF Tells, l
<1>13. CASE h.key # k
  <2>1. ASSUME NEW n, NEW v, OneFor(s, k, n, v)
        PROVE  OneFor(t, k, n, v)
    <3>1. PICK i \in 1 .. l : OnlyOne(s, k, i) /\ s[i].version = n /\ s[i].value = v
      BY <2>1 DEF OneFor, l
    <3>2. i # 1
      BY <1>1, <1>13, <3>1 DEF OnlyOne
    <3>3. i - 1 \in 1 .. Len(t) /\ t[i - 1] = s[i]
      BY <1>3, <3>2
    <3>4. \A j \in 1 .. Len(t) : j # i - 1 => j + 1 # i
      BY ONLY <1>1, i \in 1 .. l
    <3>5. OnlyOne(t, k, i - 1)
      BY <1>2, <3>1, <3>3, <3>4 DEF OnlyOne, l
    <3>6. QED
      BY <3>1, <3>3, <3>5 DEF OneFor
  <2>2. ~LastFor(s, k, 1)
    BY <1>1, <1>13 DEF LastFor
  <2>3. QED
    BY <1>9, <1>10, <1>11, <1>12, <1>13, <2>1, <2>2 DEF t, h
<1>14. CASE h.key = k
  <2>1. ASSUME NEW n, NEW v, OneFor(s, k, n, v)
        PROVE  h.version = n /\ h.value = v /\ NoneFor(t, k)
    <3>1. PICK i \in 1 .. l : OnlyOne(s, k, i) /\ s[i].version = n /\ s[i].value = v
      BY <2>1 DEF OneFor, l
    <3>2. i = 1
      BY <1>1, <1>4, <1>14, <3>1 DEF OnlyOne, l
    <3>3. NoneFor(t, k)
      BY <1>2, <3>1, <3>2 DEF OnlyOne, NoneFor, l
    <3>4. QED
      BY <1>1, <3>1, <3>2, <3>3
  <2>2. ASSUME NEW x, NEW y, ~h.ack, NoAck(s, k), Tells(s, k, x, y)
        PROVE  Tells(t, k, x, h.value)
    <3>1. PICK i \in 1 .. l : LastFor(s, k, i) /\ ~s[i].ack /\ s[i].value = x
      BY <1>1, <1>4, <1>14, <2>2 DEF Tells, NoAck, NoneFor, LastFor, l
    <3>2. CASE i = 1
      BY <1>1, <1>8, <3>1, <3>2 DEF Tells
    <3>3. CASE i # 1
      BY <1>7, <3>1, <3>3 DEF Tells
    <3>4. QED
      BY <3>2, <3>3
  <2>3. ASSUME NEW n, NEW x, NEW y, ~h.ack, OneAck(s, k, n), Tells(s, k, x, y)
        PROVE  Tells(t, k, x, y)
    <3>1. PICK i \in 1 .. l : s[i].key = k /\ s[i].ack
      BY <2>3 DEF OneAck, l
    <3>2. i # 1 /\ i > 1
      <4>1. i # 1
        BY <1>1, <2>3, <3>1
      <4>2. QED
        BY ONLY <1>1, <4>1, i \in 1 .. l
    <3>3. ~LastFor(s, k, 1)
      BY <3>1, <3>2 DEF LastFor, l
    <3>4. QED
      BY <1>12, <2>3, <3>3
  <2>4. ASSUME NEW n, h.ack, OneAck(s, k, n)
        PROVE  h.version = n /\ NoAck(t, k)
    <3>1. PICK i \in 1 .. l : /\ s[i].key = k /\ s[i].ack /\ s[i].version = n
                              /\ \A j \in 1 .. l : j # i /\ s[j].ack => s[j].key # k
      BY <2>4 DEF OneAck, l
    <3>2. i = 1
      BY <1>1, <1>4, <1>14, <2>4, <3>1
    <3>3. NoAck(t, k)
      BY <1>2, <3>1, <3>2 DEF NoAck
    <3>4. QED
      BY <1>1, <3>1, <3>2, <3>3
  <2>5. ASSUME NEW x, NEW y, h.ack, Tells(s, k, x, y)
        PROVE  Tells(t, k, x, y)
    <3>1. CASE LastFor(s, k, 1)
      <4>1. \A i \in 1 .. l : LastFor(s, k, i) => i = 1
        <5>1. SUFFICES ASSUME NEW i \in 1 .. l, LastFor(s, k, i), i # 1 PROVE FALSE
          OBVIOUS
        <5>2. i > 1
          BY ONLY <1>1, <5>1
        <5>3. QED
          BY <3>1, <5>1, <5>2 DEF LastFor, l
      <4>2. x = y
        BY <1>1, <1>4, <1>14, <2>5, <4>1 DEF Tells, NoneFor, l
      <4>3. QED
        BY <1>8, <3>1, <4>2 DEF Tells
    <3>2. QED
      BY <1>12, <2>5, <3>1
  <2>6. QED
    BY <1>9, <1>10, <1>11, <1>14, <2>1, <2>2, <2>3, <2>4, <2>5 DEF t, h
<1>15. QED
  BY <1>13, <1>14

-----------------------------------------------------------------------------
\* What happens to a key k when nothing about it is sent or received:
LEMMA KeyLeftAlone ==
    ASSUME NEW ws \in Seq(MapMessages), NEW wm \in Seq(MapMessages), NEW k, NEW P,
           NEW x, NEW y, NEW bs, NEW bm,
           KeyInv(ws, wm, P, x, y, bs, bm, k)
    PROVE  /\ \A t \in Seq(MapMessages) : NoneFor(t, k) =>
                /\ KeyInv(ws \o t, wm, P, x, y, bs, bm, k)
                /\ KeyInv(ws, wm \o t, P, x, y, bs, bm, k)
           /\ ws # <<>> /\ Head(ws).key # k
                => KeyInv(Tail(ws), wm, P, x, y, bs, bm, k)
           /\ wm # <<>> /\ Head(wm).key # k
                => KeyInv(ws, Tail(wm), P, x, y, bs, bm, k)
<1>1. ASSUME NEW t \in Seq(MapMessages), NoneFor(t, k)
      PROVE  KeyInv(ws \o t, wm, P, x, y, bs, bm, k)
  <2>1. /\ NoneFor(ws, k) => NoneFor(ws \o t, k)
        /\ \A n, v : OneFor(ws, k, n, v) => OneFor(ws \o t, k, n, v)
    BY <1>1, NoneMore
  <2>2. QED
    BY <2>1 DEF KeyInv, Free, Sent, Acked
<1>2. ASSUME NEW t \in Seq(MapMessages), NoneFor(t, k)
      PROVE  KeyInv(ws, wm \o t, P, x, y, bs, bm, k)
  <2>1. /\ NoAck(wm, k) => NoAck(wm \o t, k)
        /\ \A n : OneAck(wm, k, n) => OneAck(wm \o t, k, n)
        /\ \A a, b : Tells(wm, k, a, b) => Tells(wm \o t, k, a, b)
    BY <1>2, NoneMore
  <2>2. QED
    BY <2>1 DEF KeyInv, Free, Sent, Acked
<1>3. ASSUME ws # <<>>, Head(ws).key # k
      PROVE  KeyInv(Tail(ws), wm, P, x, y, bs, bm, k)
  <2>1. /\ NoneFor(ws, k) => NoneFor(Tail(ws), k)
        /\ \A n, v : OneFor(ws, k, n, v) => OneFor(Tail(ws), k, n, v)
    BY <1>3, FirstGoes
  <2>2. QED
    BY <2>1 DEF KeyInv, Free, Sent, Acked
<1>4. ASSUME wm # <<>>, Head(wm).key # k
      PROVE  KeyInv(ws, Tail(wm), P, x, y, bs, bm, k)
  <2>1. /\ NoAck(wm, k) => NoAck(Tail(wm), k)
        /\ \A n : OneAck(wm, k, n) => OneAck(Tail(wm), k, n)
        /\ \A a, b : Tells(wm, k, a, b) => Tells(Tail(wm), k, a, b)
    BY <1>4, FirstGoes
  <2>2. QED
    BY <2>1 DEF KeyInv, Free, Sent, Acked
<1>5. QED
  BY <1>1, <1>2, <1>3, <1>4

\* The master changes it: it was free, its new value is under way.
LEMMA MasterChangesKey ==
    ASSUME NEW ws \in Seq(MapMessages), NEW wm \in Seq(MapMessages), NEW k,
           NEW x, NEW y, NEW bs, NEW bm, bm, NEW z,
           KeyInv(ws, wm, {}, x, y, bs, bm, k),
           NEW t \in Seq(MapMessages), NEW n \in Nat \ {0}, OneFor(t, k, n, z)
    PROVE  KeyInv(ws \o t, wm, {Entry(k, n)}, x, z, bs, bm, k)
<1>1. NoneFor(ws, k) /\ NoAck(wm, k)
  BY DEF KeyInv, Free, Sent, Acked
<1>2. PICK j \in 1 .. Len(t) : OnlyOne(t, k, j) /\ t[j].version = n /\ t[j].value = z
  BY DEF OneFor
<1>3. OneFor(ws \o t, k, n, z)
  BY <1>1, <1>2, OneMore
<1>4. QED
  BY <1>1, <1>3 DEF KeyInv, Sent

\* The slave changes it, and sends the value.
LEMMA SlaveChangesKey ==
    ASSUME NEW ws \in Seq(MapMessages), NEW wm \in Seq(MapMessages), NEW k, NEW P,
           NEW x, NEW y, NEW bs, NEW bm, bs, NEW z,
           KeyInv(ws, wm, P, x, y, bs, bm, k),
           NEW t \in Seq(MapMessages), ChangesTo(t, k, z)
    PROVE  KeyInv(ws, wm \o t, P, z, y, bs, bm, k)
<1>1. PICK j \in 1 .. Len(t) : OnlyOne(t, k, j) /\ ~t[j].ack /\ t[j].value = z
  BY DEF ChangesTo
<1>2. /\ NoAck(wm, k) => NoAck(wm \o t, k)
      /\ \A n : OneAck(wm, k, n) => OneAck(wm \o t, k, n)
      /\ \A b : Tells(wm \o t, k, z, b)
  BY <1>1, OneMore
<1>3. QED
  BY <1>2 DEF KeyInv, Free, Sent, Acked

\* A copy that is not bound is changed.
LEMMA UnboundChangesKey ==
    ASSUME NEW ws, NEW wm, NEW k, NEW P, NEW x, NEW y,
           NEW bs, NEW bm, KeyInv(ws, wm, P, x, y, bs, bm, k)
    PROVE  /\ ~bm => \A z : KeyInv(ws, wm, P, x, z, bs, bm, k)
           /\ ~bs => \A z : KeyInv(ws, wm, P, z, y, bs, bm, k)
BY DEF KeyInv, Free, Sent, Acked

\* A copy is bound: it sends t, with its value for k if it has one.  When it
\* is the master's, y, the entries of C are left pending for k.
Announces(t, C, k, y) ==
    \/ y = NoValue /\ NoneFor(t, k) /\ C = {}
    \/ \E n \in Nat \ {0} : OneFor(t, k, n, y) /\ C = {Entry(k, n)}

LEMMA MasterBindsKey ==
    ASSUME NEW ws, NEW wm \in Seq(MapMessages), NEW k, NEW P,
           NEW x, NEW y, NEW bs, NEW bm, ~bm, NEW cm, cm,
           KeyInv(ws, wm, P, x, y, bs, bm, k),
           NEW t \in Seq(MapMessages), NEW C, Announces(t, C, k, y)
    PROVE  KeyInv(t, wm, C, x, y, bs, cm, k)
<1>1. /\ NoAck(wm, k)
      /\ bs => Tells(wm, k, x, NoValue)
  BY DEF KeyInv, Free, Sent, Acked
<1>2. CASE y = NoValue /\ NoneFor(t, k) /\ C = {}
  BY <1>1, <1>2 DEF KeyInv, Free
<1>3. CASE \E n \in Nat \ {0} : OneFor(t, k, n, y) /\ C = {Entry(k, n)}
  BY <1>1, <1>3 DEF KeyInv, Sent
<1>4. QED
  BY <1>2, <1>3 DEF Announces

LEMMA SlaveBindsKey ==
    ASSUME NEW ws \in Seq(MapMessages), NEW k, NEW P,
           NEW x, NEW y, NEW bs, ~bs, NEW cs, cs,
           NEW bm, KeyInv(ws, <<>>, P, x, y, bs, bm, k),
           NEW t \in Seq(MapMessages), NoAck(t, k)
    PROVE  /\ x = NoValue /\ NoneFor(t, k) => KeyInv(ws, t, P, x, y, cs, bm, k)
           /\ ChangesTo(t, k, x) => KeyInv(ws, t, P, x, y, cs, bm, k)
<1>1. ASSUME \A z : Tells(t, k, x, z)
      PROVE  KeyInv(ws, t, P, x, y, cs, bm, k)
  BY <1>1 DEF KeyInv, Free, Sent, Acked
<1>2. ASSUME x = NoValue, NoneFor(t, k)
      PROVE  KeyInv(ws, t, P, x, y, cs, bm, k)
  <2>1. Tells(t, k, x, NoValue)
    BY <1>2 DEF Tells
  <2>2. QED
    BY <1>2, <2>1 DEF KeyInv, Free, Sent, Acked
<1>3. ASSUME ChangesTo(t, k, x)
      PROVE  \A z : Tells(t, k, x, z)
  <2>1. PICK j \in 1 .. Len(t) : OnlyOne(t, k, j) /\ ~t[j].ack /\ t[j].value = x
    BY <1>3 DEF ChangesTo
  <2>2. LastFor(t, k, j)
    <3>1. \A i \in 1 .. Len(t) : i > j => i # j
      BY j \in 1 .. Len(t)
    <3>2. QED
      BY <2>1, <3>1 DEF OnlyOne, LastFor
  <2>3. QED
    BY <2>1, <2>2 DEF Tells
<1>4. QED
  BY <1>1, <1>2, <1>3

\* The slave receives what is about it, takes the value and acknowledges it.
LEMMA SlaveReceivesKey ==
    ASSUME NEW ws \in Seq(MapMessages), NEW wm \in Seq(MapMessages), NEW k, NEW P,
           NEW x, NEW y, NEW bs, NEW bm, bs,
           KeyInv(ws, wm, P, x, y, bs, bm, k),
           ws # <<>>, Head(ws).key = k,
           NEW t \in Seq(MapMessages), Len(t) = 1, t[1].key = k, t[1].ack,
           t[1].version = Head(ws).version
    PROVE  KeyInv(Tail(ws), wm \o t, P, Head(ws).value, y, bs, bm, k)
<1>1. ~NoneFor(ws, k)
  <2>1. Head(ws) = ws[1] /\ 1 \in 1 .. Len(ws)
    BY Taken
  <2>2. QED
    BY <2>1 DEF NoneFor
<1>2. PICK n \in Nat \ {0} :
        bm /\ P = {Entry(k, n)} /\ OneFor(ws, k, n, y) /\ NoAck(wm, k)
  <2>1. ~Free(ws, wm, P, x, y, bs, bm, k)
    BY ONLY <1>1 DEF Free
  <2>2. ~Acked(ws, wm, P, x, y, bs, bm, k)
    BY ONLY <1>1 DEF Acked
  <2>3. Sent(ws, wm, P, y, bm, k)
    BY <2>1, <2>2 DEF KeyInv
  <2>. QED
    BY ONLY <2>3 DEF Sent
<1>3. Head(ws).version = n /\ Head(ws).value = y /\ NoneFor(Tail(ws), k)
  BY <1>2, FirstGoes
<1>4. 1 \in 1 .. Len(t) /\ OnlyOne(t, k, 1)
  BY DEF OnlyOne
<1>5. OneAck(wm \o t, k, n) /\ Tells(wm \o t, k, y, y)
  BY <1>2, <1>3, <1>4, OneMore
<1>6. Acked(Tail(ws), wm \o t, P, y, y, bs, bm, k)
  BY <1>2, <1>3, <1>5 DEF Acked
<1>7. QED
  BY <1>3, <1>6 DEF KeyInv

\* The master receives the acknowledgement.
LEMMA MasterHearsOfKey ==
    ASSUME NEW ws \in Seq(MapMessages), NEW wm \in Seq(MapMessages), NEW k, NEW P,
           NEW x, NEW y, NEW bs, NEW bm,
           KeyInv(ws, wm, P, x, y, bs, bm, k), wm # <<>>, Head(wm).key = k, Head(wm).ack
    PROVE  /\ P = {Entry(k, Head(wm).version)}
           /\ KeyInv(ws, Tail(wm), {}, x, y, bs, bm, k)
<1>1. ~NoAck(wm, k)
  <2>1. Head(wm) = wm[1] /\ 1 \in 1 .. Len(wm)
    BY Taken
  <2>2. QED
    BY <2>1 DEF NoAck
<1>2. PICK n \in Nat \ {0} :
        /\ bs /\ bm /\ P = {Entry(k, n)}
        /\ NoneFor(ws, k) /\ OneAck(wm, k, n) /\ Tells(wm, k, x, y)
  <2>1. ~Free(ws, wm, P, x, y, bs, bm, k)
    BY ONLY <1>1 DEF Free
  <2>2. ~Sent(ws, wm, P, y, bm, k)
    BY ONLY <1>1 DEF Sent
  <2>3. Acked(ws, wm, P, x, y, bs, bm, k)
    BY <2>1, <2>2 DEF KeyInv
  <2>. QED
    BY ONLY <2>3 DEF Acked
<1>3. Head(wm).version = n /\ NoAck(Tail(wm), k) /\ Tells(Tail(wm), k, x, y)
  <2>1. Head(wm).key = k /\ Head(wm).ack /\ OneAck(wm, k, n)
    BY <1>2
  <2>2. Head(wm).version = n /\ NoAck(Tail(wm), k)
    BY ONLY wm \in Seq(MapMessages), wm # <<>>, <2>1, FirstGoes, ZenonT(30)
  <2>3. Tells(wm, k, x, y) /\ Head(wm).key = k /\ Head(wm).ack
    BY <1>2
  <2>4. Tells(Tail(wm), k, x, y)
    BY ONLY wm \in Seq(MapMessages), wm # <<>>, <2>3, FirstGoes
  <2>5. QED
    BY <2>2, <2>4
<1>4. Free(ws, Tail(wm), {}, x, y, bs, bm, k)
  BY <1>2, <1>3 DEF Free
<1>5. QED
  BY <1>2, <1>3, <1>4 DEF KeyInv

\* The master receives a change of the slave, and takes it if nothing is pending.
LEMMA MasterReceivesKey ==
    ASSUME NEW ws \in Seq(MapMessages), NEW wm \in Seq(MapMessages), NEW k, NEW P,
           NEW x, NEW y, NEW bs, NEW bm, bs, bm,
           KeyInv(ws, wm, P, x, y, bs, bm, k),
           wm # <<>>, Head(wm).key = k, ~Head(wm).ack
    PROVE  /\ P = {} => KeyInv(ws, Tail(wm), P, x, Head(wm).value, bs, bm, k)
           /\ P # {} => KeyInv(ws, Tail(wm), P, x, y, bs, bm, k)
<1>1. ASSUME P = {}
      PROVE  KeyInv(ws, Tail(wm), P, x, Head(wm).value, bs, bm, k)
  <2>1. NoneFor(ws, k) /\ NoAck(wm, k) /\ Tells(wm, k, x, y)
    BY <1>1 DEF KeyInv, Free, Sent, Acked
  <2>2. NoAck(Tail(wm), k) /\ Tells(Tail(wm), k, x, Head(wm).value)
    BY <2>1, FirstGoes
  <2>3. QED
    BY <1>1, <2>1, <2>2 DEF KeyInv, Free
<1>2. CASE Sent(ws, wm, P, y, bm, k)
  <2>1. NoAck(wm, k) => NoAck(Tail(wm), k)
    BY FirstGoes
  <2>2. QED
    BY <1>1, <1>2, <2>1 DEF KeyInv, Sent
<1>3. CASE Acked(ws, wm, P, x, y, bs, bm, k)
  <2>1. \A n : OneAck(wm, k, n) /\ Tells(wm, k, x, y)
                 => OneAck(Tail(wm), k, n) /\ Tells(Tail(wm), k, x, y)
    BY FirstGoes
  <2>2. QED
    BY <1>1, <1>3, <2>1 DEF KeyInv, Acked
<1>4. CASE Free(ws, wm, P, x, y, bs, bm, k)
  BY <1>1, <1>4 DEF Free
<1>5. QED
  BY <1>2, <1>3, <1>4 DEF KeyInv

-----------------------------------------------------------------------------
\* The messages about the keys of K, with their values in f, that clear and
\* bind send; b is the version that was used last.
Told(e, K, f, b) ==
    [i \in DOMAIN SetToSeq(K) |->
       Versioned(e, SetToSeq(K)[i], f[SetToSeq(K)[i]], b + i)]

LEMMA ToldIs ==
    ASSUME NEW e \in Ends, NEW K, K \subseteq Keys, NEW f \in [Keys -> MapValues],
           NEW b \in Nat
    PROVE  /\ SetToSeq(K) \in Seq(K) /\ Told(e, K, f, b) \in Seq(MapMessages)
           /\ Len(Told(e, K, f, b)) = Len(SetToSeq(K))
           /\ \A i \in 1 .. Len(SetToSeq(K)) : ~Told(e, K, f, b)[i].ack
           /\ e = Master => ToSlave(Told(e, K, f, b))
           /\ e = Slave => ToMaster(Told(e, K, f, b))
           /\ \A k : NoAck(Told(e, K, f, b), k)
           /\ \A k : k \notin K => NoneFor(Told(e, K, f, b), k)
           /\ \A k \in K : \E j \in 1 .. Len(SetToSeq(K)) :
                /\ \A i \in 1 .. Len(SetToSeq(K)) : SetToSeq(K)[i] = k <=> i = j
                /\ e = Master => OneFor(Told(e, K, f, b), k, b + j, f[k])
           /\ \A k \in K : ChangesTo(Told(e, K, f, b), k, f[k])
<1>. DEFINE q == SetToSeq(K)
            t == Told(e, K, f, b)
            n == Len(q)
<1>1. IsFiniteSet(K)
  BY RdMapAssumption, FS_Subset
<1>2. q \in Seq(K) /\ IsInjective(q) /\ \A k \in K : \E i \in DOMAIN q : q[i] = k
  BY <1>1, SetToSeqIs
<1>3. n \in Nat /\ DOMAIN q = 1 .. n /\ \A i \in 1 .. n : q[i] \in K
  BY <1>2, SequenceIs
<1>4. t = [i \in 1 .. n |-> Versioned(e, q[i], f[q[i]], b + i)]
  BY <1>3 DEF Told
<1>. HIDE DEF q, t, n
<1>5. ASSUME NEW i \in 1 .. n
      PROVE  /\ t[i] \in MapMessages /\ ~t[i].ack
             /\ t[i].key = q[i] /\ t[i].value = f[q[i]]
             /\ e = Master => t[i].version = b + i
             /\ e # Master => t[i].version = 0
  <2>1. q[i] \in Keys /\ f[q[i]] \in MapValues /\ b + i \in Nat /\ 0 \in Nat
    BY <1>3
  <2>2. t[i] = [ack |-> FALSE, key |-> q[i], value |-> f[q[i]],
                version |-> IF e = Master THEN b + i ELSE 0]
    BY <1>4 DEF Versioned
  <2>3. QED
    BY <2>1, <2>2 DEF MapMessages
<1>6. t \in Seq(MapMessages) /\ Len(t) = n
  BY <1>3, <1>4, <1>5
<1>7. e = Master => ToSlave(t)
  <2>1. \A i \in 1 .. n : b + i > 0
    BY <1>3
  <2>2. QED
    BY <1>5, <1>6, <2>1 DEF ToSlave
<1>8. e = Slave => ToMaster(t)
  BY <1>5, <1>6, TwoEnds DEF ToMaster
<1>9. \A k : NoAck(t, k)
  BY <1>5, <1>6 DEF NoAck
<1>10. \A k : k \notin K => NoneFor(t, k)
  BY <1>3, <1>5, <1>6 DEF NoneFor
<1>11. ASSUME NEW k \in K
       PROVE  /\ \E j \in 1 .. n : /\ \A i \in 1 .. n : q[i] = k <=> i = j
                                   /\ e = Master => OneFor(t, k, b + j, f[k])
              /\ ChangesTo(t, k, f[k])
  <2>1. PICK j \in 1 .. n : q[j] = k
    BY <1>2, <1>3
  <2>2. \A i \in 1 .. n : i # j => q[i] # k
    BY <1>2, <1>3, <2>1 DEF IsInjective
  <2>3. OnlyOne(t, k, j)
    BY <1>5, <1>6, <2>1, <2>2 DEF OnlyOne
  <2>4. /\ e = Master => OneFor(t, k, b + j, f[k])
        /\ ChangesTo(t, k, f[k])
    BY <1>5, <1>6, <2>1, <2>3 DEF OneFor, ChangesTo
  <2>5. QED
    BY <2>1, <2>2, <2>4
<1>12. QED
  BY <1>2, <1>5, <1>6, <1>7, <1>8, <1>9, <1>10, <1>11 DEF q, t, n

LEMMA ToMore ==
    ASSUME NEW s \in Seq(MapMessages), NEW t \in Seq(MapMessages)
    PROVE  /\ ToSlave(s) /\ ToSlave(t) => ToSlave(s \o t)
           /\ ToMaster(s) /\ ToMaster(t) => ToMaster(s \o t)
<1>1. /\ Len(s) \in Nat /\ Len(t) \in Nat /\ Len(s \o t) = Len(s) + Len(t)
      /\ \A i \in 1 .. Len(s) : (s \o t)[i] = s[i]
      /\ \A i \in 1 .. Len(t) : (s \o t)[Len(s) + i] = t[i]
      /\ \A i \in 1 .. Len(s) + Len(t) : i \in 1 .. Len(s) \/ i - Len(s) \in 1 .. Len(t)
  BY Concatenated
<1>2. \A i \in 1 .. Len(s) + Len(t) : Len(s) + (i - Len(s)) = i
  BY ONLY <1>1
<1>3. \A i \in 1 .. Len(s \o t) : \/ \E j \in 1 .. Len(s) : (s \o t)[i] = s[j]
                                  \/ \E j \in 1 .. Len(t) : (s \o t)[i] = t[j]
  BY <1>1, <1>2
<1>4. QED
  BY <1>3 DEF ToSlave, ToMaster

\* The end e sends t.
LEMMA MapSends ==
    ASSUME MapTypes, MapShape, NEW e \in Ends, NEW t \in Seq(MapMessages),
           e = Master => ToSlave(t), e = Slave => ToMaster(t),
           wire' = [wire EXCEPT ![Other(e)] = @ \o t]
    PROVE  /\ wire' \in [Ends -> Seq(MapMessages)]
           /\ ToSlave(wire'[Slave]) /\ ToMaster(wire'[Master])
           /\ wire'[e] = wire[e] /\ wire'[Other(e)] = wire[Other(e)] \o t
<1>. DEFINE s == wire[Other(e)]
<1>1. /\ wire \in [Ends -> Seq(MapMessages)] /\ Other(e) \in Ends /\ Other(e) # e
      /\ s \in Seq(MapMessages)
  BY TwoEnds DEF MapTypes
<1>2. /\ s \o t \in Seq(MapMessages) /\ wire' \in [Ends -> Seq(MapMessages)]
      /\ wire'[e] = wire[e] /\ wire'[Other(e)] = s \o t
  BY <1>1
<1>. HIDE DEF s
<1>3. CASE e = Master
  <2>1. Other(e) = Slave /\ ToSlave(s) /\ ToSlave(t)
    BY <1>3 DEF Slave, MapShape, s
  <2>2. ToSlave(s \o t)
    BY <1>1, <2>1, ToMore
  <2>3. QED
    BY <1>2, <1>3, <2>1, <2>2, TwoEnds DEF MapShape, s
<1>4. CASE e = Slave
  <2>1. Other(e) = Master /\ ToMaster(s) /\ ToMaster(t)
    BY <1>4, TwoEnds DEF MapShape, s
  <2>2. ToMaster(s \o t)
    BY <1>1, <2>1, ToMore
  <2>3. QED
    BY <1>2, <1>4, <2>1, <2>2, TwoEnds DEF MapShape, s
<1>5. QED
  BY <1>3, <1>4, TwoEnds

\* The first message to e is taken.
LEMMA MapTakes ==
    ASSUME MapTypes, MapShape, NEW e \in Ends, wire[e] # <<>>
    PROVE  /\ Head(wire[e]) \in MapMessages /\ Tail(wire[e]) \in Seq(MapMessages)
           /\ e = Slave => /\ ~Head(wire[e]).ack /\ Head(wire[e]).version > 0
                           /\ ToSlave(Tail(wire[e]))
           /\ e = Master => /\ Head(wire[e]).ack <=> Head(wire[e]).version > 0
                            /\ ToMaster(Tail(wire[e]))
<1>. DEFINE s == wire[e]
            t == Tail(s)
<1>1. /\ s \in Seq(MapMessages) /\ Head(s) \in MapMessages /\ t \in Seq(MapMessages)
      /\ Head(s) = s[1] /\ 1 \in 1 .. Len(s)
      /\ Len(s) \in Nat \ {0} /\ Len(t) = Len(s) - 1
      /\ \A i \in 1 .. Len(s) - 1 : t[i] = s[i + 1]
  BY Taken DEF MapTypes
<1>. HIDE DEF s, t
<1>2. \A i \in 1 .. Len(t) : i + 1 \in 1 .. Len(s) /\ t[i] = s[i + 1]
  BY <1>1
<1>3. e = Slave => ToSlave(s) /\ ToSlave(t)
  BY <1>2 DEF MapShape, ToSlave, s
<1>4. e = Master => ToMaster(s) /\ ToMaster(t)
  BY <1>2 DEF MapShape, ToMaster, s
<1>5. QED
  BY <1>1, <1>3, <1>4 DEF ToSlave, ToMaster, s, t

LEMMA MapInvInit == EntitiesInit => MapInv
<1> SUFFICES ASSUME EntitiesInit PROVE MapInv
  OBVIOUS
<1>1. /\ wire = [e \in Ends |-> <<>>] /\ bound = [e \in Ends |-> FALSE] /\ careful = TRUE
      /\ map = [e \in Ends |-> [k \in Keys |-> NoValue]] /\ next_version = 0
      /\ pendingForAck = {}
  BY DEF EntitiesInit, ReactiveInit, MapInit
<1>2. <<>> \in Seq(MapMessages) /\ Len(<<>>) = 0
  OBVIOUS
<1>3. MapTypes
  BY <1>1, <1>2 DEF MapTypes, MapValues
<1>4. wire[Slave] = <<>> /\ wire[Master] = <<>> /\ ~bound[Slave] /\ ~bound[Master]
  BY <1>1, TwoEnds
<1>5. MapShape
  BY <1>1, <1>2, <1>4 DEF MapShape, ToSlave, ToMaster
<1>6. ASSUME NEW k \in Keys
      PROVE  KeyIs(k)
  <2>1. PendingOf(k) = {}
    BY <1>1 DEF PendingOf
  <2>2. NoneFor(<<>>, k) /\ NoAck(<<>>, k)
    BY <1>2 DEF NoneFor, NoAck
  <2>3. Free(wire[Slave], wire[Master], PendingOf(k), map[Slave][k], map[Master][k],
             bound[Slave], bound[Master], k)
    BY <1>4, <2>1, <2>2 DEF Free
  <2>4. QED
    BY <2>3 DEF KeyIs, KeyInv
<1>7. QED
  BY <1>3, <1>5, <1>6 DEF MapInv

-----------------------------------------------------------------------------
\* A local change of the copy at e to f, which has b bound: unbound it sends
\* nothing, bound it sends t, about the keys it changed.  (The master sends:
\* MasterChanges.)
LEMMA KeysChange ==
    ASSUME MapInv, NEW e \in Ends, NEW f \in [Keys -> MapValues],
           map' = [map EXCEPT ![e] = f], careful' \in BOOLEAN, careful' => careful,
           bound' = bound, next_version' = next_version, pendingForAck' = pendingForAck,
           NEW t \in Seq(MapMessages), ToMaster(t),
           \A k \in Keys : \/ f[k] = map[e][k] /\ NoneFor(t, k)
                           \/ ChangesTo(t, k, f[k]),
           \/ ~bound[e] /\ wire' = wire
           \/ e = Slave /\ bound[e] /\ wire' = [wire EXCEPT ![Other(e)] = @ \o t]
    PROVE  MapInv'
<1>1. /\ MapTypes /\ MapShape
      /\ wire \in [Ends -> Seq(MapMessages)] /\ bound \in [Ends -> BOOLEAN]
      /\ map \in [Ends -> [Keys -> MapValues]]
      /\ wire[Slave] \in Seq(MapMessages) /\ wire[Master] \in Seq(MapMessages)
      /\ bound[Slave] \in BOOLEAN /\ bound[Master] \in BOOLEAN
  BY TwoEnds DEF MapInv, MapTypes
<1>2. map' \in [Ends -> [Keys -> MapValues]] /\ map'[e] = f
      /\ \A o \in Ends : o # e => map'[o] = map[o]
  BY <1>1
<1>3. CASE ~bound[e] /\ wire' = wire
  <2>1. MapTypes' /\ MapShape'
    BY <1>1, <1>2, <1>3 DEF MapTypes, MapShape
  <2>2. ASSUME careful', NEW k \in Keys
        PROVE  KeyIs(k)'
    <3>1. KeyInv(wire[Slave], wire[Master], PendingOf(k), map[Slave][k], map[Master][k],
                 bound[Slave], bound[Master], k)
      BY <2>2 DEF MapInv, KeyIs
    <3>2. KeyInv(wire[Slave], wire[Master], PendingOf(k), map'[Slave][k], map'[Master][k],
                 bound[Slave], bound[Master], k)
      <4>1. CASE e = Master
        <5>1. map'[Slave][k] = map[Slave][k] /\ ~bound[Master]
          BY <1>2, <1>3, <4>1, TwoEnds
        <5>2. QED
          BY <1>1, <3>1, <5>1, UnboundChangesKey
      <4>2. CASE e = Slave
        <5>1. map'[Master][k] = map[Master][k] /\ ~bound[Slave]
          BY <1>2, <1>3, <4>2, TwoEnds
        <5>2. QED
          BY <1>1, <3>1, <5>1, UnboundChangesKey
      <4>3. QED
        BY <4>1, <4>2, TwoEnds
    <3>3. QED
      BY <1>3, <3>2 DEF KeyIs, PendingOf
  <2>3. QED
    BY <2>1, <2>2 DEF MapInv
<1>4. CASE e = Slave /\ bound[e] /\ wire' = [wire EXCEPT ![Other(e)] = @ \o t]
  <2>1. /\ wire' \in [Ends -> Seq(MapMessages)]
        /\ ToSlave(wire'[Slave]) /\ ToMaster(wire'[Master])
        /\ wire'[Slave] = wire[Slave] /\ wire'[Master] = wire[Master] \o t
    <3>1. e = Slave /\ e # Master /\ Other(e) = Master
      BY <1>4, TwoEnds
    <3>2. QED
      BY <1>1, <1>4, <3>1, MapSends
  <2>2. MapTypes' /\ MapShape'
    BY <1>1, <1>2, <1>4, <2>1 DEF MapTypes, MapShape
  <2>3. ASSUME careful', NEW k \in Keys
        PROVE  KeyIs(k)'
    <3>1. KeyInv(wire[Slave], wire[Master], PendingOf(k), map[Slave][k], map[Master][k],
                 bound[Slave], bound[Master], k)
      BY <2>3 DEF MapInv, KeyIs
    <3>2. map'[Master][k] = map[Master][k] /\ map'[Slave][k] = f[k]
      BY <1>2, <1>4, TwoEnds
    <3>3. KeyInv(wire[Slave], wire[Master] \o t, PendingOf(k), f[k], map[Master][k],
                 bound[Slave], bound[Master], k)
      <4>1. CASE f[k] = map[e][k] /\ NoneFor(t, k)
        <5>1. f[k] = map[Slave][k] /\ NoneFor(t, k)
          BY <1>4, <4>1
        <5>2. QED
          BY ONLY <1>1, <3>1, <5>1, t \in Seq(MapMessages), KeyLeftAlone
      <4>2. CASE ChangesTo(t, k, f[k])
        <5>1. bound[Slave]
          BY <1>4
        <5>2. QED
          BY ONLY <1>1, <3>1, <4>2, <5>1, t \in Seq(MapMessages), SlaveChangesKey
      <4>3. QED
        BY <4>1, <4>2
    <3>4. KeyInv(wire'[Slave], wire'[Master], PendingOf(k), map'[Slave][k],
                 map'[Master][k], bound[Slave], bound[Master], k)
      BY <2>1, <3>2, <3>3
    <3>5. QED
      BY <3>4 DEF KeyIs, PendingOf
  <2>4. QED
    BY <2>2, <2>3 DEF MapInv
<1>5. QED
  BY <1>3, <1>4

\* One message, about k.
LEMMA OneMessage ==
    ASSUME NEW e \in Ends, NEW k \in Keys, NEW v \in MapValues, NEW n \in Nat \ {0}
    PROVE  /\ <<Versioned(e, k, v, n)>> \in Seq(MapMessages)
           /\ e = Master => ToSlave(<<Versioned(e, k, v, n)>>)
           /\ e = Slave => ToMaster(<<Versioned(e, k, v, n)>>)
           /\ ChangesTo(<<Versioned(e, k, v, n)>>, k, v)
           /\ e = Master => OneFor(<<Versioned(e, k, v, n)>>, k, n, v)
           /\ \A c : c # k => NoneFor(<<Versioned(e, k, v, n)>>, c)
<1>. DEFINE m == Versioned(e, k, v, n)
<1>1. /\ m \in MapMessages /\ ~m.ack /\ m.key = k /\ m.value = v
      /\ e = Master => m.version = n
      /\ e # Master => m.version = 0
  <2>1. m = [ack |-> FALSE, key |-> k, value |-> v,
             version |-> IF e = Master THEN n ELSE 0]
    BY DEF Versioned
  <2>2. QED
    BY <2>1 DEF MapMessages
<1>. HIDE DEF m
<1>2. <<m>> \in Seq(MapMessages) /\ Len(<<m>>) = 1 /\ <<m>>[1] = m
  BY <1>1
<1>3. \A i \in 1 .. Len(<<m>>) : i = 1 /\ <<m>>[i] = m
  BY <1>2
<1>4. (e = Master => ToSlave(<<m>>)) /\ (e = Slave => ToMaster(<<m>>))
  <2>1. n > 0 /\ ~(0 > 0)
    OBVIOUS
  <2>2. QED
    BY <1>1, <1>3, <2>1, TwoEnds DEF ToSlave, ToMaster
<1>5. OnlyOne(<<m>>, k, 1) /\ \A c : c # k => NoneFor(<<m>>, c)
  BY <1>1, <1>2, <1>3 DEF OnlyOne, NoneFor
<1>6. ChangesTo(<<m>>, k, v) /\ (e = Master => OneFor(<<m>>, k, n, v))
  <2>1. 1 \in 1 .. Len(<<m>>)
    BY <1>2
  <2>2. QED
    BY <1>1, <1>2, <1>5, <2>1 DEF ChangesTo, OneFor
<1>7. QED
  BY <1>2, <1>4, <1>5, <1>6 DEF m

\* The bound master changes k, which nothing is pending for.
LEMMA MasterChanges ==
    ASSUME MapInv, bound[Master], NEW k \in Keys, NEW v \in MapValues,
           MapChange(Master, k, v)
    PROVE  MapInv'
<1>. DEFINE n == next_version + 1
            new == [key |-> k, version |-> n, live |-> TRUE]
            m == Versioned(Master, k, v, n)
<1>1. /\ MapTypes /\ MapShape
      /\ wire \in [Ends -> Seq(MapMessages)] /\ bound \in [Ends -> BOOLEAN]
      /\ map \in [Ends -> [Keys -> MapValues]] /\ careful \in BOOLEAN
      /\ next_version \in Nat /\ pendingForAck \subseteq Entries
      /\ wire[Slave] \in Seq(MapMessages) /\ wire[Master] \in Seq(MapMessages)
      /\ bound[Slave] \in BOOLEAN /\ bound[Master] \in BOOLEAN
  BY TwoEnds DEF MapInv, MapTypes
<1>2. n \in Nat \ {0} /\ new \in Entries /\ new = Entry(k, n)
  BY <1>1 DEF Entries, Entry
<1>3. /\ map' = [map EXCEPT ![Master][k] = v]
      /\ wire' = [wire EXCEPT ![Other(Master)] = @ \o <<m>>]
      /\ bound' = bound /\ next_version' = n
      /\ \E p \in Pending(k) :
           pendingForAck' = {IF q.key = k /\ v = NoValue
                             THEN [q EXCEPT !.live = FALSE] ELSE q :
                               q \in IF p = NotFound THEN pendingForAck \union {new}
                                     ELSE pendingForAck}
      /\ careful' = (careful /\ v # NoValue /\ Pending(k) = {NotFound})
  BY <1>1, TwoEnds DEF MapChange, LocalChange
<1>. HIDE DEF n, new
<1>4. /\ <<m>> \in Seq(MapMessages) /\ ToSlave(<<m>>) /\ OneFor(<<m>>, k, n, v)
      /\ \A c : c # k => NoneFor(<<m>>, c)
  BY <1>2, OneMessage, TwoEnds
<1>. HIDE DEF m
<1>5. /\ wire' \in [Ends -> Seq(MapMessages)]
      /\ ToSlave(wire'[Slave]) /\ ToMaster(wire'[Master])
      /\ wire'[Master] = wire[Master] /\ wire'[Slave] = wire[Slave] \o <<m>>
  BY <1>1, <1>3, <1>4, MapSends, TwoEnds
<1>6. /\ map' \in [Ends -> [Keys -> MapValues]]
      /\ map'[Slave] = map[Slave] /\ map'[Master][k] = v
      /\ \A c \in Keys : c # k => map'[Master][c] = map[Master][c]
  BY <1>1, <1>3, TwoEnds
<1>7. pendingForAck' \subseteq Entries
  <2>1. \A q \in Entries : [q EXCEPT !.live = FALSE] \in Entries
    BY DEF Entries
  <2>2. QED
    BY <1>1, <1>2, <1>3, <2>1
<1>8. MapTypes'
  BY <1>1, <1>2, <1>3, <1>5, <1>6, <1>7 DEF MapTypes
<1>9. MapShape'
  <2>1. ~bound'[Slave] => wire'[Master] = <<>>
    BY <1>1, <1>3, <1>5 DEF MapShape
  <2>2. bound'[Master]
    BY <1>1, <1>3
  <2>3. QED
    BY <1>5, <2>1, <2>2 DEF MapShape
<1>10. ASSUME careful'
       PROVE  \A c \in Keys : KeyIs(c)'
  <2>1. careful /\ v # NoValue /\ Pending(k) = {NotFound}
    BY <1>3, <1>10
  <2>2. PendingOf(k) = {}
    <3>1. PendingOf(k) \subseteq Pending(k)
      BY DEF Pending, PendingOf
    <3>2. \A p \in PendingOf(k) : p # NotFound
      BY <1>1 DEF PendingOf, Entries, NotFound
    <3>3. QED
      BY <2>1, <3>1, <3>2
  <2>3. pendingForAck' = pendingForAck \union {new}
    BY <1>3, <2>1
  <2>4. /\ {p \in pendingForAck' : p.key = k} = {Entry(k, n)}
        /\ \A c \in Keys : c # k => {p \in pendingForAck' : p.key = c} = PendingOf(c)
    <3>1. new.key = k
      BY DEF new
    <3>2. QED
      BY <1>2, <2>2, <2>3, <3>1 DEF PendingOf
  <2>5. \A c \in Keys : KeyInv(wire[Slave], wire[Master], PendingOf(c), map[Slave][c],
                               map[Master][c], bound[Slave], bound[Master], c)
    BY <2>1 DEF MapInv, KeyIs
  <2>6. KeyInv(wire'[Slave], wire'[Master], {p \in pendingForAck' : p.key = k},
               map'[Slave][k], map'[Master][k], bound'[Slave], bound'[Master], k)
    <3>1. KeyInv(wire[Slave], wire[Master], {}, map[Slave][k],
                 map[Master][k], bound[Slave], bound[Master], k)
      BY <2>2, <2>5
    <3>2. KeyInv(wire[Slave] \o <<m>>, wire[Master], {Entry(k, n)}, map[Slave][k],
                 v, bound[Slave], bound[Master], k)
      <4>1. n \in Nat \ {0} /\ bound[Master]
        BY <1>2
      <4>2. QED
        BY ONLY <1>1, <1>4, <3>1, <4>1, MasterChangesKey
    <3>3. QED
      BY <1>1, <1>3, <1>5, <1>6, <2>4, <3>2
  <2>7. ASSUME NEW c \in Keys, c # k
        PROVE  KeyInv(wire'[Slave], wire'[Master], {p \in pendingForAck' : p.key = c},
                      map'[Slave][c], map'[Master][c], bound'[Slave], bound'[Master], c)
    <3>1. KeyInv(wire[Slave] \o <<m>>, wire[Master], PendingOf(c), map[Slave][c],
                 map[Master][c], bound[Slave], bound[Master], c)
      <4>1. KeyInv(wire[Slave], wire[Master], PendingOf(c), map[Slave][c],
                   map[Master][c], bound[Slave], bound[Master], c)
        BY <2>5
      <4>2. NoneFor(<<m>>, c)
        BY <1>4, <2>7
      <4>3. QED
        BY ONLY <1>1, <1>4, <4>1, <4>2, KeyLeftAlone
    <3>2. QED
      BY <1>1, <1>3, <1>5, <1>6, <2>4, <2>7, <3>1
  <2>8. QED
    BY <2>6, <2>7 DEF KeyIs, PendingOf
<1>11. QED
  BY <1>8, <1>9, <1>10 DEF MapInv

LEMMA MapChangeKeepsInv ==
    ASSUME MapInv, NEW e \in Ends, NEW k \in Keys, NEW v \in MapValues, MapChange(e, k, v)
    PROVE  MapInv'
<1>1. CASE e = Master /\ bound[e]
  BY <1>1, MasterChanges
<1>2. CASE ~(e = Master /\ bound[e])
  <2>. DEFINE n == next_version + 1
              t == <<Versioned(e, k, v, n)>>
              f == [map[e] EXCEPT ![k] = v]
              s == <<Versioned(Slave, k, v, n)>>
  <2>1. /\ map \in [Ends -> [Keys -> MapValues]] /\ n \in Nat \ {0}
        /\ careful \in BOOLEAN /\ bound \in [Ends -> BOOLEAN]
    BY DEF MapInv, MapTypes
  <2>2. /\ map' = [map EXCEPT ![e][k] = v] /\ bound' = bound
        /\ wire' = IF bound[e] THEN [wire EXCEPT ![Other(e)] = @ \o t] ELSE wire
        /\ next_version' = next_version /\ pendingForAck' = pendingForAck
        /\ careful' = careful
    BY <1>2 DEF MapChange, LocalChange
  <2>3. f \in [Keys -> MapValues] /\ f[k] = v /\ \A c \in Keys : c # k => f[c] = map[e][c]
    BY <2>1
  <2>4. map' = [map EXCEPT ![e] = f]
    BY <2>1, <2>2
  <2>. HIDE DEF f, n
  <2>5. /\ s \in Seq(MapMessages) /\ ToMaster(s) /\ ChangesTo(s, k, v)
        /\ \A c : c # k => NoneFor(s, c)
    BY <2>1, OneMessage, TwoEnds
  <2>6. bound[e] => e = Slave /\ t = s
    BY <1>2, TwoEnds
  <2>. HIDE DEF s, t
  <2>7. \A c \in Keys : \/ f[c] = map[e][c] /\ NoneFor(s, c)
                        \/ ChangesTo(s, c, f[c])
    BY <2>3, <2>5
  <2>8. \/ ~bound[e] /\ wire' = wire
        \/ e = Slave /\ bound[e] /\ wire' = [wire EXCEPT ![Other(e)] = @ \o s]
    BY <2>2, <2>6
  <2>9. QED
    BY <2>1, <2>2, <2>3, <2>4, <2>5, <2>7, <2>8, KeysChange
<1>3. QED
  BY <1>1, <1>2

LEMMA MapClearKeepsInv ==
    ASSUME MapInv, NEW e \in Ends, MapClear(e)
    PROVE  MapInv'
<1>. DEFINE K == {k \in Keys : map[e][k] # NoValue}
            q == SetToSeq(K)
            f == [k \in Keys |-> NoValue]
            b == next_version
            t == Told(e, K, f, b)
<1>1. /\ MapTypes /\ MapShape
      /\ wire \in [Ends -> Seq(MapMessages)] /\ bound \in [Ends -> BOOLEAN]
      /\ map \in [Ends -> [Keys -> MapValues]] /\ careful \in BOOLEAN
      /\ b \in Nat /\ pendingForAck \subseteq Entries
  BY DEF MapInv, MapTypes
<1>2. K \subseteq Keys /\ f \in [Keys -> MapValues] /\ \A k \in Keys : f[k] = NoValue
  BY DEF MapValues
<1>3. q \in Seq(K)
  BY <1>1, <1>2, ToldIs
<1>4. [i \in DOMAIN q |-> Versioned(e, q[i], NoValue, b + i)] = t
  BY <1>2, <1>3, SequenceIs DEF Told
<1>5. /\ map' = [map EXCEPT ![e] = f] /\ bound' = bound
      /\ wire' = IF bound[e] THEN [wire EXCEPT ![Other(e)] = @ \o t] ELSE wire
  BY <1>4 DEF MapClear, LocalChange
<1>6. CASE e = Master /\ bound[e]
  <2>1. /\ next_version' = b + Len(q) /\ careful' = FALSE
        /\ \E p : pendingForAck' =
             {IF map[e][c.key] # NoValue THEN [c EXCEPT !.live = FALSE] ELSE c :
                c \in pendingForAck}
               \union {[key |-> q[i], version |-> b + i, live |-> FALSE] :
                         i \in {j \in DOMAIN q : p[j] = NotFound}}
    BY <1>6 DEF MapClear
  <2>2. pendingForAck' \subseteq Entries
    <3>1. \A c \in Entries : [c EXCEPT !.live = FALSE] \in Entries
      BY DEF Entries
    <3>2. \A i \in DOMAIN q : [key |-> q[i], version |-> b + i, live |-> FALSE] \in Entries
      <4>1. \A i \in DOMAIN q : q[i] \in Keys /\ i \in Nat \ {0}
        BY <1>2, <1>3, SequenceIs
      <4>2. \A i \in DOMAIN q : b + i \in Nat \ {0}
        BY ONLY <1>1, <4>1
      <4>3. QED
        BY <4>1, <4>2 DEF Entries
    <3>. HIDE DEF K, q, b
    <3>3. QED
      BY <1>1, <2>1, <3>1, <3>2
  <2>3. t \in Seq(MapMessages) /\ ToSlave(t) /\ Len(q) \in Nat
    BY <1>1, <1>2, <1>3, <1>6, ToldIs, SequenceIs
  <2>. HIDE DEF K, q, f, b, t
  <2>4. /\ wire' \in [Ends -> Seq(MapMessages)]
        /\ ToSlave(wire'[Slave]) /\ ToMaster(wire'[Master])
        /\ wire'[Master] = wire[Master]
    BY <1>1, <1>5, <1>6, <2>3, MapSends, TwoEnds
  <2>5. MapTypes'
    <3>1. next_version' \in Nat
      BY <1>1, <2>1, <2>3
    <3>2. QED
      BY <1>1, <1>2, <1>5, <2>1, <2>2, <2>4, <3>1 DEF MapTypes
  <2>6. MapShape'
    BY <1>1, <1>5, <1>6, <2>4 DEF MapShape
  <2>7. QED
    BY <2>1, <2>5, <2>6 DEF MapInv
<1>7. CASE ~(e = Master /\ bound[e])
  <2>. DEFINE s == Told(Slave, K, f, b)
  <2>1. next_version' = next_version /\ pendingForAck' = pendingForAck /\ careful' = careful
    BY <1>7 DEF MapClear
  <2>2. /\ s \in Seq(MapMessages) /\ ToMaster(s)
        /\ \A k : k \notin K => NoneFor(s, k)
        /\ \A k \in K : ChangesTo(s, k, f[k])
    BY <1>1, <1>2, ToldIs, TwoEnds
  <2>3. bound[e] => e = Slave /\ t = s
    BY <1>7, TwoEnds
  <2>. HIDE DEF f, s, t
  <2>4. \A k \in Keys : \/ f[k] = map[e][k] /\ NoneFor(s, k)
                        \/ ChangesTo(s, k, f[k])
    BY <1>2, <2>2
  <2>. HIDE DEF K, b
  <2>5. \/ ~bound[e] /\ wire' = wire
        \/ e = Slave /\ bound[e] /\ wire' = [wire EXCEPT ![Other(e)] = @ \o s]
    BY <1>5, <2>3
  <2>6. QED
    BY <1>1, <1>2, <1>5, <2>1, <2>2, <2>4, <2>5, KeysChange
<1>8. QED
  BY <1>6, <1>7

LEMMA MapBindKeepsInv ==
    ASSUME MapInv, NEW e \in Ends, MapBind(e)
    PROVE  MapInv'
<1>. DEFINE K == {k \in Keys : map[e][k] # NoValue}
            f == map[e]
            q == SetToSeq(K)
            b == next_version
            t == Told(e, K, f, b)
<1>1. /\ MapTypes /\ MapShape
      /\ wire \in [Ends -> Seq(MapMessages)] /\ bound \in [Ends -> BOOLEAN]
      /\ map \in [Ends -> [Keys -> MapValues]] /\ careful \in BOOLEAN
      /\ b \in Nat /\ pendingForAck \subseteq Entries
      /\ wire[Slave] \in Seq(MapMessages) /\ wire[Master] \in Seq(MapMessages)
  BY TwoEnds DEF MapInv, MapTypes
<1>2. K \subseteq Keys /\ f \in [Keys -> MapValues]
  BY <1>1
<1>3. /\ ~bound[e] /\ bound' = [bound EXCEPT ![e] = TRUE]
      /\ wire' = [wire EXCEPT ![Other(e)] = @ \o t]
      /\ map' = map /\ careful' = careful
      /\ e = Master => /\ next_version' = b + Len(q)
                       /\ pendingForAck' = {Entry(q[i], b + i) : i \in DOMAIN q}
      /\ e # Master => next_version' = next_version /\ pendingForAck' = pendingForAck
  BY DEF MapBind, Bind, Told, Entry
<1>. HIDE DEF K, f
<1>4. /\ q \in Seq(K) /\ t \in Seq(MapMessages)
      /\ e = Master => ToSlave(t)
      /\ e = Slave => ToMaster(t)
      /\ \A k : NoAck(t, k)
      /\ \A k : k \notin K => NoneFor(t, k)
      /\ \A k \in K : \E j \in 1 .. Len(q) :
           /\ \A i \in 1 .. Len(q) : q[i] = k <=> i = j
           /\ e = Master => OneFor(t, k, b + j, f[k])
      /\ \A k \in K : ChangesTo(t, k, f[k])
  <2>1. b \in Nat
    BY <1>1
  <2>. HIDE DEF b
  <2>2. QED
    BY ONLY <1>2, <2>1, e \in Ends, ToldIs, ZenonT(30)
<1>5. Len(q) \in Nat /\ DOMAIN q = 1 .. Len(q) /\ \A i \in 1 .. Len(q) : q[i] \in Keys
  BY <1>2, <1>4, SequenceIs
<1>. HIDE DEF q, b, t
<1>6. /\ wire' \in [Ends -> Seq(MapMessages)]
      /\ ToSlave(wire'[Slave]) /\ ToMaster(wire'[Master])
      /\ wire'[e] = wire[e] /\ wire'[Other(e)] = wire[Other(e)] \o t
  BY <1>1, <1>3, <1>4, MapSends
<1>7. bound' \in [Ends -> BOOLEAN] /\ bound'[e] = TRUE /\ bound'[Other(e)] = bound[Other(e)]
  BY <1>1, <1>3, TwoEnds
<1>8. \A i \in 1 .. Len(q) : b + i \in Nat \ {0}
  BY <1>1, <1>5
<1>9. MapTypes'
  <2>1. CASE e = Master
    <3>1. \A i \in 1 .. Len(q) : Entry(q[i], b + i) \in Entries
      BY <1>5, <1>8 DEF Entry, Entries
    <3>2. pendingForAck' \subseteq Entries /\ next_version' \in Nat
      BY <1>1, <1>3, <1>5, <2>1, <3>1
    <3>3. QED
      BY <1>1, <1>3, <1>6, <1>7, <3>2 DEF MapTypes
  <2>2. CASE e # Master
    BY <1>1, <1>3, <1>6, <1>7, <2>2 DEF MapTypes
  <2>3. QED
    BY <2>1, <2>2
<1>10. \A s \in Seq(MapMessages) : <<>> \o s = s
  OBVIOUS
<1>11. CASE e = Master
  <2>1. /\ wire[Slave] = <<>> /\ pendingForAck = {}
        /\ wire'[Master] = wire[Master] /\ wire'[Slave] = t
        /\ bound'[Slave] = bound[Slave] /\ bound'[Master] = TRUE
    BY <1>1, <1>3, <1>4, <1>6, <1>7, <1>10, <1>11 DEF MapShape, Slave
  <2>2. MapShape'
    BY <1>1, <1>6, <2>1 DEF MapShape
  <2>3. ASSUME careful, NEW k \in Keys
        PROVE  KeyIs(k)'
    <3>. DEFINE ws == wire[Slave]
                wm == wire[Master]
                P == PendingOf(k)
                x == map[Slave][k]
                y == map[Master][k]
                bs == bound[Slave]
                bm == bound[Master]
                cm == bound'[Master]
                C == {p \in pendingForAck' : p.key = k}
    <3>1. /\ wm \in Seq(MapMessages) /\ bs \in BOOLEAN /\ bm \in BOOLEAN /\ ~bm
          /\ cm \in BOOLEAN /\ cm
      BY <1>1, <1>3, <1>11, <2>1, TwoEnds
    <3>2. KeyInv(ws, wm, P, x, y, bs, bm, k)
      BY <1>1, <2>1, <2>3 DEF MapInv, KeyIs
    <3>3. Announces(t, C, k, y)
      <4>1. pendingForAck' = {Entry(q[i], b + i) : i \in 1 .. Len(q)}
        BY <1>3, <1>5, <1>11
      <4>2. \A i \in 1 .. Len(q) : Entry(q[i], b + i).key = q[i]
        BY DEF Entry
      <4>3. CASE k \in K
        <5>1. PICK j \in 1 .. Len(q) : /\ \A i \in 1 .. Len(q) : q[i] = k <=> i = j
                                       /\ OneFor(t, k, b + j, f[k])
          BY <1>4, <1>11, <4>3
        <5>2. C = {Entry(k, b + j)}
          <6>1. q[j] = k
            BY <5>1
          <6>2. \A p \in pendingForAck' : p.key = k <=> p = Entry(k, b + j)
            BY <4>1, <4>2, <5>1, <6>1
          <6>3. Entry(k, b + j) \in pendingForAck'
            BY <4>1, <6>1
          <6>4. QED
            BY <6>2, <6>3
        <5>3. QED
          BY <1>8, <1>11, <5>1, <5>2 DEF f, Announces
      <4>4. CASE k \notin K
        <5>1. y = NoValue /\ NoneFor(t, k)
          BY <1>4, <1>11, <4>4 DEF K
        <5>2. \A i \in 1 .. Len(q) : q[i] # k
          BY <1>4, <4>4, SequenceIs
        <5>3. C = {}
          BY <4>1, <4>2, <5>2
        <5>4. QED
          BY <5>1, <5>3 DEF Announces
      <4>5. QED
        BY <4>3, <4>4
    <3>. HIDE DEF ws, wm, P, x, y, bs, bm, cm, C
    <3>4. t \in Seq(MapMessages)
      BY <1>4
    <3>5. KeyInv(t, wm, C, x, y, bs, cm, k)
      BY ONLY <3>1, <3>2, <3>3, <3>4, MasterBindsKey
    <3>6. QED
      BY <1>3, <2>1, <3>5 DEF KeyIs, PendingOf, wm, C, x, y, bs, cm
  <2>4. QED
    BY <1>3, <1>9, <2>2, <2>3 DEF MapInv
<1>12. CASE e = Slave
  <2>1. /\ wire[Master] = <<>> /\ Slave # Master
        /\ wire'[Slave] = wire[Slave] /\ wire'[Master] = t
        /\ bound'[Master] = bound[Master] /\ bound'[Slave] = TRUE
        /\ pendingForAck' = pendingForAck
    BY <1>1, <1>3, <1>4, <1>6, <1>7, <1>10, <1>12, TwoEnds DEF MapShape
  <2>2. MapShape'
    BY <1>1, <1>6, <2>1 DEF MapShape
  <2>3. ASSUME careful, NEW k \in Keys
        PROVE  KeyIs(k)'
    <3>. DEFINE ws == wire[Slave]
                P == PendingOf(k)
                x == map[Slave][k]
                y == map[Master][k]
                bs == bound[Slave]
                cs == bound'[Slave]
                bm == bound[Master]
    <3>1. /\ ws \in Seq(MapMessages) /\ bs \in BOOLEAN /\ ~bs /\ bm \in BOOLEAN
          /\ cs \in BOOLEAN /\ cs
      BY <1>1, <1>3, <1>12, <2>1, TwoEnds
    <3>2. KeyInv(ws, <<>>, P, x, y, bs, bm, k)
      BY <1>1, <2>1, <2>3 DEF MapInv, KeyIs
    <3>3. \/ x = NoValue /\ NoneFor(t, k)
          \/ ChangesTo(t, k, x)
      BY <1>4, <1>12 DEF K, f
    <3>. HIDE DEF ws, P, x, y, bs, bm, cs
    <3>4. t \in Seq(MapMessages) /\ NoAck(t, k)
      BY <1>4
    <3>5. KeyInv(ws, t, P, x, y, cs, bm, k)
      BY ONLY <3>1, <3>2, <3>3, <3>4, SlaveBindsKey
    <3>6. QED
      BY <1>3, <2>1, <3>5 DEF KeyIs, PendingOf, ws, P, x, y, cs, bm
  <2>4. QED
    BY <1>3, <1>9, <2>2, <2>3 DEF MapInv
<1>13. QED
  BY <1>11, <1>12, TwoEnds

\* What is pending for a key, in a lookup.
LEMMA PendingIs ==
    ASSUME NEW k
    PROVE  /\ PendingOf(k) = {} => Pending(k) = {NotFound}
           /\ \A n : PendingOf(k) = {Entry(k, n)} => Pending(k) = {Entry(k, n)}
<1>1. \A n : Entry(k, n).live
  BY DEF Entry
<1>2. QED
  BY <1>1 DEF Pending, PendingOf

LEMMA MapAckKeepsInv ==
    ASSUME MapInv, NEW e \in Ends, MapAck(e)
    PROVE  MapInv'
<1>. DEFINE h == Head(wire[Master])
            r == Tail(wire[Master])
<1>1. /\ MapTypes /\ MapShape
      /\ wire \in [Ends -> Seq(MapMessages)] /\ bound \in [Ends -> BOOLEAN]
      /\ pendingForAck \subseteq Entries
      /\ wire[Slave] \in Seq(MapMessages) /\ wire[Master] \in Seq(MapMessages)
  BY TwoEnds DEF MapInv, MapTypes
<1>2. /\ wire[e] # <<>> /\ Head(wire[e]).ack /\ bound[e]
      /\ wire' = [wire EXCEPT ![e] = Tail(@), ![Other(e)] = @ \o <<>>]
      /\ \E p \in Pending(Head(wire[e]).key) :
           pendingForAck' = IF Acknowledged(p, Head(wire[e]).version)
                            THEN pendingForAck \ {p} ELSE pendingForAck
      /\ bound' = bound /\ map' = map /\ next_version' = next_version /\ careful' = careful
  BY DEF MapAck, WireReceived
<1>3. e = Master /\ bound[Master]
  BY <1>1, <1>2, MapTakes, TwoEnds
<1>4. h \in MapMessages /\ r \in Seq(MapMessages) /\ ToMaster(r) /\ h.ack /\ h.version > 0
  BY <1>1, <1>2, <1>3, MapTakes
<1>5. wire' \in [Ends -> Seq(MapMessages)] /\ wire'[Slave] = wire[Slave] /\ wire'[Master] = r
  <2>1. \A s \in Seq(MapMessages) : s \o <<>> = s
    OBVIOUS
  <2>2. QED
    BY <1>1, <1>2, <1>3, <1>4, <2>1, TwoEnds
<1>6. PICK p \in Pending(h.key) :
        pendingForAck' = IF Acknowledged(p, h.version)
                         THEN pendingForAck \ {p} ELSE pendingForAck
  BY <1>2, <1>3
<1>7. MapTypes' /\ MapShape'
  <2>1. pendingForAck' \subseteq Entries
    BY <1>1, <1>6
  <2>2. bound[Slave]
    BY <1>1, <1>2, <1>3 DEF MapShape
  <2>3. QED
    BY <1>1, <1>2, <1>3, <1>4, <1>5, <2>1, <2>2 DEF MapTypes, MapShape
<1>8. ASSUME careful
      PROVE  \A k \in Keys : KeyIs(k)'
  <2>. DEFINE g == h.key
  <2>1. g \in Keys
    BY <1>4 DEF MapMessages
  <2>2. \A k \in Keys : KeyInv(wire[Slave], wire[Master], PendingOf(k), map[Slave][k],
                               map[Master][k], bound[Slave], bound[Master], k)
    BY <1>8 DEF MapInv, KeyIs
  <2>3. wire[Master] # <<>>
    BY <1>2, <1>3
  <2>4. /\ PendingOf(g) = {Entry(g, h.version)}
        /\ KeyInv(wire[Slave], r, {}, map[Slave][g], map[Master][g],
                  bound[Slave], bound[Master], g)
    <3>1. KeyInv(wire[Slave], wire[Master], PendingOf(g), map[Slave][g], map[Master][g],
                 bound[Slave], bound[Master], g)
      BY <2>1, <2>2
    <3>2. QED
      BY ONLY <1>1, <1>4, <2>3, <3>1, MasterHearsOfKey
  <2>5. p = Entry(g, h.version) /\ p.key = g
    BY <2>4, PendingIs DEF Entry
  <2>6. pendingForAck' = pendingForAck \ {p}
    <3>1. Acknowledged(p, h.version)
      BY <1>4, <2>5 DEF Acknowledged, Entry, NotFound
    <3>2. QED
      BY <1>6, <3>1
  <2>7. /\ {c \in pendingForAck' : c.key = g} = {}
        /\ \A k \in Keys : k # g => {c \in pendingForAck' : c.key = k} = PendingOf(k)
    BY <2>4, <2>5, <2>6 DEF PendingOf
  <2>8. ASSUME NEW k \in Keys
        PROVE  KeyInv(wire[Slave], r, {c \in pendingForAck' : c.key = k}, map[Slave][k],
                      map[Master][k], bound[Slave], bound[Master], k)
    <3>1. CASE k = g
      BY <2>4, <2>7, <3>1
    <3>2. CASE k # g
      <4>1. KeyInv(wire[Slave], wire[Master], PendingOf(k), map[Slave][k], map[Master][k],
                   bound[Slave], bound[Master], k)
        BY <2>2
      <4>2. KeyInv(wire[Slave], r, PendingOf(k), map[Slave][k], map[Master][k],
                   bound[Slave], bound[Master], k)
        BY ONLY <1>1, <2>3, <3>2, <4>1, KeyLeftAlone, SMTT(30)
      <4>3. QED
        BY <2>7, <3>2, <4>2
    <3>3. QED
      BY <3>1, <3>2
  <2>9. QED
    BY <1>2, <1>5, <2>8 DEF KeyIs, PendingOf
<1>9. QED
  BY <1>2, <1>7, <1>8 DEF MapInv

\* The slave takes what the master sent, and acknowledges it.
LEMMA SlaveTakes ==
    ASSUME MapInv, MapReceived(Slave)
    PROVE  MapInv'
<1>. DEFINE h == Head(wire[Slave])
            r == Tail(wire[Slave])
            a == [ack |-> TRUE, key |-> h.key, value |-> NoValue, version |-> h.version]
            t == <<a>>
<1>1. /\ MapTypes /\ MapShape
      /\ wire \in [Ends -> Seq(MapMessages)] /\ bound \in [Ends -> BOOLEAN]
      /\ map \in [Ends -> [Keys -> MapValues]]
      /\ wire[Slave] \in Seq(MapMessages) /\ wire[Master] \in Seq(MapMessages)
  BY TwoEnds DEF MapInv, MapTypes
<1>2. /\ wire[Slave] # <<>> /\ bound[Slave]
      /\ wire' = [wire EXCEPT ![Slave] = Tail(@), ![Other(Slave)] = @ \o Answers(h)]
      /\ \E p \in Pending(h.key) : map' = IF Accepts(Slave, h, p)
                                          THEN [map EXCEPT ![Slave][h.key] = h.value] ELSE map
      /\ bound' = bound /\ next_version' = next_version /\ pendingForAck' = pendingForAck
      /\ careful' = careful
  BY DEF MapReceived, WireReceived
<1>3. h \in MapMessages /\ r \in Seq(MapMessages) /\ ToSlave(r) /\ h.version > 0
  BY <1>1, <1>2, MapTakes, TwoEnds
<1>4. h.key \in Keys /\ h.value \in MapValues /\ h.version \in Nat
  BY <1>3 DEF MapMessages
<1>5. Answers(h) = t /\ map' = [map EXCEPT ![Slave][h.key] = h.value]
  BY <1>2, <1>3 DEF Answers, Accepts
<1>6. /\ a \in MapMessages /\ a.ack /\ a.key = h.key /\ a.version = h.version
  BY <1>4 DEF MapMessages, MapValues
<1>. HIDE DEF a
<1>7. /\ t \in Seq(MapMessages) /\ Len(t) = 1 /\ t[1] = a
  BY <1>6
<1>8. ToMaster(t)
  <2>1. \A i \in 1 .. Len(t) : t[i] = a
    BY <1>7
  <2>2. QED
    BY <1>3, <1>6, <2>1 DEF ToMaster
<1>. HIDE DEF t
<1>9. /\ wire' \in [Ends -> Seq(MapMessages)]
      /\ wire'[Slave] = r /\ wire'[Master] = wire[Master] \o t /\ ToMaster(wire'[Master])
  <2>1. /\ [wire EXCEPT ![Other(Slave)] = @ \o t] \in [Ends -> Seq(MapMessages)]
        /\ wire[Master] \o t \in Seq(MapMessages)
    BY <1>1, <1>7, TwoEnds
  <2>2. /\ wire' \in [Ends -> Seq(MapMessages)]
        /\ wire'[Slave] = r /\ wire'[Master] = wire[Master] \o t
    BY <1>1, <1>2, <1>3, <1>5, <2>1, TwoEnds
  <2>3. ToMaster(wire[Master]) /\ ToMaster(t)
    BY <1>1, <1>8 DEF MapShape
  <2>4. ToMaster(wire[Master] \o t)
    BY <1>1, <1>7, <2>3, ToMore
  <2>5. QED
    BY <2>2, <2>4
<1>10. /\ map' \in [Ends -> [Keys -> MapValues]] /\ map'[Master] = map[Master]
       /\ map'[Slave][h.key] = h.value
       /\ \A k \in Keys : k # h.key => map'[Slave][k] = map[Slave][k]
  BY <1>1, <1>4, <1>5, TwoEnds
<1>11. MapTypes' /\ MapShape'
  <2>1. bound[Master]
    BY <1>1, <1>2 DEF MapShape
  <2>2. QED
    BY <1>1, <1>2, <1>3, <1>9, <1>10, <2>1 DEF MapTypes, MapShape
<1>12. ASSUME careful, NEW k \in Keys
       PROVE  KeyInv(r, wire[Master] \o t, PendingOf(k), map'[Slave][k], map[Master][k],
                     bound[Slave], bound[Master], k)
  <2>1. KeyInv(wire[Slave], wire[Master], PendingOf(k), map[Slave][k], map[Master][k],
               bound[Slave], bound[Master], k)
    BY <1>12 DEF MapInv, KeyIs
  <2>2. CASE k = h.key
    <3>1. h.key = k /\ wire[Slave] # <<>> /\ bound[Slave]
      BY <1>2, <2>2
    <3>2. /\ t \in Seq(MapMessages) /\ Len(t) = 1
          /\ t[1].key = k /\ t[1].ack /\ t[1].version = h.version
      BY <1>6, <1>7, <2>2
    <3>3. KeyInv(r, wire[Master] \o t, PendingOf(k), h.value, map[Master][k],
                 bound[Slave], bound[Master], k)
      BY ONLY <1>1, <2>1, <3>1, <3>2, SlaveReceivesKey
    <3>4. QED
      BY <1>10, <2>2, <3>3
  <2>3. CASE k # h.key
    <3>1. h.key # k /\ wire[Slave] # <<>>
      BY <1>2, <2>3
    <3>2. KeyInv(r, wire[Master], PendingOf(k), map[Slave][k], map[Master][k],
                 bound[Slave], bound[Master], k)
      BY ONLY <1>1, <2>1, <3>1, KeyLeftAlone
    <3>3. NoneFor(t, k)
      <4>1. \A i \in 1 .. Len(t) : t[i].key = h.key
        BY <1>6, <1>7
      <4>2. QED
        BY <2>3, <4>1 DEF NoneFor
    <3>4. KeyInv(r, wire[Master] \o t, PendingOf(k), map[Slave][k], map[Master][k],
                 bound[Slave], bound[Master], k)
      BY ONLY <1>1, <1>3, <1>7, <3>2, <3>3, KeyLeftAlone
    <3>5. QED
      BY <1>10, <2>3, <3>4
  <2>4. QED
    BY <2>2, <2>3
<1>13. QED
  BY <1>2, <1>9, <1>10, <1>11, <1>12 DEF MapInv, KeyIs, PendingOf

\* The master takes a change of the slave, unless one of its own is pending.
LEMMA MasterTakes ==
    ASSUME MapInv, MapReceived(Master)
    PROVE  MapInv'
<1>. DEFINE h == Head(wire[Master])
            r == Tail(wire[Master])
<1>1. /\ MapTypes /\ MapShape
      /\ wire \in [Ends -> Seq(MapMessages)] /\ bound \in [Ends -> BOOLEAN]
      /\ map \in [Ends -> [Keys -> MapValues]]
      /\ wire[Slave] \in Seq(MapMessages) /\ wire[Master] \in Seq(MapMessages)
  BY TwoEnds DEF MapInv, MapTypes
<1>2. /\ wire[Master] # <<>> /\ bound[Master] /\ ~h.ack
      /\ wire' = [wire EXCEPT ![Master] = Tail(@), ![Other(Master)] = @ \o Answers(h)]
      /\ \E p \in Pending(h.key) : map' = IF Accepts(Master, h, p)
                                          THEN [map EXCEPT ![Master][h.key] = h.value] ELSE map
      /\ bound' = bound /\ next_version' = next_version /\ pendingForAck' = pendingForAck
      /\ careful' = careful
  BY DEF MapReceived, WireReceived
<1>3. h \in MapMessages /\ r \in Seq(MapMessages) /\ ToMaster(r) /\ ~(h.version > 0)
  BY <1>1, <1>2, MapTakes, TwoEnds
<1>4. h.key \in Keys /\ h.value \in MapValues
  BY <1>3 DEF MapMessages
<1>5. Answers(h) = <<>>
  BY <1>3 DEF Answers
<1>6. wire' \in [Ends -> Seq(MapMessages)] /\ wire'[Slave] = wire[Slave] /\ wire'[Master] = r
  <2>1. \A s \in Seq(MapMessages) : s \o <<>> = s
    OBVIOUS
  <2>2. QED
    BY <1>1, <1>2, <1>3, <1>5, <2>1, TwoEnds
<1>7. PICK p \in Pending(h.key) :
        map' = IF p = NotFound THEN [map EXCEPT ![Master][h.key] = h.value] ELSE map
  BY <1>2, <1>3 DEF Accepts
<1>8. /\ map' \in [Ends -> [Keys -> MapValues]] /\ map'[Slave] = map[Slave]
      /\ map'[Master][h.key] = IF p = NotFound THEN h.value ELSE map[Master][h.key]
      /\ \A k \in Keys : k # h.key => map'[Master][k] = map[Master][k]
  BY <1>1, <1>4, <1>7, TwoEnds
<1>9. bound[Slave]
  BY <1>1, <1>2 DEF MapShape
<1>10. MapTypes' /\ MapShape'
  BY <1>1, <1>2, <1>3, <1>6, <1>8, <1>9 DEF MapTypes, MapShape
<1>11. ASSUME careful, NEW k \in Keys
       PROVE  KeyInv(wire[Slave], r, PendingOf(k), map[Slave][k], map'[Master][k],
                     bound[Slave], bound[Master], k)
  <2>1. KeyInv(wire[Slave], wire[Master], PendingOf(k), map[Slave][k], map[Master][k],
               bound[Slave], bound[Master], k)
    BY <1>11 DEF MapInv, KeyIs
  <2>2. CASE k = h.key
    <3>1. h.key = k /\ ~h.ack /\ wire[Master] # <<>> /\ bound[Slave] /\ bound[Master]
      BY <1>2, <1>9, <2>2
    <3>2. /\ PendingOf(k) = {} =>
               KeyInv(wire[Slave], r, PendingOf(k), map[Slave][k], h.value,
                      bound[Slave], bound[Master], k)
          /\ PendingOf(k) # {} =>
               KeyInv(wire[Slave], r, PendingOf(k), map[Slave][k], map[Master][k],
                      bound[Slave], bound[Master], k)
      BY ONLY <1>1, <2>1, <3>1, MasterReceivesKey
    <3>3. CASE PendingOf(k) = {}
      <4>1. p = NotFound
        BY <2>2, <3>3, PendingIs
      <4>2. QED
        BY <1>8, <2>2, <3>2, <3>3, <4>1
    <3>4. CASE PendingOf(k) # {}
      <4>1. PICK n \in Nat \ {0} : PendingOf(k) = {Entry(k, n)}
        BY <2>1, <3>4 DEF KeyInv, Free, Sent, Acked
      <4>2. p = Entry(k, n)
        BY <2>2, <4>1, PendingIs
      <4>3. p # NotFound
        BY <4>2 DEF Entry, NotFound
      <4>4. QED
        BY <1>8, <2>2, <3>2, <3>4, <4>3
    <3>5. QED
      BY <3>3, <3>4
  <2>3. CASE k # h.key
    <3>1. h.key # k /\ wire[Master] # <<>>
      BY <1>2, <2>3
    <3>2. KeyInv(wire[Slave], r, PendingOf(k), map[Slave][k], map[Master][k],
                 bound[Slave], bound[Master], k)
      BY ONLY <1>1, <2>1, <3>1, KeyLeftAlone
    <3>3. QED
      BY <1>8, <2>3, <3>2
  <2>4. QED
    BY <2>2, <2>3
<1>12. QED
  BY <1>2, <1>6, <1>8, <1>10, <1>11 DEF MapInv, KeyIs, PendingOf

LEMMA MapStep ==
    kind = "map" /\ MapInv /\ [EntitiesNext]_entityVars => MapInv'
<1> SUFFICES ASSUME kind = "map", MapInv, [EntitiesNext]_entityVars
             PROVE  MapInv'
  OBVIOUS
<1>1. CASE UNCHANGED entityVars
  BY <1>1 DEF entityVars, reactiveVars, mapVars, MapInv, MapTypes, MapShape, KeyIs, PendingOf
<1>2. CASE MapNext
  <2>1. PICK e \in Ends :
          \/ \E k \in Keys, v \in MapValues : MapChange(e, k, v)
          \/ MapClear(e)
          \/ MapBind(e)
          \/ MapAck(e)
          \/ MapReceived(e)
    BY <1>2 DEF MapNext, MapValues
  <2>2. CASE \E k \in Keys, v \in MapValues : MapChange(e, k, v)
    BY <2>2, MapChangeKeepsInv
  <2>3. CASE MapReceived(e)
    BY <2>3, SlaveTakes, MasterTakes, TwoEnds
  <2>4. QED
    BY <2>1, <2>2, <2>3, MapClearKeepsInv, MapBindKeepsInv, MapAckKeepsInv
<1>3. QED
  BY <1>1, <1>2 DEF EntitiesNext, OnlyProperty, OnlyMap, OnlyList, OnlySet, OnlyExtension

\* Nothing is under way: every key is free.
LEMMA MapInvSettles ==
    ASSUME MapInv
    PROVE  MapSettles /\ PendingIsUnderWay
<1>1. /\ MapTypes /\ MapShape
      /\ wire[Slave] \in Seq(MapMessages) /\ wire[Master] \in Seq(MapMessages)
      /\ map \in [Ends -> [Keys -> MapValues]] /\ pendingForAck \subseteq Entries
  BY TwoEnds DEF MapInv, MapTypes
<1>2. \A k : ~(\E n, v : OneFor(<<>>, k, n, v)) /\ ~(\E n : OneAck(<<>>, k, n))
  <2>1. Len(<<>>) = 0
    OBVIOUS
  <2>2. \A i : i \notin 1 .. 0
    OBVIOUS
  <2>3. QED
    BY <2>1, <2>2 DEF OneFor, OneAck
<1>3. ASSUME Quiet, careful
      PROVE  map["editor"] = map["rider"] /\ pendingForAck = {}
  <2>1. /\ wire[Slave] = <<>> /\ wire[Master] = <<>>
        /\ bound[Slave] /\ bound[Master]
    BY <1>3, TwoEnds DEF Quiet
  <2>2. ASSUME NEW k \in Keys
        PROVE  PendingOf(k) = {} /\ map[Slave][k] = map[Master][k]
    <3>1. KeyInv(wire[Slave], wire[Master], PendingOf(k), map[Slave][k], map[Master][k],
                 bound[Slave], bound[Master], k)
      BY <1>3 DEF MapInv, KeyIs
    <3>2. Free(wire[Slave], wire[Master], PendingOf(k), map[Slave][k], map[Master][k],
               bound[Slave], bound[Master], k)
      BY <1>2, <2>1, <3>1 DEF KeyInv, Sent, Acked
    <3>3. PendingOf(k) = {} /\ Tells(<<>>, k, map[Slave][k], map[Master][k])
      BY <2>1, <3>2 DEF Free
    <3>4. \A i : i \notin 1 .. Len(<<>>)
      <4>1. Len(<<>>) = 0
        OBVIOUS
      <4>2. QED
        BY <4>1
    <3>5. QED
      BY <3>3, <3>4 DEF Tells
  <2>3. map[Slave] = map[Master]
    BY <1>1, <2>2, TwoEnds
  <2>4. pendingForAck = {}
    BY <1>1, <2>2 DEF PendingOf, Entries
  <2>5. "editor" \in Ends /\ "rider" \in Ends
    BY DEF Ends
  <2>6. QED
    BY <2>3, <2>4, <2>5, TwoEnds
<1>4. ASSUME careful, bound[Master], NEW k \in Keys
      PROVE  {p.version : p \in {q \in pendingForAck : q.key = k}}
               = {m.version : m \in {c \in Range(wire[Other(Master)]) :
                                       c.key = k /\ c.version > 0}
                                \union {c \in Range(wire[Master]) : c.key = k /\ c.ack}}
  <2>. DEFINE ws == wire[Slave]
              wm == wire[Master]
              sent == {c \in Range(ws) : c.key = k /\ c.version > 0}
              acked == {c \in Range(wm) : c.key = k /\ c.ack}
  <2>1. KeyInv(ws, wm, PendingOf(k), map[Slave][k], map[Master][k],
               bound[Slave], bound[Master], k)
    BY <1>4 DEF MapInv, KeyIs
  <2>2. /\ Range(ws) = {ws[i] : i \in 1 .. Len(ws)}
        /\ Range(wm) = {wm[i] : i \in 1 .. Len(wm)}
    BY <1>1, SequenceIs DEF Range
  <2>3. \A i \in 1 .. Len(ws) : ws[i].version > 0
    BY <1>1 DEF MapShape, ToSlave
  <2>. HIDE DEF ws, wm
  <2>4. NoneFor(ws, k) => sent = {}
    BY <2>2 DEF NoneFor
  <2>5. NoAck(wm, k) => acked = {}
    BY <2>2 DEF NoAck
  <2>6. ASSUME NEW n, NEW v, OneFor(ws, k, n, v)
        PROVE  \E c : sent = {c} /\ c.version = n
    <3>1. PICK i \in 1 .. Len(ws) : OnlyOne(ws, k, i) /\ ws[i].version = n
      BY <2>6 DEF OneFor
    <3>2. sent = {ws[i]}
      BY <2>2, <2>3, <3>1 DEF OnlyOne
    <3>3. QED
      BY <3>1, <3>2
  <2>7. ASSUME NEW n, OneAck(wm, k, n)
        PROVE  \E c : acked = {c} /\ c.version = n
    <3>1. PICK i \in 1 .. Len(wm) :
            /\ wm[i].key = k /\ wm[i].ack /\ wm[i].version = n
            /\ \A j \in 1 .. Len(wm) : j # i /\ wm[j].ack => wm[j].key # k
      BY <2>7 DEF OneAck
    <3>2. acked = {wm[i]}
      BY <2>2, <3>1
    <3>3. QED
      BY <3>1, <3>2
  <2>. HIDE DEF sent, acked
  <2>8. {p.version : p \in PendingOf(k)} = {m.version : m \in sent \union acked}
    <3>1. CASE Free(ws, wm, PendingOf(k), map[Slave][k], map[Master][k],
                    bound[Slave], bound[Master], k)
      <4>1. PendingOf(k) = {} /\ sent = {} /\ acked = {}
        BY <2>4, <2>5, <3>1 DEF Free
      <4>2. QED
        BY <4>1
    <3>2. CASE Sent(ws, wm, PendingOf(k), map[Master][k], bound[Master], k)
      <4>1. PICK n \in Nat \ {0} : /\ PendingOf(k) = {Entry(k, n)}
                                   /\ OneFor(ws, k, n, map[Master][k]) /\ NoAck(wm, k)
        BY <3>2 DEF Sent
      <4>2. PICK c : sent = {c} /\ c.version = n
        BY <2>6, <4>1
      <4>3. acked = {} /\ Entry(k, n).version = n
        BY <2>5, <4>1 DEF Entry
      <4>4. QED
        BY <4>1, <4>2, <4>3
    <3>3. CASE Acked(ws, wm, PendingOf(k), map[Slave][k], map[Master][k],
                     bound[Slave], bound[Master], k)
      <4>1. PICK n \in Nat \ {0} : /\ PendingOf(k) = {Entry(k, n)}
                                   /\ NoneFor(ws, k) /\ OneAck(wm, k, n)
        BY <3>3 DEF Acked
      <4>2. PICK c : acked = {c} /\ c.version = n
        BY <2>7, <4>1
      <4>3. sent = {} /\ Entry(k, n).version = n
        BY <2>4, <4>1 DEF Entry
      <4>4. QED
        BY <4>1, <4>2, <4>3
    <3>4. QED
      BY <2>1, <3>1, <3>2, <3>3 DEF KeyInv
  <2>9. QED
    BY <2>8 DEF PendingOf, sent, acked, ws, wm, Slave
<1>5. QED
  BY <1>3, <1>4 DEF MapSettles, PendingIsUnderWay

(***************************************************************************)
(* As long as the master neither changes a key again before it heard of    *)
(* the last change nor removes one, the copies of a map are equal whenever *)
(* nothing is under way, and what is pending is what is under way: each    *)
(* change that on_wire_received turns down lost to one that follows it.    *)
(***************************************************************************)
THEOREM MapsSettleDown == EntitiesSpec => []MapsSettle
<1>1. EntitiesInit => (kind = "map" => MapInv)
  BY MapInvInit
<1>2. (kind = "map" => MapInv) /\ [EntitiesNext]_entityVars => (kind = "map" => MapInv)'
  <2> SUFFICES ASSUME kind = "map" => MapInv, [EntitiesNext]_entityVars, kind' = "map"
               PROVE  MapInv'
    OBVIOUS
  <2>1. kind' = kind
    BY DEF EntitiesNext, OnlyProperty, OnlyMap, OnlyList, OnlySet, OnlyExtension, entityVars
  <2> QED BY <2>1, MapStep
<1>3. (kind = "map" => MapInv) => MapsSettle
  BY MapInvSettles DEF MapsSettle
<1> QED BY <1>1, <1>2, <1>3, PTL DEF EntitiesSpec

-----------------------------------------------------------------------------
(***************************************************************************)
(* Lists.  First what the operations and what is sent for them do to a     *)
(* list: Replay goes through the events, so what is proved of it is proved *)
(* by induction over how many there are.                                   *)
(***************************************************************************)
\* Induction over numbers, for a set of them: the library's rule takes a predicate.
LEMMA EveryNumber ==
    ASSUME NEW T, 0 \in T, \A n \in Nat : n \in T => n + 1 \in T
    PROVE  Nat \subseteq T
<1>. DEFINE R == OpToRel(<, Nat)
<1>1. \A i, j \in Nat : i < j => <<i, j>> \in R
  BY DEF OpToRel
<1>2. IsWellFoundedOn(R, Nat)
  BY NatLessThanWellFounded
<1>. HIDE DEF R
<1>3. SUFFICES ASSUME Nat \ T # {} PROVE FALSE
  OBVIOUS
<1>4. PICK x \in Nat \ T : \A y \in Nat \ T : ~(<<y, x>> \in R)
  BY <1>2, <1>3, WFMin
<1>5. x \in Nat /\ x # 0 /\ x - 1 \in Nat /\ x - 1 < x /\ (x - 1) + 1 = x
  BY <1>4
<1>6. x - 1 \notin T
  BY <1>4, <1>5
<1>7. QED
  BY <1>1, <1>4, <1>5, <1>6

\* f[i] is what the first i events of s make of l.
Steps(f, l, s) == f = [i \in 0 .. Len(s) |-> IF i = 0 THEN l ELSE Apply(f[i - 1], s[i])]

LEMMA StepsExist ==
    ASSUME NEW l, NEW s, Len(s) \in Nat PROVE \E f : Steps(f, l, s)
<1>. DEFINE T == {n \in Nat : \E f : f = [i \in 0 .. n |-> IF i = 0 THEN l ELSE Apply(f[i - 1], s[i])]}
<1>1. 0 \in T
  <2>. DEFINE f == [i \in 0 .. 0 |-> l]
  <2>1. f = [i \in 0 .. 0 |-> IF i = 0 THEN l ELSE Apply(f[i - 1], s[i])]
    OBVIOUS
  <2>. QED BY <2>1
<1>2. ASSUME NEW n \in Nat, n \in T PROVE n + 1 \in T
  <2>1. PICK f : f = [i \in 0 .. n |-> IF i = 0 THEN l ELSE Apply(f[i - 1], s[i])]
    BY <1>2
  <2>. DEFINE g == [i \in 0 .. n + 1 |-> IF i = n + 1 THEN Apply(f[n], s[n + 1]) ELSE f[i]]
  <2>2. \A i \in 0 .. n : g[i] = f[i]
    OBVIOUS
  <2>3. \A i \in 0 .. n + 1 : g[i] = IF i = 0 THEN l ELSE Apply(g[i - 1], s[i])
    <3>1. ASSUME NEW i \in 0 .. n + 1 PROVE g[i] = IF i = 0 THEN l ELSE Apply(g[i - 1], s[i])
      <4>1. CASE i = n + 1
        <5>1. i # 0 /\ i - 1 = n /\ n \in 0 .. n
          BY <4>1
        <5>2. g[i] = Apply(f[n], s[n + 1])
          BY <4>1
        <5>. QED BY <2>2, <5>1, <5>2, <4>1
      <4>2. CASE i # n + 1
        <5>1. i \in 0 .. n /\ (i # 0 => i - 1 \in 0 .. n)
          BY <4>2
        <5>2. f[i] = IF i = 0 THEN l ELSE Apply(f[i - 1], s[i])
          BY <5>1, <2>1
        <5>. QED BY <2>2, <5>1, <5>2
      <4>. QED BY <4>1, <4>2
    <3>. QED BY <3>1
  <2>4. g = [i \in 0 .. n + 1 |-> IF i = 0 THEN l ELSE Apply(g[i - 1], s[i])]
    BY <2>3
  <2>. HIDE DEF g
  <2>5. \E h : h = [i \in 0 .. n + 1 |-> IF i = 0 THEN l ELSE Apply(h[i - 1], s[i])]
    BY <2>4
  <2>. QED BY <2>5
<1>3. Len(s) \in T
  <2>. HIDE DEF T
  <2>. QED BY <1>1, <1>2, EveryNumber
<1>. QED BY <1>3 DEF Steps

LEMMA StepsEnd ==
    ASSUME NEW l, NEW s, Len(s) \in Nat, NEW f, Steps(f, l, s)
    PROVE  Replay(l, s) = f[Len(s)]
<1>. DEFINE g == CHOOSE g : Steps(g, l, s)
<1>1. Steps(g, l, s)
  OBVIOUS
<1>2. Replay(l, s) = g[Len(s)]
  BY DEF Replay, Steps
<1>. HIDE DEF g
<1>. DEFINE T == {n \in Nat : n <= Len(s) => f[n] = g[n]}
<1>3. \A i \in 0 .. Len(s) : /\ f[i] = IF i = 0 THEN l ELSE Apply(f[i - 1], s[i])
                             /\ g[i] = IF i = 0 THEN l ELSE Apply(g[i - 1], s[i])
  BY <1>1 DEF Steps
<1>4. 0 \in T
  BY <1>3
<1>5. ASSUME NEW n \in Nat, n \in T PROVE n + 1 \in T
  BY <1>3, <1>5
<1>6. Len(s) \in T
  <2>. HIDE DEF T
  <2>. QED BY <1>4, <1>5, EveryNumber
<1>. QED BY <1>2, <1>6

LEMMA ReplayNothing == ASSUME NEW l PROVE Replay(l, <<>>) = l
<1>1. PICK f : Steps(f, l, <<>>)
  BY StepsExist
<1>2. Len(<<>>) = 0 /\ f[0] = l
  BY <1>1 DEF Steps
<1>. QED
  BY <1>1, <1>2, StepsEnd

LEMMA ReplayFirst ==
    ASSUME NEW S, NEW s \in Seq(S), s # <<>>, NEW l
    PROVE  Replay(l, s) = Replay(Apply(l, Head(s)), Tail(s))
<1>1. /\ Len(s) \in Nat \ {0} /\ Len(Tail(s)) = Len(s) - 1
      /\ \A i \in DOMAIN Tail(s) : Tail(s)[i] = s[i + 1]
      /\ DOMAIN Tail(s) = 1 .. Len(s) - 1 /\ Head(s) = s[1]
  BY Taken
<1>2. PICK f : Steps(f, l, s)
  BY <1>1, StepsExist
<1>. DEFINE n == Len(s) - 1
            m == Apply(l, s[1])
            t == Tail(s)
            g == [i \in 0 .. n |-> f[i + 1]]
<1>3. \A i \in 0 .. Len(s) : f[i] = IF i = 0 THEN l ELSE Apply(f[i - 1], s[i])
  BY <1>2 DEF Steps
<1>4. \A i \in 0 .. n : g[i] = IF i = 0 THEN m ELSE Apply(g[i - 1], t[i])
  <2>1. ASSUME NEW i \in 0 .. n PROVE g[i] = IF i = 0 THEN m ELSE Apply(g[i - 1], t[i])
    <3>1. f[i + 1] = Apply(f[i], s[i + 1])
      BY <1>1, <1>3
    <3>2. CASE i = 0
      BY <1>1, <1>3, <3>1, <3>2
    <3>3. CASE i # 0
      <4>1. i \in DOMAIN Tail(s) /\ i - 1 \in 0 .. n
        BY <1>1, <3>3
      <4>2. t[i] = s[i + 1] /\ g[i - 1] = f[i]
        BY <1>1, <4>1
      <4>. QED
        BY <3>1, <3>3, <4>2
    <3>. QED
      BY <3>2, <3>3
  <2>. QED
    BY <2>1
<1>5. Steps(g, m, t)
  <2>1. g = [i \in 0 .. n |-> IF i = 0 THEN m ELSE Apply(g[i - 1], t[i])]
    BY <1>4
  <2>. HIDE DEF g
  <2>. QED
    BY <1>1, <2>1 DEF Steps
<1>6. Replay(m, t) = g[n]
  <2>. HIDE DEF g, m, t
  <2>1. Len(t) = n /\ n \in Nat
    BY <1>1 DEF t
  <2>. QED
    BY <1>5, <2>1, StepsEnd
<1>7. g[n] = f[Len(s)]
  BY <1>1
<1>8. Replay(l, s) = f[Len(s)]
  BY <1>1, <1>2, StepsEnd
<1>. QED
  BY <1>1, <1>6, <1>7, <1>8

LEMMA ReplayMore ==
    ASSUME NEW S, NEW s \in Seq(S), NEW t \in Seq(S), NEW l
    PROVE  Replay(l, s \o t) = Replay(Replay(l, s), t)
<1>. DEFINE m == Len(s)
            n == Len(t)
            u == s \o t
<1>1. /\ m \in Nat /\ n \in Nat /\ Len(u) = m + n /\ Len(u) \in Nat
      /\ \A i \in 1 .. m : u[i] = s[i]
      /\ \A i \in 1 .. n : u[m + i] = t[i]
  OBVIOUS
<1>2. PICK f : Steps(f, l, u)
  BY <1>1, StepsExist
<1>. HIDE DEF u, m, n
<1>3. \A i \in 0 .. m + n : f[i] = IF i = 0 THEN l ELSE Apply(f[i - 1], u[i])
  BY <1>1, <1>2 DEF Steps
<1>. DEFINE g == [i \in 0 .. m |-> f[i]]
            h == [i \in 0 .. n |-> f[m + i]]
<1>4. Steps(g, l, s)
  <2>1. \A i \in 0 .. m : g[i] = IF i = 0 THEN l ELSE Apply(g[i - 1], s[i])
    <3>1. ASSUME NEW i \in 0 .. m PROVE g[i] = IF i = 0 THEN l ELSE Apply(g[i - 1], s[i])
      <4>1. i \in 0 .. m + n /\ (i # 0 => u[i] = s[i] /\ i - 1 \in 0 .. m)
        BY <1>1
      <4>2. f[i] = IF i = 0 THEN l ELSE Apply(f[i - 1], u[i])
        BY <1>3, <4>1
      <4>. QED
        BY <4>1, <4>2
    <3>. QED
      BY <3>1
  <2>2. g = [i \in 0 .. m |-> IF i = 0 THEN l ELSE Apply(g[i - 1], s[i])]
    BY <2>1
  <2>. HIDE DEF g
  <2>. QED
    BY <2>2 DEF Steps, m
<1>5. Replay(l, s) = f[m]
  <2>1. g[m] = f[m]
    BY <1>1
  <2>. HIDE DEF g
  <2>. QED
    BY <1>1, <1>4, <2>1, StepsEnd DEF m
<1>6. Steps(h, f[m], t)
  <2>1. \A i \in 0 .. n : h[i] = IF i = 0 THEN f[m] ELSE Apply(h[i - 1], t[i])
    <3>1. ASSUME NEW i \in 0 .. n PROVE h[i] = IF i = 0 THEN f[m] ELSE Apply(h[i - 1], t[i])
      <4>1. CASE i = 0
        BY <1>1, <4>1
      <4>2. CASE i # 0
        <5>1. /\ m + i \in 0 .. m + n /\ u[m + i] = t[i] /\ i - 1 \in 0 .. n
              /\ (m + i) - 1 = m + (i - 1) /\ m + i # 0
          BY <1>1, <4>2
        <5>2. f[m + i] = Apply(f[m + (i - 1)], u[m + i])
          BY <1>3, <5>1
        <5>. QED
          BY <4>2, <5>1, <5>2
      <4>. QED
        BY <4>1, <4>2
    <3>. QED
      BY <3>1
  <2>2. h = [i \in 0 .. n |-> IF i = 0 THEN f[m] ELSE Apply(h[i - 1], t[i])]
    BY <2>1
  <2>. HIDE DEF h
  <2>. QED
    BY <2>2 DEF Steps, n
<1>7. Replay(f[m], t) = f[m + n]
  <2>1. h[n] = f[m + n]
    BY <1>1
  <2>. HIDE DEF h
  <2>. QED
    BY <1>1, <1>6, <2>1, StepsEnd DEF n
<1>8. Replay(l, u) = f[m + n]
  BY <1>1, <1>2, StepsEnd
<1>. QED
  BY <1>5, <1>7, <1>8 DEF u

LEMMA ReplayOne == ASSUME NEW S, NEW l, NEW e \in S PROVE Replay(l, <<e>>) = Apply(l, e)
<1>1. <<e>> \in Seq(S) /\ <<e>> # <<>> /\ Head(<<e>>) = e /\ Tail(<<e>>) = <<>>
  OBVIOUS
<1>. QED
  BY <1>1, ReplayFirst, ReplayNothing

-----------------------------------------------------------------------------
IsInserted(S, s, i, x, t) ==
    /\ t \in Seq(S) /\ Len(t) = Len(s) + 1
    /\ \A k \in 1 .. i - 1 : t[k] = s[k]
    /\ t[i] = x
    /\ \A k \in i .. Len(s) : t[k + 1] = s[k]

LEMMA Inserted ==
    ASSUME NEW S, NEW s \in Seq(S), NEW i \in 1 .. Len(s) + 1, NEW x \in S
    PROVE  IsInserted(S, s, i, x, InsertAt(s, i, x))
<1>1. PICK a : a = SubSeq(s, 1, i - 1)
  OBVIOUS
<1>2. PICK b : b = SubSeq(s, i, Len(s))
  OBVIOUS
<1>3. PICK y : y = <<x>>
  OBVIOUS
<1>4. /\ a \in Seq(S) /\ Len(a) = i - 1 /\ Len(s) \in Nat
      /\ \A k \in 1 .. i - 1 : a[k] = s[k]
  BY <1>1
<1>5. /\ b \in Seq(S) /\ Len(b) = Len(s) - i + 1
      /\ \A k \in 1 .. Len(s) - i + 1 : b[k] = s[i + k - 1]
  BY <1>2
<1>6. y \in Seq(S) /\ Len(y) = 1 /\ y[1] = x
  BY <1>3
<1>7. PICK c : c = a \o y
  OBVIOUS
<1>8. /\ c \in Seq(S) /\ Len(c) = i /\ c[i] = x
      /\ \A k \in 1 .. i - 1 : c[k] = s[k]
  <2>1. /\ c \in Seq(S) /\ Len(c) = Len(a) + Len(y)
        /\ \A k \in 1 .. Len(a) : c[k] = a[k]
        /\ \A k \in 1 .. Len(y) : c[Len(a) + k] = y[k]
    <3>1. a \in Seq(S) /\ y \in Seq(S)
      BY <1>4, <1>6
    <3>. QED
      BY ONLY <1>7, <3>1, Concatenated
  <2>2. Len(a) + 1 = i /\ 1 \in 1 .. Len(y)
    BY <1>4, <1>6
  <2>. QED
    BY <1>4, <1>6, <2>1, <2>2
<1>9. PICK d : d = c \o b
  OBVIOUS
<1>10. /\ d \in Seq(S) /\ Len(d) = Len(s) + 1
       /\ \A k \in 1 .. i : d[k] = c[k]
       /\ \A k \in 1 .. Len(s) - i + 1 : d[i + k] = b[k]
  <2>1. /\ d \in Seq(S) /\ Len(d) = Len(c) + Len(b)
        /\ \A k \in 1 .. Len(c) : d[k] = c[k]
        /\ \A k \in 1 .. Len(b) : d[Len(c) + k] = b[k]
    <3>1. c \in Seq(S) /\ b \in Seq(S)
      BY <1>5, <1>8
    <3>. QED
      BY ONLY <1>9, <3>1, Concatenated
  <2>2. i + (Len(s) - i + 1) = Len(s) + 1
    BY <1>4
  <2>. QED
    BY <1>5, <1>8, <2>1, <2>2
<1>11. InsertAt(s, i, x) = d
  BY <1>1, <1>2, <1>3, <1>7, <1>9 DEF InsertAt
<1>12. ASSUME NEW k \in i .. Len(s) PROVE d[k + 1] = s[k]
  <2>1. PICK j : j = k - i + 1
    OBVIOUS
  <2>2. j \in 1 .. Len(s) - i + 1 /\ i + j = k + 1 /\ i + j - 1 = k
    BY <1>4, <2>1
  <2>3. d[i + j] = b[j] /\ b[j] = s[i + j - 1]
    BY <1>5, <1>10, <2>2
  <2>. QED
    BY <2>2, <2>3
<1>. QED
  <2>1. /\ d \in Seq(S) /\ Len(d) = Len(s) + 1
        /\ \A k \in 1 .. i - 1 : d[k] = s[k]
        /\ d[i] = x
        /\ \A k \in i .. Len(s) : d[k + 1] = s[k]
    BY <1>4, <1>8, <1>10, <1>12
  <2>. QED
    BY ONLY <1>11, <2>1 DEF IsInserted

LEMMA TakenOut ==
    ASSUME NEW S, NEW s \in Seq(S), NEW i \in 1 .. Len(s)
    PROVE  /\ RemoveAt(s, i) \in Seq(S) /\ Len(RemoveAt(s, i)) = Len(s) - 1
           /\ \A k \in 1 .. i - 1 : RemoveAt(s, i)[k] = s[k]
           /\ \A k \in i .. Len(s) - 1 : RemoveAt(s, i)[k] = s[k + 1]
<1>1. PICK a : a = SubSeq(s, 1, i - 1)
  OBVIOUS
<1>2. PICK b : b = SubSeq(s, i + 1, Len(s))
  OBVIOUS
<1>3. /\ a \in Seq(S) /\ Len(a) = i - 1 /\ Len(s) \in Nat
      /\ \A k \in 1 .. i - 1 : a[k] = s[k]
  BY <1>1
<1>4. /\ b \in Seq(S) /\ Len(b) = Len(s) - i
      /\ \A k \in 1 .. Len(s) - i : b[k] = s[i + k]
  BY <1>2
<1>5. PICK d : d = a \o b
  OBVIOUS
<1>6. /\ d \in Seq(S) /\ Len(d) = Len(s) - 1
      /\ \A k \in 1 .. i - 1 : d[k] = a[k]
      /\ \A k \in 1 .. Len(s) - i : d[i - 1 + k] = b[k]
  <2>1. a \in Seq(S) /\ b \in Seq(S)
    BY ONLY <1>3, <1>4
  <2>2. /\ d \in Seq(S) /\ Len(d) = Len(a) + Len(b)
        /\ \A k \in 1 .. Len(a) : d[k] = a[k]
        /\ \A k \in 1 .. Len(b) : d[Len(a) + k] = b[k]
    BY ONLY <1>5, <2>1, Concatenated
  <2>3. Len(a) = i - 1 /\ Len(b) = Len(s) - i /\ (i - 1) + (Len(s) - i) = Len(s) - 1
    BY <1>3, <1>4
  <2>. QED
    BY ONLY <2>2, <2>3
<1>7. RemoveAt(s, i) = d
  BY <1>1, <1>2, <1>5 DEF RemoveAt
<1>8. ASSUME NEW k \in i .. Len(s) - 1 PROVE d[k] = s[k + 1]
  <2>1. PICK j : j = k - i + 1
    OBVIOUS
  <2>2. j \in 1 .. Len(s) - i /\ i - 1 + j = k /\ i + j = k + 1
    BY <1>3, <2>1
  <2>3. d[i - 1 + j] = b[j] /\ b[j] = s[i + j]
    BY <1>4, <1>6, <2>2
  <2>. QED
    BY <2>2, <2>3
<1>. QED
  BY <1>3, <1>6, <1>7, <1>8

LEMMA Same ==
    ASSUME NEW S, NEW s \in Seq(S), NEW t \in Seq(S), Len(s) = Len(t),
           \A k \in 1 .. Len(s) : s[k] = t[k]
    PROVE  s = t
OBVIOUS

ListEvents == [op : {"ADD", "UPDATE", "REMOVE"}, index : Nat, value : Values \union {NoValue}]

LEMMA EventIs ==
    ASSUME NEW i \in Nat, NEW v \in Values, NEW l
    PROVE  /\ AddEvent(i, v) \in ListEvents /\ Apply(l, AddEvent(i, v)) = InsertAt(l, i + 1, v)
           /\ UpdateEvent(i, v) \in ListEvents
           /\ Apply(l, UpdateEvent(i, v)) = ReplaceAt(l, i + 1, v)
           /\ RemoveEvent(i) \in ListEvents /\ Apply(l, RemoveEvent(i)) = RemoveAt(l, i + 1)
BY DEF AddEvent, UpdateEvent, RemoveEvent, Apply, ListEvents

LEMMA RemovalIs ==
    ASSUME NEW i \in Nat, NEW l
    PROVE  RemoveEvent(i) \in ListEvents /\ Apply(l, RemoveEvent(i)) = RemoveAt(l, i + 1)
BY DEF RemoveEvent, Apply, ListEvents

\* init sends a list from its front.
LEMMA SentWhole ==
    ASSUME NEW l \in Seq(Values)
    PROVE  LET events == [i \in DOMAIN l |-> AddEvent(i - 1, l[i])] IN
           /\ events \in Seq(ListEvents) /\ Len(events) = Len(l)
           /\ Replay(<<>>, events) = l
<1>. DEFINE n == Len(l)
            s == [i \in DOMAIN l |-> AddEvent(i - 1, l[i])]
            f == [j \in 0 .. n |-> SubSeq(l, 1, j)]
<1>1. n \in Nat /\ DOMAIN l = 1 .. n /\ \A i \in 1 .. n : l[i] \in Values
  OBVIOUS
<1>2. \A i \in 1 .. n : s[i] = AddEvent(i - 1, l[i]) /\ s[i] \in ListEvents
  <2>1. ASSUME NEW i \in 1 .. n PROVE s[i] = AddEvent(i - 1, l[i]) /\ s[i] \in ListEvents
    <3>1. s[i] = AddEvent(i - 1, l[i]) /\ i - 1 \in Nat
      BY <1>1
    <3>. QED
      BY <1>1, <3>1, EventIs
  <2>. QED
    BY <2>1
<1>3. s \in Seq(ListEvents) /\ Len(s) = n
  BY <1>1, <1>2
<1>4. \A j \in 0 .. n : /\ f[j] \in Seq(Values) /\ Len(f[j]) = j
                        /\ \A k \in 1 .. j : f[j][k] = l[k]
  OBVIOUS
<1>5. f[0] = <<>> /\ f[n] = l
  <2>1. 0 \in 0 .. n /\ n \in 0 .. n
    BY <1>1
  <2>. HIDE DEF f
  <2>2. f[n] = l
    BY <1>1, <1>4, <2>1, Same
  <2>3. f[0] = <<>>
    BY <1>4, <2>1
  <2>. QED
    BY <2>2, <2>3
<1>6. \A j \in 0 .. n : f[j] = IF j = 0 THEN <<>> ELSE Apply(f[j - 1], s[j])
  <2>1. ASSUME NEW j \in 1 .. n PROVE f[j] = Apply(f[j - 1], s[j])
    <3>. DEFINE t == InsertAt(f[j - 1], j, l[j])
    <3>. HIDE DEF f, s
    <3>1. j - 1 \in 0 .. n /\ j - 1 \in Nat /\ (j - 1) + 1 = j /\ j \in 0 .. n
      BY <1>1
    <3>2. Apply(f[j - 1], s[j]) = t
      BY <1>1, <1>2, <3>1, EventIs
    <3>3. /\ f[j - 1] \in Seq(Values) /\ Len(f[j - 1]) = j - 1
          /\ \A k \in 1 .. j - 1 : f[j - 1][k] = l[k]
      BY <1>4, <3>1
    <3>4. j \in 1 .. Len(f[j - 1]) + 1
      BY <3>1, <3>3
    <3>5. /\ t \in Seq(Values) /\ Len(t) = j /\ t[j] = l[j]
          /\ \A k \in 1 .. j - 1 : t[k] = f[j - 1][k]
      <4>0. PICK p, x : p = f[j - 1] /\ x = l[j]
        OBVIOUS
      <4>1. p \in Seq(Values) /\ Len(p) = j - 1
        BY <3>3, <4>0
      <4>. p \in Seq(Values) /\ j \in 1 .. Len(p) + 1 /\ x \in Values
        BY <1>1, <3>3, <3>4, <4>0
      <4>2. /\ InsertAt(p, j, x) \in Seq(Values) /\ Len(InsertAt(p, j, x)) = Len(p) + 1
            /\ \A k \in 1 .. j - 1 : InsertAt(p, j, x)[k] = p[k]
            /\ InsertAt(p, j, x)[j] = x
        <5>1. IsInserted(Values, p, j, x, InsertAt(p, j, x))
          BY ONLY p \in Seq(Values), j \in 1 .. Len(p) + 1, x \in Values, Inserted, Zenon
        <5>. QED
          BY ONLY <5>1 DEF IsInserted
      <4>. QED
        BY <3>1, <4>0, <4>1, <4>2
    <3>. HIDE DEF t
    <3>6. \A k \in 1 .. j : t[k] = l[k]
      BY <3>1, <3>3, <3>5, SMTT(20)
    <3>7. /\ f[j] \in Seq(Values) /\ Len(f[j]) = j
          /\ \A k \in 1 .. j : f[j][k] = l[k]
      BY <1>4, <3>1
    <3>8. f[j] = t
      <4>. DEFINE p == f[j]
      <4>. HIDE DEF p
      <4>1. p \in Seq(Values) /\ Len(p) = Len(t) /\ \A k \in 1 .. Len(p) : p[k] = t[k]
        BY <3>5, <3>6, <3>7 DEF p
      <4>. QED
        BY <3>5, <4>1, Same DEF p
    <3>. QED
      BY <3>2, <3>8
  <2>. HIDE DEF f, s
  <2>. QED
    BY <1>1, <1>5, <2>1
<1>7. Steps(f, <<>>, s)
  <2>1. f = [i \in 0 .. n |-> IF i = 0 THEN <<>> ELSE Apply(f[i - 1], s[i])]
    BY <1>6
  <2>. HIDE DEF f, s
  <2>. QED
    BY <1>3, <2>1 DEF Steps
<1>8. Replay(<<>>, s) = l
  <2>. HIDE DEF f, s
  <2>. QED
    BY <1>1, <1>3, <1>5, <1>7, StepsEnd
<1>. QED
  BY <1>3, <1>8

\* clear removes from the back.
LEMMA ClearedReplays ==
    ASSUME NEW l \in Seq(Values)
    PROVE  LET op == Cleared(l) IN
           op.events \in Seq(ListEvents) /\ op.result = <<>> /\ Replay(l, op.events) = <<>>
<1>. DEFINE n == Len(l)
            s == [j \in 1 .. n |-> RemoveEvent(n - j)]
            f == [j \in 0 .. n |-> SubSeq(l, 1, n - j)]
<1>1. n \in Nat
  OBVIOUS
<1>2. \A i \in 1 .. n : s[i] = RemoveEvent(n - i) /\ s[i] \in ListEvents
  <2>1. ASSUME NEW i \in 1 .. n PROVE s[i] = RemoveEvent(n - i) /\ s[i] \in ListEvents
    <3>1. s[i] = RemoveEvent(n - i) /\ n - i \in Nat
      BY <1>1
    <3>. QED
      BY <3>1, RemovalIs
  <2>. QED
    BY <2>1
<1>3. s \in Seq(ListEvents) /\ Len(s) = n
  BY <1>1, <1>2
<1>4. \A j \in 0 .. n : /\ f[j] \in Seq(Values) /\ Len(f[j]) = n - j
                        /\ \A k \in 1 .. n - j : f[j][k] = l[k]
  <2>1. ASSUME NEW j \in 0 .. n
        PROVE  /\ f[j] \in Seq(Values) /\ Len(f[j]) = n - j
               /\ \A k \in 1 .. n - j : f[j][k] = l[k]
    <3>1. PICK m : m = n - j
      OBVIOUS
    <3>2. m \in 0 .. Len(l) /\ f[j] = SubSeq(l, 1, m)
      BY <1>1, <3>1
    <3>3. /\ SubSeq(l, 1, m) \in Seq(Values) /\ Len(SubSeq(l, 1, m)) = m
          /\ \A k \in 1 .. m : SubSeq(l, 1, m)[k] = l[k]
      BY ONLY l \in Seq(Values), <3>2
    <3>. HIDE DEF f
    <3>. QED
      BY ONLY <3>1, <3>2, <3>3
  <2>. QED
    BY ONLY <2>1
<1>5. f[0] = l /\ f[n] = <<>>
  <2>. n = Len(l)
    OBVIOUS
  <2>. HIDE DEF f, s, n
  <2>1. 0 \in 0 .. n /\ n \in 0 .. n /\ n - 0 = n /\ n - n = 0
    BY ONLY <1>1
  <2>2. f[0] = l
    <3>1. /\ f[0] \in Seq(Values) /\ Len(f[0]) = Len(l)
          /\ \A k \in 1 .. Len(l) : f[0][k] = l[k]
      <4>1. PICK j \in 0 .. n : j = 0
        BY ONLY <2>1
      <4>2. n - j = Len(l)
        BY ONLY <4>1, <2>1, n = Len(l)
      <4>3. /\ f[j] \in Seq(Values) /\ Len(f[j]) = n - j
            /\ \A k \in 1 .. n - j : f[j][k] = l[k]
        BY ONLY <1>4, Zenon
      <4>. QED
        BY ONLY <4>1, <4>2, <4>3, Zenon
    <3>. QED
      BY ONLY <3>1, l \in Seq(Values), Same
  <2>3. f[n] = <<>>
    <3>1. f[n] \in Seq(Values) /\ Len(f[n]) = 0
      BY ONLY <1>4, <2>1
    <3>. QED
      BY ONLY <3>1, SequenceIs
  <2>. QED
    BY <2>2, <2>3
<1>6. \A j \in 0 .. n : f[j] = IF j = 0 THEN l ELSE Apply(f[j - 1], s[j])
  <2>1. ASSUME NEW j \in 1 .. n PROVE f[j] = Apply(f[j - 1], s[j])
    <3>. DEFINE i == n - j + 1
                t == RemoveAt(f[j - 1], i)
    <3>. HIDE DEF f, s
    <3>1. j - 1 \in 0 .. n /\ j \in 0 .. n /\ n - j \in Nat /\ n - (j - 1) = i /\ i - 1 = n - j
      BY <1>1
    <3>2. Apply(f[j - 1], s[j]) = t
      <4>1. PICK m, p : m = n - j /\ p = f[j - 1]
        OBVIOUS
      <4>2. m \in Nat /\ s[j] = RemoveEvent(m) /\ i = m + 1
        BY <1>1, <1>2, <3>1, <4>1
      <4>3. Apply(p, RemoveEvent(m)) = RemoveAt(p, m + 1)
        BY ONLY <4>2, RemovalIs
      <4>. QED
        BY ONLY <4>1, <4>2, <4>3 DEF t
    <3>3. /\ f[j - 1] \in Seq(Values) /\ Len(f[j - 1]) = i
          /\ \A k \in 1 .. i : f[j - 1][k] = l[k]
      BY <1>4, <3>1
    <3>4. i \in 1 .. Len(f[j - 1])
      BY <1>1, <3>1, <3>3
    <3>5. /\ t \in Seq(Values) /\ Len(t) = n - j
          /\ \A k \in 1 .. n - j : t[k] = f[j - 1][k]
      <4>. DEFINE p == f[j - 1]
      <4>1. p \in Seq(Values) /\ Len(p) = i /\ i \in 1 .. Len(p)
        BY <3>3, <3>4
      <4>. HIDE DEF p
      <4>2. /\ RemoveAt(p, i) \in Seq(Values) /\ Len(RemoveAt(p, i)) = Len(p) - 1
            /\ \A k \in 1 .. i - 1 : RemoveAt(p, i)[k] = p[k]
        BY <4>1, TakenOut
      <4>. QED
        BY <3>1, <4>1, <4>2 DEF p
    <3>6. \A k \in 1 .. n - j : k \in 1 .. i
      BY <1>1, <3>1
    <3>. HIDE DEF t, i
    <3>7. \A k \in 1 .. n - j : t[k] = l[k]
      BY <3>3, <3>5, <3>6
    <3>8. /\ f[j] \in Seq(Values) /\ Len(f[j]) = n - j
          /\ \A k \in 1 .. n - j : f[j][k] = l[k]
      BY <1>4, <3>1
    <3>9. f[j] = t
      <4>. DEFINE p == f[j]
      <4>. HIDE DEF p
      <4>1. p \in Seq(Values) /\ Len(p) = Len(t) /\ \A k \in 1 .. Len(p) : p[k] = t[k]
        BY <3>5, <3>7, <3>8 DEF p
      <4>. QED
        BY <3>5, <4>1, Same DEF p
    <3>. QED
      BY <3>2, <3>9
  <2>. HIDE DEF f, s
  <2>. QED
    BY <1>1, <1>5, <2>1
<1>7. Steps(f, l, s)
  <2>1. f = [i \in 0 .. n |-> IF i = 0 THEN l ELSE Apply(f[i - 1], s[i])]
    BY <1>6
  <2>. HIDE DEF f, s
  <2>. QED
    BY <1>3, <2>1 DEF Steps
<1>8. Replay(l, s) = <<>>
  <2>. HIDE DEF f, s
  <2>. QED
    BY <1>1, <1>3, <1>5, <1>7, StepsEnd
<1>9. Cleared(l).events = s /\ Cleared(l).result = <<>>
  BY DEF Cleared, Operation
<1>. QED
  BY <1>3, <1>8, <1>9

(***************************************************************************)
(* The events that an operation of ViewableList fires, taken one after     *)
(* another by the other end, make of its list what the operation made of   *)
(* this one, for lists of every length.                                    *)
(***************************************************************************)
THEOREM OperationReplays ==
    ASSUME NEW l \in Seq(Values), NEW op \in Operations(l)
    PROVE  /\ op.events \in Seq(ListEvents) /\ op.result \in Seq(Values)
           /\ Replay(l, op.events) = op.result
<1>. DEFINE Claim == /\ op.events \in Seq(ListEvents) /\ op.result \in Seq(Values)
                     /\ Replay(l, op.events) = op.result
<1>1. ASSUME NEW e \in ListEvents, NEW r \in Seq(Values), Apply(l, e) = r,
             op = Operation(<<e>>, r)
      PROVE  Claim
  <2>1. Replay(l, <<e>>) = Apply(l, e)
    BY ONLY e \in ListEvents, ReplayOne
  <2>2. op.events = <<e>> /\ op.result = r
    BY <1>1 DEF Operation
  <2>3. <<e>> \in Seq(ListEvents)
    OBVIOUS
  <2>. QED
    BY ONLY <1>1, r \in Seq(Values), <2>1, <2>2, <2>3
<1>2. \A i \in Indexes(l) : i \in Nat /\ i + 1 \in 1 .. Len(l)
  BY DEF Indexes
<1>3. ASSUME NEW i \in 0 .. Len(l), NEW v \in Values, op = Add(l, i, v)
      PROVE  Claim
  <2>. i \in Nat /\ i + 1 \in 1 .. Len(l) + 1
    OBVIOUS
  <2>1. InsertAt(l, i + 1, v) \in Seq(Values)
    <3>1. IsInserted(Values, l, i + 1, v, InsertAt(l, i + 1, v))
      BY ONLY l \in Seq(Values), i + 1 \in 1 .. Len(l) + 1, v \in Values, Inserted, Zenon
    <3>. QED
      BY ONLY <3>1 DEF IsInserted
  <2>2. /\ AddEvent(i, v) \in ListEvents
        /\ Apply(l, AddEvent(i, v)) = InsertAt(l, i + 1, v)
    BY EventIs
  <2>. HIDE DEF Claim
  <2>. QED
    BY <1>1, <1>3, <2>1, <2>2 DEF Add
<1>4. ASSUME NEW i \in Indexes(l), NEW v \in Values, op = SetTo(l, i, v)
      PROVE  Claim
  <2>. i \in Nat /\ i + 1 \in 1 .. Len(l)
    BY <1>2
  <2>1. ReplaceAt(l, i + 1, v) \in Seq(Values)
    BY DEF ReplaceAt
  <2>2. /\ UpdateEvent(i, v) \in ListEvents
        /\ Apply(l, UpdateEvent(i, v)) = ReplaceAt(l, i + 1, v)
    BY EventIs
  <2>. HIDE DEF Claim
  <2>. QED
    BY <1>1, <1>4, <2>1, <2>2 DEF SetTo
<1>5. ASSUME NEW i \in Indexes(l), op = RemovedAt(l, i)
      PROVE  Claim
  <2>. i \in Nat /\ i + 1 \in 1 .. Len(l)
    BY <1>2
  <2>1. RemoveAt(l, i + 1) \in Seq(Values)
    BY ONLY l \in Seq(Values), i + 1 \in 1 .. Len(l), TakenOut
  <2>2. RemoveEvent(i) \in ListEvents /\ Apply(l, RemoveEvent(i)) = RemoveAt(l, i + 1)
    BY RemovalIs
  <2>. HIDE DEF Claim
  <2>. QED
    BY <1>1, <1>5, <2>1, <2>2 DEF RemovedAt
<1>6. ASSUME NEW i \in 0 .. Len(l), NEW v \in Values, NEW w \in Values,
             op = AddAll(l, i, v, w)
      PROVE  Claim
  <2>. i \in Nat /\ i + 1 \in 1 .. Len(l) + 1 /\ i + 1 \in Nat
    OBVIOUS
  <2>1. PICK a, b, c, d : /\ a = AddEvent(i, v) /\ b = AddEvent(i + 1, w)
                          /\ c = InsertAt(l, i + 1, v) /\ d = InsertAt(c, i + 2, w)
    OBVIOUS
  <2>2. a \in ListEvents /\ b \in ListEvents /\ Apply(l, a) = c /\ Apply(c, b) = d
    <3>1. (i + 1) + 1 = i + 2
      OBVIOUS
    <3>. QED
      BY <2>1, <3>1, EventIs
  <2>3. /\ c \in Seq(Values) /\ Len(c) = Len(l) + 1
        /\ \A k \in 1 .. (i + 1) - 1 : c[k] = l[k]
        /\ c[i + 1] = v
        /\ \A k \in i + 1 .. Len(l) : c[k + 1] = l[k]
    <3>1. c = InsertAt(l, i + 1, v)
      BY <2>1
    <3>2. IsInserted(Values, l, i + 1, v, InsertAt(l, i + 1, v))
      BY ONLY l \in Seq(Values), i + 1 \in 1 .. Len(l) + 1, v \in Values, Inserted, Zenon
    <3>. QED
      BY ONLY <3>1, <3>2 DEF IsInserted
  <2>. c \in Seq(Values) /\ i + 2 \in 1 .. Len(c) + 1
    BY <2>3
  <2>4. /\ d \in Seq(Values) /\ Len(d) = Len(c) + 1
        /\ \A k \in 1 .. (i + 2) - 1 : d[k] = c[k]
        /\ d[i + 2] = w
        /\ \A k \in i + 2 .. Len(c) : d[k + 1] = c[k]
    <3>1. IsInserted(Values, c, i + 2, w, InsertAt(c, i + 2, w))
      BY ONLY c \in Seq(Values), i + 2 \in 1 .. Len(c) + 1, w \in Values, Inserted, Zenon
    <3>. QED
      BY ONLY <2>1, <3>1 DEF IsInserted
  <2>5. d = SubSeq(l, 1, i) \o <<v, w>> \o SubSeq(l, i + 1, Len(l))
    <3>1. PICK p, q, z : /\ p = SubSeq(l, 1, i) \o <<v, w>> /\ q = SubSeq(l, i + 1, Len(l))
                         /\ z = p \o q
      OBVIOUS
    <3>2. /\ p \in Seq(Values) /\ Len(p) = i + 2 /\ p[i + 1] = v /\ p[i + 2] = w
          /\ \A k \in 1 .. i : p[k] = l[k]
      <4>1. PICK m, o : m = SubSeq(l, 1, i) /\ o = <<v, w>>
        OBVIOUS
      <4>2. /\ m \in Seq(Values) /\ Len(m) = i /\ \A k \in 1 .. i : m[k] = l[k]
            /\ o \in Seq(Values) /\ Len(o) = 2 /\ o[1] = v /\ o[2] = w
        BY <4>1
      <4>. m \in Seq(Values) /\ o \in Seq(Values)
        BY <4>2
      <4>3. /\ m \o o \in Seq(Values) /\ Len(m \o o) = Len(m) + Len(o)
            /\ \A k \in 1 .. Len(m) : (m \o o)[k] = m[k]
            /\ \A k \in 1 .. Len(o) : (m \o o)[Len(m) + k] = o[k]
        BY ONLY m \in Seq(Values), o \in Seq(Values), Concatenated
      <4>. QED
        BY ONLY <3>1, <4>1, <4>2, <4>3, i \in Nat
    <3>3. /\ q \in Seq(Values) /\ Len(q) = Len(l) - i
          /\ \A k \in 1 .. Len(l) - i : q[k] = l[i + k]
      BY <3>1
    <3>. p \in Seq(Values) /\ q \in Seq(Values)
      BY <3>2, <3>3
    <3>4. /\ z \in Seq(Values) /\ Len(z) = Len(p) + Len(q)
          /\ \A k \in 1 .. Len(p) : z[k] = p[k]
          /\ \A k \in 1 .. Len(q) : z[Len(p) + k] = q[k]
      <4>1. /\ p \o q \in Seq(Values) /\ Len(p \o q) = Len(p) + Len(q)
            /\ \A k \in 1 .. Len(p) : (p \o q)[k] = p[k]
            /\ \A k \in 1 .. Len(q) : (p \o q)[Len(p) + k] = q[k]
        BY ONLY p \in Seq(Values), q \in Seq(Values), Concatenated
      <4>. QED
        BY ONLY <3>1, <4>1
    <3>5. Len(l) \in Nat /\ Len(z) = Len(l) + 2 /\ Len(d) = Len(l) + 2
      BY <2>3, <2>4, <3>2, <3>3, <3>4
    <3>6. ASSUME NEW k \in 1 .. Len(l) + 2 PROVE z[k] = d[k]
      <4>1. CASE k <= i + 2
        <5>1. k \in 1 .. i \/ k = i + 1 \/ k = i + 2
          BY <4>1
        <5>2. k \in 1 .. Len(p)
          BY <3>2, <4>1
        <5>. QED
          BY <2>3, <2>4, <3>2, <3>4, <5>1, <5>2
      <4>2. CASE k > i + 2
        <5>1. PICK j, m : j = k - (i + 2) /\ m = k - 2
          OBVIOUS
        <5>2. /\ j \in 1 .. Len(l) - i /\ i + 2 + j = k /\ i + j = m
              /\ m \in i + 1 .. Len(l) /\ m + 1 \in i + 2 .. Len(c) /\ (m + 1) + 1 = k
          BY <2>3, <3>5, <4>2, <5>1
        <5>3. z[k] = l[m]
          <6>1. j \in 1 .. Len(q) /\ Len(p) + j = k
            BY ONLY <3>2, <3>3, <5>2, i \in Nat
          <6>2. z[Len(p) + j] = q[j] /\ q[j] = l[i + j]
            BY ONLY <3>3, <3>4, <5>2, <6>1
          <6>. QED
            BY ONLY <5>2, <6>1, <6>2
        <5>4. d[k] = l[m]
          BY <2>3, <2>4, <5>2
        <5>. QED
          BY <5>3, <5>4
      <4>. QED
        BY <3>5, <4>1, <4>2
    <3>7. z = d
      <4>1. z \in Seq(Values) /\ d \in Seq(Values) /\ Len(z) = Len(d)
            /\ \A k \in 1 .. Len(z) : z[k] = d[k]
        BY <2>4, <3>4, <3>5, <3>6
      <4>. QED
        BY ONLY <4>1, Same
    <3>. QED
      BY <3>1, <3>7
  <2>6. Replay(l, <<a, b>>) = d
    <3>1. PICK s : s = <<a, b>>
      OBVIOUS
    <3>2. s \in Seq(ListEvents) /\ s # <<>> /\ Head(s) = a /\ Tail(s) = <<b>>
      BY <2>2, <3>1
    <3>3. Replay(l, s) = Replay(Apply(l, a), <<b>>)
      BY <3>2, ReplayFirst
    <3>4. Replay(c, <<b>>) = Apply(c, b)
      BY <2>2, ReplayOne
    <3>. QED
      BY <2>2, <3>1, <3>3, <3>4
  <2>7. op.events = <<a, b>> /\ op.result = d
    BY <1>6, <2>1, <2>5 DEF AddAll, Operation
  <2>. QED
    BY <2>2, <2>4, <2>6, <2>7
<1>7. ASSUME NEW v \in Range(l),
             op = RemovedAt(l, First(l, v))
      PROVE  Claim
  <2>1. First(l, v) \in Indexes(l)
    <3>1. PICK k \in 1 .. Len(l) : l[k] = v
      BY DEF Range
    <3>2. \E i \in Indexes(l) : l[i + 1] = v /\ \A j \in 0 .. i - 1 : l[j + 1] # v
      <4>1. SUFFICES ASSUME \A i \in Indexes(l) : l[i + 1] = v =>
                               \E j \in 0 .. i - 1 : l[j + 1] = v
                     PROVE  FALSE
        OBVIOUS
      <4>. DEFINE U == {i \in Nat : \A j \in 0 .. i : j < Len(l) => l[j + 1] # v}
      <4>2. 0 \in U
        BY <4>1 DEF Indexes
      <4>3. ASSUME NEW i \in Nat, i \in U PROVE i + 1 \in U
        <5>1. ASSUME NEW j \in 0 .. i + 1, j < Len(l), l[j + 1] = v PROVE FALSE
          <6>1. j \in Indexes(l)
            BY <5>1 DEF Indexes
          <6>2. PICK m \in 0 .. j - 1 : l[m + 1] = v
            BY <4>1, <5>1, <6>1
          <6>3. m \in 0 .. i /\ m < Len(l)
            BY <5>1, <6>2
          <6>. QED
            BY <4>3, <6>2, <6>3
        <5>. QED
          BY <5>1
      <4>4. k - 1 \in U
        <5>. HIDE DEF U
        <5>1. k - 1 \in Nat
          BY <3>1
        <5>. QED
          BY <4>2, <4>3, <5>1, EveryNumber
      <4>5. k - 1 \in 0 .. k - 1 /\ k - 1 < Len(l) /\ (k - 1) + 1 = k
        BY <3>1
      <4>. QED
        BY <3>1, <4>4, <4>5
    <3>. QED
      BY <3>2 DEF First
  <2>. HIDE DEF Claim
  <2>. QED
    BY <1>5, <1>7, <2>1
<1>8. ASSUME op = Cleared(l) PROVE Claim
  <2>1. <<>> \in Seq(Values)
    OBVIOUS
  <2>. QED
    BY <1>8, <2>1, ClearedReplays
<1>. HIDE DEF Claim
<1>9. \/ \E i \in 0 .. Len(l), v \in Values : op = Add(l, i, v)
      \/ \E i \in 0 .. Len(l), v, w \in Values : op = AddAll(l, i, v, w)
      \/ \E i \in Indexes(l), v \in Values : op = SetTo(l, i, v)
      \/ \E i \in Indexes(l) : op = RemovedAt(l, i)
      \/ \E v \in Range(l) : op = RemovedAt(l, First(l, v))
      \/ op = Cleared(l)
  BY DEF Operations
<1>10. Claim
  <2>1. CASE \E i \in 0 .. Len(l), v \in Values : op = Add(l, i, v)
    BY ONLY <1>3, <2>1
  <2>2. CASE \E i \in 0 .. Len(l), v, w \in Values : op = AddAll(l, i, v, w)
    BY ONLY <1>6, <2>2
  <2>3. CASE \E i \in Indexes(l), v \in Values : op = SetTo(l, i, v)
    BY ONLY <1>4, <2>3
  <2>4. CASE \E i \in Indexes(l) : op = RemovedAt(l, i)
    BY ONLY <1>5, <2>4
  <2>5. CASE \E v \in Range(l) : op = RemovedAt(l, First(l, v))
    BY ONLY <1>7, <2>5
  <2>6. CASE op = Cleared(l)
    BY ONLY <1>8, <2>6
  <2>. QED
    BY ONLY <1>9, <2>1, <2>2, <2>3, <2>4, <2>5, <2>6
<1>. QED
  BY <1>10 DEF Claim

-----------------------------------------------------------------------------
ListMessages == [version : Nat \ {0}, event : ListEvents]

(***************************************************************************)
(* As long as no change crosses another, changes go one way at a time,     *)
(* with consecutive versions that start at the receiver's, and what is     *)
(* under way makes of the receiver's list the sender's.  An end that is    *)
(* not bound has sent nothing, and is careful to bind empty or untold.     *)
(***************************************************************************)
EventsOf(w) == [i \in DOMAIN w |-> w[i].event]

\* Of an end that is bound if b, whose list is l, with version n and w under
\* way to it; c, x, m and k are those of the other end.
Half(b, c, w, x, l, m, n, k) ==
    /\ w = <<>> \/ ~b => l \in Seq(Values)
    /\ w # <<>> => c /\ x = <<>>
    /\ \A i \in 1 .. Len(w) : w[i].version = n + i - 1
    /\ n + Len(w) = k + Len(x)
    /\ c /\ x = <<>> => Replay(IF b THEN l ELSE <<>>, EventsOf(w)) = m

Meeting(b, c, w, x, l, m, n, k) ==
    Half(b, c, w, x, l, m, n, k) /\ Half(c, b, x, w, m, l, k, n)

ListTypes ==
    /\ wire \in [Ends -> Seq(ListMessages)]
    /\ bound \in [Ends -> BOOLEAN]
    /\ list = [e \in Ends |-> list[e]]
    /\ list_version \in [Ends -> Nat \ {0}]

EndsMeet(e) ==
    Meeting(bound[e], bound[Other(e)], wire[e], wire[Other(e)],
            list[e], list[Other(e)], list_version[e], list_version[Other(e)])

ListInv ==
    /\ careful \in BOOLEAN
    /\ careful => ListTypes /\ ~conflict /\ \A e \in Ends : EndsMeet(e)

LEMMA NumberedIs ==
    ASSUME NEW es \in Seq(ListEvents), NEW n \in Nat \ {0}
    PROVE  /\ Numbered(es, n) \in Seq(ListMessages) /\ Len(Numbered(es, n)) = Len(es)
           /\ \A i \in 1 .. Len(es) : /\ Numbered(es, n)[i].version = n + i - 1
                                      /\ Numbered(es, n)[i].event = es[i]
<1>1. Len(es) \in Nat /\ DOMAIN es = 1 .. Len(es)
  OBVIOUS
<1>2. ASSUME NEW i \in 1 .. Len(es)
      PROVE  [version |-> n + i - 1, event |-> es[i]] \in ListMessages
  <2>1. n + i - 1 \in Nat \ {0} /\ es[i] \in ListEvents
    BY <1>1
  <2>. QED
    BY <2>1 DEF ListMessages
<1>. QED
  BY <1>1, <1>2 DEF Numbered

LEMMA EventsOfIs ==
    ASSUME NEW w \in Seq(ListMessages)
    PROVE  /\ EventsOf(w) \in Seq(ListEvents) /\ Len(EventsOf(w)) = Len(w)
           /\ \A i \in 1 .. Len(w) : EventsOf(w)[i] = w[i].event
<1>1. Len(w) \in Nat /\ DOMAIN w = 1 .. Len(w)
  OBVIOUS
<1>2. \A i \in 1 .. Len(w) : w[i].event \in ListEvents
  <2>1. \A m \in ListMessages : m.event \in ListEvents
    BY DEF ListMessages
  <2>2. \A i \in 1 .. Len(w) : w[i] \in ListMessages
    OBVIOUS
  <2>. QED
    BY <2>1, <2>2
<1>. QED
  BY <1>1, <1>2 DEF EventsOf

LEMMA EventsOfMore ==
    ASSUME NEW w \in Seq(ListMessages), NEW es \in Seq(ListEvents), NEW n \in Nat \ {0}
    PROVE  EventsOf(w \o Numbered(es, n)) = EventsOf(w) \o es
<1>1. PICK t, u, v, f : /\ t = Numbered(es, n) /\ u = w \o t /\ f = EventsOf(w)
                        /\ v = f \o es
  OBVIOUS
<1>2. /\ t \in Seq(ListMessages) /\ Len(t) = Len(es)
      /\ \A i \in 1 .. Len(es) : t[i].event = es[i]
  BY <1>1, NumberedIs
<1>3. /\ f \in Seq(ListEvents) /\ Len(f) = Len(w)
      /\ \A i \in 1 .. Len(w) : f[i] = w[i].event
  BY <1>1, EventsOfIs
<1>. t \in Seq(ListMessages) /\ f \in Seq(ListEvents)
  BY <1>2, <1>3
<1>4. /\ w \o t \in Seq(ListMessages) /\ Len(w \o t) = Len(w) + Len(t)
      /\ \A i \in 1 .. Len(w) : (w \o t)[i] = w[i]
      /\ \A i \in 1 .. Len(t) : (w \o t)[Len(w) + i] = t[i]
      /\ Len(w) \in Nat /\ Len(t) \in Nat
  BY ONLY w \in Seq(ListMessages), t \in Seq(ListMessages), Concatenated
<1>5. /\ f \o es \in Seq(ListEvents) /\ Len(f \o es) = Len(f) + Len(es)
      /\ \A i \in 1 .. Len(f) : (f \o es)[i] = f[i]
      /\ \A i \in 1 .. Len(es) : (f \o es)[Len(f) + i] = es[i]
  BY ONLY f \in Seq(ListEvents), es \in Seq(ListEvents), Concatenated
<1>6. PICK g : g = EventsOf(u)
  OBVIOUS
<1>. u \in Seq(ListMessages)
  BY <1>1, <1>4
<1>7. /\ g \in Seq(ListEvents) /\ Len(g) = Len(u)
      /\ \A i \in 1 .. Len(u) : g[i] = u[i].event
  BY <1>6, EventsOfIs
<1>8. v \in Seq(ListEvents) /\ Len(g) = Len(v) /\ Len(v) = Len(w) + Len(t)
  BY ONLY <1>1, <1>2, <1>3, <1>4, <1>5, <1>7
<1>9. ASSUME NEW i \in 1 .. Len(g) PROVE g[i] = v[i]
  <2>1. CASE i \in 1 .. Len(w)
    <3>1. (w \o t)[i] = w[i]
      BY ONLY <1>4, <2>1
    <3>2. i \in 1 .. Len(f) /\ f[i] = w[i].event
      BY ONLY <1>3, <2>1
    <3>3. (f \o es)[i] = f[i]
      BY ONLY <1>5, <3>2
    <3>4. i \in 1 .. Len(u) /\ g[i] = u[i].event
      BY ONLY <1>7, i \in 1 .. Len(g)
    <3>5. u[i] = w[i] /\ v[i] = w[i].event
      BY ONLY <1>1, <3>1, <3>2, <3>3
    <3>. QED
      BY ONLY <3>4, <3>5
  <2>2. CASE i \notin 1 .. Len(w)
    <3>1. PICK j : j = i - Len(w)
      OBVIOUS
    <3>2. j \in 1 .. Len(t) /\ i = Len(w) + j
      BY ONLY <1>4, <1>8, <2>2, <3>1, i \in 1 .. Len(g)
    <3>3. u[i] = t[j] /\ v[i] = es[j]
      BY ONLY <1>1, <1>2, <1>3, <1>4, <1>5, <3>2
    <3>4. g[i] = u[i].event /\ t[j].event = es[j]
      BY ONLY <1>2, <1>7, <3>2, i \in 1 .. Len(g)
    <3>. QED
      BY <3>3, <3>4
  <2>. QED
    BY <2>1, <2>2
<1>10. g = v
  <2>. g \in Seq(ListEvents) /\ v \in Seq(ListEvents)
    BY <1>7, <1>8
  <2>. QED
    BY ONLY g \in Seq(ListEvents), v \in Seq(ListEvents), <1>8, <1>9, Same
<1>. QED
  BY <1>1, <1>6, <1>10

LEMMA EventsOfRest ==
    ASSUME NEW w \in Seq(ListMessages), w # <<>>
    PROVE  /\ EventsOf(w) # <<>> /\ Head(EventsOf(w)) = Head(w).event
           /\ Tail(EventsOf(w)) = EventsOf(Tail(w))
<1>1. PICK t, f, g : t = Tail(w) /\ f = EventsOf(w) /\ g = EventsOf(t)
  OBVIOUS
<1>2. /\ Head(w) \in ListMessages /\ Tail(w) \in Seq(ListMessages)
      /\ Len(w) \in Nat \ {0} /\ Len(Tail(w)) = Len(w) - 1
      /\ DOMAIN Tail(w) = 1 .. Len(w) - 1 /\ Head(w) = w[1]
      /\ \A i \in DOMAIN Tail(w) : Tail(w)[i] = w[i + 1]
  BY ONLY w \in Seq(ListMessages), w # <<>>, Taken
<1>. t \in Seq(ListMessages)
  BY <1>1, <1>2
<1>3. /\ f \in Seq(ListEvents) /\ Len(f) = Len(w)
      /\ \A i \in 1 .. Len(w) : f[i] = w[i].event
  BY <1>1, EventsOfIs
<1>4. /\ g \in Seq(ListEvents) /\ Len(g) = Len(t)
      /\ \A i \in 1 .. Len(t) : g[i] = t[i].event
  BY <1>1, EventsOfIs
<1>. f \in Seq(ListEvents) /\ f # <<>>
  BY <1>2, <1>3
<1>5. /\ Tail(f) \in Seq(ListEvents) /\ Len(Tail(f)) = Len(f) - 1 /\ Head(f) = f[1]
      /\ DOMAIN Tail(f) = 1 .. Len(f) - 1
      /\ \A i \in DOMAIN Tail(f) : Tail(f)[i] = f[i + 1]
  BY ONLY f \in Seq(ListEvents), f # <<>>, Taken
<1>6. PICK h : h = Tail(f)
  OBVIOUS
<1>7. \A i \in 1 .. Len(h) : h[i] = g[i]
  BY ONLY <1>1, <1>2, <1>3, <1>4, <1>5, <1>6
<1>8. h = g
  <2>. h \in Seq(ListEvents) /\ g \in Seq(ListEvents)
    BY <1>4, <1>5, <1>6
  <2>1. Len(h) = Len(g)
    BY ONLY <1>1, <1>2, <1>3, <1>4, <1>5, <1>6
  <2>. QED
    BY ONLY h \in Seq(ListEvents), g \in Seq(ListEvents), <1>7, <2>1, Same
<1>9. f[1] = w[1].event
  BY ONLY <1>2, <1>3
<1>. QED
  BY <1>1, <1>2, <1>5, <1>6, <1>8, <1>9

LEMMA NothingUnderWay ==
    /\ EventsOf(<<>>) = <<>> /\ Len(<<>>) = 0
    /\ \A n : Numbered(<<>>, n) = <<>>
BY DEF EventsOf, Numbered

LEMMA MeetingTurns ==
    ASSUME NEW b, NEW c, NEW w, NEW x, NEW l, NEW m, NEW n, NEW k
    PROVE  Meeting(b, c, w, x, l, m, n, k) <=> Meeting(c, b, x, w, m, l, k, n)
BY DEF Meeting

\* A bound end with nothing under way to it sends what it did to its list.
LEMMA MeetingSends ==
    ASSUME NEW c \in BOOLEAN, NEW x \in Seq(ListMessages), NEW l, NEW m,
           NEW n \in Nat \ {0}, NEW k \in Nat \ {0},
           Meeting(TRUE, c, <<>>, x, l, m, n, k),
           NEW es \in Seq(ListEvents), NEW r \in Seq(Values), Replay(l, es) = r
    PROVE  Meeting(TRUE, c, <<>>, x \o Numbered(es, n), r, m, n + Len(es), k)
<1>1. PICK t, y, f : t = Numbered(es, n) /\ y = x \o t /\ f = EventsOf(x)
  OBVIOUS
<1>2. /\ t \in Seq(ListMessages) /\ Len(t) = Len(es)
      /\ \A i \in 1 .. Len(es) : t[i].version = n + i - 1
  BY <1>1, NumberedIs
<1>. t \in Seq(ListMessages)
  BY <1>2
<1>3. /\ x \o t \in Seq(ListMessages) /\ Len(x \o t) = Len(x) + Len(t)
      /\ \A i \in 1 .. Len(x) : (x \o t)[i] = x[i]
      /\ \A i \in 1 .. Len(t) : (x \o t)[Len(x) + i] = t[i]
      /\ Len(x) \in Nat /\ Len(t) \in Nat
  BY ONLY x \in Seq(ListMessages), t \in Seq(ListMessages), Concatenated
<1>4. /\ l \in Seq(Values) /\ n + 0 = k + Len(x)
      /\ c /\ x = <<>> => Replay(l, <<>>) = m
  BY NothingUnderWay DEF Meeting, Half
<1>5. /\ x = <<>> \/ ~c => m \in Seq(Values)
      /\ \A i \in 1 .. Len(x) : x[i].version = k + i - 1
      /\ Replay(IF c THEN m ELSE <<>>, f) = l
  BY <1>1 DEF Meeting, Half
<1>6. y = <<>> => x = <<>> /\ es = <<>>
  <2>. y \in Seq(ListMessages)
    BY <1>1, <1>3
  <2>1. y = <<>> => Len(x) = 0 /\ Len(es) = 0
    BY ONLY <1>1, <1>2, <1>3
  <2>. QED
    BY <2>1, SequenceIs
<1>7. Half(TRUE, c, <<>>, y, r, m, n + Len(es), k)
  <2>1. n + Len(es) + 0 = k + Len(y)
    BY ONLY <1>1, <1>2, <1>3, <1>4, n \in Nat \ {0}, k \in Nat \ {0}
  <2>2. c /\ y = <<>> => Replay(r, <<>>) = m
    BY <1>4, <1>6, ReplayNothing
  <2>. QED
    BY <2>1, <2>2, NothingUnderWay DEF Half
<1>8. Half(c, TRUE, y, <<>>, m, r, k, n + Len(es))
  <2>1. y = <<>> \/ ~c => m \in Seq(Values)
    BY <1>5, <1>6
  <2>2. ASSUME NEW i \in 1 .. Len(y) PROVE y[i].version = k + i - 1
    <3>1. CASE i \in 1 .. Len(x)
      BY <1>1, <1>3, <1>5, <3>1
    <3>2. CASE i \notin 1 .. Len(x)
      <4>1. PICK j : j = i - Len(x)
        OBVIOUS
      <4>2. j \in 1 .. Len(t) /\ i = Len(x) + j
        BY ONLY <1>1, <1>3, <3>2, <4>1, i \in 1 .. Len(y)
      <4>3. y[i] = t[j] /\ t[j].version = n + j - 1
        BY ONLY <1>1, <1>2, <1>3, <4>2
      <4>4. n + j - 1 = k + i - 1
        BY ONLY <1>3, <1>4, <4>2, n \in Nat \ {0}, k \in Nat \ {0}
      <4>. QED
        BY <4>3, <4>4
    <3>. QED
      BY <3>1, <3>2
  <2>3. k + Len(y) = n + Len(es) + 0
    BY ONLY <1>1, <1>2, <1>3, <1>4, n \in Nat \ {0}, k \in Nat \ {0}
  <2>4. Replay(IF c THEN m ELSE <<>>, EventsOf(y)) = r
    <3>1. EventsOf(y) = f \o es
      BY <1>1, EventsOfMore
    <3>. f \in Seq(ListEvents)
      BY <1>1, EventsOfIs
    <3>2. PICK b : b = IF c THEN m ELSE <<>>
      OBVIOUS
    <3>3. Replay(b, f \o es) = Replay(Replay(b, f), es)
      BY ONLY f \in Seq(ListEvents), es \in Seq(ListEvents), ReplayMore
    <3>. QED
      BY <1>5, <3>1, <3>2, <3>3
  <2>. QED
    BY <2>1, <2>2, <2>3, <2>4, NothingUnderWay DEF Half
<1>. QED
  BY <1>1, <1>7, <1>8 DEF Meeting

\* An end that is not bound has sent nothing, and its list is its own.
LEMMA MeetingAlone ==
    ASSUME NEW c \in BOOLEAN, NEW x \in Seq(ListMessages), NEW l, NEW m,
           NEW n \in Nat \ {0}, NEW k \in Nat \ {0},
           Meeting(FALSE, c, <<>>, x, l, m, n, k), NEW r \in Seq(Values)
    PROVE  Meeting(FALSE, c, <<>>, x, r, m, n, k)
BY DEF Meeting, Half

LEMMA MeetingBinds ==
    ASSUME NEW c \in BOOLEAN, NEW w \in Seq(ListMessages), NEW x \in Seq(ListMessages),
           NEW m, NEW n \in Nat \ {0}, NEW k \in Nat \ {0},
           Meeting(FALSE, c, w, x, <<>>, m, n, k)
    PROVE  x = <<>> /\ Meeting(TRUE, c, w, x, <<>>, m, n, k)
<1>1. /\ x = <<>> /\ \A i \in 1 .. Len(w) : w[i].version = n + i - 1
      /\ w # <<>> => c
      /\ n + Len(w) = k + Len(x) /\ k + Len(x) = n + Len(w)
      /\ c => Replay(<<>>, EventsOf(w)) = m
      /\ m \in Seq(Values)
  BY DEF Meeting, Half
<1>2. w = <<>> => Replay(IF c THEN m ELSE <<>>, <<>>) = <<>>
  <2>1. c /\ w = <<>> => m = <<>>
    BY <1>1, NothingUnderWay, ReplayNothing
  <2>. QED
    BY <2>1, ReplayNothing
<1>3. Half(TRUE, c, w, x, <<>>, m, n, k)
  <2>1. <<>> \in Seq(Values)
    OBVIOUS
  <2>. QED
    BY <1>1, <2>1 DEF Half
<1>4. Half(c, TRUE, x, w, m, <<>>, k, n)
  <2>1. \A i \in 1 .. Len(x) : x[i].version = k + i - 1
    BY DEF Meeting, Half
  <2>. QED
    BY <1>1, <1>2, <2>1, NothingUnderWay DEF Half
<1>. QED
  BY <1>1, <1>3, <1>4 DEF Meeting

\* A bound end takes what is under way to it, which carries its version.
LEMMA MeetingReceives ==
    ASSUME NEW c \in BOOLEAN, NEW w \in Seq(ListMessages), NEW x \in Seq(ListMessages),
           NEW l, NEW m, NEW n \in Nat \ {0}, NEW k \in Nat \ {0},
           Meeting(TRUE, c, w, x, l, m, n, k), w # <<>>
    PROVE  /\ Head(w).version = n
           /\ Meeting(TRUE, c, Tail(w), x, Apply(l, Head(w).event), m, n + 1, k)
<1>1. PICK t, r : t = Tail(w) /\ r = Apply(l, Head(w).event)
  OBVIOUS
<1>2. /\ Tail(w) \in Seq(ListMessages) /\ Head(w) = w[1]
      /\ Len(w) \in Nat \ {0} /\ Len(Tail(w)) = Len(w) - 1
      /\ DOMAIN Tail(w) = 1 .. Len(w) - 1
      /\ \A i \in DOMAIN Tail(w) : Tail(w)[i] = w[i + 1]
  BY ONLY w \in Seq(ListMessages), w # <<>>, Taken
<1>3. /\ c = TRUE /\ x = <<>> /\ n + Len(w) = k + Len(x) /\ m \in Seq(Values)
      /\ Replay(l, EventsOf(w)) = m
  BY DEF Meeting, Half
<1>4. \A i \in 1 .. Len(w) : w[i].version = n + i - 1
  BY DEF Meeting, Half
<1>5. Head(w).version = n
  BY ONLY <1>2, <1>4, n \in Nat \ {0}
<1>6. Replay(r, EventsOf(t)) = m
  <2>. EventsOf(w) \in Seq(ListEvents) /\ EventsOf(w) # <<>>
    BY EventsOfIs, EventsOfRest
  <2>1. Replay(l, EventsOf(w)) = Replay(Apply(l, Head(EventsOf(w))), Tail(EventsOf(w)))
    BY ONLY EventsOf(w) \in Seq(ListEvents), EventsOf(w) # <<>>, ReplayFirst
  <2>2. Head(EventsOf(w)) = Head(w).event /\ Tail(EventsOf(w)) = EventsOf(Tail(w))
    BY EventsOfRest
  <2>. QED
    BY <1>1, <1>3, <2>1, <2>2
<1>7. t = <<>> => r = m
  BY <1>6, NothingUnderWay, ReplayNothing
<1>8. n + 1 + Len(t) = k + 0
  BY ONLY <1>1, <1>2, <1>3, NothingUnderWay, n \in Nat \ {0}, k \in Nat \ {0}
<1>9. \A i \in 1 .. Len(t) : t[i].version = n + 1 + i - 1
  <2>1. ASSUME NEW i \in 1 .. Len(t) PROVE t[i].version = n + 1 + i - 1
    <3>1. PICK j : j = i + 1
      OBVIOUS
    <3>2. j \in 1 .. Len(w) /\ i \in DOMAIN Tail(w) /\ n + j - 1 = n + 1 + i - 1
      BY ONLY <1>1, <1>2, <3>1, i \in 1 .. Len(t), n \in Nat \ {0}
    <3>3. t[i] = w[j] /\ w[j].version = n + j - 1
      BY ONLY <1>1, <1>2, <1>4, <3>1, <3>2
    <3>. QED
      BY ONLY <3>2, <3>3
  <2>. QED
    BY <2>1
<1>10. Half(TRUE, c, t, x, r, m, n + 1, k)
  BY <1>3, <1>6, <1>7, <1>8, <1>9, NothingUnderWay DEF Half
<1>11. Half(c, TRUE, x, t, m, r, k, n + 1)
  <2>1. t = <<>> => Replay(m, <<>>) = r
    BY <1>7, ReplayNothing
  <2>2. \A i \in 1 .. Len(x) : x[i].version = k + i - 1
    BY DEF Meeting, Half
  <2>. QED
    BY <1>3, <1>8, <2>1, <2>2, NothingUnderWay DEF Half
<1>. QED
  BY <1>1, <1>5, <1>10, <1>11 DEF Meeting

LEMMA ListInvInit == EntitiesInit => ListInv
<1> SUFFICES ASSUME EntitiesInit PROVE ListInv
  OBVIOUS
<1>1. /\ wire = [e \in Ends |-> <<>>] /\ bound = [e \in Ends |-> FALSE] /\ careful = TRUE
      /\ list = [e \in Ends |-> <<>>] /\ list_version = [e \in Ends |-> 1]
      /\ conflict = FALSE
  BY DEF EntitiesInit, ReactiveInit, ListInit
<1>2. ListTypes
  BY <1>1 DEF ListTypes
<1>3. Meeting(FALSE, FALSE, <<>>, <<>>, <<>>, <<>>, 1, 1)
  BY NothingUnderWay DEF Meeting, Half
<1>4. \A e \in Ends : EndsMeet(e)
  BY <1>1, <1>3, TwoEnds DEF EndsMeet
<1>. QED
  BY <1>1, <1>2, <1>4 DEF ListInv

\* What is to be shown of a step of e.
LEMMA EndsMeetAgain ==
    ASSUME NEW e \in Ends, EndsMeet(e)'
    PROVE  (\A f \in Ends : EndsMeet(f))'
<1>1. \A f \in Ends : f = e \/ (f = Other(e) /\ Other(f) = e)
  BY TwoEnds
<1>2. EndsMeet(Other(e))'
  BY <1>1, TwoEnds, MeetingTurns DEF EndsMeet
<1>. QED
  BY <1>1, <1>2

\* An end sends, or receives, and its version and its list change.
LEMMA ListTypesAgain ==
    ASSUME ListTypes, NEW e \in Ends, NEW f \in Ends, NEW y \in Seq(ListMessages),
           NEW j \in Nat \ {0}, NEW r, bound' = bound \/ bound' = [bound EXCEPT ![f] = TRUE],
           wire' = [wire EXCEPT ![e] = y],
           list_version' = [list_version EXCEPT ![f] = j],
           list' = list \/ list' = [list EXCEPT ![f] = r]
    PROVE  ListTypes'
<1>1. wire' \in [Ends -> Seq(ListMessages)]
  BY DEF ListTypes
<1>2. bound' \in [Ends -> BOOLEAN]
  BY DEF ListTypes
<1>3. list' = [h \in Ends |-> list'[h]]
  BY DEF ListTypes
<1>4. list_version' \in [Ends -> Nat \ {0}]
  BY DEF ListTypes
<1>. QED
  BY <1>1, <1>2, <1>3, <1>4 DEF ListTypes

LEMMA ListMeans ==
    ASSUME ListInv, careful, NEW e \in Ends
    PROVE  /\ Other(e) \in Ends /\ Other(e) # e
           /\ bound[e] \in BOOLEAN /\ bound[Other(e)] \in BOOLEAN
           /\ wire[e] \in Seq(ListMessages) /\ wire[Other(e)] \in Seq(ListMessages)
           /\ list_version[e] \in Nat \ {0} /\ list_version[Other(e)] \in Nat \ {0}
           /\ wire[e] = <<>> \/ ~bound[e] => list[e] \in Seq(Values)
           /\ Meeting(bound[e], bound[Other(e)], wire[e], wire[Other(e)],
                      list[e], list[Other(e)], list_version[e], list_version[Other(e)])
<1>1. ListTypes /\ EndsMeet(e)
  BY DEF ListInv
<1>. QED
  BY <1>1, TwoEnds DEF ListTypes, EndsMeet, Meeting, Half

LEMMA ListChangeKeepsInv ==
    ASSUME ListInv, NEW e \in Ends, ListChange(e)
    PROVE  ListInv'
<1>1. careful' = (careful /\ wire[e] = <<>>) /\ conflict' = conflict
  BY DEF ListChange, Crossing
<1>. SUFFICES ASSUME careful' PROVE ListTypes' /\ ~conflict' /\ (\A f \in Ends : EndsMeet(f))'
  BY <1>1 DEF ListInv
<1>2. careful /\ wire[e] = <<>> /\ ~conflict'
  BY <1>1 DEF ListInv
<1>3. PICK o, c, x, l, m, n, k :
        /\ o = Other(e) /\ c = bound[o] /\ x = wire[o] /\ l = list[e] /\ m = list[o]
        /\ n = list_version[e] /\ k = list_version[o]
  OBVIOUS
<1>4. /\ o \in Ends /\ o # e /\ bound[e] \in BOOLEAN /\ c \in BOOLEAN
      /\ x \in Seq(ListMessages) /\ n \in Nat \ {0} /\ k \in Nat \ {0} /\ l \in Seq(Values)
      /\ Meeting(bound[e], c, <<>>, x, l, m, n, k)
  BY <1>2, <1>3, ListMeans
<1>5. PICK op \in Operations(list[e]) :
        /\ list' = [list EXCEPT ![e] = op.result]
        /\ wire' = IF bound[e] THEN [wire EXCEPT ![Other(e)] = @ \o Numbered(op.events, list_version[e])]
                   ELSE wire
        /\ bound' = bound
        /\ list_version' = [list_version EXCEPT ![e] =
                              IF bound[e] THEN @ + Len(op.events) ELSE @]
  BY DEF ListChange, LocalChange
<1>6. PICK es, r : es = op.events /\ r = op.result
  OBVIOUS
<1>7. es \in Seq(ListEvents) /\ r \in Seq(Values) /\ Replay(l, es) = r
  BY <1>3, <1>4, <1>5, <1>6, OperationReplays
<1>8. ListTypes
  BY <1>2 DEF ListInv
<1>9. CASE bound[e] = TRUE
  <2>1. PICK t : t = Numbered(es, n)
    OBVIOUS
  <2>2. t \in Seq(ListMessages) /\ x \o t \in Seq(ListMessages) /\ n + Len(es) \in Nat \ {0}
    <3>1. t \in Seq(ListMessages)
      BY <1>4, <1>7, <2>1, NumberedIs
    <3>. QED
      BY <1>4, <1>7, <3>1
  <2>3. /\ wire' = [wire EXCEPT ![o] = x \o t] /\ list' = [list EXCEPT ![e] = r]
        /\ list_version' = [list_version EXCEPT ![e] = n + Len(es)]
    BY <1>3, <1>4, <1>5, <1>6, <1>8, <1>9, <2>1 DEF ListTypes
  <2>4. ListTypes'
    <3>1. PICK y, j : y = x \o t /\ j = n + Len(es)
      OBVIOUS
    <3>. y \in Seq(ListMessages) /\ j \in Nat \ {0} /\ o \in Ends
      BY <1>4, <2>2, <3>1
    <3>2. /\ wire' = [wire EXCEPT ![o] = y] /\ list' = [list EXCEPT ![e] = r]
          /\ list_version' = [list_version EXCEPT ![e] = j] /\ bound' = bound
      BY ONLY <1>5, <2>3, <3>1
    <3>. QED
      BY ONLY e \in Ends, o \in Ends, y \in Seq(ListMessages), j \in Nat \ {0}, <1>8, <3>2,
              ListTypesAgain
  <2>5. Meeting(TRUE, c, <<>>, x \o t, r, m, n + Len(es), k)
    BY <1>4, <1>7, <1>9, <2>1, MeetingSends
  <2>6. /\ bound'[e] = TRUE /\ bound'[o] = c /\ wire'[e] = <<>> /\ wire'[o] = x \o t
        /\ list'[e] = r /\ list'[o] = m
        /\ list_version'[e] = n + Len(es) /\ list_version'[o] = k
    BY <1>2, <1>3, <1>4, <1>5, <1>8, <1>9, <2>3 DEF ListTypes
  <2>7. EndsMeet(e)'
    BY <1>3, <2>5, <2>6 DEF EndsMeet
  <2>. QED
    BY <1>2, <2>4, <2>7, EndsMeetAgain
<1>10. CASE bound[e] = FALSE
  <2>1. wire' = wire /\ list' = [list EXCEPT ![e] = r] /\ list_version' = list_version
    BY <1>5, <1>6, <1>8, <1>10 DEF ListTypes
  <2>2. ListTypes'
    BY <1>5, <1>8, <2>1 DEF ListTypes
  <2>3. Meeting(FALSE, c, <<>>, x, r, m, n, k)
    BY <1>4, <1>7, <1>10, MeetingAlone
  <2>4. /\ bound'[e] = FALSE /\ bound'[o] = c /\ wire'[e] = <<>> /\ wire'[o] = x
        /\ list'[e] = r /\ list'[o] = m /\ list_version'[e] = n /\ list_version'[o] = k
    BY <1>2, <1>3, <1>4, <1>5, <1>8, <1>10, <2>1 DEF ListTypes
  <2>5. EndsMeet(e)'
    BY <1>3, <2>3, <2>4 DEF EndsMeet
  <2>. QED
    BY <1>2, <2>2, <2>5, EndsMeetAgain
<1>. QED
  BY <1>4, <1>9, <1>10

LEMMA ListBindKeepsInv ==
    ASSUME ListInv, NEW e \in Ends, ListBind(e)
    PROVE  ListInv'
<1>1. PICK es : es = [i \in DOMAIN list[e] |-> AddEvent(i - 1, list[e][i])]
  OBVIOUS
<1>2. /\ careful' = (careful /\ (es = <<>> \/ wire[e] = <<>>)) /\ conflict' = conflict
      /\ ~bound[e] /\ bound' = [bound EXCEPT ![e] = TRUE] /\ list' = list
      /\ wire' = [wire EXCEPT ![Other(e)] = @ \o Numbered(es, list_version[e])]
      /\ list_version' = [list_version EXCEPT ![e] = @ + Len(es)]
  BY <1>1 DEF ListBind, Bind, Crossing
<1>. SUFFICES ASSUME careful' PROVE ListTypes' /\ ~conflict' /\ (\A f \in Ends : EndsMeet(f))'
  BY <1>2 DEF ListInv
<1>3. careful /\ (es = <<>> \/ wire[e] = <<>>) /\ ~conflict'
  BY <1>2 DEF ListInv
<1>4. PICK o, c, w, x, l, m, n, k :
        /\ o = Other(e) /\ c = bound[o] /\ w = wire[e] /\ x = wire[o]
        /\ l = list[e] /\ m = list[o] /\ n = list_version[e] /\ k = list_version[o]
  OBVIOUS
<1>5. /\ o \in Ends /\ o # e /\ bound[e] = FALSE /\ c \in BOOLEAN
      /\ w \in Seq(ListMessages) /\ x \in Seq(ListMessages)
      /\ n \in Nat \ {0} /\ k \in Nat \ {0} /\ l \in Seq(Values)
      /\ Meeting(FALSE, c, w, x, l, m, n, k)
  BY <1>2, <1>3, <1>4, ListMeans
<1>6. es \in Seq(ListEvents) /\ Len(es) = Len(l) /\ Replay(<<>>, es) = l
  BY <1>1, <1>4, <1>5, SentWhole
<1>7. PICK t : t = Numbered(es, n)
  OBVIOUS
<1>8. t \in Seq(ListMessages) /\ x \o t \in Seq(ListMessages) /\ n + Len(es) \in Nat \ {0}
  <2>1. t \in Seq(ListMessages)
    BY <1>5, <1>6, <1>7, NumberedIs
  <2>. QED
    BY <1>5, <1>6, <2>1
<1>9. ListTypes
  BY <1>3 DEF ListInv
<1>10. /\ wire' = [wire EXCEPT ![o] = x \o t]
       /\ list_version' = [list_version EXCEPT ![e] = n + Len(es)]
  BY <1>2, <1>4, <1>5, <1>7, <1>9 DEF ListTypes
<1>11. ListTypes'
  BY <1>2, <1>5, <1>8, <1>9, <1>10, ListTypesAgain
<1>12. /\ bound'[e] = TRUE /\ bound'[o] = c /\ wire'[e] = w /\ wire'[o] = x \o t
       /\ list'[e] = l /\ list'[o] = m
       /\ list_version'[e] = n + Len(es) /\ list_version'[o] = k
  BY <1>2, <1>4, <1>5, <1>9, <1>10 DEF ListTypes
<1>13. Meeting(TRUE, c, w, x \o t, l, m, n + Len(es), k)
  <2>1. CASE w = <<>>
    <3>1. Meeting(FALSE, c, <<>>, x, <<>>, m, n, k)
      <4>1. <<>> \in Seq(Values)
        OBVIOUS
      <4>. QED
        BY <1>5, <2>1, <4>1, MeetingAlone
    <3>2. <<>> \in Seq(ListMessages)
      OBVIOUS
    <3>3. Meeting(TRUE, c, <<>>, x, <<>>, m, n, k)
      BY <1>5, <3>1, <3>2, MeetingBinds
    <3>. QED
      BY <1>5, <1>6, <1>7, <2>1, <3>3, MeetingSends
  <2>2. CASE w # <<>>
    <3>1. es = <<>> /\ Len(es) = 0 /\ l = <<>> /\ t = <<>>
      <4>1. es = <<>> /\ Len(es) = 0
        BY <1>3, <1>4, <2>2, NothingUnderWay
      <4>2. l = <<>>
        BY <1>5, <1>6, <4>1, SequenceIs
      <4>. QED
        BY <1>7, <4>1, <4>2, NothingUnderWay
    <3>2. Meeting(TRUE, c, w, x, <<>>, m, n, k)
      BY <1>5, <3>1, MeetingBinds
    <3>3. x \o t = x /\ n + Len(es) = n
      <4>1. x \o <<>> = x
        BY <1>5
      <4>. QED
        BY <1>5, <3>1, <4>1
    <3>. QED
      BY <3>1, <3>2, <3>3
  <2>. QED
    BY <2>1, <2>2
<1>14. EndsMeet(e)'
  BY <1>4, <1>12, <1>13 DEF EndsMeet
<1>. QED
  BY <1>3, <1>11, <1>14, EndsMeetAgain

LEMMA ListReceivedKeepsInv ==
    ASSUME ListInv, NEW e \in Ends, ListReceived(e)
    PROVE  ListInv'
<1>1. careful' = careful /\ bound[e] /\ wire[e] # <<>> /\ bound' = bound
  BY DEF ListReceived, WireReceived
<1>. SUFFICES ASSUME careful PROVE ListTypes' /\ ~conflict' /\ (\A f \in Ends : EndsMeet(f))'
  BY <1>1 DEF ListInv
<1>2. PICK o, c, w, x, l, m, n, k :
        /\ o = Other(e) /\ c = bound[o] /\ w = wire[e] /\ x = wire[o]
        /\ l = list[e] /\ m = list[o] /\ n = list_version[e] /\ k = list_version[o]
  OBVIOUS
<1>3. /\ o \in Ends /\ o # e /\ bound[e] = TRUE /\ c \in BOOLEAN
      /\ w \in Seq(ListMessages) /\ x \in Seq(ListMessages) /\ w # <<>>
      /\ n \in Nat \ {0} /\ k \in Nat \ {0}
      /\ Meeting(TRUE, c, w, x, l, m, n, k)
  BY <1>1, <1>2, ListMeans
<1>4. PICK t, r : t = Tail(w) /\ r = Apply(l, Head(w).event)
  OBVIOUS
<1>5. Head(w).version = n /\ Meeting(TRUE, c, t, x, r, m, n + 1, k)
  BY <1>3, <1>4, MeetingReceives
<1>6. ListTypes /\ ~conflict
  BY DEF ListInv
<1>7. wire' = [wire EXCEPT ![e] = t]
  <2>1. wire' = [wire EXCEPT ![e] = Tail(@), ![Other(e)] = @ \o <<>>]
    BY DEF ListReceived, WireReceived
  <2>2. x \o <<>> = x
    BY <1>3
  <2>. QED
    BY <1>2, <1>3, <1>4, <1>6, <2>1, <2>2 DEF ListTypes
<1>8. /\ list' = [list EXCEPT ![e] = r] /\ conflict' = conflict
      /\ list_version' = [list_version EXCEPT ![e] = n + 1]
  <2>1. Head(wire[e]).version = list_version[e]
    BY <1>2, <1>5
  <2>2. /\ list_version' = [list_version EXCEPT ![e] = @ + 1]
        /\ list' = [list EXCEPT ![e] = Apply(@, Head(wire[e]).event)]
        /\ conflict' = conflict
    BY <2>1 DEF ListReceived
  <2>. QED
    BY <1>2, <1>4, <1>6, <2>2 DEF ListTypes
<1>9. t \in Seq(ListMessages) /\ n + 1 \in Nat \ {0}
  BY <1>3, <1>4, Taken
<1>10. ListTypes'
  BY <1>1, <1>6, <1>7, <1>8, <1>9 DEF ListTypes
<1>11. /\ bound'[e] = TRUE /\ bound'[o] = c /\ wire'[e] = t /\ wire'[o] = x
       /\ list'[e] = r /\ list'[o] = m
       /\ list_version'[e] = n + 1 /\ list_version'[o] = k
  BY <1>1, <1>2, <1>3, <1>6, <1>7, <1>8 DEF ListTypes
<1>12. EndsMeet(e)'
  BY <1>2, <1>5, <1>11 DEF EndsMeet
<1>. QED
  BY <1>6, <1>8, <1>10, <1>12, EndsMeetAgain

LEMMA ListStep ==
    kind = "list" /\ ListInv /\ [EntitiesNext]_entityVars => ListInv'
<1> SUFFICES ASSUME kind = "list", ListInv, [EntitiesNext]_entityVars
             PROVE  ListInv'
  OBVIOUS
<1>1. CASE UNCHANGED entityVars
  BY <1>1 DEF entityVars, reactiveVars, listVars, ListInv, ListTypes, EndsMeet
<1>2. CASE ListNext
  <2>1. ASSUME NEW e \in Ends, ListRemoveAll(e) PROVE ListInv'
    BY <2>1 DEF ListRemoveAll, reactiveVars, ListInv, ListTypes, EndsMeet
  <2>. QED
    BY <1>2, <2>1, ListChangeKeepsInv, ListBindKeepsInv, ListReceivedKeepsInv DEF ListNext
<1>. QED
  BY <1>1, <1>2 DEF EntitiesNext, OnlyProperty, OnlyMap, OnlyList, OnlySet, OnlyExtension

LEMMA ListInvMeets == ListInv => ListsMeet
<1> SUFFICES ASSUME ListInv, careful, \A e \in Ends : bound[e]
             PROVE  Arriving("editor") = Arriving("rider")
  BY DEF ListsMeet, ListInv
<1>1. /\ "editor" \in Ends /\ Other("editor") = "rider"
  BY DEF Ends, Other
<1>2. \A e : Arriving(e) = Replay(list[e], EventsOf(wire[e]))
  BY DEF Arriving, EventsOf
<1>3. /\ bound["editor"] = TRUE /\ bound["rider"] = TRUE
      /\ Meeting(TRUE, TRUE, wire["editor"], wire["rider"], list["editor"], list["rider"],
                 list_version["editor"], list_version["rider"])
  <2>1. \A e \in Ends : bound[e] = TRUE
    BY DEF ListInv, ListTypes
  <2>2. "rider" \in Ends
    BY DEF Ends
  <2>. QED
    BY <1>1, <2>1, <2>2, ListMeans
<1>4. CASE wire["rider"] = <<>>
  <2>1. Arriving("editor") = list["rider"]
    BY <1>2, <1>3, <1>4 DEF Meeting, Half
  <2>. QED
    BY <1>2, <1>4, <2>1, NothingUnderWay, ReplayNothing
<1>5. CASE wire["editor"] = <<>>
  <2>1. Arriving("rider") = list["editor"]
    BY <1>2, <1>3, <1>5 DEF Meeting, Half
  <2>. QED
    BY <1>2, <1>5, <2>1, NothingUnderWay, ReplayNothing
<1>6. wire["editor"] = <<>> \/ wire["rider"] = <<>>
  BY <1>3 DEF Meeting, Half
<1>. QED
  BY <1>4, <1>5, <1>6

(***************************************************************************)
(* Lists on which no change crosses another never meet the assertion `Are  *)
(* you modifying a list from two sides?', and once each end has taken what *)
(* is under way to it they are equal, whichever operations changed them.   *)
(***************************************************************************)
THEOREM ListsMeetOnTheWay == EntitiesSpec => []ListsConverge
<1>1. EntitiesInit => (kind = "list" => ListInv)
  BY ListInvInit
<1>2. (kind = "list" => ListInv) /\ [EntitiesNext]_entityVars => (kind = "list" => ListInv)'
  <2> SUFFICES ASSUME kind = "list" => ListInv, [EntitiesNext]_entityVars, kind' = "list"
               PROVE  ListInv'
    OBVIOUS
  <2>1. kind' = kind
    BY DEF EntitiesNext, OnlyProperty, OnlyMap, OnlyList, OnlySet, OnlyExtension, entityVars
  <2> QED BY <2>1, ListStep
<1>3. (kind = "list" => ListInv) => ListsConverge
  BY ListInvMeets DEF ListsConverge
<1> QED BY <1>1, <1>2, <1>3, PTL DEF EntitiesSpec

=============================================================================
