-------------------------- MODULE RleServiceProofs --------------------------
(***************************************************************************)
(* Proofs about RleService, for every size of the two rings, every burst,    *)
(* squelch threshold and marker length, and any number of records, drops,    *)
(* overruns and restarts.                                                    *)
(***************************************************************************)
EXTENDS RleService, SequenceTheorems, TLAPS

------------------------------------------------------------------------------
\* Constants and types.

LEMMA Sizes ==
  /\ RamCap \in Nat \ {0} /\ TxCap \in Nat \ {0} /\ Burst \in Nat \ {0} /\ PumpEvery \in Nat \ {0}
  /\ CapIdle \in Nat \ {0} /\ ModeLen \in Nat \ {0} /\ MaxRec \in Nat \ {0}
  /\ {MaxDrop, MaxOverrun, MaxSkip, MaxSwitch} \subseteq Nat /\ ModeLen <= TxCap
BY RleServiceAssumption

\* The state in an arithmetic the provers can use.
LEMMA ServiceTypes ==
  ASSUME TypeOK
  PROVE  /\ made \in Int /\ 0 <= made /\ made <= MaxRec + 1
         /\ lastOut \in Int /\ 0 <= lastOut
         /\ ram \in Seq(Records) /\ Len(ram) \in Nat /\ Len(ram) <= RamCap
         /\ DOMAIN ram = 1 .. Len(ram)
         /\ n \in Nat /\ i \in Nat /\ i <= n /\ n <= Len(ram)
         /\ cap \in Nat /\ out \in Nat /\ out <= cap
         /\ txUsed \in Nat /\ txUsed + cap <= TxCap /\ txUsed <= TxCap
         /\ ramDrop \in Nat /\ lossSeen \in Nat /\ lossSeen <= ramDrop /\ capRun \in Nat
<1>1. ram \in Seq(Records)
  BY DEF TypeOK
<1>2. Len(ram) \in Nat /\ DOMAIN ram = 1 .. Len(ram)
  BY <1>1, LenProperties
<1>3. /\ made \in 0 .. MaxRec + 1 /\ lastOut \in 0 .. MaxRec + 1 /\ n \in Nat /\ cap \in Nat
      /\ i \in 0 .. n /\ n <= Len(ram) /\ out \in 0 .. cap /\ Len(ram) <= RamCap
      /\ txUsed \in 0 .. TxCap /\ txUsed + cap <= TxCap
      /\ ramDrop \in Nat /\ lossSeen \in 0 .. ramDrop /\ capRun \in Nat
  BY DEF TypeOK
<1> QED BY <1>1, <1>2, <1>3, Sizes

LEMMA RecordTypes ==
  ASSUME TypeOK, NEW k \in DOMAIN ram
  PROVE  ram[k] \in Records /\ ram[k].id \in Int /\ 1 <= ram[k].id /\ ram[k].id <= MaxRec + 1
<1>1. k \in 1 .. Len(ram) /\ ram \in Seq(Records)
  BY ServiceTypes
<1>2. ram[k] \in Records
  BY <1>1, ElementOfSeq
<1> QED BY <1>2, Sizes DEF Records

LEMMA ServiceInit == Init => ServiceInv
<1> SUFFICES ASSUME Init PROVE ServiceInv
  OBVIOUS
<1>1. ram = <<>> /\ ram \in Seq(Records) /\ Len(ram) = 0 /\ DOMAIN ram = {}
  BY EmptySeq DEF Init
<1>2. TypeOK
  <2>1. /\ made \in 0 .. MaxRec + 1 /\ lastOut \in 0 .. MaxRec + 1 /\ Len(ram) <= RamCap
        /\ {n, cap} \subseteq Nat /\ i \in 0 .. n /\ n <= Len(ram) /\ out \in 0 .. cap
        /\ txUsed \in 0 .. TxCap /\ txUsed + cap <= TxCap
        /\ ramDrop \in Nat /\ lossSeen \in 0 .. ramDrop /\ capRun \in Nat
    BY <1>1, Sizes DEF Init
  <2> QED BY <1>1, <2>1 DEF Init, TypeOK
<1>3. DropNeverForgotten /\ CallInStep /\ FrameInFlight
  BY DEF Init, DropNeverForgotten, CallInStep, FrameInFlight
<1>4. RamComplete
  BY <1>1 DEF Init, RamComplete
<1> QED BY <1>2, <1>3, <1>4 DEF ServiceInv

------------------------------------------------------------------------------
\* What leaves the rings and the frame as they are.

LEMMA RamCompleteKept ==
  ASSUME RamComplete, UNCHANGED <<lastOut, made, ram, i, lost>>
  PROVE  RamComplete'
BY DEF RamComplete

LEMMA CallTypesKept ==
  ASSUME TypeOK, UNCHANGED <<made, lastOut, ram, n, i, cap, out, ramDrop, lossSeen, capRun, capPiped>>,
         pc' \in {"idle", "drain", "loss", "activity", "separator", "heartbeat"},
         txUsed' \in 0 .. TxCap, txUsed' + cap <= TxCap,
         {on, saw, capPiped, sniffActive, lapsed, hbDue, cut}' \subseteq BOOLEAN,
         ovfPioc' \in Nat, untold' \subseteq {"drop", "overrun"}
  PROVE  TypeOK'
BY DEF TypeOK

LEMMA FrameInFlightKept ==
  ASSUME FrameInFlight, UNCHANGED <<on, lastOut, made, ram, i, lost, capPiped>>, cut => cut',
         sniffActive => sniffActive' \/ cut',
         ~sniffActive /\ ~cut' /\ saw /\ pc \in {"drain", "loss", "activity"}
           => sniffActive' \/ (saw' /\ pc' \in {"drain", "loss", "activity"})
  PROVE  FrameInFlight'
BY DEF FrameInFlight
------------------------------------------------------------------------------
\* TIM3 interrupt, clock and host.

\* The interrupt appends the next record it sees or drops it, whatever service()
\* is doing; those it has passed over are lost in either case.
LEMMA FeedStep ==
  ASSUME ServiceInv, NEW kind \in {"run", "cap"}, NEW skip \in 0 .. MaxSkip, Feed(kind, skip)
  PROVE  ServiceInv'
<1> DEFINE r == Lesser(made + skip + 1, MaxRec + 1)
           passed == made + 1 .. r - 1
           how == IF skip > 0 THEN {"overrun"} ELSE {}
           l == Len(ram)
<1>0. TypeOK /\ DropNeverForgotten /\ CallInStep /\ RamComplete /\ FrameInFlight
  BY DEF ServiceInv
<1>1. /\ on /\ made' = r /\ ovfPioc' \in {ovfPioc, ovfPioc + 1}
      /\ UNCHANGED <<on, pc, drainVars, saw, capRun, capPiped, lossSeen, sniffActive, timeVars,
                     outVars, switches>>
  BY DEF Feed
<1>2. UNCHANGED <<n, i, cap, out, lapsed, hbDue, txUsed, lastOut, cut>>
  BY <1>1 DEF drainVars, timeVars, outVars
<1>3. /\ r \in 1 .. MaxRec + 1 /\ r \in Int /\ made <= r /\ lastOut \in Int /\ made \in Int
      /\ \A x \in Int : x <= r => x <= made \/ x = r \/ x \in passed
  <2>1. /\ skip \in Int /\ 0 <= skip /\ made \in Int /\ 0 <= made /\ made <= MaxRec + 1
        /\ MaxRec \in Int /\ 1 <= MaxRec /\ lastOut \in Int
    BY <1>0, ServiceTypes, Sizes
  <2>2. r \in Int /\ 1 <= r /\ r <= MaxRec + 1 /\ made <= r
    BY <2>1 DEF Lesser
  <2> HIDE DEF r
  <2> QED BY <2>1, <2>2
<1>4. l \in Nat /\ DOMAIN ram = 1 .. l /\ ram \in Seq(Records) /\ i \in Nat /\ i <= l /\ lastOut <= made
  BY <1>0, ServiceTypes DEF RamComplete
<1>5. CallInStep'
  BY <1>0, <1>1, <1>2 DEF CallInStep
<1>6. /\ how \subseteq {"drop", "overrun"} /\ "drop" \notin how
      /\ untold \subseteq {"drop", "overrun"} /\ ovfPioc' \in Nat
  BY <1>0, <1>1 DEF TypeOK
<1> HIDE DEF passed, how
<1>7. CASE Len(ram) < RamCap /\ ram' = Append(ram, [id |-> r, kind |-> kind])
           /\ lost' = lost \cup passed /\ untold' = untold \cup how /\ UNCHANGED ramDrop
  <2> DEFINE new == [id |-> r, kind |-> kind]
  <2>1. new \in Records /\ new.id = r
    BY <1>3 DEF Records
  <2> HIDE DEF new
  <2>2. /\ ram' \in Seq(Records) /\ Len(ram') = l + 1
        /\ \A k \in 1 .. l : ram'[k] = ram[k]
        /\ ram'[l + 1] = new
    BY <1>4, <1>7, <2>1, AppendProperties DEF new
  <2>3. DOMAIN ram' = 1 .. l + 1
    BY <2>2, LenProperties
  <2> HIDE DEF r, l
  <2>4. /\ \A k \in DOMAIN ram : k \in DOMAIN ram' /\ ram'[k] = ram[k]
        /\ l + 1 \in DOMAIN ram' /\ ram'[l + 1].id = r
        /\ \A k \in DOMAIN ram' : k \in DOMAIN ram \/ k = l + 1
        /\ i < l + 1
    BY <1>4, <2>1, <2>2, <2>3
  <2>5. TypeOK'
    <3>1. Len(ram') <= RamCap /\ n <= Len(ram') /\ made' \in 0 .. MaxRec + 1
      <4>1. n \in Nat /\ n <= l
        BY <1>0, ServiceTypes DEF l
      <4>2. RamCap \in Nat /\ l < RamCap
        BY <1>7, Sizes DEF l
      <4>3. made' = r /\ r \in 1 .. MaxRec + 1 /\ MaxRec \in Nat
        BY <1>1, <1>3, Sizes
      <4> QED BY <1>4, <2>2, <4>1, <4>2, <4>3
    <3>2. untold' \subseteq {"drop", "overrun"}
      BY <1>6, <1>7
    <3> QED BY <1>0, <1>1, <1>2, <1>6, <1>7, <2>2, <3>1, <3>2 DEF TypeOK
  <2>6. RamComplete'
    <3>1. lastOut <= r
      BY <1>3, <1>4
    <3>2. ASSUME NEW k \in DOMAIN ram'
          PROVE  ram'[k].id <= r /\ (k > i => lastOut <= ram'[k].id)
      <4>1. CASE k \in DOMAIN ram
        <5>1. ram[k].id \in Int /\ ram[k].id <= made /\ (k > i => lastOut <= ram[k].id)
          BY <1>0, <4>1, RecordTypes DEF RamComplete
        <5> QED BY <1>3, <2>4, <4>1, <5>1
      <4>2. CASE k = l + 1
        BY <1>3, <2>4, <3>1, <4>2
      <4> QED BY <2>4, <4>1, <4>2
    <3>3. ASSUME NEW j \in DOMAIN ram', NEW k \in DOMAIN ram', j < k
          PROVE  ram'[j].id <= ram'[k].id
      <4>1. CASE k \in DOMAIN ram
        <5>1. j \in DOMAIN ram
          BY <1>4, <2>3, <3>3, <4>1
        <5> QED BY <1>0, <2>4, <3>3, <4>1, <5>1 DEF RamComplete
      <4>2. CASE k = l + 1
        BY <2>4, <3>2, <4>2
      <4> QED BY <2>4, <4>1, <4>2
    <3>4. ASSUME NEW k \in DOMAIN ram', NEW x \in ram'[k].id + 1 .. r
          PROVE  x \in lost' \/ \E j \in DOMAIN ram' : ram'[j].id = x
      <4>1. CASE x = r
        BY <2>4, <4>1
      <4>2. CASE x \in passed
        BY <1>7, <4>2
      <4>3. CASE x # r /\ x \notin passed
        <5>1. k # l + 1
          BY <1>3, <2>4, <4>3
        <5>2. k \in DOMAIN ram /\ ram'[k] = ram[k] /\ ram[k].id \in Int
          BY <1>0, <2>4, <5>1, RecordTypes
        <5>3. x \in ram[k].id + 1 .. made
          BY <1>3, <4>3, <5>2
        <5>4. x \in lost \/ \E j \in DOMAIN ram : ram[j].id = x
          BY <1>0, <5>2, <5>3 DEF RamComplete
        <5> QED BY <1>7, <2>4, <5>4
      <4> QED BY <4>1, <4>2, <4>3
    <3>5. made' = r
      BY <1>1 DEF r
    <3> QED BY <1>2, <1>7, <3>1, <3>2, <3>3, <3>4, <3>5 DEF RamComplete
  <2>7. FrameInFlight'
    <3>1. made' = r
      BY <1>1 DEF r
    <3>2. ASSUME ~cut, lastOut > 0, NEW x \in lastOut + 1 .. r
          PROVE  x \in lost' \/ \E j \in DOMAIN ram' : j > i /\ ram'[j].id = x
      <4>1. CASE x = r
        <5>1. l + 1 > i
          BY <1>4
        <5> QED BY <2>4, <4>1, <5>1
      <4>2. CASE x \in passed
        BY <1>7, <4>2
      <4>3. CASE x # r /\ x \notin passed
        <5>1. x \in lastOut + 1 .. made
          BY <1>3, <4>3
        <5>2. x \in lost \/ \E j \in DOMAIN ram : j > i /\ ram[j].id = x
          BY <1>0, <1>1, <3>2, <5>1 DEF FrameInFlight
        <5> QED BY <1>7, <2>4, <5>2
      <4> QED BY <4>1, <4>2, <4>3
    <3> QED BY <1>0, <1>1, <1>2, <1>7, <3>1, <3>2 DEF FrameInFlight
  <2>8. DropNeverForgotten'
    BY <1>0, <1>1, <1>6, <1>7 DEF DropNeverForgotten
  <2> QED BY <1>5, <2>5, <2>6, <2>7, <2>8 DEF ServiceInv
<1>8. CASE Len(ram) = RamCap /\ ramDrop' = ramDrop + 1 /\ lost' = lost \cup passed \cup {r}
           /\ untold' = untold \cup how \cup {"drop"} /\ UNCHANGED ram
  <2> HIDE DEF r, l
  <2>0. made' = r /\ lost' = lost \cup passed \cup {r} /\ ram' = ram
    BY <1>1, <1>8 DEF r
  <2>1. TypeOK'
    <3>1. ramDrop' \in Nat /\ lossSeen \in 0 .. ramDrop'
      <4>1. ramDrop \in Nat /\ lossSeen \in 0 .. ramDrop
        BY <1>0 DEF TypeOK
      <4> QED BY <1>8, <4>1
    <3>2. made' \in 0 .. MaxRec + 1
      BY <1>3, <2>0
    <3>3. untold' \subseteq {"drop", "overrun"}
      BY <1>6, <1>8
    <3> QED BY <1>0, <1>1, <1>2, <1>6, <2>0, <3>1, <3>2, <3>3 DEF TypeOK
  <2>2. RamComplete'
    <3>1. lastOut <= r
      BY <1>3, <1>4
    <3>2. ASSUME NEW k \in DOMAIN ram PROVE ram[k].id <= r /\ ram[k].id \in Int
      <4>1. ram[k].id \in Int /\ ram[k].id <= made
        BY <1>0, RecordTypes DEF RamComplete
      <4> QED BY <1>3, <4>1
    <3>3. ASSUME NEW k \in DOMAIN ram, NEW x \in ram[k].id + 1 .. r
          PROVE  x \in lost' \/ \E j \in DOMAIN ram : ram[j].id = x
      <4>1. CASE x = r \/ x \in passed
        BY <2>0, <4>1
      <4>2. CASE x # r /\ x \notin passed
        <5>1. x \in ram[k].id + 1 .. made
          BY <1>3, <3>2, <4>2
        <5> QED BY <1>0, <2>0, <5>1 DEF RamComplete
      <4> QED BY <4>1, <4>2
    <3> QED BY <1>0, <1>2, <2>0, <3>1, <3>2, <3>3 DEF RamComplete
  <2>3. FrameInFlight'
    <3>1. ASSUME ~cut, lastOut > 0, NEW x \in lastOut + 1 .. r
          PROVE  x \in lost' \/ \E j \in DOMAIN ram : j > i /\ ram[j].id = x
      <4>1. CASE x = r \/ x \in passed
        BY <2>0, <4>1
      <4>2. CASE x # r /\ x \notin passed
        <5>1. x \in lastOut + 1 .. made
          BY <1>3, <4>2
        <5> QED BY <1>0, <1>1, <2>0, <3>1, <5>1 DEF FrameInFlight
      <4> QED BY <4>1, <4>2
    <3> QED BY <1>0, <1>1, <1>2, <2>0, <3>1 DEF FrameInFlight
  <2>4. DropNeverForgotten'
    <3>1. lossSeen # ramDrop + 1
      BY <1>0, ServiceTypes
    <3> QED BY <1>1, <1>8, <3>1 DEF DropNeverForgotten
  <2> QED BY <1>5, <2>1, <2>2, <2>3, <2>4 DEF ServiceInv
<1> QED BY <1>7, <1>8 DEF Feed, passed, how

\* Time passes.
LEMMA ClockStep ==
  ASSUME ServiceInv, Lapse \/ HeartbeatDue
  PROVE  ServiceInv'
<1>1. /\ UNCHANGED <<on, inVars, pc, drainVars, saw, capRun, capPiped, lossSeen, sniffActive,
                     outVars, untold>>
      /\ {lapsed', hbDue'} \subseteq {lapsed, hbDue, TRUE}
  BY DEF Lapse, HeartbeatDue
<1> QED BY <1>1 DEF ServiceInv, inVars, drainVars, outVars, TypeOK, DropNeverForgotten, CallInStep,
                   RamComplete, FrameInFlight

\* The host reads.
LEMMA TxDrainStep ==
  ASSUME ServiceInv, NEW k \in 1 .. TxCap, TxDrain(k)
  PROVE  ServiceInv'
<1>1. /\ UNCHANGED <<on, inVars, pc, drainVars, saw, capRun, capPiped, lossSeen, sniffActive,
                     timeVars, lastOut, cut, untold>>
      /\ k <= txUsed /\ txUsed' = txUsed - k
  BY DEF TxDrain
<1>2. txUsed' \in 0 .. TxCap /\ txUsed' + cap <= TxCap
  <2>1. txUsed \in Nat /\ cap \in Nat /\ txUsed + cap <= TxCap /\ TxCap \in Nat /\ k \in Nat
    BY ServiceTypes, Sizes DEF ServiceInv
  <2> QED BY <1>1, <2>1
<1> QED BY <1>1, <1>2 DEF ServiceInv, inVars, drainVars, timeVars, TypeOK, DropNeverForgotten,
                          CallInStep, RamComplete, FrameInFlight

------------------------------------------------------------------------------
\* service(): the drain.

\* The drain is cut to what the transmit ring has room for.
LEMMA ServiceBeginStep ==
  ASSUME ServiceInv, ServiceBegin
  PROVE  ServiceInv'
<1> DEFINE count == Lesser(Len(ram), Budget)
<1>0. TypeOK /\ DropNeverForgotten /\ CallInStep /\ RamComplete /\ FrameInFlight
  BY DEF ServiceInv
<1>1. /\ on /\ pc = "idle" /\ saw' = FALSE
      /\ \/ (\E room \in 1 .. Budget : cap' = room) /\ pc' = "drain" /\ n' = count
         \/ pc' = "loss" /\ UNCHANGED <<n, cap>>
      /\ UNCHANGED <<on, inVars, i, out, capRun, capPiped, lossSeen, sniffActive, timeVars,
                     outVars, untold>>
  BY DEF ServiceBegin
<1>2. UNCHANGED <<made, ram, ramDrop, ovfPioc, lost, lapsed, hbDue, txUsed, lastOut, cut>>
  BY <1>1 DEF inVars, timeVars, outVars
<1>3. n = 0 /\ i = 0 /\ cap = 0 /\ out = 0
  BY <1>0, <1>1 DEF CallInStep
<1>4. /\ Len(ram) \in Nat /\ txUsed \in Nat /\ txUsed <= TxCap /\ TxCap \in Nat /\ Burst \in Nat
  BY <1>0, ServiceTypes, Sizes
<1>5. Budget \in Nat /\ txUsed + Budget <= TxCap
  BY <1>4 DEF Budget, Free, Lesser
<1>6. count \in Nat /\ count <= Len(ram)
  BY <1>4, <1>5 DEF Lesser
<1>7. TypeOK'
  <2> HIDE DEF count
  <2>1. n' \in Nat /\ n' <= Len(ram) /\ cap' \in Nat /\ txUsed + cap' <= TxCap
    BY <1>1, <1>3, <1>4, <1>5, <1>6
  <2>2. i' \in 0 .. n' /\ out' \in 0 .. cap' /\ pc' \in {"drain", "loss"}
    BY <1>1, <1>3, <2>1
  <2> QED BY <1>0, <1>1, <1>2, <2>1, <2>2 DEF TypeOK
<1>8. CallInStep'
  BY <1>1, <1>3 DEF CallInStep
<1>9. DropNeverForgotten'
  BY <1>0, <1>1, <1>2 DEF DropNeverForgotten
<1>10. RamComplete'
  BY <1>0, <1>1, <1>2, RamCompleteKept
<1>11. FrameInFlight'
  BY <1>0, <1>1, <1>2, FrameInFlightKept
<1> QED BY <1>7, <1>8, <1>9, <1>10, <1>11 DEF ServiceInv
\* One byte further: what is written is the byte itself or nothing.
LEMMA RamCompleteAhead ==
  ASSUME TypeOK, RamComplete, Draining, i' = i + 1, UNCHANGED <<made, ram, lost>>,
         lastOut' = lastOut \/ lastOut' = Byte.id
  PROVE  RamComplete'
<1>1. /\ i \in Nat /\ i + 1 \in DOMAIN ram /\ DOMAIN ram = 1 .. Len(ram) /\ Len(ram) \in Nat
      /\ Byte = ram[i + 1]
  BY ServiceTypes DEF Draining, Byte
<1>2. \A k \in DOMAIN ram : k > i + 1 => k > i /\ i + 1 < k
  BY <1>1
<1>3. lastOut' <= made /\ \A k \in DOMAIN ram : k > i + 1 => lastOut' <= ram[k].id
  BY <1>1, <1>2 DEF RamComplete
<1> QED BY <1>3 DEF RamComplete

\* Behind a byte of the ring nothing is missing that is not in the ring.
LEMMA NothingSkipped ==
  ASSUME TypeOK, RamComplete, Draining, NEW r \in Byte.id + 1 .. made
  PROVE  r \in lost \/ \E j \in DOMAIN ram : j > i + 1 /\ ram[j].id = r
<1>1. i \in Nat /\ i + 1 \in DOMAIN ram /\ DOMAIN ram = 1 .. Len(ram) /\ Byte = ram[i + 1]
  BY ServiceTypes DEF Draining, Byte
<1>2. ASSUME NEW j \in DOMAIN ram, ram[j].id = r PROVE j > i + 1
  <2>1. ram[j].id \in Int /\ ram[i + 1].id \in Int /\ ram[j].id > ram[i + 1].id
    BY <1>1, <1>2, RecordTypes
  <2>2. ~(j < i + 1) /\ j # i + 1
    BY <1>1, <2>1 DEF RamComplete
  <2> QED BY <1>1, <2>2
<1> QED BY <1>1, <1>2 DEF RamComplete

\* What may happen to a byte: eaten by the squelch, passed on, or turned into the
\* boundary that starts the squelch.
LEMMA DrainByteStep ==
  ASSUME ServiceInv, Draining,
         \/ capPiped /\ Eat /\ sniffActive' = sniffActive
         \/ Pass /\ saw' = TRUE /\ capPiped' = FALSE /\ sniffActive' = sniffActive
         \/ SquelchStarts,
         capRun' \in Nat, capPiped' => capRun' >= CapIdle, capPiped' => capPiped \/ SquelchStarts,
         {saw', capPiped', sniffActive'} \subseteq BOOLEAN,
         UNCHANGED <<on, inVars, pc, n, cap, lossSeen, timeVars, txUsed, untold, switches>>
  PROVE  ServiceInv'
<1>0. TypeOK /\ DropNeverForgotten /\ CallInStep /\ RamComplete /\ FrameInFlight
  BY DEF ServiceInv
<1>1. /\ UNCHANGED <<made, ram, ramDrop, ovfPioc, lost, lapsed, hbDue>>
      /\ UNCHANGED <<on, pc, n, cap, lossSeen, txUsed, untold>>
  BY DEF inVars, timeVars
<1>2. pc = "drain" /\ i < n /\ out < cap
  BY DEF Draining
<1>3. i' = i + 1 /\ out' \in {out, out + 1} /\ (lastOut' = lastOut \/ lastOut' = Byte.id) /\ cut' \in BOOLEAN
  BY <1>0 DEF Eat, Pass, SquelchStarts, TypeOK
<1>4. i + 1 \in DOMAIN ram /\ Byte = ram[i + 1]
  BY <1>0, <1>2, ServiceTypes, SMTT(20) DEF Byte
<1>5. TypeOK'
  <2>1. i' \in 0 .. n /\ out' \in 0 .. cap
    BY <1>0, <1>2, <1>3, ServiceTypes, SMTT(20)
  <2>2. lastOut' \in 0 .. MaxRec + 1
    <3>1. Byte.id \in 0 .. MaxRec + 1
      BY <1>0, <1>4, RecordTypes, Sizes
    <3> QED BY <1>0, <1>3, <3>1 DEF TypeOK
  <2> QED BY <1>0, <1>1, <1>3, <2>1, <2>2 DEF TypeOK
<1>6. DropNeverForgotten' /\ CallInStep'
  BY <1>0, <1>1, <1>2 DEF DropNeverForgotten, CallInStep
<1>7. RamComplete'
  BY <1>0, <1>1, <1>3, RamCompleteAhead
<1>8. CASE capPiped /\ Eat /\ sniffActive' = sniffActive
  <2>1. cut /\ cut' = cut
    BY <1>0, <1>8 DEF FrameInFlight, Eat
  <2>2. FrameInFlight'
    BY <2>1 DEF FrameInFlight
  <2> QED BY <1>5, <1>6, <1>7, <2>2 DEF ServiceInv
<1>9. CASE Pass /\ saw' = TRUE /\ capPiped' = FALSE /\ sniffActive' = sniffActive
  <2>1. lastOut' = Byte.id
    BY <1>9 DEF Pass
  <2>2. ASSUME NEW r \in lastOut' + 1 .. made
        PROVE  r \in lost \/ \E j \in DOMAIN ram : j > i' /\ ram[j].id = r
    BY <1>0, <1>3, <2>1, NothingSkipped
  <2>3. FrameInFlight'
    BY <1>1, <1>2, <1>9, <2>2 DEF FrameInFlight
  <2> QED BY <1>5, <1>6, <1>7, <2>3 DEF ServiceInv
<1>10. CASE SquelchStarts
  <2>1. FrameInFlight'
    BY <1>10 DEF SquelchStarts, FrameInFlight
  <2> QED BY <1>5, <1>6, <1>7, <2>1 DEF ServiceInv
<1> QED BY <1>8, <1>9, <1>10

LEMMA DrainCapStep ==
  ASSUME ServiceInv, DrainCap
  PROVE  ServiceInv'
<1>0. TypeOK
  BY DEF ServiceInv
<1>1. /\ Draining
      /\ UNCHANGED <<on, inVars, pc, n, cap, lossSeen, timeVars, txUsed, untold, switches>>
  BY DEF DrainCap
<1>2. capRun \in Nat /\ capRun + 1 \in Nat /\ (capPiped => capRun >= CapIdle)
      /\ {saw, capPiped, sniffActive} \subseteq BOOLEAN
  BY <1>0 DEF TypeOK
<1>3. CASE capPiped /\ Eat /\ UNCHANGED <<capRun, capPiped, sniffActive, saw>>
  BY <1>1, <1>2, <1>3, DrainByteStep
<1>4. CASE /\ ~capPiped /\ capRun + 1 >= CapIdle /\ SquelchStarts
           /\ capRun' = capRun + 1 /\ capPiped' = TRUE /\ sniffActive' = FALSE /\ saw' = FALSE
  BY <1>1, <1>2, <1>4, DrainByteStep
<1>5. CASE /\ ~capPiped /\ Pass /\ capRun' = capRun + 1 /\ saw' = TRUE
           /\ UNCHANGED <<capPiped, sniffActive>>
  BY <1>1, <1>2, <1>5, DrainByteStep
<1> QED BY <1>3, <1>4, <1>5 DEF DrainCap

LEMMA DrainRunStep ==
  ASSUME ServiceInv, DrainRun
  PROVE  ServiceInv'
<1>0. TypeOK
  BY DEF ServiceInv
<1>1. /\ Draining /\ capRun' = 0 /\ capPiped' = FALSE /\ saw' = TRUE /\ sniffActive' = sniffActive
      /\ UNCHANGED <<on, inVars, pc, n, cap, lossSeen, timeVars, txUsed, untold, switches>>
  BY DEF DrainRun
<1>2. sniffActive \in BOOLEAN
  BY <1>0 DEF TypeOK
<1>3. (capPiped /\ Eat) \/ Pass
  BY DEF DrainRun
<1> QED BY <1>1, <1>2, <1>3, DrainByteStep

\* What was drained leaves the RAM ring, and the rest moves up.
LEMMA DrainEndStep ==
  ASSUME ServiceInv, DrainEnd
  PROVE  ServiceInv'
<1> DEFINE l == Len(ram)
<1>0. TypeOK /\ DropNeverForgotten /\ CallInStep /\ RamComplete /\ FrameInFlight
  BY DEF ServiceInv
<1>1. /\ pc = "drain" /\ ram' = SubSeq(ram, i + 1, l) /\ txUsed' = txUsed + out
      /\ pc' = "loss" /\ n' = 0 /\ i' = 0 /\ cap' = 0 /\ out' = 0
      /\ UNCHANGED <<on, made, ramDrop, ovfPioc, lost, saw, capRun, capPiped, lossSeen, sniffActive,
                     timeVars, lastOut, cut, untold>>
  BY DEF DrainEnd
<1>2. UNCHANGED <<lapsed, hbDue>>
  BY <1>1 DEF timeVars
<1>3. /\ l \in Nat /\ i \in Nat /\ i <= l /\ DOMAIN ram = 1 .. l /\ l <= RamCap /\ RamCap \in Nat
      /\ txUsed \in Nat /\ out \in Nat /\ out <= cap /\ cap \in Nat /\ txUsed + cap <= TxCap
      /\ TxCap \in Nat
  <2>1. RamCap \in Nat /\ TxCap \in Nat
    BY Sizes
  <2> QED BY <1>0, <2>1, ServiceTypes
<1>4. /\ ram' \in Seq(Records) /\ Len(ram') = l - i
      /\ \A k \in 1 .. l - i : ram'[k] = ram[i + k]
  <2>1. i + 1 \in Int /\ l \in Int
    BY <1>3
  <2>2. ASSUME NEW k \in i + 1 .. l PROVE ram[k] \in Records
    <3>1. k \in DOMAIN ram
      BY <1>3
    <3> QED BY <1>0, <3>1, RecordTypes
  <2>3. /\ SubSeq(ram, i + 1, l) \in Seq(Records)
        /\ Len(SubSeq(ram, i + 1, l)) = IF i + 1 <= l THEN l - (i + 1) + 1 ELSE 0
        /\ \A k \in 1 .. l - (i + 1) + 1 : SubSeq(ram, i + 1, l)[k] = ram[i + 1 + k - 1]
    BY <2>1, <2>2, SubSeqProperties
  <2> HIDE DEF l
  <2>4. (IF i + 1 <= l THEN l - (i + 1) + 1 ELSE 0) = l - i /\ l - (i + 1) + 1 = l - i
    BY <1>3
  <2>5. \A k \in 1 .. l - i : i + 1 + k - 1 = i + k
    BY <1>3
  <2> QED BY <1>1, <2>3, <2>4, <2>5
<1>5. DOMAIN ram' = 1 .. l - i
  BY <1>4, LenProperties
<1> HIDE DEF l
<1>6. \A k \in DOMAIN ram' : i + k \in DOMAIN ram /\ i + k > i /\ ram'[k] = ram[i + k]
  BY <1>3, <1>4, <1>5
<1>7. \A k \in DOMAIN ram : k > i => k - i \in DOMAIN ram' /\ ram'[k - i] = ram[k] /\ k - i > 0
  <2> SUFFICES ASSUME NEW k \in DOMAIN ram, k > i
               PROVE  k - i \in DOMAIN ram' /\ ram'[k - i] = ram[k] /\ k - i > 0
    OBVIOUS
  <2>1. k - i \in 1 .. l - i /\ i + (k - i) = k
    BY <1>3
  <2> QED BY <1>3, <1>4, <1>5, <2>1
<1>8. TypeOK'
  <2>1. Len(ram') <= RamCap /\ txUsed' \in 0 .. TxCap /\ txUsed' + 0 <= TxCap
    BY <1>1, <1>3, <1>4, SMTT(20)
  <2>2. n' \in Nat /\ cap' \in Nat /\ i' \in 0 .. n' /\ n' <= Len(ram') /\ out' \in 0 .. cap'
    BY <1>1, <1>3, <1>4
  <2> QED BY <1>0, <1>1, <1>2, <1>4, <2>1, <2>2 DEF TypeOK
<1>9. DropNeverForgotten' /\ CallInStep'
  BY <1>0, <1>1 DEF DropNeverForgotten, CallInStep
<1>10. RamComplete'
  <2>1. ASSUME NEW j \in DOMAIN ram', NEW k \in DOMAIN ram', j < k
        PROVE  ram'[j].id <= ram'[k].id
    <3>1. i + j < i + k
      BY <1>3, <1>5, <2>1
    <3> QED BY <1>0, <1>6, <3>1 DEF RamComplete
  <2>2. ASSUME NEW k \in DOMAIN ram', NEW r \in ram'[k].id + 1 .. made
        PROVE  r \in lost \/ \E j \in DOMAIN ram' : ram'[j].id = r
    <3>1. i + k \in DOMAIN ram /\ ram'[k] = ram[i + k] /\ ram[i + k].id \in Int
      BY <1>0, <1>6, RecordTypes
    <3>2. r \in lost \/ \E j \in DOMAIN ram : ram[j].id = r
      BY <1>0, <3>1 DEF RamComplete
    <3>3. ASSUME NEW j \in DOMAIN ram, ram[j].id = r
          PROVE  \E m \in DOMAIN ram' : ram'[m].id = r
      <4>1. ram[j].id > ram[i + k].id
        BY <3>1, <3>3
      <4>2. ~(j < i + k) /\ j # i + k
        BY <1>0, <3>1, <4>1, RecordTypes DEF RamComplete
      <4>3. j > i
        BY <1>3, <1>5, <4>2
      <4> QED BY <1>7, <3>3, <4>3
    <3> QED BY <3>2, <3>3
  <2>3. \A k \in DOMAIN ram' : ram'[k].id <= made /\ lastOut <= ram'[k].id
    BY <1>0, <1>6 DEF RamComplete
  <2>4. lastOut <= made
    BY <1>0 DEF RamComplete
  <2>5. made' = made /\ lastOut' = lastOut /\ lost' = lost
    BY <1>1
  <2> QED BY <2>1, <2>2, <2>3, <2>4, <2>5 DEF RamComplete
<1>11. FrameInFlight'
  <2>1. ASSUME on, ~cut, lastOut > 0, NEW r \in lastOut + 1 .. made
        PROVE  r \in lost \/ \E j \in DOMAIN ram' : j > 0 /\ ram'[j].id = r
    <3>1. r \in lost \/ \E j \in DOMAIN ram : j > i /\ ram[j].id = r
      BY <1>0, <2>1 DEF FrameInFlight
    <3> QED BY <1>7, <3>1
  <2>2. on /\ ~cut => sniffActive \/ saw
    BY <1>0 DEF FrameInFlight
  <2>3. /\ i' = 0 /\ pc' = "loss"
        /\ UNCHANGED <<on, made, lastOut, lost, capPiped, cut, saw, sniffActive>>
    BY <1>1
  <2>4. capPiped => cut
    BY <1>0 DEF FrameInFlight
  <2> QED BY <2>1, <2>2, <2>3, <2>4 DEF FrameInFlight
<1> QED BY <1>8, <1>9, <1>10, <1>11 DEF ServiceInv
------------------------------------------------------------------------------
\* service(): markers.

\* The watermark moves only with a marker that found room.
LEMMA MarkLossStep ==
  ASSUME ServiceInv, MarkLoss
  PROVE  ServiceInv'
<1> DEFINE written == ramDrop # lossSeen /\ Free > 0
<1>0. TypeOK /\ DropNeverForgotten /\ CallInStep /\ RamComplete /\ FrameInFlight
  BY DEF ServiceInv
<1>1. /\ pc = "loss" /\ pc' = "activity"
      /\ txUsed' = IF written THEN txUsed + 1 ELSE txUsed
      /\ untold' = IF written THEN {} ELSE untold
      /\ IF ramDrop # lossSeen THEN Watermark(written) ELSE UNCHANGED lossSeen
      /\ UNCHANGED <<on, inVars, drainVars, saw, capRun, capPiped, sniffActive, timeVars, lastOut, cut>>
  BY DEF MarkLoss
<1>2. UNCHANGED <<made, ram, ramDrop, ovfPioc, lost, n, i, cap, out, lapsed, hbDue>>
  BY <1>1 DEF inVars, drainVars, timeVars
<1>3. /\ on /\ n = 0 /\ i = 0 /\ cap = 0 /\ out = 0
  BY <1>0, <1>1 DEF CallInStep, FrameInFlight
<1>4. lossSeen' = IF written THEN ramDrop ELSE lossSeen
  BY <1>1 DEF Watermark
<1>5. TypeOK'
  <2>1. txUsed \in Nat /\ txUsed <= TxCap /\ TxCap \in Nat /\ ramDrop \in Nat /\ lossSeen \in 0 .. ramDrop
    BY <1>0, Sizes DEF TypeOK
  <2>2. txUsed' \in 0 .. TxCap /\ txUsed' + 0 <= TxCap
    BY <1>1, <2>1 DEF Free
  <2>3. lossSeen' \in 0 .. ramDrop
    BY <1>4, <2>1
  <2>4. untold' \subseteq {"drop", "overrun"}
    BY <1>0, <1>1 DEF TypeOK
  <2> QED BY <1>0, <1>1, <1>2, <1>3, <2>2, <2>3, <2>4 DEF TypeOK
<1>6. DropNeverForgotten'
  BY <1>0, <1>1, <1>2, <1>4 DEF DropNeverForgotten
<1>7. CallInStep'
  BY <1>1, <1>2, <1>3 DEF CallInStep
<1>8. RamComplete'
  BY <1>0, <1>1, <1>2, RamCompleteKept
<1>9. FrameInFlight'
  BY <1>0, <1>1, <1>2, FrameInFlightKept
<1> QED BY <1>5, <1>6, <1>7, <1>8, <1>9 DEF ServiceInv

\* What was passed on in this call marks the frame as in flight.
LEMMA NoteActivityStep ==
  ASSUME ServiceInv, NoteActivity
  PROVE  ServiceInv'
<1>0. TypeOK /\ DropNeverForgotten /\ CallInStep /\ RamComplete /\ FrameInFlight
  BY DEF ServiceInv
<1>1. /\ pc = "activity" /\ pc' = "separator"
      /\ sniffActive' = (sniffActive \/ Busy) /\ lapsed' = (lapsed /\ ~Busy)
      /\ UNCHANGED <<on, inVars, drainVars, saw, capRun, capPiped, lossSeen, hbDue, outVars, untold>>
  BY DEF NoteActivity
<1>2. UNCHANGED <<made, ram, ramDrop, ovfPioc, lost, n, i, cap, out, txUsed, lastOut, cut>>
  BY <1>1 DEF inVars, drainVars, outVars
<1>3. TypeOK'
  <2>1. sniffActive' \in BOOLEAN /\ lapsed' \in BOOLEAN
    <3>1. saw \in BOOLEAN /\ sniffActive \in BOOLEAN /\ lapsed \in BOOLEAN
      BY <1>0 DEF TypeOK
    <3> QED BY <1>1, <3>1
  <2> QED BY <1>0, <1>1, <1>2, <2>1 DEF TypeOK
<1>4. DropNeverForgotten' /\ CallInStep'
  BY <1>0, <1>1, <1>2 DEF DropNeverForgotten, CallInStep
<1>5. RamComplete'
  BY <1>0, <1>1, <1>2, RamCompleteKept
<1>6. FrameInFlight'
  BY <1>0, <1>1, <1>2, FrameInFlightKept DEF Busy
<1> QED BY <1>3, <1>4, <1>5, <1>6 DEF ServiceInv

\* The frame is taken as closed only by the 0xFF that closes it.
LEMMA SeparateStep ==
  ASSUME ServiceInv, Separate
  PROVE  ServiceInv'
<1>0. TypeOK /\ DropNeverForgotten /\ CallInStep /\ RamComplete /\ FrameInFlight
  BY DEF ServiceInv
<1>1. /\ pc = "separator" /\ pc' = "heartbeat"
      /\ UNCHANGED <<on, inVars, drainVars, saw, capRun, capPiped, lossSeen, timeVars, lastOut, untold>>
  BY DEF Separate
<1>2. UNCHANGED <<made, ram, ramDrop, ovfPioc, lost, n, i, cap, out, lapsed, hbDue>>
  BY <1>1 DEF inVars, drainVars, timeVars
<1>3. \/ UNCHANGED <<txUsed, cut, sniffActive>>
      \/ Free > 0 /\ txUsed' = txUsed + 1 /\ cut' = TRUE /\ sniffActive' = FALSE
  BY DEF Separate, WriteBoundary
<1>4. n = 0 /\ i = 0 /\ cap = 0 /\ out = 0
  BY <1>0, <1>1 DEF CallInStep
<1>5. TypeOK'
  <2>1. txUsed \in Nat /\ txUsed <= TxCap /\ TxCap \in Nat
    BY <1>0, Sizes DEF TypeOK
  <2>2. txUsed' \in 0 .. TxCap /\ txUsed' + 0 <= TxCap
    BY <1>3, <2>1 DEF Free
  <2>3. cut' \in BOOLEAN /\ sniffActive' \in BOOLEAN
    BY <1>0, <1>3 DEF TypeOK
  <2> QED BY <1>0, <1>1, <1>2, <1>4, <2>2, <2>3 DEF TypeOK
<1>6. DropNeverForgotten' /\ CallInStep'
  BY <1>0, <1>1, <1>2 DEF DropNeverForgotten, CallInStep
<1>7. RamComplete'
  BY <1>0, <1>1, <1>2, RamCompleteKept
<1>8. FrameInFlight'
  BY <1>0, <1>1, <1>2, <1>3, FrameInFlightKept
<1> QED BY <1>5, <1>6, <1>7, <1>8 DEF ServiceInv

\* The mode block is written whole or not at all.
LEMMA HeartbeatStep ==
  ASSUME ServiceInv, Heartbeat
  PROVE  ServiceInv'
<1>0. TypeOK /\ DropNeverForgotten /\ CallInStep /\ RamComplete /\ FrameInFlight
  BY DEF ServiceInv
<1>1. /\ pc = "heartbeat" /\ pc' = "idle"
      /\ UNCHANGED <<on, inVars, drainVars, saw, capRun, capPiped, lossSeen, sniffActive, lapsed,
                     lastOut, untold>>
  BY DEF Heartbeat
<1>2. UNCHANGED <<made, ram, ramDrop, ovfPioc, lost, n, i, cap, out>>
  BY <1>1 DEF inVars, drainVars
<1>3. /\ hbDue' \in {hbDue, FALSE}
      /\ \/ UNCHANGED <<txUsed, cut>>
         \/ ModeLen <= Free /\ txUsed' = txUsed + ModeLen /\ cut' = TRUE
  BY DEF Heartbeat
<1>4. n = 0 /\ i = 0 /\ cap = 0 /\ out = 0
  BY <1>0, <1>1 DEF CallInStep
<1>5. TypeOK'
  <2>1. txUsed \in Nat /\ txUsed <= TxCap /\ TxCap \in Nat /\ ModeLen \in Nat
    BY <1>0, Sizes DEF TypeOK
  <2>2. txUsed' \in 0 .. TxCap /\ txUsed' + 0 <= TxCap
    BY <1>3, <2>1 DEF Free
  <2>3. cut' \in BOOLEAN /\ hbDue' \in BOOLEAN
    BY <1>0, <1>3 DEF TypeOK
  <2> QED BY <1>0, <1>1, <1>2, <1>4, <2>2, <2>3 DEF TypeOK
<1>6. DropNeverForgotten' /\ CallInStep'
  BY <1>0, <1>1, <1>2 DEF DropNeverForgotten, CallInStep
<1>7. RamComplete'
  BY <1>0, <1>1, <1>2, RamCompleteKept
<1>8. FrameInFlight'
  BY <1>0, <1>1, <1>2, <1>3, FrameInFlightKept
<1> QED BY <1>5, <1>6, <1>7, <1>8 DEF ServiceInv

------------------------------------------------------------------------------
\* Mode switch.

\* stop() forgets what was captured and not written.
LEMMA ServiceStopStep ==
  ASSUME ServiceInv, Stop
  PROVE  ServiceInv'
<1>0. TypeOK /\ CallInStep /\ RamComplete /\ FrameInFlight
  BY DEF ServiceInv
<1>1. /\ pc = "idle" /\ on' = FALSE /\ ram' = <<>> /\ sniffActive' = FALSE /\ capRun' = 0 /\ capPiped' = FALSE
      /\ UNCHANGED <<made, ramDrop, ovfPioc, lost, pc, drainVars, saw, lossSeen, timeVars, outVars, untold>>
  BY DEF Stop
<1>2. UNCHANGED <<n, i, cap, out, lapsed, hbDue, txUsed, lastOut, cut>>
  BY <1>1 DEF drainVars, timeVars, outVars
<1>3. ram' \in Seq(Records) /\ Len(ram') = 0 /\ DOMAIN ram' = {}
  BY <1>1, EmptySeq
<1>4. n = 0 /\ i = 0 /\ cap = 0 /\ out = 0
  BY <1>0, <1>1 DEF CallInStep
<1>5. TypeOK'
  <2>1. Len(ram') <= RamCap /\ n <= Len(ram') /\ capRun' \in Nat
    BY <1>1, <1>3, <1>4, Sizes
  <2> QED BY <1>0, <1>1, <1>2, <1>3, <2>1 DEF TypeOK
<1>6. RamComplete'
  BY <1>0, <1>1, <1>2, <1>3 DEF RamComplete
<1> QED BY <1>1, <1>2, <1>4, <1>5, <1>6
        DEF ServiceInv, DropNeverForgotten, CallInStep, FrameInFlight

\* begin() follows the boundary of the seam.
LEMMA ServiceRestartStep ==
  ASSUME ServiceInv, Begin
  PROVE  ServiceInv'
<1>0. TypeOK /\ CallInStep /\ RamComplete /\ FrameInFlight
  BY DEF ServiceInv
<1>1. /\ ~on /\ Free >= 3 /\ on' = TRUE /\ ramDrop' = 0 /\ ovfPioc' = 0 /\ lossSeen' = 0 /\ capRun' = 0
      /\ capPiped' = FALSE
      /\ sniffActive' = FALSE /\ lapsed' = FALSE /\ hbDue' = FALSE
      /\ txUsed' = IF txUsed + 3 + ModeLen <= TxCap THEN txUsed + 3 + ModeLen ELSE txUsed + 3
      /\ cut' = TRUE /\ untold' = {}
      /\ UNCHANGED <<made, ram, lost, pc, drainVars, saw, lastOut>>
  BY DEF Begin
<1>2. UNCHANGED <<n, i, cap, out>>
  BY <1>1 DEF drainVars
<1>3. pc = "idle" /\ n = 0 /\ i = 0 /\ cap = 0 /\ out = 0
  BY <1>0, <1>1 DEF CallInStep
<1>4. TypeOK'
  <2>1. txUsed \in Nat /\ TxCap \in Nat /\ ModeLen \in Nat
    BY <1>0, Sizes DEF TypeOK
  <2>2. txUsed' \in 0 .. TxCap /\ txUsed' + 0 <= TxCap
    BY <1>1, <2>1 DEF Free
  <2>3. lossSeen' \in 0 .. ramDrop' /\ ramDrop' \in Nat /\ capRun' \in Nat
    BY <1>1
  <2> QED BY <1>0, <1>1, <1>2, <1>3, <2>2, <2>3 DEF TypeOK
<1>5. RamComplete'
  BY <1>0, <1>1, <1>2, RamCompleteKept
<1> QED BY <1>1, <1>2, <1>3, <1>4, <1>5
        DEF ServiceInv, DropNeverForgotten, CallInStep, FrameInFlight

------------------------------------------------------------------------------
\* Together.

LEMMA ServiceStep == ServiceInv /\ [Next]_vars => ServiceInv'
<1> SUFFICES ASSUME ServiceInv, [Next]_vars PROVE ServiceInv'
  OBVIOUS
<1>1. ASSUME NEW kind \in {"run", "cap"}, NEW skip \in 0 .. MaxSkip, Feed(kind, skip) PROVE ServiceInv'
  BY <1>1, FeedStep
<1>2. CASE Lapse \/ HeartbeatDue
  BY <1>2, ClockStep
<1>3. ASSUME NEW k \in 1 .. TxCap, TxDrain(k) PROVE ServiceInv'
  BY <1>3, TxDrainStep
<1>4. CASE ServiceBegin
  BY <1>4, ServiceBeginStep
<1>5. CASE DrainCap
  BY <1>5, DrainCapStep
<1>6. CASE DrainRun
  BY <1>6, DrainRunStep
<1>7. CASE DrainEnd
  BY <1>7, DrainEndStep
<1>8. CASE MarkLoss
  BY <1>8, MarkLossStep
<1>9. CASE NoteActivity
  BY <1>9, NoteActivityStep
<1>10. CASE Separate
  BY <1>10, SeparateStep
<1>11. CASE Heartbeat
  BY <1>11, HeartbeatStep
<1>12. CASE Stop
  BY <1>12, ServiceStopStep
<1>13. CASE Begin
  BY <1>13, ServiceRestartStep
<1>14. CASE UNCHANGED vars
  BY <1>14 DEF vars, inVars, drainVars, timeVars, outVars, ServiceInv, TypeOK, DropNeverForgotten,
              CallInStep, RamComplete, FrameInFlight
<1> QED BY <1>1, <1>2, <1>3, <1>4, <1>5, <1>6, <1>7, <1>8, <1>9, <1>10, <1>11, <1>12, <1>13, <1>14
        DEF Next, Service, HostReads

\* Neither ring is overfilled, in-place bytes included; a drop of the RAM ring the
\* host has not been told of keeps the watermark behind (an overrun of the PIOC
\* FIFO does not: it is in ovfPioc_ only); and a frame is known to be in flight
\* until its 0xFF is written, with nothing of it missing but what the interrupt lost.
THEOREM ServiceInvariant == Spec => []ServiceInv
BY ServiceInit, ServiceStep, PTL DEF Spec

\* Between two data bytes of one frame nothing is missing but what the interrupt
\* lost: whatever else service() leaves out is behind a 0xFF.
THEOREM FramesWhole == Spec => NothingMissingInFrame
<1>1. ServiceInv /\ [Next]_vars
        => [lastOut' # lastOut /\ lastOut > 0 =>
              /\ lastOut' > lastOut
              /\ cut \/ \A r \in lastOut + 1 .. lastOut' - 1 : r \in lost]_vars
  <2> SUFFICES ASSUME ServiceInv, Next, lastOut' # lastOut, lastOut > 0
               PROVE  /\ lastOut' > lastOut
                      /\ cut \/ \A r \in lastOut + 1 .. lastOut' - 1 : r \in lost
    OBVIOUS
  <2>0. TypeOK /\ CallInStep /\ RamComplete /\ FrameInFlight
    BY DEF ServiceInv
  <2>1. Draining /\ Pass
    BY DEF Next, Feed, Lapse, HeartbeatDue, HostReads, TxDrain, Service, ServiceBegin, DrainCap,
           DrainRun, DrainEnd, MarkLoss, NoteActivity, Separate, Heartbeat, Stop, Begin, Eat,
           SquelchStarts, inVars, outVars
  <2>2. i \in Nat /\ i + 1 \in DOMAIN ram /\ i + 1 > i /\ Byte = ram[i + 1] /\ pc = "drain"
        /\ DOMAIN ram = 1 .. Len(ram) /\ lastOut \in Int /\ made \in Int
    BY <2>0, <2>1, ServiceTypes DEF Draining, Byte
  <2>3. lastOut' = ram[i + 1].id /\ ram[i + 1].id \in Int
    BY <2>0, <2>1, <2>2, RecordTypes DEF Pass
  <2>4. lastOut <= ram[i + 1].id /\ ram[i + 1].id <= made
    BY <2>0, <2>2 DEF RamComplete
  <2>5. ASSUME ~cut, NEW r \in lastOut + 1 .. lastOut' - 1
        PROVE  r \in lost
    <3>1. on
      BY <2>0, <2>2 DEF CallInStep
    <3>2. r \in lastOut + 1 .. made /\ r < ram[i + 1].id
      BY <2>2, <2>3, <2>4
    <3>3. r \in lost \/ \E j \in DOMAIN ram : j > i /\ ram[j].id = r
      BY <2>0, <2>5, <3>1, <3>2 DEF FrameInFlight
    <3>4. ASSUME NEW j \in DOMAIN ram, j > i PROVE ram[j].id # r
      <4>1. j = i + 1 \/ i + 1 < j
        BY <2>2, <3>4
      <4>2. ram[i + 1].id <= ram[j].id /\ ram[j].id \in Int
        BY <2>0, <2>2, <2>3, <4>1, RecordTypes DEF RamComplete
      <4> QED BY <2>3, <3>2, <4>2
    <3> QED BY <3>3, <3>4
  <2> QED BY <2>2, <2>3, <2>4, <2>5
<1> QED BY <1>1, ServiceInit, ServiceStep, PTL DEF Spec, NothingMissingInFrame

\* The heartbeat is written while no frame is in flight.
THEOREM HeartbeatOutsideFrames == Spec => HeartbeatBetweenFrames
<1>1. ServiceInv /\ [Next]_vars => [on /\ hbDue /\ ~hbDue' /\ on' => cut]_vars
  <2> SUFFICES ASSUME ServiceInv, Next, on, hbDue, ~hbDue' PROVE cut
    OBVIOUS
  <2>1. Heartbeat
    BY DEF Next, Feed, Lapse, HeartbeatDue, HostReads, TxDrain, Service, ServiceBegin, DrainCap,
           DrainRun, DrainEnd, MarkLoss, NoteActivity, Separate, Stop, Begin, timeVars
  <2>2. pc = "heartbeat" /\ ~sniffActive
    BY <2>1 DEF Heartbeat
  <2> QED BY <2>2 DEF ServiceInv, FrameInFlight
<1> QED BY <1>1, ServiceInit, ServiceStep, PTL DEF Spec, HeartbeatBetweenFrames
=============================================================================
