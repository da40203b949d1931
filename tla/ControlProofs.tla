----------------------------- MODULE ControlProofs -----------------------------
(***************************************************************************)
(* Proofs about the two control planes: ModeSwitch, for every size of the   *)
(* two rings and of the parser's line and any input from the host; and      *)
(* UsbControl, for every packet size of the endpoint the line coding fits   *)
(* in, every length of the descriptors and every length asked for.          *)
(***************************************************************************)
EXTENDS ModeSwitch, UsbControl, SequenceTheorems, TLAPS

------------------------------------------------------------------------------
\* The mode switch: the stream on its way to the page.

LEMMA ModeSizes ==
  /\ LineMax \in Nat \ {0} /\ TxCap \in Nat /\ RamCap \in Nat
  /\ TxCap >= 4 /\ RamCap >= 4
BY ModeSwitchAssumption

\* Pieces of the stream can be put together in either order.
LEMMA Regrouped ==
  ASSUME NEW s \in Seq(Symbols), NEW t \in Seq(Symbols), NEW u \in Seq(Symbols)
  PROVE  (s \o t) \o u = s \o (t \o u)
BY ConcatAssociative, SMTT(30)

\* Taking the head of a sequence, and putting something at its end.
LEMMA Taken ==
  ASSUME NEW S, NEW s \in Seq(S), s # <<>>
  PROVE  /\ Len(s) \in Nat \ {0} /\ DOMAIN s = 1 .. Len(s)
         /\ Head(s) = s[1] /\ s[1] \in S
         /\ Tail(s) \in Seq(S) /\ Len(Tail(s)) = Len(s) - 1
         /\ DOMAIN Tail(s) = 1 .. Len(s) - 1
         /\ \A k \in 1 .. Len(s) - 1 : Tail(s)[k] = s[k + 1]
<1>1. Len(s) \in Nat \ {0} /\ DOMAIN s = 1 .. Len(s)
  BY EmptySeq, LenProperties
<1>2. Head(s) \in S /\ Tail(s) \in Seq(S) /\ Len(Tail(s)) = Len(s) - 1
      /\ \A k \in 1 .. Len(Tail(s)) : Tail(s)[k] = s[k + 1]
  BY HeadTailProperties
<1>3. DOMAIN Tail(s) = 1 .. Len(Tail(s))
  BY <1>2, LenProperties
<1>4. Head(s) = s[1] /\ s[1] \in S
  BY <1>1, ElementOfSeq
<1> QED BY <1>1, <1>2, <1>3, <1>4

LEMMA Joined ==
  ASSUME NEW S, NEW s \in Seq(S), NEW t \in Seq(S)
  PROVE  /\ s \o t \in Seq(S) /\ Len(s \o t) = Len(s) + Len(t)
         /\ Len(s) \in Nat /\ Len(t) \in Nat
         /\ DOMAIN s = 1 .. Len(s) /\ DOMAIN t = 1 .. Len(t)
         /\ DOMAIN (s \o t) = 1 .. Len(s) + Len(t)
         /\ \A k \in 1 .. Len(s) : (s \o t)[k] = s[k]
         /\ \A k \in 1 .. Len(t) : (s \o t)[Len(s) + k] = t[k]
         /\ \A k \in 1 .. Len(s) + Len(t) :
              (s \o t)[k] = IF k <= Len(s) THEN s[k] ELSE t[k - Len(s)]
<1>1. /\ s \o t \in Seq(S) /\ Len(s \o t) = Len(s) + Len(t)
      /\ \A k \in 1 .. Len(s) + Len(t) :
           (s \o t)[k] = IF k <= Len(s) THEN s[k] ELSE t[k - Len(s)]
  BY ConcatProperties
<1>2. /\ Len(s) \in Nat /\ Len(t) \in Nat
      /\ DOMAIN s = 1 .. Len(s) /\ DOMAIN t = 1 .. Len(t)
      /\ DOMAIN (s \o t) = 1 .. Len(s \o t)
  BY <1>1, LenProperties
<1>3. \A k \in 1 .. Len(t) : /\ Len(s) + k \in 1 .. Len(s) + Len(t)
                             /\ ~(Len(s) + k <= Len(s)) /\ Len(s) + k - Len(s) = k
  BY <1>2
<1>4. \A k \in 1 .. Len(s) : k \in 1 .. Len(s) + Len(t) /\ k <= Len(s)
  BY <1>2
<1> QED BY <1>1, <1>2, <1>3, <1>4

\* The first n elements and the others.
LEMMA Split ==
  ASSUME NEW S, NEW s \in Seq(S), NEW n \in Nat, n <= Len(s)
  PROVE  /\ SubSeq(s, 1, n) \in Seq(S) /\ Len(SubSeq(s, 1, n)) = n
         /\ \A k \in 1 .. n : SubSeq(s, 1, n)[k] = s[k]
         /\ SubSeq(s, n + 1, Len(s)) \in Seq(S)
         /\ Len(SubSeq(s, n + 1, Len(s))) = Len(s) - n
         /\ \A k \in 1 .. Len(s) - n : SubSeq(s, n + 1, Len(s))[k] = s[n + k]
         /\ SubSeq(s, 1, n) \o SubSeq(s, n + 1, Len(s)) = s
<1>1. Len(s) \in Nat /\ \A k \in 1 .. Len(s) : s[k] \in S
  BY LenProperties
<1>2. /\ SubSeq(s, 1, n) \in Seq(S)
      /\ Len(SubSeq(s, 1, n)) = IF 1 <= n THEN n - 1 + 1 ELSE 0
      /\ \A k \in 1 .. n - 1 + 1 : SubSeq(s, 1, n)[k] = s[1 + k - 1]
  BY <1>1, SubSeqProperties
<1>3. /\ SubSeq(s, n + 1, Len(s)) \in Seq(S)
      /\ Len(SubSeq(s, n + 1, Len(s))) = IF n + 1 <= Len(s) THEN Len(s) - (n + 1) + 1 ELSE 0
      /\ \A k \in 1 .. Len(s) - (n + 1) + 1 : SubSeq(s, n + 1, Len(s))[k] = s[n + 1 + k - 1]
  BY <1>1, SubSeqProperties
<1>4. n - 1 + 1 = n /\ Len(s) - (n + 1) + 1 = Len(s) - n
      /\ \A k \in Nat : 1 + k - 1 = k /\ n + 1 + k - 1 = n + k
  BY <1>1
<1>5. SubSeq(s, 1, n) \o SubSeq(s, n + 1, Len(s)) = SubSeq(s, 1, Len(s))
  <2>1. 1 \in 1 .. Len(s) + 1 /\ n \in 1 - 1 .. Len(s) /\ Len(s) \in n .. Len(s)
    BY <1>1
  <2> QED BY <2>1, ConcatAdjacentSubSeq
<1>6. SubSeq(s, 1, Len(s)) = s
  BY SubSeqFull
<1>7. Len(SubSeq(s, 1, n)) = n /\ Len(SubSeq(s, n + 1, Len(s))) = Len(s) - n
  <2>1. (IF 1 <= n THEN n - 1 + 1 ELSE 0) = n
    OBVIOUS
  <2>2. (IF n + 1 <= Len(s) THEN Len(s) - (n + 1) + 1 ELSE 0) = Len(s) - n
    BY <1>1
  <2> QED BY <1>2, <1>3, <2>1, <2>2
<1>8. \A k \in 1 .. n : SubSeq(s, 1, n)[k] = s[k]
  BY <1>1, <1>2, <1>4
<1>9. \A k \in 1 .. Len(s) - n : SubSeq(s, n + 1, Len(s))[k] = s[n + k]
  BY <1>1, <1>3, <1>4
<1> QED BY <1>2, <1>3, <1>5, <1>6, <1>7, <1>8, <1>9

LEMMA SymbolTypes ==
  /\ Ff \in Symbols /\ Fd \in Symbols
  /\ Ff.kind = "ff" /\ Fd.kind = "fd" /\ Ff.mode = "-" /\ Fd.mode = "-"
  /\ \A m \in Modes : /\ Data(m) \in Symbols /\ Data(m).kind = "data" /\ Data(m).mode = m
                      /\ <<Data(m)>> \in Seq(Symbols) /\ Len(<<Data(m)>>) = 1
                      /\ Meta(m) \in Seq(Symbols) /\ Len(Meta(m)) = 3
                      /\ Meta(m)[1].kind = "fe" /\ Meta(m)[1].mode = m
                      /\ Meta(m)[2].kind = "end" /\ Meta(m)[2].mode = "-"
                      /\ Meta(m)[3].kind = "ff" /\ Meta(m)[3].mode = "-"
  /\ Seam \in Seq(Symbols) /\ Len(Seam) = 3
  /\ Seam[1].kind = "ff" /\ Seam[2].kind = "fd" /\ Seam[3].kind = "ff"
  /\ <<Ff>> \in Seq(Symbols) /\ Len(<<Ff>>) = 1 /\ <<>> \in Seq(Symbols) /\ Len(<<>>) = 0
<1>1. /\ Ff \in Symbols /\ Fd \in Symbols /\ Sym("end", "-") \in Symbols
      /\ Ff.kind = "ff" /\ Fd.kind = "fd" /\ Ff.mode = "-" /\ Fd.mode = "-"
      /\ Sym("end", "-").kind = "end" /\ Sym("end", "-").mode = "-"
  BY DEF Symbols, Ff, Fd, Sym
<1>2. ASSUME NEW m \in Modes
      PROVE  /\ Data(m) \in Symbols /\ Data(m).kind = "data" /\ Data(m).mode = m
             /\ Sym("fe", m) \in Symbols
             /\ Sym("fe", m).kind = "fe" /\ Sym("fe", m).mode = m
  BY DEF Symbols, Data, Sym
<1>3. ASSUME NEW m \in Modes
      PROVE  /\ <<Data(m)>> \in Seq(Symbols) /\ Len(<<Data(m)>>) = 1
             /\ Meta(m) \in Seq(Symbols) /\ Len(Meta(m)) = 3
             /\ Meta(m)[1] = Sym("fe", m) /\ Meta(m)[2] = Sym("end", "-") /\ Meta(m)[3] = Ff
  BY <1>1, <1>2 DEF Meta
<1>4. /\ Seam \in Seq(Symbols) /\ Len(Seam) = 3
      /\ Seam[1] = Ff /\ Seam[2] = Fd /\ Seam[3] = Ff
      /\ <<Ff>> \in Seq(Symbols) /\ Len(<<Ff>>) = 1 /\ <<>> \in Seq(Symbols) /\ Len(<<>>) = 0
  BY <1>1 DEF Seam
<1> QED BY <1>1, <1>2, <1>3, <1>4


------------------------------------------------------------------------------
\* Data a seam apart.

LEMMA SeamHere ==
  ASSUME NEW s, NEW n \in Nat, SeamAt(s, n + 1)
  PROVE  \A j \in 0 .. n : SeamBetween(s, j, n + 4)
BY DEF SeamBetween

\* A seam in front of a place is one in front of every later place ...
LEMMA SeamKept ==
  ASSUME NEW s, NEW t, NEW p, NEW n \in Nat, \A k \in 1 .. n : s[k] = t[k],
         NEW j \in Nat, NEW k \in 1 .. n + 1, NEW i \in Nat, k <= i
  PROVE  /\ SeamBetween(s, j, k) => SeamBetween(t, j, i)
         /\ SeamBegun(p, s, k) => SeamBegun(p, t, i)
<1>1. ASSUME SeamBetween(s, j, k) PROVE SeamBetween(t, j, i)
  <2>1. PICK l \in j + 1 .. k - 3 : SeamAt(s, l)
    BY <1>1 DEF SeamBetween
  <2>2. l \in j + 1 .. i - 3 /\ l \in 1 .. n /\ l + 1 \in 1 .. n /\ l + 2 \in 1 .. n
    OBVIOUS
  <2>3. SeamAt(t, l)
    BY <2>1, <2>2 DEF SeamAt
  <2> QED BY <2>2, <2>3 DEF SeamBetween
<1>2. ASSUME SeamBegun(p, s, k) PROVE SeamBegun(p, t, i)
  <2>1. (k > 1 => 1 \in 1 .. n /\ i > 1) /\ (k > 2 => 2 \in 1 .. n /\ i > 2)
    OBVIOUS
  <2> QED BY <1>2, <2>1 DEF SeamBegun
<1> QED BY <1>1, <1>2

\* ... so whatever of the same mode comes instead of a piece of data, the seams do.
SameUpTo(s, t, n) == \A k \in 1 .. n : s[k] = t[k]
OneMode(t, n, l, m) == \A k \in n + 1 .. l : t[k].kind = "data" => t[k].mode = m
EndsInData(s, n, m) == DOMAIN s = 1 .. n + 1 /\ s[n + 1].kind = "data" /\ s[n + 1].mode = m

LEMMA ApartAlong ==
  ASSUME NEW p, NEW m, NEW n \in Nat, NEW s, NEW t, NEW l \in Nat, DOMAIN t = 1 .. l,
         EndsInData(s, n, m), SameUpTo(s, t, n), OneMode(t, n, l, m), Apart(p, s)
  PROVE  Apart(p, t)
<1> USE DEF SameUpTo, OneMode, EndsInData
<1>0. \A k \in DOMAIN t : k \in 1 .. n \/ (k \in n + 1 .. l /\ n + 1 <= k)
  OBVIOUS
<1>1. ASSUME NEW j \in DOMAIN t, NEW k \in DOMAIN t, j < k,
             t[j].kind = "data", t[k].kind = "data", t[j].mode # t[k].mode
      PROVE  SeamBetween(t, j, k)
  <2>1. /\ j \in 1 .. n /\ j \in DOMAIN s /\ j \in Nat
        /\ n + 1 \in DOMAIN s /\ n + 1 \in 1 .. n + 1
    BY <1>0, <1>1
  <2>2. CASE k \in 1 .. n
    <3>1. SeamBetween(s, j, k)
      BY <1>1, <2>1, <2>2 DEF Apart
    <3>2. k \in 1 .. n + 1 /\ k \in Nat /\ k <= k
      BY <2>2
    <3> QED BY <3>1, <3>2, <2>1, SeamKept
  <2>3. CASE k \in n + 1 .. l
    <3>1. SeamBetween(s, j, n + 1)
      BY <1>1, <2>1, <2>3 DEF Apart
    <3>2. k \in Nat /\ n + 1 <= k
      BY <2>3
    <3> QED BY <3>1, <3>2, <2>1, SeamKept
  <2> QED BY <1>0, <2>2, <2>3
<1>2. ASSUME NEW k \in DOMAIN t, t[k].kind = "data", p.last \notin {"-", t[k].mode}
      PROVE  p.cut \/ SeamBegun(p, t, k) \/ SeamBetween(t, 0, k)
  <2>1. n + 1 \in DOMAIN s /\ n + 1 \in 1 .. n + 1 /\ 0 \in Nat
    OBVIOUS
  <2>2. CASE k \in 1 .. n
    <3>1. p.cut \/ SeamBegun(p, s, k) \/ SeamBetween(s, 0, k)
      BY <1>2, <2>2 DEF Apart
    <3>2. k \in 1 .. n + 1 /\ k \in Nat /\ k <= k
      BY <2>2
    <3> QED BY <3>1, <3>2, <2>1, SeamKept
  <2>3. CASE k \in n + 1 .. l
    <3>1. p.cut \/ SeamBegun(p, s, n + 1) \/ SeamBetween(s, 0, n + 1)
      BY <1>2, <2>1, <2>3 DEF Apart
    <3>2. k \in Nat /\ n + 1 <= k
      BY <2>3
    <3> QED BY <3>1, <3>2, <2>1, SeamKept
  <2> QED BY <1>0, <2>2, <2>3
<1> QED BY <1>1, <1>2 DEF Apart

\* A sequence of symbols with a piece of data behind it.
LEMMA Ended ==
  ASSUME NEW m \in Modes, NEW s \in Seq(Symbols)
  PROVE  LET v == s \o <<Data(m)>> IN
         /\ v \in Seq(Symbols) /\ Len(v) = Len(s) + 1
         /\ Len(s) \in Nat /\ DOMAIN v = 1 .. Len(s) + 1
         /\ \A k \in 1 .. Len(s) : v[k] = s[k]
         /\ v[Len(s) + 1].kind = "data" /\ v[Len(s) + 1].mode = m
<1> DEFINE d == <<Data(m)>>
<1>1. d \in Seq(Symbols) /\ Len(d) = 1 /\ d[1].kind = "data" /\ d[1].mode = m
  BY SymbolTypes
<1> HIDE DEF d
<1>2. /\ s \o d \in Seq(Symbols) /\ Len(s \o d) = Len(s) + Len(d)
      /\ Len(s) \in Nat /\ DOMAIN (s \o d) = 1 .. Len(s) + Len(d)
      /\ \A k \in 1 .. Len(s) : (s \o d)[k] = s[k]
      /\ \A k \in 1 .. Len(d) : (s \o d)[Len(s) + k] = d[k]
  BY <1>1, Joined
<1>3. 1 \in 1 .. Len(d)
  BY <1>1
<1>4. /\ s \o d \in Seq(Symbols) /\ Len(s \o d) = Len(s) + 1
      /\ Len(s) \in Nat /\ DOMAIN (s \o d) = 1 .. Len(s) + 1
      /\ \A k \in 1 .. Len(s) : (s \o d)[k] = s[k]
      /\ (s \o d)[Len(s) + 1].kind = "data" /\ (s \o d)[Len(s) + 1].mode = m
  BY <1>1, <1>2, <1>3
<1> QED BY <1>4 DEF d

LEMMA ApartExtended ==
  ASSUME NEW p, NEW m \in Modes, NEW s \in Seq(Symbols), NEW t \in Seq(Symbols),
         \A k \in 1 .. Len(t) : t[k].kind = "data" => t[k].mode = m,
         Apart(p, s \o <<Data(m)>>)
  PROVE  Apart(p, (s \o t) \o <<Data(m)>>)
<1> DEFINE u == s \o t
           a == s \o <<Data(m)>>
           v == u \o <<Data(m)>>
           n == Len(s)
           l == Len(t)
<1>1. /\ n \in Nat /\ DOMAIN a = 1 .. n + 1
      /\ \A k \in 1 .. n : a[k] = s[k]
      /\ a[n + 1].kind = "data" /\ a[n + 1].mode = m
  BY Ended
<1>2. /\ u \in Seq(Symbols) /\ Len(u) = n + l /\ l \in Nat
      /\ \A k \in 1 .. n : u[k] = s[k]
      /\ \A k \in 1 .. n + l : u[k] = IF k <= n THEN s[k] ELSE t[k - n]
  BY Joined
<1>3. Apart(p, a)
  OBVIOUS
<1> HIDE DEF u, a
<1>4. /\ DOMAIN v = 1 .. Len(u) + 1
      /\ \A k \in 1 .. Len(u) : v[k] = u[k]
      /\ v[Len(u) + 1].kind = "data" /\ v[Len(u) + 1].mode = m
  BY <1>2, Ended
<1> HIDE DEF v, n, l
<1>5. /\ DOMAIN v = 1 .. n + l + 1
      /\ \A k \in 1 .. n + l : v[k] = u[k]
      /\ v[n + l + 1].mode = m
  BY <1>2, <1>4, Zenon
<1>6. \A k \in 1 .. n : a[k] = v[k]
  BY <1>1, <1>2, <1>5
<1>7. ASSUME NEW k \in n + 1 .. n + l + 1, v[k].kind = "data"
      PROVE  v[k].mode = m
  <2>1. CASE k = n + l + 1
    BY <1>5, <2>1
  <2>2. CASE k # n + l + 1
    <3>1. k - n \in 1 .. l /\ k \in 1 .. n + l /\ ~(k <= n)
      BY <1>1, <1>2, <2>2
    <3>2. v[k] = t[k - n]
      BY <1>2, <1>5, <3>1
    <3> QED BY <3>1, <3>2, <1>7 DEF l
  <2> QED BY <2>1, <2>2
<1> DEFINE z == n + l + 1
<1>8. /\ n \in Nat /\ z \in Nat /\ DOMAIN v = 1 .. z
      /\ EndsInData(a, n, m) /\ SameUpTo(a, v, n)
  BY <1>1, <1>2, <1>5, <1>6 DEF EndsInData, SameUpTo
<1>9. OneMode(v, n, z, m)
  BY <1>7 DEF OneMode
<1> HIDE DEF z
<1>10. Apart(p, v)
  BY <1>3, <1>8, <1>9, ApartAlong
<1> QED BY <1>10 DEF v, u

\* A seam is one for every mode.
LEMMA ApartSwitched ==
  ASSUME NEW p, NEW m \in Modes, NEW i \in Modes, NEW s \in Seq(Symbols),
         Apart(p, s \o <<Data(m)>>)
  PROVE  Apart(p, (s \o Seam) \o <<Data(i)>>)
<1> DEFINE a == s \o <<Data(m)>>
           u == s \o Seam
           v == u \o <<Data(i)>>
           n == Len(s)
<1>1. /\ Seam \in Seq(Symbols) /\ Len(Seam) = 3
      /\ Seam[1].kind = "ff" /\ Seam[2].kind = "fd" /\ Seam[3].kind = "ff"
  BY SymbolTypes
<1>2. Apart(p, a)
  OBVIOUS
<1>3. /\ n \in Nat /\ DOMAIN a = 1 .. n + 1
      /\ \A k \in 1 .. n : a[k] = s[k]
  BY Ended
<1>4. /\ u \in Seq(Symbols) /\ Len(u) = n + Len(Seam)
      /\ \A k \in 1 .. n : u[k] = s[k]
      /\ \A k \in 1 .. Len(Seam) : u[n + k] = Seam[k]
  <2> HIDE DEF n
  <2>1. /\ s \o Seam \in Seq(Symbols) /\ Len(s \o Seam) = Len(s) + Len(Seam)
        /\ \A k \in 1 .. Len(s) : (s \o Seam)[k] = s[k]
        /\ \A k \in 1 .. Len(Seam) : (s \o Seam)[Len(s) + k] = Seam[k]
    <3> DEFINE r == Seam
    <3>1. r \in Seq(Symbols)
      BY <1>1
    <3> HIDE DEF r
    <3>2. /\ s \o r \in Seq(Symbols) /\ Len(s \o r) = Len(s) + Len(r)
          /\ \A k \in 1 .. Len(s) : (s \o r)[k] = s[k]
          /\ \A k \in 1 .. Len(r) : (s \o r)[Len(s) + k] = r[k]
      BY <3>1, Joined
    <3> QED BY <3>2 DEF r
  <2> QED BY <2>1 DEF n
<1> HIDE DEF u, a
<1>5. /\ DOMAIN v = 1 .. Len(u) + 1
      /\ \A k \in 1 .. Len(u) : v[k] = u[k]
  BY <1>4, Ended
<1> HIDE DEF v, n
<1>6. /\ Len(u) = n + 3 /\ Len(u) + 1 = n + 4
      /\ \A k \in 1 .. n : k \in 1 .. n + 3
      /\ n + 1 \in 1 .. n + 3 /\ n + 2 \in 1 .. n + 3 /\ n + 3 \in 1 .. n + 3
      /\ 1 \in 1 .. 3 /\ 2 \in 1 .. 3 /\ 3 \in 1 .. 3
      /\ n + 1 + 1 = n + 2 /\ n + 1 + 2 = n + 3
  BY <1>1, <1>3, <1>4
<1>7. /\ \A k \in 1 .. n : a[k] = v[k]
      /\ v[n + 1] = Seam[1] /\ v[n + 2] = Seam[2] /\ v[n + 3] = Seam[3]
  BY <1>1, <1>3, <1>4, <1>5, <1>6
<1>8. SeamAt(v, n + 1)
  BY <1>1, <1>6, <1>7 DEF SeamAt
<1>9. \A k \in DOMAIN v : v[k].kind = "data" => k \in 1 .. n \/ k = n + 4
  <2> SUFFICES ASSUME NEW k \in n + 1 .. n + 3 PROVE v[k].kind # "data"
    BY <1>3, <1>5, <1>6
  <2>1. k = n + 1 \/ k = n + 2 \/ k = n + 3
    BY <1>3
  <2> QED BY <1>1, <1>7, <2>1
<1>10. \A j \in 0 .. n : SeamBetween(v, j, n + 4)
  BY <1>3, <1>8, SeamHere
<1>11. ASSUME NEW j \in Nat, NEW k \in 1 .. n
       PROVE  /\ SeamBetween(a, j, k) => SeamBetween(v, j, k)
              /\ SeamBegun(p, a, k) => SeamBegun(p, v, k)
  <2>1. k \in 1 .. n + 1 /\ k \in Nat /\ k <= k
    BY <1>3
  <2>2. n \in Nat /\ \A x \in 1 .. n : a[x] = v[x]
    BY <1>3, <1>7
  <2> QED BY <2>1, <2>2, SeamKept, Zenon
<1>12. ASSUME NEW j \in DOMAIN v, NEW k \in DOMAIN v, j < k,
              v[j].kind = "data", v[k].kind = "data", v[j].mode # v[k].mode
       PROVE  SeamBetween(v, j, k)
  <2>1. j \in 1 .. n /\ j \in 0 .. n /\ j \in Nat
    BY <1>3, <1>5, <1>6, <1>9, <1>12
  <2>2. CASE k \in 1 .. n
    <3>1. j \in DOMAIN a /\ k \in DOMAIN a /\ a[j] = v[j] /\ a[k] = v[k]
      BY <1>3, <1>7, <2>1, <2>2
    <3>2. SeamBetween(a, j, k)
      BY <1>2, <1>12, <3>1 DEF Apart
    <3> QED BY <1>11, <3>2, <2>1, <2>2
  <2> QED BY <1>9, <1>10, <1>12, <2>1, <2>2
<1>13. ASSUME NEW k \in DOMAIN v, v[k].kind = "data", p.last \notin {"-", v[k].mode}
       PROVE  p.cut \/ SeamBegun(p, v, k) \/ SeamBetween(v, 0, k)
  <2>2. CASE k \in 1 .. n
    <3>1. k \in DOMAIN a /\ a[k] = v[k]
      BY <1>3, <1>7, <2>2
    <3>2. p.cut \/ SeamBegun(p, a, k) \/ SeamBetween(a, 0, k)
      BY <1>2, <1>13, <3>1 DEF Apart
    <3> QED BY <1>11, <3>2, <2>2
  <2>3. 0 \in 0 .. n
    BY <1>3
  <2> QED BY <1>9, <1>10, <1>13, <2>2, <2>3
<1>14. Apart(p, v)
  BY <1>12, <1>13 DEF Apart
<1> QED BY <1>14 DEF v, u

\* What reading a symbol does to the memory of the host.
ReadsOn(p, q, s) ==
  /\ q.start = (s.kind = "ff")
  /\ q.lone = (s.kind = "fd" /\ p.start)
  /\ q.last = IF s.kind = "data" THEN s.mode ELSE p.last
  /\ q.cut = (s.kind # "data" /\ (p.cut \/ (s.kind = "ff" /\ p.lone)))

\* The symbol that is read moves to the memory, and a seam with it.
LEMMA SeamRead ==
  ASSUME NEW p, NEW q, NEW s \in Seq(Symbols), s # <<>>, ReadsOn(p, q, s[1]),
         s[1].kind # "data", NEW k \in 1 .. Len(s), 1 < k,
         p.cut \/ SeamBegun(p, s, k) \/ SeamBetween(s, 0, k)
  PROVE  q.cut \/ SeamBegun(q, Tail(s), k - 1) \/ SeamBetween(Tail(s), 0, k - 1)
<1>1. /\ Len(s) \in Nat /\ \A i \in 1 .. Len(s) - 1 : Tail(s)[i] = s[i + 1]
      /\ k \in Nat
  BY Taken
<1>2. CASE p.cut
  BY <1>2 DEF ReadsOn
<1>3. CASE SeamBegun(p, s, k)
  <2>1. CASE p.lone /\ k > 1 /\ s[1].kind = "ff"
    BY <2>1 DEF ReadsOn
  <2>2. CASE p.start /\ k > 2 /\ s[1].kind = "fd" /\ s[2].kind = "ff"
    <3>1. k - 1 > 1 /\ Tail(s)[1] = s[2]
      BY <1>1, <2>2
    <3> QED BY <2>2, <3>1 DEF ReadsOn, SeamBegun
  <2> QED BY <1>3, <2>1, <2>2 DEF SeamBegun
<1>4. CASE SeamBetween(s, 0, k)
  <2>1. PICK l \in 0 + 1 .. k - 3 : SeamAt(s, l)
    BY <1>4 DEF SeamBetween
  <2>2. CASE l = 1
    <3>1. k - 1 > 2 /\ Tail(s)[1] = s[2] /\ Tail(s)[2] = s[3]
      BY <1>1, <2>2
    <3>2. s[1].kind = "ff" /\ s[2].kind = "fd" /\ s[3].kind = "ff"
      BY <2>1, <2>2 DEF SeamAt
    <3> QED BY <3>1, <3>2 DEF ReadsOn, SeamBegun
  <2>3. CASE l # 1
    <3>1. /\ l - 1 \in 0 + 1 .. (k - 1) - 3
          /\ Tail(s)[l - 1] = s[l] /\ Tail(s)[l - 1 + 1] = s[l + 1]
          /\ Tail(s)[l - 1 + 2] = s[l + 2]
      <4>1. /\ l - 1 \in 1 .. Len(s) - 1 /\ l - 1 + 1 \in 1 .. Len(s) - 1
            /\ l - 1 + 2 \in 1 .. Len(s) - 1
            /\ l - 1 + 1 = l /\ l - 1 + 1 + 1 = l + 1 /\ l - 1 + 2 + 1 = l + 2
            /\ l - 1 \in 0 + 1 .. (k - 1) - 3
        BY <1>1, <2>3
      <4> QED BY <1>1, <4>1
    <3>2. SeamAt(Tail(s), l - 1)
      BY <2>1, <3>1 DEF SeamAt
    <3> QED BY <3>1, <3>2 DEF SeamBetween
  <2> QED BY <2>2, <2>3
<1> QED BY <1>2, <1>3, <1>4

\* A seam between two symbols that have not been read stays where it is.
LEMMA SeamUnread ==
  ASSUME NEW s \in Seq(Symbols), s # <<>>, NEW j \in 1 .. Len(s), NEW k \in 1 .. Len(s),
         SeamBetween(s, j, k)
  PROVE  SeamBetween(Tail(s), j - 1, k - 1)
<1>1. Len(s) \in Nat /\ \A i \in 1 .. Len(s) - 1 : Tail(s)[i] = s[i + 1]
  BY Taken
<1>2. PICK l \in j + 1 .. k - 3 : SeamAt(s, l)
  BY DEF SeamBetween
<1>3. /\ l - 1 \in 1 .. Len(s) - 1 /\ l - 1 + 1 \in 1 .. Len(s) - 1
      /\ l - 1 + 2 \in 1 .. Len(s) - 1
      /\ l - 1 + 1 = l /\ l - 1 + 1 + 1 = l + 1 /\ l - 1 + 2 + 1 = l + 2
      /\ l - 1 \in (j - 1) + 1 .. (k - 1) - 3
  BY <1>1
<1>4. Tail(s)[l - 1] = s[l] /\ Tail(s)[l - 1 + 1] = s[l + 1] /\ Tail(s)[l - 1 + 2] = s[l + 2]
  BY <1>1, <1>3
<1>5. SeamAt(Tail(s), l - 1)
  BY <1>2, <1>4 DEF SeamAt
<1> QED BY <1>3, <1>5 DEF SeamBetween

LEMMA ApartRead ==
  ASSUME NEW p, NEW q, NEW s \in Seq(Symbols), s # <<>>, ReadsOn(p, q, s[1]), Apart(p, s)
  PROVE  /\ Apart(q, Tail(s))
         /\ s[1].kind = "data" /\ p.last \notin {"-", s[1].mode} => p.cut
<1> DEFINE t == Tail(s)
<1>1. /\ Len(s) \in Nat \ {0} /\ DOMAIN s = 1 .. Len(s) /\ DOMAIN t = 1 .. Len(s) - 1
      /\ \A k \in 1 .. Len(s) - 1 : t[k] = s[k + 1]
  BY Taken
<1>2. \A k \in DOMAIN t : /\ k + 1 \in 1 .. Len(s) /\ k + 1 \in DOMAIN s /\ 1 < k + 1
                          /\ k + 1 - 1 = k /\ t[k] = s[k + 1] /\ k \in Nat
  BY <1>1
<1>3. 1 \in DOMAIN s /\ 1 \in 1 .. Len(s) /\ 1 - 1 = 0
  BY <1>1
<1>4. s[1].kind = "data" /\ p.last \notin {"-", s[1].mode} => p.cut
  <2>1. ~SeamBegun(p, s, 1)
    BY DEF SeamBegun
  <2>2. ~SeamBetween(s, 0, 1)
    BY DEF SeamBetween
  <2> QED BY <1>3, <2>1, <2>2 DEF Apart
<1>5. ASSUME NEW j \in DOMAIN t, NEW k \in DOMAIN t, j < k,
             t[j].kind = "data", t[k].kind = "data", t[j].mode # t[k].mode
      PROVE  SeamBetween(t, j, k)
  <2>1. j + 1 < k + 1
    BY <1>2, <1>5
  <2>2. SeamBetween(s, j + 1, k + 1)
    BY <1>2, <1>5, <2>1 DEF Apart
  <2>3. SeamBetween(t, j + 1 - 1, k + 1 - 1)
    BY <1>2, <2>2, SeamUnread
  <2> QED BY <1>2, <2>3
<1>6. ASSUME NEW k \in DOMAIN t, t[k].kind = "data", q.last \notin {"-", t[k].mode}
      PROVE  q.cut \/ SeamBegun(q, t, k) \/ SeamBetween(t, 0, k)
  <2>1. CASE s[1].kind = "data"
    <3>1. SeamBetween(s, 1, k + 1)
      BY <1>2, <1>3, <1>6, <2>1 DEF Apart, ReadsOn
    <3>2. SeamBetween(t, 1 - 1, k + 1 - 1)
      BY <1>2, <1>3, <3>1, SeamUnread
    <3> QED BY <1>2, <1>3, <3>2
  <2>2. CASE s[1].kind # "data"
    <3>1. p.cut \/ SeamBegun(p, s, k + 1) \/ SeamBetween(s, 0, k + 1)
      BY <1>2, <1>6, <2>2 DEF Apart, ReadsOn
    <3>2. \A i \in 1 .. Len(s) : 1 < i /\ (p.cut \/ SeamBegun(p, s, i) \/ SeamBetween(s, 0, i))
            => q.cut \/ SeamBegun(q, t, i - 1) \/ SeamBetween(t, 0, i - 1)
      BY <2>2, SeamRead
    <3>3. q.cut \/ SeamBegun(q, t, k + 1 - 1) \/ SeamBetween(t, 0, k + 1 - 1)
      BY <1>2, <3>1, <3>2
    <3> QED BY <1>2, <3>3
  <2> QED BY <2>1, <2>2
<1> QED BY <1>4, <1>5, <1>6 DEF Apart

------------------------------------------------------------------------------
\* What the datapaths write.

LEMMA SymbolModes ==
  \A s \in Symbols : /\ s.mode \in Modes \cup {"-"}
                     /\ s.kind \in {"fe", "data"} => s.mode \in Modes
BY DEF Symbols, Sym, Ff, Fd

LEMMA OfJoined ==
  ASSUME NEW m, NEW s \in Seq(Symbols), NEW t \in Seq(Symbols), Of(s, m), Of(t, m)
  PROVE  Of(s \o t, m)
<1>1. /\ Len(s \o t) = Len(s) + Len(t) /\ Len(s) \in Nat /\ Len(t) \in Nat
      /\ \A k \in 1 .. Len(s) + Len(t) :
           (s \o t)[k] = IF k <= Len(s) THEN s[k] ELSE t[k - Len(s)]
  BY Joined
<1> SUFFICES ASSUME NEW k \in 1 .. Len(s) + Len(t)
             PROVE  (s \o t)[k].mode \in {m, "-"}
  BY <1>1 DEF Of
<1>2. CASE k <= Len(s)
  <2>1. k \in 1 .. Len(s) /\ (s \o t)[k] = s[k]
    BY <1>1, <1>2
  <2> QED BY <2>1 DEF Of
<1>3. CASE ~(k <= Len(s))
  <2>1. k - Len(s) \in 1 .. Len(t) /\ (s \o t)[k] = t[k - Len(s)]
    BY <1>1, <1>3
  <2> QED BY <2>1 DEF Of
<1> QED BY <1>2, <1>3

LEMMA OfSplit ==
  ASSUME NEW m, NEW s \in Seq(Symbols), NEW n \in Nat, n <= Len(s), Of(s, m)
  PROVE  Of(SubSeq(s, 1, n), m) /\ Of(SubSeq(s, n + 1, Len(s)), m)
<1>1. /\ Len(SubSeq(s, 1, n)) = n /\ \A k \in 1 .. n : SubSeq(s, 1, n)[k] = s[k]
      /\ Len(SubSeq(s, n + 1, Len(s))) = Len(s) - n
      /\ \A k \in 1 .. Len(s) - n : SubSeq(s, n + 1, Len(s))[k] = s[n + k]
  BY Split
<1>2. Len(s) \in Nat
  BY LenProperties
<1>3. \A k \in 1 .. n : k \in 1 .. Len(s)
  BY <1>2
<1>4. \A k \in 1 .. Len(s) - n : n + k \in 1 .. Len(s)
  BY <1>2
<1>5. Of(SubSeq(s, 1, n), m)
  BY <1>1, <1>3 DEF Of
<1>6. Of(SubSeq(s, n + 1, Len(s)), m)
  BY <1>1, <1>4 DEF Of
<1> QED BY <1>5, <1>6

LEMMA Fixed ==
  /\ \A m \in Modes : Of(<<Data(m)>>, m) /\ Of(Meta(m), m)
  /\ \A m : Of(<<Ff>>, m) /\ Of(<<>>, m)
<1>1. \A k \in 1 .. 1 : k = 1
  OBVIOUS
<1>2. \A k \in 1 .. 3 : k = 1 \/ k = 2 \/ k = 3
  OBVIOUS
<1>3. \A m \in Modes : Of(<<Data(m)>>, m)
  BY <1>1, SymbolTypes DEF Of
<1>4. \A m \in Modes : Of(Meta(m), m)
  <2> SUFFICES ASSUME NEW m \in Modes, NEW k \in 1 .. 3 PROVE Meta(m)[k].mode \in {m, "-"}
    BY SymbolTypes DEF Of
  <2> QED BY <1>2, SymbolTypes
<1>5. \A m : Of(<<Ff>>, m)
  BY <1>1, SymbolTypes DEF Of
<1>6. \A m : Of(<<>>, m)
  BY DEF Of
<1> QED BY <1>3, <1>4, <1>5, <1>6

\* The transmit ring takes more of mode m, and no more than fits.
Writes(s, r, m) == \E t \in Seq(Symbols) : r = s \o t /\ Of(t, m) /\ Len(r) <= TxCap

LEMMA MarkerWrites ==
  ASSUME NEW s \in Seq(Symbols), Len(s) <= TxCap
  PROVE  Writes(s, RleMarker(s), "rle")
<1>0. Len(s) \in Nat /\ "rle" \in Modes
  BY LenProperties DEF Modes
<1>1. CASE Room(s) >= 4
  <2> DEFINE f == <<Ff>>
             b == Meta("rle")
  <2>1. /\ f \in Seq(Symbols) /\ Len(f) = 1 /\ b \in Seq(Symbols) /\ Len(b) = 3
        /\ Of(f, "rle") /\ Of(b, "rle")
    BY <1>0, SymbolTypes, Fixed
  <2>2. RleMarker(s) = (s \o f) \o b
    BY <1>1 DEF RleMarker
  <2> HIDE DEF f, b
  <2>3. /\ (s \o f) \o b = s \o (f \o b) /\ f \o b \in Seq(Symbols) /\ Of(f \o b, "rle")
        /\ Len(f \o b) = 4
    <3>1. (s \o f) \o b = s \o (f \o b)
      BY <2>1, Regrouped, ZenonT(30)
    <3>2. f \o b \in Seq(Symbols) /\ Len(f \o b) = Len(f) + Len(b)
      BY <2>1, ConcatProperties
    <3>3. Of(f \o b, "rle")
      BY <2>1, OfJoined
    <3> QED BY <2>1, <3>1, <3>2, <3>3
  <2>4. Len(s \o (f \o b)) = Len(s) + 4
    BY <2>3, ConcatProperties
  <2>5. Len(s) + 4 <= TxCap
    BY <1>0, <1>1, ModeSizes DEF Room
  <2> QED BY <2>2, <2>3, <2>4, <2>5 DEF Writes
<1>2. CASE ~(Room(s) >= 4)
  <2>1. RleMarker(s) = s \o <<>>
    BY <1>2, ConcatEmptySeq DEF RleMarker
  <2>2. Len(s \o <<>>) <= TxCap
    BY ConcatEmptySeq
  <2> QED BY <2>1, <2>2, SymbolTypes, Fixed DEF Writes
<1> QED BY <1>1, <1>2

LEMMA WritesMore ==
  ASSUME NEW m, NEW s \in Seq(Symbols), NEW r, NEW q, Writes(s, r, m), Writes(r, q, m)
  PROVE  Writes(s, q, m)
<1>1. PICK t \in Seq(Symbols) : r = s \o t /\ Of(t, m) /\ Len(r) <= TxCap
  BY DEF Writes
<1>2. PICK u \in Seq(Symbols) : q = r \o u /\ Of(u, m) /\ Len(q) <= TxCap
  BY DEF Writes
<1>3. q = s \o (t \o u) /\ t \o u \in Seq(Symbols) /\ Of(t \o u, m)
  BY <1>1, <1>2, ConcatAssociative, ConcatProperties, OfJoined
<1> QED BY <1>2, <1>3 DEF Writes

LEMMA WritesTypes ==
  ASSUME NEW m, NEW s \in Seq(Symbols), NEW r, Writes(s, r, m)
  PROVE  r \in Seq(Symbols) /\ Len(r) <= TxCap
BY ConcatProperties DEF Writes

LEMMA WritesOne ==
  ASSUME NEW m, NEW s \in Seq(Symbols), NEW e \in Symbols, Of(<<e>>, m), Room(s) > 0
  PROVE  Writes(s, Append(s, e), m)
<1>1. Append(s, e) = s \o <<e>> /\ <<e>> \in Seq(Symbols)
  BY AppendIsConcat
<1>2. Len(Append(s, e)) = Len(s) + 1 /\ Len(s) \in Nat
  BY AppendProperties, LenProperties
<1>3. Len(Append(s, e)) <= TxCap
  BY <1>2, ModeSizes DEF Room
<1> QED BY <1>1, <1>3 DEF Writes

LEMMA WritesNothing ==
  ASSUME NEW m, NEW s \in Seq(Symbols), Len(s) <= TxCap
  PROVE  Writes(s, s, m)
<1>1. s = s \o <<>> /\ <<>> \in Seq(Symbols) /\ Of(<<>>, m)
  BY ConcatEmptySeq, SymbolTypes, Fixed
<1> QED BY <1>1 DEF Writes

LEMMA RleWrites ==
  ASSUME TypeOK, NEW due, ServiceRle(due)
  PROVE  Writes(tx, tx', "rle")
<1>0. tx \in Seq(Symbols) /\ Len(tx) <= TxCap /\ "rle" \in Modes
  BY DEF TypeOK, Modes
<1>1. CASE RleData
  BY <1>0, <1>1, WritesOne, SymbolTypes, Fixed DEF RleData
<1>2. CASE RleIdle(due)
  <2> DEFINE closes == active /\ Room(tx) > 0
             closed == IF closes THEN Append(tx, Ff) ELSE tx
  <2>1. Writes(tx, closed, "rle")
    <3>1. CASE closes
      BY <1>0, <3>1, WritesOne, SymbolTypes, Fixed
    <3>2. CASE ~closes
      BY <1>0, <3>2, WritesNothing
    <3> QED BY <3>1, <3>2
  <2>2. closed \in Seq(Symbols) /\ Len(closed) <= TxCap
    BY <1>0, <2>1, WritesTypes
  <2>3. tx' = RleMarker(closed) \/ tx' = closed
    BY <1>2 DEF RleIdle
  <2> HIDE DEF closed
  <2>4. CASE tx' = RleMarker(closed)
    BY <1>0, <2>1, <2>2, <2>4, MarkerWrites, WritesMore
  <2> QED BY <2>1, <2>3, <2>4
<1> QED BY <1>1, <1>2 DEF ServiceRle

LEMMA Staged ==
  ASSUME NEW s \in Seq(Symbols), NEW t \in Seq(Symbols), Len(s) <= RamCap,
         Of(s, "clocked"), Of(t, "clocked")
  PROVE  LET r == Staging(t, s) IN r \in Seq(Symbols) /\ Len(r) <= RamCap /\ Of(r, "clocked")
<1>1. s \o t \in Seq(Symbols) /\ Len(s \o t) = Len(s) + Len(t) /\ Of(s \o t, "clocked")
  BY ConcatProperties, OfJoined
<1> QED BY <1>1 DEF Staging

LEMMA ClockedWrites ==
  ASSUME TypeOK, StagedInMode, NEW due, NEW record, ServiceClocked(due, record)
  PROVE  /\ Writes(tx, tx', "clocked")
         /\ staged' \in Seq(Symbols) /\ Len(staged') <= RamCap /\ Of(staged', "clocked")
<1> DEFINE beat == IF due THEN Staging(Meta("clocked"), staged) ELSE staged
           piece == <<Data("clocked"), Ff>>
           full == IF record THEN Staging(piece, beat) ELSE beat
           most == IF Len(full) < Room(tx) THEN Len(full) ELSE Room(tx)
<1>0. /\ tx \in Seq(Symbols) /\ Len(tx) <= TxCap /\ Len(tx) \in Nat
      /\ staged \in Seq(Symbols) /\ Len(staged) <= RamCap /\ Of(staged, "clocked")
      /\ "clocked" \in Modes
  BY LenProperties DEF TypeOK, Modes, StagedInMode
<1>1. piece \in Seq(Symbols) /\ Of(piece, "clocked")
  <2>1. /\ Ff \in Symbols /\ Data("clocked") \in Symbols
        /\ Ff.mode = "-" /\ Data("clocked").mode = "clocked"
    BY <1>0, SymbolTypes
  <2>2. piece \in Seq(Symbols) /\ Len(piece) = 2 /\ piece[1] = Data("clocked") /\ piece[2] = Ff
    BY <2>1
  <2>3. \A k \in 1 .. 2 : k = 1 \/ k = 2
    OBVIOUS
  <2> QED BY <2>1, <2>2, <2>3 DEF Of
<1>2. Meta("clocked") \in Seq(Symbols) /\ Of(Meta("clocked"), "clocked")
  BY <1>0, SymbolTypes, Fixed
<1>3. beat \in Seq(Symbols) /\ Len(beat) <= RamCap /\ Of(beat, "clocked")
  <2>1. LET r == Staging(Meta("clocked"), staged)
        IN  r \in Seq(Symbols) /\ Len(r) <= RamCap /\ Of(r, "clocked")
    BY <1>0, <1>2, Staged
  <2> QED BY <1>0, <2>1
<1>4. full \in Seq(Symbols) /\ Len(full) <= RamCap /\ Of(full, "clocked")
  <2> HIDE DEF beat, piece
  <2>1. LET r == Staging(piece, beat)
        IN  r \in Seq(Symbols) /\ Len(r) <= RamCap /\ Of(r, "clocked")
    BY <1>1, <1>3, Staged
  <2> QED BY <1>3, <2>1
<1>5. PICK n \in IF most = 0 THEN {0} ELSE 1 .. most :
             /\ tx' = tx \o SubSeq(full, 1, n)
             /\ staged' = SubSeq(full, n + 1, Len(full))
  BY DEF ServiceClocked
<1> HIDE DEF full
<1>6. Len(full) \in Nat /\ Room(tx) \in Nat /\ Room(tx) = TxCap - Len(tx)
  BY <1>0, <1>4, LenProperties, ModeSizes DEF Room
<1>7. n \in Nat /\ n <= Len(full) /\ n <= Room(tx)
  BY <1>5, <1>6
<1>8. /\ SubSeq(full, 1, n) \in Seq(Symbols) /\ Len(SubSeq(full, 1, n)) = n
      /\ SubSeq(full, n + 1, Len(full)) \in Seq(Symbols)
      /\ Len(SubSeq(full, n + 1, Len(full))) = Len(full) - n
  BY <1>4, <1>7, Split
<1>9. Of(SubSeq(full, 1, n), "clocked") /\ Of(SubSeq(full, n + 1, Len(full)), "clocked")
  BY <1>4, <1>7, OfSplit
<1>10. Len(tx \o SubSeq(full, 1, n)) = Len(tx) + n
  BY <1>0, <1>8, ConcatProperties
<1>11. Len(tx) + n <= TxCap /\ Len(full) - n <= RamCap
  BY <1>0, <1>4, <1>6, <1>7, ModeSizes
<1> QED BY <1>5, <1>8, <1>9, <1>10, <1>11 DEF Writes

------------------------------------------------------------------------------
\* What the host reads, and what the device writes, of the transmit ring.

\* Nothing that is to come has changed.
LEMMA AheadKept ==
  ASSUME AheadApart, UNCHANGED <<tx, MissingSeam, Coming, lastData, cut, lone, atStart, torn>>
  PROVE  AheadApart'
BY DEF AheadApart, Ahead, Parsed

\* The datapath of the mode that is ahead writes.
LEMMA AheadWritten ==
  ASSUME AheadApart, tx \in Seq(Symbols), Coming \in Modes,
         MissingSeam = <<>>, MissingSeam' = <<>>,
         UNCHANGED <<Coming, lastData, cut, lone, atStart>>, torn => torn',
         Writes(tx, tx', Coming)
  PROVE  AheadApart'
<1>1. PICK t \in Seq(Symbols) : tx' = tx \o t /\ Of(t, Coming)
  BY DEF Writes
<1>2. tx \o MissingSeam = tx /\ tx' \o MissingSeam' = tx \o t
  <2>1. tx \o t \in Seq(Symbols)
    BY ConcatProperties
  <2> QED BY <1>1, <2>1, ConcatEmptySeq
<1>3. Ahead = tx \o <<Data(Coming)>> /\ Ahead' = (tx \o t) \o <<Data(Coming)>>
  BY <1>2 DEF Ahead, Data, Sym
<1>4. Parsed' = Parsed
  BY DEF Parsed
<1>5. \A k \in 1 .. Len(t) : t[k].kind = "data" => t[k].mode = Coming
  <2> SUFFICES ASSUME NEW k \in 1 .. Len(t), t[k].kind = "data" PROVE t[k].mode = Coming
    OBVIOUS
  <2>1. t[k] \in Symbols
    BY ElementOfSeq
  <2>2. t[k].mode \in Modes
    BY <2>1, SymbolModes
  <2> QED BY <1>1, <2>2 DEF Of, Modes
<1> DEFINE m == Coming
           p == Parsed
           s == tx
<1>6. ASSUME Apart(Parsed, Ahead) PROVE Apart(Parsed, Ahead')
  <2>1. m \in Modes /\ s \in Seq(Symbols) /\ Apart(p, s \o <<Data(m)>>)
        /\ \A k \in 1 .. Len(t) : t[k].kind = "data" => t[k].mode = m
    BY <1>3, <1>5, <1>6
  <2> HIDE DEF m, p, s
  <2>2. Apart(p, (s \o t) \o <<Data(m)>>)
    BY <2>1, ApartExtended
  <2> QED BY <1>3, <2>2 DEF m, p, s
<1> QED BY <1>4, <1>6 DEF AheadApart, Apart, SeamBegun, SeamBetween, SeamAt

LEMMA BlocksWritten ==
  ASSUME BlocksInOrder, tx \in Seq(Symbols), mode' \in Modes, device \in Modes,
         UNCHANGED <<device, inMeta>>, Turns(mode) => Turns(mode'),
         Writes(tx, tx', mode')
  PROVE  BlocksInOrder'
<1>1. PICK t \in Seq(Symbols) : tx' = tx \o t /\ Of(t, mode')
  BY DEF Writes
<1>2. /\ Len(tx') = Len(tx) + Len(t) /\ Len(tx) \in Nat /\ Len(t) \in Nat
      /\ \A k \in 1 .. Len(tx) + Len(t) :
           tx'[k] = IF k <= Len(tx) THEN tx[k] ELSE t[k - Len(tx)]
  BY <1>1, Joined
<1>3. \A k \in 1 .. Len(t) : t[k].kind = "fe" => t[k].mode = mode'
  <2> SUFFICES ASSUME NEW k \in 1 .. Len(t), t[k].kind = "fe" PROVE t[k].mode = mode'
    OBVIOUS
  <2>1. t[k] \in Symbols
    BY ElementOfSeq
  <2>2. t[k].mode \in Modes
    BY <2>1, SymbolModes
  <2> QED BY <1>1, <2>2 DEF Of, Modes
<1>4. \A k \in 1 .. Len(tx') : \/ k \in 1 .. Len(tx) /\ tx'[k] = tx[k]
                               \/ k > Len(tx) /\ (tx'[k].kind = "fe" => tx'[k].mode = mode')
  <2> SUFFICES ASSUME NEW k \in 1 .. Len(tx'), ~(k <= Len(tx))
               PROVE  tx'[k].kind = "fe" => tx'[k].mode = mode'
    BY <1>2
  <2>1. k - Len(tx) \in 1 .. Len(t) /\ tx'[k] = t[k - Len(tx)]
    BY <1>2
  <2> QED BY <1>3, <2>1
<1>5. Turns(mode)' <=> Turns(mode')
  BY DEF Turns
<1>6. Turns(inMeta)' => Turns(mode)' /\ \A k \in 1 .. Len(tx') : ~Announces(tx, k)'
  <2> SUFFICES ASSUME Turns(inMeta) PROVE Turns(mode') /\ \A k \in 1 .. Len(tx') : ~Announces(tx, k)'
    BY <1>5 DEF Turns
  <2>1. Turns(mode') /\ \A k \in 1 .. Len(tx) : ~Announces(tx, k)
    BY DEF BlocksInOrder
  <2> QED BY <1>4, <2>1 DEF Announces, Turns
<1>7. ASSUME NEW j \in 1 .. Len(tx'), NEW k \in 1 .. Len(tx'), j < k, Turned(tx, j)'
      PROVE  ~Announces(tx, k)'
  <2>1. CASE j \in 1 .. Len(tx) /\ tx'[j] = tx[j]
    <3>1. Turned(tx, j)
      BY <1>7, <2>1 DEF Turned, Turns
    <3>2. Turns(mode')
      BY <2>1, <3>1 DEF BlocksInOrder
    <3>3. CASE k \in 1 .. Len(tx) /\ tx'[k] = tx[k]
      BY <1>7, <2>1, <3>1, <3>3 DEF BlocksInOrder, Announces
    <3> QED BY <1>4, <3>2, <3>3 DEF Announces, Turns
  <2>2. CASE j > Len(tx) /\ (tx'[j].kind = "fe" => tx'[j].mode = mode')
    <3>1. Turns(mode') /\ ~(k \in 1 .. Len(tx))
      BY <1>2, <1>7, <2>2 DEF Turned, Turns
    <3> QED BY <1>4, <3>1 DEF Announces, Turns
  <2> QED BY <1>4, <2>1, <2>2
<1>8. ASSUME NEW k \in 1 .. Len(tx'), Turned(tx, k)'
      PROVE  Turns(mode)'
  <2>1. CASE k \in 1 .. Len(tx) /\ tx'[k] = tx[k]
    <3>1. Turned(tx, k)
      BY <1>8, <2>1 DEF Turned, Turns
    <3> QED BY <1>5, <2>1, <3>1 DEF BlocksInOrder
  <2>2. CASE tx'[k].kind = "fe" => tx'[k].mode = mode'
    BY <1>5, <1>8, <2>2 DEF Turned, Turns
  <2> QED BY <1>4, <2>1, <2>2
<1> QED BY <1>6, <1>7, <1>8 DEF BlocksInOrder

LEMMA RequestsKept ==
  ASSUME RequestsInOrder, UNCHANGED <<device, cmdLine, link, Coming>>, mode' \in {mode, Coming}
  PROVE  RequestsInOrder'
<1>1. Turns(mode)' => Turns(Coming)'
  BY DEF RequestsInOrder, Turns
<1>2. (Turns(Coming)' => Turns(Coming)) /\ (Stays(cmdLine) => Stays(cmdLine)')
      /\ (Stays(link) => Stays(link)')
  BY DEF Turns, Stays
<1>3. (OneTurn(cmdLine) => OneTurn(cmdLine)') /\ (OneTurn(link) => OneTurn(link)')
  BY DEF Turns, OneTurn
<1>4. \A k : Turns(cmdLine[k])' => Turns(cmdLine[k])
  BY DEF Turns
<1> QED BY <1>1, <1>2, <1>3, <1>4 DEF RequestsInOrder

LEMMA BlocksKept ==
  ASSUME BlocksInOrder, UNCHANGED <<device, inMeta, tx, mode>>
  PROVE  BlocksInOrder'
BY DEF BlocksInOrder, Turns, Turned, Announces

LEMMA StagedKept ==
  ASSUME StagedInMode, UNCHANGED <<staged, mode>>, pc' = pc \/ pc' # "seam"
  PROVE  StagedInMode'
BY DEF StagedInMode, Of

LEMMA OtherMode == \A a, b, c \in Modes : a # b /\ b # c => a = c
BY DEF Modes

------------------------------------------------------------------------------
\* Types.

LEMMA ModeTypesInit == Init => TypeOK
<1> SUFFICES ASSUME Init PROVE TypeOK
  OBVIOUS
<1>1. /\ Meta("clocked") \in Seq(Symbols) /\ Len(Meta("clocked")) = 3
      /\ <<Ff>> \in Seq(Symbols) /\ Len(<<Ff>>) = 1 /\ <<>> \in Seq(Symbols)
  BY SymbolTypes DEF Modes
<1> DEFINE f == <<Ff>>
           b == Meta("clocked")
<1>2. staged = f \o b /\ f \in Seq(Symbols) /\ Len(f) = 1 /\ b \in Seq(Symbols) /\ Len(b) = 3
  <2>1. staged = f \o b
    BY DEF Init
  <2> QED BY <1>1, <2>1
<1> HIDE DEF f, b
<1>3. f \o b \in Seq(Symbols) /\ Len(f \o b) = 4
  <2>1. f \o b \in Seq(Symbols) /\ Len(f \o b) = Len(f) + Len(b)
    BY <1>2, ConcatProperties
  <2> QED BY <1>2, <2>1
<1>4. staged \in Seq(Symbols) /\ Len(staged) <= RamCap
  BY <1>2, <1>3, ModeSizes
<1>5. link = <<>> /\ cmdLine = <<>> /\ tx = <<>>
  BY DEF Init
<1> QED BY <1>1, <1>4, <1>5, ModeSizes DEF Init, TypeOK, Modes

LEMMA FlipTypes == ASSUME TypeOK, NEW m \in Modes, Flip(m) PROVE TypeOK'
<1>1. link' \in Seq(Modes \cup {"noise", "nl"})
  <2> DEFINE W == Modes \cup {"noise", "nl"}
             w == <<m, "nl">>
  <2>1. link \in Seq(W) /\ (link' = link \o w \/ link' = link)
    BY Zenon DEF Flip, TypeOK
  <2>3. w \in Seq(W)
    OBVIOUS
  <2> HIDE DEF W, w
  <2>2. link' \in Seq(W)
    BY <2>1, <2>3, ConcatProperties
  <2> QED BY <2>2 DEF W
<1> QED BY <1>1 DEF Flip, TypeOK, input, parser

LEMMA SelectTypes == ASSUME TypeOK, NEW m \in Modes, Select(m) PROVE TypeOK'
BY DEF Select, TypeOK, input, parser

LEMMA HostReadsTypes == ASSUME TypeOK, HostReads PROVE TypeOK'
<1>1. /\ Head(tx) \in Symbols /\ Tail(tx) \in Seq(Symbols) /\ Len(Tail(tx)) <= TxCap
  <2>1. tx \in Seq(Symbols) /\ tx # <<>> /\ Len(tx) <= TxCap
    BY DEF TypeOK, HostReads
  <2>2. /\ Len(tx) \in Nat \ {0} /\ Head(tx) = tx[1] /\ tx[1] \in Symbols
        /\ Tail(tx) \in Seq(Symbols) /\ Len(Tail(tx)) = Len(tx) - 1
    BY <2>1, Taken
  <2>3. Len(tx) - 1 <= TxCap
    BY <2>1, <2>2, ModeSizes
  <2> QED BY <2>2, <2>3
<1>2. tx' = Tail(tx)
  BY DEF HostReads
<1>3. inMeta' \in Modes \cup {"-"} /\ lastData' \in Modes \cup {"-"}
  <2>1. inMeta' \in {Head(tx).mode, inMeta, "-"} /\ lastData' \in {Head(tx).mode, lastData}
    BY DEF HostReads
  <2> QED BY <1>1, <2>1, SymbolModes DEF TypeOK
<1>4. ui' \in Modes /\ device' \in Modes /\ view' \in Modes
  <2>1. CASE Head(tx).kind = "end" /\ inMeta # "-"
    <3>1. inMeta \in Modes /\ OnModeMarker(inMeta)
      BY <2>1 DEF TypeOK, HostReads
    <3> QED BY <3>1 DEF TypeOK, OnModeMarker, Follow
  <2>2. CASE ~(Head(tx).kind = "end" /\ inMeta # "-")
    BY <2>2 DEF TypeOK, HostReads, page
  <2> QED BY <2>1, <2>2
<1>5. UNCHANGED <<link, cmdLine, mode, pc, to, off, staged>>
  BY DEF HostReads, input
<1> QED BY <1>1, <1>2, <1>3, <1>4, <1>5 DEF TypeOK

LEMMA NoiseTypes == ASSUME TypeOK, Noise PROVE TypeOK'
<1>1. link' \in Seq(Modes \cup {"noise", "nl"})
  BY AppendProperties DEF Noise, TypeOK
<1> QED BY <1>1 DEF Noise, TypeOK, input, parser, page

LEMMA ServiceRleTypes == ASSUME TypeOK, NEW due, ServiceRle(due) PROVE TypeOK'
<1>1. tx' \in Seq(Symbols) /\ Len(tx') <= TxCap
  BY RleWrites, WritesTypes DEF TypeOK
<1>2. UNCHANGED staged
  BY DEF ServiceRle, RleData, RleIdle
<1> QED BY <1>1, <1>2 DEF ServiceRle, TypeOK, input, parser, page

LEMMA ServiceClockedTypes ==
  ASSUME TypeOK, StagedInMode, NEW due, NEW record, ServiceClocked(due, record)
  PROVE  TypeOK'
<1>1. tx' \in Seq(Symbols) /\ Len(tx') <= TxCap
  BY ClockedWrites, WritesTypes DEF TypeOK
<1>2. staged' \in Seq(Symbols) /\ Len(staged') <= RamCap
  BY ClockedWrites
<1> QED BY <1>1, <1>2 DEF ServiceClocked, TypeOK, input, parser, page

\* A word or the end of a line arrives.
LEMMA WordTaken ==
  ASSUME TypeOK, link # <<>>
  PROVE  /\ Tail(link) \in Seq(Modes \cup {"noise", "nl"})
         /\ Head(link) \in Modes \cup {"noise", "nl"}
         /\ Len(link) \in Nat \ {0} /\ Len(Tail(link)) = Len(link) - 1 /\ Head(link) = link[1]
         /\ \A k \in 1 .. Len(link) - 1 : Tail(link)[k] = link[k + 1]
BY Taken DEF TypeOK

LEMMA PollWordTypes == ASSUME TypeOK, PollWord PROVE TypeOK'
<1>1. Head(link) \in Modes \cup {"noise"} /\ link' \in Seq(Modes \cup {"noise", "nl"})
  BY WordTaken DEF PollWord
<1>2. cmdLine' \in Seq(Modes \cup {"noise"}) /\ Len(cmdLine') <= LineMax
  <2>1. CASE Full(cmdLine)
    <3>1. cmdLine' = <<>>
      BY <2>1 DEF PollWord
    <3>2. <<>> \in Seq(Modes \cup {"noise"}) /\ Len(<<>>) = 0
      BY EmptySeq
    <3> QED BY <3>1, <3>2, ModeSizes
  <2>2. CASE ~Full(cmdLine)
    <3>1. cmdLine' = Append(cmdLine, Head(link))
      BY <2>2 DEF PollWord
    <3>2. cmdLine' \in Seq(Modes \cup {"noise"}) /\ Len(cmdLine') = Len(cmdLine) + 1
          /\ Len(cmdLine) \in Nat
      BY <1>1, <3>1, AppendProperties, LenProperties DEF TypeOK
    <3> QED BY <2>2, <3>2, ModeSizes DEF Full
  <2> QED BY <2>1, <2>2
<1>3. UNCHANGED <<mode, pc, to, off, staged, tx, ui, device, view, inMeta, lastData>>
  BY DEF PollWord, parser, page
<1> QED BY <1>1, <1>2, <1>3 DEF TypeOK

LEMMA EmptyLine == <<>> \in Seq(Modes \cup {"noise"}) /\ Len(<<>>) <= LineMax
BY ModeSizes

LEMMA PollSwitchTypes == ASSUME TypeOK, PollSwitch PROVE TypeOK'
<1>1. link' \in Seq(Modes \cup {"noise", "nl"})
  BY WordTaken DEF PollSwitch
<1>2. to' \in Modes
  BY DEF PollSwitch, Switches, Valid
<1>3. <<>> \in Seq(Symbols) /\ Len(<<>>) <= RamCap
  BY ModeSizes
<1>4. /\ cmdLine' = <<>> /\ staged' = <<>> /\ pc' = "seam" /\ off' = 0
      /\ UNCHANGED <<mode, tx, ui, device, view, inMeta, lastData>>
  BY DEF PollSwitch, parser, page
<1> QED BY <1>1, <1>2, <1>3, <1>4, EmptyLine DEF TypeOK

LEMMA PollIgnoreTypes == ASSUME TypeOK, PollIgnore PROVE TypeOK'
<1>1. link' \in Seq(Modes \cup {"noise", "nl"})
  BY WordTaken DEF PollIgnore
<1>2. cmdLine' = <<>> /\ UNCHANGED <<mode, pc, to, off, staged, tx, ui, device, view, inMeta, lastData>>
  BY DEF PollIgnore, parser, page
<1> QED BY <1>1, <1>2, EmptyLine DEF TypeOK

\* What WriteSeam writes is the next part of the seam.
LEMMA SeamPart ==
  ASSUME TypeOK, WriteSeam
  PROVE  \E n \in 1 .. 3 - off :
           /\ off < 3
           /\ tx' = tx \o SubSeq(Seam, off + 1, off + n) /\ off' = off + n
           /\ SubSeq(Seam, off + 1, off + n) \in Seq(Symbols)
           /\ \A m : Writes(tx, tx', m)
<1> DEFINE n == IF Room(tx) < Len(Seam) - off THEN Room(tx) ELSE Len(Seam) - off
           t == SubSeq(Seam, off + 1, off + n)
<1>1. /\ Seam \in Seq(Symbols) /\ Len(Seam) = 3
      /\ Seam[1].mode = "-" /\ Seam[2].mode = "-" /\ Seam[3].mode = "-"
  BY SymbolTypes DEF Seam
<1>2. Len(tx) \in Nat /\ tx \in Seq(Symbols) /\ off \in 0 .. 3
  BY LenProperties DEF TypeOK
<1>3. off < 3 /\ n \in 1 .. 3 - off /\ n <= Room(tx) /\ Room(tx) = TxCap - Len(tx)
  BY <1>1, <1>2, ModeSizes DEF WriteSeam, Room
<1>4. tx' = tx \o t /\ off' = off + n
  BY DEF WriteSeam
<1> HIDE DEF n
<1>5. \A i \in off + 1 .. off + n : i \in 1 .. 3 /\ Seam[i] \in Symbols /\ Seam[i].mode = "-"
  <2>1. \A i \in off + 1 .. off + n : i \in 1 .. 3 /\ (i = 1 \/ i = 2 \/ i = 3)
    BY <1>2, <1>3
  <2>2. \A i \in 1 .. 3 : Seam[i] \in Symbols
    BY <1>1, LenProperties
  <2> QED BY <1>1, <2>1, <2>2
<1>6. /\ t \in Seq(Symbols) /\ Len(t) = n
      /\ \A k \in 1 .. n : t[k].mode = "-"
  <2>1. /\ t \in Seq(Symbols)
        /\ Len(t) = IF off + 1 <= off + n THEN off + n - (off + 1) + 1 ELSE 0
        /\ \A k \in 1 .. off + n - (off + 1) + 1 : t[k] = Seam[off + 1 + k - 1]
    BY <1>2, <1>3, <1>5, SubSeqProperties
  <2>2. off + n - (off + 1) + 1 = n /\ off + 1 <= off + n
    BY <1>2, <1>3
  <2>3. \A k \in 1 .. n : off + 1 + k - 1 \in off + 1 .. off + n
    BY <1>2, <1>3
  <2> QED BY <1>5, <2>1, <2>2, <2>3
<1>7. Len(tx \o t) = Len(tx) + n
  BY <1>2, <1>6, ConcatProperties
<1>8. Len(tx') <= TxCap
  BY <1>2, <1>3, <1>4, <1>7, ModeSizes
<1>9. \A m : Writes(tx, tx', m)
  BY <1>4, <1>6, <1>8 DEF Writes, Of
<1> QED BY <1>3, <1>4, <1>6, <1>9

LEMMA WriteSeamTypes == ASSUME TypeOK, WriteSeam PROVE TypeOK'
<1>1. PICK n \in 1 .. 3 - off : off < 3 /\ off' = off + n /\ \A m : Writes(tx, tx', m)
  BY SeamPart
<1>2. tx' \in Seq(Symbols) /\ Len(tx') <= TxCap
  BY <1>1, WritesTypes DEF TypeOK
<1>3. off' \in 0 .. 3
  BY <1>1 DEF TypeOK
<1> QED BY <1>2, <1>3 DEF WriteSeam, TypeOK, input, parser, page

\* What the datapath that begins announces.
LEMMA BeginWrites ==
  ASSUME TypeOK, StagedInMode, pc = "seam", Begin
  PROVE  /\ Writes(tx, tx', to)
         /\ staged' \in Seq(Symbols) /\ Len(staged') <= RamCap /\ Of(staged', "clocked")
         /\ staged' # <<>> => to = "clocked"
<1>0. tx \in Seq(Symbols) /\ Len(tx) <= TxCap /\ to \in Modes /\ staged = <<>>
  BY DEF TypeOK, StagedInMode
<1>1. CASE to = "rle"
  <2>1. tx' = RleMarker(tx) /\ staged' = <<>>
    BY <1>0, <1>1 DEF Begin
  <2>2. <<>> \in Seq(Symbols) /\ Len(<<>>) <= RamCap /\ Of(<<>>, "clocked")
    <3>1. Of(<<>>, "clocked")
      BY DEF Of
    <3>2. <<>> \in Seq(Symbols) /\ Len(<<>>) <= RamCap
      BY ModeSizes
    <3> QED BY <3>1, <3>2
  <2>3. Writes(tx, tx', "rle")
    BY <1>0, <2>1, MarkerWrites
  <2> QED BY <1>1, <2>1, <2>2, <2>3
<1>2. CASE to = "clocked"
  <2> DEFINE f == <<Ff>>
             b == Meta("clocked")
  <2>1. /\ f \in Seq(Symbols) /\ Len(f) = 1 /\ b \in Seq(Symbols) /\ Len(b) = 3
        /\ Of(f, "clocked") /\ Of(b, "clocked")
    BY SymbolTypes, Fixed DEF Modes
  <2>2. staged' = f \o b /\ tx' = tx
    BY <1>2 DEF Begin
  <2> HIDE DEF f, b
  <2>3. f \o b \in Seq(Symbols) /\ Len(f \o b) = 4
    <3>1. f \o b \in Seq(Symbols) /\ Len(f \o b) = Len(f) + Len(b)
      BY <2>1, ConcatProperties
    <3> QED BY <2>1, <3>1
  <2>4. Of(f \o b, "clocked")
    BY <2>1, OfJoined
  <2> QED BY <1>0, <1>2, <2>2, <2>3, <2>4, WritesNothing, ModeSizes
<1> QED BY <1>0, <1>1, <1>2 DEF Modes

LEMMA BeginTypes == ASSUME TypeOK, StagedInMode, pc = "seam", Begin PROVE TypeOK'
<1>1. tx' \in Seq(Symbols) /\ Len(tx') <= TxCap
  BY BeginWrites, WritesTypes DEF TypeOK
<1>2. staged' \in Seq(Symbols) /\ Len(staged') <= RamCap
  BY BeginWrites
<1> QED BY <1>1, <1>2 DEF Begin, TypeOK, input, parser, page

LEMMA ModeTypes == TypeOK /\ StagedInMode /\ [Next]_vars => TypeOK'
<1> SUFFICES ASSUME TypeOK, StagedInMode, [Next]_vars PROVE TypeOK'
  OBVIOUS
<1>1. CASE UNCHANGED vars
  BY <1>1 DEF TypeOK, vars, input, parser, page
<1>2. ASSUME Revert PROVE TypeOK'
  BY <1>2 DEF TypeOK, Revert, input, parser
<1>3. ASSUME PollDone PROVE TypeOK'
  BY <1>3 DEF TypeOK, PollDone, input, parser, page
<1>4. CASE Device
  BY <1>3, <1>4, ServiceRleTypes, ServiceClockedTypes, PollWordTypes, PollSwitchTypes,
     PollIgnoreTypes, WriteSeamTypes, BeginTypes DEF Device, SeamDone, SeamGivenUp
<1> QED BY <1>1, <1>2, <1>4, FlipTypes, SelectTypes, HostReadsTypes, NoiseTypes DEF Next

------------------------------------------------------------------------------
\* The inductive invariant, step by step.

Untyped == AheadApart /\ StagedInMode /\ BlocksInOrder /\ RequestsInOrder /\ PageInStep

LEMMA ModeInit == Init => ModeInv
<1> SUFFICES ASSUME Init PROVE Untyped
  BY ModeTypesInit DEF ModeInv, Untyped
<1>1. AheadApart
  <2>1. /\ tx = <<>> /\ MissingSeam = <<>> /\ lastData = "-" /\ Coming = "clocked"
    BY DEF Init, MissingSeam, Coming
  <2>2. <<>> \o <<>> = <<>> /\ <<>> \o <<Data("clocked")>> = <<Data("clocked")>>
    BY SymbolTypes, ConcatEmptySeq DEF Modes
  <2>3. Ahead = <<Data("clocked")>>
    BY <2>1, <2>2 DEF Ahead
  <2>4. Parsed.last = "-"
    BY <2>1 DEF Parsed
  <2>5. \A j, k \in DOMAIN <<Data("clocked")>> : ~(j < k)
    OBVIOUS
  <2> QED BY <2>3, <2>4, <2>5 DEF AheadApart, Apart
<1>2. StagedInMode
  <2> DEFINE f == <<Ff>>
             b == Meta("clocked")
  <2>1. staged = f \o b /\ mode = "clocked" /\ pc = "service"
    BY DEF Init
  <2>2. /\ f \in Seq(Symbols) /\ b \in Seq(Symbols) /\ Of(f, "clocked") /\ Of(b, "clocked")
    BY SymbolTypes, Fixed DEF Modes
  <2> HIDE DEF f, b
  <2>3. Of(f \o b, "clocked")
    BY <2>2, OfJoined
  <2> QED BY <2>1, <2>3 DEF StagedInMode
<1>3. link = <<>> /\ cmdLine = <<>> /\ tx = <<>> /\ inMeta = "-" /\ pc = "service" /\ Coming = mode
  BY DEF Init, Coming
<1>4. BlocksInOrder
  BY <1>3 DEF BlocksInOrder, Turns, Modes
<1>5. RequestsInOrder
  BY <1>3 DEF RequestsInOrder, Stays, OneTurn
<1>6. PageInStep
  BY DEF Init, PageInStep
<1> QED BY <1>1, <1>2, <1>4, <1>5, <1>6 DEF Untyped

\* The page asks for the mode it does not show, which is the one it believes in.
LEMMA FlipStep == ASSUME ModeInv, NEW m \in Modes, Flip(m) PROVE Untyped'
<1>0. TypeOK /\ Untyped
  BY DEF ModeInv, Untyped
<1>1. /\ UNCHANGED <<tx, mode, pc, to, off, staged, device, inMeta, lastData, cut, lone, atStart,
                     torn, cmdLine>>
      /\ pending' = TRUE /\ ui' = m /\ target' = m /\ ~pending /\ m # ui
      /\ link' = link \o <<m, "nl">> \/ link' = link
  BY DEF Flip, input, parser
<1>2. UNCHANGED <<MissingSeam, Coming>>
  BY <1>1 DEF MissingSeam, Coming
<1>3. m # device /\ device \in Modes
  BY <1>0, <1>1 DEF Untyped, PageInStep, TypeOK
<1>4. RequestsInOrder'
  <2>1. CASE link' = link
    BY <1>0, <1>1, <1>2, <2>1, RequestsKept DEF Untyped
  <2>2. CASE link' = link \o <<m, "nl">>
    <3> DEFINE W == Modes \cup {"noise", "nl"}
               w == <<m, "nl">>
    <3>1. link \in Seq(W) /\ w \in Seq(W) /\ Len(w) = 2 /\ w[1] = m /\ w[2] = "nl"
      BY <1>0 DEF TypeOK
    <3>2. \A k \in 1 .. 2 : w[k] # device
      BY <1>3, <3>1 DEF Modes
    <3> HIDE DEF W, w
    <3>3. /\ Len(link \o w) = Len(link) + Len(w) /\ Len(link) \in Nat
          /\ \A k \in 1 .. Len(link) + Len(w) :
               (link \o w)[k] = IF k <= Len(link) THEN link[k] ELSE w[k - Len(link)]
      <4>1. link \in Seq(W) /\ w \in Seq(W)
        BY <3>1
      <4> QED BY <4>1, ConcatProperties, LenProperties
    <3>4. \A k \in 1 .. Len(link) + 2 : \/ k \in 1 .. Len(link) /\ (link \o w)[k] = link[k]
                                        \/ ~(k \in 1 .. Len(link)) /\ (link \o w)[k] # device
      <4> SUFFICES ASSUME NEW k \in 1 .. Len(link) + 2, ~(k <= Len(link))
                   PROVE  (link \o w)[k] # device
        BY <3>1, <3>3
      <4>1. k - Len(link) \in 1 .. 2
        BY <3>3
      <4> QED BY <3>1, <3>2, <3>3, <4>1
    <3>5. link' = link \o w /\ Len(link') = Len(link) + 2
      BY <2>2, <3>1, <3>3 DEF w
    <3>6. Stays(link) => Stays(link)'
      BY <1>1, <3>4, <3>5 DEF Stays
    <3>7. OneTurn(link) => OneTurn(link)'
      <4> SUFFICES ASSUME OneTurn(link), NEW j \in 1 .. Len(link'), NEW k \in 1 .. Len(link'),
                          j < k, Turns(link'[j])
                   PROVE  link'[k] # device
        BY <1>1 DEF OneTurn, Turns
      <4>1. CASE k \in 1 .. Len(link) /\ link'[k] = link[k]
        <5>1. j \in 1 .. Len(link) /\ link'[j] = link[j]
          BY <3>3, <3>4, <3>5, <4>1
        <5> QED BY <4>1, <5>1 DEF OneTurn
      <4> QED BY <3>4, <3>5, <4>1
    <3> QED BY <1>0, <1>1, <1>2, <3>6, <3>7 DEF Untyped, RequestsInOrder, Turns, Stays, OneTurn
  <2> QED BY <1>1, <2>1, <2>2
<1>5. AheadApart' /\ StagedInMode' /\ BlocksInOrder'
  BY <1>0, <1>1, <1>2, AheadKept, StagedKept, BlocksKept DEF Untyped
<1>6. PageInStep'
  BY <1>0, <1>1, <1>3 DEF Untyped, PageInStep
<1> QED BY <1>4, <1>5, <1>6 DEF Untyped

\* Another decoder is no request.
LEMMA SelectStep == ASSUME ModeInv, NEW m \in Modes, Select(m) PROVE Untyped'
<1>0. Untyped
  BY DEF ModeInv, Untyped
<1>1. UNCHANGED <<tx, mode, pc, to, off, staged, device, inMeta, lastData, cut, lone, atStart,
                  torn, cmdLine, link, pending, ui, target>>
  BY DEF Select, input, parser
<1>2. UNCHANGED <<MissingSeam, Coming>>
  BY <1>1 DEF MissingSeam, Coming
<1>3. AheadApart' /\ StagedInMode' /\ BlocksInOrder' /\ RequestsInOrder'
  BY <1>0, <1>1, <1>2, AheadKept, StagedKept, BlocksKept, RequestsKept DEF Untyped
<1>4. PageInStep'
  BY <1>0, <1>1 DEF Untyped, PageInStep
<1> QED BY <1>3, <1>4 DEF Untyped

LEMMA RevertStep == ASSUME ModeInv, Revert PROVE Untyped'
<1>0. Untyped
  BY DEF ModeInv, Untyped
<1>1. /\ UNCHANGED <<tx, mode, pc, to, off, staged, device, inMeta, lastData, cut, lone, atStart,
                     torn, cmdLine, link>>
      /\ pending' = FALSE /\ ui' = device
  BY DEF Revert, input, parser
<1>2. UNCHANGED <<MissingSeam, Coming>>
  BY <1>1 DEF MissingSeam, Coming
<1>3. AheadApart' /\ StagedInMode' /\ BlocksInOrder' /\ RequestsInOrder'
  BY <1>0, <1>1, <1>2, AheadKept, StagedKept, BlocksKept, RequestsKept DEF Untyped
<1>4. PageInStep'
  BY <1>0, <1>1 DEF Untyped, PageInStep
<1> QED BY <1>3, <1>4 DEF Untyped

LEMMA NoiseStep == ASSUME ModeInv, Noise PROVE Untyped'
<1>0. TypeOK /\ Untyped
  BY DEF ModeInv, Untyped
<1>1. /\ UNCHANGED <<tx, mode, pc, to, off, staged, device, inMeta, lastData, cut, lone, atStart,
                     torn, cmdLine, pending, ui, target>>
      /\ link' = Append(link, "noise")
  BY DEF Noise, input, parser, page
<1>2. UNCHANGED <<MissingSeam, Coming>>
  BY <1>1 DEF MissingSeam, Coming
<1>3. /\ Len(link') = Len(link) + 1 /\ Len(link) \in Nat
      /\ \A k \in 1 .. Len(link) : link'[k] = link[k]
      /\ link'[Len(link) + 1] = "noise" /\ device # "noise"
  BY <1>0, <1>1, AppendProperties, LenProperties DEF TypeOK, Modes
<1>4. \A k \in 1 .. Len(link') : \/ k \in 1 .. Len(link) /\ link'[k] = link[k]
                                 \/ k = Len(link) + 1 /\ link'[k] = "noise"
  BY <1>3
<1>5. Stays(link) => Stays(link)'
  BY <1>1, <1>3, <1>4 DEF Stays
<1>6. OneTurn(link) => OneTurn(link)'
  <2> SUFFICES ASSUME OneTurn(link), NEW j \in 1 .. Len(link'), NEW k \in 1 .. Len(link'),
                      j < k, Turns(link'[j])
               PROVE  link'[k] # device
    BY <1>1 DEF OneTurn, Turns
  <2>1. CASE k \in 1 .. Len(link) /\ link'[k] = link[k]
    <3>1. j \in 1 .. Len(link) /\ link'[j] = link[j]
      BY <1>3, <1>4, <2>1
    <3> QED BY <2>1, <3>1 DEF OneTurn
  <2> QED BY <1>3, <1>4, <2>1
<1>7. RequestsInOrder'
  BY <1>0, <1>1, <1>2, <1>5, <1>6 DEF Untyped, RequestsInOrder, Turns, Stays, OneTurn
<1>8. AheadApart' /\ StagedInMode' /\ BlocksInOrder'
  BY <1>0, <1>1, <1>2, AheadKept, StagedKept, BlocksKept DEF Untyped
<1>9. PageInStep'
  BY <1>0, <1>1 DEF Untyped, PageInStep
<1> QED BY <1>7, <1>8, <1>9 DEF Untyped

\* A pass of service(): no seam is being written.
LEMMA Serving ==
  ASSUME pc = "service", pc' = "poll", UNCHANGED mode
  PROVE  /\ MissingSeam = <<>> /\ MissingSeam' = <<>>
         /\ Coming = mode /\ Coming' = mode
BY DEF MissingSeam, Coming

LEMMA ServiceRleStep == ASSUME ModeInv, NEW due, ServiceRle(due) PROVE Untyped'
<1>0. TypeOK /\ Untyped
  BY DEF ModeInv, Untyped
<1>1. /\ UNCHANGED <<mode, to, off, staged, device, inMeta, lastData, cut, lone, atStart,
                     torn, cmdLine, link, pending, ui, target>>
      /\ pc = "service" /\ pc' = "poll" /\ mode = "rle"
  BY DEF ServiceRle, RleData, RleIdle, input, parser, page
<1>2. Writes(tx, tx', "rle")
  BY <1>0, RleWrites
<1>3. /\ MissingSeam = <<>> /\ MissingSeam' = <<>> /\ Coming = mode /\ Coming' = mode
  BY <1>1, Serving
<1>4. tx \in Seq(Symbols) /\ mode \in Modes /\ device \in Modes
  BY <1>0 DEF TypeOK
<1>5. AheadApart'
  BY <1>0, <1>1, <1>2, <1>3, <1>4, AheadWritten DEF Untyped
<1>6. BlocksInOrder'
  BY <1>0, <1>1, <1>2, <1>4, BlocksWritten DEF Untyped
<1>7. StagedInMode' /\ RequestsInOrder'
  BY <1>0, <1>1, <1>3, StagedKept, RequestsKept DEF Untyped
<1>8. PageInStep'
  BY <1>0, <1>1 DEF Untyped, PageInStep
<1> QED BY <1>5, <1>6, <1>7, <1>8 DEF Untyped

LEMMA ServiceClockedStep ==
  ASSUME ModeInv, NEW due, NEW record, ServiceClocked(due, record)
  PROVE  Untyped'
<1>0. TypeOK /\ Untyped
  BY DEF ModeInv, Untyped
<1>1. /\ UNCHANGED <<mode, to, off, device, inMeta, lastData, cut, lone, atStart,
                     torn, cmdLine, link, pending, ui, target>>
      /\ pc = "service" /\ pc' = "poll" /\ mode = "clocked"
  BY DEF ServiceClocked, input, parser, page
<1>2. Writes(tx, tx', "clocked") /\ Of(staged', "clocked")
  BY <1>0, ClockedWrites DEF Untyped
<1>3. /\ MissingSeam = <<>> /\ MissingSeam' = <<>> /\ Coming = mode /\ Coming' = mode
  BY <1>1, Serving
<1>4. tx \in Seq(Symbols) /\ mode \in Modes /\ device \in Modes
  BY <1>0 DEF TypeOK
<1>5. AheadApart'
  BY <1>0, <1>1, <1>2, <1>3, <1>4, AheadWritten DEF Untyped
<1>6. BlocksInOrder'
  BY <1>0, <1>1, <1>2, <1>4, BlocksWritten DEF Untyped
<1>7. StagedInMode'
  BY <1>1, <1>2 DEF StagedInMode, Of
<1>8. RequestsInOrder'
  BY <1>0, <1>1, <1>3, RequestsKept DEF Untyped
<1>9. PageInStep'
  BY <1>0, <1>1 DEF Untyped, PageInStep
<1> QED BY <1>5, <1>6, <1>7, <1>8, <1>9 DEF Untyped

LEMMA TailJoined ==
  ASSUME NEW S, NEW s \in Seq(S), NEW t \in Seq(S), s # <<>>
  PROVE  Tail(s) \o t = Tail(s \o t) /\ s \o t # <<>> /\ (s \o t)[1] = s[1]
<1>1. /\ Len(s) \in Nat \ {0} /\ Tail(s) \in Seq(S) /\ Len(Tail(s)) = Len(s) - 1
      /\ \A k \in 1 .. Len(s) - 1 : Tail(s)[k] = s[k + 1]
  BY Taken
<1>2. /\ s \o t \in Seq(S) /\ Len(s \o t) = Len(s) + Len(t) /\ Len(t) \in Nat
      /\ \A k \in 1 .. Len(s) + Len(t) : (s \o t)[k] = IF k <= Len(s) THEN s[k] ELSE t[k - Len(s)]
  BY ConcatProperties, LenProperties
<1>3. s \o t # <<>> /\ (s \o t)[1] = s[1]
  BY <1>1, <1>2, EmptySeq
<1>4. /\ Tail(s \o t) \in Seq(S) /\ Len(Tail(s \o t)) = Len(s \o t) - 1
      /\ \A k \in 1 .. Len(s \o t) - 1 : Tail(s \o t)[k] = (s \o t)[k + 1]
  BY <1>2, <1>3, Taken
<1>5. /\ Tail(s) \o t \in Seq(S) /\ Len(Tail(s) \o t) = Len(s) - 1 + Len(t)
      /\ \A k \in 1 .. Len(s) - 1 + Len(t) :
           (Tail(s) \o t)[k] = IF k <= Len(s) - 1 THEN Tail(s)[k] ELSE t[k - (Len(s) - 1)]
  <2>1. /\ Tail(s) \o t \in Seq(S) /\ Len(Tail(s) \o t) = Len(Tail(s)) + Len(t)
        /\ \A k \in 1 .. Len(Tail(s)) + Len(t) :
           (Tail(s) \o t)[k] = IF k <= Len(Tail(s)) THEN Tail(s)[k] ELSE t[k - Len(Tail(s))]
    BY <1>1, ConcatProperties
  <2> QED BY <1>1, <2>1
<1>6. ASSUME NEW k \in 1 .. Len(s) - 1 + Len(t)
      PROVE  (Tail(s) \o t)[k] = Tail(s \o t)[k]
  <2>1. Tail(s \o t)[k] = (s \o t)[k + 1] /\ k + 1 \in 1 .. Len(s) + Len(t)
    BY <1>1, <1>2, <1>4
  <2>2. CASE k <= Len(s) - 1
    <3>1. (Tail(s) \o t)[k] = s[k + 1]
      BY <1>1, <1>5, <2>2
    <3> QED BY <1>1, <1>2, <2>1, <2>2, <3>1
  <2>3. CASE ~(k <= Len(s) - 1)
    <3>1. (Tail(s) \o t)[k] = t[k - (Len(s) - 1)] /\ k - (Len(s) - 1) = k + 1 - Len(s)
          /\ ~(k + 1 <= Len(s))
      BY <1>1, <1>5, <2>3
    <3> QED BY <1>2, <2>1, <3>1
  <2> QED BY <2>2, <2>3
<1>7. Len(Tail(s) \o t) = Len(Tail(s \o t))
  BY <1>1, <1>2, <1>4, <1>5
<1>8. \A k \in 1 .. Len(Tail(s) \o t) : (Tail(s) \o t)[k] = Tail(s \o t)[k]
  BY <1>5, <1>6
<1>9. Tail(s) \o t = Tail(s \o t)
  BY <1>4, <1>5, <1>7, <1>8, SeqEqual
<1> QED BY <1>3, <1>9

LEMMA MissingTypes ==
  ASSUME TypeOK
  PROVE  MissingSeam \in Seq(Symbols) /\ Coming \in Modes
<1>1. /\ Seam \in Seq(Symbols) /\ Len(Seam) = 3 /\ <<>> \in Seq(Symbols)
  BY SymbolTypes
<1>2. off \in Nat /\ off <= 3
  BY DEF TypeOK
<1>3. SubSeq(Seam, off + 1, Len(Seam)) \in Seq(Symbols)
  BY <1>1, <1>2, Split
<1> QED BY <1>1, <1>3 DEF MissingSeam, Coming, TypeOK

\* The host reads a symbol: what was ahead is, but for that symbol, still ahead.
LEMMA HostReadsAhead ==
  ASSUME TypeOK, AheadApart, HostReads
  PROVE  AheadApart' /\ (lastData' # lastData /\ lastData # "-" => cut \/ torn)
<1>1. tx \in Seq(Symbols) /\ tx # <<>> /\ Head(tx) = tx[1] /\ tx' = Tail(tx) /\ tx' \in Seq(Symbols)
  BY Taken DEF TypeOK, HostReads
<1>2. UNCHANGED <<MissingSeam, Coming, torn>>
  BY DEF HostReads, MissingSeam, Coming
<1>3. MissingSeam \in Seq(Symbols) /\ <<Data(Coming)>> \in Seq(Symbols)
  BY MissingTypes, SymbolTypes
<1>4. Ahead' = Tail(Ahead) /\ Ahead # <<>> /\ Ahead[1] = tx[1] /\ Ahead \in Seq(Symbols)
  <2> DEFINE x == MissingSeam
             y == <<Data(Coming)>>
  <2>1. x \in Seq(Symbols) /\ y \in Seq(Symbols)
    BY <1>3
  <2>2. Ahead = (tx \o x) \o y /\ Ahead' = (Tail(tx) \o x) \o y
    <3>1. y' = y /\ x' = x
      BY <1>2 DEF Data, Sym
    <3> QED BY <1>1, <3>1 DEF Ahead
  <2> HIDE DEF x, y
  <2>3. tx \o x \in Seq(Symbols) /\ (tx \o x) \o y \in Seq(Symbols)
    BY <1>1, <2>1, ConcatProperties
  <2>4. Tail(tx) \o x = Tail(tx \o x) /\ tx \o x # <<>> /\ (tx \o x)[1] = tx[1]
    BY <1>1, <2>1, TailJoined
  <2>5. /\ Tail(tx \o x) \o y = Tail((tx \o x) \o y) /\ (tx \o x) \o y # <<>>
        /\ ((tx \o x) \o y)[1] = (tx \o x)[1]
    BY <2>1, <2>3, <2>4, TailJoined
  <2> QED BY <2>2, <2>3, <2>4, <2>5
<1> DEFINE p == Parsed
           q == Parsed'
           a == Ahead
           s == tx[1]
<1>5. ReadsOn(p, q, s)
  <2>1. /\ atStart' = (s.kind = "ff")
        /\ lone' = (s.kind = "fd" /\ atStart)
        /\ lastData' = IF s.kind = "data" THEN s.mode ELSE lastData
        /\ cut' = (s.kind # "data" /\ (cut \/ (s.kind = "ff" /\ lone)))
    BY <1>1, Zenon DEF HostReads
  <2>2. /\ p.start = atStart /\ p.lone = lone /\ p.last = lastData /\ p.cut = cut
        /\ q.start = atStart' /\ q.lone = lone' /\ q.last = lastData' /\ q.cut = cut'
    BY DEF Parsed
  <2> HIDE DEF p, q, s
  <2> QED BY <2>1, <2>2, Zenon DEF ReadsOn
<1>6. ASSUME Apart(p, a)
      PROVE  Apart(q, Tail(a)) /\ (s.kind = "data" /\ lastData \notin {"-", s.mode} => cut)
  <2>1. a \in Seq(Symbols) /\ a # <<>> /\ ReadsOn(p, q, a[1]) /\ a[1] = s
    BY <1>4, <1>5
  <2>2. p.last = lastData /\ p.cut = cut
    BY DEF Parsed
  <2> HIDE DEF p, q, a, s
  <2> QED BY <1>6, <2>1, <2>2, ApartRead
<1>7. Apart(Parsed, Ahead)' <=> Apart(q, Tail(a))
  BY <1>4 DEF Apart, SeamBegun, SeamBetween, SeamAt
<1>8. AheadApart'
  BY <1>2, <1>6, <1>7 DEF AheadApart
<1>9. lastData' # lastData /\ lastData # "-" => cut \/ torn
  <2>1. lastData' # lastData => s.kind = "data" /\ lastData' = s.mode
    BY <1>1 DEF HostReads
  <2> QED BY <1>6, <2>1 DEF AheadApart
<1> QED BY <1>8, <1>9

\* What the page believes after a symbol, and the block it reads.
LEMMA HostReadsPage ==
  ASSUME ModeInv, HostReads
  PROVE  \/ /\ UNCHANGED <<page>>
            /\ inMeta' \in {"-", inMeta} \/ (tx[1].kind = "fe" /\ inMeta' = tx[1].mode)
         \/ /\ inMeta \in Modes /\ inMeta' = "-" /\ OnModeMarker(inMeta)
<1>1. tx[1] = Head(tx)
  BY Taken DEF TypeOK, ModeInv, HostReads
<1>2. CASE Head(tx).kind = "end" /\ inMeta # "-"
  <2>1. inMeta \in Modes /\ OnModeMarker(inMeta)
    BY <1>2 DEF HostReads, ModeInv, TypeOK
  <2>2. inMeta' = "-"
    BY <1>2 DEF HostReads
  <2> QED BY <2>1, <2>2
<1>3. CASE ~(Head(tx).kind = "end" /\ inMeta # "-")
  <2>1. UNCHANGED page
    BY <1>3 DEF HostReads
  <2>2. inMeta' \in {"-", inMeta} \/ (tx[1].kind = "fe" /\ inMeta' = tx[1].mode)
    BY <1>1 DEF HostReads
  <2> QED BY <2>1, <2>2
<1> QED BY <1>2, <1>3

LEMMA HostReadsOrder == ASSUME ModeInv, HostReads PROVE BlocksInOrder' /\ RequestsInOrder'
<1>0. TypeOK /\ Untyped
  BY DEF ModeInv, Untyped
<1>1. /\ tx \in Seq(Symbols) /\ tx # <<>> /\ tx' = Tail(tx) /\ Len(tx) \in Nat \ {0}
      /\ Len(tx') = Len(tx) - 1 /\ \A k \in 1 .. Len(tx) - 1 : tx'[k] = tx[k + 1]
  BY <1>0, Taken DEF TypeOK, HostReads
<1>2. \A k \in 1 .. Len(tx') : k + 1 \in 1 .. Len(tx) /\ tx'[k] = tx[k + 1] /\ 1 < k + 1
  BY <1>1
<1>3. 1 \in 1 .. Len(tx) /\ \A j, k \in 1 .. Len(tx') : j < k => j + 1 < k + 1
  BY <1>1
<1>4. UNCHANGED <<mode, Coming, cmdLine, link>> /\ mode \in Modes /\ device \in Modes /\ Coming \in Modes
  BY <1>0, MissingTypes DEF HostReads, input, Coming, TypeOK
<1>5. CASE /\ UNCHANGED page
           /\ inMeta' \in {"-", inMeta} \/ (tx[1].kind = "fe" /\ inMeta' = tx[1].mode)
  <2>1. device' = device
    BY <1>5 DEF page
  <2>2. Turns(inMeta)' => Turns(inMeta) \/ Turned(tx, 1)
    BY <1>5, <2>1 DEF Turns, Turned, Modes
  <2>3. ASSUME Turns(inMeta)'
        PROVE  Turns(mode)' /\ \A k \in 1 .. Len(tx') : ~Announces(tx, k)'
    <3>1. Turns(mode) /\ \A k \in 1 .. Len(tx') : ~Announces(tx, k + 1)
      BY <1>0, <1>2, <1>3, <2>2, <2>3 DEF Untyped, BlocksInOrder
    <3> QED BY <1>2, <1>4, <2>1, <3>1 DEF Turns, Announces
  <2>4. \A k \in 1 .. Len(tx') : /\ Turned(tx, k)' => Turned(tx, k + 1)
                                 /\ Announces(tx, k)' => Announces(tx, k + 1)
    BY <1>2, <2>1 DEF Turned, Announces, Turns
  <2>5. \A j, k \in 1 .. Len(tx') : j < k /\ Turned(tx, j)' => ~Announces(tx, k)'
    BY <1>0, <1>2, <1>3, <2>4 DEF Untyped, BlocksInOrder
  <2>6. \A k \in 1 .. Len(tx') : Turned(tx, k)' => Turns(mode)'
    <3>1. \A k \in 1 .. Len(tx') : Turned(tx, k)' => Turns(mode)
      BY <1>0, <1>2, <2>4 DEF Untyped, BlocksInOrder
    <3> QED BY <1>4, <2>1, <3>1 DEF Turns
  <2>7. BlocksInOrder'
    BY <2>3, <2>5, <2>6 DEF BlocksInOrder
  <2> QED BY <1>0, <1>4, <2>1, <2>7, RequestsKept DEF Untyped
<1>6. CASE inMeta \in Modes /\ inMeta' = "-" /\ OnModeMarker(inMeta)
  <2>1. device' = inMeta
    BY <1>6 DEF OnModeMarker
  <2>2. CASE inMeta = device
    <3>1. UNCHANGED device /\ inMeta' = "-"
      BY <1>6, <2>1, <2>2
    <3>4. \A k \in 1 .. Len(tx') : /\ Turned(tx, k)' => Turned(tx, k + 1)
                                   /\ Announces(tx, k)' => Announces(tx, k + 1)
      BY <1>2, <3>1 DEF Turned, Announces, Turns
    <3>5. \A j, k \in 1 .. Len(tx') : j < k /\ Turned(tx, j)' => ~Announces(tx, k)'
      BY <1>0, <1>2, <1>3, <3>4 DEF Untyped, BlocksInOrder
    <3>6. \A k \in 1 .. Len(tx') : Turned(tx, k)' => Turns(mode)'
      <4>1. \A k \in 1 .. Len(tx') : Turned(tx, k)' => Turns(mode)
        BY <1>0, <1>2, <3>4 DEF Untyped, BlocksInOrder
      <4> QED BY <1>4, <3>1, <4>1 DEF Turns
    <3>7. BlocksInOrder'
      BY <3>1, <3>5, <3>6 DEF BlocksInOrder, Turns, Modes
    <3> QED BY <1>0, <1>4, <3>1, <3>7, RequestsKept DEF Untyped
  <2>3. CASE inMeta # device
    <3>1. /\ Turns(inMeta) /\ Turns(mode) /\ Turns(Coming) /\ Stays(cmdLine) /\ Stays(link)
          /\ \A k \in 1 .. Len(tx) : ~Announces(tx, k)
      BY <1>0, <1>6, <2>3 DEF Untyped, BlocksInOrder, RequestsInOrder, Turns
    <3>2. \A m : Turns(m) => m = inMeta
      BY <1>4, <3>1, OtherMode DEF Turns
    <3>3. mode = inMeta /\ Coming = inMeta
      BY <3>1, <3>2
    <3>4. \A m \in Modes : m # device => m = device'
      BY <2>1, <3>2 DEF Turns
    <3>5. \A k \in 1 .. Len(tx') : ~Turned(tx, k)'
      <4> SUFFICES ASSUME NEW k \in 1 .. Len(tx'), tx'[k].kind = "fe", tx'[k].mode \in Modes
                   PROVE  tx'[k].mode = device'
        BY DEF Turned, Turns
      <4> QED BY <1>2, <3>1, <3>4 DEF Announces
    <3>6. BlocksInOrder'
      BY <1>6, <3>5 DEF BlocksInOrder, Turns, Modes
    <3>7. \A k \in 1 .. Len(cmdLine) : cmdLine[k] \in Modes => cmdLine[k] = device'
      BY <3>1, <3>4 DEF Stays
    <3>8. \A k \in 1 .. Len(link) : link[k] \in Modes => link[k] = device'
      BY <3>1, <3>4 DEF Stays
    <3>9. RequestsInOrder'
      BY <1>4, <2>1, <3>3, <3>7, <3>8 DEF RequestsInOrder, Turns, OneTurn
    <3> QED BY <3>6, <3>9
  <2> QED BY <2>2, <2>3
<1> QED BY <1>5, <1>6, HostReadsPage

LEMMA HostReadsStep == ASSUME ModeInv, HostReads PROVE Untyped'
<1>0. TypeOK /\ Untyped
  BY DEF ModeInv, Untyped
<1>1. AheadApart' /\ BlocksInOrder' /\ RequestsInOrder'
  BY <1>0, HostReadsAhead, HostReadsOrder DEF Untyped
<1>2. UNCHANGED <<mode, pc, to, staged, cmdLine>>
  BY DEF HostReads, input
<1>3. PageInStep'
  <2>1. CASE UNCHANGED page
    BY <1>0, <1>2, <2>1 DEF Untyped, PageInStep, page
  <2>2. CASE inMeta \in Modes /\ OnModeMarker(inMeta)
    <3>1. device' = inMeta /\ target' = target
      BY <2>2 DEF OnModeMarker
    <3>2. CASE pending
      <4>1. pending' = (inMeta # target) /\ ui' = ui
        BY <2>2, <3>2 DEF OnModeMarker, Confirms
      <4> QED BY <1>0, <1>2, <3>1, <3>2, <4>1 DEF Untyped, PageInStep
    <3>3. CASE ~pending
      <4>1. pending' = pending /\ ui' = inMeta
        BY <2>2, <3>3 DEF OnModeMarker, Follow
      <4> QED BY <1>0, <1>2, <3>1, <3>3, <4>1 DEF Untyped, PageInStep
    <3> QED BY <3>2, <3>3
  <2> QED BY <2>1, <2>2, HostReadsPage
<1>4. StagedInMode'
  BY <1>0, <1>2, StagedKept DEF Untyped
<1> QED BY <1>1, <1>3, <1>4 DEF Untyped

\* The device takes a word off the link.
LEMMA LinkTaken ==
  ASSUME TypeOK, link # <<>>, link' = Tail(link), UNCHANGED device
  PROVE  /\ Stays(link) => Stays(link)' /\ Head(link) # device
         /\ OneTurn(link) => OneTurn(link)' /\ (Turns(Head(link)) => Stays(link)')
<1>1. /\ Len(link) \in Nat \ {0} /\ Len(link') = Len(link) - 1 /\ Head(link) = link[1]
      /\ \A k \in 1 .. Len(link) - 1 : link'[k] = link[k + 1]
  BY WordTaken
<1>2. \A k \in 1 .. Len(link') : k + 1 \in 1 .. Len(link) /\ 1 < k + 1 /\ link'[k] = link[k + 1]
  BY <1>1
<1>3. 1 \in 1 .. Len(link) /\ \A j, k \in 1 .. Len(link') : j < k => j + 1 < k + 1
  BY <1>1
<1>4. Stays(link) => Stays(link)' /\ Head(link) # device
  BY <1>1, <1>2, <1>3 DEF Stays
<1>5. OneTurn(link) => OneTurn(link)'
  <2> SUFFICES ASSUME OneTurn(link), NEW j \in 1 .. Len(link'), NEW k \in 1 .. Len(link'),
                      j < k, Turns(link'[j])
               PROVE  link'[k] # device
    BY DEF OneTurn, Turns
  <2>1. /\ j + 1 \in 1 .. Len(link) /\ k + 1 \in 1 .. Len(link) /\ j + 1 < k + 1
        /\ link'[j] = link[j + 1] /\ link'[k] = link[k + 1]
    BY <1>2, <1>3
  <2> QED BY <2>1 DEF OneTurn
<1>6. OneTurn(link) /\ Turns(Head(link)) => Stays(link)'
  <2> SUFFICES ASSUME OneTurn(link), Turns(link[1]), NEW k \in 1 .. Len(link')
               PROVE  link'[k] # device
    BY <1>1 DEF Stays
  <2>1. k + 1 \in 1 .. Len(link) /\ 1 < k + 1 /\ link'[k] = link[k + 1]
    BY <1>2
  <2> QED BY <1>3, <2>1 DEF OneTurn
<1> QED BY <1>4, <1>5, <1>6

\* A word goes into the line, or empties it.
LEMMA PollWordRequests == ASSUME TypeOK, RequestsInOrder, PollWord PROVE RequestsInOrder'
<1>1. /\ link # <<>> /\ link' = Tail(link)
      /\ cmdLine' = <<>> \/ cmdLine' = Append(cmdLine, Head(link))
      /\ UNCHANGED <<mode, pc, to, device>>
  BY DEF PollWord, page
<1>2. UNCHANGED Coming
  BY <1>1 DEF Coming
<1>3. /\ Stays(link) => Stays(link)' /\ Head(link) # device
      /\ OneTurn(link) => OneTurn(link)' /\ (Turns(Head(link)) => Stays(link)')
  BY <1>1, LinkTaken
<1>4. (Turns(mode)' <=> Turns(mode)) /\ (Turns(Coming)' <=> Turns(Coming))
  BY <1>1, <1>2 DEF Turns
<1>5. CASE cmdLine' = <<>>
  <2>1. Stays(cmdLine)' /\ OneTurn(cmdLine)' /\ \A k \in 1 .. Len(cmdLine') : FALSE
    BY <1>5 DEF Stays, OneTurn
  <2> QED BY <1>3, <1>4, <2>1 DEF RequestsInOrder
<1>6. CASE cmdLine' = Append(cmdLine, Head(link))
  <2> DEFINE n == Len(cmdLine)
  <2>1. /\ n \in Nat /\ Len(cmdLine') = n + 1 /\ cmdLine'[n + 1] = Head(link)
        /\ \A k \in 1 .. n : cmdLine'[k] = cmdLine[k]
    <3>1. Head(link) \in Modes \cup {"noise"}
      BY <1>1, WordTaken DEF PollWord
    <3> QED BY <1>6, <3>1, AppendProperties, LenProperties DEF TypeOK
  <2> HIDE DEF n
  <2>2. \A k \in 1 .. Len(cmdLine') : \/ k \in 1 .. n /\ cmdLine'[k] = cmdLine[k]
                                      \/ k = n + 1 /\ cmdLine'[k] = Head(link)
    BY <2>1
  <2>3. Stays(cmdLine) /\ Stays(link) => Stays(cmdLine)'
    BY <1>1, <1>3, <2>2 DEF Stays, n
  <2>4. OneTurn(cmdLine)'
    <3> SUFFICES ASSUME NEW j \in 1 .. Len(cmdLine'), NEW k \in 1 .. Len(cmdLine'),
                        j < k, Turns(cmdLine'[j])
                 PROVE  cmdLine'[k] # device
      BY <1>1 DEF OneTurn, Turns
    <3>1. j \in 1 .. n /\ cmdLine'[j] = cmdLine[j]
      BY <2>1, <2>2
    <3>2. CASE k \in 1 .. n /\ cmdLine'[k] = cmdLine[k]
      BY <3>1, <3>2 DEF RequestsInOrder, OneTurn, n
    <3>3. CASE cmdLine'[k] = Head(link)
      BY <1>3, <3>1, <3>3 DEF RequestsInOrder, n
    <3> QED BY <2>2, <3>2, <3>3
  <2>5. ASSUME NEW k \in 1 .. Len(cmdLine'), Turns(cmdLine'[k])
        PROVE  Stays(link)'
    <3>1. CASE k \in 1 .. n /\ cmdLine'[k] = cmdLine[k]
      BY <1>3, <2>5, <3>1 DEF RequestsInOrder, n
    <3>2. CASE cmdLine'[k] = Head(link)
      BY <1>3, <2>5, <3>2 DEF RequestsInOrder
    <3> QED BY <2>2, <3>1, <3>2
  <2>6. \A k \in 1 .. Len(cmdLine') : Turns(cmdLine[k])' => Stays(link)'
    BY <1>1, <2>5 DEF Turns
  <2> QED BY <1>3, <1>4, <2>3, <2>4, <2>6 DEF RequestsInOrder
<1> QED BY <1>1, <1>5, <1>6

LEMMA PollWordStep == ASSUME ModeInv, PollWord PROVE Untyped'
<1>0. TypeOK /\ Untyped
  BY DEF ModeInv, Untyped
<1>1. /\ UNCHANGED <<tx, mode, pc, to, off, staged, device, inMeta, lastData, cut, lone, atStart,
                     torn, pending, ui, target>>
      /\ pc = "poll"
  BY DEF PollWord, parser, page
<1>2. UNCHANGED <<MissingSeam, Coming>>
  BY <1>1 DEF MissingSeam, Coming
<1>3. AheadApart' /\ StagedInMode' /\ BlocksInOrder' /\ RequestsInOrder'
  BY <1>0, <1>1, <1>2, AheadKept, StagedKept, BlocksKept, PollWordRequests DEF Untyped
<1>4. PageInStep'
  BY <1>0, <1>1 DEF Untyped, PageInStep
<1> QED BY <1>3, <1>4 DEF Untyped

\* The end of a line that asks for the other mode.
LEMMA PollSwitchStep == ASSUME ModeInv, PollSwitch PROVE Untyped'
<1>0. TypeOK /\ Untyped
  BY DEF ModeInv, Untyped
<1>1. /\ UNCHANGED <<tx, mode, device, inMeta, lastData, cut, lone, atStart, torn, pending, ui,
                     target>>
      /\ pc = "poll" /\ pc' = "seam" /\ off' = 0 /\ staged' = <<>> /\ cmdLine' = <<>>
      /\ link # <<>> /\ link' = Tail(link)
      /\ to' = cmdLine[1] /\ Len(cmdLine) = 1 /\ cmdLine[1] \in Modes /\ cmdLine[1] # mode
  BY DEF PollSwitch, Switches, Valid, parser, page
<1>2. /\ tx \in Seq(Symbols) /\ mode \in Modes /\ to' \in Modes /\ Seam \in Seq(Symbols)
      /\ Len(Seam) = 3
  BY <1>0, <1>1, SymbolTypes DEF TypeOK
<1>3. /\ MissingSeam = <<>> /\ MissingSeam' = Seam
      /\ Coming = mode /\ Coming' = to'
  <2>1. SubSeq(Seam, 1, Len(Seam)) = Seam
    BY <1>2, SubSeqFull
  <2>2. MissingSeam' = SubSeq(Seam, 0 + 1, Len(Seam))
    BY <1>1 DEF MissingSeam, Seam, Ff, Fd, Sym
  <2> QED BY <1>1, <2>1, <2>2 DEF MissingSeam, Coming
<1>4. AheadApart'
  <2>1. Ahead = tx \o <<Data(mode)>> /\ Ahead' = (tx \o Seam) \o <<Data(to')>>
    BY <1>1, <1>2, <1>3, ConcatEmptySeq DEF Ahead, Data, Sym
  <2>2. Parsed' = Parsed
    BY <1>1 DEF Parsed
  <2> DEFINE p == Parsed
             i == to'
  <2>3. ASSUME Apart(Parsed, Ahead) PROVE Apart(Parsed, Ahead')
    <3>1. i \in Modes /\ Apart(p, tx \o <<Data(mode)>>)
      BY <1>2, <2>1, <2>3
    <3> HIDE DEF p, i
    <3>2. Apart(p, (tx \o Seam) \o <<Data(i)>>)
      BY <1>2, <3>1, ApartSwitched
    <3> QED BY <2>1, <3>2 DEF p, i
  <2> QED BY <1>0, <1>1, <2>2, <2>3 DEF Untyped, AheadApart, Apart, SeamBegun, SeamBetween, SeamAt
<1>5. RequestsInOrder'
  <2>1. /\ Stays(link) => Stays(link)'
        /\ OneTurn(link) => OneTurn(link)'
    BY <1>0, <1>1, LinkTaken
  <2>2. Turns(mode) => Turns(cmdLine[1])
    BY <1>0, <1>1, <1>3 DEF Untyped, RequestsInOrder, Stays, Turns
  <2>3. Turns(cmdLine[1]) => Stays(link)
    BY <1>0, <1>1 DEF Untyped, RequestsInOrder
  <2>4. (Turns(mode)' <=> Turns(mode)) /\ (Turns(Coming)' <=> Turns(cmdLine[1]))
    BY <1>1, <1>3 DEF Turns
  <2>5. Stays(cmdLine)' /\ OneTurn(cmdLine)' /\ \A k \in 1 .. Len(cmdLine') : FALSE
    BY <1>1 DEF Stays, OneTurn
  <2>6. OneTurn(link)
    BY <1>0 DEF Untyped, RequestsInOrder
  <2> QED BY <2>1, <2>2, <2>3, <2>4, <2>5, <2>6 DEF RequestsInOrder
<1>6. StagedInMode' /\ BlocksInOrder'
  <2>1. StagedInMode'
    BY <1>1 DEF StagedInMode, Of
  <2> QED BY <1>0, <1>1, <2>1, BlocksKept DEF Untyped
<1>7. PageInStep'
  BY <1>0, <1>1 DEF Untyped, PageInStep
<1> QED BY <1>4, <1>5, <1>6, <1>7 DEF Untyped

LEMMA PollIgnoreStep == ASSUME ModeInv, PollIgnore PROVE Untyped'
<1>0. TypeOK /\ Untyped
  BY DEF ModeInv, Untyped
<1>1. /\ UNCHANGED <<tx, mode, pc, to, off, staged, device, inMeta, lastData, cut, lone, atStart,
                     torn, pending, ui, target>>
      /\ pc = "poll" /\ link # <<>> /\ link' = Tail(link) /\ cmdLine' = <<>>
  BY DEF PollIgnore, parser, page
<1>2. UNCHANGED <<MissingSeam, Coming>>
  BY <1>1 DEF MissingSeam, Coming
<1>3. RequestsInOrder'
  <2>1. (Stays(link) => Stays(link)') /\ (OneTurn(link) => OneTurn(link)')
    BY <1>0, <1>1, LinkTaken
  <2>2. (Turns(mode)' <=> Turns(mode)) /\ (Turns(Coming)' <=> Turns(Coming))
    BY <1>1, <1>2 DEF Turns
  <2>3. Stays(cmdLine)' /\ OneTurn(cmdLine)' /\ \A k \in 1 .. Len(cmdLine') : FALSE
    BY <1>1 DEF Stays, OneTurn
  <2> QED BY <1>0, <2>1, <2>2, <2>3 DEF Untyped, RequestsInOrder
<1>4. AheadApart' /\ StagedInMode' /\ BlocksInOrder'
  BY <1>0, <1>1, <1>2, AheadKept, StagedKept, BlocksKept DEF Untyped
<1>5. PageInStep'
  BY <1>0, <1>1 DEF Untyped, PageInStep
<1> QED BY <1>3, <1>4, <1>5 DEF Untyped

LEMMA PollDoneStep == ASSUME ModeInv, PollDone PROVE Untyped'
<1>0. TypeOK /\ Untyped
  BY DEF ModeInv, Untyped
<1>1. /\ UNCHANGED <<tx, mode, to, off, staged, device, inMeta, lastData, cut, lone, atStart,
                     torn, pending, ui, target, cmdLine, link>>
      /\ pc = "poll" /\ pc' = "service"
  BY DEF PollDone, parser, page, input
<1>2. UNCHANGED <<MissingSeam, Coming>>
  BY <1>1 DEF MissingSeam, Coming
<1>3. AheadApart' /\ StagedInMode' /\ BlocksInOrder' /\ RequestsInOrder'
  BY <1>0, <1>1, <1>2, AheadKept, StagedKept, BlocksKept, RequestsKept DEF Untyped
<1>4. PageInStep'
  BY <1>0, <1>1 DEF Untyped, PageInStep
<1> QED BY <1>3, <1>4 DEF Untyped

\* Writing a part of the seam leaves what is ahead as it is.
LEMMA WriteSeamStep == ASSUME ModeInv, WriteSeam PROVE Untyped'
<1>0. TypeOK /\ Untyped
  BY DEF ModeInv, Untyped
<1>1. /\ UNCHANGED <<mode, pc, to, staged, device, inMeta, lastData, cut, lone, atStart,
                     torn, pending, ui, target, cmdLine, link>>
      /\ pc = "seam"
  BY DEF WriteSeam, parser, page, input
<1>2. PICK n \in 1 .. 3 - off :
        /\ off < 3
        /\ tx' = tx \o SubSeq(Seam, off + 1, off + n) /\ off' = off + n
        /\ SubSeq(Seam, off + 1, off + n) \in Seq(Symbols)
        /\ \A m : Writes(tx, tx', m)
  BY <1>0, SeamPart
<1>3. /\ tx \in Seq(Symbols) /\ off \in Nat /\ Seam \in Seq(Symbols) /\ Len(Seam) = 3
      /\ mode \in Modes /\ device \in Modes
  BY <1>0, SymbolTypes DEF TypeOK
<1>4. Coming' = Coming
  BY <1>1 DEF Coming
<1>5. Ahead' = Ahead
  <2> DEFINE a == SubSeq(Seam, off + 1, off + n)
             b == SubSeq(Seam, off + n + 1, 3)
  <2>1. a \o b = SubSeq(Seam, off + 1, 3)
    <3>1. /\ off + 1 \in 1 .. Len(Seam) + 1 /\ off + n \in off + 1 - 1 .. Len(Seam)
          /\ 3 \in off + n .. Len(Seam)
      BY <1>2, <1>3
    <3> QED BY <1>3, <3>1, ConcatAdjacentSubSeq
  <2>2. b \in Seq(Symbols) /\ a \in Seq(Symbols)
    <3>1. off + n \in Nat /\ off + n <= Len(Seam)
      BY <1>2, <1>3
    <3> QED BY <1>2, <1>3, <3>1, Split
  <2>3. MissingSeam = a \o b /\ tx' \o MissingSeam' = (tx \o a) \o b
    <3>1. Seam' = Seam
      BY DEF Seam, Ff, Fd, Sym
    <3> QED BY <1>1, <1>2, <1>3, <2>1, <3>1 DEF MissingSeam
  <2> HIDE DEF a, b
  <2>4. (tx \o a) \o b = tx \o (a \o b)
    <3>1. tx \in Seq(Symbols) /\ a \in Seq(Symbols) /\ b \in Seq(Symbols)
      BY <1>3, <2>2
    <3> QED BY ONLY <3>1, Regrouped, ZenonT(30)
  <2> QED BY <1>4, <2>3, <2>4 DEF Ahead, Data, Sym
<1>6. AheadApart'
  BY <1>0, <1>1, <1>5 DEF Untyped, AheadApart, Parsed
<1>7. BlocksInOrder'
  BY <1>0, <1>1, <1>2, <1>3, BlocksWritten DEF Untyped
<1>8. StagedInMode' /\ RequestsInOrder'
  BY <1>0, <1>1, <1>4, StagedKept, RequestsKept DEF Untyped
<1>9. PageInStep'
  BY <1>0, <1>1 DEF Untyped, PageInStep
<1> QED BY <1>6, <1>7, <1>8, <1>9 DEF Untyped

\* The other datapath begins, behind a whole seam or one given up.
LEMMA BeginStep ==
  ASSUME ModeInv, SeamDone \/ SeamGivenUp
  PROVE  Untyped'
<1>0. TypeOK /\ Untyped
  BY DEF ModeInv, Untyped
<1>1. /\ UNCHANGED <<to, device, inMeta, lastData, cut, lone, atStart, pending, ui, target,
                     cmdLine, link>>
      /\ pc = "seam" /\ pc' = "poll" /\ mode' = to /\ Begin
  BY DEF SeamDone, SeamGivenUp, Begin, parser, page, input
<1>2. /\ Writes(tx, tx', to) /\ Of(staged', "clocked")
      /\ staged' # <<>> => to = "clocked"
  BY <1>0, <1>1, BeginWrites DEF Untyped
<1>3. Coming = to /\ Coming' = to /\ MissingSeam' = <<>>
  BY <1>1 DEF Coming, MissingSeam
<1>4. tx \in Seq(Symbols) /\ to \in Modes /\ device \in Modes /\ off \in 0 .. 3
  BY <1>0 DEF TypeOK
<1>5. AheadApart'
  <2>1. Len(Seam) = 3 /\ Seam \in Seq(Symbols)
    BY SymbolTypes
  <2>2. CASE SeamDone
    <3>1. MissingSeam = <<>>
      BY <1>1, <2>1, <2>2, SubSeqEmpty DEF MissingSeam, SeamDone
    <3>2. torn => torn'
      BY <2>2, Zenon DEF SeamDone, Begin
    <3> QED BY <1>0, <1>1, <1>2, <1>3, <1>4, <3>1, <3>2, AheadWritten DEF Untyped
  <2>3. CASE SeamGivenUp
    <3>1. torn'
      BY <2>3, Zenon DEF SeamGivenUp, Begin
    <3> QED BY <3>1 DEF AheadApart
  <2> QED BY <2>2, <2>3
<1>6. BlocksInOrder'
  <2>1. Turns(mode) => Turns(mode')
    BY <1>0, <1>1, <1>3 DEF Untyped, RequestsInOrder
  <2> QED BY <1>0, <1>1, <1>2, <1>4, <2>1, BlocksWritten DEF Untyped
<1>7. RequestsInOrder'
  BY <1>0, <1>1, <1>3, RequestsKept DEF Untyped
<1>8. StagedInMode' /\ PageInStep'
  BY <1>0, <1>1, <1>2 DEF Untyped, StagedInMode, PageInStep, Of
<1> QED BY <1>5, <1>6, <1>7, <1>8 DEF Untyped

LEMMA ModeStep == ModeInv /\ [Next]_vars => ModeInv'
<1> SUFFICES ASSUME ModeInv, [Next]_vars PROVE ModeInv'
  OBVIOUS
<1>0. TypeOK /\ Untyped
  BY DEF ModeInv, Untyped
<1>1. TypeOK'
  BY <1>0, ModeTypes DEF Untyped
<1>2. Untyped'
  <2>1. CASE UNCHANGED vars
    <3>1. /\ UNCHANGED <<tx, mode, pc, to, off, staged, device, inMeta, lastData, cut, lone,
                         atStart, torn, pending, ui, target, cmdLine, link>>
      BY <2>1 DEF vars, parser, page, input
    <3>2. UNCHANGED <<MissingSeam, Coming>>
      BY <3>1 DEF MissingSeam, Coming
    <3>3. AheadApart' /\ StagedInMode' /\ BlocksInOrder' /\ RequestsInOrder'
      BY <1>0, <3>1, <3>2, AheadKept, StagedKept, BlocksKept, RequestsKept DEF Untyped
    <3>4. PageInStep'
      BY <1>0, <3>1 DEF Untyped, PageInStep
    <3> QED BY <3>3, <3>4 DEF Untyped
  <2>2. CASE Device
    BY <2>2, ServiceRleStep, ServiceClockedStep, PollWordStep, PollSwitchStep, PollIgnoreStep,
       PollDoneStep, WriteSeamStep, BeginStep DEF Device
  <2> QED BY <2>1, <2>2, FlipStep, SelectStep, RevertStep, HostReadsStep, NoiseStep DEF Next
<1> QED BY <1>1, <1>2 DEF ModeInv, Untyped

------------------------------------------------------------------------------
\* In every state: no buffer of the mode switch is overfilled, whatever is on its way
\* to the host keeps data of different modes a seam apart, and between what the page
\* believes and what it has asked for the mode turns once at most.
THEOREM ModeInvariant == Spec => []ModeInv
<1> QED BY ModeInit, ModeStep, PTL DEF Spec

\* The host never reads data of one mode after data of the other without a segment
\* that is a lone 0xFD between them, the seam unifiedSwitchTo() writes: unless it did
\* not read for so long that a seam was given up half written.
THEOREM SeamsSeparate == Spec => SeamSeparates
<1>1. ModeInv /\ [Next]_vars => [lastData' # lastData /\ lastData # "-" => cut \/ torn]_vars
  <2> SUFFICES ASSUME ModeInv, Next, lastData' # lastData, lastData # "-"
               PROVE  cut \/ torn
    OBVIOUS
  <2>1. CASE HostReads
    BY <2>1, HostReadsAhead DEF ModeInv
  <2>2. CASE ~HostReads
    <3>1. Device => UNCHANGED lastData
      BY DEF Device, ServiceRle, ServiceClocked, PollWord, PollSwitch, PollIgnore, PollDone,
             WriteSeam, SeamDone, SeamGivenUp, Begin, parser
    <3> QED BY <2>2, <3>1 DEF Next, Flip, Select, Revert, Noise, parser
  <2> QED BY <2>1, <2>2
<1> QED BY <1>1, ModeInvariant, PTL DEF Spec, SeamSeparates

\* When onModeMarker() releases the page because a block announces the mode it asked
\* for, the device is in that mode: no block of an earlier capture that is still in a
\* ring is taken for the answer.
THEOREM ConfirmationsTrue == Spec => ConfirmedMeansSwitched
<1>1. ModeInv /\ [Next]_vars
      => [pending /\ ~pending' /\ ui' = ui /\ device' = ui => mode = target]_vars
  <2> SUFFICES ASSUME ModeInv, Next, pending, ~pending', ui' = ui, device' = ui
               PROVE  mode = target
    OBVIOUS
  <2>1. ui = target /\ device # target /\ device \in Modes /\ mode \in Modes
    BY DEF ModeInv, PageInStep, TypeOK
  <2>2. HostReads
    <3>1. Device \/ Noise => UNCHANGED pending
      BY DEF Device, ServiceRle, ServiceClocked, PollWord, PollSwitch, PollIgnore, PollDone,
             WriteSeam, SeamDone, SeamGivenUp, Begin, Noise, page
    <3>2. Revert => device' = device
      BY DEF Revert
    <3>3. \A m \in Modes : Flip(m) \/ Select(m) => pending'
      BY DEF Flip, Select
    <3> QED BY <2>1, <3>1, <3>2, <3>3 DEF Next
  <2>3. inMeta \in Modes /\ OnModeMarker(inMeta)
    BY <2>2, HostReadsPage DEF page
  <2>4. inMeta = target
    BY <2>1, <2>3 DEF OnModeMarker
  <2>5. Turns(mode)
    BY <2>1, <2>3, <2>4 DEF ModeInv, BlocksInOrder, Turns
  <2> QED BY <2>1, <2>3, <2>4, <2>5, OtherMode DEF Turns
<1> QED BY <1>1, ModeInvariant, PTL DEF Spec, ConfirmedMeansSwitched

------------------------------------------------------------------------------
\* The control endpoint: its stages.

LEMMA ControlSizes ==
  /\ Ep0Size \in Nat /\ Ep0Size > 2
  /\ LineLen \in Nat \ {0} /\ LineLen <= Ep0Size
  /\ DeviceLen \in Nat \ {0} /\ ConfigLen \in Nat \ {0}
  /\ Lengths \subseteq Nat /\ Fields \subseteq Nat /\ Fields # {}
BY UsbControlAssumption

LEMMA LesserOf ==
  \A a, b \in Nat : /\ Lesser(a, b) \in Nat /\ Lesser(a, b) <= a /\ Lesser(a, b) <= b
                    /\ Lesser(a, b) = a \/ Lesser(a, b) = b
BY DEF Lesser

\* A copy has the length asked for.
LEMMA CopyLen ==
  ASSUME NEW s, NEW n \in Nat
  PROVE  Len(Copy(s, n)) = n
<1> DEFINE c == Copy(s, n)
           S == {c[i] : i \in 1 .. n}
<1>1. c \in [1 .. n -> S]
  BY DEF Copy
<1> HIDE DEF c, S
<1>2. c \in Seq(S) /\ Len(c) = n
  BY <1>1
<1> QED BY <1>2 DEF c

\* What is left behind the first k elements.
LEMMA Dropped ==
  ASSUME NEW S, NEW s \in Seq(S), NEW k \in Nat, k <= Len(s)
  PROVE  /\ Drop(s, k) \in Seq(S) /\ Len(Drop(s, k)) = Len(s) - k
         /\ \A i \in 1 .. Len(s) - k : Drop(s, k)[i] = s[k + i]
<1>1. Len(s) \in Nat
  BY LenProperties
<1>2. CASE k = Len(s)
  <2>1. Drop(s, k) = <<>>
    BY <1>1, <1>2, SubSeqEmpty DEF Drop
  <2> QED BY <1>1, <1>2, <2>1
<1>3. CASE k < Len(s)
  <2>1. \A i \in k + 1 .. Len(s) : s[i] \in S
    BY <1>1, ElementOfSeq
  <2>2. /\ Drop(s, k) \in Seq(S)
        /\ Len(Drop(s, k)) = IF k + 1 <= Len(s) THEN Len(s) - (k + 1) + 1 ELSE 0
        /\ \A i \in 1 .. Len(s) - (k + 1) + 1 : Drop(s, k)[i] = s[k + 1 + i - 1]
    BY <1>1, <2>1, SubSeqProperties DEF Drop
  <2>3. Len(s) - (k + 1) + 1 = Len(s) - k /\ k + 1 <= Len(s)
    BY <1>1, <1>3
  <2>4. \A i \in 1 .. Len(s) - k : k + 1 + i - 1 = k + i
    BY <1>1
  <2> QED BY <2>2, <2>3, <2>4
<1> QED BY <1>1, <1>2, <1>3

\* n elements behind the first k.
LEMMA Between ==
  ASSUME NEW S, NEW s \in Seq(S), NEW k \in Nat, NEW n \in Nat, k + n <= Len(s)
  PROVE  /\ SubSeq(s, k + 1, k + n) \in Seq(S) /\ Len(SubSeq(s, k + 1, k + n)) = n
         /\ \A i \in 1 .. n : SubSeq(s, k + 1, k + n)[i] = s[k + i]
<1>1. Len(s) \in Nat
  BY LenProperties
<1>2. CASE n = 0
  <2>1. SubSeq(s, k + 1, k + n) = <<>>
    BY <1>2, SubSeqEmpty
  <2> QED BY <1>2, <2>1
<1>3. CASE n # 0
  <2>1. \A i \in k + 1 .. k + n : s[i] \in S
    BY <1>1, ElementOfSeq
  <2>2. /\ SubSeq(s, k + 1, k + n) \in Seq(S)
        /\ Len(SubSeq(s, k + 1, k + n)) = IF k + 1 <= k + n THEN k + n - (k + 1) + 1 ELSE 0
        /\ \A i \in 1 .. k + n - (k + 1) + 1 : SubSeq(s, k + 1, k + n)[i] = s[k + 1 + i - 1]
    BY <1>1, <2>1, SubSeqProperties
  <2>3. k + n - (k + 1) + 1 = n /\ k + 1 <= k + n
    BY <1>1, <1>3
  <2>4. \A i \in 1 .. n : k + 1 + i - 1 = k + i
    BY <1>1
  <2> QED BY <2>2, <2>3, <2>4
<1> QED BY <1>2, <1>3

\* memcpy() within the source, and what is behind what it has copied.
LEMMA Copied ==
  ASSUME NEW S, NEW s \in Seq(S), NEW k \in Nat, NEW n \in Nat, k + n <= Len(s)
  PROVE  /\ Copy(Drop(s, k), n) = SubSeq(s, k + 1, k + n)
         /\ Drop(Drop(s, k), n) = Drop(s, k + n)
<1>1. Len(s) \in Nat /\ k <= Len(s) /\ n <= Len(s) - k
  BY LenProperties
<1> DEFINE r == Drop(s, k)
           b == SubSeq(s, k + 1, k + n)
           c == Copy(r, n)
<1>2. /\ r \in Seq(S) /\ Len(r) = Len(s) - k /\ \A i \in 1 .. Len(s) - k : r[i] = s[k + i]
  BY <1>1, Dropped
<1>3. b \in Seq(S) /\ Len(b) = n /\ \A i \in 1 .. n : b[i] = s[k + i]
  BY <1>1, Between
<1>4. \A i \in 1 .. n : i <= Len(r) /\ i \in 1 .. Len(s) - k
  BY <1>1, <1>2
<1>5. c = [i \in 1 .. n |-> r[i]]
  BY <1>4 DEF Copy
<1>6. \A i \in 1 .. n : c[i] = b[i]
  BY <1>2, <1>3, <1>4, <1>5
<1>7. \A i \in 1 .. n : r[i] \in S
  BY <1>2, <1>4, ElementOfSeq
<1>8. c \in Seq(S) /\ Len(c) = n
  BY <1>5, <1>7
<1>9. c = b
  <2> HIDE DEF b, c, r
  <2> QED BY <1>3, <1>6, <1>8, SeqEqual
<1>10. Drop(r, n) = Drop(s, k + n)
  <2> DEFINE x == Drop(r, n)
             y == Drop(s, k + n)
  <2>1. x \in Seq(S) /\ Len(x) = Len(r) - n /\ \A i \in 1 .. Len(r) - n : x[i] = r[n + i]
    <3>1. r \in Seq(S) /\ n <= Len(r)
      BY <1>1, <1>2
    <3> HIDE DEF r
    <3> QED BY ONLY <3>1, n \in Nat, Dropped
  <2>2. k + n \in Nat /\ k + n <= Len(s)
    BY <1>1
  <2>3. y \in Seq(S) /\ Len(y) = Len(s) - (k + n) /\ \A i \in 1 .. Len(s) - (k + n) : y[i] = s[k + n + i]
    BY <2>2, Dropped
  <2>4. Len(r) - n = Len(s) - (k + n)
    BY <1>1, <1>2
  <2>5. \A i \in 1 .. Len(s) - (k + n) : n + i \in 1 .. Len(s) - k /\ k + (n + i) = k + n + i
    BY <1>1
  <2> HIDE DEF x, y, r
  <2>6. \A i \in 1 .. Len(x) : x[i] = y[i]
    BY <1>2, <2>1, <2>3, <2>4, <2>5
  <2>7. x = y
    BY <2>1, <2>3, <2>4, <2>6, SeqEqual
  <2> QED BY <2>7 DEF x, y
<1> QED BY <1>9, <1>10

LEMMA DropNone == ASSUME NEW S, NEW s \in Seq(S) PROVE Drop(s, 0) = s
BY SubSeqFull DEF Drop

\* What a read returns is a sequence of bytes.
LEMMA Answers ==
  ASSUME ControlTypeOK, NEW name
  PROVE  /\ Answer(name) \in Seq(Nat) /\ Len(Answer(name)) \in Nat
         /\ name = "getConfiguration" => Len(Answer(name)) = 1
         /\ name = "getStatus" => Len(Answer(name)) = 2
         /\ name = "getLineCoding" => Len(Answer(name)) = LineLen
<1>1. DeviceBytes \in Seq(Nat) /\ ConfigBytes \in Seq(Nat)
  <2>1. DeviceBytes \in [1 .. DeviceLen -> Nat] /\ ConfigBytes \in [1 .. ConfigLen -> Nat]
    BY ControlSizes DEF DeviceBytes, ConfigBytes
  <2> QED BY <2>1, ControlSizes
<1>2. lcWire \in Seq(Nat) /\ Len(lcWire) = LineLen
  <2>1. lcWire \in [1 .. LineLen -> Nat]
    BY ControlSizes DEF ControlTypeOK, Codings
  <2> QED BY <2>1, ControlSizes
<1>3. /\ <<config>> \in Seq(Nat) /\ Len(<<config>>) = 1
      /\ <<0, 0>> \in Seq(Nat) /\ Len(<<0, 0>>) = 2 /\ <<>> \in Seq(Nat)
  BY DEF ControlTypeOK
<1>4. Answer(name) \in Seq(Nat)
  BY <1>1, <1>2, <1>3 DEF Answer
<1>5. Len(Answer(name)) \in Nat
  BY <1>4, LenProperties
<1> QED BY <1>2, <1>3, <1>4, <1>5 DEF Answer

\* setupLen_ of a read is never more than there is or the host asks for.
LEMMA LengthWithin ==
  ASSUME ControlTypeOK, NEW s, Fits(s), s.name \in Reads
  PROVE  /\ LengthOf(s) = Lesser(s.len, Len(Answer(s.name)))
         /\ LengthOf(s) \in Nat /\ LengthOf(s) <= Len(Answer(s.name)) /\ LengthOf(s) <= s.len
<1>1. s.len \in Nat /\ Len(Answer(s.name)) \in Nat /\ LineLen \in Nat
  BY Answers, ControlSizes DEF Fits
<1>2. CASE s.name \in Reads \ Class
  BY <1>1, <1>2, LesserOf DEF LengthOf
<1>3. CASE s.name = "getLineCoding"
  <2>1. Len(Answer(s.name)) = LineLen /\ s.len = LineLen /\ LengthOf(s) = s.len
    BY <1>3, Answers DEF Fits, LengthOf, Class
  <2> QED BY <1>1, <2>1 DEF Lesser
<1> QED BY <1>2, <1>3 DEF Reads, Descriptors, Class

LEMMA LengthTyped ==
  ASSUME ControlTypeOK, NEW s, Fits(s)
  PROVE  LengthOf(s) \in Nat
<1>1. CASE s.name \in Reads
  BY <1>1, LengthWithin
<1>2. CASE s.name \notin Reads
  BY <1>2 DEF LengthOf, Fits
<1> QED BY <1>1, <1>2

LEMMA AnswersKept ==
  ASSUME UNCHANGED <<config, lcWire, asked>>
  PROVE  Answer(asked.name)' = Answer(asked.name) /\ LengthOf(asked)' = LengthOf(asked)
BY DEF Answer, LengthOf, DeviceBytes, ConfigBytes

\* The inductive part of the invariant.
Stages == ControlTypeOK /\ StagesAgree

\* At rest the stages say nothing.
LEMMA NotMoving ==
  ASSUME ~Received
  PROVE  DataInWell /\ StatusOutWell /\ DataOutWell /\ StatusInWell
BY DEF DataInWell, StatusOutWell, DataOutWell, StatusInWell

LEMMA CodingTypes ==
  ASSUME NEW c \in Codings
  PROVE  Len(c) = LineLen /\ Copy(c, LineLen) = c
<1>1. c \in Seq(Fields) /\ Len(c) = LineLen /\ LineLen \in Nat
  BY ControlSizes DEF Codings
<1>2. Copy(c, LineLen) = [i \in 1 .. LineLen |-> c[i]]
  BY <1>1 DEF Copy
<1> QED BY <1>1, <1>2 DEF Codings

LEMMA ControlTypesInit == ControlInit => Stages
<1> SUFFICES ASSUME ControlInit PROVE Stages
  OBVIOUS
<1>1. DefaultCoding \in Codings
  <2>1. \E c \in Codings : TRUE
    <3>1. PICK f \in Fields : TRUE
      BY ControlSizes
    <3>2. [i \in 1 .. LineLen |-> f] \in Codings
      BY DEF Codings
    <3> QED BY <3>2
  <2> QED BY <2>1 DEF DefaultCoding
<1>2. ControlTypeOK
  <2>1. /\ Len(<<>>) <= Ep0Size /\ 0 \in 0 .. Ep0Size /\ 0 \in Nat
        /\ Len(Enumeration) = 4 /\ 1 \in 1 .. 4 + 1
    BY ControlSizes DEF Enumeration
  <2>2. /\ addr = 0 /\ devAddr = 0 /\ config = 0 /\ hAddr = 0 /\ enumerated \in BOOLEAN
        /\ busRst \in BOOLEAN /\ lcWire \in Codings /\ ep0 = <<>> /\ txLen = 0 /\ left = 0
        /\ tRes = "NAK" /\ rRes = "ACK" /\ tTog = 0 /\ hTog = 1 /\ event = "none"
        /\ stage = "idle" /\ todo = 1
    BY <1>1, Zenon DEF ControlInit
  <2> QED BY <2>1, <2>2 DEF ControlTypeOK
<1>3. ~Moving /\ ~Received
  BY DEF ControlInit, Moving, Received, InStages, OutStages
<1>4. BeginsWell
  <2>1. Fits(asked) /\ Fits(setup)
    BY DEF ControlInit, Fits, Setup, Reads, Descriptors
  <2> QED BY <1>3, <2>1 DEF ControlInit, BeginsWell
<1>5. AddressWell
  BY DEF ControlInit, AddressWell
<1> QED BY <1>2, <1>3, <1>4, <1>5, NotMoving DEF Stages, StagesAgree

------------------------------------------------------------------------------
\* The device handles a SETUP packet: what it changes, and its types.
LEMMA SetupHandled ==
  ASSUME Stages, HandleSetup
  PROVE  /\ event = "setup" /\ req' = setup.name /\ tTog' = 1
         /\ UNCHANGED <<addr, lcWire>>
         /\ {devAddr', config'} \subseteq {0, 1} /\ enumerated' \in BOOLEAN
         /\ Len(ep0') <= Ep0Size /\ txLen' \in 0 .. Ep0Size /\ left' \in Nat
         /\ {tRes', rRes'} \subseteq {"ACK", "NAK", "STALL"}
<1> DEFINE s == setup
           total == LengthOf(setup)
           n == Lesser(total, Ep0Size)
<1>0. ControlTypeOK /\ Fits(s)
  BY DEF Stages, StagesAgree, BeginsWell
<1>1. total \in Nat /\ n \in Nat /\ n <= total /\ n <= Ep0Size /\ Ep0Size \in Nat
  BY <1>0, LengthTyped, LesserOf, ControlSizes
<1>2. /\ event = "setup" /\ req' = s.name /\ tTog' = 1 /\ UNCHANGED <<addr, lcWire>>
  BY DEF HandleSetup, ApplySetup
<1>3. {devAddr', config'} \subseteq {0, 1} /\ enumerated' \in BOOLEAN
  <2>1. /\ devAddr' = IF s.name = "setAddress" THEN s.value[1] ELSE devAddr
        /\ config' \in {config, IF s.name = "setConfiguration" THEN s.value[1] ELSE config}
    BY DEF HandleSetup, ApplySetup
  <2>2. s.name \in {"setAddress", "setConfiguration"} => s.value[1] = 1
    BY <1>0 DEF Fits
  <2>3. {devAddr, config} \subseteq {0, 1}
    BY <1>0 DEF ControlTypeOK
  <2>4. enumerated' \in BOOLEAN
    <3>1. enumerated' = TRUE \/ enumerated' = enumerated
      BY Zenon DEF HandleSetup, ApplySetup
    <3>2. enumerated \in BOOLEAN
      BY <1>0, Zenon DEF ControlTypeOK
    <3> QED BY <3>1, <3>2, Zenon
  <2>5. devAddr' \in {0, 1} /\ config' \in {0, 1}
    <3> HIDE DEF s
    <3> QED BY <2>1, <2>2, <2>3
  <2> QED BY <2>4, <2>5
<1>4. Len(Copy(Answer(s.name), n)) = n /\ total - n \in Nat
  <2>1. total - n \in Nat
    BY <1>1
  <2> HIDE DEF n
  <2> QED BY <1>1, <2>1, CopyLen
<1>5. /\ Len(ep0') <= Ep0Size /\ txLen' \in 0 .. Ep0Size /\ left' \in Nat
      /\ {tRes', rRes'} \subseteq {"ACK", "NAK", "STALL"}
  <2>1. CASE s.name \in Refused
    BY <1>0, <1>1, <2>1 DEF HandleSetup, ControlTypeOK
  <2>2. CASE s.name \in Reads \ Refused
    <3>1. /\ ep0' = Copy(Answer(s.name), n) /\ txLen' = n /\ left' = total - n
          /\ tRes' = "ACK" /\ rRes' = "NAK"
      BY <2>2 DEF HandleSetup
    <3> HIDE DEF n, total
    <3> QED BY <1>1, <1>4, <3>1
  <2>3. CASE s.name \notin Reads \cup Refused
    <3>1. /\ Len(ep0') <= Ep0Size /\ UNCHANGED ep0 /\ left' \in {0, total}
          /\ txLen' \in {0, txLen} /\ {tRes', rRes'} \subseteq {"ACK", "NAK"}
      BY <1>0, <2>3 DEF HandleSetup, ControlTypeOK
    <3> HIDE DEF n, total
    <3> QED BY <1>0, <1>1, <3>1 DEF ControlTypeOK
  <2> QED BY <2>1, <2>2, <2>3
<1> QED BY <1>2, <1>3, <1>5

\* ... of a read that the host follows.
LEMMA SetupRead ==
  ASSUME Stages, HandleSetup, setup = asked, UNCHANGED asked, asked.name \in Reads \ Refused,
         got = <<>>, UNCHANGED got
  PROVE  LET whole == Answer(asked.name)'
             from == (LengthOf(asked) - left - txLen)'
         IN
         /\ from = 0 /\ tRes' = "ACK" /\ tTog' = 1
         /\ txLen' = Lesser(left' + txLen', Ep0Size)
         /\ ep0' = SubSeq(whole, from + 1, from + txLen')
         /\ rest' = Drop(whole, from + txLen')
         /\ got' = SubSeq(whole, 1, from)
<1> DEFINE a == Answer(asked.name)
           total == LengthOf(asked)
           n == Lesser(total, Ep0Size)
<1>0. ControlTypeOK /\ Fits(asked) /\ asked.name \in Reads
  BY DEF Stages, StagesAgree, BeginsWell
<1>1. total \in Nat /\ n \in Nat /\ n <= total /\ Ep0Size \in Nat /\ total <= Len(a)
      /\ a \in Seq(Nat) /\ Len(a) \in Nat
  BY <1>0, LengthWithin, Answers, LesserOf, ControlSizes
<1>2. a' = a /\ total' = total
  <2>1. UNCHANGED <<config, lcWire>>
    BY <1>0 DEF HandleSetup, ApplySetup, Reads, Descriptors
  <2> QED BY <2>1, AnswersKept
<1>3. /\ ep0' = Copy(a, n) /\ txLen' = n /\ left' = total - n /\ rest' = Drop(a, n)
      /\ tRes' = "ACK" /\ tTog' = 1
  BY DEF HandleSetup
<1> HIDE DEF a, n, total
<1>4. total - (total - n) - n = 0 /\ total - n + n = total
  BY <1>1
<1>5. Copy(a, n) = SubSeq(a, 0 + 1, 0 + n)
  <2>1. 0 + n <= Len(a) /\ 0 \in Nat
    BY <1>1
  <2>2. Copy(Drop(a, 0), n) = SubSeq(a, 0 + 1, 0 + n)
    BY <1>1, <2>1, Copied, SMTT(30)
  <2> QED BY <1>1, <2>2, DropNone
<1>6. SubSeq(a, 1, 0) = <<>>
  BY <1>1, SubSeqEmpty
<1>7. 0 + n = n
  BY <1>1
<1>8. got' = <<>>
  OBVIOUS
<1>9. (total - left - txLen)' = 0 /\ left' + txLen' = total
  BY <1>2, <1>3, <1>4
<1>10. /\ txLen' = Lesser(left' + txLen', Ep0Size)
       /\ ep0' = SubSeq(a', 0 + 1, 0 + txLen') /\ rest' = Drop(a', 0 + txLen')
       /\ got' = SubSeq(a', 1, 0)
  BY <1>2, <1>3, <1>5, <1>6, <1>7, <1>8, <1>9 DEF n
<1> QED BY <1>3, <1>9, <1>10 DEF a, total

\* The stage a SETUP packet leads to.
LEMMA FirstStages ==
  ASSUME NEW s, Fits(s)
  PROVE  /\ FirstStage(s) \in {"statusIn", "dataIn", "dataOut"}
         /\ FirstStage(s) = "dataIn" => s.name \in Reads
         /\ FirstStage(s) = "dataOut" => s.name = "setLineCoding"
         /\ FirstStage(s) = "statusIn" => s.name # "setLineCoding"
BY ControlSizes DEF Fits, FirstStage

LEMMA HandledSetup ==
  ASSUME Stages, HandleSetup, event' = "none", UNCHANGED <<setup, busRst, hostVars, history>>
  PROVE  Stages'
<1>0. /\ ControlTypeOK /\ StagesAgree /\ BeginsWell /\ AddressWell
  BY DEF Stages, StagesAgree
<1>1. /\ event = "setup" /\ req' = setup.name /\ tTog' = 1
      /\ UNCHANGED <<addr, lcWire>>
      /\ {devAddr', config'} \subseteq {0, 1} /\ enumerated' \in BOOLEAN
      /\ Len(ep0') <= Ep0Size /\ txLen' \in 0 .. Ep0Size /\ left' \in Nat
      /\ {tRes', rRes'} \subseteq {"ACK", "NAK", "STALL"}
  BY SetupHandled
<1>2. UNCHANGED <<hAddr, asked, stage, hTog, got, todo, lostHere, doubt, setup, busRst>>
  BY DEF hostVars, history
<1>3. ControlTypeOK'
  BY <1>0, <1>1, <1>2 DEF ControlTypeOK, InStages, OutStages, Codings
<1>4. Moving' <=> Moving
  BY <1>2 DEF Moving, InStages, OutStages
<1>5. BeginsWell'
  BY <1>0, <1>1, <1>2, <1>4 DEF BeginsWell, Received, Fits, Codings
<1>6. AddressWell'
  BY <1>0, <1>1, <1>2 DEF AddressWell
<1>7. CASE ~Moving
  BY <1>3, <1>4, <1>5, <1>6, <1>7, NotMoving DEF Stages, StagesAgree, Received,
     DataInWell, StatusOutWell, DataOutWell, StatusInWell
<1>8. CASE Moving
  <2>1. /\ setup = asked /\ stage = FirstStage(asked) /\ got = <<>> /\ hTog = 1 /\ Fits(asked)
        /\ Received' /\ req' = asked.name
    BY <1>0, <1>1, <1>4, <1>8 DEF BeginsWell, Received
  <2>2. /\ stage \in {"statusIn", "dataIn", "dataOut"}
        /\ stage = "dataIn" => asked.name \in Reads
        /\ stage = "dataOut" => asked.name = "setLineCoding"
        /\ stage = "statusIn" => asked.name # "setLineCoding"
    BY <2>1, FirstStages
  <2>3. asked.name \in Refused => tRes' = "STALL"
    BY <2>1 DEF HandleSetup
  <2>4. DataInWell'
    <3> SUFFICES ASSUME stage' = "dataIn" PROVE DataInWell'
      BY DEF DataInWell
    <3>1. asked'.name \in Reads /\ event' \in {"none", "in0"}
      BY <1>2, <2>2
    <3>2. asked'.name \in Refused => tRes' = "STALL" /\ got' = <<>>
      BY <1>2, <2>1, <2>3
    <3>3. ASSUME asked.name \notin Refused
          PROVE  LET whole == Answer(asked.name)'
                     from == (LengthOf(asked) - left - txLen)'
                 IN
                 /\ from = 0 /\ tRes' = "ACK" /\ tTog' = 1
                 /\ txLen' = Lesser(left' + txLen', Ep0Size)
                 /\ ep0' = SubSeq(whole, from + 1, from + txLen')
                 /\ rest' = Drop(whole, from + txLen')
                 /\ got' = SubSeq(whole, 1, from)
      BY <1>2, <2>1, <3>1, <3>3, SetupRead
    <3> QED BY <1>2, <2>1, <3>1, <3>2, <3>3 DEF DataInWell
  <2>5. StatusOutWell'
    BY <1>2, <2>2 DEF StatusOutWell
  <2>6. DataOutWell'
    <3> SUFFICES ASSUME stage = "dataOut" PROVE DataOutWell'
      BY <1>2 DEF DataOutWell
    <3>1. asked.name = "setLineCoding"
      BY <2>2
    <3>2. LengthOf(asked) > 0
      BY <2>1, <3>1, ControlSizes DEF LengthOf, Fits, Reads, Descriptors
    <3>3. rRes' = "ACK"
      BY <2>1, <3>1, <3>2 DEF HandleSetup, Reads, Descriptors, Refused
    <3> QED BY <1>2, <2>1, <3>1, <3>3 DEF DataOutWell
  <2>7. StatusInWell'
    <3> SUFFICES ASSUME stage = "statusIn" PROVE StatusInWell'
      BY <1>2 DEF StatusInWell
    <3>1. asked.len = 0
      BY <2>1 DEF FirstStage
    <3>2. asked.name \notin Reads => LengthOf(asked) = 0
      BY <3>1 DEF LengthOf
    <3>3. tRes' \in {"ACK", "STALL"}
      BY <2>1, <3>2 DEF HandleSetup
    <3>4. /\ asked.name = "setConfiguration" => config' = asked.value[1] /\ enumerated'
      BY <2>1, Zenon DEF HandleSetup, ApplySetup
    <3>5. asked.name = "setAddress" => devAddr' = asked.value[1]
      BY <2>1 DEF HandleSetup, ApplySetup
    <3> QED BY <1>1, <1>2, <2>1, <2>2, <3>3, <3>4, <3>5 DEF StatusInWell
  <2> QED BY <1>3, <1>5, <1>6, <2>4, <2>5, <2>6, <2>7 DEF Stages, StagesAgree
<1> QED BY <1>7, <1>8

------------------------------------------------------------------------------
\* The device handles a taken packet.
LEMMA HandledIn ==
  ASSUME Stages, HandleIn, event' = "none", UNCHANGED <<setup, busRst, hostVars, history>>
  PROVE  Stages'
<1>0. /\ ControlTypeOK /\ StagesAgree /\ BeginsWell /\ AddressWell
  BY DEF Stages, StagesAgree
<1>1. /\ event = "in0" /\ UNCHANGED <<devAddr, config, enumerated, lcWire, req, tRes>>
      /\ addr' = IF req = "setAddress" THEN devAddr ELSE addr
      /\ rRes' = IF StatusOutOpens THEN "ACK" ELSE rRes
      /\ req \in Descriptors => NextPacket
      /\ req \notin Descriptors => UNCHANGED <<ep0, txLen, left, rest, tTog>>
  BY DEF HandleIn
<1>2. UNCHANGED <<hAddr, asked, stage, hTog, got, todo, lostHere, doubt, setup, busRst>>
  BY DEF hostVars, history
<1>3. /\ Len(ep0') <= Ep0Size /\ txLen' \in 0 .. Ep0Size /\ left' \in Nat /\ tTog' \in {0, 1}
  <2>1. CASE req \in Descriptors
    <3> DEFINE n == Lesser(left, Ep0Size)
    <3>1. left \in Nat /\ Ep0Size \in Nat /\ tTog \in {0, 1}
      BY <1>0, ControlSizes DEF ControlTypeOK
    <3>2. n \in Nat /\ n <= left /\ n <= Ep0Size
      BY <3>1, LesserOf
    <3>3. ep0' = Copy(rest, n) /\ txLen' = n /\ left' = left - n /\ tTog' = 1 - tTog
      BY <1>1, <2>1 DEF NextPacket
    <3> HIDE DEF n
    <3>4. Len(ep0') = n
      BY <3>2, <3>3, CopyLen
    <3> QED BY <3>1, <3>2, <3>3, <3>4
  <2>2. CASE req \notin Descriptors
    BY <1>0, <1>1, <2>2 DEF ControlTypeOK
  <2> QED BY <2>1, <2>2
<1>4. ControlTypeOK'
  <2>1. rRes' \in {"ACK", "NAK", "STALL"} /\ addr' \in {0, 1}
    BY <1>0, <1>1 DEF ControlTypeOK
  <2>2. enumerated' \in BOOLEAN /\ busRst' \in BOOLEAN
    BY <1>0, <1>1, <1>2, Zenon DEF ControlTypeOK
  <2> QED BY <1>0, <1>1, <1>2, <1>3, <2>1, <2>2 DEF ControlTypeOK, InStages, OutStages, Codings
<1>5. (Moving' <=> Moving) /\ (Received' <=> Moving) /\ (Received <=> Moving)
  BY <1>1, <1>2 DEF Moving, InStages, OutStages, Received
<1>6. BeginsWell'
  BY <1>0, <1>1, <1>2, <1>5 DEF BeginsWell, Fits, Codings
<1>7. AddressWell'
  BY <1>0, <1>1, <1>2 DEF AddressWell
<1>8. /\ Answer(asked.name)' = Answer(asked.name) /\ LengthOf(asked)' = LengthOf(asked)
  BY <1>1, <1>2, AnswersKept
<1>9. StatusInWell' /\ DataOutWell'
  BY <1>0, <1>1, <1>2, <1>5 DEF StagesAgree, StatusInWell, DataOutWell
<1>10. StatusOutWell'
  <2> SUFFICES ASSUME Moving, stage = "statusOut" PROVE StatusOutWell'
    BY <1>2, <1>5 DEF StatusOutWell
  <2>1. /\ asked.name \in Reads \ Refused /\ left = 0
        /\ got = SubSeq(Answer(asked.name), 1, LengthOf(asked))
    BY <1>0, <1>5 DEF StagesAgree, StatusOutWell
  <2>2. left' = 0
    BY <1>1, <2>1, ControlSizes DEF NextPacket, Lesser
  <2>3. rRes' = "ACK"
    BY <1>1, <2>1 DEF StatusOutOpens
  <2> QED BY <1>2, <1>8, <2>1, <2>2, <2>3 DEF StatusOutWell
<1>11. DataInWell'
  <2> DEFINE whole == Answer(asked.name)
             total == LengthOf(asked)
             from == total - left - txLen
             n == Lesser(left, Ep0Size)
  <2> SUFFICES ASSUME Moving, stage = "dataIn" PROVE DataInWell'
    BY <1>2, <1>5 DEF DataInWell
  <2>1. /\ asked.name \in Reads /\ req = asked.name
        /\ asked.name \in Refused => tRes = "STALL" /\ got = <<>>
        /\ asked.name \notin Refused =>
             /\ tRes = "ACK" /\ from >= 0
             /\ rest = Drop(whole, from + txLen) /\ tTog # hTog
             /\ got = SubSeq(whole, 1, from + txLen) /\ txLen = Ep0Size /\ from + txLen < asked.len
    BY <1>0, <1>1, <1>5 DEF StagesAgree, DataInWell, BeginsWell
  <2>2. CASE asked.name \in Refused
    BY <1>1, <1>2, <2>1, <2>2 DEF DataInWell
  <2>3. CASE asked.name \notin Refused
    <3>1. /\ total \in Nat /\ total <= Len(whole) /\ whole \in Seq(Nat) /\ Len(whole) \in Nat
          /\ left \in Nat /\ txLen \in Nat /\ Ep0Size \in Nat
          /\ total = Lesser(asked.len, Len(whole)) /\ asked.len \in Nat
          /\ {tTog, hTog} \subseteq {0, 1}
      <4>1. Fits(asked)
        BY <1>0 DEF BeginsWell
      <4>2. /\ total \in Nat /\ total <= Len(whole) /\ total = Lesser(asked.len, Len(whole))
        BY <1>0, <2>1, <4>1, LengthWithin
      <4>3. whole \in Seq(Nat) /\ Len(whole) \in Nat
        BY <1>0, Answers
      <4> QED BY <1>0, <4>1, <4>2, <4>3, ControlSizes DEF ControlTypeOK, Fits
    <3>2. req \in Descriptors
      <4> SUFFICES ASSUME req \notin Descriptors PROVE FALSE
        OBVIOUS
      <4>1. asked.name \in {"getConfiguration", "getStatus", "getLineCoding"}
        BY <2>1, <2>3 DEF Reads, Refused
      <4>2. /\ asked.name = "getConfiguration" => Len(whole) = 1
            /\ asked.name = "getStatus" => Len(whole) = 2
        BY <1>0, Answers
      <4>4. asked.name = "getLineCoding" => asked.len = LineLen
        BY <1>0 DEF BeginsWell, Fits
      <4>3. total >= txLen /\ txLen > 2 /\ LineLen <= txLen /\ LineLen \in Nat
            /\ from + txLen < asked.len /\ from >= 0
        BY <2>1, <2>3, <3>1, ControlSizes
      <4> HIDE DEF whole, total
      <4>5. total <= Len(whole) /\ Len(whole) \in Nat /\ total \in Nat /\ txLen \in Nat
        BY <3>1
      <4>6. CASE asked.name = "getLineCoding"
        BY <3>1, <4>3, <4>4, <4>6
      <4>7. CASE asked.name \in {"getConfiguration", "getStatus"}
        <5>1. Len(whole) = 1 \/ Len(whole) = 2
          BY <4>2, <4>7
        <5> DEFINE l == Len(whole)
        <5>2. l \in {1, 2} /\ total <= l /\ total >= txLen /\ txLen > 2
          BY <4>3, <4>5, <5>1
        <5> HIDE DEF l
        <5> QED BY ONLY <5>2, <4>5
      <4> QED BY <4>1, <4>6, <4>7
    <3>3. n \in Nat /\ n <= left
      BY <3>1, LesserOf
    <3>4. /\ ep0' = Copy(rest, n) /\ txLen' = n /\ left' = left - n /\ rest' = Drop(rest, n)
          /\ tTog' = 1 - tTog
      BY <1>1, <3>2 DEF NextPacket
    <3> DEFINE k == from + txLen
    <3>5. k = total - left /\ k \in Nat /\ k + n <= Len(whole)
          /\ total - (left - n) - n = k /\ left - n + n = left
      <4>1. /\ total \in Nat /\ left \in Nat /\ txLen \in Nat /\ total <= Len(whole)
            /\ Len(whole) \in Nat /\ total - left - txLen >= 0
        BY <2>1, <2>3, <3>1
      <4> HIDE DEF whole, total, n
      <4> QED BY ONLY <4>1, <3>3
    <3>6. Copy(Drop(whole, k), n) = SubSeq(whole, k + 1, k + n) /\ Drop(Drop(whole, k), n) = Drop(whole, k + n)
      <4>1. whole \in Seq(Nat) /\ k \in Nat /\ n \in Nat /\ k + n <= Len(whole)
        BY <3>1, <3>3, <3>5
      <4> HIDE DEF whole, k, n
      <4> QED BY ONLY <4>1, Copied
    <3>7. whole' = whole /\ total' = total /\ from' = k /\ left' + txLen' = left
      <4>1. whole' = whole /\ total' = total
        BY <1>8
      <4>2. total' - left' - txLen' = total - (left - n) - n /\ left' + txLen' = left - n + n
        BY <3>4, <4>1
      <4> HIDE DEF whole, total, n, k
      <4> QED BY <3>5, <4>1, <4>2
    <3>8. /\ txLen' = Lesser(left' + txLen', Ep0Size)
          /\ ep0' = SubSeq(whole', k + 1, k + txLen')
          /\ rest' = Drop(whole', k + txLen')
          /\ tTog' = hTog' /\ got' = SubSeq(whole', 1, k)
      <4>1. tTog' = hTog'
        BY <1>2, <2>1, <2>3, <3>1, <3>4
      <4>2. rest = Drop(whole, k) /\ got = SubSeq(whole, 1, k)
        BY <2>1, <2>3
      <4>3. txLen' = Lesser(left' + txLen', Ep0Size)
        BY <3>4, <3>7
      <4> HIDE DEF whole, k, n
      <4> QED BY <1>2, <3>4, <3>6, <3>7, <4>1, <4>2, <4>3
    <3>9. k >= 0
      BY <3>5
    <3>10. /\ asked'.name \in Reads /\ event' \in {"none", "in0"} /\ asked'.name \notin Refused
           /\ tRes' = "ACK"
      BY <1>1, <1>2, <2>1, <2>3
    <3>11. (LengthOf(asked) - left - txLen)' = k /\ Answer(asked.name)' = whole'
      BY <3>7
    <3> HIDE DEF k, whole, total, n
    <3> QED BY <3>8, <3>9, <3>10, <3>11 DEF DataInWell
  <2> QED BY <2>2, <2>3
<1> QED BY <1>4, <1>6, <1>7, <1>9, <1>10, <1>11 DEF Stages, StagesAgree

\* The device handles what the host has written.
LEMMA HandledOut ==
  ASSUME Stages, HandleOut, event' = "none", UNCHANGED <<setup, busRst, hostVars, history>>
  PROVE  Stages'
<1>0. /\ ControlTypeOK /\ StagesAgree /\ BeginsWell /\ AddressWell
  BY DEF Stages, StagesAgree
<1>1. /\ event = "out0" /\ UNCHANGED <<addr, devAddr, config, enumerated, req, rest, ep0, rRes>>
      /\ lcWire' = IF req = "setLineCoding" THEN Copy(ep0, LineLen) ELSE lcWire
      /\ left' = IF req \in Class THEN 0 ELSE left
      /\ \/ left' = 0 /\ txLen' = 0 /\ tRes' = "ACK" /\ tTog' = 1
         \/ left' # 0 /\ UNCHANGED <<txLen, tRes, tTog>>
  BY DEF HandleOut
<1>2. UNCHANGED <<hAddr, asked, stage, hTog, got, todo, lostHere, doubt, setup, busRst>>
  BY DEF hostVars, history
<1>3. req = "setLineCoding" => ep0 \in Codings /\ lcWire' = ep0
  <2>1. req = "setLineCoding" => ep0 \in Codings
    BY <1>0, <1>1 DEF BeginsWell
  <2> QED BY <1>1, <2>1, CodingTypes
<1>4. ControlTypeOK'
  <2>1. lcWire' \in Codings
    BY <1>0, <1>1, <1>3 DEF ControlTypeOK
  <2>2. enumerated' \in BOOLEAN /\ busRst' \in BOOLEAN
    BY <1>0, <1>1, <1>2, Zenon DEF ControlTypeOK
  <2>3. /\ left' \in Nat /\ txLen' \in 0 .. Ep0Size /\ tRes' \in {"ACK", "NAK", "STALL"}
        /\ tTog' \in {0, 1}
    BY <1>0, <1>1, ControlSizes DEF ControlTypeOK
  <2>4. lcWire' \in Codings'
    BY <2>1 DEF Codings
  <2> QED BY <1>0, <1>1, <1>2, <2>2, <2>3, <2>4 DEF ControlTypeOK, InStages, OutStages
<1>5. (Moving' <=> Moving) /\ (Received' <=> Moving) /\ (Received <=> Moving)
  BY <1>1, <1>2 DEF Moving, InStages, OutStages, Received
<1>6. BeginsWell'
  BY <1>0, <1>1, <1>2, <1>5 DEF BeginsWell, Fits, Codings
<1>7. AddressWell'
  BY <1>0, <1>1, <1>2 DEF AddressWell
<1>8. DataInWell'
  BY <1>0, <1>1, <1>2, <1>5 DEF StagesAgree, DataInWell
<1>9. StatusOutWell'
  <2> SUFFICES ASSUME Moving, stage = "statusOut" PROVE StatusOutWell'
    BY <1>2, <1>5 DEF StatusOutWell
  <2>1. /\ asked.name \in Reads \ Refused /\ left = 0 /\ req = asked.name
        /\ got = SubSeq(Answer(asked.name), 1, LengthOf(asked))
        /\ lostHere \/ rRes = "ACK"
    BY <1>0, <1>1, <1>5 DEF StagesAgree, StatusOutWell, BeginsWell
  <2>2. left' = 0
    BY <1>1, <2>1
  <2>3. lcWire' = lcWire
    BY <1>1, <2>1 DEF Reads, Descriptors
  <2>4. Answer(asked.name)' = Answer(asked.name) /\ LengthOf(asked)' = LengthOf(asked)
    BY <1>1, <1>2, <2>3, AnswersKept
  <2> QED BY <1>1, <1>2, <2>1, <2>2, <2>4 DEF StatusOutWell
<1>10. DataOutWell'
  BY <1>0, <1>1, <1>2, <1>5 DEF StagesAgree, DataOutWell
<1>11. StatusInWell'
  <2> SUFFICES ASSUME Moving, stage = "statusIn" PROVE StatusInWell'
    BY <1>2, <1>5 DEF StatusInWell
  <2>1. asked.name = "setLineCoding" /\ ep0 = asked.value /\ hTog = 1 /\ req = asked.name
    BY <1>0, <1>1, <1>5 DEF StagesAgree, StatusInWell, BeginsWell
  <2>2. tRes' = "ACK" /\ tTog' = 1 /\ lcWire' = asked.value
    BY <1>1, <1>3, <2>1 DEF Class
  <2> QED BY <1>2, <2>1, <2>2 DEF StatusInWell
<1> QED BY <1>4, <1>6, <1>7, <1>8, <1>9, <1>10, <1>11 DEF Stages, StagesAgree

LEMMA BusIsReset ==
  ASSUME Stages, BusReset, busRst, event = "none", UNCHANGED <<hostVars, history>>
  PROVE  Stages'
<1>0. /\ ControlTypeOK /\ BeginsWell
  BY DEF Stages, StagesAgree
<1>1. /\ addr' = 0 /\ devAddr' = 0 /\ config' = 0 /\ enumerated' = FALSE
      /\ tRes' = "NAK" /\ tTog' = 0 /\ rRes' = "ACK" /\ busRst' = FALSE
      /\ UNCHANGED <<lcWire, req, left, rest, ep0, txLen, event, setup>>
  BY DEF BusReset, transfer
<1>2. UNCHANGED <<hAddr, asked, stage, hTog, got, todo, lostHere, doubt>>
  BY DEF hostVars, history
<1>3. ControlTypeOK'
  <2>1. enumerated' \in BOOLEAN /\ busRst' \in BOOLEAN
    BY <1>1, Zenon
  <2> QED BY <1>0, <1>1, <1>2, <2>1 DEF ControlTypeOK, InStages, OutStages, Codings
<1>4. stage \in {"idle", "setup"} /\ hAddr = 0
  BY <1>0 DEF BeginsWell
<1>5. ~Moving' /\ ~Received' /\ ~Moving /\ ~Received
  BY <1>2, <1>4 DEF Moving, Received, InStages, OutStages
<1>6. BeginsWell'
  BY <1>0, <1>1, <1>2, <1>4, <1>5 DEF BeginsWell, Fits, Codings
<1>7. AddressWell'
  BY <1>1, <1>2, <1>4 DEF AddressWell
<1>8. DataInWell' /\ StatusOutWell' /\ DataOutWell' /\ StatusInWell'
  BY <1>5 DEF DataInWell, StatusOutWell, DataOutWell, StatusInWell
<1> QED BY <1>3, <1>6, <1>7, <1>8 DEF Stages, StagesAgree

LEMMA PollStep == ASSUME Stages, Poll PROVE Stages'
<1>1. UNCHANGED <<hostVars, history>>
  BY DEF Poll
<1>2. CASE event # "none"
  <2>1. (HandleSetup \/ HandleIn \/ HandleOut) /\ event' = "none" /\ UNCHANGED <<setup, busRst>>
    BY <1>2 DEF Poll, HandleTransfer
  <2> QED BY <1>1, <2>1, HandledSetup, HandledIn, HandledOut
<1>3. CASE event = "none"
  <2>1. BusReset /\ busRst
    BY <1>3 DEF Poll
  <2> QED BY <1>1, <1>3, <2>1, BusIsReset
<1> QED BY <1>2, <1>3

------------------------------------------------------------------------------
\* The host asks for what it may ask.
LEMMA SetupsFit ==
  ASSUME NEW name, NEW s \in Setups(name)
  PROVE  Fits(s)
<1>1. LineLen \in Nat /\ Lengths \subseteq Nat
  BY ControlSizes
<1>2. CASE name = "setLineCoding"
  <2>1. PICK c \in Codings : s = Setup(name, LineLen, c)
    BY <1>2 DEF Setups, Reads, Descriptors
  <2>2. s.name = "setLineCoding" /\ s.len = LineLen /\ s.value \in Codings
    BY <1>2, <2>1 DEF Setup
  <2> QED BY <1>1, <2>2 DEF Fits
<1>3. CASE name = "getLineCoding"
  BY <1>1, <1>3 DEF Setups, Setup, Fits, Reads, Descriptors
<1>4. CASE name \in Reads \ {"getLineCoding"}
  <2>1. name \notin {"setLineCoding", "getLineCoding", "setAddress", "setConfiguration"}
    BY <1>4 DEF Reads, Descriptors
  <2>2. Setups(name) = {Setup(name, n, <<>>) : n \in Lengths}
    BY <1>4, <2>1 DEF Setups
  <2>3. PICK n \in Lengths : s = Setup(name, n, <<>>)
    BY <2>2
  <2>4. s.name = name /\ s.len \in Nat
    BY <1>1, <2>3 DEF Setup
  <2> QED BY <1>4, <2>1, <2>4 DEF Fits
<1>5. CASE name \in {"setAddress", "setConfiguration"}
  BY <1>5 DEF Setups, Setup, Fits, Reads, Descriptors
<1>6. CASE name \notin Reads \cup {"setLineCoding", "setAddress", "setConfiguration"}
  BY <1>6 DEF Setups, Setup, Fits, Reads, Descriptors
<1> QED BY <1>2, <1>3, <1>4, <1>5, <1>6

\* A step of the host that leaves the device and the packet alone, and after which
\* no transfer is on its way.
LEMMA AtRest ==
  ASSUME Stages, UNCHANGED <<deviceVars, event, setup>>, stage' \in {"idle", "setup"},
         busRst' \in BOOLEAN, hAddr' \in {0, 1}, hTog' \in {0, 1},
         todo' \in 1 .. Len(Enumeration) + 1,
         Fits(asked)', busRst' => hAddr' = 0, busRst' \/ UNCHANGED <<hAddr, busRst, doubt>>,
         stage' = "setup" => got' = <<>> /\ hTog' = 1
  PROVE  Stages'
<1>0. /\ ControlTypeOK /\ BeginsWell /\ AddressWell
  BY DEF Stages, StagesAgree
<1>1. UNCHANGED <<addr, devAddr, config, enumerated, lcWire, req, left, rest, ep0, txLen, tRes, tTog,
                  rRes>>
  BY DEF deviceVars, settings, transfer, endpoint
<1>2. ControlTypeOK'
  <2>1. enumerated' \in BOOLEAN
    BY <1>0, <1>1, Zenon DEF ControlTypeOK
  <2>2. todo' \in (1 .. Len(Enumeration) + 1)'
    BY DEF Enumeration
  <2> QED BY <1>0, <1>1, <2>1, <2>2 DEF ControlTypeOK, InStages, OutStages, Codings
<1>3. ~Moving' /\ ~Received'
  BY DEF Moving, Received, InStages, OutStages
<1>4. BeginsWell'
  BY <1>0, <1>1, <1>3 DEF BeginsWell, Fits, Codings
<1>5. AddressWell'
  <2>1. CASE busRst'
    BY <2>1 DEF AddressWell
  <2>2. CASE UNCHANGED <<hAddr, busRst, doubt>>
    BY <1>0, <1>1, <2>2 DEF AddressWell
  <2> QED BY <2>1, <2>2
<1>6. DataInWell' /\ StatusOutWell' /\ DataOutWell' /\ StatusInWell'
  BY <1>3 DEF DataInWell, StatusOutWell, DataOutWell, StatusInWell
<1> QED BY <1>2, <1>4, <1>5, <1>6 DEF Stages, StagesAgree

LEMMA ChooseStep == ASSUME Stages, ChooseAny PROVE Stages'
<1>0. PICK name \in Names : \E s \in Setups(name) : Choose(s)
  BY DEF ChooseAny
<1>1. PICK s \in Setups(name) : Choose(s)
  BY <1>0
<1>2. Fits(s)
  BY SetupsFit
<1>3. /\ asked' = s /\ stage' = "setup" /\ got' = <<>> /\ hTog' = 1
      /\ UNCHANGED <<deviceVars, event, setup, busRst, hAddr, todo, doubt>>
  BY <1>1 DEF Choose, flags
<1>4. Fits(asked)'
  BY <1>2, <1>3 DEF Fits, Codings
<1>5. busRst => hAddr = 0
  BY DEF Stages, StagesAgree, BeginsWell
<1>6. busRst \in BOOLEAN /\ hAddr \in {0, 1} /\ todo \in 1 .. Len(Enumeration) + 1
  BY DEF Stages, ControlTypeOK
<1> QED BY <1>3, <1>4, <1>5, <1>6, AtRest

LEMMA GiveUpStep == ASSUME Stages, GiveUp PROVE Stages'
<1>1. /\ stage' = "idle"
      /\ UNCHANGED <<deviceVars, event, setup, busRst, hAddr, asked, hTog, todo, doubt>>
  BY DEF GiveUp, flags
<1>2. Fits(asked) /\ (busRst => hAddr = 0)
  BY DEF Stages, StagesAgree, BeginsWell
<1>3. Fits(asked)'
  BY <1>1, <1>2 DEF Fits, Codings
<1>4. /\ busRst \in BOOLEAN /\ hAddr \in {0, 1} /\ hTog \in {0, 1}
      /\ todo \in 1 .. Len(Enumeration) + 1
  BY DEF Stages, ControlTypeOK
<1> QED BY <1>1, <1>2, <1>3, <1>4, AtRest

LEMMA ResetStep == ASSUME Stages, Reset PROVE Stages'
<1>1. /\ stage' = "idle" /\ busRst' = TRUE /\ hAddr' = 0 /\ todo' = 1
      /\ UNCHANGED <<deviceVars, event, setup, asked, hTog>>
  BY DEF Reset
<1>2. Fits(asked)'
  <2>1. Fits(asked)
    BY DEF Stages, StagesAgree, BeginsWell
  <2> QED BY <1>1, <2>1 DEF Fits, Codings
<1>3. hTog \in {0, 1} /\ 1 \in 1 .. Len(Enumeration) + 1
  BY DEF Stages, ControlTypeOK, Enumeration
<1> QED BY <1>1, <1>2, <1>3, AtRest

LEMMA SendSetupStep == ASSUME Stages, SendSetup PROVE Stages'
<1>0. /\ ControlTypeOK /\ BeginsWell
  BY DEF Stages, StagesAgree
<1>1. /\ stage = "setup" /\ ~busRst /\ addr = hAddr
      /\ event' = "setup" /\ setup' = asked /\ stage' \in {"setup", FirstStage(asked)}
      /\ UNCHANGED <<addr, devAddr, config, enumerated, lcWire, req, left, rest, ep0, txLen, tRes,
                     tTog, rRes, busRst, hAddr, asked, hTog, got, todo>>
  BY DEF SendSetup, Heard, Responsive, deviceVars, settings, transfer, endpoint
<1>2. Fits(asked) /\ FirstStage(asked) \in {"statusIn", "dataIn", "dataOut"} /\ got = <<>> /\ hTog = 1
  BY <1>0, <1>1, FirstStages DEF BeginsWell
<1>3. ControlTypeOK'
  <2>1. enumerated' \in BOOLEAN /\ busRst' \in BOOLEAN
    BY <1>0, <1>1, Zenon DEF ControlTypeOK
  <2> QED BY <1>0, <1>1, <1>2, <2>1 DEF ControlTypeOK, InStages, OutStages, Codings
<1>4. ~Received'
  BY <1>1 DEF Received
<1>5. BeginsWell'
  <2>1. FirstStage(asked)' = FirstStage(asked) /\ Fits(asked)' /\ Fits(setup)'
    BY <1>1, <1>2 DEF FirstStage, Fits, Codings
  <2>2. Moving' => stage' = FirstStage(asked)
    BY <1>1 DEF Moving, InStages, OutStages
  <2>3. ~busRst'
    BY <1>1, Zenon
  <2> QED BY <1>1, <1>2, <1>4, <2>1, <2>2, <2>3 DEF BeginsWell
<1>6. AddressWell'
  BY <1>1 DEF AddressWell
<1>7. DataInWell' /\ StatusOutWell' /\ DataOutWell' /\ StatusInWell'
  BY <1>4 DEF DataInWell, StatusOutWell, DataOutWell, StatusInWell
<1> QED BY <1>3, <1>5, <1>6, <1>7 DEF Stages, StagesAgree

------------------------------------------------------------------------------
\* The host takes a packet.

\* The packet continues what has been read.
LEMMA PacketTaken ==
  ASSUME Stages, Received, stage = "dataIn", asked.name \notin Refused, tTog = hTog,
         UNCHANGED <<ep0, txLen>>, got' = got \o SubSeq(ep0, 1, txLen)
  PROVE  LET whole == Answer(asked.name)
             from == LengthOf(asked) - left - txLen
         IN  got' = SubSeq(whole, 1, from + txLen) /\ Len(got') = from + txLen
             /\ from + txLen = LengthOf(asked) - left /\ from + txLen \in Nat
             /\ (txLen < Ep0Size \/ Len(got') >= asked.len => left = 0)
             /\ asked.len \in Nat /\ txLen <= Ep0Size
<1> DEFINE whole == Answer(asked.name)
           total == LengthOf(asked)
           from == total - left - txLen
<1>1. /\ asked.name \in Reads
      /\ from >= 0 /\ txLen = Lesser(left + txLen, Ep0Size)
      /\ ep0 = SubSeq(whole, from + 1, from + txLen)
      /\ got = SubSeq(whole, 1, from)
  BY DEF Stages, StagesAgree, DataInWell
<1>2. /\ total \in Nat /\ total <= Len(whole) /\ total <= asked.len
      /\ whole \in Seq(Nat) /\ Len(whole) \in Nat /\ asked.len \in Nat
      /\ left \in Nat /\ txLen \in Nat /\ Ep0Size \in Nat /\ txLen <= Ep0Size
  <2>1. ControlTypeOK /\ Fits(asked)
    BY DEF Stages, StagesAgree, BeginsWell
  <2>2. total \in Nat /\ total <= Len(whole) /\ total <= asked.len
    BY <1>1, <2>1, LengthWithin
  <2>3. whole \in Seq(Nat) /\ Len(whole) \in Nat
    BY <2>1, Answers
  <2> QED BY <2>1, <2>2, <2>3, ControlSizes DEF ControlTypeOK, Fits
<1> HIDE DEF whole, total
<1>3. /\ from \in Nat /\ from + txLen = total - left /\ from + txLen \in Nat
      /\ from + txLen <= Len(whole)
  BY <1>1, <1>2
<1> HIDE DEF from
<1>4. ep0 \in Seq(Nat) /\ Len(ep0) = txLen
  <2>1. /\ SubSeq(whole, from + 1, from + txLen) \in Seq(Nat)
        /\ Len(SubSeq(whole, from + 1, from + txLen)) = txLen
    <3>1. whole \in Seq(Nat) /\ from \in Nat /\ txLen \in Nat /\ from + txLen <= Len(whole)
      BY <1>2, <1>3
    <3> QED BY ONLY <3>1, Between
  <2> QED BY <1>1, <2>1
<1>5. SubSeq(ep0, 1, txLen) = ep0
  <2>1. SubSeq(ep0, 1, Len(ep0)) = ep0
    BY <1>4, SubSeqFull
  <2> QED BY <1>4, <2>1
<1>6. got' = SubSeq(whole, 1, from + txLen)
  <2>1. SubSeq(whole, 1, from) \o SubSeq(whole, from + 1, from + txLen) = SubSeq(whole, 1, from + txLen)
    <3>1. 1 \in 1 .. Len(whole) + 1 /\ from \in 1 - 1 .. Len(whole) /\ from + txLen \in from .. Len(whole)
      BY <1>2, <1>3
    <3> QED BY <1>2, <3>1, ConcatAdjacentSubSeq
  <2> QED BY <1>1, <1>5, <2>1
<1>7. Len(got') = from + txLen
  <2>1. Len(SubSeq(whole, 0 + 1, 0 + (from + txLen))) = from + txLen
    <3> DEFINE k == from + txLen
    <3>1. k \in Nat /\ 0 + k <= Len(whole) /\ 0 \in Nat
      BY <1>3
    <3> HIDE DEF k
    <3>2. Len(SubSeq(whole, 0 + 1, 0 + k)) = k
      BY <1>2, <3>1, Between
    <3> QED BY <3>2 DEF k
  <2>2. 0 + 1 = 1 /\ 0 + (from + txLen) = from + txLen
    BY <1>3
  <2> QED BY <1>6, <2>1, <2>2
<1>8. txLen < Ep0Size => left = 0
  BY <1>1, <1>2 DEF Lesser
<1>9. Len(got') >= asked.len => left = 0
  BY <1>2, <1>3, <1>7
<1> QED BY <1>2, <1>3, <1>6, <1>7, <1>8, <1>9 DEF whole, total, from

\* What every IN transaction leaves alone, and the two ways its handshake goes.
LEMMA HostInKeeps ==
  ASSUME Stages, HostIn
  PROVE  /\ event = "none" /\ ~busRst /\ addr = hAddr /\ tRes = "ACK"
         /\ stage \in InStages /\ Received /\ req = asked.name /\ Fits(asked)
         /\ UNCHANGED <<addr, devAddr, config, enumerated, lcWire, req, left, rest, ep0, txLen, tRes,
                        tTog, rRes, setup, busRst, asked>>
         /\ \/ event' = "in0" /\ UNCHANGED <<lostHere, doubt>>
            \/ /\ event' = "none" /\ lostHere' = TRUE
               /\ doubt' = (doubt \/ (stage = "statusIn" /\ asked.name = "setAddress"))
<1>1. event = "none" /\ ~busRst /\ addr = hAddr /\ tRes = "ACK" /\ stage \in InStages
  BY DEF HostIn, Heard, Responsive
<1>2. Received
  BY <1>1 DEF Received, Moving
<1>3. req = asked.name /\ Fits(asked)
  BY <1>2 DEF Stages, StagesAgree, BeginsWell
<1>4. UNCHANGED <<addr, devAddr, config, enumerated, lcWire, req, left, rest, ep0, txLen, tRes, tTog,
                  rRes, setup, busRst, asked>>
  BY DEF HostIn, deviceVars, settings, transfer, endpoint
<1>5. \/ event' = "in0" /\ UNCHANGED <<lostHere, doubt>>
      \/ /\ event' = "none" /\ lostHere' = TRUE
         /\ doubt' = (doubt \/ (stage = "statusIn" /\ asked.name = "setAddress"))
  <2>1. \/ Delivered /\ event' = "in0"
        \/ Lost /\ UNCHANGED event
    BY Zenon DEF HostIn
  <2>2. CASE Delivered /\ event' = "in0"
    BY <2>2 DEF Delivered
  <2>3. CASE Lost /\ UNCHANGED event
    <3>1. /\ lostHere' = TRUE
          /\ doubt' = (doubt \/ (stage = "statusIn" /\ asked.name = "setAddress"))
      BY <2>3, Zenon DEF Lost
    <3> QED BY <1>1, <2>3, <3>1
  <2> QED BY <2>1, <2>2, <2>3
<1> QED BY <1>1, <1>2, <1>3, <1>4, <1>5

\* The types and the transfer's beginning survive an IN transaction.
LEMMA HostInTypes ==
  ASSUME Stages, HostIn, stage' \in {"idle", "dataIn", "statusOut"}, hAddr' \in {0, 1},
         hTog' \in {0, 1}, todo' \in 1 .. Len(Enumeration) + 1
  PROVE  ControlTypeOK' /\ BeginsWell'
<1>0. /\ ControlTypeOK /\ BeginsWell
  BY DEF Stages, StagesAgree
<1>1. /\ ~busRst /\ req = asked.name /\ event' \in {"none", "in0"}
      /\ UNCHANGED <<addr, devAddr, config, enumerated, lcWire, req, left, rest, ep0, txLen, tRes,
                     tTog, rRes, setup, busRst, asked>>
  BY HostInKeeps
<1>2. ControlTypeOK'
  <2>1. enumerated' \in BOOLEAN /\ busRst' \in BOOLEAN
    BY <1>0, <1>1, Zenon DEF ControlTypeOK
  <2>2. todo' \in (1 .. Len(Enumeration) + 1)'
    BY DEF Enumeration
  <2> QED BY <1>0, <1>1, <2>1, <2>2 DEF ControlTypeOK, InStages, OutStages, Codings
<1>3. BeginsWell'
  <2>1. Fits(asked)' /\ Fits(setup)'
    BY <1>0, <1>1 DEF BeginsWell, Fits, Codings
  <2>2. ~busRst'
    BY <1>1, Zenon
  <2> QED BY <1>1, <2>1, <2>2 DEF BeginsWell, Moving, Received
<1> QED BY <1>2, <1>3

LEMMA DataInStep == ASSUME Stages, HostIn, stage = "dataIn" PROVE Stages'
<1> DEFINE whole == Answer(asked.name)
           total == LengthOf(asked)
           from == total - left - txLen
<1>1. /\ event = "none" /\ addr = hAddr /\ tRes = "ACK" /\ Received /\ req = asked.name
      /\ UNCHANGED <<addr, devAddr, config, enumerated, lcWire, req, left, rest, ep0, txLen, tRes,
                     tTog, rRes, setup, busRst, asked>>
      /\ \/ event' = "in0"
         \/ event' = "none" /\ lostHere' = TRUE
  BY HostInKeeps
<1>2. /\ asked.name \in Reads \ Refused
      /\ from >= 0 /\ txLen = Lesser(left + txLen, Ep0Size)
      /\ ep0 = SubSeq(whole, from + 1, from + txLen)
      /\ rest = Drop(whole, from + txLen)
      /\ tTog # hTog => /\ got = SubSeq(whole, 1, from + txLen)
                        /\ txLen = Ep0Size /\ from + txLen < asked.len
  BY <1>1 DEF Stages, StagesAgree, DataInWell
<1>3. whole' = whole /\ total' = total /\ from' = from
  BY <1>1, AnswersKept
<1>4. {tTog, hTog, hAddr} \subseteq {0, 1} /\ todo \in 1 .. Len(Enumeration) + 1
  BY DEF Stages, ControlTypeOK
<1>5. UNCHANGED <<hAddr, todo>> /\ stage' \in {"dataIn", "statusOut"} /\ hTog' \in {0, 1}
  BY <1>4 DEF HostIn, TakePacket
<1>6. ControlTypeOK' /\ BeginsWell'
  BY <1>4, <1>5, HostInTypes
<1>7. AddressWell'
  <2>1. req # "setAddress"
    BY <1>1, <1>2 DEF Reads, Descriptors
  <2> QED BY <1>1, <1>5, <2>1 DEF AddressWell
<1>8. DataOutWell' /\ StatusInWell'
  BY <1>5 DEF DataOutWell, StatusInWell
<1>9. CASE tTog # hTog
  <2>1. UNCHANGED <<stage, hTog, got>>
    BY <1>9 DEF HostIn
  <2>2. DataInWell'
    BY <1>1, <1>2, <1>3, <1>9, <2>1 DEF DataInWell
  <2>3. StatusOutWell'
    BY <2>1 DEF StatusOutWell
  <2> QED BY <1>6, <1>7, <1>8, <2>2, <2>3 DEF Stages, StagesAgree
<1>10. CASE tTog = hTog
  <2>1. /\ got' = got \o SubSeq(ep0, 1, txLen) /\ hTog' = 1 - hTog
        /\ stage' = IF txLen < Ep0Size \/ Len(got') >= asked.len THEN "statusOut" ELSE stage
    BY <1>10 DEF HostIn, TakePacket
  <2>2. /\ got' = SubSeq(whole, 1, from + txLen) /\ Len(got') = from + txLen
        /\ from + txLen = total - left /\ from + txLen \in Nat
        /\ (txLen < Ep0Size \/ Len(got') >= asked.len => left = 0)
        /\ asked.len \in Nat /\ txLen <= Ep0Size
    BY <1>1, <1>2, <1>10, <2>1, PacketTaken
  <2>3. total \in Nat /\ txLen \in Nat /\ Ep0Size \in Nat
    <3>1. ControlTypeOK /\ Fits(asked)
      BY DEF Stages, StagesAgree, BeginsWell
    <3>2. total \in Nat
      BY <1>2, <3>1, LengthWithin
    <3>3. txLen \in Nat /\ Ep0Size \in Nat
      BY <3>1, ControlSizes DEF ControlTypeOK
    <3> HIDE DEF total
    <3> QED BY <3>2, <3>3
  <2>4. DataInWell'
    <3> SUFFICES ASSUME stage' = "dataIn" PROVE DataInWell'
      BY DEF DataInWell
    <3>1. txLen = Ep0Size /\ from + txLen < asked.len
      <4>1. ~(txLen < Ep0Size) /\ ~(Len(got') >= asked.len)
        BY <2>1
      <4> HIDE DEF from
      <4> QED BY <2>2, <2>3, <4>1
    <3>2. tTog' # hTog'
      BY <1>1, <1>4, <1>10, <2>1
    <3>3. asked'.name \in Reads /\ asked'.name \notin Refused /\ tRes' = "ACK" /\ event' \in {"none", "in0"}
      BY <1>1, <1>2
    <3> QED BY <1>1, <1>2, <1>3, <2>2, <3>1, <3>2, <3>3 DEF DataInWell
  <2>5. StatusOutWell'
    <3> SUFFICES ASSUME stage' = "statusOut" PROVE StatusOutWell'
      BY DEF StatusOutWell
    <3>1. left = 0
      BY <2>1, <2>2
    <3>2. got' = SubSeq(whole, 1, total)
      <4>1. from + txLen = total
        <5> HIDE DEF from
        <5> QED BY <2>2, <2>3, <3>1
      <4> QED BY <2>2, <4>1
    <3> QED BY <1>1, <1>2, <1>3, <3>1, <3>2 DEF StatusOutWell
  <2> QED BY <1>6, <1>7, <1>8, <2>4, <2>5 DEF Stages, StagesAgree
<1> QED BY <1>9, <1>10

LEMMA StatusInStep == ASSUME Stages, HostIn, stage = "statusIn" PROVE Stages'
<1>1. /\ event = "none" /\ ~busRst /\ addr = hAddr /\ tRes = "ACK" /\ Received /\ Fits(asked)
      /\ req = asked.name
      /\ UNCHANGED <<addr, devAddr, req, tTog, busRst, asked>>
      /\ \/ event' = "in0" /\ UNCHANGED <<lostHere, doubt>>
         \/ /\ event' = "none" /\ lostHere' = TRUE
            /\ doubt' = (doubt \/ (stage = "statusIn" /\ asked.name = "setAddress"))
  BY HostInKeeps
<1>2. hTog = 1 /\ tTog = 1 /\ (asked.name = "setAddress" => devAddr = asked.value[1])
  BY <1>1 DEF Stages, StagesAgree, StatusInWell
<1>3. Complete /\ hTog' = 0
  BY <1>2 DEF HostIn, TakePacket
<1>4. asked.name = "setAddress" => asked.value[1] = 1
  BY <1>1 DEF Fits
<1>5. /\ stage' = "idle" /\ hAddr' \in {0, 1}
      /\ hAddr' = IF asked.name = "setAddress" THEN asked.value[1] ELSE hAddr
  BY <1>3, <1>4 DEF Complete, Stages, ControlTypeOK
<1>6. todo' \in 1 .. Len(Enumeration) + 1
  BY <1>3 DEF Complete, Enumerated, Enumeration, Stages, ControlTypeOK
<1>7. ControlTypeOK' /\ BeginsWell'
  BY <1>3, <1>5, <1>6, HostInTypes
<1>8. AddressWell'
  BY <1>1, <1>2, <1>5 DEF AddressWell
<1>9. DataInWell' /\ StatusOutWell' /\ DataOutWell' /\ StatusInWell'
  BY <1>5 DEF DataInWell, StatusOutWell, DataOutWell, StatusInWell
<1> QED BY <1>7, <1>8, <1>9 DEF Stages, StagesAgree

LEMMA HostInStep == ASSUME Stages, HostIn PROVE Stages'
BY HostInKeeps, DataInStep, StatusInStep DEF InStages

------------------------------------------------------------------------------
\* The host sends data, or the empty packet that ends a read.
LEMMA HostOutStep == ASSUME Stages, HostOut PROVE Stages'
<1>0. /\ ControlTypeOK /\ BeginsWell
  BY DEF Stages, StagesAgree
<1>1. /\ stage \in OutStages /\ event = "none" /\ ~busRst /\ addr = hAddr /\ rRes = "ACK"
      /\ event' = "out0" /\ ep0' = IF stage = "dataOut" THEN asked.value ELSE ep0
      /\ UNCHANGED <<addr, devAddr, config, enumerated, lcWire, req, left, rest, txLen, tRes, tTog,
                     rRes, setup, busRst, asked, hTog, got>>
  BY DEF HostOut, Heard, Responsive, settings, transfer
<1>2. /\ stage = "dataOut" => stage' \in {"dataOut", "statusIn"} /\ UNCHANGED <<hAddr, todo>>
      /\ stage = "statusOut" => UNCHANGED <<stage, hAddr, todo>> \/ Complete
  BY DEF HostOut
<1>3. Received /\ req = asked.name /\ Fits(asked)
  <2>1. Received
    BY <1>1 DEF Received, Moving
  <2> QED BY <1>0, <2>1 DEF BeginsWell
<1>4. CASE stage = "dataOut"
  <2>1. asked.name = "setLineCoding" /\ hTog = 1 /\ asked.value \in Codings
    BY <1>3, <1>4 DEF Stages, StagesAgree, DataOutWell, Fits
  <2>2. Len(ep0') <= Ep0Size /\ ep0' = asked.value /\ ep0' \in Codings
    BY <1>1, <1>4, <2>1, CodingTypes, ControlSizes
  <2>3. ControlTypeOK'
    <3>1. enumerated' \in BOOLEAN /\ busRst' \in BOOLEAN
      BY <1>0, <1>1, Zenon DEF ControlTypeOK
    <3> QED BY <1>0, <1>1, <1>2, <1>4, <2>2, <3>1 DEF ControlTypeOK, InStages, OutStages, Codings
  <2>4. BeginsWell'
    <3>1. Fits(asked)' /\ Fits(setup)' /\ (ep0 \in Codings)'
      BY <1>0, <1>1, <2>2 DEF BeginsWell, Fits, Codings
    <3>2. ~busRst'
      BY <1>1, Zenon
    <3>3. stage' # "setup"
      BY <1>2, <1>4
    <3> QED BY <1>1, <1>3, <3>1, <3>2, <3>3 DEF BeginsWell, Received
  <2>5. AddressWell'
    BY <1>1, <1>2, <1>4 DEF AddressWell
  <2>6. DataInWell' /\ StatusOutWell'
    BY <1>2, <1>4 DEF DataInWell, StatusOutWell
  <2>7. DataOutWell'
    BY <1>1, <2>1, <2>2 DEF DataOutWell
  <2>8. StatusInWell'
    BY <1>1, <2>1, <2>2 DEF StatusInWell
  <2> QED BY <2>3, <2>4, <2>5, <2>6, <2>7, <2>8 DEF Stages, StagesAgree
<1>5. CASE stage = "statusOut"
  <2>1. /\ asked.name \in Reads \ Refused /\ left = 0
        /\ got = SubSeq(Answer(asked.name), 1, LengthOf(asked))
    BY <1>3, <1>5 DEF Stages, StagesAgree, StatusOutWell
  <2>2. asked.name \notin {"setAddress", "setLineCoding"}
    BY <2>1 DEF Reads, Descriptors
  <2>3. stage' \in {"idle", "statusOut"} /\ hAddr' = hAddr /\ ep0' = ep0
    BY <1>1, <1>2, <1>5, <2>2 DEF Complete
  <2>4. todo' \in 1 .. Len(Enumeration) + 1
    BY <1>0, <1>2, <1>5 DEF Complete, Enumerated, Enumeration, ControlTypeOK
  <2>5. ControlTypeOK'
    <3>1. enumerated' \in BOOLEAN /\ busRst' \in BOOLEAN
      BY <1>0, <1>1, Zenon DEF ControlTypeOK
    <3>2. todo' \in (1 .. Len(Enumeration) + 1)'
      BY <2>4 DEF Enumeration
    <3> QED BY <1>0, <1>1, <2>3, <3>1, <3>2 DEF ControlTypeOK, InStages, OutStages, Codings
  <2>6. BeginsWell'
    <3>1. Fits(asked)' /\ Fits(setup)'
      BY <1>0, <1>1 DEF BeginsWell, Fits, Codings
    <3>2. ~busRst'
      BY <1>1, Zenon
    <3> QED BY <1>1, <1>3, <2>2, <2>3, <3>1, <3>2 DEF BeginsWell, Received
  <2>7. AddressWell'
    BY <1>1, <2>3 DEF AddressWell
  <2>8. DataInWell' /\ DataOutWell' /\ StatusInWell'
    BY <2>3 DEF DataInWell, DataOutWell, StatusInWell
  <2>9. StatusOutWell'
    <3>1. Answer(asked.name)' = Answer(asked.name) /\ LengthOf(asked)' = LengthOf(asked)
      BY <1>1, AnswersKept
    <3> QED BY <1>1, <2>1, <3>1 DEF StatusOutWell
  <2> QED BY <2>5, <2>6, <2>7, <2>8, <2>9 DEF Stages, StagesAgree
<1> QED BY <1>1, <1>4, <1>5 DEF OutStages

LEMMA ControlStep == Stages /\ [ControlNext]_controlVars => Stages'
<1> SUFFICES ASSUME Stages, [ControlNext]_controlVars PROVE Stages'
  OBVIOUS
<1>1. CASE UNCHANGED controlVars
  <2>1. UNCHANGED <<addr, devAddr, config, enumerated, lcWire, req, left, rest, ep0, txLen, tRes,
                    tTog, rRes, event, setup, busRst, hAddr, asked, stage, hTog, got, todo, lostHere,
                    doubt>>
    BY <1>1 DEF controlVars, deviceVars, settings, transfer, endpoint, flags, hostVars, history
  <2>2. ControlTypeOK'
    <3>1. ControlTypeOK
      BY DEF Stages
    <3>2. enumerated' \in BOOLEAN /\ busRst' \in BOOLEAN
      BY <2>1, <3>1, Zenon DEF ControlTypeOK
    <3> QED BY <2>1, <3>1, <3>2 DEF ControlTypeOK, InStages, OutStages, Codings, Enumeration
  <2>3. (Moving' <=> Moving) /\ (Received' <=> Received)
    BY <2>1 DEF Moving, Received, InStages, OutStages
  <2>4. /\ Answer(asked.name)' = Answer(asked.name) /\ LengthOf(asked)' = LengthOf(asked)
    BY <2>1, AnswersKept
  <2>5. BeginsWell' /\ AddressWell'
    BY <2>1, <2>3 DEF Stages, StagesAgree, BeginsWell, AddressWell, Fits, Codings, FirstStage
  <2>6. DataInWell'
    BY <2>1, <2>3, <2>4 DEF Stages, StagesAgree, DataInWell
  <2>7. StatusOutWell' /\ DataOutWell' /\ StatusInWell'
    BY <2>1, <2>3, <2>4 DEF Stages, StagesAgree, StatusOutWell, DataOutWell, StatusInWell
  <2> QED BY <2>2, <2>5, <2>6, <2>7 DEF Stages, StagesAgree
<1>2. CASE Finished
  BY <1>1, <1>2 DEF Finished
<1>3. CASE HostSteps
  BY <1>3, ChooseStep, SendSetupStep, HostInStep, HostOutStep, GiveUpStep, ResetStep
     DEF HostSteps, TakeRefusal, TimeOut, ResetSilent
<1>4. CASE Abort \/ ResetAnyTime
  BY <1>4, GiveUpStep, ResetStep DEF Abort, ResetAnyTime
<1> QED BY <1>1, <1>2, <1>3, <1>4, PollStep DEF ControlNext

\* What the stages mean for the two ends.
LEMMA StagesMean == Stages => ControlInv /\ ReadsExact
<1> SUFFICES ASSUME Stages PROVE ControlInv /\ ReadsExact
  OBVIOUS
<1>0. /\ ControlTypeOK /\ StagesAgree /\ BeginsWell /\ AddressWell
  BY DEF Stages, StagesAgree
<1>1. AddressAgrees
  BY <1>0 DEF AddressAgrees, Silent, Responsive, AddressWell
<1>2. Heard => event = "none" /\ (Moving => Received)
  BY DEF Heard, Responsive, Received
<1>3. AcknowledgedMeansDone
  BY <1>0, <1>2 DEF AcknowledgedMeansDone, StagesAgree, StatusInWell, Moving, InStages
<1>4. StuckOnlyByLoss
  <2> SUFFICES ASSUME Heard, Reply = "NAK" PROVE lostHere
    BY DEF StuckOnlyByLoss, Stuck
  <2>1. stage \in InStages \cup OutStages /\ Received /\ event = "none"
    BY <1>2 DEF Reply, Moving
  <2>2. stage # "dataIn"
    BY <1>0, <2>1 DEF StagesAgree, DataInWell, Reply, InStages
  <2>3. stage # "statusIn"
    BY <1>0, <2>1 DEF StagesAgree, StatusInWell, Reply, InStages
  <2>4. stage # "dataOut"
    BY <1>0, <2>1 DEF StagesAgree, DataOutWell, Reply, InStages, OutStages
  <2>5. stage = "statusOut"
    BY <2>1, <2>2, <2>3, <2>4 DEF InStages, OutStages
  <2>6. rRes = "NAK"
    BY <2>5 DEF Reply, InStages, OutStages
  <2> QED BY <1>0, <2>1, <2>5, <2>6 DEF StagesAgree, StatusOutWell
<1>5. ReadsExact
  <2> DEFINE whole == Answer(asked.name)
             total == LengthOf(asked)
             from == total - left - txLen
  <2>1. whole \in Seq(Nat) /\ Len(whole) \in Nat
    BY <1>0, Answers
  <2>2. asked.name \in Reads => /\ total = Lesser(asked.len, Len(whole))
                                /\ total \in Nat /\ total <= Len(whole)
    BY <1>0, LengthWithin DEF BeginsWell
  <2>3. SubSeq(whole, 1, 0) = <<>> /\ 0 \in 0 .. Len(whole)
    BY <2>1, SubSeqEmpty
  <2>4. CASE stage \in {"dataIn", "statusOut"} /\ event = "setup"
    <3>1. got = <<>> /\ stage = FirstStage(asked) /\ Fits(asked)
      BY <1>0, <2>4 DEF BeginsWell, Moving, InStages, OutStages
    <3>2. stage # "statusOut"
      BY <3>1, FirstStages
    <3> QED BY <2>3, <3>1, <3>2 DEF ReadsExact, Beginning
  <2>5. CASE stage = "dataIn" /\ event # "setup"
    <3>1. Received
      BY <2>5 DEF Received, Moving, InStages
    <3>2. CASE asked.name \in Refused
      <4>1. got = <<>>
        BY <1>0, <2>5, <3>1, <3>2 DEF StagesAgree, DataInWell
      <4> QED BY <2>3, <2>5, <4>1 DEF ReadsExact, Beginning
    <3>3. CASE asked.name \notin Refused
      <4>1. /\ asked.name \in Reads /\ from >= 0
            /\ got = SubSeq(whole, 1, from) \/ got = SubSeq(whole, 1, from + txLen)
        BY <1>0, <2>5, <3>1, <3>3 DEF StagesAgree, DataInWell
      <4>2. left \in Nat /\ txLen \in Nat
        BY <1>0, ControlSizes DEF ControlTypeOK
      <4>3. from \in 0 .. Len(whole) /\ from + txLen \in 0 .. Len(whole)
        <5> HIDE DEF whole, total
        <5> QED BY <2>1, <2>2, <4>1, <4>2
      <4>4. Beginning(got, whole)
        <5> HIDE DEF whole, from
        <5> QED BY <4>1, <4>3 DEF Beginning
      <4> QED BY <2>5, <4>4 DEF ReadsExact
    <3> QED BY <3>2, <3>3
  <2>6. CASE stage = "statusOut" /\ event # "setup"
    <3>1. Received
      BY <2>6 DEF Received, Moving, OutStages
    <3>2. asked.name \in Reads /\ got = SubSeq(whole, 1, total)
      BY <1>0, <2>6, <3>1 DEF StagesAgree, StatusOutWell
    <3> HIDE DEF whole, total
    <3>3. total \in Nat /\ 0 + total <= Len(whole) /\ total \in 0 .. Len(whole)
      BY <2>1, <2>2, <3>2
    <3>4. Len(SubSeq(whole, 0 + 1, 0 + total)) = total
      BY <2>1, <3>3, Between
    <3>5. Len(got) = total
      <4>1. 0 + 1 = 1 /\ 0 + total = total
        BY <3>3
      <4> QED BY <3>2, <3>4, <4>1
    <3>6. Beginning(got, whole)
      BY <3>2, <3>3 DEF Beginning
    <3> QED BY <2>2, <2>6, <3>2, <3>5, <3>6 DEF ReadsExact, whole
  <2>7. CASE stage \notin {"dataIn", "statusOut"}
    BY <2>7 DEF ReadsExact
  <2> QED BY <2>4, <2>5, <2>6, <2>7
<1> QED BY <1>0, <1>1, <1>3, <1>4, <1>5 DEF ControlInv

\* Through every lost handshake, transfer given up and bus reset: the device answers
\* at the host's address unless the handshake of SET_ADDRESS was lost, what it
\* acknowledges has taken effect, and onIrq() leaves both halves of EP0 so that no
\* transfer gets stuck but by a lost handshake.
THEOREM EndsAgree == ControlSpec => []ControlInv
<1>1. ControlSpec => []Stages
  BY ControlTypesInit, ControlStep, PTL DEF ControlSpec
<1> QED BY <1>1, StagesMean, PTL

\* What handleSetup() and handleEp0In() have sent for a read is at any time the
\* beginning of what was asked for, and all of it in the status stage, whatever the
\* packet size and the lengths: no packet twice and none left out.
THEOREM ReadsAreExact == ControlSpec => []ReadsExact
<1>1. ControlSpec => []Stages
  BY ControlTypesInit, ControlStep, PTL DEF ControlSpec
<1> QED BY <1>1, StagesMean, PTL
================================================================================
