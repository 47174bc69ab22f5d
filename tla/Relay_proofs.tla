----------------------------- MODULE Relay_proofs -----------------------------
(***************************************************************************)
(* For any channel capacity, any socket buffer and any amount of traffic,  *)
(* nothing is delivered twice or out of order, and traffic that fits is    *)
(* not lost.  Each direction is a pipe: what was delivered, what is held   *)
(* next to the receiver, a channel of chunks, and what is held next to the *)
(* sender.  Both directions keep the pipe ordered, although every stage    *)
(* may lose what it holds; and no stage does while there is room.          *)
(***************************************************************************)
EXTENDS Relay, WellFoundedInduction, TLAPS

\* Time for the steps that are about a whole state.
USE SMTT(30), ZenonT(30)

Before(s, t) == \A i \in DOMAIN s, j \in DOMAIN t : s[i] < t[j]
UpTo(s, n) == \A i \in DOMAIN s : s[i] <= n

\* The stages follow each other, and nothing exceeds the n units sent.
Ordered(a, b, ch, c, n) ==
    /\ Increasing(a) /\ Increasing(b) /\ Increasing(c)
    /\ Before(a, b) /\ Before(a, c) /\ Before(b, c)
    /\ UpTo(a, n) /\ UpTo(b, n) /\ UpTo(c, n)
    /\ \A i \in DOMAIN ch :
        /\ Increasing(ch[i]) /\ UpTo(ch[i], n)
        /\ Before(a, ch[i]) /\ Before(b, ch[i]) /\ Before(ch[i], c)
    /\ \A i, j \in DOMAIN ch : i < j => Before(ch[i], ch[j])

\* Any stage may lose all it holds.
LEMMA LoseStage ==
    ASSUME NEW a, NEW b, NEW ch, NEW c, NEW n, Ordered(a, b, ch, c, n)
    PROVE  /\ Ordered(a, << >>, ch, c, n) /\ Ordered(a, b, << >>, c, n)
           /\ Ordered(a, b, ch, << >>, n)
  BY DEF Ordered, Increasing, Before, UpTo

\* The app sends one more unit.
LEMMA SendUnit ==
    ASSUME NEW a, NEW b, NEW ch, NEW c \in Seq(Nat), NEW n \in Nat, Ordered(a, b, ch, c, n),
           a \in Seq(Nat), b \in Seq(Nat), ch \in Seq(Seq(Nat))
    PROVE  Ordered(a, b, ch, Append(c, n + 1), n + 1)
  <1> DEFINE d == Append(c, n + 1)
  <1>1. \A i \in DOMAIN d : (i \in DOMAIN c /\ d[i] = c[i]) \/ (i = Len(c) + 1 /\ d[i] = n + 1)
    OBVIOUS
  <1>2. \A s \in Seq(Nat) : UpTo(s, n) => UpTo(s, n + 1)
    BY DEF UpTo
  <1>3. \A s \in Seq(Nat) : UpTo(s, n) /\ Before(s, c) => Before(s, d)
    BY <1>1 DEF UpTo, Before
  <1>4. Increasing(d) /\ UpTo(d, n + 1)
    <2>1. Increasing(c) /\ UpTo(c, n) /\ \A i \in DOMAIN c : c[i] \in Nat /\ i \in Nat /\ i <= Len(c)
      BY DEF Ordered
    <2>2. UpTo(d, n + 1)
      BY <1>1, <2>1 DEF UpTo
    <2>3. Increasing(d)
      BY <1>1, <2>1 DEF UpTo, Increasing
    <2> QED BY <2>2, <2>3
  <1>5. \A i \in DOMAIN ch : ch[i] \in Seq(Nat)
    OBVIOUS
  <1> HIDE DEF d
  <1>6. Ordered(a, b, ch, d, n + 1)
    BY <1>2, <1>3, <1>4, <1>5 DEF Ordered
  <1> QED BY <1>6 DEF d

\* The upstream sends k more units, once the stage before the channel is free.
LEMMA SendUnits ==
    ASSUME NEW a, NEW b, NEW ch, NEW c, NEW n \in Nat, NEW k \in Nat, Ordered(a, b, ch, c, n),
           a \in Seq(Nat), b \in Seq(Nat), ch \in Seq(Seq(Nat))
    PROVE  Ordered(a, b, ch, Units(n, k), n + k)
  <1> DEFINE d == Units(n, k)
  <1>1. DOMAIN d = 1 .. k /\ \A i \in 1 .. k : d[i] = n + i
    BY DEF Units
  <1>2. \A s \in Seq(Nat) : UpTo(s, n) => UpTo(s, n + k) /\ Before(s, d)
    BY <1>1 DEF UpTo, Before
  <1>3. Increasing(d) /\ UpTo(d, n + k)
    BY <1>1 DEF Increasing, UpTo
  <1>4. \A i \in DOMAIN ch : ch[i] \in Seq(Nat)
    OBVIOUS
  <1> HIDE DEF d
  <1>5. Ordered(a, b, ch, d, n + k)
    BY <1>2, <1>3, <1>4 DEF Ordered
  <1> QED BY <1>5 DEF d

\* A first part of what is held enters the channel, or is dropped in front of it.
LEMMA EnterChannel ==
    ASSUME NEW a, NEW b, NEW ch, NEW c, NEW n, Ordered(a, b, ch, c, n),
           ch \in Seq(Seq(Nat)), c \in Seq(Nat), NEW k \in 1 .. Len(c)
    PROVE  /\ Ordered(a, b, Append(ch, SubSeq(c, 1, k)), SubSeq(c, k + 1, Len(c)), n)
           /\ Ordered(a, b, ch, SubSeq(c, k + 1, Len(c)), n)
  <1> DEFINE d == SubSeq(c, 1, k)
             e == SubSeq(c, k + 1, Len(c))
             g == Append(ch, d)
  <1>1. /\ \A i \in DOMAIN d : i \in 1 .. k /\ i \in DOMAIN c /\ d[i] = c[i]
        /\ \A i \in DOMAIN e : i \in 1 .. Len(c) - k /\ k + i \in DOMAIN c /\ e[i] = c[k + i]
        /\ d \in Seq(Nat)
    OBVIOUS
  <1>2. \A i \in DOMAIN g : (i \in DOMAIN ch /\ g[i] = ch[i]) \/ (i = Len(ch) + 1 /\ g[i] = d)
    BY <1>1
  <1>3. Increasing(c) /\ UpTo(c, n)
    BY DEF Ordered
  <1>4. Increasing(d) /\ Increasing(e) /\ UpTo(d, n) /\ UpTo(e, n) /\ Before(d, e)
    <2>1. UpTo(d, n) /\ UpTo(e, n)
      BY <1>1, <1>3 DEF UpTo
    <2>2. Increasing(d)
      BY <1>1, <1>3 DEF Increasing
    <2>3. Increasing(e)
      BY <1>1, <1>3 DEF Increasing
    <2>4. Before(d, e)
      <3> SUFFICES ASSUME NEW i \in DOMAIN d, NEW j \in DOMAIN e PROVE d[i] < e[j]
        BY DEF Before
      <3>1. i \in DOMAIN c /\ k + j \in DOMAIN c /\ i < k + j /\ d[i] = c[i] /\ e[j] = c[k + j]
        BY <1>1
      <3> QED BY <1>3, <3>1 DEF Increasing
    <2> QED BY <2>1, <2>2, <2>3, <2>4
  <1>5. ASSUME NEW s, Before(s, c) PROVE Before(s, d) /\ Before(s, e)
    BY <1>1, <1>5 DEF Before
  <1>6. \A i \in DOMAIN g : i \in Nat /\ i <= Len(ch) + 1 /\ Len(ch) \in Nat
    BY <1>1
  <1> HIDE DEF d, e, g
  <1>7. Ordered(a, b, ch, e, n)
    BY <1>4, <1>5 DEF Ordered
  <1>8. Ordered(a, b, g, e, n)
    <2>1. \A i \in DOMAIN g :
            /\ Increasing(g[i]) /\ UpTo(g[i], n)
            /\ Before(a, g[i]) /\ Before(b, g[i]) /\ Before(g[i], e)
      BY <1>2, <1>4, <1>5, <1>7 DEF Ordered
    <2>2. \A i, j \in DOMAIN g : i < j => Before(g[i], g[j])
      <3> SUFFICES ASSUME NEW i \in DOMAIN g, NEW j \in DOMAIN g, i < j
                   PROVE  Before(g[i], g[j])
        OBVIOUS
      <3>1. i \in DOMAIN ch /\ g[i] = ch[i]
        BY <1>2, <1>6
      <3>2. CASE j \in DOMAIN ch /\ g[j] = ch[j]
        BY <3>1, <3>2 DEF Ordered
      <3>3. CASE g[j] = d
        BY <1>5, <3>1, <3>3 DEF Ordered
      <3> QED BY <1>2, <3>2, <3>3
    <2> QED BY <1>7, <2>1, <2>2 DEF Ordered
  <1> QED BY <1>7, <1>8 DEF d, e, g

\* All that is held enters the channel.
LEMMA EnterWhole ==
    ASSUME NEW a, NEW b, NEW ch, NEW c, NEW n, Ordered(a, b, ch, c, n),
           ch \in Seq(Seq(Nat)), c \in Seq(Nat)
    PROVE  Ordered(a, b, Append(ch, c), << >>, n)
  <1> DEFINE g == Append(ch, c)
             none == << >>
  <1>1. \A i \in DOMAIN g : (i \in DOMAIN ch /\ g[i] = ch[i]) \/ (i = Len(ch) + 1 /\ g[i] = c)
    OBVIOUS
  <1>2. \A i \in DOMAIN g : i \in Nat /\ i <= Len(ch) + 1 /\ Len(ch) \in Nat
    OBVIOUS
  <1>3. Increasing(none) /\ UpTo(none, n) /\ \A s : Before(s, none)
    BY DEF Increasing, UpTo, Before
  <1> HIDE DEF g, none
  <1>4. \A i \in DOMAIN g :
            /\ Increasing(g[i]) /\ UpTo(g[i], n)
            /\ Before(a, g[i]) /\ Before(b, g[i]) /\ Before(g[i], none)
    BY <1>1, <1>3 DEF Ordered
  <1>5. \A i, j \in DOMAIN g : i < j => Before(g[i], g[j])
    <2> SUFFICES ASSUME NEW i \in DOMAIN g, NEW j \in DOMAIN g, i < j
                 PROVE  Before(g[i], g[j])
      OBVIOUS
    <2>1. i \in DOMAIN ch /\ g[i] = ch[i]
      BY <1>1, <1>2
    <2> QED BY <1>1, <2>1, Zenon DEF Ordered
  <1>6. Ordered(a, b, g, none, n)
    BY <1>3, <1>4, <1>5 DEF Ordered
  <1> QED BY <1>6 DEF g, none

\* A first part of the first chunk joins what is held behind the channel; the rest
\* of the chunk is lost.
LEMMA LeaveChannel ==
    ASSUME NEW a, NEW b, NEW ch, NEW c, NEW n, Ordered(a, b, ch, c, n),
           b \in Seq(Nat), ch \in Seq(Seq(Nat)), ch # << >>, NEW m \in 0 .. Len(Head(ch))
    PROVE  /\ Ordered(a, b \o SubSeq(Head(ch), 1, m), Tail(ch), c, n)
           /\ Ordered(a, Head(ch), Tail(ch), c, n)
  <1> DEFINE x == Head(ch)
             d == b \o SubSeq(x, 1, m)
             g == Tail(ch)
  <1>1. x \in Seq(Nat) /\ 1 \in DOMAIN ch /\ x = ch[1]
    OBVIOUS
  <1>2. \A i \in DOMAIN g : /\ i \in Nat /\ i + 1 \in DOMAIN ch /\ 1 < i + 1
                            /\ g[i] = ch[i + 1]
    OBVIOUS
  <1>3. \A i \in DOMAIN d :
            \/ i \in DOMAIN b /\ d[i] = b[i]
            \/ i - Len(b) \in DOMAIN x /\ i > Len(b) /\ d[i] = x[i - Len(b)]
    <2>1. m \in 0 .. Len(x)
      OBVIOUS
    <2> HIDE DEF x
    <2> QED BY <1>1, <2>1
  <1>4. \A i \in DOMAIN d : i \in Nat
    <2>1. m \in 0 .. Len(x)
      OBVIOUS
    <2> HIDE DEF x
    <2> QED BY <1>1, <2>1
  <1>5. \A i \in DOMAIN b : i <= Len(b) /\ i \in Nat /\ Len(b) \in Nat
    OBVIOUS
  <1> HIDE DEF x, d, g
  <1>6. /\ Increasing(x) /\ UpTo(x, n) /\ Before(a, x) /\ Before(b, x) /\ Before(x, c)
        /\ Increasing(b) /\ UpTo(b, n) /\ Before(a, b) /\ Before(b, c)
    BY <1>1 DEF Ordered
  <1>7. Increasing(d)
    <2> SUFFICES ASSUME NEW i \in DOMAIN d, NEW j \in DOMAIN d, i < j PROVE d[i] < d[j]
      BY DEF Increasing
    <2>1. CASE i \in DOMAIN b /\ d[i] = b[i] /\ j \in DOMAIN b /\ d[j] = b[j]
      BY <1>6, <2>1 DEF Increasing
    <2>2. CASE i \in DOMAIN b /\ d[i] = b[i] /\ j - Len(b) \in DOMAIN x /\ d[j] = x[j - Len(b)]
      BY <1>6, <2>2 DEF Before
    <2>3. CASE /\ i - Len(b) \in DOMAIN x /\ i > Len(b) /\ d[i] = x[i - Len(b)]
               /\ j - Len(b) \in DOMAIN x /\ j > Len(b) /\ d[j] = x[j - Len(b)]
      <3>1. i - Len(b) < j - Len(b)
        BY <1>4
      <3> QED BY <1>6, <2>3, <3>1 DEF Increasing
    <2>4. ~(i > Len(b) /\ j \in DOMAIN b)
      BY <1>4, <1>5
    <2> QED BY <1>3, <2>1, <2>2, <2>3, <2>4
  <1>8. UpTo(d, n) /\ Before(a, d) /\ Before(d, c)
    BY <1>3, <1>6, Zenon DEF UpTo, Before
  <1>9. \A i \in DOMAIN g :
            /\ Increasing(g[i]) /\ UpTo(g[i], n)
            /\ Before(a, g[i]) /\ Before(b, g[i]) /\ Before(x, g[i]) /\ Before(g[i], c)
    BY <1>1, <1>2 DEF Ordered
  <1>10. \A i \in DOMAIN g : Before(d, g[i])
    BY <1>3, <1>9, ZenonT(30) DEF Before
  <1>11. \A i, j \in DOMAIN g : i < j => Before(g[i], g[j])
    <2> SUFFICES ASSUME NEW i \in DOMAIN g, NEW j \in DOMAIN g, i < j
                 PROVE  Before(g[i], g[j])
      OBVIOUS
    <2>1. i + 1 < j + 1
      BY <1>2
    <2> QED BY <1>2, <2>1 DEF Ordered
  <1>12. Ordered(a, d, g, c, n) /\ Ordered(a, x, g, c, n)
    BY <1>6, <1>7, <1>8, <1>9, <1>10, <1>11 DEF Ordered
  <1> QED BY <1>12 DEF d, g, x

\* All that is held behind the channel is delivered.
LEMMA DeliverAll ==
    ASSUME NEW a, NEW b, NEW ch, NEW c, NEW n, Ordered(a, b, ch, c, n),
           a \in Seq(Nat), b \in Seq(Nat)
    PROVE  Ordered(a \o b, << >>, ch, c, n)
  <1> DEFINE d == a \o b
             none == << >>
  <1>1. /\ \A i \in DOMAIN d :
            \/ i \in DOMAIN a /\ d[i] = a[i]
            \/ i - Len(a) \in DOMAIN b /\ i > Len(a) /\ d[i] = b[i - Len(a)]
        /\ \A i \in DOMAIN d : i \in Nat
        /\ \A i \in DOMAIN a : i <= Len(a) /\ i \in Nat
        /\ Len(a) \in Nat
    OBVIOUS
  <1>2. Increasing(none) /\ UpTo(none, n) /\ \A s : Before(s, none) /\ Before(none, s)
    BY DEF Increasing, UpTo, Before
  <1> HIDE DEF d, none
  <1>3. /\ Increasing(a) /\ UpTo(a, n) /\ Before(a, b) /\ Before(a, c)
        /\ Increasing(b) /\ UpTo(b, n) /\ Before(b, c)
    BY DEF Ordered
  <1>4. Increasing(d)
    <2> SUFFICES ASSUME NEW i \in DOMAIN d, NEW j \in DOMAIN d, i < j PROVE d[i] < d[j]
      BY DEF Increasing
    <2>1. CASE i \in DOMAIN a /\ d[i] = a[i] /\ j \in DOMAIN a /\ d[j] = a[j]
      BY <1>3, <2>1 DEF Increasing
    <2>2. CASE i \in DOMAIN a /\ d[i] = a[i] /\ j - Len(a) \in DOMAIN b /\ d[j] = b[j - Len(a)]
      BY <1>3, <2>2 DEF Before
    <2>3. CASE /\ i - Len(a) \in DOMAIN b /\ i > Len(a) /\ d[i] = b[i - Len(a)]
               /\ j - Len(a) \in DOMAIN b /\ j > Len(a) /\ d[j] = b[j - Len(a)]
      <3>1. i - Len(a) < j - Len(a)
        BY <1>1
      <3> QED BY <1>3, <2>3, <3>1 DEF Increasing
    <2>4. ~(i > Len(a) /\ j \in DOMAIN a)
      BY <1>1
    <2> QED BY <1>1, <2>1, <2>2, <2>3, <2>4
  <1>5. UpTo(d, n) /\ Before(d, c)
    BY <1>1, <1>3 DEF UpTo, Before
  <1>6. \A i \in DOMAIN ch : Before(a, ch[i]) /\ Before(b, ch[i])
    BY DEF Ordered
  <1>7. \A i \in DOMAIN ch : Before(d, ch[i])
    BY <1>1, <1>6 DEF Before
  <1>8. Ordered(d, none, ch, c, n)
    BY <1>2, <1>4, <1>5, <1>7 DEF Ordered
  <1> QED BY <1>8 DEF d, none

\* The first unit held behind the channel is delivered.
LEMMA DeliverOne ==
    ASSUME NEW a, NEW b, NEW ch, NEW c, NEW n, Ordered(a, b, ch, c, n),
           a \in Seq(Nat), b \in Seq(Nat), b # << >>
    PROVE  Ordered(Append(a, Head(b)), Tail(b), ch, c, n)
  <1> DEFINE d == Append(a, Head(b))
             t == Tail(b)
  <1>1. /\ \A i \in DOMAIN d : \/ i \in DOMAIN a /\ d[i] = a[i]
                               \/ i = Len(a) + 1 /\ d[i] = b[1]
        /\ 1 \in DOMAIN b
        /\ \A i \in DOMAIN d : i \in Nat /\ i <= Len(a) + 1
        /\ Len(a) \in Nat
    OBVIOUS
  <1>2. \A i \in DOMAIN t : i \in Nat /\ i + 1 \in DOMAIN b /\ 1 < i + 1 /\ t[i] = b[i + 1]
    OBVIOUS
  <1> HIDE DEF d, t
  <1>3. /\ Increasing(a) /\ UpTo(a, n) /\ Before(a, b) /\ Before(a, c)
        /\ Increasing(b) /\ UpTo(b, n) /\ Before(b, c)
    BY DEF Ordered
  <1>4. Increasing(d)
    <2> SUFFICES ASSUME NEW i \in DOMAIN d, NEW j \in DOMAIN d, i < j PROVE d[i] < d[j]
      BY DEF Increasing
    <2>1. i \in DOMAIN a /\ d[i] = a[i]
      BY <1>1
    <2> QED BY <1>1, <1>3, <2>1 DEF Increasing, Before
  <1>5. UpTo(d, n) /\ Before(d, c)
    BY <1>1, <1>3 DEF UpTo, Before
  <1>6. Increasing(t)
    <2> SUFFICES ASSUME NEW i \in DOMAIN t, NEW j \in DOMAIN t, i < j PROVE t[i] < t[j]
      BY DEF Increasing
    <2>1. i + 1 < j + 1
      BY <1>2
    <2> QED BY <1>2, <1>3, <2>1 DEF Increasing
  <1>7. UpTo(t, n) /\ Before(t, c)
    BY <1>2, <1>3 DEF UpTo, Before
  <1>8. Before(d, t)
    <2> SUFFICES ASSUME NEW i \in DOMAIN d, NEW j \in DOMAIN t PROVE d[i] < t[j]
      BY DEF Before
    <2>1. t[j] = b[j + 1] /\ j + 1 \in DOMAIN b /\ b[1] < b[j + 1]
      BY <1>1, <1>2, <1>3 DEF Increasing
    <2> QED BY <1>1, <1>3, <2>1 DEF Before
  <1>9. \A i \in DOMAIN ch : Before(a, ch[i]) /\ Before(b, ch[i])
    BY DEF Ordered
  <1>10. \A i \in DOMAIN ch : Before(d, ch[i]) /\ Before(t, ch[i])
    BY <1>1, <1>2, <1>9 DEF Before
  <1>11. Ordered(d, t, ch, c, n)
    BY <1>4, <1>5, <1>6, <1>7, <1>8, <1>10 DEF Ordered
  <1> QED BY <1>11 DEF d, t

LabelsOK ==
    /\ tcp \in Tcp /\ step \in {"idle", "recv", "send", "close"}
    /\ up.at \in {"connecting", "recv", "write", "shutdown", "done"}
    /\ down.at \in {"connecting", "read", "send", "done"}
    /\ upstream \in {"none", "open", "closed", "broken"}
    /\ sent \in [app : 0 .. MaxUp, up : 0 .. MaxDown]

UpOK ==
    /\ rx \in Seq(1 .. MaxUp) /\ Len(rx) <= SOCK_BUF
    /\ up_ch \in Seq(Seq(1 .. MaxUp)) /\ Len(up_ch) <= CHANNEL_CAP
    /\ up.data \in Seq(1 .. MaxUp) /\ up_got \in Seq(1 .. MaxUp)
    /\ Ordered(up_got, up.data, up_ch, rx, sent.app)

DownOK ==
    /\ tx \in Seq(1 .. MaxDown) /\ Len(tx) <= SOCK_BUF
    /\ down_ch \in Seq(Seq(1 .. MaxDown)) /\ Len(down_ch) <= CHANNEL_CAP
    /\ down.data \in Seq(1 .. MaxDown) /\ app_got \in Seq(1 .. MaxDown)
    /\ Ordered(app_got, tx, down_ch, down.data, sent.up)

RelayInv == LabelsOK /\ UpOK /\ DownOK

\* A step that leaves the way up alone.
LEMMA UpFrame ==
    ASSUME UpOK, UNCHANGED <<rx, up_ch, up.data, up_got, sent.app>> PROVE UpOK'
  BY DEF UpOK

\* A step that leaves the way down alone.
LEMMA DownFrame ==
    ASSUME DownOK, UNCHANGED <<tx, down_ch, down.data, app_got, sent.up>> PROVE DownOK'
  BY DEF DownOK

\* Sequences of units are sequences of numbers.
LEMMA Numbers ==
    ASSUME NEW M \in Nat
    PROVE  /\ \A s \in Seq(1 .. M) : s \in Seq(Nat)
           /\ \A s \in Seq(Seq(1 .. M)) : s \in Seq(Seq(Nat))
  <1>1. ASSUME NEW S, NEW T, S \subseteq T PROVE Seq(S) \subseteq Seq(T)
    BY <1>1
  <1>2. Seq(1 .. M) \subseteq Seq(Nat)
    BY <1>1
  <1> QED BY <1>1, <1>2

\* A half of the relay that only moves on holds no chunk.
LEMMA AtFact == \A label : At(label).at = label /\ At(label).data = << >>
  BY DEF At

\* Nothing was sent yet.
LEMMA RelayInitInv == Init => RelayInv
  <1> SUFFICES ASSUME Init PROVE RelayInv
    OBVIOUS
  <1>1. LabelsOK
    BY AtFact, CapsAssumption DEF Init, LabelsOK, Tcp
  <1>2. UpOK
    <2>1. rx = << >> /\ up_ch = << >> /\ up_got = << >> /\ up.data = << >>
      BY AtFact DEF Init
    <2>2. Ordered(<< >>, << >>, << >>, << >>, sent.app)
      BY DEF Ordered, Increasing, Before, UpTo
    <2> QED BY <2>1, <2>2, CapsAssumption DEF UpOK
  <1>3. DownOK
    <2>1. tx = << >> /\ down_ch = << >> /\ app_got = << >> /\ down.data = << >>
      BY AtFact DEF Init
    <2>2. Ordered(<< >>, << >>, << >>, << >>, sent.up)
      BY DEF Ordered, Increasing, Before, UpTo
    <2> QED BY <2>1, <2>2, CapsAssumption DEF DownOK
  <1> QED BY <1>1, <1>2, <1>3 DEF RelayInv

\* Every step leads to known labels and counts no unit beyond the bounds.
LEMMA LabelsInv == LabelsOK /\ [Next]_vars => LabelsOK'
  <1> SUFFICES ASSUME LabelsOK, [Next]_vars PROVE LabelsOK'
    OBVIOUS
  <1> USE AtFact, CapsAssumption DEF LabelsOK, Tcp
  <1>1. CASE AppTask
    BY <1>1 DEF AppTask, app_send, app_ack, app_fin, app_reset, MayReceive
  <1>2. CASE PollTask
    BY <1>2 DEF PollTask, service_begin, service_recv, service_send, service_close, CanSend,
                sockVars
  <1>3. CASE relay_connect
    BY <1>3 DEF relay_connect, sockVars
  <1>4. CASE UpTask
    BY <1>4 DEF UpTask, up_recv, up_write, up_shutdown, sockVars
  <1>5. CASE DownTask
    BY <1>5 DEF DownTask, down_read, down_send, sockVars
  <1>6. ASSUME NEW how \in {"closed", "broken"}, upstream_ends(how) PROVE LabelsOK'
    BY <1>6 DEF upstream_ends, sockVars
  <1>7. CASE UNCHANGED vars
    BY <1>7 DEF vars, sockVars
  <1> QED BY <1>1, <1>2, <1>3, <1>4, <1>5, <1>6, <1>7 DEF Next

\* The parts of a sequence over a set.
LEMMA Parts ==
    ASSUME NEW S
    PROVE  /\ << >> \in Seq(S) /\ Len(<< >>) = 0
           /\ \A s \in Seq(S) : \A n \in 0 .. Len(s) :
                /\ SubSeq(s, 1, n) \in Seq(S) /\ Len(SubSeq(s, 1, n)) = n
                /\ SubSeq(s, n + 1, Len(s)) \in Seq(S)
                /\ Len(SubSeq(s, n + 1, Len(s))) = Len(s) - n
  OBVIOUS

\* A first part of a chunk joins a buffer.
LEMMA Joined ==
    ASSUME NEW S, NEW s \in Seq(S), NEW t \in Seq(S), NEW m \in 0 .. Len(t)
    PROVE  s \o SubSeq(t, 1, m) \in Seq(S) /\ Len(s \o SubSeq(t, 1, m)) = Len(s) + m
  <1> DEFINE y == SubSeq(t, 1, m)
  <1>1. y \in Seq(S) /\ Len(y) = m
    BY Parts
  <1> HIDE DEF y
  <1>2. s \o y \in Seq(S) /\ Len(s \o y) = Len(s) + m
    BY <1>1
  <1> QED BY <1>2 DEF y

\* From the app to the upstream.
LEMMA UpInv == RelayInv /\ [Next]_vars => UpOK'
  <1> SUFFICES ASSUME RelayInv, [Next]_vars PROVE UpOK'
    OBVIOUS
  <1>1. /\ LabelsOK /\ UpOK /\ sent.app \in Nat /\ sent.app <= MaxUp
        /\ rx \in Seq(1 .. MaxUp) /\ Len(rx) <= SOCK_BUF
        /\ up_ch \in Seq(Seq(1 .. MaxUp)) /\ Len(up_ch) <= CHANNEL_CAP
        /\ up.data \in Seq(1 .. MaxUp) /\ up_got \in Seq(1 .. MaxUp)
        /\ Ordered(up_got, up.data, up_ch, rx, sent.app)
    BY CapsAssumption DEF RelayInv, LabelsOK, UpOK
  <1>2. /\ rx \in Seq(Nat) /\ up_ch \in Seq(Seq(Nat)) /\ up.data \in Seq(Nat)
        /\ up_got \in Seq(Nat)
    BY <1>1, Numbers, CapsAssumption
  <1>3. CASE app_send
    <2>1. /\ sent'.app = sent.app + 1 /\ rx' = Append(rx, sent.app + 1)
          /\ sent.app < MaxUp /\ Len(rx) < SOCK_BUF
          /\ UNCHANGED <<up_ch, up, up_got>>
      BY <1>1, <1>3 DEF app_send, LabelsOK
    <2>2. Ordered(up_got, up.data, up_ch, rx', sent'.app)
      BY <1>1, <1>2, <2>1, SendUnit
    <2>3. rx' \in Seq(1 .. MaxUp) /\ Len(rx') <= SOCK_BUF
      BY <1>1, <2>1, CapsAssumption
    <2> QED BY <1>1, <2>1, <2>2, <2>3 DEF UpOK
  <1>4. CASE service_begin
    <2>1. UNCHANGED <<up_ch, up, up_got, sent>> /\ (rx' = rx \/ rx' = << >>)
      BY <1>4 DEF service_begin, sockVars
    <2>2. Ordered(up_got, up.data, up_ch, rx', sent.app)
      BY <1>1, <2>1, LoseStage
    <2>3. rx' \in Seq(1 .. MaxUp) /\ Len(rx') <= SOCK_BUF
      <3>1. CASE rx' = rx
        BY <1>1, <3>1
      <3>2. CASE rx' = << >>
        <4>1. rx' \in Seq(1 .. MaxUp) /\ Len(rx') = 0
          BY <3>2, Parts
        <4> QED BY <4>1, CapsAssumption
      <3> QED BY <2>1, <3>1, <3>2
    <2> QED BY <1>1, <2>1, <2>2, <2>3 DEF UpOK
  <1>5. CASE service_recv
    <2>1. UNCHANGED <<up, up_got, sent>>
      BY <1>5 DEF service_recv
    <2>2. ASSUME NEW n \in 1 .. Len(rx), Deliver(SubSeq(rx, 1, n)),
                 rx' = SubSeq(rx, n + 1, Len(rx))
          PROVE  UpOK'
      <3>1. /\ Ordered(up_got, up.data, Append(up_ch, SubSeq(rx, 1, n)), rx', sent.app)
            /\ Ordered(up_got, up.data, up_ch, rx', sent.app)
        BY <1>1, <1>2, <2>2, EnterChannel
      <3>2. rx' \in Seq(1 .. MaxUp) /\ Len(rx') <= SOCK_BUF
        <4>1. n \in 0 .. Len(rx)
          OBVIOUS
        <4>2. rx' \in Seq(1 .. MaxUp) /\ Len(rx') = Len(rx) - n
          BY <1>1, <2>2, <4>1, Parts, ZenonT(30)
        <4> QED BY <1>1, <4>2, CapsAssumption
      <3>3. CASE up_ch' = up_ch
        BY <1>1, <2>1, <3>1, <3>2, <3>3 DEF UpOK
      <3>4. CASE Len(up_ch) < CHANNEL_CAP /\ up_ch' = Append(up_ch, SubSeq(rx, 1, n))
        <4>1. SubSeq(rx, 1, n) \in Seq(1 .. MaxUp)
          <5>1. n \in 0 .. Len(rx)
            OBVIOUS
          <5> QED BY <1>1, <5>1, Parts, ZenonT(30)
        <4>2. up_ch' \in Seq(Seq(1 .. MaxUp)) /\ Len(up_ch') <= CHANNEL_CAP
          BY <1>1, <3>4, <4>1, CapsAssumption
        <4> QED BY <1>1, <2>1, <3>1, <3>2, <3>4, <4>2 DEF UpOK
      <3> QED BY <2>2, <3>3, <3>4 DEF Deliver
    <2>3. CASE UNCHANGED <<rx, up_ch>>
      BY <1>1, <2>1, <2>3, UpFrame
    <2> QED BY <1>5, <2>2, <2>3 DEF service_recv
  <1>6. CASE relay_connect \/ up_shutdown
    <2>1. /\ UNCHANGED <<rx, up_got, sent>> /\ up'.data = << >>
          /\ up_ch' = up_ch \/ up_ch' = << >>
      BY <1>6, AtFact DEF relay_connect, up_shutdown, sockVars
    <2>2. Ordered(up_got, << >>, up_ch', rx, sent.app)
      BY <1>1, <2>1, LoseStage
    <2>3. up_ch' \in Seq(Seq(1 .. MaxUp)) /\ Len(up_ch') <= CHANNEL_CAP
      <3>1. CASE up_ch' = up_ch
        BY <1>1, <3>1
      <3>2. CASE up_ch' = << >>
        <4>1. up_ch' \in Seq(Seq(1 .. MaxUp)) /\ Len(up_ch') = 0
          BY <3>2, Parts
        <4> QED BY <4>1, CapsAssumption
      <3> QED BY <2>1, <3>1, <3>2
    <2> QED BY <1>1, <2>1, <2>2, <2>3 DEF UpOK
  <1>7. CASE up_recv
    <2>1. UNCHANGED <<rx, up_got, sent>>
      BY <1>7 DEF up_recv, sockVars
    <2>2. CASE up_ch # << >> /\ up'.data = Head(up_ch) /\ up_ch' = Tail(up_ch)
      <3>1. 0 \in 0 .. Len(Head(up_ch))
        BY <1>2, <2>2
      <3>2. Ordered(up_got, up'.data, up_ch', rx, sent.app)
        BY <1>1, <1>2, <2>2, <3>1, LeaveChannel
      <3>3. /\ up_ch' \in Seq(Seq(1 .. MaxUp)) /\ Len(up_ch') <= CHANNEL_CAP
            /\ up'.data \in Seq(1 .. MaxUp)
        BY <1>1, <2>2, CapsAssumption
      <3> QED BY <1>1, <2>1, <3>2, <3>3 DEF UpOK
    <2>3. CASE up'.data = << >> /\ up_ch' = up_ch
      BY <1>1, <2>1, <2>3, LoseStage DEF UpOK
    <2> QED BY <1>7, <2>2, <2>3, AtFact DEF up_recv
  <1>8. CASE up_write
    <2>1. UNCHANGED <<rx, up_ch, sent>> /\ up'.data = << >>
      BY <1>8, AtFact DEF up_write, sockVars
    <2>2. CASE up_got' = up_got \o up.data
      <3>1. Ordered(up_got', << >>, up_ch, rx, sent.app)
        BY <1>1, <1>2, <2>2, DeliverAll
      <3>2. up_got' \in Seq(1 .. MaxUp)
        BY <1>1, <2>2
      <3> QED BY <1>1, <2>1, <3>1, <3>2 DEF UpOK
    <2>3. CASE up_got' = up_got
      BY <1>1, <2>1, <2>3, LoseStage DEF UpOK
    <2> QED BY <1>8, <2>2, <2>3 DEF up_write
  <1>9. CASE \/ app_ack \/ app_fin \/ app_reset \/ service_send \/ service_close \/ DownTask
            \/ (\E how \in {"closed", "broken"} : upstream_ends(how)) \/ UNCHANGED vars
    <2>1. UNCHANGED <<rx, up_ch, up, up_got>> /\ sent'.app = sent.app
      BY <1>1, <1>9
         DEF app_ack, app_fin, app_reset, service_send, service_close, DownTask, down_read,
             down_send, upstream_ends, vars, sockVars, LabelsOK
    <2> QED BY <1>1, <2>1, UpFrame
  <1> QED
    BY <1>3, <1>4, <1>5, <1>6, <1>7, <1>8, <1>9 DEF Next, AppTask, PollTask, UpTask

\* From the upstream to the app.
LEMMA DownInv == RelayInv /\ [Next]_vars => DownOK'
  <1> SUFFICES ASSUME RelayInv, [Next]_vars PROVE DownOK'
    OBVIOUS
  <1>1. /\ LabelsOK /\ DownOK /\ sent.up \in Nat /\ sent.up <= MaxDown
        /\ tx \in Seq(1 .. MaxDown) /\ Len(tx) <= SOCK_BUF
        /\ down_ch \in Seq(Seq(1 .. MaxDown)) /\ Len(down_ch) <= CHANNEL_CAP
        /\ down.data \in Seq(1 .. MaxDown) /\ app_got \in Seq(1 .. MaxDown)
        /\ Ordered(app_got, tx, down_ch, down.data, sent.up)
    BY CapsAssumption DEF RelayInv, LabelsOK, DownOK
  <1>2. /\ tx \in Seq(Nat) /\ down_ch \in Seq(Seq(Nat)) /\ down.data \in Seq(Nat)
        /\ app_got \in Seq(Nat)
    BY <1>1, Numbers, CapsAssumption
  <1>3. CASE app_ack
    <2>1. /\ tx # << >> /\ tx' = Tail(tx) /\ app_got' = Append(app_got, Head(tx))
          /\ UNCHANGED <<down_ch, down, sent>>
      BY <1>3 DEF app_ack
    <2>2. Ordered(app_got', tx', down_ch, down.data, sent.up)
      BY <1>1, <1>2, <2>1, DeliverOne
    <2>3. tx' \in Seq(1 .. MaxDown) /\ Len(tx') <= SOCK_BUF /\ app_got' \in Seq(1 .. MaxDown)
      BY <1>1, <2>1, CapsAssumption
    <2> QED BY <1>1, <2>1, <2>2, <2>3 DEF DownOK
  <1>4. CASE service_begin
    <2>1. CASE UNCHANGED <<tx, down_ch, down, app_got, sent>>
      BY <1>1, <2>1, DownFrame
    <2>2. CASE tx' = << >> /\ down_ch' = << >> /\ UNCHANGED <<down, app_got, sent>>
      <3>1. Ordered(app_got, << >>, << >>, down.data, sent.up)
        BY <1>1, LoseStage
      <3>2. /\ tx' \in Seq(1 .. MaxDown) /\ Len(tx') = 0
            /\ down_ch' \in Seq(Seq(1 .. MaxDown)) /\ Len(down_ch') = 0
        BY <2>2, Parts
      <3> QED BY <1>1, <2>2, <3>1, <3>2, CapsAssumption DEF DownOK
    <2> QED BY <1>4, <2>1, <2>2 DEF service_begin, sockVars
  <1>5. CASE service_send
    <2>1. UNCHANGED <<down, app_got, sent>>
      BY <1>5 DEF service_send
    <2>2. CASE UNCHANGED <<tx, down_ch>>
      BY <1>1, <2>1, <2>2, DownFrame
    <2>3. CASE CanSend /\ down_ch # << >> /\ SendSlice(Head(down_ch)) /\ down_ch' = Tail(down_ch)
      <3> DEFINE x == Head(down_ch)
                 m == IF Len(x) < SOCK_BUF - Len(tx) THEN Len(x) ELSE SOCK_BUF - Len(tx)
      <3>1. x \in Seq(1 .. MaxDown) /\ Len(tx) < SOCK_BUF /\ Len(tx) \in Nat
        BY <1>1, <2>3 DEF CanSend
      <3>2. tx' = tx \o SubSeq(x, 1, m)
        BY <2>3 DEF SendSlice
      <3>3. m \in 0 .. Len(x) /\ Len(tx) + m <= SOCK_BUF /\ Len(x) \in Nat
        <4> HIDE DEF x
        <4> QED BY <3>1, CapsAssumption
      <3> HIDE DEF m
      <3>4. Ordered(app_got, tx', down_ch', down.data, sent.up)
        BY <1>1, <1>2, <2>3, <3>2, <3>3, LeaveChannel
      <3> HIDE DEF x
      <3>5. tx' \in Seq(1 .. MaxDown) /\ Len(tx') = Len(tx) + m
        <4> DEFINE S == 1 .. MaxDown
        <4>1. x \in Seq(S) /\ tx \in Seq(S)
          BY <1>1, <3>1
        <4> HIDE DEF S
        <4>2. tx' \in Seq(S) /\ Len(tx') = Len(tx) + m
          BY <3>2, <3>3, <4>1, Joined
        <4> QED BY <4>2 DEF S
      <3>6. down_ch' \in Seq(Seq(1 .. MaxDown)) /\ Len(down_ch') <= CHANNEL_CAP
        BY <1>1, <2>3, CapsAssumption
      <3> QED BY <1>1, <2>1, <3>3, <3>4, <3>5, <3>6 DEF DownOK
    <2> QED BY <1>5, <2>2, <2>3 DEF service_send
  <1>6. CASE relay_connect
    <2>1. UNCHANGED <<tx, down_ch, app_got, sent>> /\ down'.data = << >>
      BY <1>6, AtFact DEF relay_connect, sockVars
    <2> QED BY <1>1, <2>1, LoseStage, Parts DEF DownOK
  <1>7. CASE down_read
    <2>1. UNCHANGED <<tx, down_ch, app_got>>
      BY <1>7 DEF down_read, sockVars
    <2>2. ASSUME NEW n \in 1 .. MaxDown - sent.up, down'.data = Units(sent.up, n),
                 sent' = [sent EXCEPT !.up = @ + n]
          PROVE  DownOK'
      <3>1. sent'.up = sent.up + n
        BY <1>1, <2>2 DEF LabelsOK
      <3>2. Ordered(app_got, tx, down_ch, Units(sent.up, n), sent.up + n)
        BY <1>1, <1>2, SendUnits
      <3>3. Units(sent.up, n) \in Seq(1 .. MaxDown)
        BY <1>1, CapsAssumption DEF Units
      <3> QED BY <1>1, <2>1, <2>2, <3>1, <3>2, <3>3 DEF DownOK
    <2>3. CASE down'.data = << >> /\ UNCHANGED sent
      BY <1>1, <2>1, <2>3, LoseStage, Parts DEF DownOK
    <2> QED BY <1>7, <2>2, <2>3, AtFact DEF down_read
  <1>8. CASE down_send
    <2>1. UNCHANGED <<tx, app_got, sent>> /\ down'.data = << >>
      BY <1>8, AtFact DEF down_send, sockVars
    <2>2. CASE Len(down_ch) < CHANNEL_CAP /\ down_ch' = Append(down_ch, down.data)
      <3>1. Ordered(app_got, tx, down_ch', << >>, sent.up)
        BY <1>1, <1>2, <2>2, EnterWhole
      <3>2. down_ch' \in Seq(Seq(1 .. MaxDown)) /\ Len(down_ch') <= CHANNEL_CAP
        BY <1>1, <2>2, CapsAssumption
      <3> QED BY <1>1, <2>1, <3>1, <3>2, Parts DEF DownOK
    <2>3. CASE UNCHANGED down_ch
      BY <1>1, <2>1, <2>3, LoseStage, Parts DEF DownOK
    <2> QED BY <1>8, <2>2, <2>3 DEF down_send
  <1>9. CASE \/ app_send \/ app_fin \/ app_reset \/ service_recv \/ service_close \/ UpTask
            \/ (\E how \in {"closed", "broken"} : upstream_ends(how)) \/ UNCHANGED vars
    <2>1. UNCHANGED <<tx, down_ch, down, app_got>> /\ sent'.up = sent.up
      BY <1>1, <1>9
         DEF app_send, app_fin, app_reset, service_recv, service_close, UpTask, up_recv,
             up_write, up_shutdown, upstream_ends, vars, sockVars, LabelsOK
    <2> QED BY <1>1, <2>1, DownFrame
  <1> QED
    BY <1>3, <1>4, <1>5, <1>6, <1>7, <1>8, <1>9 DEF Next, AppTask, PollTask, DownTask

\* Whatever the capacities and the amount of traffic, and whatever is lost at a full
\* channel or a full socket buffer, each side receives the units of the other in
\* the order in which they were sent and none of them twice (stack.rs:196-236,
\* runner.rs:386-409); no buffer exceeds its capacity.
THEOREM RelayCorrect == Spec => [](RelayTypeOK /\ InOrder)
  <1>1. RelayInv /\ [Next]_vars => RelayInv'
    BY LabelsInv, UpInv, DownInv DEF RelayInv
  <1>2. RelayInv => RelayTypeOK /\ InOrder
    BY DEF RelayInv, LabelsOK, UpOK, DownOK, RelayTypeOK, InOrder, Ordered
  <1> QED BY <1>1, <1>2, RelayInitInv, PTL DEF Spec
--------------------------------------------------------------------------------
(***************************************************************************)
(* Traffic that fits is not lost.  The stages of a pipe that has lost      *)
(* nothing are adjacent intervals of the stream; cut says where the chunks *)
(* of the channel end.  No chunk is empty, so chunk i ends at unit i or    *)
(* later, which is why a channel with a place for every unit is never full *)
(* when a chunk arrives.                                                   *)
(***************************************************************************)
\* The units of a stream after lo, up to hi.
Span(lo, hi) == Units(lo, hi - lo)

\* The chunks of a channel, one after the other.
Chained(ch, cut, n) ==
    /\ cut \in [0 .. Len(ch) -> 0 .. n]
    /\ \A i \in 1 .. Len(ch) : cut[i - 1] < cut[i] /\ ch[i] = Span(cut[i - 1], cut[i])
    /\ \A i \in 0 .. Len(ch) : i <= cut[i]

Kept(a, b, ch, c, n) ==
    \E p \in 0 .. n, cut \in [0 .. Len(ch) -> 0 .. n] :
        /\ Chained(ch, cut, n)
        /\ p <= cut[0]
        /\ a = Span(0, p) /\ b = Span(p, cut[0]) /\ c = Span(cut[Len(ch)], n)

\* A span is a sequence.
LEMMA SpanSeq ==
    ASSUME NEW l \in Nat, NEW h \in Nat, l <= h
    PROVE  /\ Span(l, h) \in Seq(Nat) /\ Len(Span(l, h)) = h - l
           /\ \A i \in 1 .. h - l : Span(l, h)[i] = l + i
           /\ (Span(l, h) = << >>) <=> (l = h)
  <1> DEFINE s == Span(l, h)
  <1>1. s = [i \in 1 .. h - l |-> l + i] /\ h - l \in Nat
    BY DEF Span, Units
  <1>2. s \in Seq(Nat) /\ Len(s) = h - l /\ \A i \in 1 .. h - l : s[i] = l + i
    <2> HIDE DEF s
    <2> QED BY <1>1
  <1>3. s = << >> <=> l = h
    <2> HIDE DEF s
    <2> QED BY <1>2
  <1> QED BY <1>2, <1>3

\* Two sequences with the same elements are the same.
LEMMA SameSeq ==
    ASSUME NEW s \in Seq(Nat), NEW t \in Seq(Nat), Len(s) = Len(t),
           \A i \in 1 .. Len(s) : s[i] = t[i]
    PROVE  s = t
  OBVIOUS

\* Adjacent spans join.
LEMMA SpanJoin ==
    ASSUME NEW l \in Nat, NEW m \in Nat, NEW h \in Nat, l <= m, m <= h
    PROVE  Span(l, m) \o Span(m, h) = Span(l, h)
  <1> DEFINE s == Span(l, m)
             t == Span(m, h)
             u == Span(l, h)
             w == s \o t
  <1>1. s \in Seq(Nat) /\ Len(s) = m - l /\ \A i \in 1 .. m - l : s[i] = l + i
    BY SpanSeq
  <1>2. t \in Seq(Nat) /\ Len(t) = h - m /\ \A i \in 1 .. h - m : t[i] = m + i
    BY SpanSeq
  <1>3. u \in Seq(Nat) /\ Len(u) = h - l /\ \A i \in 1 .. h - l : u[i] = l + i
    BY SpanSeq
  <1> HIDE DEF s, t, u
  <1>4. /\ w \in Seq(Nat) /\ Len(w) = Len(s) + Len(t)
        /\ \A i \in 1 .. Len(s) : w[i] = s[i]
        /\ \A i \in 1 .. Len(t) : w[Len(s) + i] = t[i]
    <2>1. s \in Seq(Nat) /\ t \in Seq(Nat)
      BY <1>1, <1>2
    <2>2. w \in Seq(Nat) /\ Len(w) = Len(s) + Len(t)
      BY <2>1
    <2>3. \A i \in 1 .. Len(s) : w[i] = s[i]
      BY <2>1
    <2>4. \A i \in 1 .. Len(t) : w[Len(s) + i] = t[i]
      BY <2>1
    <2> QED BY <2>2, <2>3, <2>4
  <1> HIDE DEF w
  <1>5. \A i \in 1 .. Len(w) : w[i] = u[i]
    <2> SUFFICES ASSUME NEW i \in 1 .. Len(w) PROVE w[i] = u[i]
      OBVIOUS
    <2>1. i \in Nat /\ i >= 1 /\ i <= h - l
      BY <1>1, <1>2, <1>4
    <2>2. CASE i <= m - l
      BY <1>1, <1>3, <1>4, <2>1, <2>2
    <2>3. CASE i > m - l
      <3> DEFINE j == i - (m - l)
      <3>1. j \in 1 .. h - m /\ i = Len(s) + j
        BY <1>1, <2>1, <2>3
      <3>2. w[i] = t[j]
        BY <1>2, <1>4, <3>1, Zenon
      <3>3. t[j] = m + j /\ m + j = l + i
        BY <1>2, <2>1, <3>1
      <3> QED BY <1>3, <2>1, <3>2, <3>3
    <2> QED BY <2>1, <2>2, <2>3
  <1>6. Len(w) = Len(u)
    BY <1>1, <1>2, <1>3, <1>4
  <1>7. w = u
    BY <1>3, <1>4, <1>5, <1>6, SameSeq
  <1> QED BY <1>7 DEF w, s, t, u

\* A span is extended by the next unit.
LEMMA SpanAppend ==
    ASSUME NEW l \in Nat, NEW h \in Nat, l <= h
    PROVE  Append(Span(l, h), h + 1) = Span(l, h + 1)
  <1> DEFINE s == Span(l, h)
             u == Span(l, h + 1)
             w == Append(s, h + 1)
  <1>1. s \in Seq(Nat) /\ Len(s) = h - l /\ \A i \in 1 .. h - l : s[i] = l + i
    BY SpanSeq
  <1>2. u \in Seq(Nat) /\ Len(u) = h + 1 - l /\ \A i \in 1 .. h + 1 - l : u[i] = l + i
    BY SpanSeq
  <1> HIDE DEF s, u
  <1>3. /\ w \in Seq(Nat) /\ Len(w) = Len(s) + 1 /\ w[Len(s) + 1] = h + 1
        /\ \A i \in 1 .. Len(s) : w[i] = s[i]
    BY <1>1
  <1> HIDE DEF w
  <1>4. \A i \in 1 .. Len(w) : w[i] = u[i]
    BY <1>1, <1>2, <1>3
  <1>5. w = u
    BY <1>1, <1>2, <1>3, <1>4, SameSeq
  <1> QED BY <1>5 DEF w, s, u

\* A span is cut in two.
LEMMA SpanCut ==
    ASSUME NEW l \in Nat, NEW h \in Nat, l <= h, NEW k \in 0 .. h - l
    PROVE  /\ SubSeq(Span(l, h), 1, k) = Span(l, l + k)
           /\ SubSeq(Span(l, h), k + 1, Len(Span(l, h))) = Span(l + k, h)
  <1> DEFINE s == Span(l, h)
             t == Span(l, l + k)
             u == Span(l + k, h)
             v == SubSeq(s, 1, k)
             w == SubSeq(s, k + 1, h - l)
  <1>1. s \in Seq(Nat) /\ Len(s) = h - l /\ \A i \in 1 .. h - l : s[i] = l + i
    BY SpanSeq
  <1>2. t \in Seq(Nat) /\ Len(t) = k /\ \A i \in 1 .. k : t[i] = l + i
    <2>1. l + k \in Nat /\ l <= l + k /\ (l + k) - l = k
      OBVIOUS
    <2> QED BY <2>1, SpanSeq
  <1>3. u \in Seq(Nat) /\ Len(u) = h - l - k /\ \A i \in 1 .. h - l - k : u[i] = l + k + i
    <2>1. l + k \in Nat /\ l + k <= h /\ h - (l + k) = h - l - k
      OBVIOUS
    <2> QED BY <2>1, SpanSeq
  <1> HIDE DEF s, t, u
  <1>4. v \in Seq(Nat) /\ Len(v) = k /\ \A i \in 1 .. k : v[i] = s[i]
    BY <1>1
  <1>5. /\ w \in Seq(Nat) /\ Len(w) = h - l - k
        /\ \A i \in 1 .. h - l - k : w[i] = s[k + i]
    BY <1>1
  <1> HIDE DEF v, w
  <1>6. v = t
    <2>1. \A i \in 1 .. Len(v) : v[i] = t[i]
      <3> SUFFICES ASSUME NEW i \in 1 .. Len(v) PROVE v[i] = t[i]
        OBVIOUS
      <3>1. i \in 1 .. k /\ i \in 1 .. h - l
        BY <1>4
      <3> QED BY <1>1, <1>2, <1>4, <3>1, Zenon
    <2> QED BY <1>2, <1>4, <2>1, SameSeq
  <1>7. w = u
    <2>1. \A i \in 1 .. Len(w) : w[i] = u[i]
      BY <1>1, <1>3, <1>5
    <2> QED BY <1>3, <1>5, <2>1, SameSeq
  <1> QED BY <1>1, <1>6, <1>7 DEF s, t, u, v, w

\* The first unit of a span, and the others.
LEMMA SpanHead ==
    ASSUME NEW l \in Nat, NEW h \in Nat, l < h
    PROVE  Head(Span(l, h)) = l + 1 /\ Tail(Span(l, h)) = Span(l + 1, h)
  <1> DEFINE s == Span(l, h)
             u == Span(l + 1, h)
             t == Tail(s)
  <1>1. s \in Seq(Nat) /\ Len(s) = h - l /\ \A i \in 1 .. h - l : s[i] = l + i
    BY SpanSeq
  <1>2. u \in Seq(Nat) /\ Len(u) = h - (l + 1) /\ \A i \in 1 .. h - (l + 1) : u[i] = l + 1 + i
    BY SpanSeq
  <1> HIDE DEF s, u
  <1>3. Head(s) = l + 1
    BY <1>1
  <1>4. t \in Seq(Nat) /\ Len(t) = Len(s) - 1 /\ \A i \in 1 .. Len(s) - 1 : t[i] = s[i + 1]
    BY <1>1
  <1> HIDE DEF t
  <1>5. t = u
    <2>1. \A i \in 1 .. Len(t) : t[i] = u[i]
      BY <1>1, <1>2, <1>4
    <2> QED BY <1>1, <1>2, <1>4, <2>1, SameSeq
  <1> QED BY <1>3, <1>5 DEF s, t, u

\* The app sends one more unit, or the upstream k more.
LEMMA KeptSend ==
    ASSUME NEW a, NEW b, NEW ch \in Seq(Seq(Nat)), NEW c, NEW n \in Nat, NEW k \in Nat,
           Kept(a, b, ch, c, n)
    PROVE  /\ Kept(a, b, ch, Append(c, n + 1), n + 1)
           /\ c = << >> => Kept(a, b, ch, Units(n, k), n + k)
  <1>1. PICK p \in 0 .. n, cut \in [0 .. Len(ch) -> 0 .. n] :
            /\ Chained(ch, cut, n)
            /\ p <= cut[0]
            /\ a = Span(0, p) /\ b = Span(p, cut[0]) /\ c = Span(cut[Len(ch)], n)
    BY DEF Kept
  <1> DEFINE L == Len(ch)
  <1>2. L \in Nat
    OBVIOUS
  <1>3. cut[L] \in Nat /\ cut[L] <= n
    BY <1>1, <1>2
  <1>4. ASSUME NEW m \in Nat, n <= m
        PROVE  p \in 0 .. m /\ cut \in [0 .. L -> 0 .. m] /\ Chained(ch, cut, m)
    <2>1. 0 .. n \subseteq 0 .. m
      BY <1>4
    <2>2. cut \in [0 .. L -> 0 .. m]
      BY <1>1, <2>1, Zenon
    <2>3. p \in 0 .. m
      BY <2>1, Zenon
    <2> QED BY <1>1, <2>2, <2>3 DEF Chained
  <1>5. Append(c, n + 1) = Span(cut[L], n + 1)
    BY <1>1, <1>3, SpanAppend, ZenonT(30)
  <1>6. c = << >> => cut[L] = n
    BY <1>1, <1>3, SpanSeq, ZenonT(30)
  <1>7. c = << >> => Units(n, k) = Span(cut[L], n + k)
    <2>1. Units(n, k) = Span(n, n + k)
      <3>1. n + k - n = k
        OBVIOUS
      <3> QED BY <3>1 DEF Span
    <2> QED BY <1>6, <2>1
  <1> HIDE DEF L
  <1>8. Kept(a, b, ch, Append(c, n + 1), n + 1)
    <2>1. n + 1 \in Nat /\ n <= n + 1
      OBVIOUS
    <2>2. p \in 0 .. n + 1 /\ cut \in [0 .. L -> 0 .. n + 1] /\ Chained(ch, cut, n + 1)
      BY <1>4, <2>1
    <2> QED BY <1>1, <1>5, <2>2, Zenon DEF Kept, L
  <1>9. c = << >> => Kept(a, b, ch, Units(n, k), n + k)
    <2>1. n + k \in Nat /\ n <= n + k
      OBVIOUS
    <2>2. p \in 0 .. n + k /\ cut \in [0 .. L -> 0 .. n + k] /\ Chained(ch, cut, n + k)
      BY <1>4, <2>1
    <2> QED BY <1>1, <1>7, <2>2, Zenon DEF Kept, L
  <1> QED BY <1>8, <1>9

\* A first part of what is held enters the channel, which has fewer chunks than the
\* stream has units.
LEMMA KeptEnter ==
    ASSUME NEW a, NEW b, NEW ch \in Seq(Seq(Nat)), NEW c, NEW n \in Nat,
           Kept(a, b, ch, c, n), NEW k \in 1 .. Len(c)
    PROVE  /\ Kept(a, b, Append(ch, SubSeq(c, 1, k)), SubSeq(c, k + 1, Len(c)), n)
           /\ Len(ch) < n
  <1>1. PICK p \in 0 .. n, cut \in [0 .. Len(ch) -> 0 .. n] :
            /\ Chained(ch, cut, n)
            /\ p <= cut[0]
            /\ a = Span(0, p) /\ b = Span(p, cut[0]) /\ c = Span(cut[Len(ch)], n)
    BY DEF Kept
  <1> DEFINE L == Len(ch)
             e == cut[L]
             d == SubSeq(c, 1, k)
             g == Append(ch, d)
             new == [i \in 0 .. L + 1 |-> IF i = L + 1 THEN e + k ELSE cut[i]]
  <1>2. L \in Nat /\ e \in Nat /\ e <= n
    BY <1>1
  <1>3. L <= e /\ \A i \in 0 .. L : cut[i] \in 0 .. n /\ i <= cut[i]
    <2>1. \A i \in 0 .. L : cut[i] \in 0 .. n /\ i <= cut[i]
      BY <1>1, Zenon DEF Chained
    <2>2. L \in 0 .. L
      BY <1>2
    <2> QED BY <2>1, <2>2
  <1>4. Len(c) = n - e
    BY <1>1, <1>2, SpanSeq, ZenonT(30)
  <1>5. k \in 0 .. n - e /\ k >= 1 /\ e + k \in 0 .. n /\ k \in Nat
    <2>1. k \in 1 .. n - e
      BY <1>4
    <2> HIDE DEF e
    <2> QED BY <1>2, <2>1
  <1>6. d = Span(e, e + k) /\ SubSeq(c, k + 1, Len(c)) = Span(e + k, n)
    BY <1>1, <1>2, <1>5, SpanCut, ZenonT(30)
  <1>7. /\ Len(g) = L + 1 /\ g[L + 1] = d
        /\ \A i \in 1 .. L : g[i] = ch[i]
    <2> HIDE DEF d
    <2> QED OBVIOUS
  <1>8. /\ \A i \in 1 .. L : cut[i - 1] < cut[i] /\ ch[i] = Span(cut[i - 1], cut[i])
    BY <1>1 DEF Chained
  <1>9. /\ new[L + 1] = e + k /\ \A i \in 0 .. L : new[i] = cut[i]
        /\ DOMAIN new = 0 .. L + 1 /\ new = [i \in 0 .. L + 1 |-> new[i]]
    BY <1>2
  <1>10. new[0] = cut[0] /\ new[L] = e
    BY <1>2, <1>9
  <1> HIDE DEF new, d, g, e
  <1>11. \A i \in 0 .. L + 1 : new[i] \in 0 .. n /\ i <= new[i]
    <2> SUFFICES ASSUME NEW i \in 0 .. L + 1 PROVE new[i] \in 0 .. n /\ i <= new[i]
      OBVIOUS
    <2>1. CASE i = L + 1
      BY <1>2, <1>3, <1>5, <1>9, <2>1
    <2>2. CASE i \in 0 .. L
      BY <1>3, <1>9, <2>2, Zenon
    <2> QED BY <1>2, <2>1, <2>2
  <1>12. \A i \in 1 .. L + 1 : new[i - 1] < new[i] /\ g[i] = Span(new[i - 1], new[i])
    <2> SUFFICES ASSUME NEW i \in 1 .. L + 1
                 PROVE  new[i - 1] < new[i] /\ g[i] = Span(new[i - 1], new[i])
      OBVIOUS
    <2>1. CASE i = L + 1
      <3>1. i - 1 = L
        BY <1>2, <2>1
      <3> QED BY <1>2, <1>5, <1>6, <1>7, <1>9, <1>10, <2>1, <3>1
    <2>2. CASE i \in 1 .. L
      <3>1. i - 1 \in 0 .. L /\ i \in 0 .. L
        BY <1>2, <2>2
      <3> QED BY <1>7, <1>8, <1>9, <2>2, <3>1, ZenonT(30)
    <2>3. i = L + 1 \/ i \in 1 .. L
      BY <1>2
    <2> QED BY <2>1, <2>2, <2>3, Zenon
  <1>13. new \in [0 .. Len(g) -> 0 .. n]
    BY <1>7, <1>9, <1>11
  <1>14. Chained(g, new, n)
    BY <1>7, <1>11, <1>12, <1>13 DEF Chained
  <1>15. Kept(a, b, g, SubSeq(c, k + 1, Len(c)), n)
    <2>1. SubSeq(c, k + 1, Len(c)) = Span(new[Len(g)], n)
      BY <1>6, <1>7, <1>9
    <2>2. p <= new[0] /\ b = Span(p, new[0])
      BY <1>1, <1>10
    <2> QED BY <1>1, <1>13, <1>14, <2>1, <2>2, Zenon DEF Kept
  <1>16. L < n
    BY <1>2, <1>3, <1>5
  <1> QED BY <1>15, <1>16 DEF g, d

\* The first chunk of the channel joins what is held behind it, and there is no more
\* of it than was sent.
LEMMA KeptLeave ==
    ASSUME NEW a, NEW b, NEW ch \in Seq(Seq(Nat)), NEW c, NEW n \in Nat,
           Kept(a, b, ch, c, n), ch # << >>
    PROVE  /\ Kept(a, b \o Head(ch), Tail(ch), c, n)
           /\ b \in Seq(Nat) /\ Head(ch) \in Seq(Nat) /\ Len(b) + Len(Head(ch)) <= n
  <1>1. PICK p \in 0 .. n, cut \in [0 .. Len(ch) -> 0 .. n] :
            /\ Chained(ch, cut, n)
            /\ p <= cut[0]
            /\ a = Span(0, p) /\ b = Span(p, cut[0]) /\ c = Span(cut[Len(ch)], n)
    BY ZenonT(30) DEF Kept
  <1> DEFINE L == Len(ch)
             g == Tail(ch)
             new == [i \in 0 .. L - 1 |-> cut[i + 1]]
  <1>2. L \in Nat /\ L >= 1
    OBVIOUS
  <1>3. \A i \in 0 .. L : cut[i] \in 0 .. n /\ i <= cut[i]
    BY <1>1 DEF Chained
  <1>4. \A i \in 1 .. L : cut[i - 1] < cut[i] /\ ch[i] = Span(cut[i - 1], cut[i])
    BY <1>1 DEF Chained
  <1>5. /\ cut[0] \in Nat /\ cut[1] \in Nat /\ cut[0] < cut[1] /\ cut[1] <= n
        /\ ch[1] = Span(cut[0], cut[1])
    <2>1. 0 \in 0 .. L /\ 1 \in 0 .. L /\ 1 \in 1 .. L /\ 1 - 1 = 0
      BY <1>2
    <2>2. cut[0] \in 0 .. n /\ cut[1] \in 0 .. n
      BY <1>3, <2>1
    <2>3. cut[0] < cut[1] /\ ch[1] = Span(cut[0], cut[1])
      BY <1>4, <2>1
    <2> QED BY <2>2, <2>3
  <1>6. Head(ch) = ch[1] /\ Len(g) = L - 1 /\ \A i \in 1 .. L - 1 : g[i] = ch[i + 1]
    OBVIOUS
  <1>7. b \o Head(ch) = Span(p, cut[1])
    <2>1. p \in Nat /\ p <= cut[0] /\ cut[0] <= cut[1]
      BY <1>1, <1>5
    <2>2. b \o Head(ch) = Span(p, cut[0]) \o Span(cut[0], cut[1])
      BY <1>1, <1>5, <1>6, Zenon
    <2>3. Span(p, cut[0]) \o Span(cut[0], cut[1]) = Span(p, cut[1])
      BY <1>5, <2>1, SpanJoin, Zenon
    <2> QED BY <2>2, <2>3
  <1>8. /\ \A i \in 0 .. L - 1 : new[i] = cut[i + 1]
        /\ DOMAIN new = 0 .. L - 1 /\ new = [i \in 0 .. L - 1 |-> new[i]]
    OBVIOUS
  <1> HIDE DEF new, g, L
  <1>9. new[0] = cut[1] /\ new[L - 1] = cut[L]
    <2>1. 0 \in 0 .. L - 1 /\ L - 1 \in 0 .. L - 1 /\ 0 + 1 = 1 /\ (L - 1) + 1 = L
      BY <1>2
    <2>2. new[0] = cut[0 + 1] /\ new[L - 1] = cut[(L - 1) + 1]
      BY <1>8, <2>1, ZenonT(30)
    <2> QED BY <2>1, <2>2
  <1>10. \A i \in 0 .. L - 1 : new[i] \in 0 .. n /\ i <= new[i]
    <2> SUFFICES ASSUME NEW i \in 0 .. L - 1 PROVE new[i] \in 0 .. n /\ i <= new[i]
      OBVIOUS
    <2>1. i + 1 \in 0 .. L
      BY <1>2
    <2>2. cut[i + 1] \in 0 .. n /\ i + 1 <= cut[i + 1] /\ new[i] = cut[i + 1]
      BY <1>3, <1>8, <2>1
    <2> QED BY <2>2
  <1>11. \A i \in 1 .. L - 1 : new[i - 1] < new[i] /\ g[i] = Span(new[i - 1], new[i])
    <2> SUFFICES ASSUME NEW i \in 1 .. L - 1
                 PROVE  new[i - 1] < new[i] /\ g[i] = Span(new[i - 1], new[i])
      OBVIOUS
    <2>1. /\ i + 1 \in 1 .. L /\ i \in 0 .. L - 1 /\ i - 1 \in 0 .. L - 1
          /\ (i + 1) - 1 = i /\ (i - 1) + 1 = i
      BY <1>2
    <2>2. new[i] = cut[i + 1] /\ new[i - 1] = cut[(i - 1) + 1]
      BY <1>8, <2>1
    <2>3. cut[(i + 1) - 1] < cut[i + 1] /\ ch[i + 1] = Span(cut[(i + 1) - 1], cut[i + 1])
      BY <1>4, <2>1
    <2>4. g[i] = ch[i + 1]
      BY <1>6
    <2> QED BY <2>1, <2>2, <2>3, <2>4
  <1>12. new \in [0 .. Len(g) -> 0 .. n]
    BY <1>6, <1>8, <1>10
  <1>13. Chained(g, new, n)
    BY <1>6, <1>10, <1>11, <1>12 DEF Chained
  <1>14. Kept(a, b \o Head(ch), g, c, n)
    <2>1. c = Span(new[Len(g)], n)
      BY <1>1, <1>6, <1>9 DEF L
    <2>2. p <= new[0] /\ b \o Head(ch) = Span(p, new[0])
      <3>1. p <= cut[1]
        BY <1>1, <1>5
      <3> QED BY <1>7, <1>9, <3>1, Zenon
    <2> QED BY <1>1, <1>12, <1>13, <2>1, <2>2, Zenon DEF Kept
  <1>15. /\ b \in Seq(Nat) /\ Len(b) = cut[0] - p
         /\ Head(ch) \in Seq(Nat) /\ Len(Head(ch)) = cut[1] - cut[0]
    <2>1. p \in Nat /\ cut[0] <= cut[1]
      BY <1>5
    <2>2. Span(p, cut[0]) \in Seq(Nat) /\ Len(Span(p, cut[0])) = cut[0] - p
      BY <1>1, <1>5, <2>1, SpanSeq, Zenon
    <2>3. /\ Span(cut[0], cut[1]) \in Seq(Nat)
          /\ Len(Span(cut[0], cut[1])) = cut[1] - cut[0]
      BY <1>5, <2>1, SpanSeq, Zenon
    <2> QED BY <1>1, <1>5, <1>6, <2>2, <2>3, Zenon
  <1>16. Len(b) + Len(Head(ch)) <= n
    <2> DEFINE x == Head(ch)
    <2>1. Len(b) = cut[0] - p /\ Len(x) = cut[1] - cut[0] /\ p \in Nat
      BY <1>15
    <2> HIDE DEF x
    <2>2. Len(b) + Len(x) <= n
      BY <1>5, <2>1
    <2> QED BY <2>2 DEF x
  <1> QED BY <1>14, <1>15, <1>16 DEF g

\* All that is held enters the channel.
LEMMA KeptEnterWhole ==
    ASSUME NEW a, NEW b, NEW ch \in Seq(Seq(Nat)), NEW c \in Seq(Nat), NEW n \in Nat,
           Kept(a, b, ch, c, n), c # << >>
    PROVE  Kept(a, b, Append(ch, c), << >>, n)
  <1> DEFINE k == Len(c)
  <1>1. k \in 1 .. Len(c) /\ SubSeq(c, 1, k) = c /\ SubSeq(c, k + 1, Len(c)) = << >>
    OBVIOUS
  <1>2. Kept(a, b, Append(ch, SubSeq(c, 1, k)), SubSeq(c, k + 1, Len(c)), n)
    BY <1>1, KeptEnter
  <1> QED BY <1>1, <1>2, Zenon

\* What is held behind the channel is delivered, all of it or its first unit.
LEMMA KeptDeliver ==
    ASSUME NEW a, NEW b, NEW ch \in Seq(Seq(Nat)), NEW c, NEW n \in Nat,
           Kept(a, b, ch, c, n)
    PROVE  /\ Kept(a \o b, << >>, ch, c, n)
           /\ b # << >> => Kept(Append(a, Head(b)), Tail(b), ch, c, n)
  <1>1. PICK p \in 0 .. n, cut \in [0 .. Len(ch) -> 0 .. n] :
            /\ Chained(ch, cut, n)
            /\ p <= cut[0]
            /\ a = Span(0, p) /\ b = Span(p, cut[0]) /\ c = Span(cut[Len(ch)], n)
    BY DEF Kept
  <1> DEFINE q == cut[0]
  <1>2. p \in Nat /\ q \in 0 .. n /\ q \in Nat /\ 0 <= p /\ p <= q /\ q <= q
    <2>1. 0 \in 0 .. Len(ch)
      OBVIOUS
    <2> QED BY <1>1, <2>1
  <1>3. a = Span(0, p) /\ b = Span(p, q)
    BY <1>1
  <1>4. Kept(a \o b, << >>, ch, c, n)
    <2>1. a \o b = Span(0, q)
      BY <1>2, <1>3, SpanJoin
    <2>2. << >> = Span(q, q)
      BY <1>2, SpanSeq, Zenon
    <2> QED BY <1>1, <1>2, <2>1, <2>2, Zenon DEF Kept
  <1>5. ASSUME b # << >> PROVE Kept(Append(a, Head(b)), Tail(b), ch, c, n)
    <2>1. p # q
      BY <1>2, <1>3, <1>5, SpanSeq
    <2> HIDE DEF q
    <2>2. p < q /\ p + 1 \in 0 .. n /\ p + 1 <= q
      BY <1>2, <2>1
    <2>3. Head(b) = p + 1 /\ Tail(b) = Span(p + 1, q)
      BY <1>2, <1>3, <2>2, SpanHead
    <2>4. Append(a, Head(b)) = Span(0, p + 1)
      BY <1>2, <1>3, <2>3, SpanAppend, Zenon
    <2> QED BY <1>1, <2>2, <2>3, <2>4, Zenon DEF Kept, q
  <1> QED BY <1>4, <1>5

\* A set of numbers has a least one.
LEMMA Least ==
    ASSUME NEW T \in SUBSET Nat, T # {}
    PROVE  \E x \in T : \A y \in T : ~(y < x)
  <1> DEFINE R == OpToRel(<, Nat)
  <1>1. IsWellFoundedOn(R, Nat)
    BY NatLessThanWellFounded
  <1>2. \A x, y \in Nat : <<x, y>> \in R <=> x < y
    BY DEF OpToRel
  <1> HIDE DEF R
  <1>3. PICK x \in T : \A y \in T : ~(<<y, x>> \in R)
    BY <1>1, WFMin, Zenon
  <1> QED BY <1>2, <1>3, Zenon

\* Chunks end later and later: the first to end before the channel begins would
\* follow one that does.
LEMMA ChainGrows ==
    ASSUME NEW ch \in Seq(Seq(Nat)), NEW n \in Nat, NEW cut, Chained(ch, cut, n)
    PROVE  \A i \in 0 .. Len(ch) : cut[0] <= cut[i]
  <1> DEFINE L == Len(ch)
             bad == {i \in 0 .. L : ~(cut[0] <= cut[i])}
  <1>1. L \in Nat
    OBVIOUS
  <1>2. \A i \in 0 .. L : cut[i] \in Nat
    <2>1. \A i \in 0 .. L : cut[i] \in 0 .. n
      BY Zenon DEF Chained
    <2> QED BY <2>1
  <1>3. \A i \in 1 .. L : cut[i - 1] < cut[i]
    BY DEF Chained
  <1> HIDE DEF L
  <1>4. SUFFICES ASSUME bad # {} PROVE FALSE
    BY DEF L
  <1>5. bad \in SUBSET Nat
    OBVIOUS
  <1>6. PICK x \in bad : \A y \in bad : ~(y < x)
    BY <1>4, <1>5, Least, ZenonT(30)
  <1>7. x \in 0 .. L /\ ~(cut[0] <= cut[x])
    OBVIOUS
  <1>8. 0 \in 0 .. L /\ cut[0] \in Nat /\ cut[x] \in Nat
    BY <1>1, <1>2, <1>7
  <1>9. x # 0
    BY <1>7, <1>8
  <1>10. x \in 1 .. L /\ x - 1 \in 0 .. L /\ x - 1 < x
    BY <1>1, <1>7, <1>9
  <1>11. cut[x - 1] < cut[x] /\ cut[x - 1] \in Nat
    BY <1>2, <1>3, <1>10
  <1>12. ~(cut[0] <= cut[x - 1])
    BY <1>7, <1>8, <1>11
  <1>13. x - 1 \in bad
    BY <1>10, <1>12
  <1> QED BY <1>6, <1>10, <1>13

\* The chunks put together.
LEMMA Flattened ==
    ASSUME NEW ch \in Seq(Seq(Nat)), NEW n \in Nat, NEW cut, Chained(ch, cut, n)
    PROVE  Flat(ch) = Span(cut[0], cut[Len(ch)])
  <1> DEFINE L == Len(ch)
             all(f) == f = [i \in 1 .. L |-> IF i = 1 THEN ch[i] ELSE f[i - 1] \o ch[i]]
             g == [i \in 1 .. L |-> Span(cut[0], cut[i])]
             f == CHOOSE h : all(h)
  <1>1. L \in Nat
    OBVIOUS
  <1>2. \A i \in 0 .. L : cut[i] \in Nat
    <2>1. \A i \in 0 .. L : cut[i] \in 0 .. n
      BY Zenon DEF Chained
    <2> QED BY <2>1
  <1>3. \A i \in 1 .. L : cut[i - 1] < cut[i] /\ ch[i] = Span(cut[i - 1], cut[i])
    BY DEF Chained
  <1>4. CASE L = 0
    <2>1. Flat(ch) = << >>
      BY <1>4 DEF Flat
    <2>2. cut[0] \in Nat /\ cut[0] <= cut[0]
      BY <1>1, <1>2
    <2>3. Span(cut[0], cut[0]) = << >>
      BY <2>2, SpanSeq, Zenon
    <2> QED BY <1>4, <2>1, <2>3
  <1>5. CASE L # 0
    <2>1. Flat(ch) = f[L]
      BY <1>5 DEF Flat
    <2> HIDE DEF L
    <2>2. ASSUME NEW i \in 2 .. L, cut[0] <= cut[i - 1]
          PROVE  Span(cut[0], cut[i - 1]) \o ch[i] = Span(cut[0], cut[i])
      <3>1. 0 \in 0 .. L /\ i \in 0 .. L /\ i - 1 \in 0 .. L /\ i \in 1 .. L
        BY <1>1
      <3>2. cut[0] \in Nat /\ cut[i] \in Nat /\ cut[i - 1] \in Nat
        BY <1>2, <3>1
      <3>3. cut[i - 1] <= cut[i] /\ ch[i] = Span(cut[i - 1], cut[i])
        BY <1>3, <3>1, <3>2
      <3>4. Span(cut[0], cut[i - 1]) \o Span(cut[i - 1], cut[i]) = Span(cut[0], cut[i])
        BY <2>2, <3>2, <3>3, SpanJoin, Zenon
      <3> QED BY <3>3, <3>4
    <2> DEFINE bad == {i \in 1 .. L : f[i] # g[i]}
    <2>4. \A i \in 1 .. L : cut[0] <= cut[i]
      BY ChainGrows DEF L
    <2>5. ch[1] = Span(cut[0], cut[1])
      <3>1. 1 \in 1 .. L /\ 1 - 1 = 0
        BY <1>1, <1>5
      <3>2. ch[1] = Span(cut[1 - 1], cut[1])
        BY <1>3, <3>1
      <3> QED BY <3>1, <3>2
    <2>6. all(g)
      <3>1. ASSUME NEW i \in 1 .. L
            PROVE  g[i] = IF i = 1 THEN ch[i] ELSE g[i - 1] \o ch[i]
        <4>1. CASE i = 1
          BY <2>5, <4>1
        <4>2. CASE i # 1
          <5>1. i \in 2 .. L /\ i - 1 \in 1 .. L
            BY <1>1, <4>2
          <5>2. g[i - 1] = Span(cut[0], cut[i - 1]) /\ g[i] = Span(cut[0], cut[i])
            BY <5>1
          <5>3. Span(cut[0], cut[i - 1]) \o ch[i] = Span(cut[0], cut[i])
            BY <2>2, <2>4, <5>1, Zenon
          <5> HIDE DEF g
          <5> QED BY <4>2, <5>2, <5>3
        <4> QED BY <4>1, <4>2
      <3>2. g = [i \in 1 .. L |-> g[i]]
        OBVIOUS
      <3> HIDE DEF g
      <3> QED BY <3>1, <3>2, Zenon
    <2>7. all(f)
      BY <2>6, Zenon
    <2> HIDE DEF f
    <2>8. \A i \in 1 .. L : f[i] = IF i = 1 THEN ch[i] ELSE f[i - 1] \o ch[i]
      BY <2>7, Zenon
    <2>9. \A i \in 1 .. L : g[i] = IF i = 1 THEN ch[i] ELSE g[i - 1] \o ch[i]
      BY <2>6, Zenon
    <2> HIDE DEF g
    <2>10. \A i \in 1 .. L : f[i] = g[i]
      <3> SUFFICES ASSUME bad # {} PROVE FALSE
        OBVIOUS
      <3>1. bad \in SUBSET Nat
        OBVIOUS
      <3>2. PICK x \in bad : \A y \in bad : ~(y < x)
        BY <3>1, Least, ZenonT(30)
      <3>3. x \in 1 .. L /\ f[x] # g[x]
        OBVIOUS
      <3>4. x # 1
        BY <2>8, <2>9, <3>3
      <3>5. x - 1 \in 1 .. L /\ x - 1 < x
        BY <1>1, <3>3, <3>4
      <3>6. f[x - 1] = g[x - 1]
        BY <3>2, <3>5
      <3> QED BY <2>8, <2>9, <3>3, <3>4, <3>6
    <2>11. L \in 1 .. L
      BY <1>1, <1>5
    <2>12. f[L] = g[L] /\ g[L] = Span(cut[0], cut[L])
      BY <2>10, <2>11 DEF g
    <2> QED BY <2>1, <2>12 DEF L
  <1> QED BY <1>4, <1>5

\* A pipe that has lost nothing holds what was sent.
LEMMA KeptAll ==
    ASSUME NEW a, NEW b, NEW ch \in Seq(Seq(Nat)), NEW c, NEW n \in Nat,
           Kept(a, b, ch, c, n)
    PROVE  a \o b \o Flat(ch) \o c = Units(0, n)
  <1>1. PICK p \in 0 .. n, cut \in [0 .. Len(ch) -> 0 .. n] :
            /\ Chained(ch, cut, n)
            /\ p <= cut[0]
            /\ a = Span(0, p) /\ b = Span(p, cut[0]) /\ c = Span(cut[Len(ch)], n)
    BY DEF Kept
  <1> DEFINE q == cut[0]
             e == cut[Len(ch)]
  <1>2. 0 \in 0 .. Len(ch) /\ Len(ch) \in 0 .. Len(ch)
    OBVIOUS
  <1>3. Flat(ch) = Span(q, e)
    BY <1>1, Flattened
  <1>4. p \in Nat /\ q \in Nat /\ e \in Nat /\ p <= q /\ e <= n
    <2>1. q \in 0 .. n /\ e \in 0 .. n
      BY <1>2, Zenon
    <2>2. p <= q
      BY <1>1
    <2> HIDE DEF q, e
    <2> QED BY <2>1, <2>2
  <1>5. q <= e
    BY <1>1, ChainGrows
  <1> HIDE DEF q, e
  <1>6. 0 \in Nat /\ 0 <= p /\ 0 <= q /\ 0 <= e
    BY <1>4
  <1>7. Span(0, p) \o Span(p, q) = Span(0, q)
    BY <1>4, <1>6, SpanJoin, Zenon
  <1>8. Span(0, q) \o Span(q, e) = Span(0, e)
    BY <1>4, <1>5, <1>6, SpanJoin, ZenonT(30)
  <1>9. Span(0, e) \o Span(e, n) = Span(0, n)
    BY <1>4, <1>6, SpanJoin, ZenonT(30)
  <1>10. Span(0, n) = Units(0, n)
    <2>1. n - 0 = n
      OBVIOUS
    <2> QED BY <2>1 DEF Span
  <1> QED BY <1>1, <1>3, <1>7, <1>8, <1>9, <1>10, Zenon DEF q, e

\* A half of the relay holds a chunk only while it passes it on; the halves start
\* together.
BusyOK ==
    /\ up.at = "connecting" => down.at = "connecting"
    /\ up.at # "write" => up.data = << >>
    /\ (down.at = "send") <=> (down.data # << >>)

UpFits == sent.app <= CHANNEL_CAP /\ tcp # "Gone" /\ up.at \notin {"shutdown", "done"}
DownFits == sent.up <= SOCK_BUF /\ tcp # "Gone"

KeptInv ==
    /\ BusyOK
    /\ UpFits => Kept(up_got, up.data, up_ch, rx, sent.app)
    /\ DownFits => Kept(app_got, tx, down_ch, down.data, sent.up)

\* Traffic that does not fit, and a connection torn down, stay so.
LEMMA FitsStep ==
    ASSUME RelayInv, Next
    PROVE  (UpFits' => UpFits) /\ (DownFits' => DownFits)
  <1>1. /\ LabelsOK /\ sent.app \in Nat /\ sent.up \in Nat
        /\ CHANNEL_CAP \in Nat /\ SOCK_BUF \in Nat
    BY CapsAssumption DEF RelayInv, LabelsOK
  <1>2. sent'.app \in Nat /\ sent'.up \in Nat /\ sent.app <= sent'.app /\ sent.up <= sent'.up
    <2>1. CASE app_send
      BY <1>1, <2>1 DEF app_send, LabelsOK
    <2>2. CASE down_read
      BY <1>1, <2>2, CapsAssumption DEF down_read, LabelsOK
    <2>3. CASE ~app_send /\ ~down_read
      <3>1. sent' = sent
        BY <2>3 DEF Next, AppTask, PollTask, UpTask, DownTask, app_ack, app_fin, app_reset,
                    service_begin, service_recv, service_send, service_close, relay_connect,
                    up_recv, up_write, up_shutdown, down_send, upstream_ends
      <3> QED BY <1>1, <3>1
    <2> QED BY <2>1, <2>2, <2>3
  <1>3. tcp = "Gone" => tcp' = "Gone"
    BY DEF Next, AppTask, PollTask, UpTask, DownTask, app_send, app_ack, app_fin, app_reset,
           service_begin, service_recv, service_send, service_close, relay_connect,
           up_recv, up_write, up_shutdown, down_read, down_send, upstream_ends, MayReceive,
           CanSend, sockVars
  <1>4. up.at \in {"shutdown", "done"} => up'.at \in {"shutdown", "done"}
    <2>1. CASE UpTask \/ relay_connect
      BY <2>1, AtFact DEF UpTask, up_recv, up_write, up_shutdown, relay_connect
    <2>2. CASE ~UpTask /\ ~relay_connect
      BY <2>2 DEF Next, AppTask, PollTask, DownTask, app_send, app_ack, app_fin, app_reset,
                  service_begin, service_recv, service_send, service_close, down_read,
                  down_send, upstream_ends
    <2> QED BY <2>1, <2>2
  <1> QED BY <1>1, <1>2, <1>3, <1>4 DEF UpFits, DownFits

\* The halves of the relay, step by step.
LEMMA BusyStep == RelayInv /\ BusyOK /\ [Next]_vars => BusyOK'
  <1> SUFFICES ASSUME RelayInv, BusyOK, [Next]_vars PROVE BusyOK'
    OBVIOUS
  <1>1. CASE relay_connect
    BY <1>1, AtFact DEF relay_connect, BusyOK
  <1>2. CASE UpTask
    BY <1>2, AtFact DEF UpTask, up_recv, up_write, up_shutdown, BusyOK
  <1>3. CASE down_send
    BY <1>3, AtFact DEF down_send, BusyOK
  <1>4. CASE down_read
    <2>1. UNCHANGED up /\ up.at # "connecting"
      BY <1>4 DEF down_read, BusyOK
    <2>2. CASE down' = At("done")
      BY <2>1, <2>2, AtFact DEF BusyOK
    <2>3. ASSUME NEW n \in 1 .. MaxDown - sent.up,
                 down' = [at |-> "send", data |-> Units(sent.up, n)]
          PROVE  BusyOK'
      <3> DEFINE u == Units(sent.up, n)
      <3>1. sent.up \in Nat /\ n \in Nat /\ n >= 1
        BY CapsAssumption DEF RelayInv, LabelsOK
      <3>2. DOMAIN u = 1 .. n
        BY DEF Units
      <3>3. 1 \in 1 .. n
        BY <3>1
      <3> HIDE DEF u
      <3>4. u # << >>
        BY <3>2, <3>3
      <3>5. down'.at = "send" /\ down'.data = u
        BY <2>3 DEF u
      <3> QED BY <2>1, <3>4, <3>5 DEF BusyOK
    <2> QED BY <1>4, <2>2, <2>3 DEF down_read
  <1>5. CASE ~relay_connect /\ ~UpTask /\ ~down_send /\ ~down_read
    <2>1. UNCHANGED <<up, down>>
      BY <1>5 DEF Next, AppTask, PollTask, DownTask, app_send, app_ack, app_fin, app_reset,
                  service_begin, service_recv, service_send, service_close, upstream_ends,
                  vars
    <2> QED BY <2>1 DEF BusyOK
  <1> QED BY <1>1, <1>2, <1>3, <1>4, <1>5

\* The way up.
LEMMA UpKeptStep ==
    ASSUME RelayInv, KeptInv, Next, UpFits'
    PROVE  Kept(up_got, up.data, up_ch, rx, sent.app)'
  <1>1. /\ UpFits /\ Kept(up_got, up.data, up_ch, rx, sent.app) /\ BusyOK
        /\ sent.app \in Nat /\ sent.app <= CHANNEL_CAP /\ LabelsOK
    BY FitsStep DEF KeptInv, UpFits, RelayInv, LabelsOK
  <1>2. /\ rx \in Seq(Nat) /\ up_ch \in Seq(Seq(Nat)) /\ up.data \in Seq(Nat)
        /\ up_got \in Seq(Nat)
    BY Numbers, CapsAssumption DEF RelayInv, UpOK
  <1>3. tcp' # "Gone" /\ up'.at \notin {"shutdown", "done"} /\ up.at \notin {"shutdown", "done"}
    BY <1>1 DEF UpFits
  <1>4. CASE app_send
    <2>1. /\ sent'.app = sent.app + 1 /\ rx' = Append(rx, sent.app + 1)
          /\ UNCHANGED <<up_ch, up, up_got>>
      BY <1>1, <1>4 DEF app_send, LabelsOK
    <2>2. Kept(up_got, up.data, up_ch, Append(rx, sent.app + 1), sent.app + 1)
      BY <1>1, <1>2, KeptSend, Zenon
    <2> QED BY <2>1, <2>2
  <1>5. CASE service_begin
    <2>1. UNCHANGED <<up_ch, up, up_got, sent, rx>>
      BY <1>3, <1>5 DEF service_begin, sockVars
    <2> QED BY <1>1, <2>1
  <1>6. CASE service_recv
    <2>1. UNCHANGED <<up, up_got, sent>>
      BY <1>6 DEF service_recv
    <2>2. ASSUME NEW n \in 1 .. Len(rx), Deliver(SubSeq(rx, 1, n)),
                 rx' = SubSeq(rx, n + 1, Len(rx))
          PROVE  Kept(up_got, up.data, up_ch, rx, sent.app)'
      <3>1. /\ Kept(up_got, up.data, Append(up_ch, SubSeq(rx, 1, n)),
                    SubSeq(rx, n + 1, Len(rx)), sent.app)
            /\ Len(up_ch) < sent.app
        BY <1>1, <1>2, KeptEnter, ZenonT(30)
      <3>2. Len(up_ch) < CHANNEL_CAP /\ ~ReceiverDropped
        BY <1>1, <1>2, <1>3, <3>1, CapsAssumption DEF ReceiverDropped
      <3>3. up_ch' = Append(up_ch, SubSeq(rx, 1, n))
        BY <2>2, <3>2 DEF Deliver
      <3> QED BY <2>1, <2>2, <3>1, <3>3
    <2>3. CASE UNCHANGED <<rx, up_ch>>
      BY <1>1, <2>1, <2>3
    <2> QED BY <1>6, <2>2, <2>3 DEF service_recv
  <1>7. CASE relay_connect
    <2>1. UNCHANGED <<rx, up_got, sent, up_ch>> /\ up'.data = << >> /\ up.data = << >>
      BY <1>1, <1>3, <1>7, AtFact DEF relay_connect, sockVars, BusyOK
    <2> QED BY <1>1, <2>1
  <1>8. CASE up_recv
    <2>1. UNCHANGED <<rx, up_got, sent>> /\ up.data = << >>
      BY <1>1, <1>8 DEF up_recv, sockVars, BusyOK
    <2>2. up_ch # << >> /\ up'.data = Head(up_ch) /\ up_ch' = Tail(up_ch)
      BY <1>3, <1>8, AtFact DEF up_recv
    <2>3. /\ Kept(up_got, up.data \o Head(up_ch), Tail(up_ch), rx, sent.app)
          /\ Head(up_ch) \in Seq(Nat)
      BY <1>1, <1>2, <2>2, KeptLeave
    <2>4. up.data \o Head(up_ch) = Head(up_ch)
      <3> DEFINE x == Head(up_ch)
      <3>1. x \in Seq(Nat)
        BY <2>3
      <3> HIDE DEF x
      <3>2. << >> \o x = x
        BY <3>1
      <3> QED BY <2>1, <3>2 DEF x
    <2> QED BY <2>1, <2>2, <2>3, <2>4
  <1>9. CASE up_write
    <2>1. UNCHANGED <<rx, up_ch, sent>> /\ up'.data = << >> /\ up_got' = up_got \o up.data
      BY <1>3, <1>9, AtFact DEF up_write, sockVars
    <2>2. Kept(up_got \o up.data, << >>, up_ch, rx, sent.app)
      BY <1>1, <1>2, KeptDeliver
    <2> QED BY <2>1, <2>2
  <1>10. CASE up_shutdown
    BY <1>3, <1>10 DEF up_shutdown
  <1>11. CASE \/ app_ack \/ app_fin \/ app_reset \/ service_send \/ service_close \/ DownTask
              \/ (\E how \in {"closed", "broken"} : upstream_ends(how))
    <2>1. UNCHANGED <<rx, up_ch, up, up_got>> /\ sent'.app = sent.app
      BY <1>1, <1>11
         DEF app_ack, app_fin, app_reset, service_send, service_close, DownTask, down_read,
             down_send, upstream_ends, sockVars, LabelsOK
    <2> QED BY <1>1, <2>1
  <1> QED
    BY <1>4, <1>5, <1>6, <1>7, <1>8, <1>9, <1>10, <1>11 DEF Next, AppTask, PollTask, UpTask

\* The way down.
LEMMA DownKeptStep ==
    ASSUME RelayInv, KeptInv, Next, DownFits'
    PROVE  Kept(app_got, tx, down_ch, down.data, sent.up)'
  <1>1. /\ DownFits /\ Kept(app_got, tx, down_ch, down.data, sent.up) /\ BusyOK
        /\ sent.up \in Nat /\ sent.up <= SOCK_BUF /\ LabelsOK
    BY FitsStep DEF KeptInv, DownFits, RelayInv, LabelsOK
  <1>2. /\ tx \in Seq(Nat) /\ down_ch \in Seq(Seq(Nat)) /\ down.data \in Seq(Nat)
        /\ app_got \in Seq(Nat)
    BY Numbers, CapsAssumption DEF RelayInv, DownOK
  <1>3. tcp' # "Gone" /\ tcp # "Gone"
    BY <1>1 DEF DownFits
  <1>4. CASE app_ack
    <2>1. /\ tx # << >> /\ tx' = Tail(tx) /\ app_got' = Append(app_got, Head(tx))
          /\ UNCHANGED <<down_ch, down, sent>>
      BY <1>4 DEF app_ack
    <2>2. Kept(Append(app_got, Head(tx)), Tail(tx), down_ch, down.data, sent.up)
      BY <1>1, <1>2, <2>1, KeptDeliver, Zenon
    <2> QED BY <2>1, <2>2
  <1>5. CASE service_begin
    <2>1. UNCHANGED <<tx, down_ch, down, app_got, sent>>
      BY <1>3, <1>5 DEF service_begin, sockVars
    <2> QED BY <1>1, <2>1
  <1>6. CASE service_send
    <2>1. UNCHANGED <<down, app_got, sent>>
      BY <1>6 DEF service_send
    <2>2. CASE UNCHANGED <<tx, down_ch>>
      BY <1>1, <2>1, <2>2
    <2>3. CASE CanSend /\ down_ch # << >> /\ SendSlice(Head(down_ch)) /\ down_ch' = Tail(down_ch)
      <3> DEFINE x == Head(down_ch)
                 m == IF Len(x) < SOCK_BUF - Len(tx) THEN Len(x) ELSE SOCK_BUF - Len(tx)
      <3>1. /\ Kept(app_got, tx \o x, Tail(down_ch), down.data, sent.up)
            /\ x \in Seq(Nat) /\ Len(tx) + Len(x) <= sent.up
        BY <1>1, <1>2, <2>3, KeptLeave
      <3>2. tx' = tx \o SubSeq(x, 1, m)
        BY <2>3 DEF SendSlice
      <3> HIDE DEF x
      <3>3. m = Len(x)
        BY <1>1, <1>2, <3>1, CapsAssumption
      <3> HIDE DEF m
      <3>4. SubSeq(x, 1, m) = x
        BY <3>1, <3>3
      <3> QED BY <2>1, <2>3, <3>1, <3>2, <3>4, ZenonT(30)
    <2> QED BY <1>6, <2>2, <2>3 DEF service_send
  <1>7. CASE relay_connect
    <2>1. /\ UNCHANGED <<tx, down_ch, app_got, sent>> /\ down'.data = << >>
          /\ up.at = "connecting"
      BY <1>7, AtFact DEF relay_connect, sockVars
    <2>2. down.data = << >>
      BY <1>1, <2>1 DEF BusyOK
    <2> QED BY <1>1, <2>1, <2>2
  <1>8. CASE down_read
    <2>1. UNCHANGED <<tx, down_ch, app_got>> /\ down.data = << >>
      BY <1>1, <1>8 DEF down_read, sockVars, BusyOK
    <2>2. ASSUME NEW n \in 1 .. MaxDown - sent.up, down'.data = Units(sent.up, n),
                 sent' = [sent EXCEPT !.up = @ + n]
          PROVE  Kept(app_got, tx, down_ch, down.data, sent.up)'
      <3>1. sent'.up = sent.up + n /\ n \in Nat
        BY <1>1, <2>2, CapsAssumption DEF LabelsOK
      <3>2. Kept(app_got, tx, down_ch, Units(sent.up, n), sent.up + n)
        BY <1>1, <1>2, <2>1, <3>1, KeptSend, ZenonT(30)
      <3> QED BY <2>1, <2>2, <3>1, <3>2
    <2>3. CASE down'.data = << >> /\ UNCHANGED sent
      BY <1>1, <2>1, <2>3
    <2> QED BY <1>8, <2>2, <2>3, AtFact DEF down_read
  <1>9. CASE down_send
    <2>1. /\ UNCHANGED <<tx, app_got, sent>> /\ down'.data = << >> /\ down.data # << >>
          /\ down_ch' = Append(down_ch, down.data)
      BY <1>1, <1>3, <1>9, AtFact DEF down_send, sockVars, BusyOK
    <2>2. Kept(app_got, tx, Append(down_ch, down.data), << >>, sent.up)
      BY <1>1, <1>2, <2>1, KeptEnterWhole
    <2> QED BY <2>1, <2>2
  <1>10. CASE \/ app_send \/ app_fin \/ app_reset \/ service_recv \/ service_close \/ UpTask
              \/ (\E how \in {"closed", "broken"} : upstream_ends(how))
    <2>1. UNCHANGED <<tx, down_ch, down, app_got>> /\ sent'.up = sent.up
      BY <1>1, <1>10
         DEF app_send, app_fin, app_reset, service_recv, service_close, UpTask, up_recv,
             up_write, up_shutdown, upstream_ends, sockVars, LabelsOK
    <2> QED BY <1>1, <2>1
  <1> QED
    BY <1>4, <1>5, <1>6, <1>7, <1>8, <1>9, <1>10 DEF Next, AppTask, PollTask, DownTask

\* As long as the app has sent no more than the channel has places for, or the
\* upstream no more than the socket buffer holds, nothing of it is lost on the way
\* while the connection lasts: service_socket always finds room for what it moves
\* (stack.rs:196-236, runner.rs:386-409).
THEOREM RelayKeeps == Spec => []FittingIsKept
  <1>1. Init => KeptInv
    <2> SUFFICES ASSUME Init PROVE KeptInv
      OBVIOUS
    <2>1. /\ rx = << >> /\ up_ch = << >> /\ up_got = << >> /\ up.data = << >>
          /\ tx = << >> /\ down_ch = << >> /\ app_got = << >> /\ down.data = << >>
          /\ sent.app = 0 /\ sent.up = 0 /\ up.at = "connecting" /\ down.at = "connecting"
      BY AtFact DEF Init
    <2>2. Kept(<< >>, << >>, << >>, << >>, 0)
      <3> DEFINE cut == [i \in {0} |-> 0]
      <3>1. << >> = Span(0, 0)
        BY SpanSeq
      <3>2. 0 .. Len(<< >>) = {0} /\ 0 .. 0 = {0} /\ Len(<< >>) = 0 /\ 1 .. Len(<< >>) = {}
        OBVIOUS
      <3>3. cut \in [0 .. Len(<< >>) -> 0 .. 0] /\ cut[0] = 0
        BY <3>2
      <3> HIDE DEF cut
      <3>4. Chained(<< >>, cut, 0)
        BY <3>2, <3>3 DEF Chained
      <3>5. 0 \in 0 .. 0 /\ 0 <= 0
        OBVIOUS
      <3> QED BY <3>1, <3>2, <3>3, <3>4, <3>5 DEF Kept
    <2> QED BY <2>1, <2>2 DEF KeptInv, BusyOK
  <1>2. RelayInv /\ KeptInv /\ [Next]_vars => KeptInv'
    <2> SUFFICES ASSUME RelayInv, KeptInv, [Next]_vars PROVE KeptInv'
      OBVIOUS
    <2>1. BusyOK'
      BY BusyStep DEF KeptInv
    <2>2. CASE Next
      BY <2>1, <2>2, UpKeptStep, DownKeptStep DEF KeptInv
    <2>3. CASE UNCHANGED vars
      BY <2>3 DEF vars, sockVars, KeptInv, BusyOK, UpFits, DownFits
    <2> QED BY <2>2, <2>3
  <1>3. RelayInv /\ [Next]_vars => RelayInv'
    BY LabelsInv, UpInv, DownInv DEF RelayInv
  <1>4. RelayInv /\ KeptInv => FittingIsKept
    <2> SUFFICES ASSUME RelayInv, KeptInv PROVE FittingIsKept
      OBVIOUS
    <2>1. /\ up_ch \in Seq(Seq(Nat)) /\ down_ch \in Seq(Seq(Nat))
          /\ sent.app \in Nat /\ sent.up \in Nat
      BY Numbers, CapsAssumption DEF RelayInv, UpOK, DownOK, LabelsOK
    <2>2. UpFits => up_got \o up.data \o Flat(up_ch) \o rx = Units(0, sent.app)
      BY <2>1, KeptAll, Zenon DEF KeptInv
    <2>3. DownFits => app_got \o tx \o Flat(down_ch) \o down.data = Units(0, sent.up)
      BY <2>1, KeptAll, Zenon DEF KeptInv
    <2> QED BY <2>2, <2>3, Zenon DEF FittingIsKept, UpFits, DownFits
  <1> QED BY <1>1, <1>2, <1>3, <1>4, RelayInitInv, PTL DEF Spec
===============================================================================
