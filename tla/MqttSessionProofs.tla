-------------------------- MODULE MqttSessionProofs --------------------------
(***************************************************************************)
(* MqttSession proved for every set of commands, every size of the TCP     *)
(* buffer and of the packets, and every bound: types, ConfirmationComes,   *)
(* Mirror, and that it implements CommandDelivery.  The theorems have one  *)
(* hypothesis about the constant Size, SizeIsLength: no packet is empty    *)
(* and release() leaves its length alone (Packets/Out/OutPacket.cpp).      *)
(***************************************************************************)
EXTENDS MqttSession, MqttClientForIRProofs, FiniteSetTheorems

---------------------------------------------------------------------------
(* The loop of _handleQueue (AsyncMqttClient.cpp:394-441).  What it writes and
   what it drops, by induction on its turns: tlapm has no induction over data, so
   the set of the turns for which the fact holds is shown to contain all of Nat. *)

\* A set that contains 0 and, with every number, the next one contains them all.
LEMMA NatSetInduction ==
  ASSUME NEW S, 0 \in S, \A n \in Nat : n \in S => n + 1 \in S
  PROVE  Nat \subseteq S
<1> DEFINE R == OpToRel(<, Nat)
           T == Nat \ S
<1>1. R = {ss \in Nat \X Nat : ss[1] < ss[2]}
  BY DEF OpToRel
<1>2. IsWellFoundedOn(R, Nat)
  BY NatLessThanWellFounded, Zenon
<1> HIDE DEF R
<1>3. SUFFICES ASSUME T # {} PROVE FALSE
  OBVIOUS
<1> HIDE DEF T
<1>4. PICK x \in T : \A y \in T : ~ (<<y, x>> \in R)
  BY <1>2, <1>3, WFMin DEF T
<1>5. x \in Nat /\ x # 0 /\ x - 1 \in Nat /\ x - 1 \in T
  BY <1>4 DEF T
<1>6. <<x - 1, x>> \in R
  BY <1>1, <1>5
<1> QED
  BY <1>4, <1>5, <1>6

\* The loop before its first turn.
StartOfLoop(s, r) ==
  [queue |-> <<>>, sent |-> s, room |-> r, wire |-> <<>>, blocked |-> FALSE]

\* Turns is defined by a recursive function and a CHOOSE from a singleton: each
\* element is Turn of the one before.
LEMMA TurnsAreTurns ==
  ASSUME NEW q, Len(q) \in Nat, NEW s, NEW r
  PROVE  /\ Turns(q, s, r)[0] = StartOfLoop(s, r)
         /\ \A i \in 1..Len(q) : Turns(q, s, r)[i] = Turn(Turns(q, s, r)[i - 1], q[i])
<1> DEFINE body(f, i) == IF i = 0 THEN StartOfLoop(s, r)
                         ELSE CHOOSE c \in {Turn(b, q[i]) : b \in {f[i - 1]}} : TRUE
           upTo(f, n) == f = [i \in 0..n |-> body(f, i)]
           S == {n \in Nat : \E f : upTo(f, n)}
<1>1. 0 \in S
  <2>1. upTo([i \in 0..0 |-> StartOfLoop(s, r)], 0)
    OBVIOUS
  <2> QED
    BY <2>1
<1>2. ASSUME NEW n \in Nat, n \in S
      PROVE  n + 1 \in S
  <2>1. PICK f : upTo(f, n)
    BY <1>2
  <2> DEFINE g == [i \in 0..n + 1 |-> IF i <= n THEN f[i] ELSE body(f, i)]
  <2>2. \A i \in 0..n : f[i] = body(f, i)
    BY <2>1
  <2>3. \A i \in 1..n + 1 : g[i - 1] = f[i - 1]
    OBVIOUS
  <2>4. \A i \in 0..n + 1 : g[i] = body(g, i)
    <3> TAKE i \in 0..n + 1
    <3>1. CASE i = 0
      BY <3>1, <2>2
    <3>2. CASE i # 0
      <4>1. g[i] = body(f, i)
        BY <2>2
      <4>2. g[i - 1] = f[i - 1]
        BY <3>2, <2>3
      <4> HIDE DEF g
      <4> QED
        BY <4>1, <4>2, <3>2
    <3> QED
      BY <3>1, <3>2
  <2>5. g = [i \in 0..n + 1 |-> g[i]]
    OBVIOUS
  <2> HIDE DEF g
  <2>6. upTo(g, n + 1)
    BY <2>4, <2>5
  <2> QED
    BY <2>6
<1>3. Len(q) \in S
  <2> HIDE DEF S
  <2> QED
    BY <1>1, <1>2, NatSetInduction, Zenon
<1>4. \E f : upTo(f, Len(q))
  BY <1>3
<1>5. Turns(q, s, r) = CHOOSE f : upTo(f, Len(q))
  BY DEF Turns, StartOfLoop
<1> DEFINE t == Turns(q, s, r)
<1>6. upTo(t, Len(q))
  BY <1>4, <1>5, Zenon
<1> HIDE DEF t
<1>7. \A i \in 0..Len(q) : t[i] = body(t, i)
  BY <1>6
<1>8. \A i \in 1..Len(q) : t[i] = Turn(t[i - 1], q[i])
  <2> TAKE i \in 1..Len(q)
  <2>1. t[i] = CHOOSE c \in {Turn(b, q[i]) : b \in {t[i - 1]}} : TRUE
    BY <1>7
  <2>2. {Turn(b, q[i]) : b \in {t[i - 1]}} = {Turn(t[i - 1], q[i])}
    OBVIOUS
  <2> QED
    BY <2>1, <2>2
<1> QED
  BY <1>7, <1>8 DEF t

---------------------------------------------------------------------------
(* What the client can have in its queue and put on the wire.              *)

\* The kinds of packets the firmware sends, and what they carry.
PacketTypes == {"CONNECT", "SUBSCRIBE", "PUBLISH", "PUBACK", "PUBREC", "PUBCOMP"}

\* Every publication of a topic that there can be.
Bodies == {Publication(t, d) : t \in Topics \cup {"commited"}, d \in WhirlpoolYJ1BData}

\* The kinds that stay in the queue, sent, until they are confirmed.
Waiting == {"SUBSCRIBE", "PUBREC"}

\* A packet that is not released is of a kind that waits.
Packets ==
  {p \in [type : PacketTypes, id : Nat, body : {NoBody} \cup Bodies,
          dup : BOOLEAN, released : BOOLEAN] : p.released \/ p.type \in Waiting}

\* The units of packets in the stream to the broker.
OutUnits == [type : PacketTypes, id : Nat, body : {NoBody} \cup Bodies,
             dup : BOOLEAN, unit : Nat, of : Nat \ {0}]

\* size() is a length: no packet is empty, and release() does not change it.
SizeIsLength ==
  \A p \in Packets :
    Size(p) \in Nat \ {0} /\ Size([p EXCEPT !.released = TRUE]) = Size(p)

\* How far the head can have been written: a packet that is complete waits for
\* its confirmation or has just had it.
Progress(q, s) ==
  IF q = <<>> THEN s = 0
  ELSE s \in 0..Size(q[1]) /\ (s = Size(q[1]) => q[1].type \in Waiting)

\* The values of the loop's variables.
Cursors == [queue : Seq(Packets), sent : Nat, room : Nat, wire : Seq(OutUnits),
            blocked : BOOLEAN]

\* Unit u is one of packet p's.
IsUnitOf(u, p) ==
  u.type = p.type /\ u.id = p.id /\ u.body = p.body /\ u.of = Size(p)

\* The loop of _handleQueue after i packets of q, the first m of which it has
\* dropped: the others wait, ...
Remain(q, r, c, i, m) ==
  /\ m \in 0..i /\ c \in Cursors
  /\ Len(c.queue) = i - m /\ Len(c.wire) + c.room = r
  /\ \A k \in 1..i - m : c.queue[k] = q[m + k]

\* ... _sent belongs to the first of them, ...
Pace(q, s, c, i, m) ==
  /\ ~c.blocked => m = i /\ c.sent = IF i = 0 THEN s ELSE 0
  /\ c.blocked => m < i /\ c.sent <= Size(q[m + 1])
  /\ m = 0 => c.sent = s + Len(c.wire)

\* ... and unit k of the wire is of packet w[k].
Wired(q, s, c, i, m, w) ==
  /\ w \in [1..Len(c.wire) -> 1..i]
  /\ \A k \in 1..Len(c.wire) :
       /\ IsUnitOf(c.wire[k], q[w[k]]) /\ w[k] <= m + 1
       /\ w[k] = 1 /\ c.wire[k].unit = 1 => s = 0 /\ k = 1
  /\ \A k, l \in 1..Len(c.wire) : k <= l => w[k] <= w[l]

\* No packet is dropped, and none waits for its confirmation, that is not on
\* the wire or was before.
Accounted(q, s, c, m, w) ==
  /\ \A j \in 1..m : j > 1 \/ s < Size(q[1]) => \E k \in 1..Len(c.wire) : w[k] = j
  /\ c.blocked /\ c.sent = Size(q[m + 1]) =>
       \/ m = 0 /\ s = Size(q[1])
       \/ /\ ~q[m + 1].released
          /\ \E k \in 1..Len(c.wire) : w[k] = m + 1

\* The loop's invariant.
Loop(q, s, r, c, i, m, w) ==
  /\ Remain(q, r, c, i, m) /\ Pace(q, s, c, i, m)
  /\ Wired(q, s, c, i, m, w) /\ Accounted(q, s, c, m, w)

\* Concatenation, place by place.
LEMMA Joined ==
  ASSUME NEW S, NEW a \in Seq(S), NEW b \in Seq(S), NEW c, c = a \o b
  PROVE  /\ c \in Seq(S) /\ Len(c) = Len(a) + Len(b)
         /\ Len(a) \in Nat /\ Len(b) \in Nat /\ Len(c) \in Nat
         /\ \A x \in 1..Len(a) : c[x] = a[x] /\ x \in 1..Len(c)
         /\ \A x \in 1..Len(b) : c[Len(a) + x] = b[x] /\ Len(a) + x \in 1..Len(c)
         /\ \A x \in 1..Len(c) : x \notin 1..Len(a) =>
              x - Len(a) \in 1..Len(b) /\ c[x] = b[x - Len(a)]
<1>1. /\ c \in Seq(S) /\ Len(c) = Len(a) + Len(b)
      /\ Len(a) \in Nat /\ Len(b) \in Nat /\ Len(c) \in Nat
  OBVIOUS
<1>2. \A x \in 1..Len(a) : c[x] = a[x] /\ x \in 1..Len(c)
  BY <1>1
<1>3. \A x \in 1..Len(b) : c[Len(a) + x] = b[x] /\ Len(a) + x \in 1..Len(c)
  BY <1>1
<1>4. ASSUME NEW x \in 1..Len(c), x \notin 1..Len(a)
      PROVE  x - Len(a) \in 1..Len(b) /\ c[x] = b[x - Len(a)]
  <2>1. x - Len(a) \in 1..Len(b)
    BY <1>1, <1>4
  <2> QED
    BY <1>1, <1>4, <2>1
<1> QED
  BY <1>1, <1>2, <1>3, <1>4, Zenon

\* Units cuts a packet into units that are its own, numbered in order.
LEMMA UnitsAre ==
  ASSUME NEW p \in Packets, Size(p) \in Nat \ {0}, NEW from \in Nat, NEW k \in Nat
  PROVE  /\ Units(p, from, k) \in Seq(OutUnits) /\ Len(Units(p, from, k)) = k
         /\ \A x \in 1..k : /\ IsUnitOf(Units(p, from, k)[x], p)
                           /\ Units(p, from, k)[x].unit = from + x
<1>1. \A x \in 1..k : [type |-> p.type, id |-> p.id, body |-> p.body, dup |-> p.dup,
                       unit |-> from + x, of |-> Size(p)] \in OutUnits
  BY DEF Packets, OutUnits
<1>2. Units(p, from, k) \in [1..k -> OutUnits]
  BY <1>1 DEF Units
<1> QED
  BY <1>2 DEF Units, IsUnitOf

\* One turn keeps the loop's invariant: it writes no more than there is room
\* for, drops the packet only when all of it is written and it is released, and
\* else stops.
LEMMA OneTurn ==
  ASSUME SizeIsLength, NEW q \in Seq(Packets), NEW s \in Nat, NEW r \in Nat,
         Progress(q, s), NEW i \in 0..Len(q) - 1, NEW c, NEW m, NEW w,
         Loop(q, s, r, c, i, m, w),
         NEW d, d = Turn(c, q[i + 1])
  PROVE  \E n, v : Loop(q, s, r, d, i + 1, n, v)
<1> DEFINE p == q[i + 1]
           k == Smaller(Size(p) - c.sent, c.room)
           done == c.sent + k = Size(p) /\ p.released
<1>1. i + 1 \in 1..Len(q) /\ i \in Nat /\ q # <<>>
  OBVIOUS
<1>2. p \in Packets
  BY <1>1
<1>3. Size(p) \in Nat \ {0}
  BY <1>2 DEF SizeIsLength
<1>4. s \in 0..Size(q[1]) /\ q[1] \in Packets /\ Size(q[1]) \in Nat
  <2>1. q[1] \in Packets
    BY <1>1
  <2> QED
    BY <2>1, <1>1 DEF Progress, SizeIsLength
<1>5. /\ m \in 0..i /\ c \in Cursors /\ Len(c.queue) = i - m /\ Len(c.wire) + c.room = r
      /\ w \in [1..Len(c.wire) -> 1..i]
  BY DEF Loop, Remain, Pace, Wired, Accounted
<1>6. \A x \in 1..i - m : c.queue[x] = q[m + x]
  BY DEF Loop, Remain, Pace, Wired, Accounted
<1>7. /\ ~c.blocked => m = i /\ c.sent = IF i = 0 THEN s ELSE 0
      /\ c.blocked => m < i /\ c.sent <= Size(q[m + 1])
      /\ m = 0 => c.sent = s + Len(c.wire)
  BY DEF Loop, Remain, Pace, Wired, Accounted
<1>8. /\ c.queue \in Seq(Packets) /\ c.wire \in Seq(OutUnits) /\ c.room \in Nat
      /\ c.sent \in Nat /\ c.blocked \in BOOLEAN /\ Len(c.wire) \in Nat
  BY <1>5 DEF Cursors
<1> HIDE DEF p
<1>9. CASE c.blocked \/ c.room = 0
  <2>1. d = [c EXCEPT !.queue = Append(@, p), !.blocked = TRUE]
    BY <1>9, Zenon DEF Turn, p
  <2>2. /\ d.queue = Append(c.queue, p) /\ d.blocked = TRUE
        /\ d.sent = c.sent /\ d.room = c.room /\ d.wire = c.wire /\ d \in Cursors
    <3> DEFINE e == [c EXCEPT !.queue = Append(c.queue, p)]
    <3>0. Append(c.queue, p) \in Seq(Packets)
      BY <1>2, <1>8
    <3>1. /\ e \in Cursors /\ e.queue = Append(c.queue, p)
          /\ e.sent = c.sent /\ e.room = c.room /\ e.wire = c.wire
      BY <3>0, <1>5 DEF Cursors
    <3>2. d = [e EXCEPT !.blocked = TRUE]
      BY <2>1
    <3> HIDE DEF e
    <3> QED
      BY <3>1, <3>2 DEF Cursors
  <2>3. m \in 0..i + 1 /\ Len(d.queue) = i + 1 - m /\ Len(d.wire) + d.room = r
    BY <2>2, <1>1, <1>5, <1>8, SMTT(30)
  <2>4. \A x \in 1..i + 1 - m : d.queue[x] = q[m + x]
    BY <2>2, <1>1, <1>5, <1>6, <1>8, SMTT(30) DEF p
  <2>5. m < i + 1 /\ d.sent <= Size(q[m + 1]) /\ (m = 0 => d.sent = s + Len(d.wire))
    BY <2>2, <1>1, <1>3, <1>4, <1>5, <1>7, <1>8, <1>9, SMTT(30) DEF p
  <2>6. w \in [1..Len(d.wire) -> 1..i + 1]
    BY <2>2, <1>1, <1>5, <1>8
  <2>7. d.sent = Size(q[m + 1]) =>
          \/ m = 0 /\ s = Size(q[1])
          \/ /\ ~q[m + 1].released
             /\ \E x \in 1..Len(d.wire) : w[x] = m + 1
    <3>1. CASE c.blocked
      BY <3>1, <2>2 DEF Loop, Remain, Pace, Wired, Accounted
    <3>2. CASE ~c.blocked
      BY <3>2, <2>2, <1>3, <1>4, <1>7 DEF p
    <3> QED
      BY <3>1, <3>2
  <2>8. Loop(q, s, r, d, i + 1, m, w)
    <3>1. Remain(q, r, d, i + 1, m)
      <4>1. d \in Cursors
        BY <2>2
      <4> QED
        BY <2>3, <2>4, <4>1 DEF Remain
    <3>4. Pace(q, s, d, i + 1, m)
      BY <2>2, <2>5 DEF Pace
    <3>2. Wired(q, s, d, i + 1, m, w)
      BY <2>2, <2>6 DEF Loop, Wired
    <3>3. Accounted(q, s, d, m, w)
      BY <2>2, <2>7 DEF Loop, Accounted
    <3> QED
      BY <3>1, <3>2, <3>3, <3>4 DEF Loop
  <2> QED
    BY <2>8
<1>10. CASE ~(c.blocked \/ c.room = 0)
  <2> DEFINE U == Units(p, c.sent, k)
  <2>1. /\ m = i /\ c.queue = <<>> /\ c.sent = (IF i = 0 THEN s ELSE 0)
        /\ c.room \in Nat \ {0} /\ (i = 0 => c.sent = s /\ Len(c.wire) = 0)
    BY <1>1, <1>5, <1>7, <1>8, <1>10, SMTT(30)
  <2>2. /\ c.sent <= Size(p) /\ k \in Nat /\ c.sent + k <= Size(p) /\ k <= c.room
        /\ (i > 0 \/ s < Size(q[1]) => k > 0)
    BY <2>1, <1>1, <1>3, <1>4, <1>8 DEF Smaller, p
  <2>3. d = [queue   |-> IF done THEN c.queue ELSE Append(c.queue, p),
             sent    |-> IF done THEN 0 ELSE c.sent + k,
             room    |-> c.room - k,
             wire    |-> c.wire \o U,
             blocked |-> ~done]
    BY <1>10, Zenon DEF Turn, p
  <2>4. /\ U \in Seq(OutUnits) /\ Len(U) = k
        /\ \A x \in 1..k : IsUnitOf(U[x], p) /\ U[x].unit = c.sent + x
    BY <2>2, <1>2, <1>3, <1>8, UnitsAre
  <2> HIDE DEF k, U
  <2>5. /\ d.queue = (IF done THEN <<>> ELSE <<p>>) /\ d.blocked = ~done
        /\ d.sent = (IF done THEN 0 ELSE c.sent + k) /\ d.room = c.room - k
        /\ d.wire = c.wire \o U
    BY <2>3, <2>1
  <2> HIDE DEF done
  <2>6. d \in Cursors
    <3>1. c.room - k \in Nat /\ (IF done THEN 0 ELSE c.sent + k) \in Nat
      <4>1. k \in Nat /\ k <= c.room /\ c.room \in Nat /\ c.sent \in Nat
        BY <2>2, <1>8
      <4> QED
        BY <4>1
    <3>2. (IF done THEN c.queue ELSE Append(c.queue, p)) \in Seq(Packets)
      <4>1. Append(c.queue, p) \in Seq(Packets)
        BY <1>2, <1>8
      <4> QED
        BY <1>8, <4>1, Zenon
    <3>3. c.wire \o U \in Seq(OutUnits)
      BY <2>4, <1>8
    <3> QED
      BY <2>3, <3>1, <3>2, <3>3 DEF Cursors, done
  <2>7. /\ Len(d.wire) = Len(c.wire) + Len(U) /\ Len(d.wire) \in Nat
        /\ \A x \in 1..Len(c.wire) : d.wire[x] = c.wire[x] /\ x \in 1..Len(d.wire)
        /\ \A x \in 1..Len(d.wire) : x \notin 1..Len(c.wire) =>
             x - Len(c.wire) \in 1..Len(U) /\ d.wire[x] = U[x - Len(c.wire)]
    <3>1. d.wire = c.wire \o U /\ U \in Seq(OutUnits) /\ c.wire \in Seq(OutUnits)
      BY <2>4, <2>5, <1>8
    <3> QED
      BY <3>1, Joined
  <2>8. Len(d.wire) = Len(c.wire) + k
    BY <2>7, <2>4
  <2> DEFINE v == [x \in 1..Len(d.wire) |-> IF x \in 1..Len(c.wire) THEN w[x] ELSE i + 1]
             n == IF done THEN i + 1 ELSE i
  <2>9. /\ v \in [1..Len(d.wire) -> 1..i + 1]
        /\ \A x \in 1..Len(c.wire) : v[x] = w[x] /\ w[x] \in 1..i
        /\ \A x \in 1..Len(d.wire) : x \notin 1..Len(c.wire) => v[x] = i + 1
    <3>1. \A x \in 1..Len(c.wire) : w[x] \in 1..i
      BY <1>5
    <3>2. \A x \in 1..Len(c.wire) : v[x] = w[x]
      BY <2>7
    <3>3. \A x \in 1..Len(d.wire) : x \notin 1..Len(c.wire) => v[x] = i + 1
      OBVIOUS
    <3>4. v \in [1..Len(d.wire) -> 1..i + 1]
      <4> SUFFICES ASSUME NEW x \in 1..Len(d.wire)
                   PROVE  (IF x \in 1..Len(c.wire) THEN w[x] ELSE i + 1) \in 1..i + 1
        OBVIOUS
      <4> QED
        BY <3>1, <1>1
    <3> QED
      BY <3>1, <3>2, <3>3, <3>4, Zenon
  <2> HIDE DEF v
  <2>10. /\ n \in 0..i + 1 /\ Len(d.queue) = i + 1 - n
         /\ \A x \in 1..i + 1 - n : d.queue[x] = q[n + x]
    <3>1. CASE done
      <4>1. n = i + 1 /\ d.queue = <<>>
        BY <3>1, <2>5
      <4> QED
        BY <4>1, <1>1
    <3>2. CASE ~done
      <4>1. n = i /\ d.queue = <<p>>
        BY <3>2, <2>5
      <4>2. Len(d.queue) = 1 /\ d.queue[1] = p
        BY <4>1
      <4>3. \A x \in 1..i + 1 - i : x = 1
        BY <1>1
      <4> QED
        BY <4>1, <4>2, <4>3, <1>1 DEF p
    <3> QED
      BY <3>1, <3>2
  <2>11. Len(d.wire) + d.room = r
    BY <2>5, <2>8, <2>2, <1>5, <1>8, SMTT(30)
  <2>12. /\ ~d.blocked => n = i + 1 /\ d.sent = 0
         /\ d.blocked => n = i /\ d.sent <= Size(q[n + 1]) /\ d.sent = c.sent + k
    BY <2>5, <2>2, <1>8 DEF p
  <2>13. n = 0 => d.sent = s + Len(d.wire)
    <3>1. n = 0 => ~done /\ i = 0
      BY <1>1
    <3> QED
      BY <3>1, <2>1, <2>2, <2>5, <2>8, <1>8
  <2>14. \A x \in 1..Len(d.wire) :
           /\ IsUnitOf(d.wire[x], q[v[x]]) /\ v[x] <= n + 1
           /\ v[x] = 1 /\ d.wire[x].unit = 1 => s = 0 /\ x = 1
    <3> TAKE x \in 1..Len(d.wire)
    <3>1. CASE x \in 1..Len(c.wire)
      <4>1. v[x] = w[x] /\ d.wire[x] = c.wire[x] /\ w[x] \in 1..i
        BY <3>1, <2>7, <2>9
      <4>2. /\ IsUnitOf(c.wire[x], q[w[x]])
            /\ w[x] = 1 /\ c.wire[x].unit = 1 => s = 0 /\ x = 1
        BY <3>1 DEF Loop, Remain, Pace, Wired, Accounted
      <4>3. w[x] <= n + 1
        BY <4>1, <1>1
      <4> QED
        BY <4>1, <4>2, <4>3
    <3>2. CASE x \notin 1..Len(c.wire)
      <4>1. /\ x - Len(c.wire) \in 1..k
            /\ v[x] = i + 1 /\ d.wire[x] = U[x - Len(c.wire)]
        BY <3>2, <2>4, <2>7, <2>9
      <4>2. IsUnitOf(d.wire[x], q[v[x]]) /\ d.wire[x].unit = c.sent + (x - Len(c.wire))
        BY <4>1, <2>4 DEF p
      <4>3. v[x] <= n + 1
        BY <4>1, <1>1
      <4>4. ASSUME v[x] = 1, d.wire[x].unit = 1 PROVE s = 0 /\ x = 1
        <5>1. i = 0
          BY <4>1, <4>4, <1>1
        <5>2. c.sent = s /\ Len(c.wire) = 0
          BY <5>1, <2>1
        <5>3. s + (x - 0) = 1
          BY <4>2, <4>4, <5>2
        <5> QED
          BY <5>3
      <4> QED
        BY <4>2, <4>3, <4>4
    <3> QED
      BY <3>1, <3>2
  <2>15. \A x, l \in 1..Len(d.wire) : x <= l => v[x] <= v[l]
    <3> SUFFICES ASSUME NEW x \in 1..Len(d.wire), NEW l \in 1..Len(d.wire), x <= l
                 PROVE  v[x] <= v[l]
      OBVIOUS
    <3>1. CASE l \in 1..Len(c.wire)
      <4>1. x \in 1..Len(c.wire)
        BY <3>1, <1>8
      <4>2. w[x] <= w[l]
        BY <3>1, <4>1 DEF Loop, Remain, Pace, Wired, Accounted
      <4> QED
        BY <3>1, <4>1, <4>2, <2>9
    <3>2. CASE l \notin 1..Len(c.wire)
      <4>1. v[l] = i + 1
        BY <3>2, <2>9
      <4>2. v[x] \in 1..i + 1
        BY <2>9
      <4> QED
        BY <4>1, <4>2, <1>1
    <3> QED
      BY <3>1, <3>2
  <2>16. \A j \in 1..i : j > 1 \/ s < Size(q[1]) => \E x \in 1..Len(d.wire) : v[x] = j
    <3> SUFFICES ASSUME NEW j \in 1..i, j > 1 \/ s < Size(q[1])
                 PROVE  \E x \in 1..Len(d.wire) : v[x] = j
      OBVIOUS
    <3>1. PICK x \in 1..Len(c.wire) : w[x] = j
      BY <2>1 DEF Loop, Remain, Pace, Wired, Accounted
    <3>2. x \in 1..Len(d.wire) /\ v[x] = j
      BY <3>1, <2>7, <2>9
    <3> QED
      BY <3>2
  <2>17. i > 0 \/ s < Size(q[1]) => \E x \in 1..Len(d.wire) : v[x] = i + 1
    <3>1. k > 0 => Len(d.wire) \notin 1..Len(c.wire) /\ Len(d.wire) \in 1..Len(d.wire)
      BY <2>7, <2>8, <2>2, <1>8, SMTT(30)
    <3> QED
      BY <3>1, <2>2, <2>9
  <2>18. \A j \in 1..n : j > 1 \/ s < Size(q[1]) => \E x \in 1..Len(d.wire) : v[x] = j
    <3> SUFFICES ASSUME NEW j \in 1..n, j > 1 \/ s < Size(q[1])
                 PROVE  \E x \in 1..Len(d.wire) : v[x] = j
      OBVIOUS
    <3>1. j \in 1..i \/ j = i + 1
      BY <1>1
    <3>2. j = i + 1 /\ i = 0 => s < Size(q[1])
      BY <1>1
    <3> QED
      BY <3>1, <3>2, <2>16, <2>17, <1>1
  <2>19. d.blocked /\ d.sent = Size(q[n + 1]) =>
           \/ n = 0 /\ s = Size(q[1])
           \/ /\ ~q[n + 1].released
              /\ \E x \in 1..Len(d.wire) : v[x] = n + 1
    <3> SUFFICES ASSUME d.blocked, d.sent = Size(q[n + 1]), ~(n = 0 /\ s = Size(q[1]))
                 PROVE  /\ ~q[n + 1].released
                        /\ \E x \in 1..Len(d.wire) : v[x] = n + 1
      OBVIOUS
    <3>1. n = i /\ ~done /\ c.sent + k = Size(p) /\ q[n + 1] = p
      BY <2>5, <2>12 DEF p
    <3>2. ~p.released
      BY <3>1 DEF done
    <3>3. i = 0 => s # Size(q[1])
      BY <3>1
    <3>4. i > 0 \/ s < Size(q[1])
      BY <3>3, <1>1, <1>4
    <3> QED
      BY <3>1, <3>2, <3>4, <2>17
  <2> HIDE DEF n
  <2>20. Loop(q, s, r, d, i + 1, n, v)
    <3>1. /\ ~d.blocked => n = i + 1 /\ d.sent = IF i + 1 = 0 THEN s ELSE 0
          /\ d.blocked => n < i + 1 /\ d.sent <= Size(q[n + 1])
      BY <2>12, <1>1
    <3>2. /\ n \in 0..i + 1 /\ d \in Cursors /\ Len(d.queue) = i + 1 - n
          /\ Len(d.wire) + d.room = r /\ \A x \in 1..i + 1 - n : d.queue[x] = q[n + x]
      BY <2>6, <2>10, <2>11, Zenon
    <3>3. /\ n = 0 => d.sent = s + Len(d.wire)
          /\ v \in [1..Len(d.wire) -> 1..i + 1]
      BY <2>9, <2>13, Zenon
    <3>4. Remain(q, r, d, i + 1, n) /\ Pace(q, s, d, i + 1, n)
      BY <3>1, <3>2, <3>3 DEF Remain, Pace
    <3>5. Wired(q, s, d, i + 1, n, v)
      BY <2>14, <2>15, <3>3, Zenon DEF Wired
    <3>6. Accounted(q, s, d, n, v)
      BY <2>18, <2>19, Zenon DEF Accounted
    <3> QED
      BY <3>4, <3>5, <3>6 DEF Loop
  <2> QED
    BY <2>20
<1> QED
  BY <1>9, <1>10

\* So does the whole of _handleQueue.
LEMMA QueueHandled ==
  ASSUME SizeIsLength, NEW q \in Seq(Packets), NEW s \in Nat, NEW r \in Nat,
         Progress(q, s)
  PROVE  \E m, w : Loop(q, s, r, handleQueue(q, s, r), Len(q), m, w)
<1> DEFINE c(i) == Turns(q, s, r)[i]
           S == {i \in Nat : i <= Len(q) => \E m, w : Loop(q, s, r, c(i), i, m, w)}
<1>1. Len(q) \in Nat
  OBVIOUS
<1>2. /\ c(0) = StartOfLoop(s, r)
      /\ \A i \in 1..Len(q) : c(i) = Turn(c(i - 1), q[i])
  BY <1>1, TurnsAreTurns
<1> HIDE DEF c
<1>3. 0 \in S
  <2> DEFINE b == StartOfLoop(s, r)
  <2>1. /\ b.queue = <<>> /\ b.sent = s /\ b.room = r /\ b.wire = <<>> /\ ~b.blocked
        /\ b \in Cursors /\ b.blocked \in BOOLEAN
    BY DEF StartOfLoop, Cursors
  <2>2. Len(b.queue) = 0 /\ Len(b.wire) = 0 /\ <<>> \in [1..0 -> 1..0]
    BY <2>1
  <2> HIDE DEF b
  <2>3. Remain(q, r, b, 0, 0) /\ Pace(q, s, b, 0, 0)
    BY <2>1, <2>2 DEF Remain, Pace
  <2>4. Wired(q, s, b, 0, 0, <<>>) /\ Accounted(q, s, b, 0, <<>>)
    BY <2>1, <2>2 DEF Wired, Accounted
  <2>5. Loop(q, s, r, b, 0, 0, <<>>)
    BY <2>3, <2>4 DEF Loop
  <2> QED
    BY <2>5, <1>2 DEF b
<1>4. ASSUME NEW i \in Nat, i \in S
      PROVE  i + 1 \in S
  <2> SUFFICES ASSUME i + 1 <= Len(q)
               PROVE  \E n, v : Loop(q, s, r, c(i + 1), i + 1, n, v)
    OBVIOUS
  <2>1. i \in 0..Len(q) - 1 /\ i + 1 \in 1..Len(q) /\ i <= Len(q)
    BY <1>1
  <2>2. PICK m, w : Loop(q, s, r, c(i), i, m, w)
    BY <1>4, <2>1
  <2>3. c(i + 1) = Turn(c(i), q[i + 1])
    BY <1>2, <2>1
  <2> QED
    BY <2>1, <2>2, <2>3, OneTurn
<1>5. Len(q) \in S
  <2> HIDE DEF S
  <2> QED
    BY <1>1, <1>3, <1>4, NatSetInduction, Zenon
<1>6. \E m, w : Loop(q, s, r, c(Len(q)), Len(q), m, w)
  BY <1>1, <1>5
<1> QED
  BY <1>6 DEF c, handleQueue

\* What a call of _handleQueue leaves, for the handlers.
LEMMA Sends ==
  ASSUME SizeIsLength, NEW q \in Seq(Packets), NEW s \in Nat, Progress(q, s),
         c2b \in Seq(OutUnits), Len(c2b) <= Room, Send(q, s)
  PROVE  \E h, m, w :
           /\ Loop(q, s, Room - Len(c2b), h, Len(q), m, w)
           /\ queue' = h.queue /\ sent' = h.sent /\ c2b' = c2b \o h.wire
<1> DEFINE r == Room - Len(c2b)
           h == handleQueue(q, s, r)
<1>1. r \in Nat
  BY SessionAssumption
<1>2. queue' = h.queue /\ sent' = h.sent /\ c2b' = c2b \o h.wire
  BY Zenon DEF Send
<1> HIDE DEF r
<1>3. PICK m, w : Loop(q, s, r, h, Len(q), m, w)
  BY <1>1, QueueHandled
<1> HIDE DEF h
<1> QED
  BY <1>2, <1>3 DEF r

\* After _handleQueue the queue, _sent and the stream are what they must be for
\* the next call: _sent is at most the size of the head, and it is the size only
\* of a packet that waits.
LEMMA QueueTyped ==
  ASSUME SizeIsLength, NEW q \in Seq(Packets), NEW s \in Nat, Progress(q, s),
         c2b \in Seq(OutUnits), Len(c2b) <= Room, Send(q, s)
  PROVE  /\ queue' \in Seq(Packets) /\ sent' \in Nat /\ Progress(queue', sent')
         /\ c2b' \in Seq(OutUnits) /\ Len(c2b') <= Room
<1>1. PICK h, m, w : /\ Loop(q, s, Room - Len(c2b), h, Len(q), m, w)
                     /\ queue' = h.queue /\ sent' = h.sent /\ c2b' = c2b \o h.wire
  BY Sends
<1>2. /\ m \in 0..Len(q) /\ h \in Cursors
      /\ Len(h.queue) = Len(q) - m /\ Len(h.wire) + h.room = Room - Len(c2b)
      /\ \A k \in 1..Len(q) - m : h.queue[k] = q[m + k]
  BY <1>1 DEF Loop, Remain
<1>3. /\ h.queue \in Seq(Packets) /\ h.wire \in Seq(OutUnits) /\ h.room \in Nat
      /\ h.sent \in Nat /\ h.blocked \in BOOLEAN /\ Len(h.wire) \in Nat
  BY <1>2 DEF Cursors
<1>4. c2b' \in Seq(OutUnits) /\ Len(c2b') = Len(c2b) + Len(h.wire)
  BY <1>1, <1>3, Joined
<1>5. Len(c2b') <= Room
  BY <1>2, <1>3, <1>4, SessionAssumption
<1>6. Progress(queue', sent')
  <2>1. CASE m = Len(q)
    <3>1. queue' = <<>>
      BY <1>1, <1>2, <1>3, <2>1
    <3>2. ~h.blocked /\ h.sent = IF Len(q) = 0 THEN s ELSE 0
      BY <1>1, <2>1 DEF Loop, Pace
    <3>3. Len(q) = 0 => s = 0
      BY DEF Progress
    <3> QED
      BY <1>1, <3>1, <3>2, <3>3 DEF Progress
  <2>2. CASE m # Len(q)
    <3>0. m + 1 \in 1..Len(q) /\ 1 \in 1..Len(q) - m /\ Len(h.queue) > 0
      BY <1>2, <2>2
    <3>1. m + 1 \in 1..Len(q) /\ queue'[1] = q[m + 1] /\ queue' # <<>> /\ q[m + 1] \in Packets
      <4>1. queue'[1] = q[m + 1]
        BY <1>1, <1>2, <3>0
      <4>2. queue' # <<>>
        BY <1>1, <3>0
      <4>3. q[m + 1] \in Packets
        BY <3>0
      <4> QED
        BY <3>0, <4>1, <4>2, <4>3
    <3>2. h.blocked /\ h.sent <= Size(q[m + 1])
      BY <1>1, <2>2 DEF Loop, Pace
    <3>3. h.sent = Size(q[m + 1]) =>
            (m = 0 /\ s = Size(q[1])) \/ ~q[m + 1].released
      BY <1>1, <3>2 DEF Loop, Accounted
    <3>4. q # <<>> /\ (s = Size(q[1]) => q[1].type \in Waiting)
      BY <3>1 DEF Progress
    <3>5. h.sent = Size(q[m + 1]) => q[m + 1].type \in Waiting
      <4>1. q[m + 1].released \/ q[m + 1].type \in Waiting
        BY <3>1 DEF Packets
      <4>2. m = 0 => q[m + 1] = q[1]
        BY <1>2
      <4> QED
        BY <3>3, <3>4, <4>1, <4>2, Zenon
    <3>6. h.sent \in 0..Size(q[m + 1])
      BY <3>1, <3>2, <1>3 DEF SizeIsLength
    <3> QED
      BY <1>1, <3>1, <3>5, <3>6 DEF Progress
  <2> QED
    BY <2>1, <2>2
<1> QED
  BY <1>1, <1>3, <1>4, <1>5, <1>6

---------------------------------------------------------------------------
(* What publish() and the other operators on the queue return. *)

\* The elements of upTo are the elements of s that I picks among the first i.
Picks(s, I, upTo, i) ==
  /\ \A k \in 1..Len(upTo) : \E j \in 1..i : j \in I /\ upTo[k] = s[j]
  /\ \A j \in 1..i : j \in I => \E k \in 1..Len(upTo) : upTo[k] = s[j]

\* Select is defined by a recursive function: the steps it goes through.
LEMMA SelectSteps ==
  ASSUME NEW s, Len(s) \in Nat, NEW I
  PROVE  \E t : /\ Select(s, I) = t[Len(s)] /\ t[0] = <<>>
               /\ \A i \in 1..Len(s) :
                    t[i] = IF i \in I THEN Append(t[i - 1], s[i]) ELSE t[i - 1]
<1> DEFINE body(f, i) == IF i = 0 THEN <<>>
                         ELSE IF i \in I THEN Append(f[i - 1], s[i]) ELSE f[i - 1]
           upTo(f, n) == f = [i \in 0..n |-> body(f, i)]
           N == {n \in Nat : \E f : upTo(f, n)}
<1>1. 0 \in N
  <2>1. upTo([i \in 0..0 |-> <<>>], 0)
    OBVIOUS
  <2> QED
    BY <2>1
<1>2. ASSUME NEW n \in Nat, n \in N
      PROVE  n + 1 \in N
  <2>1. PICK f : upTo(f, n)
    BY <1>2
  <2> DEFINE g == [i \in 0..n + 1 |-> IF i <= n THEN f[i] ELSE body(f, i)]
  <2>2. \A i \in 0..n : f[i] = body(f, i)
    BY <2>1
  <2>3. \A i \in 1..n + 1 : g[i - 1] = f[i - 1]
    OBVIOUS
  <2>4. \A i \in 0..n + 1 : g[i] = body(g, i)
    <3> TAKE i \in 0..n + 1
    <3>1. CASE i = 0
      BY <3>1, <2>2
    <3>2. CASE i # 0
      <4>1. g[i] = body(f, i)
        BY <2>2
      <4>2. g[i - 1] = f[i - 1]
        BY <3>2, <2>3
      <4> HIDE DEF g
      <4> QED
        BY <4>1, <4>2, <3>2
    <3> QED
      BY <3>1, <3>2
  <2>5. g = [i \in 0..n + 1 |-> g[i]]
    OBVIOUS
  <2> HIDE DEF g
  <2>6. upTo(g, n + 1)
    BY <2>4, <2>5
  <2> HIDE DEF upTo
  <2> QED
    BY <2>6
<1>3. Len(s) \in N
  <2> HIDE DEF N
  <2> QED
    BY <1>1, <1>2, NatSetInduction, Zenon
<1>4. \E f : upTo(f, Len(s))
  BY <1>3
<1> DEFINE t == CHOOSE f : upTo(f, Len(s))
<1>5. Select(s, I) = t[Len(s)]
  BY DEF Select
<1>6. upTo(t, Len(s))
  BY <1>4, Zenon
<1> HIDE DEF t
<1>7. \A i \in 0..Len(s) : t[i] = body(t, i)
  BY <1>6
<1> QED
  BY <1>5, <1>7

\* What Select returns consists of the elements selected.
LEMMA Selected ==
  ASSUME NEW S, NEW s \in Seq(S), NEW I
  PROVE  Select(s, I) \in Seq(S) /\ Picks(s, I, Select(s, I), Len(s))
<1>1. Len(s) \in Nat
  OBVIOUS
<1>2. PICK t : /\ Select(s, I) = t[Len(s)] /\ t[0] = <<>>
               /\ \A i \in 1..Len(s) :
                    t[i] = IF i \in I THEN Append(t[i - 1], s[i]) ELSE t[i - 1]
  BY <1>1, SelectSteps
<1> DEFINE P(i) == t[i] \in Seq(S) /\ Picks(s, I, t[i], i)
           N == {i \in Nat : i <= Len(s) => P(i)}
<1>3. 0 \in N
  <2>1. t[0] \in Seq(S) /\ Len(t[0]) = 0
    BY <1>2
  <2> QED
    BY <2>1 DEF Picks
<1>4. ASSUME NEW n \in Nat, n \in N
      PROVE  n + 1 \in N
  <2> DEFINE i == n + 1
             x == t[i]
  <2> SUFFICES ASSUME i <= Len(s)
               PROVE  x \in Seq(S) /\ Picks(s, I, x, i)
    OBVIOUS
  <2>0. i \in Nat /\ i - 1 = n /\ i \in 1..Len(s)
    BY <1>1
  <2>1. t[i - 1] \in Seq(S) /\ Picks(s, I, t[i - 1], i - 1)
    BY <1>1, <1>4
  <2>2. x = IF i \in I THEN Append(t[i - 1], s[i]) ELSE t[i - 1]
    BY <1>2, <2>0
  <2> HIDE DEF i
  <2>7. s[i] \in S
    BY <2>0
  <2>8. x \in Seq(S) /\ Picks(s, I, x, i)
    <3>1. CASE i \in I
      <4>1. x = Append(t[i - 1], s[i])
        BY <3>1, <2>2
      <4> HIDE DEF x
      <4>2. /\ x \in Seq(S) /\ Len(x) = Len(t[i - 1]) + 1 /\ x[Len(x)] = s[i]
            /\ Len(x) \in 1..Len(x) /\ Len(t[i - 1]) \in Nat
            /\ \A k \in 1..Len(t[i - 1]) : x[k] = t[i - 1][k] /\ k \in 1..Len(x)
        BY <4>1, <2>1, <2>7
      <4>3. \A k \in 1..Len(x) : \E j \in 1..i : j \in I /\ x[k] = s[j]
        <5> TAKE k \in 1..Len(x)
        <5>1. CASE k \in 1..Len(t[i - 1])
          <6>1. PICK j \in 1..i - 1 : j \in I /\ t[i - 1][k] = s[j]
            BY <5>1, <2>1 DEF Picks
          <6>2. x[k] = s[j] /\ j \in 1..i
            BY <5>1, <6>1, <4>2, <2>0
          <6> QED
            BY <6>1, <6>2
        <5>2. CASE k \notin 1..Len(t[i - 1])
          <6>1. k = Len(x)
            BY <5>2, <4>2
          <6> QED
            BY <6>1, <4>2, <3>1, <2>0
        <5> QED
          BY <5>1, <5>2
      <4>4. \A j \in 1..i : j \in I => \E k \in 1..Len(x) : x[k] = s[j]
        <5> SUFFICES ASSUME NEW j \in 1..i, j \in I
                     PROVE  \E k \in 1..Len(x) : x[k] = s[j]
          OBVIOUS
        <5>1. CASE j = i
          BY <5>1, <4>2
        <5>2. CASE j # i
          <6>1. j \in 1..i - 1
            BY <5>2, <2>0
          <6>2. PICK k \in 1..Len(t[i - 1]) : t[i - 1][k] = s[j]
            BY <6>1, <2>1 DEF Picks
          <6> QED
            BY <6>2, <4>2
        <5> QED
          BY <5>1, <5>2
      <4> QED
        BY <4>2, <4>3, <4>4 DEF Picks
    <3>2. CASE i \notin I
      <4>1. x = t[i - 1]
        BY <3>2, <2>2
      <4> HIDE DEF x
      <4>2. \A j \in 1..i : j \in I => j \in 1..i - 1
        BY <3>2, <2>0
      <4>3. \A j \in 1..i - 1 : j \in 1..i
        BY <2>0
      <4> QED
        BY <4>1, <4>2, <4>3, <2>1 DEF Picks
    <3> QED
      BY <3>1, <3>2
  <2> QED
    BY <2>8
<1>5. Len(s) \in N
  <2> HIDE DEF N
  <2> QED
    BY <1>1, <1>3, <1>4, NatSetInduction, Zenon
<1> QED
  BY <1>1, <1>2, <1>5

\* What a handler that leaves the object d may publish.
BodiesOf(d) == {Publication(t, d) : t \in Topics \cup {"commited"}}

\* A list of publications has the topics it was made from, each with its text of
\* d.
LEMMA PublicationsTold ==
  ASSUME NEW topics \in Seq(Topics \cup {"commited"}), NEW d
  PROVE  /\ Publications(topics, d) \in Seq(BodiesOf(d))
         /\ Len(Publications(topics, d)) = Len(topics)
         /\ \A i \in 1..Len(topics) : Publications(topics, d)[i].topic = topics[i]
<1> DEFINE P == Publications(topics, d)
<1>1. P = [i \in 1..Len(topics) |-> Publication(topics[i], d)] /\ Len(topics) \in Nat
  BY DEF Publications
<1>2. \A i \in 1..Len(topics) : P[i] = Publication(topics[i], d) /\ topics[i] \in Topics \cup {"commited"}
  BY <1>1
<1>3. \A i \in 1..Len(topics) : P[i] \in BodiesOf(d)
  BY <1>2 DEF BodiesOf
<1>4. P \in [1..Len(topics) -> BodiesOf(d)]
  BY <1>1, <1>3
<1> HIDE DEF P
<1>5. P \in Seq(BodiesOf(d)) /\ Len(P) = Len(topics)
  BY <1>1, <1>4
<1>6. \A i \in 1..Len(topics) : P[i].topic = topics[i]
  <2> TAKE i \in 1..Len(topics)
  <2>1. P[i] = [topic |-> topics[i], payload |-> Text(topics[i], d),
                retain |-> topics[i] # "commited"]
    BY <1>2, Zenon DEF Publication
  <2> QED
    BY <2>1
<1> QED
  BY <1>5, <1>6, Zenon DEF P

\* sendInitValues publishes every topic (MqttMessages.cpp, sendInitValues).
LEMMA InitTold ==
  ASSUME NEW d
  PROVE  /\ sendInitValues(d) \in Seq(BodiesOf(d))
         /\ \A t \in Topics : \E i \in 1..Len(sendInitValues(d)) : sendInitValues(d)[i].topic = t
<1>1. InitTopics \in Seq(Topics \cup {"commited"}) /\ Len(InitTopics) = 9
  <2>1. \A i \in 1..9 : InitTopics[i] \in Topics
    BY DEF Topics, InitTopics
  <2> QED
    BY <2>1 DEF InitTopics
<1>2. \A t \in Topics : \E i \in 1..Len(InitTopics) : InitTopics[i] = t
  BY DEF Topics
<1>3. /\ sendInitValues(d) \in Seq(BodiesOf(d)) /\ Len(sendInitValues(d)) = Len(InitTopics)
      /\ \A i \in 1..Len(InitTopics) : sendInitValues(d)[i].topic = InitTopics[i]
  BY <1>1, PublicationsTold, Zenon DEF sendInitValues
<1> QED
  BY <1>2, <1>3

\* What a handler publishes are texts of the object it leaves behind.
LEMMA EffectTold ==
  ASSUME NEW d, NEW e, Effect(e, d)
  PROVE  e.pubs \in Seq(BodiesOf(e.data))
<1>1. CASE e.pubs = <<>>
  BY <1>1
<1>2. CASE e.pubs = Publications(<<"commited">>, e.data)
  <2>1. <<"commited">> \in Seq(Topics \cup {"commited"})
    OBVIOUS
  <2> QED
    BY <2>1, <1>2, PublicationsTold
<1>3. ASSUME NEW x \in Topics, e.pubs = Publications(<<x, "status">>, e.data)
      PROVE  e.pubs \in Seq(BodiesOf(e.data))
  <2>1. <<x, "status">> \in Seq(Topics \cup {"commited"})
    BY TopicsAre
  <2> QED
    BY <2>1, <1>3, PublicationsTold
<1>4. \/ e.pubs = <<>>
      \/ e.pubs = Publications(<<"commited">>, e.data)
      \/ \E x \in Topics : e.pubs = Publications(<<x, "status">>, e.data)
  BY Zenon DEF Effect
<1> QED
  BY <1>1, <1>2, <1>3, <1>4, Zenon

\* What a publication of d says.
LEMMA BodiesAre ==
  ASSUME NEW d \in WhirlpoolYJ1BData, NEW b \in BodiesOf(d)
  PROVE  /\ b \in Bodies /\ b.topic \in Topics \cup {"commited"}
         /\ b.payload = Text(b.topic, d) /\ (b.topic # "commited" => b.retain)
<1>1. PICK t \in Topics \cup {"commited"} : b = Publication(t, d)
  BY DEF BodiesOf
<1>2. /\ b.topic = t /\ b.payload = Text(t, d) /\ b.retain = (t # "commited")
  BY <1>1, Zenon DEF Publication
<1>3. b \in Bodies
  BY <1>1 DEF Bodies
<1> QED
  BY <1>2, <1>3

\* The packets publish() makes are of the publications asked for, one for each
\* topic that is not refused; a topic ceases to be refused only by being
\* published.
LEMMA PublishedPackets ==
  ASSUME NEW d \in WhirlpoolYJ1BData, NEW pubs \in Seq(BodiesOf(d)),
         NEW o \in Published(pubs)
  PROVE  /\ o.packets \in Seq(Packets)
         /\ \A k \in 1..Len(o.packets) :
              /\ o.packets[k].type = "PUBLISH"
              /\ \E j \in 1..Len(pubs) : /\ o.packets[k].body = pubs[j]
                                         /\ pubs[j].topic \in Reported
         /\ \A j \in 1..Len(pubs) :
              pubs[j].topic \in Reported \ o.refused =>
                \E k \in 1..Len(o.packets) :
                  /\ o.packets[k].type = "PUBLISH" /\ o.packets[k].body = pubs[j]
         /\ \A t \in refused \ o.refused : \E j \in 1..Len(pubs) : pubs[j].topic = t
<1> DEFINE I == {i \in DOMAIN pubs : pubs[i].topic \in Reported}
           some == Select(pubs, I)
           topics(m, n) == {some[i].topic : i \in m..n}
<1>1. some \in Seq(BodiesOf(d)) /\ Picks(pubs, I, some, Len(pubs))
  BY Selected
<1>2. DOMAIN pubs = 1..Len(pubs)
  OBVIOUS
<1>3. \E k \in 0..Len(some) :
        o = [packets |-> [i \in 1..k |-> PublishPacket(some[i])],
             refused |-> (refused \ topics(1, k)) \cup topics(k + 1, Len(some)),
             refusals |-> IF k = Len(some) THEN refusals ELSE refusals + 1]
  <2>1. Len(some) \in 0..Len(some)
    BY <1>1
  <2> HIDE DEF some
  <2> QED
    BY <2>1 DEF Published, some, I, topics
<1> HIDE DEF some
<1>4. PICK k \in 0..Len(some) :
        o = [packets |-> [i \in 1..k |-> PublishPacket(some[i])],
             refused |-> (refused \ topics(1, k)) \cup topics(k + 1, Len(some)),
             refusals |-> IF k = Len(some) THEN refusals ELSE refusals + 1]
  BY <1>3
<1>5. /\ o.packets = [i \in 1..k |-> PublishPacket(some[i])]
      /\ o.refused = (refused \ topics(1, k)) \cup topics(k + 1, Len(some))
  BY <1>4
<1>6. ASSUME NEW b \in BodiesOf(d)
      PROVE  /\ PublishPacket(b) \in Packets
             /\ PublishPacket(b).type = "PUBLISH" /\ PublishPacket(b).body = b
  <2>1. b \in Bodies
    BY BodiesAre
  <2>2. /\ Packet("PUBLISH", 1) \in Packets /\ Packet("PUBLISH", 1).type = "PUBLISH"
        /\ Packet("PUBLISH", 1).released
    BY DEF Packet, Packets, PacketTypes
  <2>3. PublishPacket(b) = [Packet("PUBLISH", 1) EXCEPT !.body = b]
    BY DEF PublishPacket
  <2> QED
    BY <2>1, <2>2, <2>3 DEF Packets
<1>7. Len(some) \in Nat /\ k \in Nat /\ \A i \in 1..k : i \in 1..Len(some) /\ some[i] \in BodiesOf(d)
  BY <1>1
<1>8. o.packets \in Seq(Packets) /\ Len(o.packets) = k
  <2>1. o.packets \in [1..k -> Packets]
    BY <1>5, <1>6, <1>7
  <2> QED
    BY <2>1, <1>7
<1>9. ASSUME NEW l \in 1..Len(o.packets)
      PROVE  /\ o.packets[l].type = "PUBLISH"
             /\ \E j \in 1..Len(pubs) : /\ o.packets[l].body = pubs[j]
                                        /\ pubs[j].topic \in Reported
  <2>1. PICK j \in 1..Len(pubs) : j \in I /\ some[l] = pubs[j]
    BY <1>1, <1>7, <1>8 DEF Picks
  <2>2. o.packets[l] = PublishPacket(some[l]) /\ some[l] \in BodiesOf(d)
    BY <1>5, <1>7, <1>8
  <2>3. o.packets[l].type = "PUBLISH" /\ o.packets[l].body = some[l]
    BY <1>6, <2>2
  <2> QED
    BY <2>1, <2>3
<1>10. ASSUME NEW j \in 1..Len(pubs), pubs[j].topic \in Reported \ o.refused
       PROVE  \E l \in 1..Len(o.packets) :
                 o.packets[l].type = "PUBLISH" /\ o.packets[l].body = pubs[j]
  <2>1. PICK l \in 1..Len(some) : some[l] = pubs[j]
    BY <1>1, <1>2, <1>10 DEF Picks
  <2>2. l \notin k + 1..Len(some)
    BY <2>1, <1>5, <1>10
  <2>3. l \in 1..k /\ some[l] \in BodiesOf(d)
    BY <2>2, <1>1, <1>7
  <2>4. o.packets[l] = PublishPacket(some[l])
    BY <1>5, <2>3
  <2>5. o.packets[l].type = "PUBLISH" /\ o.packets[l].body = some[l]
    BY <1>6, <2>3, <2>4
  <2> QED
    BY <2>1, <2>3, <2>5, <1>8
<1>11. ASSUME NEW t \in refused \ o.refused
       PROVE  \E j \in 1..Len(pubs) : pubs[j].topic = t
  <2>1. PICK i \in 1..k : t = some[i].topic
    BY <1>5
  <2>2. PICK j \in 1..Len(pubs) : some[i] = pubs[j]
    BY <1>1, <1>7 DEF Picks
  <2> QED
    BY <2>1, <2>2
<1> QED
  BY <1>8, <1>9, <1>10, <1>11

\* What the broker publishes to the client: a message with a QoS above 0 has an
\* identifier.
Messages ==
  {p \in [type : {"PUBLISH"}, id : 0..MaxCommands, qos : Qos, n : 1..MaxCommands,
          cmd : Commands] : p.qos # 0 => p.id # 0}

\* All that the broker sends.
InPackets ==
  [type : {"CONNACK"}] \cup [type : {"SUBACK", "PUBREL"}, id : Nat] \cup Messages

\* The broker's flows.
Flows ==
  {f \in [id : 1..MaxCommands, n : 1..MaxCommands, cmd : Commands, qos : Qos,
          phase : {"puback", "pubrec", "pubcomp"}] : f.qos # 0}

\* The client's variables are what its operators need them to be.
ClientTyped ==
  /\ InRange(data) /\ state \in {"DISCONNECTED", "CONNECTING", "CONNECTED"}
  /\ queue \in Seq(Packets) /\ sent \in Nat /\ Progress(queue, sent)
  /\ pubrels \subseteq 1..MaxCommands /\ packetId \in Nat

\* Without a connection nothing travels and the broker has no session.
StreamsTyped ==
  /\ c2b \in Seq(OutUnits) /\ Len(c2b) <= Room /\ b2c \in Seq(InPackets)
  /\ state = "DISCONNECTED" =>
       sent = 0 /\ c2b = <<>> /\ b2c = <<>> /\ ~subscribed /\ inflight = {}

\* The broker has used no more identifiers than there were commands.
BrokerTyped ==
  /\ inflight \subseteq Flows
  /\ issued \in Seq(Qos) /\ Len(issued) <= MaxCommands /\ lastId \in 0..Len(issued)

\* The part of the inductive invariant that every other part needs; TypeOK
\* follows.
Typed == ClientTyped /\ StreamsTyped /\ BrokerTyped

\* A queue that _handleQueue can be called with.
Ready(q, s) == q \in Seq(Packets) /\ s \in Nat /\ Progress(q, s)

\* Append is concatenation.
LEMMA AppendIsJoin ==
  ASSUME NEW S, NEW s \in Seq(S), NEW x \in S
  PROVE  Append(s, x) = s \o <<x>> /\ <<x>> \in Seq(S) /\ Len(<<x>>) = 1 /\ <<x>>[1] = x
  OBVIOUS

\* Sequence d consists of a, b and c.
ThreeParts(d, a, b, c) ==
  /\ Len(d) = Len(a) + Len(b) + Len(c)
  /\ \A x \in 1..Len(a) : d[x] = a[x] /\ x \in 1..Len(d)
  /\ \A x \in 1..Len(b) : d[Len(a) + x] = b[x] /\ Len(a) + x \in 1..Len(d)
  /\ \A x \in 1..Len(c) : /\ d[Len(a) + Len(b) + x] = c[x]
                          /\ Len(a) + Len(b) + x \in 1..Len(d)
  /\ \A x \in 1..Len(d) :
       \/ x \in 1..Len(a)
       \/ \E y \in 1..Len(b) : x = Len(a) + y
       \/ \E y \in 1..Len(c) : x = Len(a) + Len(b) + y

\* Concatenation of three sequences, place by place.
LEMMA JoinedTwice ==
  ASSUME NEW S, NEW a \in Seq(S), NEW b \in Seq(S), NEW c \in Seq(S),
         NEW j, j = a \o b, NEW d, d = j \o c
  PROVE  d \in Seq(S) /\ ThreeParts(d, a, b, c)
<1>1. /\ j \in Seq(S) /\ Len(j) = Len(a) + Len(b)
      /\ Len(a) \in Nat /\ Len(b) \in Nat /\ Len(c) \in Nat
  OBVIOUS
<1>2. \A x \in 1..Len(a) : j[x] = a[x] /\ x \in 1..Len(j)
  BY <1>1
<1>3. \A x \in 1..Len(b) : j[Len(a) + x] = b[x] /\ Len(a) + x \in 1..Len(j)
  BY <1>1
<1>5. d \in Seq(S) /\ Len(d) = Len(j) + Len(c)
  BY <1>1
<1>6. \A x \in 1..Len(j) : d[x] = j[x] /\ x \in 1..Len(d)
  BY <1>1, <1>5
<1>7. \A x \in 1..Len(c) : d[Len(j) + x] = c[x] /\ Len(j) + x \in 1..Len(d)
  BY <1>1, <1>5
<1>8. \A x \in 1..Len(d) :
        \/ x \in 1..Len(a)
        \/ \E y \in 1..Len(b) : x = Len(a) + y
        \/ \E y \in 1..Len(c) : x = Len(a) + Len(b) + y
  <2> SUFFICES ASSUME NEW x \in 1..Len(d), x \notin 1..Len(a)
               PROVE  \/ \E y \in 1..Len(b) : x = Len(a) + y
                      \/ \E y \in 1..Len(c) : x = Len(a) + Len(b) + y
    OBVIOUS
  <2>1. x - Len(a) \in 1..Len(b) \/ x - (Len(a) + Len(b)) \in 1..Len(c)
    BY <1>1, <1>5
  <2>2. x = Len(a) + (x - Len(a)) /\ x = Len(a) + Len(b) + (x - (Len(a) + Len(b)))
    BY <1>1, <1>5
  <2> QED
    BY <2>1, <2>2
<1> QED
  BY <1>1, <1>2, <1>3, <1>5, <1>6, <1>7, <1>8 DEF ThreeParts

\* One element in front of a sequence, place by place.
LEMMA Prefixed ==
  ASSUME NEW S, NEW q \in Seq(S), NEW p \in S, NEW r, r = <<p>> \o q
  PROVE  /\ r \in Seq(S) /\ Len(r) = Len(q) + 1 /\ r[1] = p /\ r # <<>>
         /\ \A k \in 1..Len(q) : r[k + 1] = q[k]
<1>1. r \in Seq(S)
  OBVIOUS
<1>2. Len(r) = Len(q) + 1 /\ r[1] = p /\ r # <<>>
  OBVIOUS
<1>3. \A k \in 1..Len(q) : r[k + 1] = q[k]
  OBVIOUS
<1> QED
  BY <1>1, <1>2, <1>3

\* A packet made by the client has no body and waits if it is of a kind that
\* does.
LEMMA PacketsMade ==
  ASSUME NEW type \in PacketTypes, NEW id \in Nat
  PROVE  /\ Packet(type, id) \in Packets
         /\ Packet(type, id).type = type /\ Packet(type, id).id = id
         /\ Packet(type, id).released = (type \notin Waiting)
<1>1. "PUBREL" \notin PacketTypes
  BY DEF PacketTypes
<1> QED
  BY <1>1 DEF Packet, Packets, Waiting

\* The operations on the queue, element by element.
LEMMA HeadReleased ==
  ASSUME SizeIsLength, NEW q \in Seq(Packets), NEW s \in Nat, Progress(q, s), q # <<>>,
         NEW h, h = [q[1] EXCEPT !.released = TRUE]
  PROVE  /\ Ready(releaseHead(q), s) /\ Len(releaseHead(q)) = Len(q)
         /\ releaseHead(q)[1] = h /\ h \in Packets /\ Size(h) = Size(q[1])
         /\ h.type = q[1].type /\ h.id = q[1].id /\ h.body = q[1].body /\ h.released
         /\ \A k \in 2..Len(q) : releaseHead(q)[k] = q[k]
<1>1. q[1] \in Packets /\ Len(q) \in Nat /\ Len(q) > 0 /\ Head(q) = q[1]
  OBVIOUS
<1>2. h \in Packets /\ h.type = q[1].type /\ h.id = q[1].id /\ h.body = q[1].body /\ h.released
  BY <1>1 DEF Packets
<1>3. Size(h) = Size(q[1])
  BY <1>1 DEF SizeIsLength
<1> DEFINE r == releaseHead(q)
<1>4. r = <<h>> \o Tail(q)
  BY <1>1 DEF releaseHead
<1>5. <<h>> \in Seq(Packets) /\ Tail(q) \in Seq(Packets) /\ Len(Tail(q)) = Len(q) - 1
  BY <1>1, <1>2
<1>6. \A k \in 1..Len(q) - 1 : Tail(q)[k] = q[k + 1]
  BY <1>1
<1> HIDE DEF r
<1>7. r \in Seq(Packets) /\ Len(r) = Len(q) /\ r[1] = h
  BY <1>1, <1>2, <1>4, <1>5
<1>8. \A k \in 2..Len(q) : r[k] = q[k]
  <2> TAKE k \in 2..Len(q)
  <2>1. k - 1 \in 1..Len(q) - 1 /\ (k - 1) + 1 = k
    BY <1>1
  <2>2. r[k] = Tail(q)[k - 1]
    BY <2>1, <1>1, <1>4, <1>5
  <2>3. Tail(q)[k - 1] = q[k]
    BY <2>1, <1>6
  <2> QED
    BY <2>2, <2>3
<1>9. Progress(r, s)
  <2>1. r # <<>>
    BY <1>1, <1>7
  <2> QED
    BY <2>1, <1>2, <1>3, <1>7 DEF Progress
<1> QED
  BY <1>2, <1>3, <1>7, <1>8, <1>9 DEF Ready, r

\* What _onPubRel does when the PUBREC is at the head: it is released and
\* PUBCOMP comes behind it.
LEMMA PubRelQueue ==
  ASSUME SizeIsLength, NEW q \in Seq(Packets), NEW s \in Nat, Progress(q, s),
         NEW id \in Nat, headHas(q, id), NEW r, r = pubRel(q, id)
  PROVE  /\ Ready(r, s) /\ Len(r) = Len(q) + 1 /\ q # <<>> /\ q[1].id = id
         /\ r[1] = [q[1] EXCEPT !.released = TRUE] /\ r[2] = Packet("PUBCOMP", id)
         /\ \A k \in 2..Len(q) : r[k + 1] = q[k]
<1> DEFINE a == releaseHead(q)
           p == Packet("PUBCOMP", id)
<1>1. q # <<>> /\ q[1].id = id /\ Len(q) \in Nat /\ Len(q) > 0
  BY DEF headHas
<1>2. /\ Ready(a, s) /\ Len(a) = Len(q) /\ a[1] = [q[1] EXCEPT !.released = TRUE]
      /\ \A k \in 2..Len(q) : a[k] = q[k]
  BY <1>1, HeadReleased
<1>3. p \in Packets
  BY PacketsMade DEF PacketTypes
<1>4. r = insert(a, p)
  BY DEF pubRel
<1> HIDE DEF a, p
<1>5. a \in Seq(Packets) /\ a # <<>> /\ a[1] \in Packets /\ Head(a) = a[1]
  BY <1>1, <1>2 DEF Ready
<1>6. r = <<a[1], p>> \o Tail(a)
  BY <1>4, <1>5 DEF insert
<1>7. /\ Tail(a) \in Seq(Packets) /\ Len(Tail(a)) = Len(q) - 1
      /\ \A k \in 1..Len(q) - 1 : Tail(a)[k] = a[k + 1]
  BY <1>1, <1>2, <1>5
<1>8. <<a[1], p>> \in Seq(Packets) /\ Len(<<a[1], p>>) = 2
  BY <1>3, <1>5
<1>9. r \in Seq(Packets) /\ Len(r) = Len(q) + 1 /\ r[1] = a[1] /\ r[2] = p
  BY <1>1, <1>6, <1>7, <1>8
<1>10. \A k \in 2..Len(q) : r[k + 1] = q[k]
  <2> TAKE k \in 2..Len(q)
  <2>1. k - 1 \in 1..Len(q) - 1 /\ (k - 1) + 1 = k /\ 2 + (k - 1) = k + 1
    BY <1>1
  <2>2. r[2 + (k - 1)] = Tail(a)[k - 1]
    <3> DEFINE x == <<a[1], p>>
               y == Tail(a)
    <3>1. /\ r = x \o y /\ x \in Seq(Packets) /\ y \in Seq(Packets) /\ Len(x) = 2
          /\ k - 1 \in 1..Len(y)
      BY <2>1, <1>6, <1>7, <1>8
    <3> HIDE DEF x, y
    <3>2. \A z \in 1..Len(y) : r[Len(x) + z] = y[z] /\ Len(x) + z \in 1..Len(r)
      BY <3>1, Joined
    <3> QED
      BY <3>1, <3>2 DEF y
  <2> QED
    BY <2>1, <2>2, <1>2, <1>7
<1>11. Progress(r, s)
  <2>1. r # <<>> /\ r[1] = a[1]
    BY <1>1, <1>9
  <2> QED
    BY <2>1, <1>2, <1>5 DEF Progress, Ready
<1> QED
  BY <1>1, <1>2, <1>9, <1>10, <1>11 DEF Ready, p
\* What connect() does: CONNECT is put before what was kept.
LEMMA ConnectQueue ==
  ASSUME SizeIsLength, NEW q \in Seq(Packets),
         NEW r, r = addFront(q, Packet("CONNECT", 0))
  PROVE  /\ Ready(r, 0) /\ Len(r) = Len(q) + 1 /\ r[1] = Packet("CONNECT", 0)
         /\ \A k \in 1..Len(q) : r[k + 1] = q[k]
<1> DEFINE p == Packet("CONNECT", 0)
<1>1. p \in Packets /\ Size(p) \in Nat \ {0}
  BY PacketsMade DEF PacketTypes, SizeIsLength
<1>2. r = <<p>> \o q
  BY DEF addFront
<1> HIDE DEF p
<1>3. /\ r \in Seq(Packets) /\ Len(r) = Len(q) + 1 /\ r[1] = p /\ r # <<>>
      /\ \A k \in 1..Len(q) : r[k + 1] = q[k]
  BY <1>1, <1>2, Prefixed
<1>4. Progress(r, 0)
  BY <1>1, <1>3 DEF Progress
<1> QED
  BY <1>3, <1>4 DEF Ready, p

\* What is added at the end does not concern the packet being written.
LEMMA AppendedQueue ==
  ASSUME SizeIsLength, NEW q \in Seq(Packets), NEW s \in Nat, Progress(q, s),
         NEW b \in Seq(Packets), NEW r, r = q \o b
  PROVE  Ready(r, s)
<1>1. r \in Seq(Packets)
  BY Joined
<1>2. CASE q = <<>>
  <2>1. s = 0 /\ r = b
    BY <1>2 DEF Progress
  <2>2. CASE b = <<>>
    BY <2>1, <2>2, <1>1 DEF Ready, Progress
  <2>3. CASE b # <<>>
    <3>1. b[1] \in Packets /\ r # <<>>
      BY <2>1, <2>3
    <3>2. Size(b[1]) \in Nat \ {0}
      BY <3>1 DEF SizeIsLength
    <3> QED
      BY <2>1, <3>1, <3>2, <1>1 DEF Ready, Progress
  <2> QED
    BY <2>2, <2>3
<1>3. CASE q # <<>>
  <2>1. r # <<>> /\ r[1] = q[1]
    BY <1>3
  <2> QED
    BY <2>1, <1>1, <1>3 DEF Ready, Progress
<1> QED
  BY <1>2, <1>3

\* _onPublish adds one acknowledgement at most, of the kind the QoS asks for and
\* with the message's identifier.
LEMMA Acknowledged ==
  ASSUME NEW c \in Seq(Packets), NEW p \in Messages
  PROVE  \E a \in Seq(Packets) :
           /\ acknowledge(c, p.qos, p.id) = c \o a
           /\ p.qos = 0 => a = <<>>
           /\ p.qos = 1 => a = <<Packet("PUBACK", p.id)>>
           /\ p.qos = 2 => a = <<Packet("PUBREC", p.id)>>
<1>1. p.qos \in 0..2 /\ p.id \in Nat
  <2>1. p.qos \in Qos /\ p.id \in 0..MaxCommands
    BY DEF Messages
  <2>2. Qos \subseteq 0..2 /\ MaxCommands \in Nat
    BY SessionAssumption
  <2>3. p.qos \in 0..2
    BY <2>1, <2>2, Zenon
  <2>4. p.id \in Nat
    BY <2>1, <2>2
  <2> QED
    BY <2>3, <2>4
<1>2. Packet("PUBACK", p.id) \in Packets /\ Packet("PUBREC", p.id) \in Packets
  BY <1>1, PacketsMade DEF PacketTypes
<1> DEFINE r == acknowledge(c, p.qos, p.id)
<1>6. \/ p.qos = 0 /\ r = c
      \/ p.qos = 1 /\ r = Append(c, Packet("PUBACK", p.id))
      \/ p.qos = 2 /\ r = Append(c, Packet("PUBREC", p.id))
  BY <1>1 DEF acknowledge
<1> HIDE DEF r
<1>7. \E a \in Seq(Packets) :
        /\ r = c \o a
        /\ p.qos = 0 => a = <<>>
        /\ p.qos = 1 => a = <<Packet("PUBACK", p.id)>>
        /\ p.qos = 2 => a = <<Packet("PUBREC", p.id)>>
  <2> DEFINE p1 == Packet("PUBACK", p.id)
             p2 == Packet("PUBREC", p.id)
  <2>1. /\ Append(c, p1) = c \o <<p1>> /\ <<p1>> \in Seq(Packets)
        /\ Append(c, p2) = c \o <<p2>> /\ <<p2>> \in Seq(Packets)
    BY <1>2, AppendIsJoin
  <2>2. c \o <<>> = c /\ <<>> \in Seq(Packets)
    OBVIOUS
  <2>3. \/ p.qos = 0 /\ r = c \o <<>>
        \/ p.qos = 1 /\ r = c \o <<p1>>
        \/ p.qos = 2 /\ r = c \o <<p2>>
    BY <1>6, <2>1, <2>2
  <2>4. 0 # 1 /\ 0 # 2 /\ 1 # 2
    OBVIOUS
  <2> QED
    BY <2>1, <2>2, <2>3, <2>4, Zenon
<1> QED
  BY <1>7 DEF r

\* What stays in the queue when the connection ends.
LEMMA SessionKept ==
  ASSUME SizeIsLength, NEW q \in Seq(Packets), NEW s, NEW r, r = keepSession(q, s)
  PROVE  /\ r \in Seq(Packets)
         /\ \A k \in 1..Len(r) :
              \E j \in 1..Len(q) :
                /\ Kept(q[j]) /\ r[k].type = q[j].type /\ r[k].id = q[j].id
                /\ r[k].body = q[j].body /\ r[k].released = q[j].released
<1> DEFINE I == {i \in DOMAIN q : Kept(q[i])}
           kept == Select(q, I)
           S == Packets
<1>1. kept \in Seq(Packets) /\ Picks(q, I, kept, Len(q))
  BY Selected
<1>2. r = [i \in 1..Len(kept) |->
             IF kept[i].type = "PUBLISH" /\ Size(kept[i]) <= s
             THEN [kept[i] EXCEPT !.dup = TRUE] ELSE kept[i]]
  BY DEF keepSession
<1> HIDE DEF kept
<1>3. ASSUME NEW i \in 1..Len(kept)
      PROVE  /\ r[i] \in Packets /\ r[i].type = kept[i].type /\ r[i].id = kept[i].id
             /\ r[i].body = kept[i].body /\ r[i].released = kept[i].released
  <2>1. kept[i] \in Packets
    BY <1>1
  <2>2. r[i] = kept[i] \/ r[i] = [kept[i] EXCEPT !.dup = TRUE]
    BY <1>2
  <2> QED
    BY <2>1, <2>2 DEF Packets
<1>4. r \in [1..Len(kept) -> Packets] /\ Len(kept) \in Nat
  BY <1>1, <1>2, <1>3
<1>5. r \in Seq(Packets) /\ Len(r) = Len(kept)
  BY <1>4
<1>6. ASSUME NEW k \in 1..Len(r)
      PROVE  \E j \in 1..Len(q) :
                /\ Kept(q[j]) /\ r[k].type = q[j].type /\ r[k].id = q[j].id
                /\ r[k].body = q[j].body /\ r[k].released = q[j].released
  <2>1. PICK j \in 1..Len(q) : j \in I /\ kept[k] = q[j]
    BY <1>1, <1>5 DEF Picks
  <2>2. /\ r[k].type = kept[k].type /\ r[k].id = kept[k].id
        /\ r[k].body = kept[k].body /\ r[k].released = kept[k].released
    BY <1>3, <1>5
  <2> QED
    BY <2>1, <2>2
<1> QED
  BY <1>5, <1>6

---------------------------------------------------------------------------
(* The steps of the conversation, in the terms of the lemmas above, and the
   types. *)

\* What the handlers hand to _handleQueue.
LEMMA Connecting ==
  ASSUME SizeIsLength, Typed, TcpConnects
  PROVE  \E q : /\ Ready(q, sent) /\ Send(q, sent) /\ q = addFront(queue, Packet("CONNECT", 0))
                /\ sent = 0 /\ c2b = <<>> /\ b2c = <<>>
<1>1. queue \in Seq(Packets) /\ sent = 0 /\ c2b = <<>> /\ b2c = <<>>
  BY DEF Typed, ClientTyped, StreamsTyped, TcpConnects
<1>2. Send(addFront(queue, Packet("CONNECT", 0)), sent)
  BY DEF TcpConnects
<1> QED
  BY <1>1, <1>2, ConnectQueue

\* onConnAck in these terms: SUBSCRIBE, the initial values, nothing else.
LEMMA Connected ==
  ASSUME SizeIsLength, Typed, onConnAck
  PROVE  \E o \in Published(sendInitValues(data)) :
           \E q : /\ Ready(q, 0) /\ Send(q, 0)
                  /\ q = <<Packet("SUBSCRIBE", packetId')>> \o o.packets
                  /\ o.packets \in Seq(Packets)
                  /\ \A k \in 1..Len(o.packets) : o.packets[k].type = "PUBLISH"
                  /\ refused' = o.refused
<1>1. data \in WhirlpoolYJ1BData /\ packetId' \in Nat
  BY DEF Typed, ClientTyped, onConnAck, InRange
<1>2. sendInitValues(data) \in Seq(BodiesOf(data))
  BY InitTold
<1>3. PICK o \in Published(sendInitValues(data)) :
        /\ Send(<<Packet("SUBSCRIBE", packetId')>> \o o.packets, 0)
        /\ refused' = o.refused
  BY DEF onConnAck, initValues
<1>4. /\ o.packets \in Seq(Packets)
      /\ \A k \in 1..Len(o.packets) : o.packets[k].type = "PUBLISH"
  BY <1>1, <1>2, PublishedPackets
<1> DEFINE p == Packet("SUBSCRIBE", packetId')
           q == <<p>> \o o.packets
<1>5. p \in Packets
  BY <1>1, PacketsMade DEF PacketTypes
<1>6. Size(p) \in Nat \ {0}
  BY <1>5 DEF SizeIsLength
<1> HIDE DEF p
<1>7. q \in Seq(Packets) /\ q[1] = p /\ q # <<>>
  BY <1>4, <1>5, Prefixed
<1> HIDE DEF q
<1>8. Ready(q, 0)
  BY <1>6, <1>7 DEF Ready, Progress
<1> QED
  BY <1>3, <1>4, <1>8 DEF q, p

\* The queue with its head released, if at all.
ReleasedAtMost(q, id) ==
  /\ Len(q) = Len(queue)
  /\ \A k \in 1..Len(q) : q[k] = queue[k] \/
       (k = 1 /\ queue[1].id = id /\ q[k] = [queue[1] EXCEPT !.released = TRUE])

\* onSubAck changes nothing but the head's being released.
LEMMA Subscribing ==
  ASSUME SizeIsLength, Typed, NEW id \in Nat, NEW q, q = released(queue, id)
  PROVE  Ready(q, sent) /\ ReleasedAtMost(q, id)
<1>1. queue \in Seq(Packets) /\ sent \in Nat /\ Progress(queue, sent)
  BY DEF Typed, ClientTyped
<1>2. CASE headHas(queue, id)
  <2>1. q = releaseHead(queue)
    BY <1>2, Zenon DEF released
  <2>2. queue # <<>> /\ queue[1].id = id
    BY <1>1, <1>2 DEF headHas
  <2>3. /\ Ready(q, sent) /\ Len(q) = Len(queue) /\ q[1] = [queue[1] EXCEPT !.released = TRUE]
        /\ \A k \in 2..Len(queue) : q[k] = queue[k]
    BY <1>1, <2>1, <2>2, HeadReleased
  <2>4. \A k \in 1..Len(q) : k = 1 \/ k \in 2..Len(queue)
    BY <1>1, <2>3
  <2> QED
    BY <2>2, <2>3, <2>4 DEF ReleasedAtMost
<1>3. CASE ~headHas(queue, id)
  <2>1. q = queue
    BY <1>3, Zenon DEF released
  <2> QED
    BY <1>1, <2>1 DEF Ready, ReleasedAtMost
<1> QED
  BY <1>2, <1>3

\* What onPublish(p) does: the effect e on the object, the publications o made
\* for it, and the queue q with the acknowledgement a.
Handles(p, e, o, q, j, a) ==
  /\ Effect(e, data) /\ data' = e.data /\ e.pubs \in Seq(BodiesOf(e.data))
  /\ ~notifyPublish(p) => e.pubs = <<>>
  /\ o \in Published(e.pubs) /\ o.packets \in Seq(Packets)
  /\ \A k \in 1..Len(o.packets) : o.packets[k].type = "PUBLISH"
  /\ Ready(q, sent) /\ Send(q, sent)
  /\ j = queue \o o.packets /\ q = j \o a /\ a \in Seq(Packets)
  /\ p.qos = 0 => a = <<>>
  /\ p.qos = 1 => a = <<Packet("PUBACK", p.id)>>
  /\ p.qos = 2 => a = <<Packet("PUBREC", p.id)>>
  /\ refused' = o.refused
  /\ applied' = IF notifyPublish(p) THEN Append(applied, p.n) ELSE applied

\* onPublish does that.
LEMMA Handling ==
  ASSUME SizeIsLength, Typed, NEW p \in Messages, onPublish(p)
  PROVE  \E e, o, q, j, a : Handles(p, e, o, q, j, a)
<1> DEFINE E(t) == IF notifyPublish(p)
                   THEN parseMessage(p.cmd.levels, p.cmd.payload, data, t)
                   ELSE Nothing(data)
<1>1. PICK t \in Times :
        LET e == E(t)
        IN  /\ ~e.abort /\ data' = e.data
            /\ applied' = IF notifyPublish(p) THEN Append(applied, p.n) ELSE applied
            /\ \E o \in Published(e.pubs) :
                 /\ Send(acknowledge(queue \o o.packets, p.qos, p.id), sent)
                 /\ refused' = o.refused /\ refusals' = o.refusals
  BY Zenon DEF onPublish
<1> DEFINE e == E(t)
<1>2. queue \in Seq(Packets) /\ sent \in Nat /\ Progress(queue, sent) /\ InRange(data)
  BY DEF Typed, ClientTyped
<1>3. t \in TimeOfDay
  BY SessionAssumption
<1>4. Effect(e, data)
  <2>1. CASE notifyPublish(p)
    <3>1. e = parseMessage(p.cmd.levels, p.cmd.payload, data, t)
      BY <2>1
    <3> HIDE DEF e
    <3> QED
      BY <1>2, <1>3, <3>1, Parsed
  <2>2. CASE ~notifyPublish(p)
    <3>1. e = Nothing(data)
      BY <2>2
    <3> HIDE DEF e
    <3> QED
      BY <1>2, <3>1, NothingDone
  <2> QED
    BY <2>1, <2>2
<1>5. ~notifyPublish(p) => e.pubs = <<>>
  BY DEF Nothing
<1>6. /\ data' = e.data
      /\ applied' = IF notifyPublish(p) THEN Append(applied, p.n) ELSE applied
      /\ \E o \in Published(e.pubs) :
           /\ Send(acknowledge(queue \o o.packets, p.qos, p.id), sent)
           /\ refused' = o.refused
  BY <1>1, Zenon
<1> HIDE DEF e
<1>7. e.pubs \in Seq(BodiesOf(e.data)) /\ e.data \in WhirlpoolYJ1BData
  BY <1>4, EffectTold DEF Effect, InRange
<1>8. PICK o \in Published(e.pubs) :
           /\ Send(acknowledge(queue \o o.packets, p.qos, p.id), sent)
           /\ refused' = o.refused
  BY <1>6
<1>9. /\ o.packets \in Seq(Packets)
      /\ \A k \in 1..Len(o.packets) : o.packets[k].type = "PUBLISH"
  BY <1>7, PublishedPackets
<1> DEFINE j == queue \o o.packets
<1>10. Ready(j, sent)
  BY <1>2, <1>9, AppendedQueue
<1>11. Send(acknowledge(j, p.qos, p.id), sent)
  BY <1>8
<1>12. j = queue \o o.packets
  OBVIOUS
<1> HIDE DEF j
<1>13. j \in Seq(Packets) /\ Progress(j, sent)
  BY <1>10 DEF Ready
<1>14. PICK a \in Seq(Packets) :
           /\ acknowledge(j, p.qos, p.id) = j \o a
           /\ p.qos = 0 => a = <<>>
           /\ p.qos = 1 => a = <<Packet("PUBACK", p.id)>>
           /\ p.qos = 2 => a = <<Packet("PUBREC", p.id)>>
  BY <1>13, Acknowledged
<1> DEFINE q == j \o a
<1>15. Ready(q, sent)
  BY <1>2, <1>13, AppendedQueue
<1>16. Send(q, sent)
  BY <1>11, <1>14
<1>17. q = j \o a
  OBVIOUS
<1> HIDE DEF q
<1> QED
  BY <1>4, <1>5, <1>6, <1>7, <1>8, <1>9, <1>12, <1>14, <1>15, <1>16, <1>17, Zenon
     DEF Handles

\* onPubRel leaves a queue that can be handled.
LEMMA Releasing ==
  ASSUME SizeIsLength, Typed, NEW id \in Nat, NEW q, q = pubRel(queue, id)
  PROVE  Ready(q, sent)
<1>1. queue \in Seq(Packets) /\ sent \in Nat /\ Progress(queue, sent)
  BY DEF Typed, ClientTyped
<1>2. CASE headHas(queue, id)
  BY <1>1, <1>2, PubRelQueue
<1>3. CASE ~headHas(queue, id)
  BY <1>1, <1>3 DEF pubRel, Ready
<1> QED
  BY <1>2, <1>3

\* So does the client when it is polled.
LEMMA Sending ==
  ASSUME Typed
  PROVE  Ready(queue, sent)
  BY DEF Typed, ClientTyped, Ready

\* QueueTyped in the state of the client.
LEMMA ReadySent ==
  ASSUME SizeIsLength, Typed, NEW q, NEW s, Ready(q, s), Send(q, s)
  PROVE  /\ queue' \in Seq(Packets) /\ sent' \in Nat /\ Progress(queue', sent')
         /\ c2b' \in Seq(OutUnits) /\ Len(c2b') <= Room
<1>1. q \in Seq(Packets) /\ s \in Nat /\ Progress(q, s)
  BY DEF Ready
<1>2. c2b \in Seq(OutUnits) /\ Len(c2b) <= Room
  BY DEF Typed, StreamsTyped
<1> QED
  BY <1>1, <1>2, QueueTyped

\* ClientReceives in these terms.
LEMMA Received ==
  ASSUME Typed, ClientReceives
  PROVE  \E p \in InPackets :
           /\ p = b2c[1] /\ b2c # <<>> /\ Len(b2c') = Len(b2c) - 1 /\ b2c' \in Seq(InPackets)
           /\ \A i \in 1..Len(b2c') : b2c'[i] = b2c[i + 1] /\ i + 1 \in 1..Len(b2c)
           /\ \/ p.type = "CONNACK" /\ onConnAck
              \/ p.type = "SUBACK" /\ p.id \in Nat /\ onSubAck(p)
              \/ p.type = "PUBLISH" /\ p \in Messages /\ onPublish(p)
              \/ p.type = "PUBREL" /\ p.id \in Nat /\ onPubRel(p)
<1>1. b2c \in Seq(InPackets) /\ b2c # <<>> /\ b2c' = Tail(b2c)
  BY DEF Typed, StreamsTyped, ClientReceives
<1> DEFINE p == Head(b2c)
<1>2. p = b2c[1] /\ p \in InPackets /\ Len(b2c) > 0 /\ Len(b2c) \in Nat
  BY <1>1
<1>3. b2c' \in Seq(InPackets) /\ Len(b2c') = Len(b2c) - 1
  BY <1>1
<1>4. \A i \in 1..Len(b2c') : b2c'[i] = b2c[i + 1] /\ i + 1 \in 1..Len(b2c)
  BY <1>1, <1>2, <1>3
<1>5. \/ p.type = "CONNACK" /\ onConnAck
      \/ p.type = "SUBACK" /\ onSubAck(p)
      \/ p.type = "PUBLISH" /\ onPublish(p)
      \/ p.type = "PUBREL" /\ onPubRel(p)
  BY DEF ClientReceives
<1> HIDE DEF p
<1>6. /\ p.type \in {"SUBACK", "PUBREL"} => p.id \in Nat
      /\ p.type = "PUBLISH" => p \in Messages
  BY <1>2 DEF InPackets, Messages
<1> QED
  BY <1>1, <1>2, <1>3, <1>4, <1>5, <1>6

\* What remains of a sequence without its first N elements, place by place.
LEMMA Cut ==
  ASSUME NEW S, NEW s \in Seq(S), NEW N \in Nat \ {0}, N <= Len(s),
         NEW r, r = SubSeq(s, N + 1, Len(s))
  PROVE  /\ r \in Seq(S) /\ Len(r) = Len(s) - N
         /\ \A i \in 1..Len(r) : r[i] = s[i + N] /\ i + N \in 1..Len(s)
<1>1. r \in Seq(S)
  OBVIOUS
<1>2. Len(r) = Len(s) - N
  OBVIOUS
<1>3. \A i \in 1..Len(r) : i + N \in 1..Len(s)
  BY <1>2
<1>4. \A i \in 1..Len(r) : r[i] = s[i + N]
  BY <1>2, <1>3
<1> QED
  BY <1>1, <1>2, <1>3, <1>4

\* BrokerReceives in these terms: the N units of one packet leave the stream.
LEMMA Taken ==
  ASSUME Typed, BrokerReceives
  PROVE  \E u \in OutUnits, N \in Nat \ {0} :
           /\ u = c2b[1] /\ N = u.of /\ N <= Len(c2b) /\ c2b # <<>> /\ BrokerTakes(u)
           /\ \A i \in 1..N : c2b[i] = [u EXCEPT !.unit = i] /\ i \in 1..Len(c2b)
           /\ c2b' \in Seq(OutUnits) /\ Len(c2b') = Len(c2b) - N
           /\ \A i \in 1..Len(c2b') : c2b'[i] = c2b[i + N] /\ i + N \in 1..Len(c2b)
<1>1. /\ c2b \in Seq(OutUnits) /\ c2b # <<>> /\ Len(c2b) >= Head(c2b).of
      /\ \A i \in 1..Head(c2b).of : c2b[i] = [Head(c2b) EXCEPT !.unit = i]
      /\ c2b' = SubSeq(c2b, Head(c2b).of + 1, Len(c2b)) /\ BrokerTakes(Head(c2b))
  BY DEF Typed, StreamsTyped, BrokerReceives, Complete
<1> DEFINE u == Head(c2b)
           N == u.of
<1>2. u = c2b[1] /\ u \in OutUnits /\ Len(c2b) \in Nat /\ Len(c2b) > 0
  BY <1>1
<1>3. N \in Nat \ {0}
  BY <1>2 DEF OutUnits
<1>4. N <= Len(c2b) /\ c2b' = SubSeq(c2b, N + 1, Len(c2b))
  BY <1>1, <1>2, <1>3
<1>5. \A i \in 1..N : c2b[i] = [u EXCEPT !.unit = i] /\ i \in 1..Len(c2b)
  BY <1>1, <1>2, <1>3, <1>4
<1>6. BrokerTakes(u)
  BY <1>1
<1> HIDE DEF u, N
<1>7. /\ c2b' \in Seq(OutUnits) /\ Len(c2b') = Len(c2b) - N
      /\ \A i \in 1..Len(c2b') : c2b'[i] = c2b[i + N] /\ i + N \in 1..Len(c2b)
  BY <1>1, <1>3, <1>4, Cut
<1> QED
  BY <1>1, <1>2, <1>3, <1>4, <1>5, <1>6, <1>7 DEF N

\* The initial state has the types.
LEMMA TypedFirst == SizeIsLength /\ Init => Typed
<1> SUFFICES ASSUME SizeIsLength, Init PROVE Typed
  OBVIOUS
<1>1. ClientTyped
  BY PowerOnInRange DEF Init, ClientTyped, Progress
<1>2. StreamsTyped
  BY SessionAssumption DEF Init, StreamsTyped
<1>3. BrokerTyped
  BY SessionAssumption DEF Init, BrokerTyped
<1> QED
  BY <1>1, <1>2, <1>3 DEF Typed

\* The client's handlers keep the types.
LEMMA TypedReceives == SizeIsLength /\ Typed /\ ClientReceives => Typed'
<1> SUFFICES ASSUME SizeIsLength, Typed, ClientReceives PROVE Typed'
  OBVIOUS
<1>1. PICK p \in InPackets :
           /\ p = b2c[1] /\ b2c # <<>> /\ Len(b2c') = Len(b2c) - 1 /\ b2c' \in Seq(InPackets)
           /\ \A i \in 1..Len(b2c') : b2c'[i] = b2c[i + 1] /\ i + 1 \in 1..Len(b2c)
           /\ \/ p.type = "CONNACK" /\ onConnAck
              \/ p.type = "SUBACK" /\ p.id \in Nat /\ onSubAck(p)
              \/ p.type = "PUBLISH" /\ p \in Messages /\ onPublish(p)
              \/ p.type = "PUBREL" /\ p.id \in Nat /\ onPubRel(p)
  BY Received
<1>2. BrokerTyped'
  BY DEF Typed, BrokerTyped, ClientReceives, broker
<1>3. state # "DISCONNECTED"
  BY <1>1 DEF Typed, StreamsTyped
<1>4. /\ InRange(data) /\ state \in {"DISCONNECTED", "CONNECTING", "CONNECTED"}
      /\ pubrels \subseteq 1..MaxCommands /\ packetId \in Nat
  BY DEF Typed, ClientTyped
<1> DEFINE Sent == /\ queue' \in Seq(Packets) /\ sent' \in Nat /\ Progress(queue', sent')
                   /\ c2b' \in Seq(OutUnits) /\ Len(c2b') <= Room
<1>5. ASSUME p.type = "CONNACK", onConnAck
      PROVE  /\ Sent /\ state' = "CONNECTED" /\ InRange(data')
             /\ pubrels' \subseteq 1..MaxCommands /\ packetId' \in Nat
  <2>1. Sent
    BY <1>5, Connected, ReadySent
  <2> QED
    BY <2>1, <1>4, <1>5 DEF onConnAck, pubrelsCleared
<1>6. ASSUME p.type = "SUBACK", p.id \in Nat, onSubAck(p)
      PROVE  /\ Sent /\ state' = state /\ InRange(data')
             /\ pubrels' \subseteq 1..MaxCommands /\ packetId' \in Nat
  <2>1. Send(released(queue, p.id), sent)
    BY <1>6 DEF onSubAck
  <2>2. Ready(released(queue, p.id), sent)
    BY <1>6, Subscribing
  <2>3. Sent
    BY <2>1, <2>2, ReadySent
  <2> QED
    BY <2>3, <1>4, <1>6 DEF onSubAck
<1>7. ASSUME p.type = "PUBLISH", p \in Messages, onPublish(p)
      PROVE  /\ Sent /\ state' = state /\ InRange(data')
             /\ pubrels' \subseteq 1..MaxCommands /\ packetId' \in Nat
  <2>1. PICK e, o, q, j, a : Handles(p, e, o, q, j, a)
    BY <1>7, Handling
  <2>2. Sent
    BY <2>1, ReadySent DEF Handles
  <2>3. InRange(data')
    BY <2>1 DEF Handles, Effect
  <2>4. p.qos = 2 => p.id \in 1..MaxCommands
    <3>1. p.id \in 0..MaxCommands /\ (p.qos # 0 => p.id # 0)
      BY <1>7 DEF Messages
    <3> QED
      BY <3>1
  <2>5. /\ pubrels' = IF p.qos = 2 THEN pubrels \cup {p.id} ELSE pubrels
        /\ UNCHANGED <<state, packetId, connects>>
    BY <1>7 DEF onPublish
  <2> QED
    BY <2>2, <2>3, <2>4, <2>5, <1>4
<1>8. ASSUME p.type = "PUBREL", p.id \in Nat, onPubRel(p)
      PROVE  /\ Sent /\ state' = state /\ InRange(data')
             /\ pubrels' \subseteq 1..MaxCommands /\ packetId' \in Nat
  <2>1. Send(pubRel(queue, p.id), sent)
    BY <1>8 DEF onPubRel
  <2>2. Ready(pubRel(queue, p.id), sent)
    BY <1>8, Releasing
  <2>3. Sent
    BY <2>1, <2>2, ReadySent
  <2> QED
    BY <2>3, <1>4, <1>8 DEF onPubRel
<1>9. /\ Sent /\ InRange(data') /\ (state' = state \/ state' = "CONNECTED")
      /\ pubrels' \subseteq 1..MaxCommands /\ packetId' \in Nat
  BY <1>1, <1>5, <1>6, <1>7, <1>8
<1>10. ClientTyped'
  BY <1>4, <1>9 DEF ClientTyped
<1>11. StreamsTyped'
  BY <1>1, <1>3, <1>9 DEF StreamsTyped
<1> QED
  BY <1>2, <1>10, <1>11 DEF Typed

\* So does the broker when it takes a packet; ...
LEMMA TypedBroker == SizeIsLength /\ Typed /\ BrokerReceives => Typed'
<1> SUFFICES ASSUME SizeIsLength, Typed, BrokerReceives PROVE Typed'
  OBVIOUS
<1>1. PICK u \in OutUnits, N \in Nat \ {0} :
           /\ u = c2b[1] /\ N = u.of /\ N <= Len(c2b) /\ c2b # <<>> /\ BrokerTakes(u)
           /\ c2b' \in Seq(OutUnits) /\ Len(c2b') = Len(c2b) - N
  BY Taken
<1>2. ClientTyped'
  BY DEF Typed, ClientTyped, BrokerReceives, client
<1>3. u.id \in Nat
  BY DEF OutUnits
<1>4. b2c \in Seq(InPackets) /\ inflight \subseteq Flows /\ BrokerTyped
  BY DEF Typed, StreamsTyped, BrokerTyped
<1>5. \A t \in {"SUBACK", "PUBREL"} : [type |-> t, id |-> u.id] \in InPackets
  BY <1>3 DEF InPackets
<1>6. [type |-> "CONNACK"] \in InPackets
  BY DEF InPackets
<1>7. /\ b2c' = b2c \/ \E a \in InPackets : b2c' = Append(b2c, a)
      /\ \/ inflight' \subseteq inflight
         \/ inflight' = (inflight \ Flow(u.id, "pubrec")) \cup
              {[f EXCEPT !.phase = "pubcomp"] : f \in Flow(u.id, "pubrec")}
      /\ issued' = issued /\ lastId' = lastId
  BY <1>1, <1>5, <1>6 DEF BrokerTakes, Answer, FinishFlow, broker
<1>8. b2c' \in Seq(InPackets)
  BY <1>4, <1>7
<1>9. inflight' \subseteq Flows
  <2>1. \A f \in Flows : [f EXCEPT !.phase = "pubcomp"] \in Flows
    BY DEF Flows
  <2>2. Flow(u.id, "pubrec") \subseteq inflight
    BY DEF Flow
  <2> QED
    BY <2>1, <2>2, <1>4, <1>7
<1>10. BrokerTyped'
  BY <1>4, <1>7, <1>9 DEF BrokerTyped
<1>11. state' = state /\ state # "DISCONNECTED" /\ Len(c2b') <= Room
  <2>1. Len(c2b) \in Nat /\ Len(c2b) <= Room /\ (state = "DISCONNECTED" => c2b = <<>>)
    BY DEF Typed, StreamsTyped
  <2>2. Room \in Nat
    BY SessionAssumption
  <2> QED
    BY <1>1, <2>1, <2>2 DEF BrokerReceives, client
<1>12. StreamsTyped'
  BY <1>1, <1>8, <1>11 DEF StreamsTyped
<1> QED
  BY <1>2, <1>10, <1>12 DEF Typed

\* ... when a command is published, which uses up an identifier only with it;
\* ...
LEMMA TypedCommand ==
  ASSUME Typed, NEW c \in Commands, NEW q \in Qos, Command(c, q)
  PROVE  Typed'
<1>1. /\ issued' = Append(issued, q) /\ Len(issued) < MaxCommands
      /\ lastId' = IF q = 0 THEN lastId ELSE lastId + 1
      /\ b2c' = Append(b2c, Message(c, q, Len(issued'), IF q = 0 THEN 0 ELSE lastId'))
      /\ inflight' = IF q = 0 THEN inflight
                     ELSE inflight \cup
                          {[id |-> lastId', n |-> Len(issued'), cmd |-> c, qos |-> q,
                            phase |-> IF q = 1 THEN "puback" ELSE "pubrec"]}
      /\ UNCHANGED <<client, c2b>>
  BY DEF Command, Answer
<1>2. /\ issued \in Seq(Qos) /\ lastId \in 0..Len(issued) /\ inflight \subseteq Flows
      /\ b2c \in Seq(InPackets) /\ MaxCommands \in Nat
  BY SessionAssumption DEF Typed, BrokerTyped, StreamsTyped
<1>3. /\ issued' \in Seq(Qos) /\ Len(issued') = Len(issued) + 1 /\ Len(issued') <= MaxCommands
      /\ Len(issued') \in 1..MaxCommands /\ lastId' \in 0..Len(issued')
      /\ q # 0 => lastId' \in 1..MaxCommands
  BY <1>1, <1>2
<1>4. Message(c, q, Len(issued'), IF q = 0 THEN 0 ELSE lastId') \in InPackets
  BY <1>2, <1>3 DEF Message, InPackets, Messages
<1>5. b2c' \in Seq(InPackets)
  BY <1>1, <1>2, <1>4
<1>6. q # 0 => [id |-> lastId', n |-> Len(issued'), cmd |-> c, qos |-> q,
                phase |-> IF q = 1 THEN "puback" ELSE "pubrec"] \in Flows
  BY <1>3 DEF Flows
<1>7. inflight' \subseteq Flows
  BY <1>1, <1>2, <1>6
<1>8. ClientTyped' /\ StreamsTyped'
  <2>1. state # "DISCONNECTED"
    BY DEF Typed, StreamsTyped, Command
  <2> QED
    BY <1>1, <1>5, <2>1 DEF Typed, ClientTyped, StreamsTyped, client
<1>9. BrokerTyped'
  BY <1>3, <1>7 DEF BrokerTyped
<1> QED
  BY <1>8, <1>9 DEF Typed
\* ... and when it repeats one.
LEMMA TypedRetries == Typed /\ BrokerRetries => Typed'
<1> SUFFICES ASSUME Typed, BrokerRetries PROVE Typed'
  OBVIOUS
<1>1. /\ inflight \subseteq Flows /\ b2c \in Seq(InPackets) /\ Flows \subseteq Flows
      /\ state = "DISCONNECTED" => inflight = {}
  BY DEF Typed, BrokerTyped, StreamsTyped
<1>2. PICK f \in inflight :
        b2c' = Append(b2c, IF f.phase = "pubcomp" THEN [type |-> "PUBREL", id |-> f.id]
                           ELSE Message(f.cmd, f.qos, f.n, f.id))
  BY DEF BrokerRetries, Answer
<1>3. f \in Flows /\ MaxCommands \in Nat
  BY <1>1, SessionAssumption
<1>4. [type |-> "PUBREL", id |-> f.id] \in InPackets
  BY <1>3 DEF Flows, InPackets
<1>5. Message(f.cmd, f.qos, f.n, f.id) \in InPackets
  BY <1>3 DEF Flows, InPackets, Messages, Message
<1>6. b2c' \in Seq(InPackets)
  BY <1>1, <1>2, <1>4, <1>5
<1>7. state # "DISCONNECTED"
  BY <1>1
<1>8. UNCHANGED <<client, c2b, subscribed, inflight, lastId, issued>>
  BY DEF BrokerRetries
<1> QED
  BY <1>6, <1>7, <1>8 DEF Typed, ClientTyped, StreamsTyped, BrokerTyped, client

\* connect() keeps the types: nothing was sent of what was kept.
LEMMA TypedConnects == SizeIsLength /\ Typed /\ TcpConnects => Typed'
<1> SUFFICES ASSUME SizeIsLength, Typed, TcpConnects PROVE Typed'
  OBVIOUS
<1>1. PICK q : Ready(q, sent) /\ Send(q, sent)
  BY Connecting
<1>2. /\ queue' \in Seq(Packets) /\ sent' \in Nat /\ Progress(queue', sent')
      /\ c2b' \in Seq(OutUnits) /\ Len(c2b') <= Room
  BY <1>1, ReadySent
<1>3. /\ state' = "CONNECTING"
      /\ UNCHANGED <<data, pubrels, packetId, b2c, broker>>
  BY DEF TcpConnects
<1>4. ClientTyped'
  BY <1>2, <1>3 DEF Typed, ClientTyped
<1>5. StreamsTyped' /\ BrokerTyped'
  BY <1>2, <1>3 DEF Typed, StreamsTyped, BrokerTyped, broker
<1> QED
  BY <1>4, <1>5 DEF Typed

\* So does the end of a connection, and of the program.
LEMMA TypedDrops == SizeIsLength /\ Typed /\ (TcpDrops \/ Restarts) => Typed'
<1> SUFFICES ASSUME SizeIsLength, Typed, TcpDrops \/ Restarts PROVE Typed'
  OBVIOUS
<1>1. /\ state' = "DISCONNECTED" /\ sent' = 0 /\ c2b' = <<>> /\ b2c' = <<>>
      /\ subscribed' = FALSE /\ inflight' = {} /\ lastId' = 0 /\ issued' = issued
      /\ data' \in {data, PowerOnData} /\ pubrels' \in {pubrels, {}}
      /\ packetId' \in {packetId, 0}
  BY DEF TcpDrops, Restarts
<1>2. queue' \in Seq(Packets)
  <2>1. CASE TcpDrops
    <3>1. queue \in Seq(Packets) /\ queue' = keepSession(queue, sent)
      BY <2>1 DEF TcpDrops, Typed, ClientTyped
    <3> QED
      BY <3>1, SessionKept
  <2>2. CASE Restarts
    BY <2>2 DEF Restarts
  <2> QED
    BY <2>1, <2>2
<1>3. Progress(queue', 0)
  <2>1. queue' # <<>> => Size(queue'[1]) \in Nat \ {0}
    <3>1. queue' # <<>> => queue'[1] \in Packets
      BY <1>2
    <3> QED
      BY <3>1 DEF SizeIsLength
  <2> QED
    BY <2>1 DEF Progress
<1>4. ClientTyped'
  BY <1>1, <1>2, <1>3, PowerOnInRange DEF Typed, ClientTyped
<1>5. StreamsTyped'
  BY <1>1, SessionAssumption DEF StreamsTyped
<1>6. BrokerTyped'
  BY <1>1 DEF Typed, BrokerTyped
<1> QED
  BY <1>4, <1>5, <1>6 DEF Typed

\* And the client when it is polled.
LEMMA TypedSends == SizeIsLength /\ Typed /\ ClientSends => Typed'
<1> SUFFICES ASSUME SizeIsLength, Typed, ClientSends PROVE Typed'
  OBVIOUS
<1>1. /\ queue' \in Seq(Packets) /\ sent' \in Nat /\ Progress(queue', sent')
      /\ c2b' \in Seq(OutUnits) /\ Len(c2b') <= Room
  <2>1. Send(queue, sent) /\ Ready(queue, sent)
    BY Sending DEF ClientSends
  <2> QED
    BY <2>1, ReadySent
<1>2. UNCHANGED <<data, state, pubrels, packetId, b2c, broker>> /\ state # "DISCONNECTED"
  BY DEF ClientSends
<1>3. ClientTyped'
  BY <1>1, <1>2 DEF Typed, ClientTyped
<1>4. StreamsTyped' /\ BrokerTyped'
  BY <1>1, <1>2 DEF Typed, StreamsTyped, BrokerTyped, broker
<1> QED
  BY <1>3, <1>4 DEF Typed

\* Every step keeps the types.
LEMMA TypedStep == SizeIsLength /\ Typed /\ [Next]_vars => Typed'
<1> SUFFICES ASSUME SizeIsLength, Typed, [Next]_vars PROVE Typed'
  OBVIOUS
<1>1. CASE UNCHANGED vars
  BY <1>1 DEF vars, client, broker, Typed, ClientTyped, StreamsTyped, BrokerTyped
<1>2. CASE Next
  BY <1>2, TypedConnects, TypedDrops, TypedReceives, TypedSends, TypedBroker,
     TypedRetries, TypedCommand DEF Next
<1> QED
  BY <1>1, <1>2

\* The types hold.
LEMMA AlwaysTyped ==
  ASSUME SizeIsLength
  PROVE  Spec => []Typed
<1>1. Typed /\ [Next]_vars => Typed'
  BY TypedStep
<1>2. Init => Typed
  BY TypedFirst
<1> QED
  BY <1>1, <1>2, PTL DEF Spec

\* TypeOK holds: _sent is 0 with an empty queue, the stream never holds more
\* than the TCP buffer, and _pendingPubRels holds identifiers that were given to
\* commands (AsyncMqttClient.cpp:394-441 and 553-607).
THEOREM TypeCorrect ==
  ASSUME SizeIsLength
  PROVE  Spec => []TypeOK
<1>1. Typed => TypeOK
  BY DEF Typed, ClientTyped, StreamsTyped, TypeOK, InRange, Progress
<1> QED
  BY <1>1, AlwaysTyped, PTL

---------------------------------------------------------------------------
(* A packet that waits for its confirmation is travelling, or the confirmation is. *)

\* What confirms packet h.
AnswerTo(h) == IF h.type = "SUBSCRIBE" THEN "SUBACK" ELSE "PUBREL"

\* A packet h that waits is still travelling, or its confirmation is.
Travels(h) ==
  \/ InStream(c2b, h.type, h.id)
  \/ InStream(b2c, AnswerTo(h), h.id)

\* ConfirmationComes, with Head(queue) as queue[1].
HeadTravels == state = "CONNECTED" /\ HeadWaits => Travels(queue[1])

\* After _handleQueue a head that waits has just been written, or is the one
\* that waited before.
LEMMA WaitsAfter ==
  ASSUME SizeIsLength, Typed, NEW q, NEW s, Ready(q, s), Send(q, s), HeadWaits'
  PROVE  /\ queue' # <<>> /\ queue'[1].type \in Waiting
         /\ \/ InStream(c2b', queue'[1].type, queue'[1].id)
            \/ q # <<>> /\ s = Size(q[1]) /\ queue'[1] = q[1] /\ ~q[1].released
<1>1. PICK h, m, w : /\ Loop(q, s, Room - Len(c2b), h, Len(q), m, w)
                     /\ queue' = h.queue /\ sent' = h.sent /\ c2b' = c2b \o h.wire
  <2>1. q \in Seq(Packets) /\ s \in Nat /\ Progress(q, s)
    BY DEF Ready
  <2>2. c2b \in Seq(OutUnits) /\ Len(c2b) <= Room
    BY DEF Typed, StreamsTyped
  <2> QED
    BY <2>1, <2>2, Sends
<1>2. /\ m \in 0..Len(q) /\ h \in Cursors /\ Len(h.queue) = Len(q) - m
      /\ \A k \in 1..Len(q) - m : h.queue[k] = q[m + k]
  BY <1>1 DEF Loop, Remain
<1>3. h.queue \in Seq(Packets) /\ h.wire \in Seq(OutUnits) /\ q \in Seq(Packets)
  BY <1>2 DEF Cursors, Ready
<1>4. /\ queue' # <<>> /\ sent' = Size(queue'[1]) /\ ~queue'[1].released
      /\ Head(queue') = queue'[1]
  BY <1>1, <1>3 DEF HeadWaits
<1>5. m + 1 \in 1..Len(q) /\ 1 \in 1..Len(q) - m
  <2>1. Len(h.queue) # 0
    BY <1>1, <1>3, <1>4
  <2> QED
    BY <2>1, <1>2, <1>3
<1>6. queue'[1] = q[m + 1] /\ q # <<>> /\ q[m + 1] \in Packets
  BY <1>1, <1>2, <1>3, <1>5
<1>7. h.blocked
  <2>1. Len(q) # m
    BY <1>5
  <2>2. ~h.blocked => m = Len(q)
    BY <1>1 DEF Loop, Pace
  <2> QED
    BY <2>1, <2>2
<1>8. h.sent = Size(q[m + 1])
  BY <1>1, <1>4, <1>6
<1>9. \/ m = 0 /\ s = Size(q[1])
      \/ \E k \in 1..Len(h.wire) : w[k] = m + 1
  BY <1>1, <1>7, <1>8 DEF Loop, Accounted
<1>10. queue'[1].type \in Waiting
  BY <1>4, <1>6 DEF Packets
<1>11. CASE m = 0 /\ s = Size(q[1])
  BY <1>4, <1>6, <1>10, <1>11
<1>12. ASSUME NEW k \in 1..Len(h.wire), w[k] = m + 1
       PROVE  InStream(c2b', queue'[1].type, queue'[1].id)
  <2>1. IsUnitOf(h.wire[k], q[m + 1])
    BY <1>1, <1>12 DEF Loop, Wired
  <2>2. c2b \in Seq(OutUnits)
    BY DEF Typed, StreamsTyped
  <2>3. c2b'[Len(c2b) + k] = h.wire[k] /\ Len(c2b) + k \in 1..Len(c2b')
    BY <1>1, <1>3, <2>2, Joined
  <2> QED
    BY <2>1, <2>3, <1>6 DEF InStream, IsUnitOf
<1> QED
  BY <1>4, <1>9, <1>10, <1>11, <1>12

\* _handleQueue takes nothing out of the stream.
LEMMA StreamGrows ==
  ASSUME SizeIsLength, Typed, NEW q, NEW s, Ready(q, s), Send(q, s), NEW t, NEW id,
         InStream(c2b, t, id)
  PROVE  InStream(c2b', t, id)
<1>1. PICK h, m, w : /\ Loop(q, s, Room - Len(c2b), h, Len(q), m, w)
                     /\ c2b' = c2b \o h.wire
  <2>1. q \in Seq(Packets) /\ s \in Nat /\ Progress(q, s)
    BY DEF Ready
  <2>2. c2b \in Seq(OutUnits) /\ Len(c2b) <= Room
    BY DEF Typed, StreamsTyped
  <2> QED
    BY <2>1, <2>2, Sends
<1>2. h.wire \in Seq(OutUnits) /\ c2b \in Seq(OutUnits)
  BY <1>1 DEF Loop, Remain, Cursors, Typed, StreamsTyped
<1>3. \A x \in 1..Len(c2b) : c2b'[x] = c2b[x] /\ x \in 1..Len(c2b')
  BY <1>1, <1>2, Joined
<1> QED
  BY <1>3 DEF InStream

\* A head that waited before a call of _handleQueue made by a handler that
\* left it alone.
LEMMA StillTravels ==
  ASSUME SizeIsLength, Typed, HeadTravels, state = "CONNECTED",
         NEW q, Ready(q, sent), Send(q, sent), HeadWaits',
         q # <<>>, sent = Size(q[1]), queue'[1] = q[1], ~q[1].released,
         queue # <<>> => q[1] = queue[1] \/ q[1].released
  PROVE  /\ HeadWaits /\ queue'[1] = queue[1]
         /\ InStream(c2b', queue'[1].type, queue'[1].id) \/
            InStream(b2c, AnswerTo(queue[1]), queue[1].id)
<1>1. q[1] \in Packets
  BY DEF Ready
<1>2. Size(q[1]) # 0
  BY <1>1 DEF SizeIsLength
<1>3. queue # <<>> /\ queue \in Seq(Packets)
  BY <1>2 DEF Typed, ClientTyped, Progress
<1>4. q[1] = queue[1] /\ Head(queue) = queue[1]
  BY <1>3
<1>5. HeadWaits
  BY <1>3, <1>4 DEF HeadWaits
<1>6. Travels(queue[1])
  BY <1>5 DEF HeadTravels
<1> QED
  BY <1>4, <1>5, <1>6, StreamGrows DEF Travels

\* What the client receives either confirms the head, which then waits no
\* longer, or leaves it waiting.
LEMMA ConfirmationReceives ==
  SizeIsLength /\ Typed /\ HeadTravels /\ ClientReceives => HeadTravels'
<1> SUFFICES ASSUME SizeIsLength, Typed, HeadTravels, ClientReceives,
                    state' = "CONNECTED", HeadWaits'
             PROVE  Travels(queue[1])'
  BY DEF HeadTravels
<1>1. PICK p \in InPackets :
           /\ p = b2c[1] /\ b2c # <<>> /\ Len(b2c') = Len(b2c) - 1 /\ b2c' \in Seq(InPackets)
           /\ \A i \in 1..Len(b2c') : b2c'[i] = b2c[i + 1] /\ i + 1 \in 1..Len(b2c)
           /\ \/ p.type = "CONNACK" /\ onConnAck
              \/ p.type = "SUBACK" /\ p.id \in Nat /\ onSubAck(p)
              \/ p.type = "PUBLISH" /\ p \in Messages /\ onPublish(p)
              \/ p.type = "PUBREL" /\ p.id \in Nat /\ onPubRel(p)
  BY Received
<1>2. queue \in Seq(Packets)
  BY DEF Typed, ClientTyped
<1>3. ASSUME NEW q, NEW s, Ready(q, s), Send(q, s),
             ~InStream(c2b', queue'[1].type, queue'[1].id)
      PROVE  q # <<>> /\ s = Size(q[1]) /\ queue'[1] = q[1] /\ ~q[1].released
  BY <1>3, WaitsAfter
\* The confirmation received was not that of the head.
<1>4. ASSUME NEW t, NEW id, InStream(b2c, t, id), ~(p.type = t /\ p.id = id)
      PROVE  InStream(b2c', t, id)
  <2>1. PICK i \in 1..Len(b2c) : b2c[i].type = t /\ b2c[i].id = id
    BY <1>4 DEF InStream
  <2>2. i # 1
    BY <1>1, <1>4, <2>1
  <2>3. Len(b2c) \in Nat
    BY DEF Typed, StreamsTyped
  <2>4. i - 1 \in 1..Len(b2c') /\ (i - 1) + 1 = i
    BY <1>1, <2>2, <2>3
  <2>5. b2c'[i - 1] = b2c[i]
    BY <1>1, <2>4
  <2> QED
    BY <2>1, <2>4, <2>5 DEF InStream
<1> SUFFICES ASSUME ~InStream(c2b', queue'[1].type, queue'[1].id)
             PROVE  InStream(b2c', AnswerTo(queue'[1]), queue'[1].id)
  BY DEF Travels
<1>5. ASSUME p.type = "CONNACK", onConnAck PROVE FALSE
  <2>1. PICK o \in Published(sendInitValues(data)) :
           \E q : /\ Ready(q, 0) /\ Send(q, 0)
    BY <1>5, Connected
  <2>2. PICK q : Ready(q, 0) /\ Send(q, 0)
    BY <2>1
  <2>3. q # <<>> /\ 0 = Size(q[1])
    BY <2>2, <1>3
  <2>4. q[1] \in Packets
    BY <2>2, <2>3 DEF Ready
  <2> QED
    BY <2>3, <2>4 DEF SizeIsLength
\* In the other handlers the head is what it was, or released.
<1>6. ASSUME NEW q, Ready(q, sent), Send(q, sent), state = "CONNECTED",
             queue # <<>> => q[1] = queue[1] \/ q[1].released,
             queue # <<>> /\ p.type \in {"SUBACK", "PUBREL"} /\ p.id = queue[1].id =>
               q[1].released
      PROVE  InStream(b2c', AnswerTo(queue'[1]), queue'[1].id)
  <2>1. q # <<>> /\ sent = Size(q[1]) /\ queue'[1] = q[1] /\ ~q[1].released
    BY <1>3, <1>6
  <2>2. /\ HeadWaits /\ queue'[1] = queue[1]
        /\ InStream(b2c, AnswerTo(queue[1]), queue[1].id)
    BY <2>1, <1>6, StillTravels
  <2>3. queue # <<>> /\ AnswerTo(queue[1]) \in {"SUBACK", "PUBREL"}
    BY <2>2 DEF HeadWaits, AnswerTo
  <2>4. ~(p.type = AnswerTo(queue[1]) /\ p.id = queue[1].id)
    BY <2>1, <2>3, <1>6
  <2> QED
    BY <2>2, <2>4, <1>4
<1>7. ASSUME p.type = "SUBACK", p.id \in Nat, onSubAck(p)
      PROVE  InStream(b2c', AnswerTo(queue'[1]), queue'[1].id)
  <2> DEFINE q == released(queue, p.id)
  <2>1. Send(q, sent) /\ state = "CONNECTED"
    BY <1>7 DEF onSubAck
  <2>2. Ready(q, sent)
    BY <1>7, Subscribing
  <2>3. CASE headHas(queue, p.id)
    <3>1. q = releaseHead(queue) /\ queue # <<>> /\ queue[1].id = p.id
      BY <2>3, <1>2 DEF released, headHas
    <3>2. q[1].released
      BY <3>1, <1>2, HeadReleased DEF Typed, ClientTyped
    <3> HIDE DEF q
    <3> QED
      BY <2>1, <2>2, <3>2, <1>6
  <2>4. CASE ~headHas(queue, p.id)
    <3>1. q = queue
      BY <2>4 DEF released
    <3>2. queue # <<>> => queue[1].id # p.id
      BY <2>4, <1>2 DEF headHas
    <3> HIDE DEF q
    <3> QED
      BY <2>1, <2>2, <3>1, <3>2, <1>6
  <2> QED
    BY <2>3, <2>4
<1>8. ASSUME p.type = "PUBREL", p.id \in Nat, onPubRel(p)
      PROVE  InStream(b2c', AnswerTo(queue'[1]), queue'[1].id)
  <2> DEFINE q == pubRel(queue, p.id)
  <2>1. Send(q, sent) /\ state = "CONNECTED"
    BY <1>8 DEF onPubRel
  <2>2. Ready(q, sent)
    BY <1>8, Releasing
  <2>3. CASE headHas(queue, p.id)
    <3>1. queue # <<>> /\ q[1] = [queue[1] EXCEPT !.released = TRUE]
      BY <1>2, <1>8, <2>3, PubRelQueue DEF Typed, ClientTyped
    <3>2. queue[1] \in Packets
      BY <3>1, <1>2
    <3>3. q[1].released
      BY <3>1, <3>2 DEF Packets
    <3> HIDE DEF q
    <3> QED
      BY <2>1, <2>2, <3>3, <1>6
  <2>4. CASE ~headHas(queue, p.id)
    <3>1. q = queue
      BY <2>4 DEF pubRel
    <3>2. queue # <<>> => queue[1].id # p.id
      BY <2>4, <1>2 DEF headHas
    <3> HIDE DEF q
    <3> QED
      BY <2>1, <2>2, <3>1, <3>2, <1>6
  <2> QED
    BY <2>3, <2>4
<1>9. ASSUME p.type = "PUBLISH", p \in Messages, onPublish(p)
      PROVE  InStream(b2c', AnswerTo(queue'[1]), queue'[1].id)
  <2>0. PICK e, o, q, j, a : Handles(p, e, o, q, j, a)
    BY <1>9, Handling
  <2>1. /\ o.packets \in Seq(Packets)
        /\ Ready(q, sent) /\ Send(q, sent)
        /\ j = queue \o o.packets /\ q = j \o a /\ a \in Seq(Packets)
    BY <2>0 DEF Handles
  <2> DEFINE b == o.packets
  <2>2. b \in Seq(Packets) /\ j = queue \o b
    BY <2>1
  <2> HIDE DEF b
  <2>3. queue # <<>> => q[1] = queue[1]
    <3>1. queue # <<>> => 1 \in 1..Len(queue)
      BY <1>2
    <3>2. ThreeParts(q, queue, b, a)
      BY <2>1, <2>2, <1>2, JoinedTwice
    <3> QED
      BY <3>1, <3>2 DEF ThreeParts
  <2>4. state = "CONNECTED"
    BY <1>9 DEF onPublish
  <2> QED
    BY <2>1, <2>3, <2>4, <1>6, <1>9
<1> QED
  BY <1>1, <1>5, <1>7, <1>8, <1>9

\* When the broker takes the packet that the head is, it answers.
LEMMA ConfirmationBroker ==
  Typed /\ HeadTravels /\ BrokerReceives => HeadTravels'
<1> SUFFICES ASSUME Typed, HeadTravels, BrokerReceives, state = "CONNECTED", HeadWaits
             PROVE  Travels(queue[1])'
  BY DEF HeadTravels, HeadWaits, BrokerReceives, client
<1>1. PICK u \in OutUnits, N \in Nat \ {0} :
           /\ u = c2b[1] /\ N = u.of /\ N <= Len(c2b) /\ c2b # <<>> /\ BrokerTakes(u)
           /\ \A i \in 1..N : c2b[i] = [u EXCEPT !.unit = i] /\ i \in 1..Len(c2b)
           /\ c2b' \in Seq(OutUnits) /\ Len(c2b') = Len(c2b) - N
           /\ \A i \in 1..Len(c2b') : c2b'[i] = c2b[i + N] /\ i + N \in 1..Len(c2b)
  BY Taken
<1> DEFINE h == queue[1]
<1>2. queue' = queue
  BY DEF BrokerReceives, client
<1>3. h.type \in Waiting
  <2>1. queue \in Seq(Packets) /\ queue # <<>> /\ Progress(queue, sent) /\ sent = Size(queue[1])
    BY DEF Typed, ClientTyped, HeadWaits
  <2> QED
    BY <2>1 DEF Progress
<1>4. Travels(h)
  BY DEF HeadTravels
<1>5. b2c \in Seq(InPackets) /\ c2b \in Seq(OutUnits)
  BY DEF Typed, StreamsTyped
<1> HIDE DEF h
<1>6. \A t, id : InStream(b2c, t, id) => InStream(b2c', t, id)
  <2>1. b2c' = b2c \/ \E a : b2c' = Append(b2c, a)
    BY <1>1 DEF BrokerTakes, Answer, broker
  <2>2. \A i \in 1..Len(b2c) : i \in 1..Len(b2c') /\ b2c'[i] = b2c[i]
    BY <2>1, <1>5, SMTT(30)
  <2> QED
    BY <2>2 DEF InStream
<1>7. ASSUME NEW i \in 1..Len(c2b), c2b[i].type = h.type, c2b[i].id = h.id
      PROVE  InStream(c2b', h.type, h.id) \/ InStream(b2c', AnswerTo(h), h.id)
  <2>1. CASE i \in 1..N
    <3>1. u.type = h.type /\ u.id = h.id
      <4>1. c2b[i] = [u EXCEPT !.unit = i]
        BY <1>1, <2>1
      <4>2. c2b[i].type = u.type /\ c2b[i].id = u.id
        BY <4>1 DEF OutUnits
      <4> QED
        BY <1>7, <4>2
    <3>2. b2c' = Append(b2c, [type |-> AnswerTo(h), id |-> h.id])
      BY <1>1, <1>3, <3>1 DEF BrokerTakes, Answer, AnswerTo, Waiting
    <3>3. Len(b2c) + 1 \in 1..Len(b2c')
      BY <3>2, <1>5
    <3>4. b2c'[Len(b2c) + 1] = [type |-> AnswerTo(h), id |-> h.id]
      BY <3>2, <1>5
    <3> QED
      BY <3>3, <3>4 DEF InStream
  <2>2. CASE i \notin 1..N
    <3>1. i - N \in 1..Len(c2b') /\ (i - N) + N = i
      BY <1>1, <1>5, <2>2
    <3>2. c2b'[i - N] = c2b[i]
      BY <1>1, <3>1
    <3> QED
      BY <3>1, <3>2, <1>7 DEF InStream
  <2> QED
    BY <2>1, <2>2
<1>8. InStream(c2b', h.type, h.id) \/ InStream(b2c', AnswerTo(h), h.id)
  BY <1>4, <1>6, <1>7 DEF Travels, InStream
<1> QED
  BY <1>2, <1>8 DEF Travels, h
\* A head that is written completely is in the stream.
LEMMA ConfirmationSends ==
  SizeIsLength /\ Typed /\ HeadTravels /\ ClientSends => HeadTravels'
<1> SUFFICES ASSUME SizeIsLength, Typed, HeadTravels, ClientSends, state = "CONNECTED",
                    HeadWaits'
             PROVE  Travels(queue[1])'
  BY DEF HeadTravels, ClientSends
<1>1. Send(queue, sent) /\ Ready(queue, sent) /\ b2c' = b2c
  BY Sending DEF ClientSends
<1>2. \/ InStream(c2b', queue'[1].type, queue'[1].id)
      \/ queue # <<>> /\ sent = Size(queue[1]) /\ queue'[1] = queue[1] /\ ~queue[1].released
  BY <1>1, WaitsAfter
<1>3. \/ InStream(c2b', queue'[1].type, queue'[1].id)
      \/ queue'[1] = queue[1] /\ InStream(b2c, AnswerTo(queue[1]), queue[1].id)
  BY <1>1, <1>2, StillTravels
<1> QED
  BY <1>1, <1>3 DEF Travels

\* The broker sends something more.
LEMMA ConfirmationAppends ==
  ASSUME Typed, HeadTravels, UNCHANGED <<client, c2b>>, NEW a, b2c' = Append(b2c, a)
  PROVE  HeadTravels'
<1>1. b2c \in Seq(InPackets)
  BY DEF Typed, StreamsTyped
<1>2. \A i \in 1..Len(b2c) : i \in 1..Len(b2c') /\ b2c'[i] = b2c[i]
  BY <1>1
<1>3. \A t, id : InStream(b2c, t, id) => InStream(b2c', t, id)
  BY <1>2 DEF InStream
<1>4. queue' = queue /\ c2b' = c2b /\ state' = state /\ sent' = sent
  BY DEF client
<1> QED
  BY <1>3, <1>4 DEF HeadTravels, HeadWaits, Travels

\* Every step keeps the head's packet or its confirmation on its way.
LEMMA ConfirmationStep ==
  SizeIsLength /\ Typed /\ HeadTravels /\ [Next]_vars => HeadTravels'
<1> SUFFICES ASSUME SizeIsLength, Typed, HeadTravels, [Next]_vars PROVE HeadTravels'
  OBVIOUS
<1>1. CASE TcpConnects \/ TcpDrops \/ Restarts
  <2>1. state' # "CONNECTED"
    BY <1>1 DEF TcpConnects, TcpDrops, Restarts
  <2> QED
    BY <2>1 DEF HeadTravels
<1>2. CASE BrokerRetries
  <2>1. UNCHANGED <<client, c2b>> /\ \E a : b2c' = Append(b2c, a)
    BY <1>2 DEF BrokerRetries, Answer
  <2> QED
    BY <2>1, ConfirmationAppends
<1>3. ASSUME NEW c \in Commands, NEW q \in Qos, Command(c, q) PROVE HeadTravels'
  <2>1. UNCHANGED <<client, c2b>> /\ \E a : b2c' = Append(b2c, a)
    BY <1>3 DEF Command, Answer
  <2> QED
    BY <2>1, ConfirmationAppends
<1>4. CASE UNCHANGED vars
  BY <1>4 DEF vars, client, HeadTravels, HeadWaits, Travels
<1> QED
  BY <1>1, <1>2, <1>3, <1>4, ConfirmationReceives, ConfirmationSends, ConfirmationBroker
     DEF Next

\* ConfirmationComes holds: the queue never waits for a confirmation that cannot
\* come any more, over reconnects, repeated packets, a full TCP buffer and
\* restarts (AsyncMqttClient.cpp:394-441, 523-535 and 575-629).
THEOREM ConfirmationAlwaysComes ==
  ASSUME SizeIsLength
  PROVE  Spec => []ConfirmationComes
<1>1. Typed /\ HeadTravels /\ [Next]_vars => HeadTravels'
  BY ConfirmationStep
<1>2. Init => HeadTravels
  BY DEF Init, HeadTravels
<1>3. Typed /\ HeadTravels => ConfirmationComes
  <2> SUFFICES ASSUME Typed, HeadTravels, state = "CONNECTED", HeadWaits,
                      NEW h, h = Head(queue)
               PROVE  \/ InStream(c2b, h.type, h.id)
                      \/ \E i \in 1..Len(b2c) :
                           b2c[i].type = AnswerTo(h) /\ b2c[i].id = h.id
    BY Zenon DEF ConfirmationComes, AnswerTo
  <2>1. queue \in Seq(Packets) /\ queue # <<>>
    BY DEF Typed, ClientTyped, HeadWaits
  <2>2. h = queue[1]
    BY <2>1
  <2> QED
    BY <2>2 DEF HeadTravels, Travels, InStream
<1> QED
  BY <1>1, <1>2, <1>3, AlwaysTyped, PTL DEF Spec

---------------------------------------------------------------------------
(* What a call of _handleQueue leaves in the queue and what it writes. *)

\* What a call of _handleQueue has done, m packets of q dropped: what is left, ...
Left(q, s, m) ==
  /\ m \in 0..Len(q) /\ Len(queue') = Len(q) - m
  /\ \A k \in 1..Len(queue') : queue'[k] = q[m + k] /\ m + k \in 1..Len(q)
  /\ m = 0 => sent' = s + (Len(c2b') - Len(c2b))
  /\ m < Len(q) /\ sent' = Size(q[m + 1]) => (m = 0 /\ s = Size(q[1])) \/ ~q[m + 1].released

\* ... and what was written, unit i of the stream being of packet v[i].
Wrote(q, s, m, v) ==
  /\ Len(c2b') >= Len(c2b) /\ \A i \in 1..Len(c2b) : c2b'[i] = c2b[i] /\ i \in 1..Len(c2b')
  /\ \A i \in 1..Len(c2b') : i > Len(c2b) =>
       /\ v[i] \in 1..Len(q) /\ v[i] <= m + 1 /\ IsUnitOf(c2b'[i], q[v[i]])
       /\ v[i] = 1 /\ c2b'[i].unit = 1 => s = 0 /\ i = Len(c2b) + 1
  /\ \A i, j \in 1..Len(c2b') : Len(c2b) < i /\ i <= j => v[i] <= v[j]
  /\ \A j \in 1..m : j > 1 \/ s < Size(q[1]) =>
       \E i \in 1..Len(c2b') : i > Len(c2b) /\ v[i] = j

\* A call of _handleQueue leaves a rest of the queue and writes, in order, units
\* of what it drops and of the new head.
LEMMA Written ==
  ASSUME SizeIsLength, Typed, NEW q, NEW s, Ready(q, s), Send(q, s)
  PROVE  \E m, v : Left(q, s, m) /\ Wrote(q, s, m, v)
<1>1. PICK h, m, w : /\ Loop(q, s, Room - Len(c2b), h, Len(q), m, w)
                     /\ queue' = h.queue /\ sent' = h.sent /\ c2b' = c2b \o h.wire
  <2>1. q \in Seq(Packets) /\ s \in Nat /\ Progress(q, s)
    BY DEF Ready
  <2>2. c2b \in Seq(OutUnits) /\ Len(c2b) <= Room
    BY DEF Typed, StreamsTyped
  <2> QED
    BY <2>1, <2>2, Sends
<1>2. /\ m \in 0..Len(q) /\ h \in Cursors /\ Len(h.queue) = Len(q) - m
      /\ \A k \in 1..Len(q) - m : h.queue[k] = q[m + k]
  BY <1>1 DEF Loop, Remain
<1>3. h.queue \in Seq(Packets) /\ h.wire \in Seq(OutUnits) /\ q \in Seq(Packets) /\ c2b \in Seq(OutUnits)
  BY <1>2 DEF Cursors, Ready, Typed, StreamsTyped
<1> DEFINE W == h.wire
<1>4. /\ Len(c2b') = Len(c2b) + Len(W) /\ Len(c2b) \in Nat /\ Len(W) \in Nat
      /\ Len(c2b') \in Nat
      /\ \A x \in 1..Len(c2b) : c2b'[x] = c2b[x] /\ x \in 1..Len(c2b')
      /\ \A x \in 1..Len(c2b') : x \notin 1..Len(c2b) =>
           x - Len(c2b) \in 1..Len(W) /\ c2b'[x] = W[x - Len(c2b)]
  <2>1. c2b' = c2b \o W /\ W \in Seq(OutUnits)
    BY <1>1, <1>3
  <2> HIDE DEF W
  <2> QED
    BY <2>1, <1>3, Joined
<1>5. \A k \in 1..Len(W) : Len(c2b) + k \in 1..Len(c2b') /\ Len(c2b) + k > Len(c2b)
  BY <1>4
<1> DEFINE v == [i \in 1..Len(c2b') |-> w[i - Len(c2b)]]
<1>6. ASSUME NEW i \in 1..Len(c2b'), i > Len(c2b)
      PROVE  i - Len(c2b) \in 1..Len(W) /\ c2b'[i] = W[i - Len(c2b)] /\ v[i] = w[i - Len(c2b)]
  BY <1>4, <1>6
<1>7. Left(q, s, m)
  <2>1. \A k \in 1..Len(q) - m : m + k \in 1..Len(q)
    BY <1>2, <1>3
  <2>2. Len(queue') = Len(q) - m
    BY <1>1, <1>2
  <2>3. \A k \in 1..Len(queue') : queue'[k] = q[m + k] /\ m + k \in 1..Len(q)
    BY <1>1, <1>2, <2>1, <2>2
  <2>4. m = 0 => sent' = s + (Len(c2b') - Len(c2b))
    <3>1. m = 0 => h.sent = s + Len(W)
      BY <1>1 DEF Loop, Pace
    <3> QED
      BY <3>1, <1>1, <1>4
  <2>5. m < Len(q) /\ sent' = Size(q[m + 1]) => (m = 0 /\ s = Size(q[1])) \/ ~q[m + 1].released
    <3>1. m < Len(q) => h.blocked
      BY <1>1, <1>2, <1>3 DEF Loop, Pace
    <3> QED
      BY <3>1, <1>1 DEF Loop, Accounted
  <2> QED
    BY <1>2, <2>2, <2>3, <2>4, <2>5 DEF Left
<1>8. /\ w \in [1..Len(W) -> 1..Len(q)]
      /\ \A k \in 1..Len(W) : /\ IsUnitOf(W[k], q[w[k]]) /\ w[k] <= m + 1
                              /\ w[k] = 1 /\ W[k].unit = 1 => s = 0 /\ k = 1
      /\ \A k, l \in 1..Len(W) : k <= l => w[k] <= w[l]
  BY <1>1 DEF Loop, Wired
<1>9. \A j \in 1..m : j > 1 \/ s < Size(q[1]) => \E k \in 1..Len(W) : w[k] = j
  BY <1>1 DEF Loop, Accounted
<1> HIDE DEF W
<1>10. ASSUME NEW i \in 1..Len(c2b'), i > Len(c2b)
       PROVE  /\ v[i] \in 1..Len(q) /\ v[i] <= m + 1 /\ IsUnitOf(c2b'[i], q[v[i]])
              /\ v[i] = 1 /\ c2b'[i].unit = 1 => s = 0 /\ i = Len(c2b) + 1
  <2> DEFINE k == i - Len(c2b)
  <2>1. k \in 1..Len(W) /\ c2b'[i] = W[k] /\ v[i] = w[k] /\ (k = 1 => i = Len(c2b) + 1)
    BY <1>4, <1>6, <1>10
  <2> HIDE DEF k, v
  <2> QED
    BY <2>1, <1>8
<1>11. ASSUME NEW i \in 1..Len(c2b'), NEW j \in 1..Len(c2b'), Len(c2b) < i, i <= j
       PROVE  v[i] <= v[j]
  <2>1. /\ i - Len(c2b) \in 1..Len(W) /\ j - Len(c2b) \in 1..Len(W)
        /\ i - Len(c2b) <= j - Len(c2b)
        /\ v[i] = w[i - Len(c2b)] /\ v[j] = w[j - Len(c2b)]
    BY <1>4, <1>6, <1>11
  <2> HIDE DEF v
  <2> QED
    BY <2>1, <1>8
<1>12. ASSUME NEW j \in 1..m, j > 1 \/ s < Size(q[1])
       PROVE  \E i \in 1..Len(c2b') : i > Len(c2b) /\ v[i] = j
  <2>1. PICK k \in 1..Len(W) : w[k] = j
    BY <1>9, <1>12
  <2>2. Len(c2b) + k \in 1..Len(c2b') /\ Len(c2b) + k > Len(c2b) /\ (Len(c2b) + k) - Len(c2b) = k
    BY <1>4, <1>5
  <2>3. v[Len(c2b) + k] = w[k]
    BY <2>2
  <2> QED
    BY <2>1, <2>2, <2>3
<1> HIDE DEF v
<1>13. Wrote(q, s, m, v)
  BY <1>4, <1>10, <1>11, <1>12 DEF Wrote
<1> QED
  BY <1>7, <1>13

\* Two packets that the broker cannot tell apart but by DUP.
SameAs(p, r) == p.type = r.type /\ p.id = r.id /\ p.body = r.body

\* The acknowledgements of a message.
Acks == {"PUBACK", "PUBREC"}

\* Packet p is one of the queue's, or new: a publication, a PUBCOMP, or what
\* acknowledges the message received.
Spoken(p) ==
  \/ \E j \in 1..Len(queue) : SameAs(p, queue[j])
  \/ p.type \in {"PUBLISH", "PUBCOMP"}
  \/ /\ p.type \in Acks /\ ClientReceives
     /\ b2c # <<>> /\ b2c[1] \in Messages /\ b2c[1].id = p.id
     /\ b2c[1].qos = IF p.type = "PUBACK" THEN 1 ELSE 2
     /\ onPublish(b2c[1])

\* In session, whatever the client does is _handleQueue on such packets.
LEMMA Conversing ==
  ASSUME SizeIsLength, Typed, ClientReceives \/ ClientSends, state = "CONNECTED",
         \A i \in 1..Len(b2c) : b2c[i].type # "CONNACK"
  PROVE  /\ \E q : /\ Ready(q, sent) /\ Send(q, sent)
                   /\ \A k \in 1..Len(q) : Spoken(q[k])
         /\ state' = state
<1>1. queue \in Seq(Packets) /\ sent \in Nat /\ Progress(queue, sent)
  BY DEF Typed, ClientTyped
<1>2. \A j \in 1..Len(queue) : Spoken(queue[j])
  BY DEF Spoken, SameAs
<1>3. CASE ClientSends
  <2>1. Ready(queue, sent) /\ Send(queue, sent) /\ state' = state
    BY <1>3, Sending DEF ClientSends
  <2> QED
    BY <1>2, <2>1
<1>4. CASE ClientReceives
  <2>1. PICK p \in InPackets :
           /\ p = b2c[1] /\ b2c # <<>>
           /\ \/ p.type = "CONNACK" /\ onConnAck
              \/ p.type = "SUBACK" /\ p.id \in Nat /\ onSubAck(p)
              \/ p.type = "PUBLISH" /\ p \in Messages /\ onPublish(p)
              \/ p.type = "PUBREL" /\ p.id \in Nat /\ onPubRel(p)
    BY <1>4, Received
  <2>2. p.type # "CONNACK"
    <3>1. 1 \in 1..Len(b2c)
      BY <2>1 DEF Typed, StreamsTyped
    <3> QED
      BY <2>1, <3>1
  <2>3. CASE p.type = "SUBACK" /\ p.id \in Nat /\ onSubAck(p)
    <3>0. PICK q : q = released(queue, p.id)
      OBVIOUS
    <3>1. Send(q, sent) /\ state' = state
      BY <2>3, <3>0 DEF onSubAck
    <3>2. Ready(q, sent) /\ ReleasedAtMost(q, p.id)
      BY <2>3, <3>0, Subscribing
    <3>3. ASSUME NEW k \in 1..Len(q) PROVE Spoken(q[k])
      <4>1. k \in 1..Len(queue) /\ queue[k] \in Packets
        BY <1>1, <3>2 DEF ReleasedAtMost
      <4>2. SameAs(q[k], queue[k])
        BY <3>2, <4>1 DEF SameAs, Packets, ReleasedAtMost
      <4> QED
        BY <4>1, <4>2 DEF Spoken
    <3> QED
      BY <3>1, <3>2, <3>3
  <2>4. CASE p.type = "PUBREL" /\ p.id \in Nat /\ onPubRel(p)
    <3> DEFINE q == pubRel(queue, p.id)
    <3>1. Ready(q, sent) /\ Send(q, sent) /\ state' = state
      BY <2>4, Releasing DEF onPubRel
    <3>2. CASE headHas(queue, p.id)
      <4>1. /\ Len(q) = Len(queue) + 1 /\ queue # <<>>
            /\ q[1] = [queue[1] EXCEPT !.released = TRUE] /\ q[2] = Packet("PUBCOMP", p.id)
            /\ \A k \in 2..Len(queue) : q[k + 1] = queue[k]
        BY <1>1, <2>4, <3>2, PubRelQueue
      <4> HIDE DEF q
      <4>2. ASSUME NEW k \in 1..Len(q) PROVE Spoken(q[k])
        <5>1. CASE k = 1
          <6>1. 1 \in 1..Len(queue) /\ queue[1] \in Packets
            BY <1>1, <4>1
          <6>2. SameAs(q[1], queue[1])
            BY <4>1, <6>1 DEF SameAs, Packets
          <6> QED
            BY <5>1, <6>1, <6>2 DEF Spoken
        <5>2. CASE k = 2
          <6>1. q[2].type = "PUBCOMP"
            BY <2>4, <4>1, PacketsMade DEF PacketTypes
          <6> QED
            BY <5>2, <6>1 DEF Spoken
        <5>3. CASE k # 1 /\ k # 2
          <6>1. k - 1 \in 2..Len(queue) /\ k - 1 \in 1..Len(queue) /\ (k - 1) + 1 = k
            BY <1>1, <4>1, <5>3
          <6>2. q[k] = queue[k - 1]
            BY <4>1, <6>1
          <6> QED
            BY <1>2, <6>1, <6>2
        <5> QED
          BY <5>1, <5>2, <5>3
      <4> QED
        BY <3>1, <4>2
    <3>3. CASE ~headHas(queue, p.id)
      <4>1. q = queue
        BY <3>3 DEF pubRel
      <4> HIDE DEF q
      <4> QED
        BY <1>2, <3>1, <4>1
    <3> QED
      BY <3>2, <3>3
  <2>5. CASE p.type = "PUBLISH" /\ p \in Messages /\ onPublish(p)
    <3>0. PICK e, o, q, j, a : Handles(p, e, o, q, j, a)
      BY <2>5, Handling
    <3>1. /\ o.packets \in Seq(Packets)
          /\ \A k \in 1..Len(o.packets) : o.packets[k].type = "PUBLISH"
          /\ Ready(q, sent) /\ Send(q, sent)
          /\ j = queue \o o.packets /\ q = j \o a /\ a \in Seq(Packets)
          /\ p.qos = 0 => a = <<>>
          /\ p.qos = 1 => a = <<Packet("PUBACK", p.id)>>
          /\ p.qos = 2 => a = <<Packet("PUBREC", p.id)>>
      BY <3>0 DEF Handles
    <3> DEFINE b == o.packets
    <3>2. b \in Seq(Packets) /\ j = queue \o b /\ \A k \in 1..Len(b) : b[k].type = "PUBLISH"
      BY <3>1
    <3> HIDE DEF b
    <3>3. ThreeParts(q, queue, b, a)
      BY <1>1, <3>1, <3>2, JoinedTwice
    <3>4. ASSUME NEW y \in 1..Len(a) PROVE Spoken(a[y])
      <4>1. p.qos \in 0..2 /\ p.id \in Nat
        <5>1. p.qos \in Qos /\ p.id \in 0..MaxCommands
          BY <2>5 DEF Messages
        <5>2. Qos \subseteq 0..2 /\ MaxCommands \in Nat
          BY SessionAssumption
        <5>3. p.qos \in 0..2
          BY <5>1, <5>2, Zenon
        <5> QED
          BY <5>1, <5>2, <5>3
      <4>2. \/ p.qos = 1 /\ a = <<Packet("PUBACK", p.id)>>
            \/ p.qos = 2 /\ a = <<Packet("PUBREC", p.id)>>
        <5>1. a # <<>>
          OBVIOUS
        <5> QED
          BY <5>1, <3>1, <4>1
      <4> DEFINE x1 == Packet("PUBACK", p.id)
                 x2 == Packet("PUBREC", p.id)
      <4>3. /\ x1.type = "PUBACK" /\ x1.id = p.id /\ x2.type = "PUBREC" /\ x2.id = p.id
        BY <4>1, PacketsMade DEF PacketTypes
      <4> HIDE DEF x1, x2
      <4>4. (p.qos = 1 /\ a[y] = x1) \/ (p.qos = 2 /\ a[y] = x2)
        BY <4>2 DEF x1, x2
      <4> QED
        BY <4>3, <4>4, <2>1, <2>5, <1>4 DEF Spoken, Acks
    <3>5. ASSUME NEW k \in 1..Len(q) PROVE Spoken(q[k])
      <4>1. CASE k \in 1..Len(queue)
        BY <4>1, <1>2, <3>3 DEF ThreeParts
      <4>2. ASSUME NEW y \in 1..Len(b), k = Len(queue) + y PROVE Spoken(q[k])
        BY <4>2, <3>2, <3>3 DEF Spoken, ThreeParts
      <4>3. ASSUME NEW y \in 1..Len(a), k = Len(queue) + Len(b) + y PROVE Spoken(q[k])
        BY <4>3, <3>3, <3>4 DEF ThreeParts
      <4> QED
        BY <4>1, <4>2, <4>3, <3>3 DEF ThreeParts
    <3>6. state' = state
      BY <2>5 DEF onPublish
    <3> QED
      BY <3>1, <3>5, <3>6
  <2> QED
    BY <2>1, <2>2, <2>3, <2>4, <2>5
<1> QED
  BY <1>3, <1>4

---------------------------------------------------------------------------
(* The phases of a connection: the broker answers CONNECT once, and nothing
   passes for its answer. *)

\* There is no packet of this type.
Without(s, type) == \A k \in 1..Len(s) : s[k].type # type

\* Of the units of a CONNECT packet only this one can be the first.
FirstAt(i0) ==
  \A i \in 1..Len(c2b) : c2b[i].type = "CONNECT" /\ c2b[i].unit = 1 => i = i0

\* The broker has no subscription, and none is under way.
NotSubscribed == ~subscribed /\ Without(queue, "SUBSCRIBE") /\ Without(c2b, "SUBSCRIBE")

\* The phases of a connection.  CONNECT is being written, and a broker that has
\* only a part of it does nothing; ...
Asking ==
  /\ state = "CONNECTING" /\ NotSubscribed /\ b2c = <<>>
  /\ queue # <<>> /\ queue[1].type = "CONNECT"
  /\ \A k \in 1..Len(queue) : queue[k].type = "CONNECT" => k = 1
  /\ Len(c2b) = sent /\ sent < Size(queue[1])
  /\ \A i \in 1..Len(c2b) : c2b[i].of = Size(queue[1]) /\ c2b[i].type = "CONNECT"
  /\ FirstAt(1)

\* ... it is on its way, before all that was written behind it; ...
Asked ==
  /\ state = "CONNECTING" /\ NotSubscribed /\ b2c = <<>> /\ Without(queue, "CONNECT")
  /\ c2b # <<>> /\ c2b[1].type = "CONNECT" /\ FirstAt(1)

\* ... its answer is, ...
Answered ==
  /\ state = "CONNECTING" /\ NotSubscribed /\ Without(queue, "CONNECT") /\ FirstAt(0)
  /\ b2c # <<>> /\ b2c[1].type = "CONNACK"
  /\ \A i \in 1..Len(b2c) : b2c[i].type = "CONNACK" => i = 1

\* ... and there is none of the two any more.
InSession ==
  /\ state = "CONNECTED" /\ Without(queue, "CONNECT") /\ FirstAt(0)
  /\ Without(b2c, "CONNACK")

\* Between connections the queue holds no CONNECT.
Offline == state = "DISCONNECTED" /\ Without(queue, "CONNECT") /\ NotSubscribed

\* There is no other phase.
Phases == Asking \/ Asked \/ Answered \/ InSession \/ Offline

\* _handleQueue makes no packets.
LEMMA WithoutKept ==
  ASSUME SizeIsLength, Typed, NEW q, NEW s, Ready(q, s), Send(q, s), NEW t, Without(q, t)
  PROVE  /\ Without(queue', t)
         /\ \A i \in 1..Len(c2b') : (i \in 1..Len(c2b) /\ c2b'[i] = c2b[i]) \/ c2b'[i].type # t
         /\ Len(c2b') >= Len(c2b) /\ \A i \in 1..Len(c2b) : c2b'[i] = c2b[i]
<1>1. PICK m, v : Left(q, s, m) /\ Wrote(q, s, m, v)
  BY Written
<1>2. Without(queue', t)
  BY <1>1 DEF Left, Without
<1>3. Len(c2b) \in Nat
  BY DEF Typed, StreamsTyped
<1>4. ASSUME NEW i \in 1..Len(c2b')
      PROVE  (i \in 1..Len(c2b) /\ c2b'[i] = c2b[i]) \/ c2b'[i].type # t
  <2>1. CASE i > Len(c2b)
    <3>1. v[i] \in 1..Len(q) /\ IsUnitOf(c2b'[i], q[v[i]])
      BY <1>1, <2>1 DEF Wrote
    <3> QED
      BY <3>1 DEF IsUnitOf, Without
  <2>2. CASE ~(i > Len(c2b))
    <3>1. i \in 1..Len(c2b)
      BY <2>2, <1>3
    <3> QED
      BY <3>1, <1>1 DEF Wrote
  <2> QED
    BY <2>1, <2>2
<1>5. Len(c2b') >= Len(c2b) /\ \A i \in 1..Len(c2b) : c2b'[i] = c2b[i]
  BY <1>1 DEF Wrote
<1> QED
  BY <1>2, <1>4, <1>5

\* CONNECT leaves the queue when all of it is written, before all else.
LEMMA ConnectWritten ==
  ASSUME SizeIsLength, Typed, NEW q, NEW s, Ready(q, s), Send(q, s),
         q # <<>>, q[1].type = "CONNECT", Without(q, "SUBSCRIBE"),
         \A k \in 1..Len(q) : q[k].type = "CONNECT" => k = 1,
         Len(c2b) = s, s < Size(q[1]),
         \A i \in 1..Len(c2b) : c2b[i].of = Size(q[1]) /\ c2b[i].type = "CONNECT",
         FirstAt(1), state' = "CONNECTING", b2c' = <<>>, ~subscribed'
  PROVE  Asking' \/ Asked'
<1>1. PICK m, v : Left(q, s, m) /\ Wrote(q, s, m, v)
  BY Written
<1>2. /\ q \in Seq(Packets) /\ s \in Nat /\ c2b \in Seq(OutUnits) /\ Len(c2b) \in Nat
      /\ Len(q) \in Nat /\ Len(q) > 0 /\ q[1] \in Packets /\ 1 \in 1..Len(q)
  BY DEF Ready, Typed, StreamsTyped
<1>3. Size(q[1]) \in Nat \ {0} /\ q[1].released
  BY <1>2 DEF SizeIsLength, Packets, Waiting
<1>4. /\ queue' \in Seq(Packets) /\ sent' \in Nat /\ Progress(queue', sent')
      /\ c2b' \in Seq(OutUnits) /\ Len(c2b') \in Nat
  BY ReadySent
<1>5. NotSubscribed'
  <2>1. Without(c2b, "SUBSCRIBE")
    BY DEF Without
  <2>2. /\ Without(queue', "SUBSCRIBE")
        /\ \A i \in 1..Len(c2b') : (i \in 1..Len(c2b) /\ c2b'[i] = c2b[i]) \/ c2b'[i].type # "SUBSCRIBE"
    BY WithoutKept
  <2> QED
    BY <2>1, <2>2 DEF NotSubscribed, Without
<1>6. ASSUME NEW i \in 1..Len(c2b')
      PROVE  \/ i \in 1..Len(c2b) /\ c2b'[i] = c2b[i]
             \/ /\ i > Len(c2b) /\ v[i] \in 1..Len(q) /\ v[i] <= m + 1
                /\ IsUnitOf(c2b'[i], q[v[i]])
                /\ v[i] = 1 /\ c2b'[i].unit = 1 => s = 0 /\ i = Len(c2b) + 1
  <2>1. i > Len(c2b) \/ i \in 1..Len(c2b)
    BY <1>2, <1>4
  <2> QED
    BY <2>1, <1>1 DEF Wrote
<1>7. FirstAt(1)'
  <2> SUFFICES ASSUME NEW i \in 1..Len(c2b'), c2b'[i].type = "CONNECT", c2b'[i].unit = 1
               PROVE  i = 1
    BY DEF FirstAt
  <2>1. CASE i \in 1..Len(c2b) /\ c2b'[i] = c2b[i]
    BY <2>1 DEF FirstAt
  <2>2. CASE ~(i \in 1..Len(c2b) /\ c2b'[i] = c2b[i])
    <3>1. /\ v[i] \in 1..Len(q) /\ IsUnitOf(c2b'[i], q[v[i]])
          /\ v[i] = 1 /\ c2b'[i].unit = 1 => s = 0 /\ i = Len(c2b) + 1
      BY <1>6, <2>2
    <3>2. v[i] = 1
      BY <3>1 DEF IsUnitOf
    <3> QED
      BY <3>1, <3>2
  <2> QED
    BY <2>1, <2>2
<1>8. CASE m = 0
  <2>1. /\ Len(queue') = Len(q) /\ \A k \in 1..Len(q) : queue'[k] = q[k]
        /\ sent' = Len(c2b') /\ sent' # Size(q[1])
    BY <1>1, <1>2, <1>3, <1>4, <1>8 DEF Left
  <2>2. queue' # <<>> /\ queue'[1] = q[1]
    BY <1>2, <1>4, <2>1
  <2>3. sent' < Size(queue'[1])
    BY <1>3, <1>4, <2>1, <2>2 DEF Progress
  <2>4. \A i \in 1..Len(c2b') : c2b'[i].of = Size(queue'[1]) /\ c2b'[i].type = "CONNECT"
    <3> TAKE i \in 1..Len(c2b')
    <3>1. v[i] \in 1..Len(q) /\ v[i] <= m + 1 => v[i] = 1
      BY <1>8
    <3> QED
      BY <3>1, <1>6, <2>2 DEF IsUnitOf
  <2>5. Asking'
    BY <1>5, <1>7, <2>1, <2>2, <2>3, <2>4 DEF Asking
  <2> QED
    BY <2>5
<1>9. CASE m # 0
  <2>1. m \in Nat /\ m >= 1
    BY <1>1, <1>2, <1>9 DEF Left
  <2>2. Without(queue', "CONNECT")
    <3>1. \A k \in 1..Len(queue') : queue'[k] = q[m + k] /\ m + k \in 1..Len(q) /\ m + k # 1
      BY <1>1, <2>1 DEF Left
    <3> QED
      BY <3>1 DEF Without
  <2>3. PICK i \in 1..Len(c2b') : i > Len(c2b) /\ v[i] = 1
    <3>1. 1 \in 1..m
      BY <2>1
    <3> QED
      BY <3>1, <1>1 DEF Wrote
  <2>4. 1 \in 1..Len(c2b') /\ c2b' # <<>>
    BY <1>4, <2>3
  <2>5. c2b'[1].type = "CONNECT"
    <3>1. CASE Len(c2b) = 0
      <4>1. Len(c2b) < 1 /\ 1 <= i /\ v[1] \in 1..Len(q) /\ IsUnitOf(c2b'[1], q[v[1]])
        BY <3>1, <2>4, <1>6
      <4>2. v[1] <= v[i]
        BY <4>1, <2>3, <2>4, <1>1 DEF Wrote
      <4>3. v[1] = 1
        BY <4>1, <4>2, <2>3, <1>2
      <4> QED
        BY <4>1, <4>3 DEF IsUnitOf
    <3>2. CASE Len(c2b) # 0
      <4>1. 1 \in 1..Len(c2b)
        BY <3>2, <1>2
      <4> QED
        BY <4>1, <1>1 DEF Wrote
    <3> QED
      BY <3>1, <3>2
  <2>6. Asked'
    BY <1>5, <1>7, <2>2, <2>4, <2>5 DEF Asked
  <2> QED
    BY <2>6
<1> QED
  BY <1>8, <1>9

\* A connection begins with CONNECT and nothing else in the streams.
LEMMA PhaseConnects == SizeIsLength /\ Typed /\ Phases /\ TcpConnects => Phases'
<1> SUFFICES ASSUME SizeIsLength, Typed, Phases, TcpConnects PROVE Asking' \/ Asked'
  BY DEF Phases
<1>1. Offline /\ state' = "CONNECTING" /\ UNCHANGED <<b2c, broker>>
  BY DEF TcpConnects, Phases, Asking, Asked, Answered, InSession
<1>2. PICK q : /\ Ready(q, sent) /\ Send(q, sent) /\ q = addFront(queue, Packet("CONNECT", 0))
               /\ sent = 0 /\ c2b = <<>> /\ b2c = <<>>
  BY Connecting
<1>3. queue \in Seq(Packets)
  BY DEF Typed, ClientTyped
<1>4. /\ Len(q) = Len(queue) + 1 /\ q[1] = Packet("CONNECT", 0) /\ q \in Seq(Packets)
      /\ \A k \in 1..Len(queue) : q[k + 1] = queue[k]
  BY <1>2, <1>3, ConnectQueue DEF Ready
<1>5. q[1].type = "CONNECT" /\ q # <<>>
  BY <1>4, PacketsMade DEF PacketTypes
<1>6. ASSUME NEW k \in 1..Len(q), k # 1 PROVE q[k].type \notin {"CONNECT", "SUBSCRIBE"}
  <2>1. k - 1 \in 1..Len(queue) /\ (k - 1) + 1 = k
    BY <1>3, <1>4, <1>6
  <2>2. q[k] = queue[k - 1]
    BY <1>4, <2>1
  <2> QED
    BY <2>1, <2>2, <1>1 DEF Offline, NotSubscribed, Without
<1>7. Without(q, "SUBSCRIBE")
  BY <1>5, <1>6 DEF Without
<1>8. q[1] \in Packets
  BY <1>4, <1>5
<1>9. 0 < Size(q[1])
  <2>1. Size(q[1]) \in Nat \ {0}
    BY <1>8 DEF SizeIsLength
  <2> QED
    BY <2>1
<1>10. Len(c2b) = 0 /\ FirstAt(1)
  BY <1>2 DEF FirstAt
<1> QED
  BY <1>1, <1>2, <1>5, <1>6, <1>7, <1>9, <1>10, ConnectWritten DEF Offline, NotSubscribed, broker

\* It ends with nothing at all in them: _clearQueue(true) keeps no CONNECT and
\* no SUBSCRIBE.
LEMMA PhaseOver == SizeIsLength /\ Typed /\ Phases /\ (TcpDrops \/ Restarts) => Phases'
<1> SUFFICES ASSUME SizeIsLength, Typed, Phases, TcpDrops \/ Restarts PROVE Offline'
  BY DEF Phases
<1>1. state' = "DISCONNECTED" /\ c2b' = <<>> /\ subscribed' = FALSE
  BY DEF TcpDrops, Restarts
<1>2. Without(queue', "CONNECT") /\ Without(queue', "SUBSCRIBE")
  <2>1. CASE TcpDrops
    <3>1. queue \in Seq(Packets) /\ queue' = keepSession(queue, sent)
      BY <2>1 DEF TcpDrops, Typed, ClientTyped
    <3>2. \A k \in 1..Len(queue') :
            \E j \in 1..Len(queue) : Kept(queue[j]) /\ queue'[k].type = queue[j].type
      BY <3>1, SessionKept
    <3> QED
      BY <3>2 DEF Kept, Without
  <2>2. CASE Restarts
    BY <2>2 DEF Restarts, Without
  <2> QED
    BY <2>1, <2>2
<1> QED
  BY <1>1, <1>2 DEF Offline, NotSubscribed, Without

\* A queue without them adds no CONNECT and no SUBSCRIBE.
LEMMA PhaseSends == SizeIsLength /\ Typed /\ Phases /\ ClientSends => Phases'
<1> SUFFICES ASSUME SizeIsLength, Typed, Phases, ClientSends PROVE Phases'
  OBVIOUS
<1>1. /\ Ready(queue, sent) /\ Send(queue, sent) /\ UNCHANGED <<state, b2c, broker>>
      /\ state # "DISCONNECTED"
  BY Sending DEF ClientSends
<1>2. CASE Asking
  BY <1>1, <1>2, ConnectWritten DEF Asking, NotSubscribed, broker, Phases
<1>3. \A t : Without(queue, t) =>
        /\ Without(queue', t)
        /\ \A i \in 1..Len(c2b') : (i \in 1..Len(c2b) /\ c2b'[i] = c2b[i]) \/ c2b'[i].type # t
  BY <1>1, WithoutKept
<1>4. \A i0 : Without(queue, "CONNECT") /\ FirstAt(i0) => FirstAt(i0)'
  BY <1>3 DEF FirstAt
<1>5. NotSubscribed => NotSubscribed'
  BY <1>1, <1>3 DEF NotSubscribed, Without, broker
<1>6. CASE Asked
  <2>1. Len(c2b') >= Len(c2b) /\ \A i \in 1..Len(c2b) : c2b'[i] = c2b[i]
    BY <1>1, <1>6, WithoutKept DEF Asked
  <2>2. c2b' # <<>> /\ c2b'[1] = c2b[1]
    <3>1. 1 \in 1..Len(c2b) /\ Len(c2b) \in Nat
      BY <1>6 DEF Asked, Typed, StreamsTyped
    <3>2. Len(c2b') # 0
      BY <3>1, <2>1
    <3> QED
      BY <3>1, <3>2, <2>1
  <2>3. Asked'
    BY <1>1, <1>3, <1>4, <1>5, <1>6, <2>2 DEF Asked
  <2> QED
    BY <2>3 DEF Phases
<1>7. CASE Answered
  BY <1>1, <1>3, <1>4, <1>5, <1>7 DEF Answered, Phases
<1>8. CASE InSession
  BY <1>1, <1>3, <1>4, <1>8 DEF InSession, Phases
<1>9. ~Offline
  BY <1>1 DEF Offline
<1> QED
  BY <1>2, <1>6, <1>7, <1>8, <1>9 DEF Phases
\* The client receives: CONNACK is the only packet it can receive before the
\* session begins, and it begins the session.
LEMMA PhaseReceives == SizeIsLength /\ Typed /\ Phases /\ ClientReceives => Phases'
<1> SUFFICES ASSUME SizeIsLength, Typed, Phases, ClientReceives PROVE InSession'
  BY DEF Phases
<1>1. PICK p \in InPackets :
           /\ p = b2c[1] /\ b2c # <<>> /\ Len(b2c') = Len(b2c) - 1 /\ b2c' \in Seq(InPackets)
           /\ \A i \in 1..Len(b2c') : b2c'[i] = b2c[i + 1] /\ i + 1 \in 1..Len(b2c)
           /\ \/ p.type = "CONNACK" /\ onConnAck
              \/ p.type = "SUBACK" /\ p.id \in Nat /\ onSubAck(p)
              \/ p.type = "PUBLISH" /\ p \in Messages /\ onPublish(p)
              \/ p.type = "PUBREL" /\ p.id \in Nat /\ onPubRel(p)
  BY Received
<1>2. Answered \/ InSession
  BY <1>1 DEF Phases, Asking, Asked, Offline, Typed, StreamsTyped
<1>3. Without(b2c', "CONNACK")
  <2>1. \A i \in 1..Len(b2c') : i + 1 # 1
    BY <1>1
  <2> QED
    BY <1>1, <1>2, <2>1 DEF Answered, InSession, Without
<1>4. FirstAt(0)
  BY <1>2 DEF Answered, InSession
<1>5. ASSUME NEW q, NEW s, Ready(q, s), Send(q, s), Without(q, "CONNECT"),
             state' = "CONNECTED"
      PROVE  InSession'
  <2>1. /\ Without(queue', "CONNECT")
        /\ \A i \in 1..Len(c2b') : (i \in 1..Len(c2b) /\ c2b'[i] = c2b[i]) \/ c2b'[i].type # "CONNECT"
    BY <1>5, WithoutKept
  <2> QED
    BY <2>1, <1>3, <1>4, <1>5 DEF InSession, FirstAt
<1>6. CASE Answered
  <2>1. onConnAck
    BY <1>1, <1>6 DEF Answered
  <2>2. PICK o \in Published(sendInitValues(data)) :
           \E q : /\ Ready(q, 0) /\ Send(q, 0)
                  /\ q = <<Packet("SUBSCRIBE", packetId')>> \o o.packets
                  /\ o.packets \in Seq(Packets)
                  /\ \A k \in 1..Len(o.packets) : o.packets[k].type = "PUBLISH"
    BY <2>1, Connected
  <2> DEFINE b == o.packets
             x == Packet("SUBSCRIBE", packetId')
  <2>3. PICK q : /\ Ready(q, 0) /\ Send(q, 0) /\ q = <<x>> \o b
                 /\ b \in Seq(Packets) /\ \A k \in 1..Len(b) : b[k].type = "PUBLISH"
    BY <2>2
  <2>4. packetId' \in Nat
    BY <2>1 DEF onConnAck, Typed, ClientTyped
  <2>5. x \in Packets /\ x.type = "SUBSCRIBE"
    BY <2>4, PacketsMade DEF PacketTypes
  <2> HIDE DEF b, x
  <2>6. Len(q) = Len(b) + 1 /\ q[1] = x /\ \A k \in 1..Len(b) : q[k + 1] = b[k]
    BY <2>3, <2>5, Prefixed
  <2>7. ASSUME NEW k \in 1..Len(q) PROVE q[k].type # "CONNECT"
    <3>1. CASE k = 1
      BY <3>1, <2>5, <2>6
    <3>2. CASE k # 1
      <4>1. k - 1 \in 1..Len(b) /\ (k - 1) + 1 = k
        BY <3>2, <2>3, <2>6
      <4>2. q[k] = b[k - 1]
        BY <4>1, <2>6
      <4> QED
        BY <4>1, <4>2, <2>3
    <3> QED
      BY <3>1, <3>2
  <2>8. Without(q, "CONNECT") /\ state' = "CONNECTED"
    BY <2>1, <2>7 DEF Without, onConnAck
  <2> QED
    BY <2>3, <2>8, <1>5
<1>7. CASE InSession
  <2>1. PICK q : /\ Ready(q, sent) /\ Send(q, sent)
                 /\ \A k \in 1..Len(q) : Spoken(q[k])
    BY <1>7, Conversing DEF InSession, Without
  <2>2. state' = "CONNECTED"
    BY <1>7, Conversing DEF InSession, Without
  <2>3. Without(q, "CONNECT")
    BY <2>1, <1>7 DEF Spoken, SameAs, Acks, Without, InSession
  <2> QED
    BY <2>1, <2>2, <2>3, <1>5
<1> QED
  BY <1>2, <1>6, <1>7

\* The broker takes the packet in front: CONNECT it answers with CONNACK.
LEMMA PhaseBroker == SizeIsLength /\ Typed /\ Phases /\ BrokerReceives => Phases'
<1> SUFFICES ASSUME SizeIsLength, Typed, Phases, BrokerReceives PROVE Phases'
  OBVIOUS
<1>1. PICK u \in OutUnits, N \in Nat \ {0} :
           /\ u = c2b[1] /\ N = u.of /\ N <= Len(c2b) /\ c2b # <<>> /\ BrokerTakes(u)
           /\ \A i \in 1..N : c2b[i] = [u EXCEPT !.unit = i] /\ i \in 1..Len(c2b)
           /\ c2b' \in Seq(OutUnits) /\ Len(c2b') = Len(c2b) - N
           /\ \A i \in 1..Len(c2b') : c2b'[i] = c2b[i + N] /\ i + N \in 1..Len(c2b)
  BY Taken
<1>2. queue' = queue /\ state' = state /\ sent' = sent
  BY DEF BrokerReceives, client
<1>3. Len(c2b) \in Nat /\ b2c \in Seq(InPackets) /\ Len(b2c) \in Nat /\ 1 \in 1..Len(c2b)
  BY <1>1 DEF Typed, StreamsTyped
\* The packet is whole: its first unit is the first of the stream.
<1>4. u.unit = 1
  <2>0. 1 \in 1..N
    BY <1>1
  <2>1. c2b[1] = [u EXCEPT !.unit = 1]
    BY <2>0, <1>1
  <2> QED
    BY <2>1, <1>1 DEF OutUnits
<1>5. \A t : Without(c2b, t) => Without(c2b', t)
  BY <1>1 DEF Without
<1>6. NotSubscribed => NotSubscribed' /\ subscribed' = subscribed
  <2>1. ASSUME NotSubscribed PROVE u.type # "SUBSCRIBE"
    BY <2>1, <1>1, <1>3 DEF NotSubscribed, Without
  <2>2. u.type # "SUBSCRIBE" => subscribed' = subscribed
    BY <1>1 DEF BrokerTakes, broker
  <2> QED
    BY <2>1, <2>2, <1>2, <1>5 DEF NotSubscribed
<1>7. ASSUME FirstAt(1) \/ FirstAt(0) PROVE FirstAt(0)'
  <2> SUFFICES ASSUME NEW i \in 1..Len(c2b'), c2b'[i].type = "CONNECT", c2b'[i].unit = 1
               PROVE  FALSE
    BY DEF FirstAt
  <2>1. c2b'[i] = c2b[i + N] /\ i + N \in 1..Len(c2b) /\ i + N # 1 /\ i + N # 0
    BY <1>1
  <2> QED
    BY <2>1, <1>7 DEF FirstAt
<1>8. CASE Asking
  BY <1>1, <1>3, <1>8 DEF Asking
<1>9. CASE Asked
  <2>1. b2c' = Append(b2c, [type |-> "CONNACK"]) /\ b2c = <<>>
    BY <1>1, <1>9 DEF Asked, BrokerTakes, Answer
  <2>2. b2c' = <<[type |-> "CONNACK"]>>
    BY <2>1
  <2>3. b2c' # <<>> /\ b2c'[1].type = "CONNACK" /\ \A i \in 1..Len(b2c') : i = 1
    BY <2>2
  <2>4. Answered'
    BY <1>2, <1>6, <1>7, <1>9, <2>3 DEF Answered, Asked
  <2> QED
    BY <2>4 DEF Phases
<1>10. ASSUME FirstAt(0)
       PROVE  /\ Len(b2c') >= Len(b2c) /\ \A i \in 1..Len(b2c) : b2c'[i] = b2c[i]
              /\ \A i \in 1..Len(b2c') : (i \in 1..Len(b2c) /\ b2c'[i] = b2c[i])
                                         \/ b2c'[i].type # "CONNACK"
  <2>1. u.type # "CONNECT"
    BY <1>1, <1>3, <1>4, <1>10 DEF FirstAt
  <2>2. b2c' = b2c \/ \E a : a.type # "CONNACK" /\ b2c' = Append(b2c, a)
    <3>1. \/ b2c' = b2c
          \/ b2c' = Append(b2c, [type |-> "SUBACK", id |-> u.id])
          \/ b2c' = Append(b2c, [type |-> "PUBREL", id |-> u.id])
      BY <1>1, <2>1 DEF BrokerTakes, Answer, broker
    <3>2. /\ [type |-> "SUBACK", id |-> u.id].type # "CONNACK"
          /\ [type |-> "PUBREL", id |-> u.id].type # "CONNACK"
      OBVIOUS
    <3> QED
      BY <3>1, <3>2
  <2>3. CASE b2c' = b2c
    BY <2>3, <1>3
  <2>4. ASSUME NEW a, a.type # "CONNACK", b2c' = Append(b2c, a)
        PROVE  /\ Len(b2c') >= Len(b2c) /\ \A i \in 1..Len(b2c) : b2c'[i] = b2c[i]
               /\ \A i \in 1..Len(b2c') : (i \in 1..Len(b2c) /\ b2c'[i] = b2c[i])
                                          \/ b2c'[i].type # "CONNACK"
    <3>1. /\ Len(b2c') = Len(b2c) + 1 /\ b2c'[Len(b2c) + 1] = a
          /\ \A i \in 1..Len(b2c) : b2c'[i] = b2c[i]
      BY <2>4, <1>3
    <3>2. \A i \in 1..Len(b2c') : i \in 1..Len(b2c) \/ i = Len(b2c) + 1
      BY <3>1, <1>3
    <3> QED
      BY <3>1, <3>2, <2>4, <1>3
  <2> QED
    BY <2>2, <2>3, <2>4
<1>11. CASE Answered
  <2>1. 1 \in 1..Len(b2c) /\ FirstAt(0)
    BY <1>3, <1>11 DEF Answered
  <2>2. b2c'[1] = b2c[1] /\ b2c' # <<>>
    BY <2>1, <1>3, <1>10
  <2>3. Answered'
    BY <2>1, <2>2, <1>2, <1>6, <1>7, <1>10, <1>11 DEF Answered
  <2> QED
    BY <2>3 DEF Phases
<1>12. CASE InSession
  BY <1>2, <1>7, <1>10, <1>12 DEF InSession, Phases, Without
<1>13. ~Offline
  BY <1>1 DEF Offline, Typed, StreamsTyped
<1> QED
  BY <1>8, <1>9, <1>11, <1>12, <1>13 DEF Phases

\* Before the subscription of this session the broker sends no message.
NotYet == ~subscribed => inflight = {} /\ lastId = 0 /\ Without(b2c, "PUBLISH")

\* Without a subscription the broker has no flows and sends no message.
LEMMA NotYetStep == SizeIsLength /\ Typed /\ NotYet /\ [Next]_vars => NotYet'
<1> SUFFICES ASSUME SizeIsLength, Typed, NotYet, [Next]_vars, ~subscribed'
             PROVE  inflight' = {} /\ lastId' = 0 /\ Without(b2c', "PUBLISH")
  BY DEF NotYet, Without
<1>1. CASE TcpConnects \/ ClientSends \/ UNCHANGED vars
  BY <1>1 DEF TcpConnects, ClientSends, vars, broker, NotYet, Without
<1>2. CASE TcpDrops \/ Restarts
  BY <1>2 DEF TcpDrops, Restarts, Without
<1>3. CASE ClientReceives
  <2>1. /\ UNCHANGED broker
        /\ \A i \in 1..Len(b2c') : b2c'[i] = b2c[i + 1] /\ i + 1 \in 1..Len(b2c)
    BY <1>3, Received DEF ClientReceives
  <2> QED
    BY <2>1 DEF NotYet, Without, broker
<1>4. CASE BrokerReceives
  <2>1. BrokerTakes(Head(c2b))
    BY <1>4 DEF BrokerReceives
  <2>2. ~subscribed
    BY <2>1 DEF BrokerTakes, broker
  <2>3. inflight' = {} /\ lastId' = 0
    BY <2>1, <2>2 DEF BrokerTakes, broker, NotYet, FinishFlow, Flow
  <2>4. b2c' = b2c \/ \E a : a.type # "PUBLISH" /\ b2c' = Append(b2c, a)
    <3>1. \/ b2c' = b2c
          \/ b2c' = Append(b2c, [type |-> "CONNACK"])
          \/ b2c' = Append(b2c, [type |-> "SUBACK", id |-> Head(c2b).id])
          \/ b2c' = Append(b2c, [type |-> "PUBREL", id |-> Head(c2b).id])
      BY <2>1 DEF BrokerTakes, Answer, broker
    <3>2. /\ [type |-> "SUBACK", id |-> Head(c2b).id].type # "PUBLISH"
          /\ [type |-> "PUBREL", id |-> Head(c2b).id].type # "PUBLISH"
          /\ [type |-> "CONNACK"].type # "PUBLISH"
      OBVIOUS
    <3> QED
      BY <3>1, <3>2
  <2>5. b2c \in Seq(InPackets) /\ Without(b2c, "PUBLISH")
    BY <2>2 DEF Typed, StreamsTyped, NotYet
  <2>6. ASSUME NEW a, a.type # "PUBLISH", b2c' = Append(b2c, a) PROVE Without(b2c', "PUBLISH")
    BY <2>5, <2>6 DEF Without
  <2> QED
    BY <2>3, <2>4, <2>5, <2>6
<1>5. ~BrokerRetries
  <2> SUFFICES ASSUME BrokerRetries PROVE FALSE
    OBVIOUS
  <2>1. subscribed' = subscribed /\ inflight # {}
    BY DEF BrokerRetries
  <2> QED
    BY <2>1 DEF NotYet
<1>6. ~\E c \in Commands, q \in Qos : Command(c, q)
  <2> SUFFICES ASSUME NEW c \in Commands, NEW q \in Qos, Command(c, q) PROVE FALSE
    OBVIOUS
  <2>1. subscribed' = subscribed /\ subscribed
    BY DEF Command
  <2> QED
    BY <2>1
<1> QED
  BY <1>1, <1>2, <1>3, <1>4, <1>5, <1>6 DEF Next

\* What the broker sends of its own accord it sends to a subscriber, in session.
LEMMA PhaseAnswers ==
  SizeIsLength /\ Typed /\ NotYet /\ Phases
    /\ (BrokerRetries \/ \E c \in Commands, q \in Qos : Command(c, q)) => Phases'
<1> SUFFICES ASSUME Typed, NotYet, Phases,
                    BrokerRetries \/ \E c \in Commands, q \in Qos : Command(c, q)
             PROVE  Phases'
  OBVIOUS
<1>1. subscribed
  BY DEF BrokerRetries, Command, NotYet
<1>2. InSession
  BY <1>1 DEF Phases, Asking, Asked, Answered, Offline, NotSubscribed
\* (Before the broker's CONNACK is taken there is no subscription.)
<1>3. \E a : a.type # "CONNACK" /\ b2c' = Append(b2c, a)
  <2>1. ASSUME NEW id PROVE [type |-> "PUBREL", id |-> id].type # "CONNACK"
    OBVIOUS
  <2>2. ASSUME NEW c, NEW q, NEW n, NEW id PROVE Message(c, q, n, id).type # "CONNACK"
    BY DEF Message
  <2>3. CASE BrokerRetries
    <3>1. PICK f \in inflight :
             Answer(IF f.phase = "pubcomp" THEN [type |-> "PUBREL", id |-> f.id]
                    ELSE Message(f.cmd, f.qos, f.n, f.id))
      BY <2>3 DEF BrokerRetries
    <3>2. CASE f.phase = "pubcomp"
      BY <3>1, <3>2, <2>1 DEF Answer
    <3>3. CASE f.phase # "pubcomp"
      BY <3>1, <3>3, <2>2 DEF Answer
    <3> QED
      BY <3>2, <3>3
  <2>4. ASSUME NEW c \in Commands, NEW q \in Qos, Command(c, q)
        PROVE  \E a : a.type # "CONNACK" /\ b2c' = Append(b2c, a)
    BY <2>4, <2>2 DEF Command, Answer
  <2> QED
    BY <2>3, <2>4
<1>4. Without(b2c', "CONNACK")
  BY <1>2, <1>3 DEF Typed, StreamsTyped, InSession, Without
<1>5. UNCHANGED <<state, queue, c2b>>
  BY DEF BrokerRetries, Command, client
<1> QED
  BY <1>2, <1>4, <1>5 DEF InSession, Phases, Without, FirstAt

\* A connection goes through its phases in this order, whatever is in the queue.
LEMMA PhaseStep == SizeIsLength /\ Typed /\ NotYet /\ Phases /\ [Next]_vars => Phases'
<1> SUFFICES ASSUME SizeIsLength, Typed, NotYet, Phases, [Next]_vars PROVE Phases'
  OBVIOUS
<1>1. CASE UNCHANGED vars
  BY <1>1 DEF vars, client, broker, Phases, Asking, Asked, Answered, InSession, Offline,
              NotSubscribed, Without, FirstAt
<1>2. CASE Next
  BY <1>2, PhaseConnects, PhaseOver, PhaseReceives, PhaseSends, PhaseBroker, PhaseAnswers
     DEF Next
<1> QED
  BY <1>1, <1>2

\* The initial state is offline.
LEMMA PhaseInit == Init => Phases /\ NotYet
  BY DEF Init, Phases, Offline, NotSubscribed, Without, NotYet

---------------------------------------------------------------------------
(* The books: what the numbers and the packet identifiers of the commands tell of
   each other, in the stream, in the broker's flows and in _pendingPubRels. *)

\* Command n was handled.
Seen(n) == \E i \in 1..Len(applied) : applied[i] = n

\* What was handled had been issued.
AppliedTyped ==
  applied \in Seq(Nat) /\ \A i \in 1..Len(applied) : applied[i] \in 1..Len(issued)

\* The places of the messages in the stream to the client.
Places == {i \in 1..Len(b2c) : b2c[i].type = "PUBLISH"}

\* What carries a number and an identifier: the messages and the broker's flows.
Tagged == {b2c[i] : i \in Places} \cup inflight

\* A number is that of a command of this QoS, an identifier of this session's.
Tags == \A x \in Tagged : x.n \in 1..Len(issued) /\ x.qos = issued[x.n] /\ x.id \in 0..lastId

\* Within a session numbers and identifiers correspond.
OneNumber == \A x, y \in Tagged : x.qos # 0 /\ y.qos # 0 => (x.n = y.n <=> x.id = y.id)

\* There is one flow for an identifier.
OneFlow == \A f, g \in inflight : f.id = g.id => f = g

\* A flow's phase is of its QoS, and it waits for PUBCOMP only when the command
\* was handled.
FlowsOk ==
  \A f \in inflight : (f.qos = 1 <=> f.phase = "puback") /\ (f.phase = "pubcomp" => Seen(f.n))

\* Of number n as it is, or was, before the packet at place i: handled by then, ...
OldAt(n, i) == Seen(n) \/ \E j \in Places : j < i /\ b2c[j].n = n

\* ... or later than all of them.
NewAt(n, i) ==
  /\ \A k \in 1..Len(applied) : applied[k] < n
  /\ \A j \in Places : j < i => b2c[j].n < n

\* A message in the stream is new or a repetition, and a flow's command is no
\* longer new behind all that is in the stream.
Order ==
  /\ \A i \in Places : NewAt(b2c[i].n, i) \/ (b2c[i].qos # 0 /\ OldAt(b2c[i].n, i))
  /\ \A f \in inflight : OldAt(f.n, Len(b2c) + 1)

\* The client's identifiers tell exactly which QoS 2 message was handled; a
\* PUBREL that will make it forget comes before everything that repeats one.
Exact(n, id, i) ==
  /\ Seen(n) <=> id \in pubrels
  /\ \A j \in 1..Len(b2c) : j < i /\ b2c[j].type = "PUBREL" /\ b2c[j].id = id =>
       ~Seen(n) /\ \A l \in Places : l < j => b2c[l].id # id

\* A QoS 2 message is handled or not as its identifier says, also behind the
\* PUBREL before it.
Twos ==
  /\ \A i \in Places : b2c[i].qos = 2 => Exact(b2c[i].n, b2c[i].id, i)
  /\ \A f \in inflight : f.phase = "pubrec" => Exact(f.n, f.id, Len(b2c) + 1)

\* The books are right.
Books == Tags /\ OneNumber /\ OneFlow /\ FlowsOk /\ Order /\ Twos

\* Without a subscription there is nothing to account for.
LEMMA Unbooked == NotYet' /\ ~subscribed' => Books'
<1> SUFFICES ASSUME NotYet', ~subscribed' PROVE Books'
  OBVIOUS
<1>1. inflight' = {} /\ Places' = {}
  BY DEF NotYet, Without, Places
<1>2. Tagged' = {}
  BY <1>1 DEF Tagged
<1>3. Tags' /\ OneNumber' /\ OneFlow' /\ FlowsOk'
  BY <1>1, <1>2 DEF Tags, OneNumber, OneFlow, FlowsOk
<1>4. Order' /\ Twos'
  BY <1>1 DEF Order, Twos
<1> QED
  BY <1>3, <1>4 DEF Books

\* Same command, same identifier.
SameTag(x, y) == x.n = y.n /\ x.qos = y.qos /\ x.id = y.id

\* Numbers and identifiers correspond if none is new.
LEMMA TagsKept ==
  ASSUME Tags, OneNumber, issued' = issued, lastId' = lastId,
         \A x \in Tagged' : \E y \in Tagged : SameTag(x, y)
  PROVE  Tags' /\ OneNumber'
<1>1. Tags'
  BY DEF Tags, SameTag
<1>2. OneNumber'
  BY DEF OneNumber, SameTag
<1> QED
  BY <1>1, <1>2

\* The step of the client's handler: the first packet leaves the stream.
Shrunk ==
  /\ Len(b2c) \in Nat /\ Len(b2c') = Len(b2c) - 1
  /\ \A i \in 1..Len(b2c') : b2c'[i] = b2c[i + 1] /\ i + 1 \in 1..Len(b2c)

\* The client receives a packet: the others move one place forward.
LEMMA Shrinks ==
  ASSUME Shrunk
  PROVE  /\ \A i \in Places' : i \in Nat \ {0} /\ b2c'[i] = b2c[i + 1] /\ i + 1 \in Places
         /\ \A i \in Places : i # 1 => i - 1 \in Places' /\ b2c'[i - 1] = b2c[i]
         /\ Len(b2c') + 1 = Len(b2c)
<1>1. \A i \in Places' : i \in Nat \ {0} /\ b2c'[i] = b2c[i + 1] /\ i + 1 \in Places
  BY DEF Shrunk, Places
<1>2. ASSUME NEW i \in Places, i # 1 PROVE i - 1 \in Places' /\ b2c'[i - 1] = b2c[i]
  <2>1. i - 1 \in 1..Len(b2c') /\ (i - 1) + 1 = i
    BY <1>2 DEF Shrunk, Places
  <2>2. b2c'[i - 1] = b2c[i]
    BY <2>1 DEF Shrunk
  <2> QED
    BY <2>1, <2>2 DEF Places
<1> QED
  BY <1>1, <1>2 DEF Shrunk

\* The broker's: one more packet at its end.
Grown(a) ==
  /\ Len(b2c) \in Nat /\ Len(b2c') = Len(b2c) + 1 /\ b2c'[Len(b2c) + 1] = a
  /\ \A i \in 1..Len(b2c) : b2c'[i] = b2c[i] /\ i \in 1..Len(b2c')

\* The broker sends a packet: the others keep their places.
LEMMA Grows ==
  ASSUME NEW a, Grown(a)
  PROVE  /\ \A i \in Places : i \in Places' /\ i <= Len(b2c) /\ b2c'[i] = b2c[i]
         /\ a.type = "PUBLISH" => Len(b2c) + 1 \in Places' /\ b2c'[Len(b2c) + 1] = a
         /\ \A i \in Places' : i \in Places \/ (i = Len(b2c) + 1 /\ a.type = "PUBLISH")
<1>1. \A i \in Places : i \in Places' /\ i <= Len(b2c) /\ b2c'[i] = b2c[i]
  BY DEF Grown, Places
<1>2. a.type = "PUBLISH" => Len(b2c) + 1 \in Places' /\ b2c'[Len(b2c) + 1] = a
  BY DEF Grown, Places
<1>3. \A i \in Places' : i \in Places \/ (i = Len(b2c) + 1 /\ a.type = "PUBLISH")
  BY DEF Grown, Places
<1> QED
  BY <1>1, <1>2, <1>3

\* What the client's handler of packet p, the first of the stream, does to the
\* books: nothing, it forgets an identifier, it passes over a message or
\* handles it.
Passes(p) ==
  /\ UNCHANGED <<applied, pubrels>>
  /\ p.type = "PUBLISH" => p \in Messages /\ p.qos = 2 /\ p.id \in pubrels
  /\ p.type # "PUBREL"

\* A PUBREL makes the client forget its identifier.
Forgets(p) == p.type = "PUBREL" /\ applied' = applied /\ pubrels' = pubrels \ {p.id}

\* A message is handled; one of QoS 2 is remembered.
TakesUp(p) ==
  /\ p.type = "PUBLISH" /\ p \in Messages /\ ~(p.qos = 2 /\ p.id \in pubrels)
  /\ applied' = Append(applied, p.n)
  /\ pubrels' = IF p.qos = 2 THEN pubrels \cup {p.id} ELSE pubrels

\* What receiving packet p does to the books.
Reads(p) ==
  /\ p = b2c[1] /\ Len(b2c) >= 1 /\ Shrunk
  /\ UNCHANGED <<inflight, issued, lastId>>
  /\ Passes(p) \/ Forgets(p) \/ TakesUp(p)

\* All that ClientReceives does in session is one of the three.
LEMMA Turned ==
  ASSUME Typed, ClientReceives, \A i \in 1..Len(b2c) : b2c[i].type # "CONNACK"
  PROVE  \E p \in InPackets : Reads(p)
<1>1. PICK p \in InPackets :
           /\ p = b2c[1] /\ b2c # <<>> /\ Len(b2c') = Len(b2c) - 1 /\ b2c' \in Seq(InPackets)
           /\ \A i \in 1..Len(b2c') : b2c'[i] = b2c[i + 1] /\ i + 1 \in 1..Len(b2c)
           /\ \/ p.type = "CONNACK" /\ onConnAck
              \/ p.type = "SUBACK" /\ p.id \in Nat /\ onSubAck(p)
              \/ p.type = "PUBLISH" /\ p \in Messages /\ onPublish(p)
              \/ p.type = "PUBREL" /\ p.id \in Nat /\ onPubRel(p)
  BY Received
<1>2. Len(b2c) \in Nat /\ Len(b2c) >= 1 /\ 1 \in 1..Len(b2c)
  BY <1>1 DEF Typed, StreamsTyped
<1>3. Shrunk /\ UNCHANGED <<inflight, issued, lastId>>
  BY <1>1, <1>2 DEF Shrunk, ClientReceives, broker
<1>4. ASSUME p.type = "SUBACK", onSubAck(p) PROVE Passes(p)
  BY <1>4 DEF onSubAck, Passes
<1>5. ASSUME p.type = "PUBREL", onPubRel(p) PROVE Forgets(p)
  BY <1>5 DEF onPubRel, Forgets
<1>6. ASSUME p.type = "PUBLISH", p \in Messages, onPublish(p) PROVE Passes(p) \/ TakesUp(p)
  <2>1. /\ applied' = IF notifyPublish(p) THEN Append(applied, p.n) ELSE applied
        /\ pubrels' = IF p.qos = 2 THEN pubrels \cup {p.id} ELSE pubrels
    BY <1>6, Zenon DEF onPublish
  <2>2. CASE notifyPublish(p)
    BY <1>6, <2>1, <2>2 DEF notifyPublish, TakesUp
  <2>3. CASE ~notifyPublish(p)
    <3>1. p.qos = 2 /\ p.id \in pubrels
      BY <2>3 DEF notifyPublish
    <3>2. pubrels' = pubrels /\ applied' = applied
      BY <2>1, <2>3, <3>1
    <3> QED
      BY <1>6, <3>1, <3>2 DEF Passes
  <2> QED
    BY <2>2, <2>3
<1>7. p.type # "CONNACK"
  BY <1>1, <1>2
<1> QED
  BY <1>1, <1>2, <1>3, <1>4, <1>5, <1>6, <1>7 DEF Reads

\* The numbers handled, after the step.
LEMMA SeenAfter ==
  ASSUME AppliedTyped, NEW p, Reads(p)
  PROVE  /\ TakesUp(p) => \A n : Seen(n)' <=> Seen(n) \/ n = p.n
         /\ ~TakesUp(p) => \A n : Seen(n)' <=> Seen(n)
<1>1. ASSUME TakesUp(p) PROVE \A n : Seen(n)' <=> Seen(n) \/ n = p.n
  <2>1. /\ Len(applied) \in Nat /\ Len(applied') = Len(applied) + 1
        /\ applied'[Len(applied) + 1] = p.n
        /\ \A i \in 1..Len(applied) : applied'[i] = applied[i]
    BY <1>1 DEF TakesUp, AppliedTyped
  <2>2. \A i \in 1..Len(applied') : i \in 1..Len(applied) \/ i = Len(applied) + 1
    BY <2>1
  <2>3. \A i \in 1..Len(applied) : i \in 1..Len(applied')
    BY <2>1
  <2>4. Len(applied) + 1 \in 1..Len(applied')
    BY <2>1
  <2> QED
    BY <2>1, <2>2, <2>3, <2>4 DEF Seen
<1>2. ASSUME ~TakesUp(p) PROVE \A n : Seen(n)' <=> Seen(n)
  BY <1>2 DEF Reads, Passes, Forgets, Seen
<1> QED
  BY <1>1, <1>2

\* The message itself is seen after it: it is handled now, or it was.
LEMMA SeenNow ==
  ASSUME Typed, Books, AppliedTyped, NEW p, Reads(p), p.type = "PUBLISH"
  PROVE  /\ Seen(p.n)' /\ 1 \in Places /\ p \in Tagged
         /\ TakesUp(p) => \/ \A k \in 1..Len(applied) : applied[k] < p.n
                          \/ p.qos = 1 /\ Seen(p.n)
<1>1. p = b2c[1] /\ 1 \in Places /\ p \in Tagged
  BY DEF Reads, Shrunk, Places, Tagged
<1>2. p.qos = 2 => Exact(p.n, p.id, 1)
  BY <1>1 DEF Books, Twos
<1>3. p.qos = 2 => (Seen(p.n) <=> p.id \in pubrels)
  BY <1>2 DEF Exact
<1>4. Passes(p) \/ TakesUp(p)
  BY DEF Reads, Forgets
<1>5. Seen(p.n)'
  BY <1>3, <1>4, SeenAfter DEF Passes
<1>6. ASSUME TakesUp(p)
      PROVE  \/ \A k \in 1..Len(applied) : applied[k] < p.n
             \/ p.qos = 1 /\ Seen(p.n)
  <2>1. NewAt(p.n, 1) \/ (p.qos # 0 /\ OldAt(p.n, 1))
    BY <1>1 DEF Books, Order
  <2>2. \A j \in Places : ~(j < 1)
    BY DEF Places
  <2>3. p.qos \in 0..2
    <3>1. p.qos \in Qos /\ Qos \subseteq 0..2
      BY <1>6, SessionAssumption DEF TakesUp, Messages
    <3> QED
      BY <3>1, Zenon
  <2>4. p.qos = 2 => ~Seen(p.n)
    BY <1>3, <1>6 DEF TakesUp
  <2>5. p.qos # 0 /\ Seen(p.n) => p.qos = 1
    BY <2>3, <2>4
  <2>6. OldAt(p.n, 1) => Seen(p.n)
    BY <2>2 DEF OldAt
  <2>7. CASE NewAt(p.n, 1)
    BY <2>7 DEF NewAt
  <2> QED
    BY <2>1, <2>5, <2>6, <2>7
<1> QED
  BY <1>1, <1>5, <1>6

\* What was handled before, or comes before, is so after a packet is received.
LEMMA OldKept ==
  ASSUME Typed, Books, AppliedTyped, NEW p, Reads(p), NEW n, NEW i \in Nat \ {0}, OldAt(n, i + 1)
  PROVE  OldAt(n, i)'
<1>1. CASE Seen(n)
  BY <1>1, SeenAfter DEF OldAt
<1>2. ASSUME NEW j \in Places, j < i + 1, b2c[j].n = n PROVE OldAt(n, i)'
  <2>1. CASE j = 1
    <3>1. p.type = "PUBLISH" /\ p.n = n
      BY <1>2, <2>1 DEF Reads, Places
    <3> QED
      BY <3>1, SeenNow DEF OldAt
  <2>2. CASE j # 1
    <3>1. j - 1 \in Places' /\ b2c'[j - 1].n = n /\ j \in Nat
      BY <1>2, <2>2, Shrinks DEF Reads, Places
    <3>2. j - 1 < i
      BY <1>2, <3>1
    <3> QED
      BY <3>1, <3>2 DEF OldAt
  <2> QED
    BY <2>1, <2>2
<1> QED
  BY <1>1, <1>2 DEF OldAt

\* What is later than all that was handled stays so: the commands handled next
\* come before it.
LEMMA NewKept ==
  ASSUME Typed, Books, AppliedTyped, NEW p, Reads(p), NEW n, NEW i \in Nat \ {0}, NewAt(n, i + 1)
  PROVE  NewAt(n, i)'
<1>1. \A k \in 1..Len(applied') : applied'[k] < n
  <2>1. CASE TakesUp(p)
    <3>0. p.type = "PUBLISH" /\ 1 < i + 1
      BY <2>1 DEF TakesUp
    <3>1. 1 \in Places /\ b2c[1] = p /\ 1 < i + 1
      BY <3>0, SeenNow DEF Reads
    <3>2. p.n < n
      BY <3>1 DEF NewAt
    <3>3. /\ Len(applied) \in Nat /\ Len(applied') = Len(applied) + 1
          /\ applied'[Len(applied) + 1] = p.n
          /\ \A k \in 1..Len(applied) : applied'[k] = applied[k]
      BY <2>1 DEF TakesUp, AppliedTyped
    <3>4. \A k \in 1..Len(applied') : k \in 1..Len(applied) \/ k = Len(applied) + 1
      BY <3>3
    <3> QED
      BY <3>2, <3>3, <3>4 DEF NewAt
  <2>2. CASE ~TakesUp(p)
    <3>1. applied' = applied
      BY <2>2 DEF Reads, Passes, Forgets
    <3> QED
      BY <3>1 DEF NewAt
  <2> QED
    BY <2>1, <2>2
<1>2. ASSUME NEW j \in Places', j < i PROVE b2c'[j].n < n
  <2>1. j \in Nat /\ j + 1 \in Places /\ b2c'[j] = b2c[j + 1]
    BY Shrinks DEF Reads
  <2>2. j + 1 < i + 1
    BY <1>2, <2>1
  <2> QED
    BY <2>1, <2>2 DEF NewAt
<1> QED
  BY <1>1, <1>2 DEF NewAt

\* The client's identifiers keep telling what was handled: one that is forgotten
\* is that of no message still to come.
LEMMA ExactKept ==
  ASSUME Typed, Books, AppliedTyped, NEW p, Reads(p),
         NEW x \in Tagged, x.qos = 2, NEW i \in Nat \ {0}, Exact(x.n, x.id, i + 1)
  PROVE  Exact(x.n, x.id, i)'
<1>1. \A l \in Places' : l \in Nat /\ l + 1 \in Places /\ b2c'[l] = b2c[l + 1]
  BY Shrinks DEF Reads
<1>2. Seen(x.n) <=> x.id \in pubrels
  BY DEF Exact
\* A PUBREL that is still in the stream.
<1>3. ASSUME NEW j \in 1..Len(b2c'), j < i, b2c'[j].type = "PUBREL", b2c'[j].id = x.id
      PROVE  /\ ~Seen(x.n) /\ \A l \in Places : l < j + 1 => b2c[l].id # x.id
             /\ \A l \in Places' : l < j => b2c'[l].id # x.id
  <2>1. j + 1 \in 1..Len(b2c) /\ b2c'[j] = b2c[j + 1] /\ j + 1 < i + 1 /\ j \in Nat
    BY <1>3 DEF Reads, Shrunk
  <2>2. ~Seen(x.n) /\ \A l \in Places : l < j + 1 => b2c[l].id # x.id
    BY <1>3, <2>1 DEF Exact
  <2>3. \A l \in Places' : l < j => l + 1 < j + 1
    BY <1>1, <2>1
  <2> QED
    BY <1>1, <2>2, <2>3
<1>4. CASE Passes(p)
  <2>1. Seen(x.n)' <=> x.id \in pubrels'
    BY <1>2, <1>4, SeenAfter DEF Passes, TakesUp
  <2>2. Seen(x.n)' => Seen(x.n)
    BY <1>2, <1>4, <2>1 DEF Passes
  <2> QED
    BY <1>3, <2>1, <2>2 DEF Exact
<1>5. CASE Forgets(p)
  <2>1. ~TakesUp(p) /\ (Seen(x.n)' <=> Seen(x.n))
    BY <1>5, SeenAfter DEF Forgets, TakesUp
  <2>2. x.id = p.id => ~Seen(x.n)
    <3>1. 1 \in 1..Len(b2c) /\ b2c[1] = p /\ 1 < i + 1 /\ p.type = "PUBREL"
      BY <1>5 DEF Reads, Shrunk, Forgets
    <3> QED
      BY <3>1 DEF Exact
  <2>3. Seen(x.n)' <=> x.id \in pubrels'
    BY <1>2, <1>5, <2>1, <2>2 DEF Forgets
  <2> QED
    BY <1>3, <2>1, <2>3 DEF Exact
<1>6. CASE TakesUp(p)
  <2>1. p \in Tagged /\ 1 \in Places /\ p = b2c[1] /\ p.type = "PUBLISH"
    BY <1>6, SeenNow DEF TakesUp, Reads
  <2>2. Seen(x.n)' <=> Seen(x.n) \/ x.n = p.n
    BY <1>6, SeenAfter
  <2>3. p.n = x.n => p.qos = x.qos
    BY <2>1 DEF Books, Tags
  <2>4. p.qos = 2 => (x.n = p.n <=> x.id = p.id)
    BY <2>1 DEF Books, OneNumber
  <2>5. Seen(x.n)' <=> x.id \in pubrels'
    BY <1>2, <1>6, <2>2, <2>3, <2>4 DEF TakesUp
  <2>6. ASSUME NEW j \in 1..Len(b2c'), j < i, b2c'[j].type = "PUBREL", b2c'[j].id = x.id
        PROVE  ~Seen(x.n)' /\ \A l \in Places' : l < j => b2c'[l].id # x.id
    <3>1. 1 < j + 1 /\ p.id # x.id
      BY <1>3, <2>1, <2>6
    <3>2. p.n # x.n
      BY <2>3, <2>4, <3>1
    <3> QED
      BY <1>3, <2>2, <2>6, <3>2
  <2> QED
    BY <2>5, <2>6 DEF Exact
<1> QED
  BY <1>4, <1>5, <1>6 DEF Reads

\* The QoS of a flow, from its phase.
LEMMA FlowQos ==
  ASSUME Typed, FlowsOk, NEW f \in inflight
  PROVE  f.qos # 0 /\ (f.phase = "pubrec" => f.qos = 2) /\ (f.qos = 2 => f.phase # "puback")
<1>1. f \in Flows
  BY DEF Typed, BrokerTyped
<1>2. f.qos \in Qos /\ f.qos # 0
  BY <1>1 DEF Flows
<1>3. f.qos \in 0..2
  BY <1>2, SessionAssumption, Zenon
<1> QED
  BY <1>2, <1>3 DEF FlowsOk

\* The books stay right when the client receives a packet.
LEMMA BooksRead ==
  ASSUME Typed, Books, AppliedTyped, NEW p, Reads(p)
  PROVE  Books' /\ AppliedTyped'
<1>1. /\ \A i \in Places' : i \in Nat \ {0} /\ b2c'[i] = b2c[i + 1] /\ i + 1 \in Places
      /\ Len(b2c') + 1 = Len(b2c) /\ Len(b2c') + 1 \in Nat \ {0}
      /\ inflight' = inflight /\ issued' = issued /\ lastId' = lastId
  BY Shrinks DEF Reads, Shrunk
<1>2. \A x \in Tagged' : x \in Tagged
  BY <1>1 DEF Tagged
<1>3. Tags' /\ OneNumber' /\ OneFlow'
  <2>1. \A x \in Tagged' : \E y \in Tagged : SameTag(x, y)
    BY <1>2 DEF SameTag
  <2>2. OneFlow'
    BY <1>1 DEF Books, OneFlow
  <2> QED
    BY <1>1, <2>1, <2>2, TagsKept DEF Books
<1>4. FlowsOk'
  <2>1. \A n : Seen(n) => Seen(n)'
    BY SeenAfter
  <2> QED
    BY <1>1, <2>1 DEF Books, FlowsOk
<1>5. Order'
  <2>1. ASSUME NEW i \in Places', NEW m, m = b2c'[i]
        PROVE  NewAt(m.n, i)' \/ (m.qos # 0 /\ OldAt(m.n, i)')
    <3>1. i \in Nat \ {0} /\ b2c[i + 1] = m /\ i + 1 \in Places
      BY <1>1, <2>1
    <3>2. NewAt(m.n, i + 1) \/ (m.qos # 0 /\ OldAt(m.n, i + 1))
      BY <3>1 DEF Books, Order
    <3> QED
      BY <3>1, <3>2, NewKept, OldKept
  <2>2. ASSUME NEW f \in inflight, NEW k, k = Len(b2c') + 1 PROVE OldAt(f.n, k)'
    <3>1. OldAt(f.n, k + 1) /\ k \in Nat \ {0}
      BY <1>1, <2>2 DEF Books, Order
    <3> QED
      BY <3>1, OldKept
  <2> QED
    BY <1>1, <2>1, <2>2 DEF Order
<1>6. Twos'
  <2>1. ASSUME NEW i \in Places', NEW m, m = b2c'[i], m.qos = 2 PROVE Exact(m.n, m.id, i)'
    <3>1. i \in Nat \ {0} /\ b2c[i + 1] = m /\ i + 1 \in Places /\ m \in Tagged
      BY <1>1, <2>1 DEF Tagged
    <3>2. Exact(m.n, m.id, i + 1)
      BY <2>1, <3>1 DEF Books, Twos
    <3> QED
      BY <2>1, <3>1, <3>2, ExactKept
  <2>2. ASSUME NEW f \in inflight, f.phase = "pubrec", NEW k, k = Len(b2c') + 1
        PROVE  Exact(f.n, f.id, k)'
    <3>1. Exact(f.n, f.id, k + 1) /\ k \in Nat \ {0}
      BY <1>1, <2>2 DEF Books, Twos
    <3>2. f \in Tagged /\ f.qos = 2
      BY <2>2, FlowQos DEF Books, Tagged
    <3> QED
      BY <3>1, <3>2, ExactKept
  <2> QED
    BY <1>1, <2>1, <2>2 DEF Twos
<1>7. AppliedTyped'
  <2>1. CASE TakesUp(p)
    <3>0. p \in Tagged
      BY <2>1, SeenNow DEF TakesUp
    <3>1. p.n \in 1..Len(issued) /\ p.n \in Nat
      BY <3>0 DEF Books, Tags
    <3> QED
      BY <1>1, <2>1, <3>1 DEF TakesUp, AppliedTyped
  <2>2. CASE ~TakesUp(p)
    BY <1>1, <2>2 DEF Reads, Passes, Forgets, AppliedTyped
  <2> QED
    BY <2>1, <2>2
<1> QED
  BY <1>3, <1>4, <1>5, <1>6, <1>7 DEF Books

\* An acknowledgement with this identifier completes no flow whose command was
\* not handled.
Fresh(id) == id <= lastId /\ \A f \in inflight : f.id = id => Seen(f.n)

\* The broker's steps do not touch what the client did.
Untouched == UNCHANGED <<applied, pubrels>>

\* What was handled does not change by itself.
LEMMA SeenSame == Untouched => \A n : Seen(n)' <=> Seen(n)
  BY DEF Untouched, Seen

\* One more packet at the end of the stream changes nothing for what is before
\* it.
LEMMA AtGrown ==
  ASSUME Untouched, NEW a, Grown(a), NEW n, NEW i \in 1..Len(b2c) + 1
  PROVE  /\ OldAt(n, i) => OldAt(n, i)' /\ OldAt(n, i + 1)'
         /\ NewAt(n, i) => NewAt(n, i)'
         /\ \A id : Exact(n, id, i) => Exact(n, id, i)'
<1>1. \A j \in Places : j \in Places' /\ j <= Len(b2c) /\ j \in Nat /\ b2c'[j] = b2c[j]
  BY Grows DEF Places
<1>2. \A j \in Places' : j < i => j \in Places
  BY Grows DEF Grown
<1>3. \A m : Seen(m)' <=> Seen(m)
  BY SeenSame
<1>4. \A j : j < i => j < i + 1 \/ j \notin Nat
  BY DEF Grown
<1>5. OldAt(n, i) => OldAt(n, i)' /\ OldAt(n, i + 1)'
  BY <1>1, <1>3, <1>4 DEF OldAt
<1>6. NewAt(n, i) => NewAt(n, i)'
  BY <1>1, <1>2 DEF NewAt, Untouched
<1>7. ASSUME NEW id, Exact(n, id, i) PROVE Exact(n, id, i)'
  <2>1. ASSUME NEW j \in 1..Len(b2c'), j < i, b2c'[j].type = "PUBREL", b2c'[j].id = id
        PROVE  ~Seen(n)' /\ \A l \in Places' : l < j => b2c'[l].id # id
    <3>1. j \in 1..Len(b2c) /\ b2c'[j] = b2c[j]
      BY <2>1 DEF Grown
    <3>2. ~Seen(n) /\ \A l \in Places : l < j => b2c[l].id # id
      BY <1>7, <2>1, <3>1 DEF Exact
    <3>3. \A l \in Places' : l < j => l \in Places
      BY <2>1, <3>1, Grows DEF Grown
    <3> QED
      BY <1>1, <1>3, <3>2, <3>3
  <2>2. Seen(n)' <=> id \in pubrels'
    BY <1>3, <1>7 DEF Exact, Untouched
  <2> QED
    BY <2>1, <2>2 DEF Exact
<1> QED
  BY <1>5, <1>6, <1>7

\* One more packet, of which only a PUBREL can matter to a QoS 2 message.
LEMMA ExactAfter ==
  ASSUME Untouched, NEW a, Grown(a), NEW n, NEW id, NEW i, i = Len(b2c) + 1, Exact(n, id, i),
         a.type = "PUBREL" => a.id # id
  PROVE  Exact(n, id, i + 1)'
<1>0. i \in 1..Len(b2c) + 1 /\ i \in Nat
  BY DEF Grown
<1>1. Exact(n, id, i)' /\ i \in 1..Len(b2c) + 1 /\ i \in Nat
  BY <1>0, AtGrown
<1>2. \A j \in 1..Len(b2c') : j < i + 1 => j < i \/ (j = i /\ b2c'[j] = a)
  BY <1>1 DEF Grown
<1> QED
  BY <1>1, <1>2 DEF Exact

\* Flow g is flow f, or continues it after the client's PUBREC.
Continues(g, f) ==
  SameTag(g, f) /\ (g = f \/ (g.phase = "pubcomp" /\ f.qos = 2 /\ Seen(f.n)))

\* The broker's flows go on, or end; none begins.
FlowsContinue ==
  /\ Untouched /\ issued' = issued /\ lastId' = lastId /\ OneFlow'
  /\ \A g \in inflight' : \E f \in inflight : Continues(g, f)

\* Flows that go on are still what their phase says.
LEMMA FlowsKept ==
  ASSUME Typed, Books, FlowsContinue
  PROVE  FlowsOk'
<1> SUFFICES ASSUME NEW g \in inflight'
             PROVE  (g.qos = 1 <=> g.phase = "puback") /\ (g.phase = "pubcomp" => Seen(g.n)')
  BY DEF FlowsOk
<1>1. PICK f \in inflight : Continues(g, f)
  BY DEF FlowsContinue
<1>2. (f.qos = 1 <=> f.phase = "puback") /\ (f.phase = "pubcomp" => Seen(f.n))
  BY DEF Books, FlowsOk
<1>3. Seen(f.n)' <=> Seen(f.n)
  BY SeenSame DEF FlowsContinue
<1> QED
  BY <1>1, <1>2, <1>3 DEF Continues, SameTag

\* The broker sends nothing.
LEMMA BooksSilent ==
  ASSUME Typed, Books, FlowsContinue, b2c' = b2c
  PROVE  Books'
<1>1. \A n : Seen(n)' <=> Seen(n)
  BY SeenSame DEF FlowsContinue
<1>2. Places' = Places
  BY DEF Places
<1>3. \A g \in inflight' : \E f \in inflight : Continues(g, f)
  BY DEF FlowsContinue
<1>4. Tags' /\ OneNumber'
  <2>1. \A x \in Tagged' : \E y \in Tagged : SameTag(x, y)
    BY <1>2, <1>3 DEF Tagged, SameTag, Continues
  <2> QED
    BY <2>1, TagsKept DEF Books, FlowsContinue
<1>5. \A n, i : /\ OldAt(n, i)' <=> OldAt(n, i)
                /\ NewAt(n, i)' <=> NewAt(n, i)
                /\ \A id : Exact(n, id, i)' <=> Exact(n, id, i)
  <2>1. applied' = applied /\ pubrels' = pubrels
    BY DEF FlowsContinue, Untouched
  <2> QED
    BY <1>1, <1>2, <2>1 DEF OldAt, NewAt, Exact
<1>6. Order'
  <2>1. \A i \in Places' : NewAt(b2c'[i].n, i) \/ (b2c'[i].qos # 0 /\ OldAt(b2c'[i].n, i))
    BY <1>2 DEF Books, Order
  <2>2. \A g \in inflight' : OldAt(g.n, Len(b2c') + 1)
    BY <1>3 DEF Books, Order, Continues, SameTag
  <2> QED
    BY <1>5, <2>1, <2>2 DEF Order
<1>7. Twos'
  <2>1. \A i \in Places' : b2c'[i].qos = 2 => Exact(b2c'[i].n, b2c'[i].id, i)
    BY <1>2 DEF Books, Twos
  <2>2. \A g \in inflight' : g.phase = "pubrec" => Exact(g.n, g.id, Len(b2c') + 1)
    BY <1>3 DEF Books, Twos, Continues, SameTag
  <2> QED
    BY <1>5, <2>1, <2>2 DEF Twos
<1> QED
  BY <1>4, <1>6, <1>7, FlowsKept DEF Books, FlowsContinue

\* The broker sends a packet: an answer, a message again, or a PUBREL for a flow
\* that no longer waits for one.
Repeats(a) ==
  \/ a.type \notin {"PUBLISH", "PUBREL"}
  \/ /\ a.type = "PUBLISH"
     /\ \E f \in inflight : f.phase # "pubcomp" /\ SameTag(a, f)
  \/ a.type = "PUBREL" /\ \A g \in inflight' : g.phase = "pubrec" => g.id # a.id

\* The books stay right when the broker sends what repeats a message, or a
\* PUBREL for a flow that waits for PUBCOMP.
LEMMA BooksSpoken ==
  ASSUME Typed, Books, FlowsContinue, NEW a, Grown(a), Repeats(a)
  PROVE  Books'
<1>1. /\ \A n : Seen(n)' <=> Seen(n)
      /\ \A g \in inflight' : \E f \in inflight : Continues(g, f)
      /\ Untouched
  BY SeenSame DEF FlowsContinue
<1>2. /\ \A i \in Places' : (i \in Places /\ b2c'[i] = b2c[i])
                             \/ (i = Len(b2c) + 1 /\ a.type = "PUBLISH" /\ b2c'[i] = a)
      /\ Len(b2c) + 1 \in 1..Len(b2c) + 1 /\ Len(b2c') = Len(b2c) + 1
      /\ \A i \in Places : i \in 1..Len(b2c) + 1
  BY Grows DEF Grown, Places
<1>3. a.type = "PUBLISH" => \E f \in inflight : f.phase # "pubcomp" /\ SameTag(a, f)
  BY DEF Repeats
<1>4. Tags' /\ OneNumber'
  <2>1. \A x \in Tagged' : \E y \in Tagged : SameTag(x, y)
    BY <1>1, <1>2, <1>3 DEF Tagged, SameTag, Continues
  <2> QED
    BY <2>1, TagsKept DEF Books, FlowsContinue
<1>5. Order'
  <2>1. ASSUME NEW i \in Places', NEW m, m = b2c'[i]
        PROVE  NewAt(m.n, i)' \/ (m.qos # 0 /\ OldAt(m.n, i)')
    <3>1. CASE i \in Places /\ b2c[i] = m
      <4>1. NewAt(m.n, i) \/ (m.qos # 0 /\ OldAt(m.n, i))
        BY <3>1 DEF Books, Order
      <4> QED
        BY <1>1, <1>2, <3>1, <4>1, AtGrown
    <3>2. CASE i = Len(b2c) + 1 /\ a.type = "PUBLISH" /\ m = a
      <4>1. PICK f \in inflight : f.phase # "pubcomp" /\ SameTag(a, f)
        BY <1>3, <3>2
      <4>2. OldAt(f.n, i) /\ f.qos # 0
        BY <3>2, FlowQos DEF Books, Order
      <4>3. OldAt(f.n, i)'
        BY <1>1, <1>2, <3>2, <4>2, AtGrown
      <4> QED
        BY <3>2, <4>1, <4>2, <4>3 DEF SameTag
    <3> QED
      BY <1>2, <2>1, <3>1, <3>2
  <2>2. ASSUME NEW g \in inflight', NEW k, k = Len(b2c') + 1 PROVE OldAt(g.n, k)'
    <3>1. PICK f \in inflight : Continues(g, f)
      BY <1>1
    <3>2. PICK i : i = Len(b2c) + 1
      OBVIOUS
    <3>3. OldAt(f.n, i) /\ i \in 1..Len(b2c) + 1 /\ k = i + 1
      BY <1>2, <2>2, <3>2 DEF Books, Order
    <3>4. OldAt(f.n, k)'
      BY <1>1, <3>3, AtGrown
    <3> QED
      BY <3>1, <3>4 DEF Continues, SameTag
  <2> QED
    BY <2>1, <2>2 DEF Order
<1>6. Twos'
  <2>1. ASSUME NEW i \in Places', NEW m, m = b2c'[i], m.qos = 2 PROVE Exact(m.n, m.id, i)'
    <3>1. CASE i \in Places /\ b2c[i] = m
      <4>1. Exact(m.n, m.id, i)
        BY <2>1, <3>1 DEF Books, Twos
      <4> QED
        BY <1>1, <1>2, <3>1, <4>1, AtGrown
    <3>2. CASE i = Len(b2c) + 1 /\ a.type = "PUBLISH" /\ m = a
      <4>1. PICK f \in inflight : f.phase # "pubcomp" /\ SameTag(a, f)
        BY <1>3, <3>2
      <4>2. f.qos = 2 /\ f.phase = "pubrec"
        <5>1. f.qos = 2
          BY <2>1, <3>2, <4>1 DEF SameTag
        <5>2. f.phase \in {"puback", "pubrec", "pubcomp"}
          BY DEF Typed, BrokerTyped, Flows
        <5> QED
          BY <4>1, <5>1, <5>2, FlowQos DEF Books
      <4>3. Exact(f.n, f.id, i)
        BY <3>2, <4>2 DEF Books, Twos
      <4>4. Exact(f.n, f.id, i)'
        BY <1>1, <1>2, <3>2, <4>3, AtGrown
      <4> QED
        BY <3>2, <4>1, <4>4 DEF SameTag
    <3> QED
      BY <1>2, <2>1, <3>1, <3>2
  <2>2. ASSUME NEW g \in inflight', g.phase = "pubrec", NEW k, k = Len(b2c') + 1
        PROVE  Exact(g.n, g.id, k)'
    <3>1. g \in inflight
      <4>1. PICK f \in inflight : Continues(g, f)
        BY <1>1
      <4> QED
        BY <2>2, <4>1 DEF Continues
    <3>2. PICK i : i = Len(b2c) + 1
      OBVIOUS
    <3>3. Exact(g.n, g.id, i) /\ k = i + 1
      BY <1>2, <2>2, <3>1, <3>2 DEF Books, Twos
    <3>4. a.type = "PUBREL" => a.id # g.id
      BY <2>2 DEF Repeats
    <3> QED
      BY <1>1, <3>2, <3>3, <3>4, ExactAfter
  <2> QED
    BY <2>1, <2>2 DEF Twos
<1> QED
  BY <1>4, <1>5, <1>6, FlowsKept DEF Books, FlowsContinue

\* An acknowledgement in session is of a message that was handled, and no
\* flow with its identifier is of another.
AcksFresh ==
  state = "CONNECTED" =>
    /\ \A k \in 1..Len(queue) : queue[k].type \in Acks => Fresh(queue[k].id)
    /\ \A j \in 1..Len(c2b) :
         c2b[j].type \in Acks
           /\ (subscribed \/ \E i \in 1..Len(c2b) : i < j /\ c2b[i].type = "SUBSCRIBE")
         => Fresh(c2b[j].id)

\* Append is one more packet at the end.
LEMMA GrownBy ==
  ASSUME Typed, NEW a, b2c' = Append(b2c, a)
  PROVE  Grown(a)
<1>1. b2c \in Seq(InPackets) /\ Len(b2c) \in Nat
  BY DEF Typed, StreamsTyped
<1> QED
  BY <1>1 DEF Grown

\* Ending flows is going on with fewer.
LEMMA FlowsUnchanged ==
  ASSUME Books, UNCHANGED <<applied, pubrels, issued, lastId>>, inflight' \subseteq inflight
  PROVE  FlowsContinue
<1>1. OneFlow'
  BY DEF Books, OneFlow
<1> QED
  BY <1>1 DEF FlowsContinue, Untouched, Continues, SameTag

\* The flows that an answer can find are of messages that were handled.
LEMMA FoundSeen ==
  ASSUME Typed, NotYet, Phases, Books, AcksFresh, c2b # <<>>,
         NEW u, u = c2b[1], NEW f \in inflight, f.id = u.id,
         u.type \in Acks \/ f.phase = "pubcomp"
  PROVE  Seen(f.n)
<1>1. CASE f.phase = "pubcomp"
  BY <1>1 DEF Books, FlowsOk
<1>2. CASE u.type \in Acks
  <2>1. subscribed
    BY DEF NotYet
  <2>2. state = "CONNECTED"
    BY <2>1 DEF Phases, Asking, Asked, Answered, InSession, Offline, NotSubscribed
  <2>3. 1 \in 1..Len(c2b)
    BY DEF Typed, StreamsTyped
  <2>4. Fresh(u.id)
    BY <1>2, <2>1, <2>2, <2>3 DEF AcksFresh
  <2> QED
    BY <2>4 DEF Fresh
<1> QED
  BY <1>1, <1>2

\* The books stay right when the broker takes a packet.
LEMMA BooksTaken ==
  ASSUME Typed, NotYet, Phases, Books, AcksFresh, BrokerReceives
  PROVE  Books'
<1>1. PICK u \in OutUnits, N \in Nat \ {0} :
           /\ u = c2b[1] /\ N = u.of /\ N <= Len(c2b) /\ c2b # <<>> /\ BrokerTakes(u)
           /\ \A i \in 1..N : c2b[i] = [u EXCEPT !.unit = i] /\ i \in 1..Len(c2b)
           /\ c2b' \in Seq(OutUnits) /\ Len(c2b') = Len(c2b) - N
           /\ \A i \in 1..Len(c2b') : c2b'[i] = c2b[i + N] /\ i + N \in 1..Len(c2b)
  BY Taken
<1>2. UNCHANGED <<applied, pubrels>>
  BY DEF BrokerReceives, client
<1>3. CASE u.type \in {"CONNECT", "SUBSCRIBE"}
  <2>1. UNCHANGED <<issued, lastId, inflight>>
    BY <1>1, <1>3 DEF BrokerTakes, broker
  <2>2. FlowsContinue
    BY <1>2, <2>1, FlowsUnchanged
  <2>3. \E a : a.type \notin {"PUBLISH", "PUBREL"} /\ b2c' = Append(b2c, a)
    <3>1. \/ b2c' = Append(b2c, [type |-> "CONNACK"])
          \/ b2c' = Append(b2c, [type |-> "SUBACK", id |-> u.id])
      BY <1>1, <1>3 DEF BrokerTakes, Answer
    <3>2. /\ [type |-> "SUBACK", id |-> u.id].type \notin {"PUBLISH", "PUBREL"}
          /\ [type |-> "CONNACK"].type \notin {"PUBLISH", "PUBREL"}
      OBVIOUS
    <3> QED
      BY <3>1, <3>2
  <2> QED
    BY <2>2, <2>3, GrownBy, BooksSpoken DEF Repeats
<1>4. CASE u.type = "PUBLISH"
  <2>1. UNCHANGED <<issued, lastId, inflight, b2c>>
    BY <1>1, <1>4 DEF BrokerTakes
  <2> QED
    BY <1>2, <2>1, FlowsUnchanged, BooksSilent
<1>5. CASE u.type \in {"PUBACK", "PUBCOMP"}
  <2>1. UNCHANGED <<issued, lastId, b2c>> /\ inflight' \subseteq inflight
    BY <1>1, <1>5 DEF BrokerTakes, FinishFlow
  <2> QED
    BY <1>2, <2>1, FlowsUnchanged, BooksSilent
<1>6. CASE u.type = "PUBREC"
  <2> DEFINE F == Flow(u.id, "pubrec")
             up(f) == [f EXCEPT !.phase = "pubcomp"]
             a == [type |-> "PUBREL", id |-> u.id]
  <2>1. /\ UNCHANGED <<issued, lastId>> /\ b2c' = Append(b2c, a)
        /\ inflight' = (inflight \ F) \cup {up(f) : f \in F}
    BY <1>1, <1>6 DEF BrokerTakes, Answer
  <2>2. \A f \in inflight : /\ f \in F <=> f.id = u.id /\ f.phase = "pubrec"
                            /\ SameTag(up(f), f) /\ up(f).phase = "pubcomp"
    <3> TAKE f \in inflight
    <3>1. f \in Flows
      BY DEF Typed, BrokerTyped
    <3> QED
      BY <3>1 DEF Flow, Flows, SameTag
  <2>3. \A f \in F : f \in inflight /\ f.qos = 2 /\ Seen(f.n)
    <3> SUFFICES ASSUME NEW f \in F PROVE f \in inflight /\ f.qos = 2 /\ Seen(f.n)
      OBVIOUS
    <3>1. f \in inflight /\ f.id = u.id /\ f.phase = "pubrec"
      BY DEF Flow
    <3>2. f.qos = 2
      BY <3>1, FlowQos DEF Books
    <3>3. Seen(f.n)
      BY <3>1, <1>1, <1>6, FoundSeen DEF Acks
    <3> QED
      BY <3>1, <3>2, <3>3
  <2>4. a.type = "PUBREL" /\ a.id = u.id
    OBVIOUS
  <2> HIDE DEF F, up, a
  <2>5. ASSUME NEW g \in inflight'
        PROVE  \E f \in inflight :
                 /\ Continues(g, f)
                 /\ (g.phase = "pubrec" => g.id # u.id)
                 /\ ((f \in F /\ g = up(f)) \/ (f \notin F /\ g = f))
    <3>1. CASE g \in inflight /\ g \notin F
      BY <2>2, <3>1 DEF Continues, SameTag
    <3>2. ASSUME NEW f \in F, g = up(f)
          PROVE  /\ f \in inflight /\ Continues(g, f) /\ g.phase # "pubrec"
      BY <2>2, <2>3, <3>2 DEF Continues
    <3> QED
      BY <2>1, <3>1, <3>2
  <2>6. OneFlow'
    <3> SUFFICES ASSUME NEW g \in inflight', NEW h \in inflight', g.id = h.id PROVE g = h
      BY DEF OneFlow
    <3>1. PICK f \in inflight : Continues(g, f) /\ ((f \in F /\ g = up(f)) \/ (f \notin F /\ g = f))
      BY <2>5
    <3>2. PICK e \in inflight : Continues(h, e) /\ ((e \in F /\ h = up(e)) \/ (e \notin F /\ h = e))
      BY <2>5
    <3>3. f = e
      BY <3>1, <3>2 DEF Books, OneFlow, Continues, SameTag
    <3> QED
      BY <3>1, <3>2, <3>3
  <2>7. FlowsContinue
    BY <1>2, <2>1, <2>5, <2>6 DEF FlowsContinue, Untouched
  <2>8. Repeats(a)
    BY <2>4, <2>5 DEF Repeats
  <2> QED
    BY <2>1, <2>7, <2>8, GrownBy, BooksSpoken
<1>7. u.type \in {"CONNECT", "SUBSCRIBE", "PUBLISH", "PUBACK", "PUBCOMP", "PUBREC"}
  BY <1>1 DEF BrokerTakes
<1> QED
  BY <1>3, <1>4, <1>5, <1>6, <1>7

\* And when it repeats one: only a flow that is open is repeated, with the
\* number and the identifier it has.
LEMMA BooksRetried ==
  ASSUME Typed, Books, BrokerRetries
  PROVE  Books'
<1>1. PICK f \in inflight :
        b2c' = Append(b2c, IF f.phase = "pubcomp" THEN [type |-> "PUBREL", id |-> f.id]
                           ELSE Message(f.cmd, f.qos, f.n, f.id))
  BY DEF BrokerRetries, Answer
<1>2. UNCHANGED <<applied, pubrels, issued, lastId, inflight>>
  BY DEF BrokerRetries, client
<1>3. FlowsContinue
  BY <1>2, FlowsUnchanged
<1>4. CASE f.phase = "pubcomp"
  <2>1. PICK a : a.type = "PUBREL" /\ a.id = f.id /\ b2c' = Append(b2c, a)
    BY <1>1, <1>4
  <2>2. \A g \in inflight' : g.phase = "pubrec" => g.id # a.id
    BY <1>2, <1>4, <2>1 DEF Books, OneFlow
  <2> QED
    BY <1>3, <2>1, <2>2, GrownBy, BooksSpoken DEF Repeats
<1>5. CASE f.phase # "pubcomp"
  <2>1. PICK a : a = Message(f.cmd, f.qos, f.n, f.id) /\ b2c' = Append(b2c, a)
    BY <1>1, <1>5
  <2>2. a.type = "PUBLISH" /\ SameTag(a, f)
    BY <2>1 DEF Message, SameTag
  <2> QED
    BY <1>3, <1>5, <2>1, <2>2, GrownBy, BooksSpoken DEF Repeats
<1> QED
  BY <1>4, <1>5

\* The client remembers no identifier that this session did not use yet.
PubrelsKnown == state = "CONNECTED" => \A id \in pubrels : id <= lastId

\* A new command: its number n and, unless its QoS is 0, its identifier k are new.
NewCommand(c, q, n, k, a) ==
  /\ n = Len(issued) + 1 /\ n \in Nat
  /\ Len(issued') = n /\ issued'[n] = q /\ \A i \in 1..Len(issued) : issued'[i] = issued[i]
  /\ lastId' \in Nat /\ lastId' >= lastId
  /\ (q = 0 => k = 0) /\ (q # 0 => k = lastId + 1 /\ lastId' = k)
  /\ k \in 0..lastId' /\ Untouched
  /\ a = Message(c, q, n, k) /\ Grown(a) /\ SameTag(a, [n |-> n, qos |-> q, id |-> k])
  /\ a.type = "PUBLISH"
  /\ \A g \in inflight' :
       \/ g \in inflight
       \/ /\ q # 0 /\ SameTag(g, a)
          /\ (g.qos = 1 /\ g.phase = "puback") \/ (g.qos # 1 /\ g.phase = "pubrec")
  /\ \A g, h \in inflight' : g \notin inflight /\ h \notin inflight => g = h

\* Command does that.
LEMMA CommandIsNew ==
  ASSUME Typed, NEW c \in Commands, NEW q \in Qos, Command(c, q)
  PROVE  \E n, k, a : NewCommand(c, q, n, k, a)
<1>1. issued \in Seq(Qos) /\ Len(issued) \in Nat /\ lastId \in Nat
  BY DEF Typed, BrokerTyped
<1>2. /\ issued' = Append(issued, q) /\ Len(issued') = Len(issued) + 1
      /\ issued'[Len(issued) + 1] = q /\ \A i \in 1..Len(issued) : issued'[i] = issued[i]
  BY <1>1 DEF Command
<1> DEFINE n == Len(issued')
           k == IF q = 0 THEN 0 ELSE lastId'
           a == Message(c, q, n, k)
           new == [id |-> k, n |-> n, cmd |-> c, qos |-> q,
                   phase |-> IF q = 1 THEN "puback" ELSE "pubrec"]
<1>3. /\ b2c' = Append(b2c, a)
      /\ inflight' = IF q = 0 THEN inflight ELSE inflight \cup {new}
  BY DEF Command, Answer
<1>4. lastId' = IF q = 0 THEN lastId ELSE lastId + 1
  BY DEF Command
<1>5. SameTag(a, [n |-> n, qos |-> q, id |-> k]) /\ a.type = "PUBLISH"
  BY DEF Message, SameTag
<1>6. /\ SameTag(new, a)
      /\ (new.qos = 1 /\ new.phase = "puback") \/ (new.qos # 1 /\ new.phase = "pubrec")
  BY DEF Message, SameTag
<1>7. Grown(a)
  BY <1>3, GrownBy
<1>8. /\ n = Len(issued) + 1 /\ n \in Nat
      /\ (q = 0 => k = 0) /\ (q # 0 => k = lastId + 1 /\ lastId' = k)
      /\ lastId' \in Nat /\ lastId' >= lastId /\ k \in 0..lastId'
  BY <1>1, <1>2, <1>4
<1>9. Untouched
  BY DEF Command, client, Untouched
<1>10. a = Message(c, q, n, k)
  OBVIOUS
<1>11. Len(issued') = n
  OBVIOUS
<1> HIDE DEF n, k, a, new
<1>12. /\ \A g \in inflight' :
            \/ g \in inflight
            \/ /\ q # 0 /\ SameTag(g, a)
               /\ (g.qos = 1 /\ g.phase = "puback") \/ (g.qos # 1 /\ g.phase = "pubrec")
       /\ \A g, h \in inflight' : g \notin inflight /\ h \notin inflight => g = h
  BY <1>3, <1>6
<1>13. issued'[n] = q /\ \A i \in 1..Len(issued) : issued'[i] = issued[i]
  BY <1>2, <1>8
<1> QED
  BY <1>5, <1>7, <1>8, <1>9, <1>10, <1>11, <1>12, <1>13 DEF NewCommand

\* The books stay right when a command is issued: its number is greater than all
\* others, and its identifier is no one else's, not even among those the client
\* remembers.
LEMMA BooksIssued ==
  ASSUME Typed, Books, AppliedTyped, NEW c, NEW q, NEW n, NEW k, NEW a,
         NewCommand(c, q, n, k, a), \A id \in pubrels : id <= lastId
  PROVE  Books' /\ AppliedTyped'
<1>1. /\ n = Len(issued) + 1 /\ Len(issued) \in Nat /\ lastId \in Nat /\ lastId' \in Nat
      /\ lastId' >= lastId /\ Untouched /\ Grown(a) /\ a.type = "PUBLISH"
      /\ a.n = n /\ a.qos = q /\ a.id = k /\ (q # 0 => k = lastId + 1) /\ k \in 0..lastId'
      /\ applied' = applied /\ pubrels' = pubrels
  BY DEF NewCommand, SameTag, Typed, BrokerTyped, Untouched
<1>2. /\ \A i \in Places' : (i \in Places /\ b2c'[i] = b2c[i])
                             \/ (i = Len(b2c) + 1 /\ b2c'[i] = a)
      /\ Len(b2c) + 1 \in 1..Len(b2c) + 1 /\ Len(b2c') = Len(b2c) + 1
      /\ \A i \in Places : i \in 1..Len(b2c) + 1 /\ i < Len(b2c) + 1
      /\ Len(b2c) + 1 \in Places' /\ b2c'[Len(b2c) + 1] = a
  BY <1>1, Grows DEF Grown, Places
<1>3. \A g \in inflight' :
            \/ g \in inflight
            \/ /\ q # 0 /\ SameTag(g, a)
               /\ (g.qos = 1 /\ g.phase = "puback") \/ (g.qos # 1 /\ g.phase = "pubrec")
  BY DEF NewCommand
<1>4. \A x \in Tagged' : x \in Tagged \/ SameTag(x, a)
  BY <1>2, <1>3 DEF Tagged, SameTag
\* It is later than all that there was.
<1>5. \A x \in Tagged : x.n \in 1..Len(issued) /\ x.n # n /\ x.n < n
                        /\ x.id <= lastId /\ (q # 0 => x.id # k)
  BY <1>1 DEF Books, Tags
<1>6. ~Seen(n) /\ \A i \in 1..Len(applied) : applied[i] < n
  BY <1>1 DEF AppliedTyped, Seen
<1>7. \A m : Seen(m)' <=> Seen(m)
  BY <1>1, SeenSame
<1>8. Tags'
  <2>1. issued'[n] = q /\ Len(issued') = n /\ \A i \in 1..Len(issued) : issued'[i] = issued[i]
    BY DEF NewCommand
  <2> SUFFICES ASSUME NEW x \in Tagged'
               PROVE  x.n \in 1..Len(issued') /\ x.qos = issued'[x.n] /\ x.id \in 0..lastId'
    BY DEF Tags
  <2>2. CASE x \in Tagged
    BY <1>1, <2>1, <2>2 DEF Books, Tags
  <2>3. CASE SameTag(x, a)
    BY <1>1, <2>1, <2>3 DEF SameTag
  <2> QED
    BY <1>4, <2>2, <2>3
<1>9. OneNumber'
  <2> SUFFICES ASSUME NEW x \in Tagged', NEW y \in Tagged', x.qos # 0, y.qos # 0
               PROVE  x.n = y.n <=> x.id = y.id
    BY DEF OneNumber
  <2>1. CASE x \in Tagged /\ y \in Tagged
    BY <2>1 DEF Books, OneNumber
  <2>2. CASE SameTag(x, a) /\ SameTag(y, a)
    BY <2>2 DEF SameTag
  <2>3. CASE x \in Tagged /\ SameTag(y, a)
    BY <1>1, <1>5, <2>3 DEF SameTag
  <2>4. CASE y \in Tagged /\ SameTag(x, a)
    BY <1>1, <1>5, <2>4 DEF SameTag
  <2> QED
    BY <1>4, <2>1, <2>2, <2>3, <2>4
<1>10. OneFlow'
  <2> SUFFICES ASSUME NEW f \in inflight', NEW g \in inflight', f.id = g.id PROVE f = g
    BY DEF OneFlow
  <2>1. CASE f \in inflight /\ g \in inflight
    BY <2>1 DEF Books, OneFlow
  <2>2. CASE f \notin inflight /\ g \notin inflight
    BY <2>2 DEF NewCommand
  <2>3. CASE f \in inflight /\ g \notin inflight
    BY <1>1, <1>3, <1>5, <2>3 DEF SameTag, Tagged
  <2>4. CASE f \notin inflight /\ g \in inflight
    BY <1>1, <1>3, <1>5, <2>4 DEF SameTag, Tagged
  <2> QED
    BY <2>1, <2>2, <2>3, <2>4
<1>11. FlowsOk'
  BY <1>3, <1>7 DEF Books, FlowsOk
<1>12. Order'
  <2>1. ASSUME NEW i \in Places', NEW m, m = b2c'[i]
        PROVE  NewAt(m.n, i)' \/ (m.qos # 0 /\ OldAt(m.n, i)')
    <3>1. CASE i \in Places /\ b2c[i] = m
      <4>1. NewAt(m.n, i) \/ (m.qos # 0 /\ OldAt(m.n, i))
        BY <3>1 DEF Books, Order
      <4> QED
        BY <1>1, <1>2, <3>1, <4>1, AtGrown
    <3>2. CASE i = Len(b2c) + 1 /\ m = a
      <4>1. NewAt(n, i)
        BY <1>5, <1>6 DEF NewAt, Tagged
      <4> QED
        BY <1>1, <1>2, <3>2, <4>1, AtGrown
    <3> QED
      BY <1>2, <2>1, <3>1, <3>2
  <2>2. ASSUME NEW g \in inflight', NEW j, j = Len(b2c') + 1 PROVE OldAt(g.n, j)'
    <3>1. PICK i : i = Len(b2c) + 1
      OBVIOUS
    <3>2. i \in 1..Len(b2c) + 1 /\ j = i + 1 /\ i < j
      BY <1>2, <2>2, <3>1
    <3>3. CASE g \in inflight
      <4>1. OldAt(g.n, i)
        BY <3>1, <3>3 DEF Books, Order
      <4> QED
        BY <1>1, <3>2, <4>1, AtGrown
    <3>4. CASE SameTag(g, a)
      BY <1>2, <3>1, <3>2, <3>4 DEF SameTag, OldAt
    <3> QED
      BY <1>3, <3>3, <3>4
  <2> QED
    BY <2>1, <2>2 DEF Order
<1>13. ASSUME NEW i, i = Len(b2c) + 1, q # 0
       PROVE  Exact(n, k, i)' /\ Exact(n, k, i + 1)'
  <2>1. k \notin pubrels
    BY <1>1, <1>13
  <2>2. \A l \in Places : b2c[l].id # k
    BY <1>5, <1>13 DEF Tagged
  <2>3. Exact(n, k, i)
    BY <1>6, <2>1, <2>2 DEF Exact
  <2>4. i \in 1..Len(b2c) + 1
    BY <1>2, <1>13
  <2>5. Exact(n, k, i)'
    BY <1>1, <2>3, <2>4, AtGrown
  <2> QED
    BY <1>1, <1>13, <2>3, <2>5, ExactAfter
<1>14. Twos'
  <2>1. ASSUME NEW i \in Places', NEW m, m = b2c'[i], m.qos = 2 PROVE Exact(m.n, m.id, i)'
    <3>1. CASE i \in Places /\ b2c[i] = m
      <4>1. Exact(m.n, m.id, i)
        BY <2>1, <3>1 DEF Books, Twos
      <4> QED
        BY <1>1, <1>2, <3>1, <4>1, AtGrown
    <3>2. CASE i = Len(b2c) + 1 /\ m = a
      BY <1>1, <1>13, <2>1, <3>2
    <3> QED
      BY <1>2, <2>1, <3>1, <3>2
  <2>2. ASSUME NEW g \in inflight', g.phase = "pubrec", NEW j, j = Len(b2c') + 1
        PROVE  Exact(g.n, g.id, j)'
    <3>1. PICK i : i = Len(b2c) + 1
      OBVIOUS
    <3>2. j = i + 1
      BY <1>2, <2>2, <3>1
    <3>3. CASE g \in inflight
      <4>1. Exact(g.n, g.id, i)
        BY <2>2, <3>1, <3>3 DEF Books, Twos
      <4> QED
        BY <1>1, <3>1, <3>2, <4>1, ExactAfter
    <3>4. CASE q # 0 /\ SameTag(g, a)
      <4>1. g.n = n /\ g.id = k
        BY <1>1, <3>4 DEF SameTag
      <4> QED
        BY <1>13, <3>1, <3>2, <3>4, <4>1
    <3> QED
      BY <1>3, <3>3, <3>4
  <2> QED
    BY <2>1, <2>2 DEF Twos
<1>15. AppliedTyped'
  <2>1. Len(issued') = Len(issued) + 1
    BY <1>1 DEF NewCommand
  <2> QED
    BY <1>1, <2>1 DEF AppliedTyped
<1> QED
  BY <1>8, <1>9, <1>10, <1>11, <1>12, <1>14, <1>15 DEF Books

---------------------------------------------------------------------------
(* Acknowledgements: none completes a flow whose command was not handled. *)

\* Everything that the numbers and identifiers in use need.
Accountable == /\ Typed /\ NotYet /\ Phases
               /\ Books /\ AppliedTyped /\ AcksFresh /\ PubrelsKnown

\* An identifier whose command was handled stays so: new flows have new
\* identifiers.
LEMMA StillFresh ==
  ASSUME Typed, \A n : Seen(n) => Seen(n)', lastId' \in Nat, lastId' >= lastId,
         \A g \in inflight' : (\E f \in inflight : SameTag(g, f)) \/ g.id = lastId + 1,
         NEW id \in Nat, Fresh(id)
  PROVE  Fresh(id)'
<1>1. lastId \in Nat
  BY DEF Typed, BrokerTyped
<1>2. id <= lastId'
  BY <1>1 DEF Fresh
<1>3. ASSUME NEW g \in inflight', g.id = id PROVE Seen(g.n)'
  <2>1. g.id # lastId + 1
    BY <1>1, <1>3 DEF Fresh
  <2>2. PICK f \in inflight : SameTag(g, f)
    BY <2>1
  <2>3. Seen(f.n)
    BY <1>3, <2>2 DEF Fresh, SameTag
  <2> QED
    BY <2>2, <2>3 DEF SameTag
<1> QED
  BY <1>2, <1>3 DEF Fresh

\* In session, what the client has to say is fresh, and so is all that is written.
LEMMA FreshConversing ==
  ASSUME SizeIsLength, Accountable, ClientReceives \/ ClientSends, state = "CONNECTED"
  PROVE  AcksFresh'
<1>1. /\ Typed /\ Books /\ AppliedTyped /\ InSession
      /\ \A i \in 1..Len(b2c) : b2c[i].type # "CONNACK"
  BY DEF Accountable, Phases, Asking, Asked, Answered, Offline, InSession, Without
<1>2. PICK q : /\ Ready(q, sent) /\ Send(q, sent) /\ \A k \in 1..Len(q) : Spoken(q[k])
  BY <1>1, Conversing
<1>3. PICK m, v : Left(q, sent, m) /\ Wrote(q, sent, m, v)
  BY <1>1, <1>2, Written
<1>4. q \in Seq(Packets) /\ queue \in Seq(Packets) /\ c2b \in Seq(OutUnits) /\ Len(c2b) \in Nat
      /\ lastId \in Nat
  BY <1>1, <1>2 DEF Ready, Typed, ClientTyped, StreamsTyped, BrokerTyped
<1>5. UNCHANGED <<inflight, lastId, subscribed>>
  BY DEF ClientReceives, ClientSends, broker
<1>6. \A n : Seen(n) => Seen(n)'
  <2>1. CASE ClientReceives
    <3>1. PICK p \in InPackets : Reads(p)
      BY <1>1, <2>1, Turned
    <3> QED
      BY <1>1, <3>1, SeenAfter
  <2>2. CASE ClientSends
    BY <2>2 DEF ClientSends, Seen
  <2> QED
    BY <2>1, <2>2
<1>7. \A id \in Nat : Fresh(id) => Fresh(id)'
  <2>1. \A g \in inflight' : \E f \in inflight : SameTag(g, f)
    BY <1>5 DEF SameTag
  <2> QED
    BY <1>1, <1>4, <1>5, <1>6, <2>1, StillFresh
<1>8. ASSUME NEW k \in 1..Len(q), q[k].type \in Acks PROVE Fresh(q[k].id)'
  <2>1. Spoken(q[k])
    BY <1>2
  <2>2. ASSUME NEW j \in 1..Len(queue), SameAs(q[k], queue[j]) PROVE Fresh(q[k].id)'
    <3>1. Fresh(queue[j].id)
      BY <1>8, <2>2 DEF Accountable, AcksFresh, SameAs
    <3>2. queue[j] \in Packets
      BY <1>4
    <3>3. queue[j].id \in Nat
      BY <3>2 DEF Packets
    <3> QED
      BY <1>7, <2>2, <3>1, <3>3 DEF SameAs
  <2>3. ASSUME ClientReceives, b2c # <<>>, NEW p, p = b2c[1], p \in Messages, p.id = q[k].id,
               p.qos = IF q[k].type = "PUBACK" THEN 1 ELSE 2, onPublish(p)
        PROVE  Fresh(q[k].id)'
    <3>1. PICK r \in InPackets : Reads(r)
      BY <1>1, <2>3, Turned
    <3>2. Reads(p) /\ p.type = "PUBLISH"
      BY <2>3, <3>1 DEF Reads, Messages
    <3>3. Seen(p.n)' /\ p \in Tagged
      BY <1>1, <3>2, SeenNow
    <3>4. p.id <= lastId' /\ p.qos # 0
      BY <1>1, <1>4, <1>5, <2>3, <3>3 DEF Books, Tags
    <3>5. ASSUME NEW f \in inflight', f.id = p.id PROVE Seen(f.n)'
      <4>1. f \in Tagged /\ f.qos # 0
        BY <1>1, <1>5, FlowQos DEF Tagged, Books
      <4>2. f.n = p.n
        BY <1>1, <3>3, <3>4, <3>5, <4>1 DEF Books, OneNumber
      <4> QED
        BY <3>3, <4>2
    <3> QED
      BY <2>3, <3>4, <3>5 DEF Fresh
  <2> QED
    BY <1>8, <2>1, <2>2, <2>3 DEF Spoken, Acks
<1>9. ASSUME NEW k \in 1..Len(queue'), NEW p, p = queue'[k], p.type \in Acks
      PROVE  Fresh(p.id)'
  <2>1. m + k \in 1..Len(q) /\ p = q[m + k]
    BY <1>3, <1>9 DEF Left
  <2> QED
    BY <1>8, <1>9, <2>1
<1>10. ASSUME NEW j \in 1..Len(c2b'), NEW p, p = c2b'[j], p.type \in Acks,
              subscribed' \/ \E i \in 1..Len(c2b') : i < j /\ c2b'[i].type = "SUBSCRIBE"
       PROVE  Fresh(p.id)'
  <2>1. CASE j \in 1..Len(c2b)
    <3>1. p = c2b[j] /\ c2b[j] \in OutUnits
      BY <1>3, <1>4, <1>10, <2>1 DEF Wrote
    <3>2. \A i \in 1..Len(c2b') : i < j => i \in 1..Len(c2b) /\ c2b'[i] = c2b[i]
      BY <1>3, <1>4, <2>1 DEF Wrote
    <3>3. Fresh(c2b[j].id)
      BY <1>5, <1>10, <2>1, <3>1, <3>2 DEF Accountable, AcksFresh
    <3>4. c2b[j].id \in Nat
      BY <3>1 DEF OutUnits
    <3> QED
      BY <1>7, <3>1, <3>3, <3>4
  <2>2. CASE j > Len(c2b)
    <3>1. v[j] \in 1..Len(q) /\ IsUnitOf(p, q[v[j]])
      BY <1>3, <1>10, <2>2 DEF Wrote
    <3> QED
      BY <1>8, <1>10, <3>1 DEF IsUnitOf
  <2>3. j \in 1..Len(c2b) \/ j > Len(c2b)
    BY <1>3, <1>4 DEF Wrote
  <2> QED
    BY <2>1, <2>2, <2>3
<1> QED
  BY <1>9, <1>10 DEF AcksFresh

\* A connection begins with nothing to acknowledge.
LEMMA FreshConnected ==
  ASSUME SizeIsLength, Accountable, ClientReceives, state = "CONNECTING"
  PROVE  AcksFresh' /\ inflight' = {} /\ ~subscribed' /\ UNCHANGED <<applied, issued, acked>>
         /\ pubrels' = {}
<1>1. PICK p \in InPackets :
           /\ p = b2c[1] /\ b2c # <<>>
           /\ \/ p.type = "CONNACK" /\ onConnAck
              \/ p.type = "SUBACK" /\ p.id \in Nat /\ onSubAck(p)
              \/ p.type = "PUBLISH" /\ p \in Messages /\ onPublish(p)
              \/ p.type = "PUBREL" /\ p.id \in Nat /\ onPubRel(p)
  BY Received DEF Accountable
<1>2. Answered
  BY <1>1 DEF Accountable, Phases, Asking, Asked, InSession, Offline
<1>3. onConnAck /\ ~subscribed /\ Without(c2b, "SUBSCRIBE")
  BY <1>1, <1>2 DEF Answered, NotSubscribed
<1>4. ~subscribed' /\ inflight' = {} /\ UNCHANGED <<applied, issued, acked>> /\ pubrels' = {}
  BY <1>3 DEF Accountable, NotYet, ClientReceives, broker, onConnAck, pubrelsCleared
<1>5. PICK o \in Published(sendInitValues(data)) :
           \E q : /\ Ready(q, 0) /\ Send(q, 0)
                  /\ q = <<Packet("SUBSCRIBE", packetId')>> \o o.packets
                  /\ o.packets \in Seq(Packets)
                  /\ \A k \in 1..Len(o.packets) : o.packets[k].type = "PUBLISH"
  BY <1>3, Connected DEF Accountable
<1> DEFINE b == o.packets
           x == Packet("SUBSCRIBE", packetId')
<1>6. PICK q : /\ Ready(q, 0) /\ Send(q, 0) /\ q = <<x>> \o b
               /\ b \in Seq(Packets) /\ \A k \in 1..Len(b) : b[k].type = "PUBLISH"
  BY <1>5
<1>7. packetId' \in Nat
  BY <1>3 DEF onConnAck, Accountable, Typed, ClientTyped
<1>8. x \in Packets /\ x.type = "SUBSCRIBE"
  BY <1>7, PacketsMade DEF PacketTypes
<1> HIDE DEF b, x
<1>9. Len(q) = Len(b) + 1 /\ q[1] = x /\ \A k \in 1..Len(b) : q[k + 1] = b[k]
  BY <1>6, <1>8, Prefixed
<1>10. ASSUME NEW k \in 1..Len(q) PROVE q[k].type \notin Acks
  <2>1. CASE k = 1
    BY <2>1, <1>8, <1>9 DEF Acks
  <2>2. CASE k # 1
    <3>1. k - 1 \in 1..Len(b) /\ (k - 1) + 1 = k
      BY <2>2, <1>6, <1>9
    <3>2. q[k] = b[k - 1]
      BY <3>1, <1>9
    <3> QED
      BY <3>1, <3>2, <1>6 DEF Acks
  <2> QED
    BY <2>1, <2>2
<1>11. PICK m, v : Left(q, 0, m) /\ Wrote(q, 0, m, v)
  BY <1>6, Written DEF Accountable
<1>12. Len(c2b) \in Nat
  BY DEF Accountable, Typed, StreamsTyped
<1>13. \A k \in 1..Len(queue') : queue'[k].type \notin Acks
  BY <1>10, <1>11 DEF Left
<1>14. ASSUME NEW j \in 1..Len(c2b'), c2b'[j].type \in Acks
       PROVE  ~\E i \in 1..Len(c2b') : i < j /\ c2b'[i].type = "SUBSCRIBE"
  <2>1. CASE j > Len(c2b)
    <3>1. v[j] \in 1..Len(q) /\ IsUnitOf(c2b'[j], q[v[j]])
      BY <1>11, <2>1 DEF Wrote
    <3> QED
      BY <1>10, <1>14, <3>1 DEF IsUnitOf
  <2>2. CASE ~(j > Len(c2b))
    <3>1. \A i \in 1..Len(c2b') : i < j => i \in 1..Len(c2b) /\ c2b'[i] = c2b[i]
      BY <1>11, <1>12, <2>2 DEF Wrote
    <3> QED
      BY <1>3, <3>1 DEF Without
  <2> QED
    BY <2>1, <2>2
<1>15. AcksFresh'
  BY <1>4, <1>13, <1>14 DEF AcksFresh
<1> QED
  BY <1>4, <1>15

\* The broker takes a packet: behind SUBSCRIBE only acknowledgements of this
\* session follow.
LEMMA FreshTaken ==
  ASSUME Accountable, BrokerReceives, Books'
  PROVE  AcksFresh'
<1> SUFFICES ASSUME state' = "CONNECTED" PROVE AcksFresh'
  BY DEF AcksFresh
<1>1. PICK u \in OutUnits, N \in Nat \ {0} :
           /\ u = c2b[1] /\ N = u.of /\ N <= Len(c2b) /\ c2b # <<>> /\ BrokerTakes(u)
           /\ \A i \in 1..N : c2b[i] = [u EXCEPT !.unit = i] /\ i \in 1..Len(c2b)
           /\ c2b' \in Seq(OutUnits) /\ Len(c2b') = Len(c2b) - N
           /\ \A i \in 1..Len(c2b') : c2b'[i] = c2b[i + N] /\ i + N \in 1..Len(c2b)
  BY Taken DEF Accountable
<1>2. UNCHANGED <<applied, queue, state, lastId>>
  BY <1>1 DEF BrokerReceives, client, BrokerTakes, broker
<1>3. \A g \in inflight' : \E f \in inflight : SameTag(g, f)
  <2>1. CASE u.type = "PUBREC"
    <3>1. inflight' = (inflight \ Flow(u.id, "pubrec")) \cup
                      {[f EXCEPT !.phase = "pubcomp"] : f \in Flow(u.id, "pubrec")}
      BY <1>1, <2>1 DEF BrokerTakes
    <3>2. \A f \in inflight : SameTag([f EXCEPT !.phase = "pubcomp"], f)
      <4> TAKE f \in inflight
      <4>1. f \in Flows
        BY DEF Accountable, Typed, BrokerTyped
      <4> QED
        BY <4>1 DEF SameTag, Flows
    <3>3. \A f \in inflight : SameTag(f, f)
      BY DEF SameTag
    <3>4. Flow(u.id, "pubrec") \subseteq inflight
      BY DEF Flow
    <3> QED
      BY <3>1, <3>2, <3>3, <3>4
  <2>2. CASE u.type # "PUBREC"
    <3>1. inflight' \subseteq inflight
      BY <1>1, <2>2 DEF BrokerTakes, FinishFlow, broker
    <3> QED
      BY <3>1 DEF SameTag
  <2> QED
    BY <2>1, <2>2
<1>4. \A id \in Nat : Fresh(id) => Fresh(id)'
  <2>1. lastId \in Nat /\ \A n : Seen(n) => Seen(n)'
    BY <1>2 DEF Accountable, Typed, BrokerTyped, Seen
  <2> QED
    BY <1>2, <1>3, <2>1, StillFresh DEF Accountable
<1>5. ASSUME NEW k \in 1..Len(queue'), NEW p, p = queue'[k], p.type \in Acks PROVE Fresh(p.id)'
  <2>1. k \in 1..Len(queue) /\ p = queue[k] /\ queue[k] \in Packets
    BY <1>2, <1>5 DEF Accountable, Typed, ClientTyped
  <2>2. p.id \in Nat /\ Fresh(p.id)
    BY <1>2, <1>5, <2>1 DEF Accountable, AcksFresh, Packets
  <2> QED
    BY <1>4, <2>2
<1>6. ASSUME NEW j \in 1..Len(c2b'), NEW p, p = c2b'[j], p.type \in Acks,
             subscribed' \/ \E i \in 1..Len(c2b') : i < j /\ c2b'[i].type = "SUBSCRIBE"
      PROVE  Fresh(p.id)'
  <2>1. p = c2b[j + N] /\ j + N \in 1..Len(c2b) /\ p \in OutUnits /\ 1 < j + N /\ 1 \in 1..Len(c2b)
    BY <1>1, <1>6 DEF Accountable, Typed, StreamsTyped
  <2>2. subscribed \/ \E i \in 1..Len(c2b) : i < j + N /\ c2b[i].type = "SUBSCRIBE"
    <3>1. CASE subscribed'
      <4>1. subscribed \/ u.type = "SUBSCRIBE"
        BY <1>1, <3>1 DEF BrokerTakes, broker
      <4> QED
        BY <1>1, <2>1, <4>1
    <3>2. ASSUME NEW i \in 1..Len(c2b'), i < j, c2b'[i].type = "SUBSCRIBE"
          PROVE  \E l \in 1..Len(c2b) : l < j + N /\ c2b[l].type = "SUBSCRIBE"
      <4>1. i + N \in 1..Len(c2b) /\ c2b[i + N] = c2b'[i] /\ i + N < j + N
        BY <1>1, <3>2, SMTT(30)
      <4> QED
        BY <3>2, <4>1
    <3> QED
      BY <1>6, <3>1, <3>2
  <2>3. p.id \in Nat /\ Fresh(p.id)
    BY <1>2, <1>6, <2>1, <2>2 DEF Accountable, AcksFresh, OutUnits
  <2> QED
    BY <1>4, <2>3
<1> QED
  BY <1>5, <1>6 DEF AcksFresh

\* The broker sends a packet: no new flow has an identifier that is being
\* acknowledged.
LEMMA FreshAnswers ==
  ASSUME Accountable, BrokerRetries \/ \E c \in Commands, q \in Qos : Command(c, q)
  PROVE  AcksFresh'
<1>1. UNCHANGED <<queue, c2b, state, subscribed, applied>>
  BY DEF BrokerRetries, Command, client
<1>2. /\ lastId' \in Nat /\ lastId' >= lastId
      /\ \A g \in inflight' : (\E f \in inflight : SameTag(g, f)) \/ g.id = lastId + 1
  <2>1. CASE BrokerRetries
    BY <2>1 DEF BrokerRetries, SameTag, Accountable, Typed, BrokerTyped
  <2>2. ASSUME NEW c \in Commands, NEW q \in Qos, Command(c, q)
        PROVE  /\ lastId' \in Nat /\ lastId' >= lastId
               /\ \A g \in inflight' : (\E f \in inflight : SameTag(g, f)) \/ g.id = lastId + 1
    <3>1. PICK n, k, a : NewCommand(c, q, n, k, a)
      BY <2>2, CommandIsNew DEF Accountable
    <3> QED
      BY <3>1 DEF NewCommand, SameTag
  <2> QED
    BY <2>1, <2>2
<1>3. \A id \in Nat : Fresh(id) => Fresh(id)'
  <2>1. \A n : Seen(n) => Seen(n)'
    BY <1>1 DEF Seen
  <2> QED
    BY <1>2, <2>1, StillFresh DEF Accountable
<1>4. /\ \A k \in 1..Len(queue) : queue[k].id \in Nat
      /\ \A j \in 1..Len(c2b) : c2b[j].id \in Nat
  <2>1. queue \in Seq(Packets) /\ c2b \in Seq(OutUnits)
    BY DEF Accountable, Typed, ClientTyped, StreamsTyped
  <2>2. \A k \in 1..Len(queue) : queue[k] \in Packets
    BY <2>1
  <2>3. \A j \in 1..Len(c2b) : c2b[j] \in OutUnits
    BY <2>1
  <2> QED
    BY <2>2, <2>3 DEF Packets, OutUnits
<1>5. ASSUME state = "CONNECTED", NEW k \in 1..Len(queue), queue[k].type \in Acks,
             NEW id, id = queue[k].id PROVE Fresh(id)'
  BY <1>3, <1>4, <1>5 DEF Accountable, AcksFresh
<1>6. ASSUME state = "CONNECTED", NEW j \in 1..Len(c2b), c2b[j].type \in Acks, NEW id, id = c2b[j].id,
             subscribed \/ \E i \in 1..Len(c2b) : i < j /\ c2b[i].type = "SUBSCRIBE"
      PROVE  Fresh(id)'
  BY <1>3, <1>4, <1>6 DEF Accountable, AcksFresh
<1> QED
  BY <1>1, <1>5, <1>6 DEF AcksFresh

\* A step that leaves the books alone.
LEMMA BooksClosed ==
  ASSUME Typed, Books, AppliedTyped, UNCHANGED <<b2c, inflight, pubrels, applied, issued, lastId>>
  PROVE  Books' /\ AppliedTyped'
<1>1. Books'
  BY FlowsUnchanged, BooksSilent
<1> QED
  BY <1>1 DEF AppliedTyped

\* Every step keeps the books.
LEMMA BooksStep ==
  ASSUME SizeIsLength, Accountable, [Next]_vars, NotYet', Phases'
  PROVE  Books' /\ AppliedTyped' /\ AcksFresh'
<1>1. Typed /\ NotYet /\ Phases /\ Books /\ AppliedTyped /\ AcksFresh /\ PubrelsKnown
  BY DEF Accountable
<1>2. \A t : state' # "CONNECTED" => AcksFresh'
  BY DEF AcksFresh
<1>3. CASE TcpConnects
  <2>1. state' # "CONNECTED" /\ UNCHANGED <<b2c, inflight, pubrels, applied, issued, lastId>>
    BY <1>3 DEF TcpConnects, broker
  <2> QED
    BY <1>1, <1>2, <2>1, BooksClosed
<1>4. CASE TcpDrops \/ Restarts
  <2>1. state' # "CONNECTED" /\ ~subscribed' /\ UNCHANGED <<applied, issued>>
    BY <1>4 DEF TcpDrops, Restarts
  <2> QED
    BY <1>1, <1>2, <2>1, Unbooked DEF AppliedTyped
<1>5. CASE ClientSends
  <2>1. state' = state /\ UNCHANGED <<b2c, inflight, pubrels, applied, issued, lastId>>
    BY <1>5 DEF ClientSends, broker
  <2>2. AcksFresh'
    BY <1>2, <1>5, <2>1, FreshConversing
  <2> QED
    BY <1>1, <2>1, <2>2, BooksClosed
<1>6. CASE ClientReceives
  <2>1. CASE state = "CONNECTED"
    <3>1. \A i \in 1..Len(b2c) : b2c[i].type # "CONNACK"
      BY <1>1, <2>1 DEF Phases, Asking, Asked, Answered, InSession, Offline, Without
    <3>2. PICK p \in InPackets : Reads(p)
      BY <1>1, <1>6, <3>1, Turned
    <3> QED
      BY <1>1, <1>6, <2>1, <3>2, BooksRead, FreshConversing
  <2>2. CASE state = "CONNECTING"
    <3>1. AcksFresh' /\ ~subscribed' /\ UNCHANGED <<applied, issued>>
      BY <1>6, <2>2, FreshConnected
    <3> QED
      BY <1>1, <3>1, Unbooked DEF AppliedTyped
  <2>3. state # "DISCONNECTED"
    BY <1>1, <1>6 DEF Typed, StreamsTyped, ClientReceives
  <2> QED
    BY <1>1, <2>1, <2>2, <2>3 DEF Typed, ClientTyped
<1>7. CASE BrokerReceives
  <2>1. UNCHANGED <<applied, issued>>
    BY <1>7 DEF BrokerReceives, BrokerTakes, broker
  <2> QED
    BY <1>1, <1>7, <2>1, BooksTaken, FreshTaken DEF AppliedTyped
<1>8. CASE BrokerRetries
  <2>1. UNCHANGED <<applied, issued>>
    BY <1>8 DEF BrokerRetries
  <2> QED
    BY <1>1, <1>8, <2>1, BooksRetried, FreshAnswers DEF AppliedTyped
<1>9. ASSUME NEW c \in Commands, NEW q \in Qos, Command(c, q)
      PROVE  Books' /\ AppliedTyped' /\ AcksFresh'
  <2>1. state = "CONNECTED"
    BY <1>1, <1>9 DEF Command, Phases, Asking, Asked, Answered, InSession, Offline, NotSubscribed
  <2>2. PICK n, k, a : NewCommand(c, q, n, k, a)
    BY <1>1, <1>9, CommandIsNew
  <2> QED
    BY <1>1, <1>9, <2>1, <2>2, BooksIssued, FreshAnswers DEF PubrelsKnown
<1>10. CASE UNCHANGED vars
  <2>1. UNCHANGED <<b2c, inflight, pubrels, applied, issued, lastId, state, queue, c2b, subscribed>>
    BY <1>10 DEF vars, client, broker
  <2>2. AcksFresh'
    BY <1>1, <2>1 DEF AcksFresh, Fresh, Seen
  <2> QED
    BY <1>1, <2>1, <2>2, BooksClosed
<1> QED
  BY <1>3, <1>4, <1>5, <1>6, <1>7, <1>8, <1>9, <1>10 DEF Next

\* In session _pendingPubRels holds identifiers of this session only: it is
\* cleared when the session begins.
LEMMA PubrelsStep ==
  ASSUME SizeIsLength, Accountable, [Next]_vars
  PROVE  PubrelsKnown'
<1>1. Typed /\ Phases /\ Books /\ AppliedTyped /\ PubrelsKnown /\ lastId \in Nat
      /\ pubrels \subseteq Nat
  <2>1. pubrels \subseteq 1..MaxCommands /\ MaxCommands \in Nat
    BY SessionAssumption DEF Accountable, Typed, ClientTyped
  <2> QED
    BY <2>1 DEF Accountable, Typed, BrokerTyped
<1>2. CASE TcpConnects \/ TcpDrops \/ Restarts
  BY <1>2 DEF TcpConnects, TcpDrops, Restarts, PubrelsKnown
<1>3. CASE ClientReceives
  <2>1. CASE state = "CONNECTED"
    <3>1. \A i \in 1..Len(b2c) : b2c[i].type # "CONNACK"
      BY <1>1, <2>1 DEF Phases, Asking, Asked, Answered, InSession, Offline, Without
    <3>2. PICK p \in InPackets : Reads(p)
      BY <1>1, <1>3, <3>1, Turned
    <3>3. lastId' = lastId
      BY <3>2 DEF Reads
    <3>4. CASE TakesUp(p)
      <4>1. p \in Tagged
        BY <1>1, <3>2, <3>4, SeenNow DEF TakesUp
      <4>2. p.id \in 0..lastId
        BY <4>1, <1>1 DEF Books, Tags
      <4> QED
        BY <1>1, <2>1, <3>3, <3>4, <4>2 DEF TakesUp, PubrelsKnown
    <3>5. CASE ~TakesUp(p)
      BY <1>1, <2>1, <3>2, <3>3, <3>5 DEF Reads, Passes, Forgets, PubrelsKnown
    <3> QED
      BY <3>4, <3>5
  <2>2. CASE state = "CONNECTING"
    BY <1>3, <2>2, FreshConnected DEF PubrelsKnown
  <2>3. state # "DISCONNECTED"
    BY <1>1, <1>3 DEF Typed, StreamsTyped, ClientReceives
  <2> QED
    BY <1>1, <2>1, <2>2, <2>3 DEF Typed, ClientTyped
<1>4. CASE ClientSends \/ BrokerReceives \/ BrokerRetries \/ UNCHANGED vars
  <2>1. UNCHANGED <<state, pubrels, lastId>>
    BY <1>4 DEF ClientSends, BrokerReceives, BrokerTakes, BrokerRetries, vars, client, broker
  <2> QED
    BY <1>1, <2>1 DEF PubrelsKnown
<1>5. ASSUME NEW c \in Commands, NEW q \in Qos, Command(c, q) PROVE PubrelsKnown'
  <2>1. UNCHANGED <<state, pubrels>> /\ lastId' \in Nat /\ lastId' >= lastId
    BY <1>1, <1>5 DEF Command, client
  <2> QED
    BY <1>1, <2>1 DEF PubrelsKnown
<1> QED
  BY <1>2, <1>3, <1>4, <1>5 DEF Next

\* Accountable is inductive.
LEMMA AccountableStep ==
  SizeIsLength /\ Accountable /\ [Next]_vars => Accountable'
<1> SUFFICES ASSUME SizeIsLength, Accountable, [Next]_vars PROVE Accountable'
  OBVIOUS
<1>1. Typed /\ NotYet /\ Phases
  BY DEF Accountable
<1>2. Typed' /\ NotYet' /\ Phases'
  BY <1>1, TypedStep, NotYetStep, PhaseStep
<1> QED
  BY <1>2, BooksStep, PubrelsStep DEF Accountable

\* It holds in the initial state.
LEMMA AccountableInit == SizeIsLength /\ Init => Accountable
<1> SUFFICES ASSUME SizeIsLength, Init PROVE Accountable
  OBVIOUS
<1>1. Typed /\ Phases /\ NotYet
  BY TypedFirst, PhaseInit
<1>2. Books
  <2>1. inflight = {} /\ b2c = <<>> /\ Places = {}
    BY DEF Init, Places
  <2>2. Tagged = {}
    BY <2>1 DEF Tagged
  <2> QED
    BY <2>1, <2>2 DEF Books, Tags, OneNumber, OneFlow, FlowsOk, Order, Twos
<1>3. AppliedTyped /\ AcksFresh /\ PubrelsKnown
  BY DEF Init, AppliedTyped, AcksFresh, PubrelsKnown
<1> QED
  BY <1>1, <1>2, <1>3 DEF Accountable

---------------------------------------------------------------------------
(* The conversation implements CommandDelivery. *)

\* The abstract specification's Handled is what the books call Seen.
LEMMA HandledIsSeen == AppliedTyped => \A n : Delivery!Handled(n) <=> Seen(n)
  BY DEF AppliedTyped, Delivery!Handled, Seen

\* The client takes up a message: the abstract command is handled.
LEMMA DeliversRead ==
  ASSUME SizeIsLength, Accountable, ClientReceives
  PROVE  [Delivery!Next]_(Delivery!deliveryVars)
<1>1. Typed /\ Books /\ AppliedTyped /\ UNCHANGED <<issued, acked>>
  BY DEF Accountable, ClientReceives, broker
<1>2. CASE state = "CONNECTED"
  <2>1. \A i \in 1..Len(b2c) : b2c[i].type # "CONNACK"
    BY <1>2 DEF Accountable, Phases, Asking, Asked, Answered, InSession, Offline, Without
  <2>2. PICK p \in InPackets : Reads(p)
    BY <1>1, <2>1, Turned
  <2>3. CASE TakesUp(p)
    <3>1. /\ p \in Tagged
          /\ \/ \A k \in 1..Len(applied) : applied[k] < p.n
             \/ p.qos = 1 /\ Seen(p.n)
      BY <1>1, <2>2, <2>3, SeenNow DEF TakesUp
    <3>2. p.n \in 1..Len(issued) /\ p.qos = issued[p.n]
      BY <1>1, <3>1 DEF Books, Tags
    <3>3. DOMAIN applied = 1..Len(applied) /\ DOMAIN issued = 1..Len(issued)
      BY <1>1 DEF AppliedTyped, Typed, BrokerTyped
    <3>4. Delivery!Apply(p.n)
      BY <1>1, <2>3, <3>1, <3>2, <3>3, HandledIsSeen DEF TakesUp, Delivery!Apply
    <3> QED
      BY <3>2, <3>3, <3>4 DEF Delivery!Next
  <2>4. CASE ~TakesUp(p)
    BY <1>1, <2>2, <2>4 DEF Reads, Passes, Forgets, Delivery!deliveryVars
  <2> QED
    BY <2>3, <2>4
<1>3. CASE state = "CONNECTING"
  <2>1. UNCHANGED <<applied, issued, acked>>
    BY <1>3, FreshConnected
  <2> QED
    BY <2>1 DEF Delivery!deliveryVars
<1>4. state # "DISCONNECTED"
  BY <1>1 DEF Typed, StreamsTyped, ClientReceives
<1> QED
  BY <1>1, <1>2, <1>3, <1>4 DEF Typed, ClientTyped

\* The broker completes at most one flow, of a command that was handled.
LEMMA DeliversTaken ==
  ASSUME Accountable, BrokerReceives
  PROVE  [Delivery!Next]_(Delivery!deliveryVars)
<1>1. PICK u \in OutUnits, N \in Nat \ {0} : u = c2b[1] /\ c2b # <<>> /\ BrokerTakes(u)
  BY Taken DEF Accountable
<1>2. UNCHANGED <<applied, issued>>
  BY <1>1 DEF BrokerReceives, BrokerTakes, broker
<1>3. CASE u.type \in {"PUBACK", "PUBCOMP"}
  <2>1. PICK F : F = Flow(u.id, IF u.type = "PUBACK" THEN "puback" ELSE "pubcomp")
    OBVIOUS
  <2>2. acked' = acked \cup {f.n : f \in F}
    BY <1>1, <1>3, <2>1 DEF BrokerTakes, FinishFlow
  <2>3. \A f \in F : f \in inflight /\ f.id = u.id /\ (u.type \in Acks \/ f.phase = "pubcomp")
    BY <1>3, <2>1 DEF Flow, Acks
  <2>4. CASE F = {}
    BY <1>2, <2>2, <2>4 DEF Delivery!deliveryVars
  <2>5. ASSUME NEW f \in F PROVE [Delivery!Next]_(Delivery!deliveryVars)
    <3>1. F = {f}
      BY <2>3, <2>5 DEF Accountable, Books, OneFlow
    <3>2. Seen(f.n)
      BY <1>1, <2>3, FoundSeen DEF Accountable
    <3>3. f.n \in 1..Len(issued) /\ f.qos = issued[f.n] /\ f.qos # 0
      BY <2>3, FlowQos DEF Accountable, Books, Tags, Tagged
    <3>4. f.n \in DOMAIN issued /\ Delivery!Handled(f.n)
      BY <3>2, <3>3, HandledIsSeen DEF Accountable, Typed, BrokerTyped
    <3>5. acked' = acked \cup {f.n}
      BY <2>2, <3>1
    <3>6. Delivery!Complete(f.n)
      BY <1>2, <3>3, <3>4, <3>5 DEF Delivery!Complete
    <3> QED
      BY <3>4, <3>6 DEF Delivery!Next
  <2> QED
    BY <2>4, <2>5
<1>4. CASE u.type \notin {"PUBACK", "PUBCOMP"}
  <2>1. acked' = acked
    BY <1>1, <1>4 DEF BrokerTakes, broker
  <2> QED
    BY <1>2, <2>1 DEF Delivery!deliveryVars
<1> QED
  BY <1>3, <1>4

\* Every step is one of the abstract specification, or a step that it does not
\* see.
LEMMA Delivers ==
  SizeIsLength /\ Accountable /\ [Next]_vars => [Delivery!Next]_(Delivery!deliveryVars)
<1> SUFFICES ASSUME SizeIsLength, Accountable, [Next]_vars
             PROVE  [Delivery!Next]_(Delivery!deliveryVars)
  OBVIOUS
<1>1. CASE TcpConnects \/ TcpDrops \/ Restarts \/ ClientSends \/ BrokerRetries \/ UNCHANGED vars
  <2>1. UNCHANGED <<issued, applied, acked>>
    BY <1>1 DEF TcpConnects, TcpDrops, Restarts, ClientSends, BrokerRetries, vars, broker
  <2> QED
    BY <2>1 DEF Delivery!deliveryVars
<1>2. ASSUME NEW c \in Commands, NEW q \in Qos, Command(c, q)
      PROVE  Delivery!Issue(q)
  BY <1>2 DEF Command, Delivery!Issue
<1> QED
  BY <1>1, <1>2, DeliversRead, DeliversTaken DEF Next, Delivery!Next

\* The refinement: the conversation implements CommandDelivery, over lost and
\* repeated packets, several connections and restarts
\* (AsyncMqttClient.cpp:506-510 and 553-629).
THEOREM DeliveryImplemented ==
  ASSUME SizeIsLength
  PROVE  Spec => CommandsDelivered
<1>1. Init => Delivery!Init
  BY DEF Init, Delivery!Init
<1>2. Init => Accountable
  BY AccountableInit
<1>3. Accountable /\ [Next]_vars => Accountable'
  BY AccountableStep
<1>4. Accountable /\ [Next]_vars => [Delivery!Next]_(Delivery!deliveryVars)
  BY Delivers
<1> QED
  BY <1>1, <1>2, <1>3, <1>4, PTL DEF Spec, CommandsDelivered, Delivery!Spec

\* The numbers handled and completed are those of commands issued.
DeliveryTyped ==
  /\ issued \in Seq(Qos)
  /\ applied \in Seq(DOMAIN issued)
  /\ acked \subseteq DOMAIN issued

\* What the abstract specification promises, in its three parts.
Promise ==
  Delivery!HandledOnce /\ Delivery!CompleteWasHandled /\ Delivery!HandledInOrder

\* The inductive invariant of CommandDelivery: a step that handles a command
\* compares it with all that were handled, so the three are shown together.
Promised == DeliveryTyped /\ Promise

\* A longer list of issued commands says the same of those already in it.
LEMMA PromisedIssued ==
  ASSUME DeliveryTyped, NEW q \in Qos, Delivery!Issue(q)
  PROVE  /\ DeliveryTyped'
         /\ \A i \in DOMAIN applied : issued'[applied[i]] = issued[applied[i]]
  BY DEF DeliveryTyped, Delivery!Issue

\* One more command at the end of those handled.
LEMMA OneHandled ==
  ASSUME DeliveryTyped, NEW n \in DOMAIN issued, Delivery!Apply(n)
  PROVE  /\ DeliveryTyped'
         /\ Len(applied) \in Nat
         /\ DOMAIN applied = 1..Len(applied)
         /\ DOMAIN applied' = 1..Len(applied) + 1
         /\ \A i \in DOMAIN applied : applied'[i] = applied[i]
         /\ applied'[Len(applied) + 1] = n
         /\ n \in Nat
         /\ \A i \in DOMAIN applied : applied[i] \in Nat
  BY DEF DeliveryTyped, Delivery!Apply

\* The step of a new or repeated command keeps the order.
LEMMA HandledKeepsOrder ==
  ASSUME Promised, NEW n \in DOMAIN issued, Delivery!Apply(n)
  PROVE  Delivery!HandledInOrder'
<1> DEFINE L == Len(applied)
<1>1. /\ L \in Nat /\ n \in Nat
      /\ DOMAIN applied = 1..L /\ DOMAIN applied' = 1..L + 1
      /\ \A i \in 1..L : applied'[i] = applied[i]
      /\ applied'[L + 1] = n
      /\ \A i \in 1..L : applied[i] \in Nat
  BY OneHandled DEF Promised, Promise
<1>2. \A i \in 1..L : Delivery!FirstTime(i)' => Delivery!FirstTime(i)
  BY <1>1 DEF Delivery!FirstTime
<1>3. SUFFICES ASSUME NEW i \in 1..L + 1, NEW j \in 1..L + 1,
                      Delivery!FirstTime(i)', Delivery!FirstTime(j)', i < j
               PROVE  applied'[i] < applied'[j]
  BY <1>1 DEF Delivery!HandledInOrder
<1>4. i \in 1..L
  BY <1>1, <1>3
<1>5. CASE j \in 1..L
  BY <1>1, <1>2, <1>3, <1>4, <1>5 DEF Promised, Promise, Delivery!HandledInOrder
<1>6. CASE j = L + 1
  <2>1. CASE \A k \in DOMAIN applied : applied[k] < n
    BY <1>1, <1>4, <1>6, <2>1
  <2>2. CASE Delivery!Handled(n)
    <3>1. PICK k \in 1..L : applied[k] = n
      BY <1>1, <2>2 DEF Delivery!Handled
    <3>2. applied'[k] = applied'[j] /\ k < j
      BY <1>1, <1>6, <3>1
    <3> QED
      BY <1>1, <1>3, <1>6, <3>1, <3>2 DEF Delivery!FirstTime
  <2> QED
    BY <2>1, <2>2 DEF Delivery!Apply
<1> QED
  BY <1>1, <1>5, <1>6

\* The step of a new or repeated command repeats only one of QoS 1.
LEMMA HandledKeepsOnce ==
  ASSUME Promised, NEW n \in DOMAIN issued, Delivery!Apply(n)
  PROVE  Delivery!HandledOnce'
<1> DEFINE L == Len(applied)
<1>1. /\ L \in Nat /\ n \in Nat
      /\ DOMAIN applied = 1..L /\ DOMAIN applied' = 1..L + 1
      /\ \A i \in 1..L : applied'[i] = applied[i]
      /\ applied'[L + 1] = n
      /\ \A i \in 1..L : applied[i] \in Nat
  BY OneHandled DEF Promised, Promise
<1>2. issued' = issued
  BY DEF Delivery!Apply
<1>3. SUFFICES ASSUME NEW i \in 1..L + 1, NEW j \in 1..L + 1,
                      applied'[i] = applied'[j], issued[applied'[i]] # 1
               PROVE  i = j
  BY <1>1, <1>2 DEF Delivery!HandledOnce
<1>4. CASE i \in 1..L /\ j \in 1..L
  BY <1>1, <1>3, <1>4 DEF Promised, Promise, Delivery!HandledOnce
<1>5. CASE i = L + 1 \/ j = L + 1
  <2>1. applied'[i] = n /\ applied'[j] = n
    BY <1>1, <1>3, <1>5
  <2>2. \A k \in 1..L : applied[k] < n
    BY <1>1, <1>3, <2>1 DEF Delivery!Apply
  <2>3. i \notin 1..L /\ j \notin 1..L
    BY <1>1, <2>1, <2>2
  <2> QED
    BY <1>1, <2>3
<1> QED
  BY <1>1, <1>4, <1>5

\* Every step of CommandDelivery keeps the promise.
LEMMA PromisedStep ==
  ASSUME Promised, [Delivery!Next]_(Delivery!deliveryVars)
  PROVE  Promised'
<1>1. ASSUME NEW q \in Qos, Delivery!Issue(q)
      PROVE  Promised'
  <2>1. /\ DeliveryTyped' /\ applied' = applied /\ acked' = acked
        /\ \A i \in DOMAIN applied : issued'[applied[i]] = issued[applied[i]]
    BY <1>1, PromisedIssued DEF Promised, Promise, Delivery!Issue
  <2> QED
    BY <2>1 DEF Promised, Promise, Delivery!HandledOnce, Delivery!CompleteWasHandled,
         Delivery!HandledInOrder, Delivery!FirstTime, Delivery!Handled
<1>2. ASSUME NEW n \in DOMAIN issued, Delivery!Apply(n)
      PROVE  Promised'
  <2>1. DeliveryTyped'
    BY <1>2, OneHandled DEF Promised, Promise
  <2>2. Delivery!CompleteWasHandled'
    <3>1. /\ acked' = acked
          /\ DOMAIN applied \subseteq DOMAIN applied'
          /\ \A i \in DOMAIN applied : applied'[i] = applied[i]
      BY <1>2, OneHandled DEF Promised, Promise, Delivery!Apply
    <3> QED
      BY <3>1 DEF Promised, Promise, Delivery!CompleteWasHandled, Delivery!Handled
  <2> QED
    BY <1>2, <2>1, <2>2, HandledKeepsOnce, HandledKeepsOrder DEF Promised, Promise
<1>3. ASSUME NEW n \in DOMAIN issued, Delivery!Complete(n)
      PROVE  Promised'
  BY <1>3 DEF Promised, Promise, DeliveryTyped, Delivery!Complete, Delivery!HandledOnce,
       Delivery!CompleteWasHandled, Delivery!HandledInOrder, Delivery!FirstTime,
       Delivery!Handled
<1>4. CASE UNCHANGED Delivery!deliveryVars
  BY <1>4 DEF Promised, Promise, DeliveryTyped, Delivery!HandledOnce,
       Delivery!CompleteWasHandled, Delivery!HandledInOrder, Delivery!FirstTime,
       Delivery!Handled, Delivery!deliveryVars
<1> QED
  BY <1>1, <1>2, <1>3, <1>4 DEF Delivery!Next

\* Nothing was handled at the beginning.
LEMMA PromisedFirst == Delivery!Init => Promised
  BY DEF Delivery!Init, Promised, Promise, DeliveryTyped, Delivery!HandledOnce,
       Delivery!CompleteWasHandled, Delivery!HandledInOrder, Delivery!FirstTime,
       Delivery!Handled

\* Nothing but a QoS 1 command is handled twice, a completed command was
\* handled, and commands are handled in the order in which they were issued
\* (for MqttSession: AsyncMqttClient.cpp:553-629).
THEOREM Promises ==
  Delivery!Spec => []Promise
<1>1. Promised => Promise
  BY DEF Promised, Promise
<1> QED
  BY <1>1, PromisedFirst, PromisedStep, PTL DEF Delivery!Spec

\* The same of the firmware's conversation: nothing but a QoS 1 command is
\* handled twice, a completed one was handled, and commands are handled in the
\* order in which they were issued, whatever is lost, repeated or restarted.
THEOREM SessionPromises ==
  ASSUME SizeIsLength
  PROVE  Spec => []Promise
<1>1. Spec => Delivery!Spec
  BY DeliveryImplemented DEF CommandsDelivered
<1> QED
  BY <1>1, Promises, PTL

---------------------------------------------------------------------------
(* The retained topics follow the device object. *)

\* The last publication of topic t in s has the payload x.
Tells(s, t, x) ==
  \E i \in About(s, t) : (\A j \in About(s, t) : j <= i) /\ s[i].body.payload = x

\* Of topic t the payload x will be retained.
Says(q, c, r, t, x) ==
  IF About(q, t) # {} THEN Tells(q, t, x)
  ELSE IF About(c, t) # {} THEN Tells(c, t, x)
  ELSE r[t] = x

\* A publication of a topic that occurs in a sequence occurs there a last time.
LEMMA LastExists ==
  ASSUME NEW s, Len(s) \in Nat, NEW t, About(s, t) # {}
  PROVE  \E i \in About(s, t) : \A j \in About(s, t) : j <= i
<1> DEFINE A == About(s, t)
           S == {n \in Nat : (\E i \in A : i <= n) =>
                   \E i \in A : i <= n /\ \A j \in A : j <= n => j <= i}
<1>1. A \subseteq 1..Len(s)
  BY DEF About
<1> HIDE DEF A
<1>2. 0 \in S
  BY <1>1
<1>3. ASSUME NEW n \in Nat, n \in S PROVE n + 1 \in S
  <2>1. CASE n + 1 \in A
    <3>1. n + 1 <= n + 1 /\ \A j \in A : j <= n + 1 => j <= n + 1
      OBVIOUS
    <3> QED
      BY <2>1, <3>1
  <2>2. CASE n + 1 \notin A
    <3>1. \A j \in A : j <= n + 1 <=> j <= n
      BY <1>1, <2>2
    <3> QED
      BY <1>3, <3>1
  <2> QED
    BY <2>1, <2>2
<1>4. Len(s) \in S
  <2> HIDE DEF S
  <2> QED
    BY <1>2, <1>3, NatSetInduction
<1>5. \A j \in A : j <= Len(s)
  BY <1>1
<1> QED
  BY <1>4, <1>5 DEF A

\* The payload of LastAbout is the payload that is told last.
LEMMA LastIs ==
  ASSUME NEW s, Len(s) \in Nat, NEW t, NEW x, Tells(s, t, x)
  PROVE  s[LastAbout(s, t)].body.payload = x /\ About(s, t) # {}
<1>1. PICK i \in About(s, t) : (\A j \in About(s, t) : j <= i) /\ s[i].body.payload = x
  BY DEF Tells
<1>2. LastAbout(s, t) \in About(s, t) /\ \A j \in About(s, t) : j <= LastAbout(s, t)
  BY <1>1 DEF LastAbout
<1>3. \A j \in About(s, t) : j \in Nat
  BY DEF About
<1>4. LastAbout(s, t) = i
  BY <1>1, <1>2, <1>3
<1> QED
  BY <1>1, <1>4

\* If all publications of a topic from some place on have one payload, the last
\* one has it.
LEMMA TellsAll ==
  ASSUME NEW s, Len(s) \in Nat, NEW t, NEW x, NEW k \in About(s, t),
         \A i \in About(s, t) : i >= k => s[i].body.payload = x
  PROVE  Tells(s, t, x)
<1>1. PICK i \in About(s, t) : \A j \in About(s, t) : j <= i
  BY LastExists
<1>2. i >= k
  BY <1>1 DEF About
<1> QED
  BY <1>1, <1>2 DEF Tells

\* Places of a correspond to places of b, f in order; b has no other about t.
Moved(a, b, f, t) ==
  /\ Len(a) \in Nat /\ Len(b) \in Nat
  /\ \A i \in 1..Len(a) : f[i] \in 1..Len(b) /\ b[f[i]].type = a[i].type /\ b[f[i]].body = a[i].body
  /\ \A i, j \in 1..Len(a) : i <= j => f[i] <= f[j]
  /\ \A k \in About(b, t) : \E i \in 1..Len(a) : f[i] = k

\* Moving packets without adding a publication changes nothing of what is said.
LEMMA MovedSays ==
  ASSUME NEW a, NEW b, NEW f, NEW t, Moved(a, b, f, t), NEW c, NEW r, NEW x, Says(a, c, r, t, x)
  PROVE  Says(b, c, r, t, x)
<1>1. \A k \in About(b, t) : \E i \in About(a, t) : f[i] = k
  BY DEF Moved, About
<1>2. CASE About(a, t) = {}
  <2>1. About(b, t) = {}
    BY <1>1, <1>2
  <2> QED
    BY <1>2, <2>1 DEF Says
<1>3. CASE About(a, t) # {}
  <2>1. PICK i \in About(a, t) : (\A j \in About(a, t) : j <= i) /\ a[i].body.payload = x
    BY <1>3 DEF Says, Tells
  <2>2. f[i] \in About(b, t) /\ b[f[i]].body.payload = x
    BY <2>1 DEF Moved, About
  <2>3. \A k \in About(b, t) : k <= f[i]
    <3> TAKE k \in About(b, t)
    <3>1. PICK j \in About(a, t) : f[j] = k
      BY <1>1
    <3> QED
      BY <3>1, <2>1 DEF Moved, About
  <2>4. Tells(b, t, x) /\ About(b, t) # {}
    BY <2>2, <2>3 DEF Tells
  <2> QED
    BY <2>4 DEF Says
<1> QED
  BY <1>2, <1>3

\* Nor does _handleQueue: it writes the publications in order, and behind those
\* written before.
LEMMA SendSays ==
  ASSUME SizeIsLength, Typed, NEW q, NEW s, Ready(q, s), Send(q, s),
         NEW r, NEW t, NEW x, Says(q, c2b, r, t, x)
  PROVE  Says(queue', c2b', r, t, x)
<1>1. PICK m, v : Left(q, s, m) /\ Wrote(q, s, m, v)
  BY Written
<1>2. /\ q \in Seq(Packets) /\ Len(q) \in Nat /\ Progress(q, s) /\ s \in Nat
      /\ Len(c2b) \in Nat /\ m \in Nat
  BY <1>1 DEF Ready, Typed, StreamsTyped, Left
<1>3. queue' \in Seq(Packets) /\ Len(queue') \in Nat /\ Len(c2b') \in Nat
  <2>1. queue' \in Seq(Packets) /\ c2b' \in Seq(OutUnits)
    BY ReadySent
  <2> QED
    BY <2>1
<1>4. Len(queue') = Len(q) - m
      /\ \A k \in 1..Len(queue') : queue'[k] = q[m + k] /\ m + k \in 1..Len(q)
  BY <1>1 DEF Left
<1>5. \A k \in About(queue', t) : m + k \in About(q, t)
  BY <1>4 DEF About
<1>6. \A i \in About(q, t) : i > m => i - m \in About(queue', t) /\ queue'[i - m] = q[i]
  <2> SUFFICES ASSUME NEW i \in About(q, t), i > m
               PROVE  i - m \in About(queue', t) /\ queue'[i - m] = q[i]
    OBVIOUS
  <2>1. i - m \in 1..Len(queue') /\ m + (i - m) = i
    BY <1>2, <1>4 DEF About
  <2>2. queue'[i - m] = q[i]
    BY <1>4, <2>1
  <2> QED
    BY <2>1, <2>2 DEF About
<1>7. ASSUME NEW l \in 1..Len(c2b'), l > Len(c2b)
      PROVE  /\ v[l] \in 1..Len(q)
             /\ l \in About(c2b', t) <=> v[l] \in About(q, t)
             /\ c2b'[l].body = q[v[l]].body
  <2>1. v[l] \in 1..Len(q) /\ IsUnitOf(c2b'[l], q[v[l]])
    BY <1>1, <1>7 DEF Wrote
  <2> QED
    BY <2>1 DEF IsUnitOf, About
<1>8. CASE About(queue', t) # {}
  <2>1. About(q, t) # {}
    BY <1>5, <1>8
  <2>2. PICK i \in About(q, t) : (\A j \in About(q, t) : j <= i) /\ q[i].body.payload = x
    BY <2>1 DEF Says, Tells
  <2>3. i > m
    BY <1>2, <1>5, <1>8, <2>2 DEF About
  <2>4. i - m \in About(queue', t) /\ queue'[i - m].body.payload = x
    BY <1>6, <2>2, <2>3
  <2>5. \A j \in About(queue', t) : j <= i - m
    BY <1>2, <1>5, <2>2 DEF About
  <2>6. Tells(queue', t, x)
    BY <2>4, <2>5 DEF Tells
  <2> QED
    BY <1>8, <2>6 DEF Says
<1>9. CASE About(queue', t) = {} /\ About(q, t) # {}
  <2>2. PICK i \in About(q, t) : (\A j \in About(q, t) : j <= i) /\ q[i].body.payload = x
    BY <1>9 DEF Says, Tells
  <2>3. i \in 1..m /\ i \in 1..Len(q) /\ q[i].type = "PUBLISH"
    BY <1>2, <1>6, <1>9, <2>2 DEF About
  <2>4. i > 1 \/ s < Size(q[1])
    <3> SUFFICES ASSUME i = 1 PROVE s < Size(q[1])
      BY <2>3
    <3>1. q[1] \in Packets /\ q[1].type = "PUBLISH" /\ q # <<>>
      BY <1>2, <2>3
    <3>2. Size(q[1]) \in Nat
      BY <3>1 DEF SizeIsLength
    <3> QED
      BY <1>2, <3>1, <3>2 DEF Progress, Waiting
  <2>5. PICK l \in 1..Len(c2b') : l > Len(c2b) /\ v[l] = i
    BY <1>1, <2>3, <2>4 DEF Wrote
  <2>6. l \in About(c2b', t)
    BY <1>7, <2>2, <2>5
  <2>7. ASSUME NEW k \in About(c2b', t), k >= l PROVE c2b'[k].body.payload = x
    <3>1. k \in 1..Len(c2b') /\ k > Len(c2b) /\ Len(c2b) < l /\ l <= k
      BY <1>2, <2>5, <2>7 DEF About
    <3>2. v[k] \in About(q, t) /\ c2b'[k].body = q[v[k]].body
      BY <1>7, <2>7, <3>1
    <3>3. v[l] <= v[k]
      BY <1>1, <3>1, <2>5 DEF Wrote
    <3>4. v[k] <= i /\ v[k] \in Nat /\ i \in Nat
      BY <2>2, <3>2 DEF About
    <3>5. v[k] = i
      BY <2>5, <3>3, <3>4
    <3> QED
      BY <2>2, <3>2, <3>5
  <2>8. Tells(c2b', t, x)
    BY <1>3, <2>6, <2>7, TellsAll
  <2> QED
    BY <1>9, <2>6, <2>8 DEF Says
<1>10. CASE About(queue', t) = {} /\ About(q, t) = {}
  <2>1. \A l \in 1..Len(c2b) : l \in 1..Len(c2b') /\ c2b'[l] = c2b[l]
    BY <1>1 DEF Wrote
  <2>2. \A l \in 1..Len(c2b') : l \in 1..Len(c2b) \/ l > Len(c2b)
    BY <1>2
  <2>3. About(c2b', t) = About(c2b, t)
    BY <1>7, <1>10, <2>1, <2>2 DEF About
  <2>4. Tells(c2b, t, x) => Tells(c2b', t, x)
    BY <2>1, <2>3 DEF Tells, About
  <2> QED
    BY <1>10, <2>3, <2>4 DEF Says
<1> QED
  BY <1>5, <1>8, <1>9, <1>10

\* A publication has a body.
Bodied(s) == \A k \in 1..Len(s) : s[k].type = "PUBLISH" => s[k].body \in Bodies

\* What the broker retains was published.
RetainedTyped == retained \in [Reported -> {NoBody} \cup {b.payload : b \in Bodies}]

\* Mirror, with what is said last given as a witness instead of chosen.
Mirrored ==
  state = "CONNECTED" =>
    \A t \in Reported \ ({"fan", "commited"} \cup refused) :
      Says(queue, c2b, retained, t, Text(t, data))

\* All publications have bodies.
Retaining == Bodied(queue) /\ Bodied(c2b) /\ RetainedTyped

\* The queue q of which a handler sends tells the object as it will be.
Outgoing(q, s) ==
  /\ Ready(q, s) /\ Send(q, s) /\ Bodied(q)
  /\ state' = "CONNECTED" =>
       \A t \in Reported \ ({"fan", "commited"} \cup refused') :
         Says(q, c2b, retained, t, Text(t, data'))

\* When a handler sends such a queue, the topics follow the object.
LEMMA OutgoingMirrors ==
  ASSUME SizeIsLength, Typed, Bodied(c2b), NEW q, NEW s, Outgoing(q, s), retained' = retained
  PROVE  Mirrored' /\ Bodied(queue') /\ Bodied(c2b')
<1>1. Ready(q, s) /\ Send(q, s) /\ Bodied(q)
  BY DEF Outgoing
<1>2. Mirrored'
  <2> SUFFICES ASSUME state' = "CONNECTED",
                      NEW t \in Reported \ ({"fan", "commited"} \cup refused')
               PROVE  Says(queue', c2b', retained', t, Text(t, data'))
    BY DEF Mirrored
  <2>1. Says(q, c2b, retained, t, Text(t, data'))
    BY DEF Outgoing
  <2> QED
    BY <1>1, <2>1, SendSays
<1>3. PICK m, v : Left(q, s, m) /\ Wrote(q, s, m, v)
  BY <1>1, Written
<1>4. Bodied(queue')
  BY <1>1, <1>3 DEF Bodied, Left
<1>5. Bodied(c2b')
  <2> SUFFICES ASSUME NEW l \in 1..Len(c2b'), c2b'[l].type = "PUBLISH"
               PROVE  c2b'[l].body \in Bodies
    BY DEF Bodied
  <2>1. CASE l > Len(c2b)
    <3>1. v[l] \in 1..Len(q) /\ IsUnitOf(c2b'[l], q[v[l]])
      BY <1>3, <2>1 DEF Wrote
    <3> QED
      BY <1>1, <3>1 DEF Bodied, IsUnitOf
  <2>2. CASE ~(l > Len(c2b))
    <3>1. l \in 1..Len(c2b)
      BY <2>2, <1>3 DEF Typed, StreamsTyped
    <3> QED
      BY <1>3, <3>1 DEF Bodied, Wrote
  <2> QED
    BY <2>1, <2>2
<1> QED
  BY <1>2, <1>4, <1>5

\* Of the queue, with nothing new about any topic.
LEMMA OutgoingMoved ==
  ASSUME Mirrored, NEW q, NEW s, NEW f, Ready(q, s), Send(q, s), Bodied(q),
         state = "CONNECTED" => \A t : Moved(queue, q, f, t),
         state' = state, data' = data, refused' = refused
  PROVE  Outgoing(q, s)
<1> SUFFICES ASSUME state = "CONNECTED",
                    NEW t \in Reported \ ({"fan", "commited"} \cup refused)
             PROVE  Says(q, c2b, retained, t, Text(t, data))
  BY DEF Outgoing
<1>1. Says(queue, c2b, retained, t, Text(t, data)) /\ Moved(queue, q, f, t)
  BY DEF Mirrored
<1> QED
  BY <1>1, MovedSays

\* The client is polled.
LEMMA MirrorSends ==
  ASSUME SizeIsLength, Typed, Mirrored, Retaining, ClientSends
  PROVE  Mirrored' /\ Retaining'
<1>1. /\ Ready(queue, sent) /\ Send(queue, sent) /\ UNCHANGED <<data, state, refused, retained>>
      /\ Len(queue) \in Nat
  BY Sending DEF ClientSends, broker, Typed, ClientTyped
<1>2. \A t : Moved(queue, queue, [i \in 1..Len(queue) |-> i], t)
  BY <1>1 DEF Moved, About
<1>3. Outgoing(queue, sent)
  BY <1>1, <1>2, OutgoingMoved DEF Retaining
<1> QED
  BY <1>1, <1>3, OutgoingMirrors DEF Retaining, RetainedTyped

\* The client receives SUBACK.
LEMMA MirrorReleases ==
  ASSUME SizeIsLength, Typed, Mirrored, Retaining,
         NEW id \in Nat, NEW q, q = released(queue, id), Send(q, sent),
         UNCHANGED <<data, state, refused, retained>>
  PROVE  Mirrored' /\ Retaining'
<1>1. Ready(q, sent) /\ ReleasedAtMost(q, id)
  BY Subscribing
<1>2. queue \in Seq(Packets) /\ Len(queue) \in Nat
  BY DEF Typed, ClientTyped
<1>3. ASSUME NEW k \in 1..Len(queue)
      PROVE  k \in 1..Len(q) /\ q[k].type = queue[k].type /\ q[k].body = queue[k].body
  <2>1. k \in 1..Len(q) /\ queue[k] \in Packets
    BY <1>1, <1>2 DEF ReleasedAtMost
  <2>2. q[k] = queue[k] \/ q[k] = [queue[k] EXCEPT !.released = TRUE]
    BY <1>1, <2>1 DEF ReleasedAtMost
  <2> QED
    BY <2>1, <2>2 DEF Packets
<1>4. Len(q) = Len(queue)
  BY <1>1 DEF ReleasedAtMost
<1>5. \A t : Moved(queue, q, [i \in 1..Len(queue) |-> i], t)
  BY <1>2, <1>3, <1>4 DEF Moved, About
<1>6. Bodied(q)
  BY <1>3, <1>4 DEF Retaining, Bodied
<1>7. Outgoing(q, sent)
  BY <1>1, <1>5, <1>6, OutgoingMoved
<1> QED
  BY <1>7, OutgoingMirrors DEF Retaining, RetainedTyped

\* The client receives PUBREL: PUBCOMP comes between two packets.
LEMMA MirrorForgets ==
  ASSUME SizeIsLength, Typed, Mirrored, Retaining,
         NEW id \in Nat, NEW q, q = pubRel(queue, id), Send(q, sent),
         UNCHANGED <<data, state, refused, retained>>
  PROVE  Mirrored' /\ Retaining'
<1>1. Ready(q, sent)
  BY Releasing
<1>2. queue \in Seq(Packets) /\ Len(queue) \in Nat /\ sent \in Nat /\ Progress(queue, sent)
  BY DEF Typed, ClientTyped
<1>3. CASE ~headHas(queue, id)
  <2>1. q = queue
    BY <1>3 DEF pubRel
  <2>2. \A t : Moved(queue, q, [i \in 1..Len(queue) |-> i], t)
    BY <1>2, <2>1 DEF Moved, About
  <2>3. Outgoing(q, sent)
    BY <1>1, <2>1, <2>2, OutgoingMoved DEF Retaining
  <2> QED
    BY <2>3, OutgoingMirrors DEF Retaining, RetainedTyped
<1>4. CASE headHas(queue, id)
  <2>1. /\ Len(q) = Len(queue) + 1 /\ queue # <<>>
        /\ q[1] = [queue[1] EXCEPT !.released = TRUE] /\ q[2] = Packet("PUBCOMP", id)
        /\ \A k \in 2..Len(queue) : q[k + 1] = queue[k]
    BY <1>2, <1>4, PubRelQueue
  <2>2. q[2].type = "PUBCOMP"
    BY <2>1, PacketsMade DEF PacketTypes
  <2>3. queue[1] \in Packets /\ Len(queue) >= 1
    BY <1>2, <2>1
  <2>4. q[1].type = queue[1].type /\ q[1].body = queue[1].body
    BY <2>1, <2>3 DEF Packets
  <2> DEFINE f == [i \in 1..Len(queue) |-> IF i = 1 THEN 1 ELSE i + 1]
  <2>5. ASSUME NEW k \in 1..Len(queue)
        PROVE  f[k] \in 1..Len(q) /\ q[f[k]].type = queue[k].type /\ q[f[k]].body = queue[k].body
    <3>1. CASE k = 1
      <4>1. f[k] = 1 /\ 1 \in 1..Len(q)
        BY <1>2, <2>1, <3>1
      <4> QED
        BY <2>4, <3>1, <4>1
    <3>2. CASE k # 1
      <4>1. k \in 2..Len(queue) /\ f[k] = k + 1 /\ k + 1 \in 1..Len(q)
        BY <1>2, <2>1, <3>2
      <4> HIDE DEF f
      <4>2. q[f[k]] = queue[k]
        BY <2>1, <4>1
      <4>3. f[k] \in 1..Len(q)
        BY <4>1
      <4> QED
        BY <4>2, <4>3
    <3> QED
      BY <3>1, <3>2
  <2>6. \A i, j \in 1..Len(queue) : i <= j => f[i] <= f[j]
    OBVIOUS
  <2>7. ASSUME NEW k \in 1..Len(q), q[k].type = "PUBLISH"
        PROVE  \E i \in 1..Len(queue) : f[i] = k
    <3>1. CASE k = 1
      <4>1. 1 \in 1..Len(queue) /\ f[1] = 1
        BY <1>2, <2>3
      <4> QED
        BY <3>1, <4>1
    <3>2. CASE k # 1
      <4>1. k # 2
        BY <2>2, <2>7
      <4>2. k - 1 \in 1..Len(queue) /\ k - 1 # 1 /\ (k - 1) + 1 = k
        BY <1>2, <2>1, <3>2, <4>1
      <4>3. f[k - 1] = k
        BY <4>2
      <4> QED
        BY <4>2, <4>3
    <3> QED
      BY <3>1, <3>2
  <2> HIDE DEF f
  <2>8. \A t : Moved(queue, q, f, t)
    BY <1>2, <2>1, <2>5, <2>6, <2>7 DEF Moved, About
  <2>9. ASSUME NEW k \in 1..Len(q), q[k].type = "PUBLISH"
        PROVE  q[k].body \in Bodies
    <3>1. PICK i \in 1..Len(queue) : f[i] = k
      BY <2>7, <2>9
    <3>2. q[k].type = queue[i].type /\ q[k].body = queue[i].body
      BY <2>5, <3>1
    <3> QED
      BY <2>9, <3>2 DEF Retaining, Bodied
  <2>11. Bodied(q)
    BY <2>9 DEF Bodied
  <2>10. Outgoing(q, sent)
    BY <1>1, <2>8, <2>11, OutgoingMoved
  <2> QED
    BY <2>10, OutgoingMirrors DEF Retaining, RetainedTyped
<1> QED
  BY <1>3, <1>4

\* Behind its first n packets q holds the publications b, and no others.
Behind(q, n, b) ==
  /\ q \in Seq(Packets) /\ n \in Nat
  /\ \A k \in 1..Len(b) : n + k \in 1..Len(q) /\ q[n + k] = b[k]
  /\ \A i \in 1..Len(q) : i > n /\ q[i].type = "PUBLISH" => i - n \in 1..Len(b) /\ q[i] = b[i - n]

\* If a topic is published and not refused, the last publication of it in the
\* queue tells the object's value, whatever older ones are before it.
LEMMA Announced ==
  ASSUME NEW d \in WhirlpoolYJ1BData, NEW pubs \in Seq(BodiesOf(d)), NEW o \in Published(pubs),
         NEW q, NEW n, Behind(q, n, o.packets),
         NEW t \in Reported \ ({"commited"} \cup o.refused),
         NEW j \in 1..Len(pubs), pubs[j].topic = t
  PROVE  Tells(q, t, Text(t, d)) /\ About(q, t) # {}
<1>1. PICK k \in 1..Len(o.packets) : o.packets[k].type = "PUBLISH" /\ o.packets[k].body = pubs[j]
  BY PublishedPackets
<1>2. n + k \in About(q, t)
  BY <1>1 DEF Behind, About
<1>3. ASSUME NEW i \in About(q, t), i >= n + k
      PROVE  q[i].body.payload = Text(t, d)
  <2>1. i \in 1..Len(q) /\ i > n /\ q[i].type = "PUBLISH" /\ q[i].body.topic = t
    BY <1>3 DEF About, Behind
  <2>2. i - n \in 1..Len(o.packets) /\ q[i] = o.packets[i - n]
    BY <2>1 DEF Behind
  <2>3. PICK l \in 1..Len(pubs) : o.packets[i - n].body = pubs[l]
    BY <2>2, PublishedPackets, SMTT(30)
  <2>4. pubs[l] \in BodiesOf(d) /\ q[i].body = pubs[l]
    BY <2>2, <2>3
  <2>5. q[i].body.payload = Text(q[i].body.topic, d)
    BY <2>4, BodiesAre
  <2> QED
    BY <2>1, <2>5
<1>4. Len(q) \in Nat
  BY DEF Behind
<1>5. Tells(q, t, Text(t, d))
  BY <1>2, <1>3, <1>4, TellsAll
<1> QED
  BY <1>2, <1>5

\* Publications at the end of a queue have bodies.
LEMMA BodiedBehind ==
  ASSUME NEW d \in WhirlpoolYJ1BData, NEW pubs \in Seq(BodiesOf(d)), NEW o \in Published(pubs),
         NEW q, NEW n, Behind(q, n, o.packets),
         \A i \in 1..Len(q) : i <= n /\ q[i].type = "PUBLISH" => q[i].body \in Bodies
  PROVE  Bodied(q)
<1> SUFFICES ASSUME NEW i \in 1..Len(q), q[i].type = "PUBLISH", ~(i <= n)
             PROVE  q[i].body \in Bodies
  BY DEF Bodied
<1>1. i - n \in 1..Len(o.packets) /\ q[i] = o.packets[i - n]
  BY DEF Behind
<1>2. PICK l \in 1..Len(pubs) : o.packets[i - n].body = pubs[l]
  BY <1>1, PublishedPackets
<1>3. pubs[l] \in BodiesOf(d)
  OBVIOUS
<1> QED
  BY <1>1, <1>2, <1>3, BodiesAre

\* A session begins: every topic that is not refused is published.
LEMMA MirrorConnected ==
  ASSUME SizeIsLength, Typed, Retaining, onConnAck, UNCHANGED retained
  PROVE  Mirrored' /\ Retaining'
<1>1. PICK o \in Published(sendInitValues(data)) :
        \E q : /\ Ready(q, 0) /\ Send(q, 0)
               /\ q = <<Packet("SUBSCRIBE", packetId')>> \o o.packets
               /\ o.packets \in Seq(Packets)
               /\ \A k \in 1..Len(o.packets) : o.packets[k].type = "PUBLISH"
               /\ refused' = o.refused
  BY Connected
<1>2. PICK q : /\ Ready(q, 0) /\ Send(q, 0)
               /\ q = <<Packet("SUBSCRIBE", packetId')>> \o o.packets
               /\ o.packets \in Seq(Packets)
               /\ refused' = o.refused
  BY <1>1
<1>3. packetId' \in Nat /\ data' = data /\ data \in WhirlpoolYJ1BData
  BY DEF Typed, ClientTyped, InRange, onConnAck
<1>4. Packet("SUBSCRIBE", packetId') \in Packets /\ Packet("SUBSCRIBE", packetId').type = "SUBSCRIBE"
  BY <1>3, PacketsMade DEF PacketTypes
<1>5. /\ Len(q) = Len(o.packets) + 1 /\ q[1].type = "SUBSCRIBE"
      /\ \A k \in 1..Len(o.packets) : q[k + 1] = o.packets[k]
      /\ Len(o.packets) \in Nat /\ q \in Seq(Packets)
  BY <1>2, <1>4, Prefixed
<1>6. Behind(q, 1, o.packets)
  <2>1. ASSUME NEW i \in 1..Len(q), i > 1
        PROVE  i - 1 \in 1..Len(o.packets) /\ (i - 1) + 1 = i
    BY <1>5, <2>1
  <2>2. \A i \in 1..Len(q) : i > 1 => i - 1 \in 1..Len(o.packets) /\ q[i] = o.packets[i - 1]
    BY <1>5, <2>1
  <2>3. \A k \in 1..Len(o.packets) : 1 + k \in 1..Len(q) /\ q[1 + k] = o.packets[k]
    BY <1>5
  <2> QED
    BY <1>5, <2>2, <2>3 DEF Behind
<1>7. sendInitValues(data) \in Seq(BodiesOf(data))
  BY InitTold
<1>8. Bodied(q)
  <2>1. \A i \in 1..Len(q) : i <= 1 => q[i].type # "PUBLISH"
    BY <1>5
  <2> QED
    BY <1>3, <1>6, <1>7, <2>1, BodiedBehind
<1>9. ASSUME NEW t \in Reported \ ({"fan", "commited"} \cup refused')
      PROVE  Says(q, c2b, retained, t, Text(t, data'))
  <2>1. t \in Topics
    BY SessionAssumption
  <2>2. PICK j \in 1..Len(sendInitValues(data)) : sendInitValues(data)[j].topic = t
    BY <2>1, InitTold
  <2>3. t \in Reported \ ({"commited"} \cup o.refused)
    BY <1>2
  <2>4. Tells(q, t, Text(t, data)) /\ About(q, t) # {}
    BY <1>3, <1>6, <1>7, <2>2, <2>3, Announced
  <2> QED
    BY <1>3, <2>4 DEF Says
<1>10. Outgoing(q, 0)
  BY <1>2, <1>8, <1>9 DEF Outgoing
<1> QED
  BY <1>10, OutgoingMirrors DEF Retaining, RetainedTyped

\* A handler leaves the text of every topic alone of which it publishes nothing,
\* the fan topic excepted.
LEMMA Untold ==
  ASSUME NEW d, NEW e, Effect(e, d), NEW t \in Topics \ {"fan"},
         ~ \E l \in 1..Len(e.pubs) : e.pubs[l].topic = t
  PROVE  Text(t, e.data) = Text(t, d)
<1>1. CASE \A y \in Topics : Text(y, e.data) = Text(y, d)
  BY <1>1
<1>2. CASE \E x \in Topics :
             /\ e.pubs = Publications(<<x, "status">>, e.data)
             /\ \A y \in Topics \ {x, "status", "fan"} : Text(y, e.data) = Text(y, d)
  <2>1. PICK x \in Topics :
          /\ e.pubs = Publications(<<x, "status">>, e.data)
          /\ \A y \in Topics \ {x, "status", "fan"} : Text(y, e.data) = Text(y, d)
    BY <1>2
  <2>2. "status" \in Topics
    BY TopicsAre
  <2>3. <<x, "status">> \in Seq(Topics \cup {"commited"}) /\ Len(<<x, "status">>) = 2
    BY <2>2
  <2> DEFINE T == <<x, "status">>
  <2>6. T \in Seq(Topics \cup {"commited"}) /\ Len(T) = 2 /\ e.pubs = Publications(T, e.data)
    BY <2>1, <2>3
  <2> HIDE DEF T
  <2>7. /\ Len(Publications(T, e.data)) = Len(T)
        /\ \A i \in 1..Len(T) : Publications(T, e.data)[i].topic = T[i]
    BY <2>6, PublicationsTold
  <2>8. Len(e.pubs) = 2 /\ \A i \in 1..2 : e.pubs[i].topic = T[i]
    BY <2>6, <2>7
  <2>4. Len(e.pubs) = 2 /\ \A i \in 1..2 : e.pubs[i].topic = <<x, "status">>[i]
    BY <2>8 DEF T
  <2>5. e.pubs[1].topic = x /\ e.pubs[2].topic = "status"
    BY <2>4
  <2> QED
    BY <2>1, <2>4, <2>5
<1> QED
  BY <1>1, <1>2 DEF Effect

\* A message is handled: a topic whose text changes is published or refused, the
\* fan topic excepted.
LEMMA MirrorHandles ==
  ASSUME SizeIsLength, Typed, Mirrored, Retaining, NEW p \in Messages, onPublish(p), UNCHANGED retained
  PROVE  Mirrored' /\ Retaining'
<1>1. PICK e, o, q, j, a : Handles(p, e, o, q, j, a)
  BY Handling
<1>2. /\ queue \in Seq(Packets) /\ Len(queue) \in Nat /\ data \in WhirlpoolYJ1BData
      /\ o.packets \in Seq(Packets) /\ a \in Seq(Packets) /\ j = queue \o o.packets /\ q = j \o a
      /\ Ready(q, sent) /\ Send(q, sent) /\ p.id \in Nat
      /\ e.data \in WhirlpoolYJ1BData /\ e.pubs \in Seq(BodiesOf(e.data)) /\ o \in Published(e.pubs)
      /\ data' = e.data /\ refused' = o.refused /\ Effect(e, data)
  <2>1. /\ queue \in Seq(Packets) /\ Len(queue) \in Nat /\ data \in WhirlpoolYJ1BData
        /\ p.id \in Nat
    BY DEF Typed, ClientTyped, InRange, Messages
  <2>2. Effect(e, data) /\ e.pubs \in Seq(BodiesOf(e.data)) /\ o \in Published(e.pubs)
    BY <1>1, Zenon DEF Handles
  <2>3. e.data \in WhirlpoolYJ1BData
    BY <2>2 DEF Effect, InRange
  <2>4. /\ o.packets \in Seq(Packets) /\ a \in Seq(Packets) /\ j = queue \o o.packets /\ q = j \o a
        /\ Ready(q, sent) /\ Send(q, sent) /\ data' = e.data /\ refused' = o.refused
    BY <1>1, Zenon DEF Handles
  <2> QED
    BY <2>1, <2>2, <2>3, <2>4
<1>12. /\ \A k \in 1..Len(o.packets) : \E l \in 1..Len(e.pubs) : o.packets[k].body = e.pubs[l]
       /\ \A t \in refused \ o.refused : \E l \in 1..Len(e.pubs) : e.pubs[l].topic = t
  <2>1. e.data \in WhirlpoolYJ1BData /\ e.pubs \in Seq(BodiesOf(e.data)) /\ o \in Published(e.pubs)
    BY <1>2
  <2>2. /\ \A k \in 1..Len(o.packets) :
              /\ o.packets[k].type = "PUBLISH"
              /\ \E l \in 1..Len(e.pubs) : /\ o.packets[k].body = e.pubs[l]
                                            /\ e.pubs[l].topic \in Reported
        /\ \A t \in refused \ o.refused : \E l \in 1..Len(e.pubs) : e.pubs[l].topic = t
    BY <2>1, PublishedPackets, Zenon
  <2> QED
    BY <2>2
<1>3. state' = state
  BY DEF onPublish
<1>4. q \in Seq(Packets) /\ ThreeParts(q, queue, o.packets, a)
  BY <1>2, JoinedTwice
<1>5. \A y \in 1..Len(a) : a[y].type # "PUBLISH"
  <2>1. /\ Packet("PUBACK", p.id).type = "PUBACK" /\ Packet("PUBREC", p.id).type = "PUBREC"
    BY <1>2, PacketsMade DEF PacketTypes
  <2>2. a = <<>> \/ a = <<Packet("PUBACK", p.id)>> \/ a = <<Packet("PUBREC", p.id)>>
    <3>1. p.qos \in 0..2
      <4>1. p.qos \in Qos
        BY DEF Messages
      <4> QED
        BY <4>1, SessionAssumption
    <3>2. p.qos = 0 \/ p.qos = 1 \/ p.qos = 2
      BY <3>1
    <3> QED
      BY <1>1, <3>2 DEF Handles
  <2> QED
    BY <2>1, <2>2
<1>6. Len(o.packets) \in Nat /\ Len(a) \in Nat
  BY <1>2
<1>7. Behind(q, Len(queue), o.packets)
  <2>1. ASSUME NEW i \in 1..Len(q), i > Len(queue), q[i].type = "PUBLISH"
        PROVE  i - Len(queue) \in 1..Len(o.packets) /\ q[i] = o.packets[i - Len(queue)]
    <3>1. i \notin 1..Len(queue)
      BY <1>2, <2>1
    <3>2. CASE \E y \in 1..Len(o.packets) : i = Len(queue) + y
      <4>1. PICK y \in 1..Len(o.packets) : i = Len(queue) + y
        BY <3>2
      <4>2. i - Len(queue) = y
        BY <1>2, <1>6, <4>1
      <4>3. q[Len(queue) + y] = o.packets[y]
        BY <1>4, <4>1 DEF ThreeParts
      <4> QED
        BY <4>1, <4>2, <4>3
    <3>3. CASE \E y \in 1..Len(a) : i = Len(queue) + Len(o.packets) + y
      <4>1. PICK y \in 1..Len(a) : i = Len(queue) + Len(o.packets) + y
        BY <3>3
      <4>2. q[i] = a[y]
        BY <1>4, <4>1 DEF ThreeParts
      <4> QED
        BY <1>5, <2>1, <4>2, Zenon
    <3> QED
      BY <1>4, <3>1, <3>2, <3>3 DEF ThreeParts
  <2>2. \A k \in 1..Len(o.packets) : Len(queue) + k \in 1..Len(q) /\ q[Len(queue) + k] = o.packets[k]
    BY <1>4 DEF ThreeParts
  <2> QED
    BY <1>2, <1>4, <2>1, <2>2 DEF Behind
<1>8. \A i \in 1..Len(queue) : i \in 1..Len(q) /\ q[i] = queue[i]
  BY <1>4 DEF ThreeParts
<1>9. Bodied(q)
  <2>1. \A i \in 1..Len(q) : i <= Len(queue) /\ q[i].type = "PUBLISH" => q[i].body \in Bodies
    <3> TAKE i \in 1..Len(q)
    <3>1. i <= Len(queue) => i \in 1..Len(queue)
      BY <1>2
    <3> QED
      BY <1>8, <3>1 DEF Retaining, Bodied
  <2> QED
    BY <1>2, <1>7, <2>1, BodiedBehind
<1>10. ASSUME state = "CONNECTED", NEW t \in Reported \ ({"fan", "commited"} \cup refused')
       PROVE  Says(q, c2b, retained, t, Text(t, data'))
  <2>1. CASE \E l \in 1..Len(e.pubs) : e.pubs[l].topic = t
    <3>1. PICK l \in 1..Len(e.pubs) : e.pubs[l].topic = t
      BY <2>1
    <3>2. t \in Reported \ ({"commited"} \cup o.refused)
      BY <1>2
    <3>3. Tells(q, t, Text(t, e.data)) /\ About(q, t) # {}
      BY <1>2, <1>7, <3>1, <3>2, Announced
    <3> QED
      BY <1>2, <3>3 DEF Says
  <2>2. CASE ~ \E l \in 1..Len(e.pubs) : e.pubs[l].topic = t
    <3>1. t \notin refused
      BY <1>2, <1>12, <2>2
    <3>2. t \in Topics /\ t # "fan"
      BY SessionAssumption
    <3>3. Text(t, data') = Text(t, data)
      BY <1>2, <2>2, <3>2, Untold
    <3>4. \A k \in About(q, t) : k \in 1..Len(queue)
      <4> SUFFICES ASSUME NEW k \in About(q, t), k > Len(queue) PROVE FALSE
        BY <1>2 DEF About
      <4>1. k \in 1..Len(q) /\ q[k].type = "PUBLISH" /\ q[k].body.topic = t
        BY DEF About
      <4>2. k - Len(queue) \in 1..Len(o.packets) /\ q[k] = o.packets[k - Len(queue)]
        BY <1>7, <4>1 DEF Behind
      <4>3. PICK l \in 1..Len(e.pubs) : o.packets[k - Len(queue)].body = e.pubs[l]
        BY <1>12, <4>2
      <4> QED
        BY <2>2, <4>1, <4>2, <4>3
    <3>5. Moved(queue, q, [i \in 1..Len(queue) |-> i], t)
      <4>1. Len(q) \in Nat
        BY <1>4
      <4> QED
        BY <1>2, <1>8, <3>4, <4>1 DEF Moved
    <3>6. Says(queue, c2b, retained, t, Text(t, data))
      BY <1>10, <3>1 DEF Mirrored
    <3> QED
      BY <3>3, <3>5, <3>6, MovedSays
  <2> QED
    BY <2>1, <2>2
<1>11. Outgoing(q, sent)
  BY <1>2, <1>3, <1>9, <1>10 DEF Outgoing
<1> QED
  BY <1>11, OutgoingMirrors DEF Retaining, RetainedTyped

\* What the broker does with a publication of topic t, or with anything else.
LEMMA RetainedAfter ==
  ASSUME RetainedTyped, NEW u \in OutUnits, BrokerTakes(u),
         u.type = "PUBLISH" => u.body \in Bodies
  PROVE  /\ RetainedTyped'
         /\ \A t \in Reported \ {"commited"} :
              retained'[t] = IF u.type = "PUBLISH" /\ u.body.topic = t
                             THEN u.body.payload ELSE retained[t]
<1>1. CASE u.type # "PUBLISH"
  <2>1. retained' = retained
    BY <1>1 DEF BrokerTakes, broker
  <2> QED
    BY <1>1, <2>1 DEF RetainedTyped
<1>2. CASE u.type = "PUBLISH"
  <2>1. retained' = IF u.body.retain
                    THEN [retained EXCEPT ![u.body.topic] = u.body.payload]
                    ELSE retained
    BY <1>2 DEF BrokerTakes
  <2>2. PICK t0 \in Topics \cup {"commited"}, d \in WhirlpoolYJ1BData : u.body = Publication(t0, d)
    BY <1>2 DEF Bodies
  <2>3. u.body.topic = t0 /\ u.body.retain = (t0 # "commited")
    BY <2>2 DEF Publication
  <2>4. u.body.payload \in {b.payload : b \in Bodies}
    BY <1>2
  <2> DEFINE P == {NoBody} \cup {b.payload : b \in Bodies}
  <2>5. retained \in [Reported -> P] /\ u.body.payload \in P
    BY <2>4 DEF RetainedTyped
  <2> HIDE DEF P
  <2>6. retained' \in [Reported -> P]
    BY <2>1, <2>5
  <2>7. RetainedTyped'
    BY <2>6 DEF RetainedTyped, P
  <2>8. ASSUME NEW t \in Reported \ {"commited"}
        PROVE  retained'[t] = IF u.body.topic = t THEN u.body.payload ELSE retained[t]
    BY <2>1, <2>3, <2>5
  <2> QED
    BY <1>2, <2>7, <2>8
<1> QED
  BY <1>1, <1>2

\* The broker takes a publication: it retains what was said last if nothing
\* about the topic is still on its way.
LEMMA MirrorTaken ==
  ASSUME Typed, Mirrored, Retaining, BrokerReceives
  PROVE  Mirrored' /\ Retaining'
<1>1. PICK u \in OutUnits, N \in Nat \ {0} :
           /\ u = c2b[1] /\ N = u.of /\ N <= Len(c2b) /\ c2b # <<>> /\ BrokerTakes(u)
           /\ \A i \in 1..N : c2b[i] = [u EXCEPT !.unit = i] /\ i \in 1..Len(c2b)
           /\ c2b' \in Seq(OutUnits) /\ Len(c2b') = Len(c2b) - N
           /\ \A i \in 1..Len(c2b') : c2b'[i] = c2b[i + N] /\ i + N \in 1..Len(c2b)
  BY Taken
<1>2. UNCHANGED <<data, state, queue, refused>>
  BY DEF BrokerReceives, client
<1>3. /\ Len(c2b) \in Nat /\ Len(c2b') \in Nat /\ 1 \in 1..Len(c2b)
  BY <1>1 DEF Typed, StreamsTyped
<1>4. u.type = "PUBLISH" => u.body \in Bodies
  BY <1>1, <1>3 DEF Retaining, Bodied
<1>5. /\ RetainedTyped'
      /\ \A t \in Reported \ {"commited"} :
           retained'[t] = IF u.type = "PUBLISH" /\ u.body.topic = t
                          THEN u.body.payload ELSE retained[t]
  BY <1>1, <1>4, RetainedAfter DEF Retaining
<1>6. Bodied(queue')
  BY <1>2 DEF Retaining
<1>7. Bodied(c2b')
  <2>1. ASSUME NEW k \in 1..Len(c2b'), c2b'[k].type = "PUBLISH"
        PROVE  c2b'[k].body \in Bodies
    <3>1. c2b'[k] = c2b[k + N] /\ k + N \in 1..Len(c2b)
      BY <1>1
    <3> QED
      BY <2>1, <3>1 DEF Retaining, Bodied
  <2> QED
    BY <2>1 DEF Bodied
<1>8. ASSUME NEW i \in 1..N
      PROVE  i \in 1..Len(c2b) /\ c2b[i].type = u.type /\ c2b[i].body = u.body
  <2>1. c2b[i] = [u EXCEPT !.unit = i] /\ i \in 1..Len(c2b)
    BY <1>1
  <2> QED
    BY <2>1 DEF OutUnits
<1>9. Mirrored'
  <2> SUFFICES ASSUME state = "CONNECTED",
                      NEW t \in Reported \ ({"fan", "commited"} \cup refused),
                      NEW x, x = Text(t, data)
               PROVE  Says(queue, c2b', retained', t, x)
    BY <1>2 DEF Mirrored
  <2>1. Says(queue, c2b, retained, t, x)
    BY DEF Mirrored
  <2>2. \A i \in About(c2b', t) : i + N \in About(c2b, t)
    BY <1>1 DEF About
  <2>3. CASE About(queue, t) # {}
    BY <2>1, <2>3 DEF Says
  <2>4. CASE About(queue, t) = {} /\ About(c2b, t) # {}
    <3>1. PICK i \in About(c2b, t) : (\A j \in About(c2b, t) : j <= i) /\ c2b[i].body.payload = x
      BY <2>1, <2>4 DEF Says, Tells
    <3>2. i \in 1..Len(c2b) /\ c2b[i].type = "PUBLISH" /\ c2b[i].body.topic = t
      BY DEF About
    <3>3. CASE i > N
      <4>1. i - N \in 1..Len(c2b') /\ (i - N) + N = i
        BY <1>1, <1>3, <3>2, <3>3
      <4>2. c2b'[i - N] = c2b[i]
        BY <1>1, <4>1
      <4>3. i - N \in About(c2b', t)
        BY <3>2, <4>1, <4>2 DEF About
      <4>4. \A j \in About(c2b', t) : j <= i - N
        BY <1>3, <2>2, <3>1, <3>2 DEF About
      <4>5. Tells(c2b', t, x)
        BY <3>1, <4>2, <4>3, <4>4 DEF Tells
      <4> QED
        BY <2>4, <4>3, <4>5 DEF Says
    <3>4. CASE ~(i > N)
      <4>1. i \in 1..N
        BY <3>2, <3>4
      <4>2. u.type = "PUBLISH" /\ u.body.topic = t /\ u.body.payload = x
        BY <1>8, <3>1, <3>2, <4>1
      <4>3. retained'[t] = x
        BY <1>5, <4>2
      <4>4. About(c2b', t) = {}
        <5> SUFFICES ASSUME NEW k \in About(c2b', t) PROVE FALSE
          OBVIOUS
        <5>1. k \in Nat \ {0} /\ k + N <= i /\ i <= N
          BY <1>3, <2>2, <3>1, <3>2, <3>4 DEF About
        <5> QED
          BY <5>1
      <4> QED
        BY <2>4, <4>3, <4>4 DEF Says
    <3> QED
      BY <3>3, <3>4
  <2>5. CASE About(queue, t) = {} /\ About(c2b, t) = {}
    <3>1. About(c2b', t) = {}
      BY <2>2, <2>5
    <3>2. ~(u.type = "PUBLISH" /\ u.body.topic = t)
      BY <1>1, <1>3, <2>5 DEF About
    <3>3. retained'[t] = retained[t]
      BY <1>5, <3>2
    <3> QED
      BY <2>1, <2>5, <3>1, <3>3 DEF Says
  <2> QED
    BY <2>3, <2>4, <2>5
<1> QED
  BY <1>5, <1>6, <1>7, <1>9 DEF Retaining

\* A connection begins, with publications kept from earlier ones.
LEMMA MirrorConnects ==
  ASSUME SizeIsLength, Typed, Retaining, TcpConnects
  PROVE  Mirrored' /\ Retaining'
<1>1. PICK q : /\ Ready(q, sent) /\ Send(q, sent) /\ q = addFront(queue, Packet("CONNECT", 0))
  BY Connecting
<1>2. state' = "CONNECTING" /\ retained' = retained /\ queue \in Seq(Packets)
  BY DEF TcpConnects, broker, Typed, ClientTyped
<1>3. /\ Len(q) = Len(queue) + 1 /\ q[1] = Packet("CONNECT", 0)
      /\ \A k \in 1..Len(queue) : q[k + 1] = queue[k]
  BY <1>1, <1>2, ConnectQueue
<1>4. q[1].type = "CONNECT"
  BY <1>3, PacketsMade DEF PacketTypes
<1>5. Bodied(q)
  <2> SUFFICES ASSUME NEW k \in 1..Len(q), q[k].type = "PUBLISH"
               PROVE  q[k].body \in Bodies
    BY DEF Bodied
  <2>1. k # 1
    BY <1>4
  <2>2. k - 1 \in 1..Len(queue) /\ (k - 1) + 1 = k
    BY <1>2, <1>3, <2>1
  <2>3. q[k] = queue[k - 1]
    BY <1>3, <2>2
  <2> QED
    BY <2>2, <2>3 DEF Retaining, Bodied
<1>6. Outgoing(q, sent)
  BY <1>1, <1>2, <1>5 DEF Outgoing
<1> QED
  BY <1>2, <1>6, OutgoingMirrors DEF Retaining, RetainedTyped

\* A connection or the program ends.
LEMMA MirrorOver ==
  ASSUME SizeIsLength, Typed, Retaining, TcpDrops \/ Restarts
  PROVE  Mirrored' /\ Retaining'
<1>1. state' = "DISCONNECTED" /\ retained' = retained /\ c2b' = <<>>
  BY DEF TcpDrops, Restarts
<1>2. Bodied(queue')
  <2>1. CASE TcpDrops
    <3>1. queue \in Seq(Packets) /\ queue' = keepSession(queue, sent)
      BY <2>1 DEF TcpDrops, Typed, ClientTyped
    <3>2. \A k \in 1..Len(queue') :
            \E j \in 1..Len(queue) : queue'[k].type = queue[j].type /\ queue'[k].body = queue[j].body
      BY <3>1, SessionKept
    <3> QED
      BY <3>2 DEF Retaining, Bodied
  <2>2. CASE Restarts
    BY <2>2 DEF Restarts, Bodied
  <2> QED
    BY <2>1, <2>2
<1>3. Bodied(c2b')
  BY <1>1 DEF Bodied
<1> QED
  BY <1>1, <1>2, <1>3 DEF Mirrored, Retaining, RetainedTyped

\* The client receives a packet.
LEMMA MirrorReceives ==
  ASSUME SizeIsLength, Typed, Mirrored, Retaining, ClientReceives
  PROVE  Mirrored' /\ Retaining'
<1>1. UNCHANGED retained
  BY DEF ClientReceives, broker
<1>2. PICK p \in InPackets :
           \/ p.type = "CONNACK" /\ onConnAck
           \/ p.type = "SUBACK" /\ p.id \in Nat /\ onSubAck(p)
           \/ p.type = "PUBLISH" /\ p \in Messages /\ onPublish(p)
           \/ p.type = "PUBREL" /\ p.id \in Nat /\ onPubRel(p)
  BY Received
<1>3. CASE onConnAck
  BY <1>1, <1>3, MirrorConnected
<1>4. CASE p.id \in Nat /\ onSubAck(p)
  <2>1. PICK q : q = released(queue, p.id)
    OBVIOUS
  <2>2. Send(q, sent) /\ UNCHANGED <<data, state, refused>>
    BY <1>4, <2>1 DEF onSubAck
  <2> QED
    BY <1>1, <1>4, <2>1, <2>2, MirrorReleases
<1>5. CASE p \in Messages /\ onPublish(p)
  BY <1>1, <1>5, MirrorHandles
<1>6. CASE p.id \in Nat /\ onPubRel(p)
  <2>1. PICK q : q = pubRel(queue, p.id)
    OBVIOUS
  <2>2. Send(q, sent) /\ UNCHANGED <<data, state, refused>>
    BY <1>6, <2>1 DEF onPubRel
  <2> QED
    BY <1>1, <1>6, <2>1, <2>2, MirrorForgets
<1> QED
  BY <1>2, <1>3, <1>4, <1>5, <1>6

\* Every step keeps the topics as they should be.
LEMMA MirrorStep ==
  SizeIsLength /\ Typed /\ Mirrored /\ Retaining /\ [Next]_vars => Mirrored' /\ Retaining'
<1> SUFFICES ASSUME SizeIsLength, Typed, Mirrored, Retaining, [Next]_vars
             PROVE  Mirrored' /\ Retaining'
  OBVIOUS
<1>1. CASE UNCHANGED <<client, c2b, retained>>
  BY <1>1 DEF client, Mirrored, Retaining, RetainedTyped
<1>2. CASE \/ UNCHANGED vars \/ BrokerRetries
           \/ \E c \in Commands, q \in Qos : Command(c, q)
  BY <1>1, <1>2 DEF vars, broker, BrokerRetries, Command
<1> QED
  BY <1>2, MirrorConnects, MirrorOver, MirrorReceives, MirrorSends, MirrorTaken DEF Next

\* Nothing is claimed of the initial state.
LEMMA MirrorFirst == Init => Mirrored /\ Retaining
  BY DEF Init, Mirrored, Retaining, RetainedTyped, Bodied

\* Mirror holds: across reconnects, packets kept from earlier connections, a
\* full TCP buffer and refused publications, no change of the object is
\* forgotten and no older publication overtakes a newer one (MqttMessages.cpp,
\* publish... and onConnect; AsyncMqttClient.cpp:394-441).
THEOREM MirrorHolds ==
  ASSUME SizeIsLength
  PROVE  Spec => []Mirror
<1>1. Init => Typed /\ Mirrored /\ Retaining
  BY TypedFirst, MirrorFirst
<1>2. Typed /\ Mirrored /\ Retaining /\ [Next]_vars => (Typed /\ Mirrored /\ Retaining)'
  BY TypedStep, MirrorStep
<1>3. Typed /\ Mirrored => Mirror
  <2> SUFFICES ASSUME Typed, Mirrored, state = "CONNECTED",
                      NEW t \in Reported \ ({"fan", "commited"} \cup refused)
               PROVE  Latest(t) = Text(t, data)
    BY DEF Mirror
  <2>1. Says(queue, c2b, retained, t, Text(t, data))
    BY DEF Mirrored
  <2>2. Len(queue) \in Nat /\ Len(c2b) \in Nat
    BY DEF Typed, ClientTyped, StreamsTyped
  <2>3. CASE About(queue, t) # {}
    BY <2>1, <2>2, <2>3, LastIs DEF Says, Latest
  <2>4. CASE About(queue, t) = {} /\ About(c2b, t) # {}
    BY <2>1, <2>2, <2>4, LastIs DEF Says, Latest
  <2>5. CASE About(queue, t) = {} /\ About(c2b, t) = {}
    BY <2>1, <2>5 DEF Says, Latest
  <2> QED
    BY <2>3, <2>4, <2>5
<1> QED
  BY <1>1, <1>2, <1>3, PTL DEF Spec
=============================================================================
