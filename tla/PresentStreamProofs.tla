--------------------------- MODULE PresentStreamProofs --------------------------
(***************************************************************************)
(* Proofs about PresentStream, for any number of viewers, any size of the  *)
(* ring, any limits and any amount of output and input.                    *)
(***************************************************************************)
EXTENDS PresentStream, SequenceTheorems, TLAPS

(* -------------------------------- The ring ------------------------------- *)

\* What the slots b of a ring hold after m bytes, numbered in the order of their
\* writes: up to the first lap all of them, later the newest on the left of head
\* and the oldest from head on.
Slots(b, head, full, m) ==
  IF full
  THEN /\ m >= RingSize
       /\ \A j \in 0..RingSize - 1 :
            b[j] = IF j < head THEN m - head + j + 1 ELSE m - head + j + 1 - RingSize
  ELSE m = head /\ \A j \in 0..m - 1 : b[j] = j + 1

Rings(m) == [buf : [0..RingSize - 1 -> 0..m], head : 0..RingSize - 1, full : BOOLEAN]

Holds(r, m) == r \in Rings(m) /\ Slots(r.buf, r.head, r.full, m)

Slot(x) == x % RingSize

\* A position less than two laps away wraps at most once.
LEMMA Wrap ==
  ASSUME NEW x \in 0..2 * RingSize - 1
  PROVE  Slot(x) = IF x < RingSize THEN x ELSE x - RingSize
BY RingAssumption DEF Slot

\* A new ring holds nothing.
LEMMA NewHolds == Holds(NewRing, 0)
BY RingAssumption DEF Holds, NewRing, Slots, Rings

\* A write of a lap or more: the newest bytes, from the start of the buffer.
LEMMA LongWrite ==
  ASSUME NEW m \in Nat, NEW n \in Nat, n >= RingSize,
         NEW b, b = [i \in 0..RingSize - 1 |-> m + n - RingSize + i + 1]
  PROVE  b \in [0..RingSize - 1 -> 0..m + n] /\ Slots(b, 0, TRUE, m + n)
BY RingAssumption DEF Slots

\* A shorter write goes over the oldest bytes, and may lap.
LEMMA ShortWrite ==
  ASSUME NEW m \in Nat, NEW n \in Nat, n < RingSize,
         NEW b \in [0..RingSize - 1 -> Nat], NEW h \in 0..RingSize - 1, NEW f \in BOOLEAN,
         Slots(b, h, f, m),
         NEW c \in [0..RingSize - 1 -> Nat],
         \A i \in 0..RingSize - 1 :
           c[i] = IF i < h
                  THEN IF i < h + n - RingSize THEN m + i - h + RingSize + 1 ELSE b[i]
                  ELSE IF i < h + n THEN m + i - h + 1 ELSE b[i],
         NEW end \in 0..RingSize - 1,
         end = IF h + n < RingSize THEN h + n ELSE h + n - RingSize
  PROVE  Slots(c, end, f \/ h + n >= RingSize, m + n)
<1>0. RingSize \in Nat \ {0}
  BY RingAssumption
<1>1. CASE f
  <2>1. m >= RingSize
    BY <1>1 DEF Slots
  <2>2. ASSUME NEW j \in 0..RingSize - 1
        PROVE  c[j] = IF j < end THEN m + n - end + j + 1 ELSE m + n - end + j + 1 - RingSize
    <3>1. b[j] = IF j < h THEN m - h + j + 1 ELSE m - h + j + 1 - RingSize
      BY <1>1 DEF Slots
    <3>2. CASE h + n < RingSize
      BY <1>0, <3>1, <3>2
    <3>3. CASE h + n >= RingSize
      BY <1>0, <3>1, <3>3
    <3> QED
      BY <1>0, <3>2, <3>3
  <2> QED
    BY <1>0, <1>1, <2>1, <2>2 DEF Slots
<1>2. CASE ~f /\ h + n >= RingSize
  <2>1. m = h
    BY <1>2 DEF Slots
  <2>2. ASSUME NEW j \in 0..RingSize - 1
        PROVE  c[j] = IF j < end THEN m + n - end + j + 1 ELSE m + n - end + j + 1 - RingSize
    <3>1. j < m => b[j] = j + 1
      BY <1>2 DEF Slots
    <3> QED
      BY <1>0, <1>2, <2>1, <3>1
  <2> QED
    BY <1>0, <1>2, <2>1, <2>2 DEF Slots
<1>3. CASE ~f /\ h + n < RingSize
  <2>1. m = h
    BY <1>3 DEF Slots
  <2>2. ASSUME NEW j \in 0..m + n - 1 PROVE c[j] = j + 1
    <3>1. j < m => b[j] = j + 1
      BY <1>3 DEF Slots
    <3> QED
      BY <1>0, <1>3, <2>1, <3>1
  <2> QED
    BY <1>0, <1>3, <2>1, <2>2 DEF Slots
<1> QED
  BY <1>0, <1>1, <1>2, <1>3

\* A write of any length keeps the newest bytes (ring.go write).
LEMMA WriteHolds ==
  ASSUME NEW m \in Nat, NEW r, Holds(r, m), NEW n \in Nat \ {0}
  PROVE  Holds(RingWrite(r, [i \in 1..n |-> m + i]), m + n)
<1> DEFINE p == [i \in 1..n |-> m + i]
<1>1. Len(p) = n /\ \A i \in 1..n : p[i] = m + i
  OBVIOUS
<1>2. r.buf \in [0..RingSize - 1 -> 0..m] /\ r.head \in 0..RingSize - 1 /\ r.full \in BOOLEAN
  BY DEF Holds, Rings
<1>3. RingSize \in Nat \ {0}
  BY RingAssumption
<1> HIDE DEF p
<1>4. CASE n >= RingSize
  <2> DEFINE b == [i \in 0..RingSize - 1 |-> p[n - RingSize + i + 1]]
  <2>1. RingWrite(r, p) = [buf |-> b, head |-> 0, full |-> TRUE]
    BY <1>1, <1>4 DEF RingWrite
  <2>2. b = [i \in 0..RingSize - 1 |-> m + n - RingSize + i + 1]
    BY <1>1, <1>3, <1>4
  <2>3. b \in [0..RingSize - 1 -> 0..m + n] /\ Slots(b, 0, TRUE, m + n)
    BY <1>4, <2>2, LongWrite
  <2> HIDE DEF b
  <2>4. Holds([buf |-> b, head |-> 0, full |-> TRUE], m + n)
    BY <1>3, <2>3 DEF Holds, Rings, Slots
  <2> QED
    BY <2>1, <2>4 DEF p
<1>5. CASE n < RingSize
  <2> DEFINE h == r.head
             b == r.buf
             pos(i) == Slot(i - h + RingSize)
             c == [i \in 0..RingSize - 1 |-> IF pos(i) < n THEN p[pos(i) + 1] ELSE b[i]]
             end == Slot(h + n)
             full == r.full \/ h + n >= RingSize
  <2>1. RingWrite(r, p) = [buf |-> c, head |-> end, full |-> full]
    <3>1. ~(n >= RingSize)
      BY <1>3, <1>5
    <3> QED
      BY <1>1, <3>1 DEF RingWrite, Slot
  <2>2. Slots(b, h, r.full, m)
    BY DEF Holds
  <2> HIDE DEF h, b
  <2>3. h \in 0..RingSize - 1 /\ b \in [0..RingSize - 1 -> 0..m] /\ full \in BOOLEAN
    BY <1>2 DEF h, b
  <2>4. end = IF h + n < RingSize THEN h + n ELSE h + n - RingSize
    <3>1. h + n \in 0..2 * RingSize - 1
      BY <1>3, <1>5, <2>3
    <3> QED
      BY <1>3, <2>3, <3>1, Wrap
  <2>5. ASSUME NEW i \in 0..RingSize - 1
        PROVE  /\ c[i] \in 0..m + n
               /\ c[i] = IF i < h
                         THEN IF i < h + n - RingSize THEN m + i - h + RingSize + 1 ELSE b[i]
                         ELSE IF i < h + n THEN m + i - h + 1 ELSE b[i]
    <3>1. i - h + RingSize \in 0..2 * RingSize - 1
      BY <1>3, <2>3
    <3>2. pos(i) = IF i < h THEN i - h + RingSize ELSE i - h
      BY <1>3, <2>3, <3>1, Wrap
    <3>3. c[i] = IF pos(i) < n THEN p[pos(i) + 1] ELSE b[i]
      OBVIOUS
    <3> HIDE DEF c, pos
    <3>4. pos(i) < n => p[pos(i) + 1] = m + pos(i) + 1
      BY <1>1, <1>3, <2>3, <3>2
    <3>5. b[i] \in 0..m
      BY <2>3
    <3> QED
      BY <1>3, <2>3, <3>2, <3>3, <3>4, <3>5
  <2>6. c \in [0..RingSize - 1 -> 0..m + n]
    BY <2>5
  <2> HIDE DEF c, end
  <2>7. end \in 0..RingSize - 1
    BY <1>3, <1>5, <2>3, <2>4
  <2>8. Slots(c, end, r.full \/ h + n >= RingSize, m + n)
    <3>1. b \in [0..RingSize - 1 -> Nat] /\ c \in [0..RingSize - 1 -> Nat]
      BY <2>3, <2>6
    <3> QED
      BY <1>2, <1>5, <2>2, <2>3, <2>4, <2>5, <2>7, <3>1, ShortWrite
  <2> HIDE DEF full
  <2>9. Slots(c, end, full, m + n)
    BY <2>8 DEF full
  <2>10. Holds([buf |-> c, head |-> end, full |-> full], m + n)
    BY <2>3, <2>6, <2>7, <2>9 DEF Holds, Rings
  <2> QED
    BY <2>1, <2>10 DEF p
<1> QED
  BY <1>3, <1>4, <1>5

\* How much of m bytes is replayed.
Kept(m) == IF m < RingSize THEN m ELSE RingSize

\* A replay is the newest bytes, oldest first (ring.go bytes).
LEMMA BytesRecent ==
  ASSUME NEW m \in Nat, NEW r, Holds(r, m)
  PROVE  RingBytes(r) = [i \in 1..Kept(m) |-> m - Kept(m) + i]
<1>1. /\ r.head \in 0..RingSize - 1 /\ r.full \in BOOLEAN /\ RingSize \in Nat \ {0}
      /\ r.buf \in [0..RingSize - 1 -> 0..m] /\ Slots(r.buf, r.head, r.full, m)
  BY RingAssumption DEF Holds, Rings
<1>2. CASE r.full
  <2>1. Kept(m) = RingSize
    BY <1>1, <1>2 DEF Slots, Kept
  <2>2. ASSUME NEW i \in 1..RingSize
        PROVE  r.buf[Slot(r.head + i - 1)] = m - RingSize + i
    <3> DEFINE x == r.head + i - 1
    <3>1. x \in 0..2 * RingSize - 1 /\ x \in r.head..r.head + RingSize - 1
      BY <1>1
    <3>2. Slot(x) = IF x < RingSize THEN x ELSE x - RingSize
      BY <3>1, Wrap
    <3> HIDE DEF x
    <3>3. Slot(x) \in 0..RingSize - 1
      BY <1>1, <3>1, <3>2
    <3>4. r.buf[Slot(x)] = IF Slot(x) < r.head THEN m - r.head + Slot(x) + 1
                                ELSE m - r.head + Slot(x) + 1 - RingSize
      BY <1>1, <1>2, <3>3 DEF Slots
    <3>5. r.buf[Slot(x)] = m - RingSize + x - r.head + 1
      <4> DEFINE y == Slot(x)
      <4> HIDE DEF y
      <4>1. y = IF x < RingSize THEN x ELSE x - RingSize
        BY <3>2 DEF y
      <4>2. r.buf[y] = IF y < r.head THEN m - r.head + y + 1 ELSE m - r.head + y + 1 - RingSize
        BY <3>4 DEF y
      <4>3. r.buf[y] = m - RingSize + x - r.head + 1
        BY <1>1, <3>1, <4>1, <4>2
      <4> QED
        BY <4>3 DEF y
    <3> QED
      BY <1>1, <3>5 DEF x
  <2> QED
    BY <1>2, <2>1, <2>2 DEF RingBytes, Slot
<1>3. CASE ~r.full
  <2>1. Kept(m) = m /\ r.head = m
    BY <1>1, <1>3 DEF Slots, Kept
  <2>2. \A i \in 1..m : r.buf[i - 1] = i
    BY <1>1, <1>3 DEF Slots
  <2> QED
    BY <1>3, <2>1, <2>2 DEF RingBytes
<1> QED
  BY <1>1, <1>2, <1>3


(* --------------------------- The invariant ------------------------------- *)

\* The ring has the newest of what was made.
RingInv == made \in 0..MaxOut /\ upto \in 0..made /\ Holds(ring, made)

\* Successive bytes; and those that end with byte m.
Run(s) == \A i \in 1..Len(s) - 1 : s[i + 1] = s[i] + 1

EndsAt(s, m) == /\ \A i \in 1..Len(s) : s[i] = m - Len(s) + i
                /\ m > 0 => s # <<>>

Seen(v) == got[v] \o pending[v]

\* A connection that is gone holds nothing; an open one is reached by publish;
\* before the exit so is every subscriber; only the exit tells.
Connected(v) ==
  /\ vpc[v] = "away" => /\ v \notin subs /\ outClosed[v] /\ ~told[v]
                        /\ got[v] = <<>> /\ pending[v] = <<>>
  /\ ~outClosed[v] => v \in subs
  /\ ~exited /\ v \in subs => ~outClosed[v]
  /\ told[v] => outClosed[v] /\ exited
  /\ vpc[v] = "live" /\ pending[v] # <<>> => signal[v] \/ outClosed[v]

\* OutputWhole of one viewer, with the position of every byte of an open one.
Screen(v) ==
  /\ Run(Seen(v))
  /\ ~outClosed[v] => EndsAt(Seen(v), made)
  /\ told[v] /\ upto > 0 => Seen(v) # <<>> /\ Seen(v)[Len(Seen(v))] >= upto

OutTypes ==
  /\ shell \in {"alive", "dead", "waited"} /\ exited \in BOOLEAN /\ reading \in BOOLEAN
  /\ subs \subseteq Viewers
  /\ vpc \in [Viewers -> {"away", "live", "taking", "ended"}]
  /\ got \in [Viewers -> Seq(1..MaxOut)] /\ pending \in [Viewers -> Seq(1..MaxOut)]
  /\ \A v \in Viewers : Len(pending[v]) <= PendingLimit
  /\ signal \in [Viewers -> BOOLEAN] /\ outClosed \in [Viewers -> BOOLEAN]
  /\ told \in [Viewers -> BOOLEAN] /\ visits \in [Viewers -> 0..MaxVisits]

OutInv == OutTypes /\ RingInv /\ \A v \in Viewers : Connected(v) /\ Screen(v)

InTypes ==
  /\ input \in Seq(1..MaxTyped) /\ inputBytes \in Int
  /\ inputErr \in BOOLEAN /\ inputReady \in BOOLEAN
  /\ typed \in 0..MaxTyped /\ flight \in 0..MaxTyped
  /\ ipc \in {"wait", "next", "writing", "over"} /\ fed \in Seq(1..MaxTyped)

\* How many inputs the writer holds.
Moving == IF flight = 0 THEN 0 ELSE 1

\* The queue goes on where the writer is; it is dropped with the exit and a
\* failed write, and the writer does not sleep over it.
Queue ==
  /\ ipc = "writing" <=> flight # 0
  /\ flight # 0 => flight = Len(fed) + 1
  /\ \A i \in 1..Len(fed) : fed[i] = i
  /\ exited \/ inputErr => input = <<>>
  /\ ipc = "wait" /\ input # <<>> => inputReady
  /\ ~exited /\ ~inputErr =>
       /\ typed = Len(fed) + Moving + Len(input)
       /\ \A i \in 1..Len(input) : input[i] = Len(fed) + Moving + i
       /\ inputBytes = Moving + Len(input)
  /\ inputBytes <= InputLimit

InInv == InTypes /\ Queue

IInv == OutInv /\ InInv

(* ------------------------------- Sequences ------------------------------- *)

\* Concatenation is associative.
LEMMA Regroup == \A s, t, u \in Seq(Nat) : s \o (t \o u) = (s \o t) \o u
BY ConcatAssociative, SMTT(30)

\* The first of a queue, and the rest.
LEMMA HeadTail ==
  ASSUME NEW S, NEW s \in Seq(S), s # <<>>
  PROVE  /\ Head(s) = s[1] /\ s[1] \in S /\ Tail(s) \in Seq(S)
         /\ Len(Tail(s)) = Len(s) - 1 /\ Len(s) \in Nat \ {0}
         /\ \A i \in 1..Len(s) - 1 : Tail(s)[i] = s[i + 1]
<1>1. Head(s) = s[1] /\ s[1] \in S /\ Len(s) \in Nat \ {0}
  OBVIOUS
<1> QED
  BY <1>1, HeadTailProperties

\* What successive bytes begin with is successive.
LEMMA RunOfPrefix ==
  ASSUME NEW s \in Seq(Nat), NEW t \in Seq(Nat), Run(s \o t)
  PROVE  Run(s)
<1>1. \A i \in 1..Len(s) : (s \o t)[i] = s[i]
  OBVIOUS
<1>2. Len(s \o t) = Len(s) + Len(t) /\ Len(s) \in Nat /\ Len(t) \in Nat
  OBVIOUS
<1>3. ASSUME NEW i \in 1..Len(s) - 1 PROVE s[i + 1] = s[i] + 1
  <2>1. i \in 1..Len(s) /\ i + 1 \in 1..Len(s) /\ i \in 1..Len(s \o t) - 1
    BY <1>2
  <2> QED
    BY <1>1, <2>1 DEF Run
<1> QED
  BY <1>3 DEF Run

\* Bytes with such positions are successive.
LEMMA EndsRun ==
  ASSUME NEW s \in Seq(Nat), NEW m \in Nat, EndsAt(s, m)
  PROVE  Run(s)
<1>1. Len(s) \in Nat /\ \A i \in 1..Len(s) : s[i] = m - Len(s) + i
  BY DEF EndsAt
<1>2. ASSUME NEW i \in 1..Len(s) - 1 PROVE s[i + 1] = s[i] + 1
  <2>1. i \in 1..Len(s) /\ i + 1 \in 1..Len(s)
    BY <1>1
  <2>2. s[i] = m - Len(s) + i /\ s[i + 1] = m - Len(s) + (i + 1)
    BY <1>1, <2>1
  <2> QED
    BY <1>1, <2>2
<1> QED
  BY <1>2 DEF Run

\* The last of them.
LEMMA EndsLast ==
  ASSUME NEW s \in Seq(Nat), NEW m \in Nat, EndsAt(s, m), m > 0
  PROVE  s # <<>> /\ s[Len(s)] = m
<1>1. s # <<>> /\ Len(s) \in 1..Len(s)
  BY DEF EndsAt
<1> QED
  BY <1>1 DEF EndsAt

\* The next bytes after bytes that end with m.
LEMMA EndsGrows ==
  ASSUME NEW s \in Seq(Nat), NEW m \in Nat, EndsAt(s, m), NEW n \in Nat \ {0}
  PROVE  EndsAt(s \o [i \in 1..n |-> m + i], m + n)
<1> DEFINE p == [i \in 1..n |-> m + i]
<1>1. p \in Seq(Nat) /\ Len(p) = n /\ \A i \in 1..n : p[i] = m + i
  OBVIOUS
<1> HIDE DEF p
<1>2. /\ Len(s \o p) = Len(s) + n /\ Len(s) \in Nat
      /\ \A i \in 1..Len(s) + n : (s \o p)[i] = IF i <= Len(s) THEN s[i] ELSE p[i - Len(s)]
  <2>1. \A S : \A x, y \in Seq(S) :
          /\ Len(x \o y) = Len(x) + Len(y)
          /\ \A i \in 1..Len(x) + Len(y) : (x \o y)[i] = IF i <= Len(x) THEN x[i] ELSE y[i - Len(x)]
    BY ConcatProperties, Zenon
  <2>2. /\ Len(s \o p) = Len(s) + Len(p)
        /\ \A i \in 1..Len(s) + Len(p) : (s \o p)[i] = IF i <= Len(s) THEN s[i] ELSE p[i - Len(s)]
    BY <1>1, <2>1, Zenon
  <2> QED
    BY <1>1, <2>2
<1>3. ASSUME NEW i \in 1..Len(s) + n PROVE (s \o p)[i] = m - Len(s) + i
  <2>1. CASE i <= Len(s)
    BY <1>2, <2>1 DEF EndsAt
  <2>2. CASE i > Len(s)
    BY <1>1, <1>2, <2>2
  <2> QED
    BY <1>2, <2>1, <2>2
<1>4. s \o p # <<>>
  BY <1>2, <1>1
<1>5. EndsAt(s \o p, m + n)
  BY <1>2, <1>3, <1>4 DEF EndsAt
<1> QED
  BY <1>5 DEF p

\* A replay ends with the newest byte.
LEMMA ReplayEnds ==
  ASSUME RingInv
  PROVE  RingBytes(ring) \in Seq(1..MaxOut) /\ EndsAt(RingBytes(ring), made)
<1>1. made \in Nat /\ made <= MaxOut /\ MaxOut \in Nat /\ RingSize \in Nat \ {0}
  BY RingAssumption, StreamAssumption DEF RingInv
<1>2. RingBytes(ring) = [i \in 1..Kept(made) |-> made - Kept(made) + i]
  BY <1>1, BytesRecent DEF RingInv
<1>3. Kept(made) \in 0..made /\ (made > 0 => Kept(made) > 0)
  BY <1>1 DEF Kept
<1> DEFINE k == Kept(made)
           s == [i \in 1..k |-> made - k + i]
<1> HIDE DEF k
<1>4. k \in 0..made /\ (made > 0 => k > 0)
  BY <1>3 DEF k
<1>5. \A i \in 1..k : made - k + i \in 1..MaxOut
  BY <1>1, <1>4
<1>6. s \in Seq(1..MaxOut) /\ Len(s) = k /\ \A i \in 1..k : s[i] = made - k + i
  BY <1>4, <1>5
<1> HIDE DEF s
<1>7. EndsAt(s, made)
  BY <1>4, <1>6 DEF EndsAt
<1> QED
  BY <1>2, <1>6, <1>7 DEF s, k

(* ----------------------------- Initial states ---------------------------- *)

\* It holds at first.
LEMMA InitInv == Init => IInv
<1> SUFFICES ASSUME Init PROVE IInv
  OBVIOUS
<1> DEFINE empty == [v \in Viewers |-> <<>>]
<1>1. OutTypes
  <2>1. empty \in [Viewers -> Seq(1..MaxOut)] /\ \A v \in Viewers : Len(empty[v]) = 0
    OBVIOUS
  <2>2. got = empty /\ pending = empty
    BY DEF Init
  <2> HIDE DEF empty
  <2>3. /\ shell \in {"alive", "dead", "waited"} /\ exited \in BOOLEAN /\ reading \in BOOLEAN
        /\ subs \subseteq Viewers
    BY DEF Init
  <2>4. vpc \in [Viewers -> {"away", "live", "taking", "ended"}]
    BY DEF Init
  <2>5. signal \in [Viewers -> BOOLEAN] /\ outClosed \in [Viewers -> BOOLEAN]
    BY DEF Init
  <2>6. told \in [Viewers -> BOOLEAN] /\ visits \in [Viewers -> 0..MaxVisits]
    BY StreamAssumption DEF Init
  <2>7. \A v \in Viewers : Len(pending[v]) <= PendingLimit
    BY <2>1, <2>2, StreamAssumption
  <2> QED
    BY <2>1, <2>2, <2>3, <2>4, <2>5, <2>6, <2>7 DEF OutTypes
<1>5. InTypes
  <2>1. <<>> \in Seq(1..MaxTyped)
    OBVIOUS
  <2> QED
    <3>1. input \in Seq(1..MaxTyped) /\ fed \in Seq(1..MaxTyped)
      BY <2>1 DEF Init
    <3>2. ipc \in {"wait", "next", "writing", "over"} /\ inputBytes \in Int
      BY DEF Init
    <3>3. inputErr \in BOOLEAN /\ inputReady \in BOOLEAN
      BY DEF Init
    <3>4. typed \in 0..MaxTyped /\ flight \in 0..MaxTyped
      BY StreamAssumption DEF Init
    <3> QED
      BY <3>1, <3>2, <3>3, <3>4 DEF InTypes
<1>2. RingInv
  BY NewHolds, StreamAssumption DEF Init, RingInv
<1>3. ASSUME NEW v \in Viewers PROVE Connected(v) /\ Screen(v)
  BY DEF Init, Connected, Screen, Seen, Run
<1>4. Queue
  BY StreamAssumption DEF Init, Queue, Moving
<1> QED
  BY <1>1, <1>2, <1>3, <1>4, <1>5 DEF IInv, OutInv, InInv

(* --------------------------- Steps of the input -------------------------- *)

\* Every step keeps the input's part.
LEMMA InStep ==
  ASSUME OutTypes, InInv, [Next]_vars
  PROVE  InInv'
<1> USE DEF InInv, InTypes, Moving, procVars
<1>0. exited \in BOOLEAN /\ MaxTyped \in Nat /\ InputLimit \in Nat \ {0}
  BY StreamAssumption DEF OutTypes
<1>1. CASE Finish
  BY <1>0, <1>1 DEF Finish, Queue
<1>2. CASE Write
  <2> USE <1>2 DEF Write
  <2>1. InTypes'
    BY <1>0
  <2>2. /\ Len(input') = Len(input) + 1 /\ Len(input) \in Nat
        /\ \A i \in 1..Len(input) + 1 : input'[i] = IF i <= Len(input) THEN input[i] ELSE typed + 1
    OBVIOUS
  <2>3. Len(fed) \in Nat
    OBVIOUS
  <2>4. Queue'
    <3>1. ~exited' /\ ~inputErr' /\ exited' = exited /\ inputErr' = inputErr /\ fed' = fed
          /\ flight' = flight /\ ipc' = ipc /\ typed' = typed + 1
          /\ inputBytes' = inputBytes + 1 /\ inputBytes' <= InputLimit /\ inputReady'
      BY <1>0
    <3>2. Moving' = Moving
      BY <3>1
    <3>3. Moving \in 0..1 /\ typed = Len(fed) + Moving + Len(input)
          /\ inputBytes = Moving + Len(input)
          /\ \A i \in 1..Len(input) : input[i] = Len(fed) + Moving + i
      BY <1>0 DEF Queue
    <3> HIDE DEF Moving
    <3>4. typed' = Len(fed') + Moving' + Len(input') /\ inputBytes' = Moving' + Len(input')
      BY <2>2, <2>3, <3>1, <3>2, <3>3
    <3>5. \A i \in 1..Len(input') : input'[i] = Len(fed') + Moving' + i
      <4>1. Len(fed') = Len(fed) /\ Len(input') = Len(input) + 1
        BY <2>2, <3>1
      <4>2. ASSUME NEW i \in 1..Len(input) + 1 PROVE input'[i] = Len(fed) + Moving + i
        <5> HIDE DEF Write
        <5>1. CASE i <= Len(input)
          <6>1. i \in 1..Len(input) /\ input'[i] = input[i]
            BY <2>2, <5>1
          <6> QED
            BY <3>3, <6>1
        <5>2. CASE i > Len(input)
          <6>1. i = Len(input) + 1 /\ input'[i] = typed + 1
            BY <2>2, <5>2
          <6> QED
            BY <2>2, <2>3, <3>3, <6>1
        <5> QED
          BY <2>2, <5>1, <5>2
      <4> QED
        BY <3>2, <4>1, <4>2
    <3>6. /\ ipc = "writing" <=> flight # 0
          /\ flight # 0 => flight = Len(fed) + 1
          /\ \A i \in 1..Len(fed) : fed[i] = i
      BY DEF Queue
    <3> HIDE DEF Write, InInv
    <3> QED
      BY <3>1, <3>4, <3>5, <3>6 DEF Queue
  <2> QED
    BY <2>1, <2>4
<1>3. CASE WakeWriter
  BY <1>0, <1>3 DEF WakeWriter, Queue
<1>4. CASE StopWriter
  BY <1>0, <1>4 DEF StopWriter, Queue
<1>5. CASE NextInput
  <2> USE <1>5 DEF NextInput
  <2>1. CASE input = <<>>
    BY <1>0, <2>1 DEF Queue
  <2>2. CASE input # <<>>
    <3>1. /\ Head(input) = input[1] /\ input[1] \in 1..MaxTyped /\ Tail(input) \in Seq(1..MaxTyped)
          /\ Len(Tail(input)) = Len(input) - 1 /\ Len(input) \in Nat \ {0}
          /\ \A i \in 1..Len(input) - 1 : Tail(input)[i] = input[i + 1]
      BY <2>2, HeadTail
    <3>2. /\ ipc' = "writing" /\ flight' = input[1] /\ input' = Tail(input) /\ flight = 0
          /\ UNCHANGED <<exited, inputBytes, inputErr, inputReady, typed, fed>>
      BY <2>2, <3>1 DEF Queue
    <3>3. ~exited /\ ~inputErr
      BY <1>0, <2>2 DEF Queue
    <3>4. Len(fed) \in Nat
      OBVIOUS
    <3>5. input[1] = Len(fed) + 1
      BY <3>1, <3>2, <3>3, <3>4 DEF Queue
    <3>6. InTypes'
      BY <3>1, <3>2
    <3>7. Queue'
      BY <1>0, <3>1, <3>2, <3>3, <3>4, <3>5 DEF Queue
    <3> QED
      BY <3>6, <3>7
  <2> QED
    BY <2>1, <2>2
<1>6. CASE InputWritten
  <2> USE <1>6 DEF InputWritten
  <2>1. flight = Len(fed) + 1 /\ flight # 0 /\ flight \in 1..MaxTyped /\ Len(fed) \in Nat
    BY <1>0 DEF Queue
  <2>2. /\ Len(fed') = Len(fed) + 1 /\ fed' \in Seq(1..MaxTyped)
        /\ \A i \in 1..Len(fed) + 1 : fed'[i] = IF i <= Len(fed) THEN fed[i] ELSE flight
    BY <2>1
  <2>3. InTypes'
    BY <1>0, <2>2
  <2> QED
    BY <1>0, <2>1, <2>2, <2>3 DEF Queue
<1>7. CASE InputFails
  BY <1>0, <1>7 DEF InputFails, Queue
<1>8. CASE UNCHANGED <<exited, inputVars>>
  BY <1>8 DEF inputVars, Queue
<1>9. CASE ShellEnds \/ Reap \/ ReadEnds \/ (\E n \in Reads : Publish(n))
  BY <1>8, <1>9 DEF ShellEnds, Reap, ReadEnds, Publish
<1>10. CASE \E v \in Viewers : Subscribe(v) \/ Receive(v) \/ Take(v) \/ Hangup(v)
  BY <1>8, <1>10 DEF Subscribe, Receive, Take, Hangup
<1>11. CASE UNCHANGED vars
  BY <1>8, <1>11 DEF vars
<1> QED
  BY <1>1, <1>2, <1>3, <1>4, <1>5, <1>6, <1>7, <1>9, <1>10, <1>11 DEF Next, WriterStep

(* -------------------------- Steps of the output -------------------------- *)

\* What a step does not do to a viewer.
Untouched(v) ==
  /\ vpc'[v] = vpc[v] /\ got'[v] = got[v] /\ pending'[v] = pending[v]
  /\ signal'[v] = signal[v] /\ outClosed'[v] = outClosed[v] /\ told'[v] = told[v]
  /\ v \in subs' <=> v \in subs

\* A viewer a step does not touch stays as it is.
LEMMA Frame ==
  ASSUME NEW v \in Viewers, Connected(v), Screen(v), Untouched(v),
         UNCHANGED <<exited, made, upto>>
  PROVE  (Connected(v) /\ Screen(v))'
<1>1. Seen(v)' = Seen(v)
  BY DEF Untouched, Seen
<1>2. Screen(v)'
  BY <1>1 DEF Untouched, Screen, Run, EndsAt
<1> QED
  BY <1>2 DEF Untouched, Connected

\* A replay ends with the newest byte, and of an exited session tells all.
LEMMA SubscribeStep ==
  ASSUME OutInv, NEW v \in Viewers, Subscribe(v)
  PROVE  OutInv'
<1> USE DEF OutInv
<1>1. RingBytes(ring) \in Seq(1..MaxOut) /\ EndsAt(RingBytes(ring), made)
  BY ReplayEnds
<1>2. OutTypes'
  BY <1>1, StreamAssumption DEF Subscribe, OutTypes, procVars
<1>3. RingInv'
  BY DEF Subscribe, RingInv
<1>4. ASSUME NEW w \in Viewers PROVE (Connected(w) /\ Screen(w))'
  <2>1. CASE w # v
    <3>1. Untouched(w) /\ UNCHANGED <<exited, made, upto>>
      BY <2>1 DEF Untouched, Subscribe, OutTypes, procVars
    <3> QED
      BY <3>1, Frame
  <2>2. CASE w = v
    <3>1. /\ got'[v] = RingBytes(ring) /\ pending'[v] = <<>> /\ v \in subs' /\ vpc'[v] = "live"
          /\ outClosed'[v] = exited /\ told'[v] = exited
          /\ UNCHANGED <<exited, made, upto>>
      BY DEF Subscribe, OutTypes, Connected, procVars
    <3>2. Connected(v)'
      BY <3>1 DEF Connected
    <3> DEFINE s == RingBytes(ring)
    <3> HIDE DEF s
    <3>3. s \in Seq(Nat) /\ made \in Nat /\ upto \in 0..made /\ s \in Seq(1..MaxOut)
      BY <1>1, StreamAssumption DEF RingInv, s
    <3>4. Seen(v)' = s
      BY <3>1, <3>3 DEF Seen, s
    <3>5. EndsAt(s, made)
      BY <1>1 DEF s
    <3>6. Run(s) /\ (made > 0 => s # <<>> /\ s[Len(s)] = made)
      BY <3>3, <3>5, EndsRun, EndsLast
    <3>7. Screen(v)'
      BY <3>1, <3>3, <3>4, <3>5, <3>6 DEF Screen, Run, EndsAt
    <3> QED
      BY <2>2, <3>2, <3>7
  <2> QED
    BY <2>1, <2>2
<1> QED
  BY <1>2, <1>3, <1>4

\* A signal is taken, and the stream goes to Take.
LEMMA ReceiveStep ==
  ASSUME OutInv, NEW v \in Viewers, Receive(v)
  PROVE  OutInv'
<1> USE DEF OutInv
<1>1. OutTypes'
  BY DEF Receive, OutTypes, procVars, outVars
<1>2. RingInv'
  BY DEF Receive, RingInv, outVars
<1>3. ASSUME NEW w \in Viewers PROVE (Connected(w) /\ Screen(w))'
  <2>1. UNCHANGED <<exited, made, upto, got, pending, outClosed, told, subs>>
    BY DEF Receive, procVars, outVars
  <2>2. Screen(w)'
    BY <2>1 DEF Screen, Seen, Run, EndsAt
  <2>3. Connected(w)'
    BY <2>1 DEF Connected, Receive, OutTypes
  <2> QED
    BY <2>2, <2>3
<1> QED
  BY <1>1, <1>2, <1>3

\* Take moves what is pending to the screen.
LEMMA TakeStep ==
  ASSUME OutInv, NEW v \in Viewers, Take(v)
  PROVE  OutInv'
<1> USE DEF OutInv
<1>1. UNCHANGED <<shell, exited, reading, ring, made, upto, subs, signal, outClosed, told, visits>>
  BY DEF Take, procVars, outVars
<1>2. got[v] \o pending[v] \in Seq(1..MaxOut) /\ pending[v] \in Seq(1..MaxOut)
  BY DEF OutTypes
<1>3. OutTypes'
  BY <1>1, <1>2, StreamAssumption DEF Take, OutTypes
<1>4. RingInv'
  BY <1>1 DEF RingInv
<1>5. ASSUME NEW w \in Viewers PROVE (Connected(w) /\ Screen(w))'
  <2>1. CASE w # v
    <3>1. Untouched(w)
      BY <1>1, <2>1 DEF Untouched, Take, OutTypes
    <3> QED
      BY <1>1, <3>1, Frame
  <2>2. CASE w = v
    <3>1. got'[v] = got[v] \o pending[v] /\ pending'[v] = <<>> /\ vpc'[v] # "away"
      BY DEF Take, OutTypes
    <3>2. Seen(v)' = Seen(v)
      BY <1>2, <3>1 DEF Seen
    <3>3. Screen(v)'
      BY <1>1, <3>2 DEF Screen, Run, EndsAt
    <3>4. Connected(v)'
      BY <1>1, <3>1 DEF Connected
    <3> QED
      BY <2>2, <3>3, <3>4
  <2> QED
    BY <2>1, <2>2
<1> QED
  BY <1>3, <1>4, <1>5

\* A connection that ends leaves nothing.
LEMMA HangupStep ==
  ASSUME OutInv, NEW v \in Viewers, Hangup(v)
  PROVE  OutInv'
<1> USE DEF OutInv
<1>1. UNCHANGED <<shell, exited, reading, ring, made, upto, visits>>
  BY DEF Hangup, procVars
<1>2. OutTypes'
  BY <1>1, StreamAssumption DEF Hangup, OutTypes
<1>3. RingInv'
  BY <1>1 DEF RingInv
<1>4. ASSUME NEW w \in Viewers PROVE (Connected(w) /\ Screen(w))'
  <2>1. CASE w # v
    <3>1. Untouched(w)
      BY <2>1 DEF Untouched, Hangup, OutTypes
    <3> QED
      BY <1>1, <3>1, Frame
  <2>2. CASE w = v
    <3>1. /\ got'[v] = <<>> /\ pending'[v] = <<>> /\ vpc'[v] = "away" /\ v \notin subs'
          /\ outClosed'[v] /\ ~told'[v]
      BY DEF Hangup, OutTypes
    <3>2. Seen(v)' = <<>>
      BY <3>1 DEF Seen
    <3>3. Screen(v)' /\ Connected(v)'
      BY <1>1, <3>1, <3>2 DEF Screen, Run, Connected
    <3> QED
      BY <2>2, <3>3
  <2> QED
    BY <2>1, <2>2
<1> QED
  BY <1>2, <1>3, <1>4

\* The exit tells every subscriber, and an open one has what was made.
LEMMA FinishStep ==
  ASSUME OutInv, Finish
  PROVE  OutInv'
<1> USE DEF OutInv
<1>1. /\ UNCHANGED <<shell, reading, ring, made, subs, vpc, got, pending, signal, visits>>
      /\ ~exited /\ exited' = TRUE /\ upto' = made
      /\ outClosed' = [v \in Viewers |-> outClosed[v] \/ v \in subs]
      /\ told' = [v \in Viewers |-> told[v] \/ v \in subs]
  BY DEF Finish, CloseOutExited
<1>2. OutTypes'
  BY <1>1 DEF OutTypes
<1>3. RingInv'
  BY <1>1 DEF RingInv
<1>4. ASSUME NEW v \in Viewers PROVE (Connected(v) /\ Screen(v))'
  <2>1. Connected(v)'
    BY <1>1 DEF Connected
  <2>2. Seen(v)' = Seen(v) /\ made \in Nat
    BY <1>1, StreamAssumption DEF Seen, RingInv
  <2>3. Seen(v) \in Seq(Nat)
    <3>1. got[v] \in Seq(1..MaxOut) /\ pending[v] \in Seq(1..MaxOut)
      BY DEF OutTypes
    <3>2. got[v] \in Seq(Nat) /\ pending[v] \in Seq(Nat)
      BY <3>1, StreamAssumption
    <3> QED
      BY <3>2 DEF Seen
  <2>4. outClosed'[v] \/ ~outClosed[v]
    BY <1>1
  <2>5. outClosed'[v]
    BY <1>1 DEF Connected
  <2>6. told'[v] => EndsAt(Seen(v), made)
    BY <1>1 DEF Connected, Screen
  <2>7. told'[v] /\ made > 0 => Seen(v) # <<>> /\ Seen(v)[Len(Seen(v))] = made
    BY <2>2, <2>3, <2>6, EndsLast
  <2>8. Screen(v)'
    BY <1>1, <2>2, <2>5, <2>7 DEF Screen, Run
  <2> QED
    BY <2>1, <2>8
<1> QED
  BY <1>2, <1>3, <1>4

\* A read goes to the ring and to every open viewer, or drops it.
LEMMA PublishStep ==
  ASSUME OutInv, NEW n \in Reads, Publish(n)
  PROVE  OutInv'
<1> USE DEF OutInv
<1> DEFINE p == [i \in 1..n |-> made + i]
           dropped == Behind(n)
           reached == Reached \ dropped
<1>1. /\ n \in Nat \ {0} /\ made \in Nat /\ made' = made + n /\ made + n <= MaxOut
      /\ MaxOut \in Nat /\ PendingLimit \in Nat
  BY StreamAssumption DEF Publish, RingInv
<1>2. /\ UNCHANGED <<shell, exited, reading, upto, vpc, got, told, visits>>
      /\ ring' = RingWrite(ring, p)
      /\ subs' = subs \ dropped
      /\ pending' = [v \in Viewers |->
           IF v \in dropped THEN <<>> ELSE IF v \in reached THEN pending[v] \o p ELSE pending[v]]
      /\ signal' = [v \in Viewers |-> signal[v] \/ v \in reached]
      /\ outClosed' = [v \in Viewers |-> outClosed[v] \/ v \in dropped]
  BY DEF Publish, procVars
<1>3. dropped \subseteq Reached /\ reached = Reached \ dropped
  BY DEF Behind
<1>4. \A v \in Viewers : v \in Reached <=> v \in subs /\ ~outClosed[v]
  BY DEF Reached
<1>5. RingInv'
  <2>1. Holds(RingWrite(ring, p), made + n)
    BY <1>1, WriteHolds DEF RingInv
  <2> HIDE DEF p
  <2> QED
    BY <1>1, <1>2, <2>1 DEF RingInv
<1>6. p \in Seq(1..MaxOut) /\ p \in Seq(Nat) /\ Len(p) = n
  <2>1. \A i \in 1..n : made + i \in 1..MaxOut /\ made + i \in Nat
    BY <1>1
  <2> QED
    BY <1>1, <2>1
<1>7. \A v \in Viewers : v \in reached => Len(pending[v]) + n <= PendingLimit
  BY <1>1, <1>3 DEF Behind, OutTypes
<1> HIDE DEF dropped, reached
<1>8. ASSUME NEW v \in Viewers
      PROVE  pending'[v] \in Seq(1..MaxOut) /\ Len(pending'[v]) <= PendingLimit
  <2> HIDE DEF p
  <2>1. pending[v] \in Seq(1..MaxOut) /\ Len(pending[v]) <= PendingLimit
    BY DEF OutTypes
  <2>2. pending'[v] = IF v \in dropped THEN <<>>
                      ELSE IF v \in reached THEN pending[v] \o p ELSE pending[v]
    BY <1>2
  <2>3. pending[v] \o p \in Seq(1..MaxOut) /\ Len(pending[v] \o p) = Len(pending[v]) + n
    BY <1>6, <2>1
  <2>4. <<>> \in Seq(1..MaxOut) /\ Len(<<>>) = 0
    OBVIOUS
  <2>5. CASE v \in dropped
    BY <1>1, <2>2, <2>4, <2>5
  <2>6. CASE v \notin dropped /\ v \in reached
    BY <1>7, <2>2, <2>3, <2>6
  <2>7. CASE v \notin dropped /\ v \notin reached
    BY <2>1, <2>2, <2>7
  <2> QED
    BY <2>5, <2>6, <2>7
<1>9. OutTypes'
  <2>1. pending' \in [Viewers -> Seq(1..MaxOut)]
    <3> HIDE DEF p
    <3>1. pending' = [v \in Viewers |-> pending'[v]]
      BY <1>2
    <3> QED
      BY <1>8, <3>1
  <2> HIDE DEF p
  <2>2. signal' \in [Viewers -> BOOLEAN] /\ outClosed' \in [Viewers -> BOOLEAN]
    BY <1>2
  <2>3. subs' \subseteq Viewers
    BY <1>2 DEF OutTypes
  <2> QED
    BY <1>2, <1>8, <2>1, <2>2, <2>3 DEF OutTypes
<1>10. ASSUME NEW v \in Viewers PROVE (Connected(v) /\ Screen(v))'
  <2> HIDE DEF p
  <2>1. Connected(v) /\ Screen(v) /\ pending[v] \in Seq(Nat) /\ got[v] \in Seq(Nat)
    <3>1. pending[v] \in Seq(1..MaxOut) /\ got[v] \in Seq(1..MaxOut)
      BY DEF OutTypes
    <3> QED
      BY <1>1, <3>1
  <2>2. CASE v \in dropped
    <3>1. /\ v \in subs /\ ~outClosed[v] /\ v \notin subs' /\ outClosed'[v]
          /\ pending'[v] = <<>> /\ ~told[v] /\ vpc[v] # "away"
      BY <1>2, <1>3, <1>4, <2>1, <2>2 DEF Connected
    <3>2. Connected(v)'
      BY <1>2, <3>1 DEF Connected
    <3>3. Seen(v)' = got[v] /\ Seen(v) = got[v] \o pending[v]
      <4>1. got[v] \o <<>> = got[v]
        BY <2>1, ConcatEmptySeq
      <4> QED
        BY <1>2, <3>1, <4>1 DEF Seen
    <3>4. Run(got[v])
      BY <2>1, <3>3, RunOfPrefix DEF Screen
    <3>5. Screen(v)'
      BY <1>2, <3>1, <3>3, <3>4 DEF Screen, Run
    <3> QED
      BY <3>2, <3>5
  <2>3. CASE v \in reached
    <3>1. /\ v \in subs /\ ~outClosed[v] /\ v \in subs' /\ ~outClosed'[v]
          /\ pending'[v] = pending[v] \o p /\ ~told[v] /\ vpc[v] # "away" /\ signal'[v]
      BY <1>2, <1>3, <1>4, <2>1, <2>3 DEF Connected
    <3>2. Connected(v)'
      BY <1>2, <3>1 DEF Connected
    <3> DEFINE s == Seen(v)
    <3>3. s \in Seq(Nat) /\ Seen(v)' = s \o p
      <4>1. got[v] \o (pending[v] \o p) = (got[v] \o pending[v]) \o p
        BY <1>6, <2>1, Regroup, Zenon
      <4>2. got[v] \o pending[v] \in Seq(Nat)
        BY <2>1
      <4>3. Seen(v)' = got[v] \o (pending[v] \o p)
        BY <1>2, <3>1, Zenon DEF Seen
      <4> QED
        BY <4>1, <4>2, <4>3, Zenon DEF Seen
    <3>4. EndsAt(s, made)
      BY <2>1, <3>1 DEF Screen
    <3> HIDE DEF s
    <3>5. EndsAt(s \o p, made + n)
      BY <1>1, <3>3, <3>4, EndsGrows DEF p
    <3>6. s \o p \in Seq(Nat) /\ made + n \in Nat
      BY <1>1, <1>6, <3>3
    <3>7. Run(s \o p)
      BY <3>5, <3>6, EndsRun
    <3>8. Screen(v)'
      BY <1>1, <1>2, <3>1, <3>3, <3>5, <3>7 DEF Screen, Run, EndsAt
    <3> QED
      BY <3>2, <3>8
  <2>4. CASE v \notin dropped /\ v \notin reached
    <3>1. outClosed[v] /\ outClosed'[v] /\ pending'[v] = pending[v]
      BY <1>2, <1>3, <1>4, <2>1, <2>4 DEF Connected
    <3>2. Connected(v)'
      BY <1>2, <2>1, <3>1 DEF Connected
    <3>3. Seen(v)' = Seen(v)
      BY <1>2, <3>1 DEF Seen
    <3>4. Screen(v)'
      BY <1>2, <2>1, <3>1, <3>3 DEF Screen, Run
    <3> QED
      BY <3>2, <3>4
  <2> QED
    BY <2>2, <2>3, <2>4
<1> QED
  BY <1>5, <1>9, <1>10

\* Every step keeps the output's part.
LEMMA OutStep ==
  ASSUME OutInv, [Next]_vars
  PROVE  OutInv'
<1>1. CASE Finish
  BY <1>1, FinishStep
<1>2. CASE \E n \in Reads : Publish(n)
  BY <1>2, PublishStep
<1>3. CASE \E v \in Viewers : Subscribe(v) \/ Receive(v) \/ Take(v) \/ Hangup(v)
  BY <1>3, SubscribeStep, ReceiveStep, TakeStep, HangupStep
<1>4. CASE UNCHANGED <<exited, outVars, subVars>> /\ OutTypes'
  <2>1. \A v \in Viewers : Untouched(v)
    BY <1>4 DEF Untouched, subVars, outVars
  <2>2. \A v \in Viewers : (Connected(v) /\ Screen(v))'
    BY <1>4, <2>1, Frame DEF OutInv, outVars
  <2> QED
    BY <1>4, <2>2 DEF OutInv, RingInv, outVars
<1>5. CASE ShellEnds \/ Reap \/ ReadEnds
  <2>1. UNCHANGED <<exited, outVars, subVars>> /\ OutTypes'
    BY <1>5 DEF ShellEnds, Reap, ReadEnds, OutInv, OutTypes, outVars, subVars
  <2> QED
    BY <1>4, <2>1
<1>6. CASE Write \/ WriterStep \/ UNCHANGED vars
  <2>1. UNCHANGED <<procVars, outVars, subVars>>
    BY <1>6 DEF Write, WriterStep, WakeWriter, StopWriter, NextInput, InputWritten, InputFails, vars
  <2>2. UNCHANGED <<exited, outVars, subVars>> /\ OutTypes'
    BY <2>1 DEF OutInv, OutTypes, procVars, outVars, subVars
  <2> QED
    BY <1>4, <2>2
<1> QED
  BY <1>1, <1>2, <1>3, <1>5, <1>6 DEF Next

(* ------------------------------- Theorems -------------------------------- *)

\* The invariant is inductive.
THEOREM Inductive == Spec => []IInv
<1>1. IInv /\ [Next]_vars => IInv'
  BY OutStep, InStep DEF IInv, OutInv
<1> QED
  BY InitInv, <1>1, PTL DEF Spec

\* Every variable has its type, and no subscriber has more pending than the
\* limit (publish).
THEOREM TypeCorrect == Spec => []TypeOK
<1>1. IInv => TypeOK
  <2> SUFFICES ASSUME IInv PROVE TypeOK
    OBVIOUS
  <2>1. made \in 0..MaxOut /\ upto \in 0..MaxOut
    BY StreamAssumption DEF IInv, OutInv, RingInv
  <2>2. ring \in [buf : [0..RingSize - 1 -> 0..MaxOut], head : 0..RingSize - 1, full : BOOLEAN]
    <3>1. ring \in Rings(made) /\ 0..made \subseteq 0..MaxOut
      BY <2>1, StreamAssumption DEF IInv, OutInv, RingInv, Holds
    <3> QED
      BY <3>1 DEF Rings
  <2> QED
    BY <2>1, <2>2 DEF IInv, OutInv, InInv, OutTypes, InTypes, TypeOK
<1> QED
  BY <1>1, Inductive, PTL

\* Every viewer sees one unbroken run of the output, up to the newest byte or
\* the exit, whatever falls between its replay, its signals and its takes.
THEOREM OutputWholeAlways == Spec => []OutputWhole
<1>1. IInv => OutputWhole
  <2> SUFFICES ASSUME IInv, NEW v \in Viewers, Watching(v)
               PROVE  /\ Run(Seen(v))
                      /\ ~outClosed[v] /\ made > 0 => Seen(v) # <<>> /\ Last(Seen(v)) = made
                      /\ told[v] /\ upto > 0 => Seen(v) # <<>> /\ Last(Seen(v)) >= upto
    BY DEF OutputWhole, Run, Seen
  <2>1. Screen(v)
    BY DEF IInv, OutInv
  <2>2. made \in Nat
    BY StreamAssumption DEF IInv, OutInv, RingInv
  <2>3. Seen(v) \in Seq(Nat)
    <3>1. got[v] \in Seq(1..MaxOut) /\ pending[v] \in Seq(1..MaxOut)
      BY DEF IInv, OutInv, OutTypes
    <3>2. got[v] \in Seq(Nat) /\ pending[v] \in Seq(Nat)
      BY <3>1, StreamAssumption
    <3> QED
      BY <3>2 DEF Seen
  <2>4. Last(Seen(v)) = Seen(v)[Len(Seen(v))]
    BY DEF Last
  <2>5. ~outClosed[v] /\ made > 0 => Seen(v) # <<>> /\ Last(Seen(v)) = made
    BY <2>1, <2>2, <2>3, <2>4, EndsLast DEF Screen
  <2> QED
    BY <2>1, <2>4, <2>5 DEF Screen
<1> QED
  BY <1>1, Inductive, PTL

\* A replay is the newest bytes of the session, oldest first, for every size of
\* the ring and every run of writes (ring.go).
THEOREM ReplayRecentAlways == Spec => []ReplayRecent
<1>1. IInv => ReplayRecent
  <2> SUFFICES ASSUME IInv PROVE ReplayRecent
    OBVIOUS
  <2>1. made \in Nat /\ Holds(ring, made)
    BY StreamAssumption DEF IInv, OutInv, RingInv
  <2>2. RingBytes(ring) = [i \in 1..Kept(made) |-> made - Kept(made) + i]
    BY <2>1, BytesRecent
  <2> QED
    BY <2>2 DEF ReplayRecent, Kept
<1> QED
  BY <1>1, Inductive, PTL

\* No stream sleeps over output and no writer over input.
THEOREM NoLostSignalAlways == Spec => []NoLostSignal
<1>1. IInv => NoLostSignal
  BY DEF IInv, OutInv, InInv, Connected, Queue, NoLostSignal
<1> QED
  BY <1>1, Inductive, PTL

\* What the writer has written, holds and has queued is what was typed.
LEMMA TypedIsFed ==
  ASSUME InTypes, Queue, ~exited, ~inputErr
  PROVE  fed \o (IF flight = 0 THEN <<>> ELSE <<flight>>) \o input = [i \in 1..typed |-> i]
<1> DEFINE mv == IF flight = 0 THEN <<>> ELSE <<flight>>
           q == fed \o mv \o input
           l == Len(fed)
           k == Len(input)
<1>1. mv \in Seq(1..MaxTyped) /\ Len(mv) = Moving /\ Moving \in 0..1
      /\ (Moving = 1 => mv[1] = flight)
  <2>1. CASE flight = 0
    BY <2>1 DEF Moving
  <2>2. CASE flight # 0
    BY <2>2, StreamAssumption DEF InTypes, Moving
  <2> QED
    BY <2>1, <2>2
<1> HIDE DEF mv
<1>2. fed \in Seq(1..MaxTyped) /\ input \in Seq(1..MaxTyped)
  BY DEF InTypes
<1>3. typed = Len(fed) + Moving + Len(input) /\ Len(fed) \in Nat /\ Len(input) \in Nat
  BY <1>2 DEF Queue
<1>4. fed \o mv \in Seq(1..MaxTyped) /\ Len(fed \o mv) = Len(fed) + Moving
      /\ \A i \in 1..Len(fed) + Moving :
           (fed \o mv)[i] = IF i <= Len(fed) THEN fed[i] ELSE mv[i - Len(fed)]
  BY <1>1, <1>2
<1> DEFINE f == fed \o mv
<1>5. \A i \in 1..Len(f) : f[i] = i
  <2>1. \A i \in 1..Len(fed) : fed[i] = i
    BY DEF Queue
  <2>2. Moving = 1 => flight = Len(fed) + 1
    BY DEF Queue, Moving
  <2>3. ASSUME NEW i \in 1..Len(fed) + Moving PROVE (fed \o mv)[i] = i
    <3>1. CASE i <= Len(fed)
      BY <1>3, <1>4, <2>1, <3>1
    <3>2. CASE i > Len(fed)
      <4>1. Moving = 1 /\ i - Len(fed) = 1 /\ i = Len(fed) + 1
        BY <1>1, <1>3, <3>2
      <4>2. (fed \o mv)[i] = mv[i - Len(fed)]
        BY <1>3, <1>4, <3>2
      <4> QED
        BY <1>1, <2>2, <4>1, <4>2
    <3> QED
      BY <1>1, <1>3, <3>1, <3>2
  <2> QED
    BY <1>4, <2>3
<1>6. \A i \in 1..Len(input) : input[i] = Len(f) + i
  BY <1>4 DEF Queue
<1>7. Len(f) + Len(input) = typed /\ f \in Seq(1..MaxTyped) /\ Len(f) \in Nat
  BY <1>1, <1>3, <1>4
<1> HIDE DEF f
<1>8. f \o input = [i \in 1..typed |-> i]
  <2> DEFINE w == [i \in 1..typed |-> i]
  <2>1. /\ f \o input \in Seq(1..MaxTyped) /\ Len(f \o input) = typed
        /\ \A i \in 1..typed : (f \o input)[i] = IF i <= Len(f) THEN f[i] ELSE input[i - Len(f)]
    BY <1>2, <1>7
  <2>2. ASSUME NEW i \in 1..typed PROVE (f \o input)[i] = i
    <3>1. CASE i <= Len(f)
      BY <1>5, <1>7, <2>1, <3>1
    <3>2. CASE i > Len(f)
      <4>1. i - Len(f) \in 1..Len(input)
        BY <1>3, <1>7, <3>2
      <4> QED
        BY <1>3, <1>6, <1>7, <2>1, <3>2, <4>1
    <3> QED
      BY <1>3, <1>7, <3>1, <3>2
  <2>3. w \in Seq(Nat) /\ Len(w) = typed /\ \A i \in 1..typed : w[i] = i
    BY <1>3, <1>7
  <2> HIDE DEF w
  <2>4. f \o input = w
    <3>1. Len(f \o input) = Len(w) /\ \A i \in 1..Len(w) : (f \o input)[i] = w[i]
      BY <2>1, <2>2, <2>3
    <3>2. f \o input \in Seq(1..MaxTyped) /\ w \in Seq(1..MaxTyped)
      <4>1. typed \in Nat /\ MaxTyped \in Nat /\ typed <= MaxTyped
        BY StreamAssumption DEF InTypes
      <4>2. w \in [1..typed -> 1..MaxTyped]
        BY <4>1 DEF w
      <4>3. w \in Seq(1..MaxTyped)
        BY ONLY <4>1, <4>2
      <4> QED
        BY <2>1, <4>3
    <3>3. \A S : \A x, y \in Seq(S) : Len(x) = Len(y) /\ (\A i \in 1..Len(x) : x[i] = y[i]) => x = y
      BY SeqEqual, Zenon
    <3> QED
      BY <3>1, <3>2, <3>3
  <2> QED
    BY <2>4 DEF w
<1> QED
  BY <1>8 DEF f, mv

\* The process is fed what was typed, in order and once, and until the exit
\* nothing accepted is lost or miscounted.
THEOREM InputWholeAlways == Spec => []InputWhole
<1>1. IInv => InputWhole
  <2> SUFFICES ASSUME IInv PROVE InputWhole
    OBVIOUS
  <2>1. InTypes /\ Queue
    BY DEF IInv, InInv
  <2>2. fed = [i \in 1..Len(fed) |-> i]
    BY <2>1 DEF InTypes, Queue
  <2>3. ~exited /\ ~inputErr =>
          /\ fed \o (IF flight = 0 THEN <<>> ELSE <<flight>>) \o input = [i \in 1..typed |-> i]
          /\ inputBytes = Len(IF flight = 0 THEN <<>> ELSE <<flight>>) + Len(input)
    <3>1. Len(IF flight = 0 THEN <<>> ELSE <<flight>>) = Moving
      BY DEF Moving
    <3> QED
      BY <2>1, <3>1, TypedIsFed DEF Queue
  <2>4. inputBytes <= InputLimit
    BY <2>1 DEF Queue
  <2> QED
    BY <2>2, <2>3, <2>4 DEF InputWhole
<1> QED
  BY <1>1, Inductive, PTL
==============================================================================
