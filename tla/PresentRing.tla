------------------------------ MODULE PresentRing -----------------------------
(***************************************************************************)
(* The replay buffer of a terminal session                                  *)
(* (services/present/internal/terminal/ring.go): a circular buffer of the   *)
(* most recent bytes.  Positions count from 0, as in the code.              *)
(***************************************************************************)
EXTENDS Integers, Sequences, SequencesExt

CONSTANT RingSize  \* Config.RingBytes

ASSUME RingAssumption == RingSize \in Nat \ {0}

\* make([]byte, size): what a byte is before it is written is never read.
NewRing == [buf |-> [i \in 0..RingSize - 1 |-> 0], head |-> 0, full |-> FALSE]

\* Mutant: a write that ends exactly at the buffer's end is not counted as a lap.
WriteNoLap(r, p) ==
  LET n == Len(p)
      end == r.head + n
  IN  IF n >= RingSize
      THEN [buf |-> [i \in 0..RingSize - 1 |-> p[n - RingSize + i + 1]],
            head |-> 0, full |-> TRUE]
      ELSE [buf |-> [i \in 0..RingSize - 1 |->
                       LET j == (i - r.head + RingSize) % RingSize
                       IN  IF j < n THEN p[j + 1] ELSE r.buf[i]],
            head |-> end % RingSize, full |-> r.full \/ end > RingSize]

\* write: the newest bytes go where the oldest are.  A write of the buffer's
\* length or more starts a lap of its own.
RingWrite(r, p) ==
  LET n == Len(p)
      end == r.head + n
  IN  IF n >= RingSize
      THEN [buf |-> [i \in 0..RingSize - 1 |-> p[n - RingSize + i + 1]],
            head |-> 0, full |-> TRUE]
      ELSE [buf |-> [i \in 0..RingSize - 1 |->
                       LET j == (i - r.head + RingSize) % RingSize
                       IN  IF j < n THEN p[j + 1] ELSE r.buf[i]],
            head |-> end % RingSize, full |-> r.full \/ end >= RingSize]

\* bytes: oldest first.
RingBytes(r) ==
  IF r.full
  THEN [i \in 1..RingSize |-> r.buf[(r.head + i - 1) % RingSize]]
  ELSE [i \in 1..r.head |-> r.buf[i - 1]]
=============================================================================
