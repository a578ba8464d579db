-------------------------- MODULE TerminalStreamProofs --------------------------
(***************************************************************************)
(* Proofs about TerminalStream for every ring and queue size, every number *)
(* of connections and every bound on what the hosts write.                 *)
(***************************************************************************)
EXTENDS TerminalStreamRefinement, FiniteSetTheorems, SequenceTheorems, TLAPS
-----------------------------------------------------------------------------
(***************************************************************************)
(* The circular array is a window on what was written: for every size and  *)
(* every chunk, reading it after a write gives the newest bytes of what it *)
(* held followed by the chunk.                                             *)
(***************************************************************************)

\* A write keeps the array, its cursor and its flag in range.
LEMMA RingWriteType ==
    ASSUME NEW r \in Ring, NEW p \in Seq(Byte)
    PROVE  RingWrite(r, p) \in Ring
BY RingAssumption DEF RingWrite, Ring

\* A new buffer is empty.
LEMMA EmptyRingType == EmptyRing \in Ring /\ Snapshot(EmptyRing) = <<>>
BY RingAssumption DEF EmptyRing, Ring, Snapshot

\* What is read back are bytes, at most RingSize of them.
LEMMA SnapshotType ==
    ASSUME NEW r \in Ring
    PROVE  /\ Snapshot(r) \in Seq(Byte)
           /\ Len(Snapshot(r)) = IF r.full THEN RingSize ELSE r.pos
<1>1. CASE ~r.full
  <2>1. Snapshot(r) = [k \in 1 .. r.pos |-> r.buf[k - 1]]
    BY <1>1 DEF Snapshot
  <2>2. r.pos \in Nat /\ \A k \in 1 .. r.pos : r.buf[k - 1] \in Byte
    BY RingAssumption DEF Ring
  <2> QED
    BY <1>1, <2>1, <2>2
<1>2. CASE r.full
  <2>1. Snapshot(r) = [k \in 1 .. RingSize |->
             r.buf[IF k <= RingSize - r.pos THEN r.pos + k - 1
                                            ELSE k - 1 - (RingSize - r.pos)]]
    BY <1>2 DEF Snapshot
  <2>2. RingSize \in Nat
    BY RingAssumption
  <2>3. \A k \in 1 .. RingSize :
             r.buf[IF k <= RingSize - r.pos THEN r.pos + k - 1
                                            ELSE k - 1 - (RingSize - r.pos)] \in Byte
    BY RingAssumption DEF Ring
  <2> QED
    BY <1>2, <2>1, <2>2, <2>3
<1> QED
  BY <1>1, <1>2

\* Two sequences with the same elements are the same.
LEMMA SameElements ==
    ASSUME NEW s \in Seq(Byte), NEW t \in Seq(Byte), Len(s) = Len(t),
           \A k \in 1 .. Len(s) : s[k] = t[k]
    PROVE  s = t
OBVIOUS

\* The elements of Newest(s, n).
LEMMA NewestElements ==
    ASSUME NEW s \in Seq(Byte), NEW n \in Nat
    PROVE  /\ Newest(s, n) \in Seq(Byte)
           /\ Len(Newest(s, n)) = IF Len(s) <= n THEN Len(s) ELSE n
           /\ \A k \in 1 .. Len(Newest(s, n)) :
                 Newest(s, n)[k] = s[IF Len(s) <= n THEN k ELSE Len(s) - n + k]
<1>1. CASE Len(s) <= n
  BY <1>1 DEF Newest
<1>2. CASE ~(Len(s) <= n)
  <2>1. Newest(s, n) = SubSeq(s, Len(s) - n + 1, Len(s))
    BY <1>2 DEF Newest
  <2>2. Len(s) - n + 1 \in 1 .. Len(s) + 1 /\ Len(s) \in Nat
    BY <1>2
  <2>3. SubSeq(s, Len(s) - n + 1, Len(s)) \in Seq(Byte)
    BY <2>2
  <2>4. Len(SubSeq(s, Len(s) - n + 1, Len(s))) = n
    BY <2>2
  <2>5. \A k \in 1 .. n : SubSeq(s, Len(s) - n + 1, Len(s))[k] = s[Len(s) - n + k]
    BY <2>2
  <2> QED
    BY <1>2, <2>1, <2>3, <2>4, <2>5
<1> QED
  BY <1>1, <1>2

\* What a reading returns, element by element.
LEMMA SnapshotElements ==
    ASSUME NEW r \in Ring, NEW k \in 1 .. Len(Snapshot(r))
    PROVE  Snapshot(r)[k] =
               r.buf[IF ~r.full THEN k - 1
                     ELSE IF k <= RingSize - r.pos THEN r.pos + k - 1
                     ELSE k - 1 - (RingSize - r.pos)]
<1>1. Len(Snapshot(r)) = IF r.full THEN RingSize ELSE r.pos
  BY SnapshotType
<1>2. RingSize \in Nat /\ r.pos \in Nat
  BY RingAssumption DEF Ring
<1> QED
  BY <1>1, <1>2 DEF Snapshot

\* A chunk that does not fit replaces the array.
LEMMA LongWrite ==
    ASSUME NEW r \in Ring, NEW p \in Seq(Byte), Len(p) >= RingSize
    PROVE  /\ RingWrite(r, p).full /\ RingWrite(r, p).pos = 0
           /\ \A i \in 0 .. RingSize - 1 :
                 RingWrite(r, p).buf[i] = p[Len(p) - RingSize + i + 1]
BY RingAssumption DEF RingWrite

\* A shorter one goes behind the cursor and wraps.
LEMMA ShortWrite ==
    ASSUME NEW r \in Ring, NEW p \in Seq(Byte), Len(p) # 0, Len(p) < RingSize
    PROVE  /\ RingWrite(r, p).pos = IF Len(p) < RingSize - r.pos THEN r.pos + Len(p)
                                    ELSE Len(p) - (RingSize - r.pos)
           /\ RingWrite(r, p).full = (r.full \/ Len(p) >= RingSize - r.pos)
           /\ \A i \in 0 .. RingSize - 1 :
                 RingWrite(r, p).buf[i] =
                     IF r.pos <= i /\ i < r.pos + Len(p) THEN p[i - r.pos + 1]
                     ELSE IF i < Len(p) - (RingSize - r.pos) THEN p[RingSize - r.pos + i + 1]
                     ELSE r.buf[i]
<1>1. ~(Len(p) >= RingSize)
  BY RingAssumption
<1>2. RingWrite(r, p) =
         [buf  |-> [i \in 0 .. RingSize - 1 |->
                        IF r.pos <= i /\ i < r.pos + Len(p) THEN p[i - r.pos + 1]
                        ELSE IF i < Len(p) - (RingSize - r.pos) THEN p[RingSize - r.pos + i + 1]
                        ELSE r.buf[i]],
          pos  |-> IF Len(p) < RingSize - r.pos THEN r.pos + Len(p)
                   ELSE Len(p) - (RingSize - r.pos),
          full |-> r.full \/ Len(p) >= RingSize - r.pos]
  BY <1>1 DEF RingWrite
<1> QED
  BY <1>2

\* Reading a ring after p was written to it: the k-th byte is the one that far from
\* the end of what was held and the chunk.
Shifted(w, old, p, k) ==
    /\ Len(Snapshot(w)) = IF Len(old) + Len(p) <= RingSize THEN Len(old) + Len(p) ELSE RingSize
    /\ Snapshot(w)[k] = (old \o p)[IF Len(old) + Len(p) <= RingSize THEN k
                                   ELSE Len(old) + Len(p) - RingSize + k]

\* Where the k-th byte read after a short write is.  N is the size, n the chunk, a
\* and b are the cursors before and after, m and v what was and is held, x is the
\* byte's place in what was held and the chunk, i its cell now, o its cell then.
Placed(N, n, a, b, m, v, k, x, i, o) ==
    /\ v = (IF m + n <= N THEN m + n ELSE N)
    /\ 0 < x /\ x <= m + n /\ 0 <= i /\ i < N
    /\ x <= m => ~(a <= i /\ i < a + n) /\ ~(i < n - (N - a)) /\ i = o
    /\ x > m => \/ a <= i /\ i < a + n /\ i - a + 1 = x - m
                \/ ~(a <= i /\ i < a + n) /\ i < n - (N - a) /\ N - a + i + 1 = x - m

\* How the code's cursors and those places depend on each other.
Placing(N, n, a, b, m, v, k, x, i, o) ==
    /\ {N, n, a, b, m, v, k} \subseteq Nat /\ {x, i, o} \subseteq Int
    /\ 0 < n /\ n < N /\ a < N /\ 0 < k /\ k <= v
    /\ m = a \/ m = N
    /\ b = IF n < N - a THEN a + n ELSE n - (N - a)
    /\ v = IF m = N \/ n >= N - a THEN N ELSE b
    /\ x = IF m + n <= N THEN k ELSE m + n - N + k
    /\ i = IF v # N THEN k - 1 ELSE IF k <= N - b THEN b + k - 1 ELSE k - 1 - (N - b)
    /\ o = IF m # N THEN x - 1 ELSE IF x <= N - a THEN a + x - 1 ELSE x - 1 - (N - a)

\* The arithmetic of a short write.
LEMMA Places ==
    ASSUME NEW N, NEW n, NEW a, NEW b, NEW m, NEW v, NEW k, NEW x, NEW i, NEW o,
           Placing(N, n, a, b, m, v, k, x, i, o)
    PROVE  Placed(N, n, a, b, m, v, k, x, i, o)
<1>1. CASE m = N
  BY <1>1, SMTT(30) DEF Placing, Placed
<1>2. CASE m # N /\ n < N - a
  BY <1>2, SMTT(30) DEF Placing, Placed
<1>3. CASE m # N /\ ~(n < N - a)
  BY <1>3, SMTT(30) DEF Placing, Placed
<1> QED
  BY <1>1, <1>2, <1>3

\* Where the k-th byte read after a write comes from, for a chunk that replaces
\* the array.
LEMMA ShiftLong ==
    ASSUME NEW r \in Ring, NEW p \in Seq(Byte), Len(p) >= RingSize,
           NEW w \in Ring, w = RingWrite(r, p),
           NEW old \in Seq(Byte), NEW k \in 1 .. Len(Snapshot(w))
    PROVE  Shifted(w, old, p, k)
<1>1. w.full /\ w.pos = 0 /\ \A i \in 0 .. RingSize - 1 : w.buf[i] = p[Len(p) - RingSize + i + 1]
  BY LongWrite
<1>2. RingSize \in Nat /\ Len(p) \in Nat /\ Len(old) \in Nat
  BY RingAssumption
<1>3. Len(Snapshot(w)) = RingSize
  BY <1>1, SnapshotType
<1>4. k \in 1 .. RingSize
  BY <1>3
<1>5. Snapshot(w)[k] = w.buf[k - 1]
  <2>1. k <= RingSize - w.pos /\ w.pos + k - 1 = k - 1
    BY <1>1, <1>2, <1>4
  <2> QED
    BY <1>1, <2>1, SnapshotElements
<1>6. w.buf[k - 1] = p[Len(p) - RingSize + k]
  <2>1. k - 1 \in 0 .. RingSize - 1 /\ Len(p) - RingSize + (k - 1) + 1 = Len(p) - RingSize + k
    BY <1>2, <1>4
  <2> QED
    BY <1>1, <2>1
<1>7. PICK z \in Nat : z = Len(p) - RingSize + k /\ z \in 1 .. Len(p)
  <2>1. Len(p) - RingSize + k \in Nat /\ Len(p) - RingSize + k \in 1 .. Len(p)
    BY <1>2, <1>4
  <2> QED
    BY <2>1
<1>8. (old \o p)[Len(old) + z] = p[z]
  BY <1>7
<1>9. Len(old) + z = Len(old) + Len(p) - RingSize + k
  BY <1>2, <1>4, <1>7
<1>10. Len(old) + Len(p) <= RingSize => Len(old) = 0 /\ Len(p) = RingSize
  BY <1>2
<1> QED
  <2>1. Len(Snapshot(w)) = IF Len(old) + Len(p) <= RingSize THEN Len(old) + Len(p) ELSE RingSize
    BY <1>2, <1>3, <1>10
  <2>2. Len(old) + z = IF Len(old) + Len(p) <= RingSize THEN k
                       ELSE Len(old) + Len(p) - RingSize + k
    BY <1>2, <1>4, <1>7, <1>9, <1>10
  <2> QED
    BY <1>5, <1>6, <1>7, <1>8, <2>1, <2>2 DEF Shifted

\* The same for a chunk that goes behind the cursor.
LEMMA ShiftShort ==
    ASSUME NEW r \in Ring, NEW p \in Seq(Byte), Len(p) # 0, Len(p) < RingSize,
           NEW w \in Ring, w = RingWrite(r, p),
           NEW old \in Seq(Byte), old = Snapshot(r), NEW k \in 1 .. Len(Snapshot(w))
    PROVE  Shifted(w, old, p, k)
<1>1. /\ RingSize \in Nat /\ r.pos \in Nat /\ r.pos < RingSize /\ r.full \in BOOLEAN
      /\ w.pos \in Nat /\ w.full \in BOOLEAN
  BY RingAssumption DEF Ring
<1>2. Len(old) \in Nat /\ Len(p) \in Nat /\ 0 < Len(p) /\ Len(p) < RingSize
  OBVIOUS
<1>3. Len(old) = IF r.full THEN RingSize ELSE r.pos
  BY SnapshotType
<1>4. Len(Snapshot(w)) = IF w.full THEN RingSize ELSE w.pos
  BY SnapshotType
<1>5. k \in Nat /\ 0 < k /\ k <= IF w.full THEN RingSize ELSE w.pos
  BY <1>1, <1>4
<1>6. /\ w.pos = IF Len(p) < RingSize - r.pos THEN r.pos + Len(p)
                 ELSE Len(p) - (RingSize - r.pos)
      /\ w.full <=> (r.full \/ Len(p) >= RingSize - r.pos)
      /\ \A i \in 0 .. RingSize - 1 :
            w.buf[i] = IF r.pos <= i /\ i < r.pos + Len(p) THEN p[i - r.pos + 1]
                       ELSE IF i < Len(p) - (RingSize - r.pos) THEN p[RingSize - r.pos + i + 1]
                       ELSE r.buf[i]
  BY ShortWrite
<1>7. PICK x \in Int : x = IF Len(old) + Len(p) <= RingSize THEN k
                           ELSE Len(old) + Len(p) - RingSize + k
  <2>1. (IF Len(old) + Len(p) <= RingSize THEN k ELSE Len(old) + Len(p) - RingSize + k) \in Int
    BY <1>1, <1>2, <1>5
  <2> QED
    BY <2>1
<1>8. PICK i \in Int : i = IF ~w.full THEN k - 1
                           ELSE IF k <= RingSize - w.pos THEN w.pos + k - 1
                           ELSE k - 1 - (RingSize - w.pos)
  BY <1>1, <1>5
<1>9. PICK o \in Int : o = IF ~r.full THEN x - 1
                           ELSE IF x <= RingSize - r.pos THEN r.pos + x - 1
                           ELSE x - 1 - (RingSize - r.pos)
  <2>1. /\ x - 1 \in Int /\ r.pos + x - 1 \in Int
        /\ x - 1 - (RingSize - r.pos) \in Int
    BY <1>1
  <2> QED
    BY <2>1
<1> DEFINE Put(c) == r.pos <= c /\ c < r.pos + Len(p)
           Wrapped(c) == c < Len(p) - (RingSize - r.pos)
<1>10. /\ (IF w.full THEN RingSize ELSE w.pos) =
              (IF Len(old) + Len(p) <= RingSize THEN Len(old) + Len(p) ELSE RingSize)
       /\ 0 < x /\ x <= Len(old) + Len(p) /\ 0 <= i /\ i < RingSize
       /\ x <= Len(old) => ~Put(i) /\ ~Wrapped(i) /\ i = o
       /\ x > Len(old) => \/ Put(i) /\ i - r.pos + 1 = x - Len(old)
                          \/ ~Put(i) /\ Wrapped(i) /\ RingSize - r.pos + i + 1 = x - Len(old)
  <2> DEFINE v == Len(Snapshot(w))
  <2>1. Len(old) = r.pos \/ Len(old) = RingSize
    BY <1>3
  <2>2. v \in Nat /\ k \in Nat /\ 0 < k /\ k <= v
    BY <1>1, <1>4, <1>5
  <2>3. w.full <=> v = RingSize
    BY <1>1, <1>4, <1>6
  <2>4. r.full <=> Len(old) = RingSize
    BY <1>1, <1>3
  <2>5. v = IF Len(old) = RingSize \/ Len(p) >= RingSize - r.pos THEN RingSize ELSE w.pos
    BY <1>4, <1>6, <2>4
  <2>6. i = IF v # RingSize THEN k - 1
            ELSE IF k <= RingSize - w.pos THEN w.pos + k - 1
            ELSE k - 1 - (RingSize - w.pos)
    BY <1>8, <2>3
  <2>7. o = IF Len(old) # RingSize THEN x - 1
            ELSE IF x <= RingSize - r.pos THEN r.pos + x - 1
            ELSE x - 1 - (RingSize - r.pos)
    BY <1>9, <2>4
  <2>8. w.pos = IF Len(p) < RingSize - r.pos THEN r.pos + Len(p)
                ELSE Len(p) - (RingSize - r.pos)
    BY <1>6
  <2>9. Placed(RingSize, Len(p), r.pos, w.pos, Len(old), v, k, x, i, o)
    <3>1. Placing(RingSize, Len(p), r.pos, w.pos, Len(old), v, k, x, i, o)
      BY <1>1, <1>2, <1>7, <2>1, <2>2, <2>5, <2>6, <2>7, <2>8, SMTT(30) DEF Placing
    <3> QED
      BY <3>1, Places
  <2> QED
    BY <1>4, <2>9 DEF Placed
<1>11. Snapshot(w)[k] = w.buf[i]
  BY <1>8, SnapshotElements
<1>12. w.buf[i] = IF Put(i) THEN p[i - r.pos + 1]
                  ELSE IF Wrapped(i) THEN p[RingSize - r.pos + i + 1]
                  ELSE r.buf[i]
  <2>1. i \in 0 .. RingSize - 1
    BY <1>1, <1>10
  <2>2. \A c \in 0 .. RingSize - 1 :
           w.buf[c] = IF Put(c) THEN p[c - r.pos + 1]
                      ELSE IF Wrapped(c) THEN p[RingSize - r.pos + c + 1]
                      ELSE r.buf[c]
    BY <1>6
  <2> HIDE DEF Put, Wrapped
  <2> QED
    BY <2>1, <2>2
<1>13. (old \o p)[x] = IF x <= Len(old) THEN old[x] ELSE p[x - Len(old)]
  BY <1>2, <1>10
<1>14. CASE x <= Len(old)
  <2>1. old[x] = r.buf[o]
    BY <1>9, <1>10, <1>14, SnapshotElements
  <2> QED
    BY <1>4, <1>7, <1>10, <1>11, <1>12, <1>13, <1>14, <2>1 DEF Shifted
<1>15. CASE x > Len(old)
  <2>1. w.buf[i] = p[x - Len(old)]
    BY <1>10, <1>12, <1>15
  <2>2. ~(x <= Len(old))
    BY <1>2, <1>15
  <2> QED
    BY <1>4, <1>7, <1>10, <1>11, <1>13, <2>1, <2>2 DEF Shifted
<1> QED
  BY <1>2, <1>14, <1>15

\* ring.go: "RingBuffer stores the newest bytes written to it."
THEOREM SnapshotKeepsNewest ==
    ASSUME NEW r \in Ring, NEW p \in Seq(Byte)
    PROVE  Snapshot(RingWrite(r, p)) = Newest(Snapshot(r) \o p, RingSize)
<1>1. CASE Len(p) = 0
  <2>1. RingWrite(r, p) = r
    BY <1>1 DEF RingWrite
  <2>2. Snapshot(r) \o p = Snapshot(r)
    BY <1>1, SnapshotType
  <2>3. Len(Snapshot(r)) <= RingSize
    BY SnapshotType, RingAssumption DEF Ring
  <2> QED
    BY <2>1, <2>2, <2>3 DEF Newest
<1>2. CASE Len(p) # 0
  <2>1. PICK w \in Ring : w = RingWrite(r, p)
    BY RingWriteType
  <2>2. PICK old \in Seq(Byte) : old = Snapshot(r)
    BY SnapshotType
  <2>3. PICK new \in Seq(Byte) : new = Snapshot(w)
    BY SnapshotType
  <2>4. PICK all \in Seq(Byte) : all = old \o p /\ Len(all) = Len(old) + Len(p)
    <3>1. old \o p \in Seq(Byte) /\ Len(old \o p) = Len(old) + Len(p)
      OBVIOUS
    <3> QED
      BY <3>1
  <2>5. RingSize \in Nat \ {0} /\ Len(p) \in Nat /\ Len(old) \in Nat /\ Len(new) \in Nat
    BY RingAssumption
  <2>6. PICK want \in Seq(Byte) : want = Newest(all, RingSize)
    BY <2>5, NewestElements
  <2>7. /\ Len(want) = IF Len(all) <= RingSize THEN Len(all) ELSE RingSize
        /\ \A k \in 1 .. Len(want) :
              want[k] = all[IF Len(all) <= RingSize THEN k ELSE Len(all) - RingSize + k]
    BY <2>5, <2>6, NewestElements
  <2>8. \A k \in 1 .. Len(new) :
           /\ Len(new) = IF Len(all) <= RingSize THEN Len(all) ELSE RingSize
           /\ new[k] = all[IF Len(all) <= RingSize THEN k ELSE Len(all) - RingSize + k]
    <3> SUFFICES ASSUME NEW k \in 1 .. Len(new)
                 PROVE  /\ Len(new) = IF Len(all) <= RingSize THEN Len(all) ELSE RingSize
                        /\ new[k] = all[IF Len(all) <= RingSize THEN k
                                        ELSE Len(all) - RingSize + k]
      OBVIOUS
    <3>1. k \in 1 .. Len(Snapshot(w))
      BY <2>3
    <3>2. Shifted(w, old, p, k)
      <4>1. CASE Len(p) >= RingSize
        BY <2>1, <3>1, <4>1, ShiftLong
      <4>2. CASE Len(p) < RingSize
        BY <1>2, <2>1, <2>2, <3>1, <4>2, ShiftShort
      <4> QED
        BY <2>5, <4>1, <4>2
    <3>3. Len(Snapshot(w)) = IF Len(old) + Len(p) <= RingSize THEN Len(old) + Len(p)
                             ELSE RingSize
      BY <3>2 DEF Shifted
    <3>4. Snapshot(w)[k] = (old \o p)[IF Len(old) + Len(p) <= RingSize THEN k
                                      ELSE Len(old) + Len(p) - RingSize + k]
      BY <3>2 DEF Shifted
    <3>5. CASE Len(all) <= RingSize
      <4>1. Len(old) + Len(p) <= RingSize
        BY <2>4, <3>5
      <4> QED
        BY <2>3, <2>4, <3>3, <3>4, <3>5, <4>1
    <3>6. CASE ~(Len(all) <= RingSize)
      <4>1. ~(Len(old) + Len(p) <= RingSize)
        BY <2>4, <3>6
      <4> QED
        BY <2>3, <2>4, <3>3, <3>4, <3>6, <4>1
    <3> QED
      BY <3>5, <3>6
  <2>9. Len(new) # 0
    <3>1. Len(new) = IF w.full THEN RingSize ELSE w.pos
      BY <2>3, SnapshotType
    <3>2. CASE Len(p) >= RingSize
      BY <2>1, <2>5, <3>1, <3>2, LongWrite
    <3>3. CASE Len(p) < RingSize
      <4>1. /\ w.pos = IF Len(p) < RingSize - r.pos THEN r.pos + Len(p)
                       ELSE Len(p) - (RingSize - r.pos)
            /\ w.full <=> (r.full \/ Len(p) >= RingSize - r.pos)
        BY <1>2, <2>1, <3>3, ShortWrite
      <4>2. r.pos \in Nat
        BY RingAssumption DEF Ring
      <4> QED
        BY <1>2, <2>5, <3>1, <4>1, <4>2
    <3> QED
      BY <2>5, <3>2, <3>3
  <2>10. Len(new) = Len(want) /\ \A k \in 1 .. Len(new) : new[k] = want[k]
    BY <2>5, <2>7, <2>8, <2>9
  <2>11. new = want
    BY <2>10, SameElements
  <2> QED
    BY <2>1, <2>2, <2>3, <2>4, <2>6, <2>11
<1> QED
  BY <1>1, <1>2
-----------------------------------------------------------------------------
(* The hub of a host.                                                      *)

(* A hub that is what it looks like.                                       *)
HubRecord ==
    [gen : 0 .. MaxGen, ring : Ring, seq : 0 .. MaxOut, pending : Seq(Output),
     timer : {"nil", "armed", "fired"}, resizes : Nat, closed : BOOLEAN]

\* n bytes of generation g that end at position seq.
Ending(g, seq, n) == [i \in 1 .. n |-> <<g, seq - n + i>>]

Kept(seq) == IF seq <= RingSize THEN seq ELSE RingSize

(* Ring, position and coalescing buffer are in step.                       *)
InStep(h) ==
    /\ Snapshot(h.ring) = Ending(h.gen, h.seq, Kept(h.seq))
    /\ Len(h.pending) <= h.seq
    /\ h.pending = Ending(h.gen, h.seq, Len(h.pending))

HubInv == hub \in HubRecord /\ InStep(hub)
-----------------------------------------------------------------------------
\* The constants that arithmetic is done with.
LEMMA Bounds ==
    /\ RingSize \in Nat \ {0} /\ MaxOut \in Nat /\ MaxGen \in Nat /\ MaxChunk \in Nat
    /\ FlushBytes \in Nat \ {0}
BY RingAssumption, StreamAssumption

\* No host writes more than the first one may.
LEMMA WriteInBounds ==
    ASSUME HubInv, NEW n \in 1 .. MaxChunk, Write(n)
    PROVE  hub.seq + n <= MaxOut
<1>1. hub.gen \in 0 .. MaxGen /\ hub.seq \in 0 .. MaxOut
  BY DEF HubInv, HubRecord
<1>2. hub.seq + n <= MaxOut \/ hub.seq + n <= MaxAfter
  BY DEF Write
<1> QED
  BY <1>1, <1>2, StreamAssumption

\* The lesser of two numbers.
LEMMA MinOfTwo ==
    ASSUME NEW a \in Nat, NEW b \in Nat
    PROVE  Min({a, b}) = IF a <= b THEN a ELSE b
<1>1. CASE a <= b
  <2>1. a \in {a, b} /\ \A y \in {a, b} : a <= y
    BY <1>1
  <2>2. \A x \in {a, b} : (\A y \in {a, b} : x <= y) => x = a
    BY <1>1
  <2> QED
    BY <1>1, <2>1, <2>2 DEF Min
<1>2. CASE ~(a <= b)
  <2>1. b \in {a, b} /\ \A y \in {a, b} : b <= y
    BY <1>2
  <2>2. \A x \in {a, b} : (\A y \in {a, b} : x <= y) => x = b
    BY <1>2
  <2> QED
    BY <1>2, <2>1, <2>2 DEF Min
<1> QED
  BY <1>1, <1>2

\* Bytes of one host in a row.
LEMMA EndingFacts ==
    ASSUME NEW g \in 0 .. MaxGen, NEW seq \in 0 .. MaxOut, NEW n \in 0 .. seq
    PROVE  /\ Ending(g, seq, n) \in Seq(Output) /\ Ending(g, seq, n) \in Seq(Byte)
           /\ Len(Ending(g, seq, n)) = n
           /\ \A i \in 1 .. n : Ending(g, seq, n)[i] = <<g, seq - n + i>>
<1>1. \A i \in 1 .. n : seq - n + i \in 1 .. MaxOut
  BY Bounds
<1>2. \A i \in 1 .. n : <<g, seq - n + i>> \in Output
  BY <1>1 DEF Output
<1>3. \A i \in 1 .. n : <<g, seq - n + i>> \in Byte
  BY <1>2, StreamAssumption
<1> QED
  BY <1>2, <1>3 DEF Ending

\* A run of bytes goes on where the last one ended.
LEMMA EndingGrows ==
    ASSUME NEW g \in 0 .. MaxGen, NEW seq \in 0 .. MaxOut, NEW m \in 0 .. seq,
           NEW n \in Nat, seq + n \in 0 .. MaxOut
    PROVE  Ending(g, seq, m) \o Ending(g, seq + n, n) = Ending(g, seq + n, m + n)
<1>1. n \in 0 .. seq + n /\ m + n \in 0 .. seq + n
  BY Bounds
<1> DEFINE a == Ending(g, seq, m)
           b == Ending(g, seq + n, n)
           c == Ending(g, seq + n, m + n)
<1>2. /\ a \in Seq(Byte) /\ Len(a) = m
      /\ \A i \in 1 .. m : a[i] = <<g, seq - m + i>>
  BY EndingFacts
<1>3. /\ b \in Seq(Byte) /\ Len(b) = n
      /\ \A i \in 1 .. n : b[i] = <<g, (seq + n) - n + i>>
  BY <1>1, EndingFacts
<1>4. /\ c \in Seq(Byte) /\ Len(c) = m + n
      /\ \A i \in 1 .. m + n : c[i] = <<g, (seq + n) - (m + n) + i>>
  BY <1>1, EndingFacts
<1> HIDE DEF a, b, c
<1>5. a \o b \in Seq(Byte) /\ Len(a \o b) = m + n
  <2>1. a \in Seq(Byte) /\ b \in Seq(Byte)
    BY <1>2, <1>3
  <2>2. a \o b \in Seq(Byte) /\ Len(a \o b) = Len(a) + Len(b)
    BY <2>1
  <2> QED
    BY <1>2, <1>3, <2>2
<1>6. ASSUME NEW i \in 1 .. m + n PROVE (a \o b)[i] = c[i]
  <2>1. CASE i <= m
    <3>1. (a \o b)[i] = a[i] /\ i \in 1 .. m
      BY <1>2, <1>3, <2>1
    <3>2. (seq + n) - (m + n) + i = seq - m + i
      BY <2>1
    <3> QED
      BY <1>2, <1>4, <3>1, <3>2
  <2>2. CASE ~(i <= m)
    <3>1. (a \o b)[i] = b[i - m] /\ i - m \in 1 .. n
      BY <1>2, <1>3, <2>2
    <3>2. (seq + n) - (m + n) + i = (seq + n) - n + (i - m)
      BY <2>2
    <3> QED
      BY <1>3, <1>4, <3>1, <3>2
  <2> QED
    BY <2>1, <2>2
<1>7. a \o b = c
  BY <1>4, <1>5, <1>6, SameElements
<1> QED
  BY <1>7 DEF a, b, c

\* The newest of a run of bytes are a run with the same end.
LEMMA EndingNewest ==
    ASSUME NEW g \in 0 .. MaxGen, NEW seq \in 0 .. MaxOut, NEW n \in 0 .. seq
    PROVE  Newest(Ending(g, seq, n), RingSize) =
               Ending(g, seq, IF n <= RingSize THEN n ELSE RingSize)
<1> DEFINE k == IF n <= RingSize THEN n ELSE RingSize
           s == Ending(g, seq, n)
           t == Newest(s, RingSize)
           u == Ending(g, seq, k)
<1>1. k \in 0 .. seq /\ k <= n
  BY Bounds
<1>2. s \in Seq(Byte) /\ Len(s) = n /\ \A i \in 1 .. n : s[i] = <<g, seq - n + i>>
  BY EndingFacts
<1>3. u \in Seq(Byte) /\ Len(u) = k /\ \A i \in 1 .. k : u[i] = <<g, seq - k + i>>
  BY <1>1, EndingFacts
<1> HIDE DEF s, u
<1>4. /\ t \in Seq(Byte) /\ Len(t) = IF Len(s) <= RingSize THEN Len(s) ELSE RingSize
      /\ \A i \in 1 .. Len(t) :
            t[i] = s[IF Len(s) <= RingSize THEN i ELSE Len(s) - RingSize + i]
  BY <1>2, Bounds, NewestElements
<1> HIDE DEF t
<1>5. Len(t) = k
  BY <1>2, <1>4
<1>6. ASSUME NEW i \in 1 .. k PROVE t[i] = u[i]
  <2>1. CASE n <= RingSize
    BY <1>2, <1>3, <1>4, <1>5, <2>1
  <2>2. CASE ~(n <= RingSize)
    <3>1. k = RingSize /\ n - RingSize + i \in 1 .. n
      BY <2>2, Bounds
    <3>2. t[i] = s[n - RingSize + i]
      BY <1>2, <1>4, <1>5, <2>2
    <3>3. s[n - RingSize + i] = <<g, seq - n + (n - RingSize + i)>>
      BY <1>2, <3>1
    <3>4. seq - n + (n - RingSize + i) = seq - k + i
      BY <3>1, Bounds
    <3> QED
      BY <1>3, <3>2, <3>3, <3>4
  <2> QED
    BY <2>1, <2>2
<1>7. t = u
  BY <1>3, <1>4, <1>5, <1>6, SameElements
<1> QED
  BY <1>7 DEF s, t, u
-----------------------------------------------------------------------------
\* Hub.Write keeps ring, position and coalescing buffer in step.
LEMMA WrittenInStep ==
    ASSUME HubInv, NEW n \in 1 .. MaxChunk, hub.seq + n <= MaxOut
    PROVE  Written(hub, n) \in HubRecord /\ InStep(Written(hub, n))
<1> DEFINE out == [i \in 1 .. n |-> <<hub.gen, hub.seq + i>>]
           seq == hub.seq + n
           h == Written(hub, n)
           m == Kept(hub.seq)
<1>1. /\ hub.gen \in 0 .. MaxGen /\ hub.seq \in 0 .. MaxOut /\ hub.ring \in Ring
      /\ hub.pending \in Seq(Output) /\ n \in Nat
  BY Bounds DEF HubInv, HubRecord
<1>2. seq \in 0 .. MaxOut /\ n \in 0 .. seq /\ m \in 0 .. hub.seq
  BY <1>1, Bounds DEF Kept
<1>3. out = Ending(hub.gen, seq, n)
  <2>1. \A i \in 1 .. n : (hub.seq + n) - n + i = hub.seq + i
    BY <1>1
  <2> QED
    BY <2>1 DEF Ending
<1>4. out \in Seq(Byte) /\ out \in Seq(Output) /\ Len(out) = n
  <2>1. n \in 0 .. seq /\ seq \in 0 .. MaxOut /\ hub.gen \in 0 .. MaxGen
    BY <1>1, <1>2
  <2> HIDE DEF seq, out
  <2>2. /\ Ending(hub.gen, seq, n) \in Seq(Output) /\ Ending(hub.gen, seq, n) \in Seq(Byte)
        /\ Len(Ending(hub.gen, seq, n)) = n
    BY <2>1, EndingFacts
  <2> QED
    BY <1>3, <2>2
<1> DEFINE ring == RingWrite(hub.ring, out)
           pending == hub.pending \o out
           timer == IF Len(hub.pending) + n < FlushBytes /\ hub.timer = "nil"
                    THEN "armed" ELSE hub.timer
<1>5. /\ h.gen = hub.gen /\ h.seq = seq /\ h.ring = RingWrite(hub.ring, out)
      /\ h.pending = hub.pending \o out
      /\ h.timer \in {hub.timer, "armed"} /\ h.resizes = hub.resizes /\ h.closed = hub.closed
      /\ h = [gen |-> h.gen, ring |-> h.ring, seq |-> h.seq, pending |-> h.pending,
              timer |-> h.timer, resizes |-> h.resizes, closed |-> h.closed]
  <2>1. h = [hub EXCEPT !.ring = ring, !.seq = seq, !.pending = pending, !.timer = timer]
    BY DEF Written
  <2>2. timer \in {hub.timer, "armed"}
    OBVIOUS
  <2> HIDE DEF h, ring, seq, pending, timer
  <2>3. hub = [gen |-> hub.gen, ring |-> hub.ring, seq |-> hub.seq, pending |-> hub.pending,
               timer |-> hub.timer, resizes |-> hub.resizes, closed |-> hub.closed]
    BY DEF HubInv, HubRecord
  <2>4. h = [gen |-> hub.gen, ring |-> ring, seq |-> seq, pending |-> pending,
             timer |-> timer, resizes |-> hub.resizes, closed |-> hub.closed]
    BY <2>1, <2>3
  <2> QED
    BY <2>2, <2>4 DEF ring, pending
<1> HIDE DEF out, h
<1>6. h.ring \in Ring /\ Snapshot(h.ring) = Newest(Snapshot(hub.ring) \o out, RingSize)
  BY <1>1, <1>4, <1>5, RingWriteType, SnapshotKeepsNewest
<1>7. Snapshot(hub.ring) \o out = Ending(hub.gen, seq, m + n)
  <2>1. Snapshot(hub.ring) = Ending(hub.gen, hub.seq, m)
    BY DEF HubInv, InStep
  <2>2. Ending(hub.gen, hub.seq, m) \o Ending(hub.gen, hub.seq + n, n)
           = Ending(hub.gen, hub.seq + n, m + n)
    BY <1>1, <1>2, EndingGrows
  <2> QED
    BY <1>3, <2>1, <2>2
<1>8. Snapshot(h.ring) = Ending(h.gen, h.seq, Kept(h.seq))
  <2>1. m + n \in 0 .. seq
    BY <1>1, <1>2
  <2>2. Snapshot(h.ring) = Ending(hub.gen, seq, IF m + n <= RingSize THEN m + n ELSE RingSize)
    BY <1>1, <1>2, <1>6, <1>7, <2>1, EndingNewest
  <2>3. (IF m + n <= RingSize THEN m + n ELSE RingSize) = Kept(seq)
    BY <1>1, Bounds DEF Kept
  <2> QED
    BY <1>5, <2>2, <2>3
<1>9. /\ h.pending \in Seq(Output) /\ Len(h.pending) = Len(hub.pending) + n
      /\ Len(h.pending) <= h.seq
  BY <1>1, <1>2, <1>4, <1>5 DEF HubInv, InStep
<1>10. h.pending = Ending(h.gen, h.seq, Len(h.pending))
  <2>1. Len(hub.pending) \in 0 .. hub.seq
    BY <1>1 DEF HubInv, InStep
  <2>2. hub.pending \o out = Ending(hub.gen, seq, Len(hub.pending) + n)
    <3>1. hub.pending = Ending(hub.gen, hub.seq, Len(hub.pending))
      BY DEF HubInv, InStep
    <3>2. Ending(hub.gen, hub.seq, Len(hub.pending)) \o Ending(hub.gen, hub.seq + n, n)
             = Ending(hub.gen, hub.seq + n, Len(hub.pending) + n)
      BY <1>1, <1>2, <2>1, EndingGrows
    <3> QED
      BY <1>3, <3>1, <3>2
  <2>3. /\ h.pending = hub.pending \o out /\ h.gen = hub.gen /\ h.seq = seq
        /\ Len(h.pending) = Len(hub.pending) + n
    BY <1>5, <1>9
  <2> QED
    BY <2>2, <2>3
<1>11. h \in HubRecord
  <2>1. hub.timer \in {"nil", "armed", "fired"} /\ hub.resizes \in Nat /\ hub.closed \in BOOLEAN
    BY DEF HubInv, HubRecord
  <2> QED
    BY <1>1, <1>2, <1>5, <1>6, <1>9, <2>1 DEF HubRecord
<1> QED
  BY <1>8, <1>9, <1>10, <1>11 DEF h, InStep

\* A flush keeps the record of the hub.
LEMMA FlushedType ==
    ASSUME NEW h \in HubRecord
    PROVE  Flushed(h) \in HubRecord
<1>1. Flushed(h) = [gen |-> h.gen, ring |-> h.ring, seq |-> h.seq, pending |-> <<>>,
                    timer |-> "nil", resizes |-> h.resizes, closed |-> h.closed]
  <2>1. h = [gen |-> h.gen, ring |-> h.ring, seq |-> h.seq, pending |-> h.pending,
             timer |-> h.timer, resizes |-> h.resizes, closed |-> h.closed]
    BY DEF HubRecord
  <2>2. Flushed(h) = [h EXCEPT !.pending = <<>>, !.timer = "nil"]
    BY DEF Flushed
  <2> QED
    BY <2>1, <2>2
<1>2. <<>> \in Seq(Output)
  OBVIOUS
<1> QED
  BY <1>1, <1>2 DEF HubRecord

\* A flush takes the coalesced bytes and the timer, and nothing else.
LEMMA FlushedInStep ==
    ASSUME HubInv
    PROVE  Flushed(hub) \in HubRecord /\ InStep(Flushed(hub))
<1>1. /\ Flushed(hub).gen = hub.gen /\ Flushed(hub).seq = hub.seq
      /\ Flushed(hub).ring = hub.ring /\ Flushed(hub).pending = <<>>
  BY DEF HubInv, HubRecord, Flushed
<1>2. Flushed(hub) \in HubRecord
  BY FlushedType DEF HubInv
<1>3. hub.seq \in Nat
  BY Bounds DEF HubInv, HubRecord
<1>4. Ending(hub.gen, hub.seq, 0) = <<>>
  BY DEF Ending
<1> QED
  BY <1>1, <1>2, <1>3, <1>4 DEF HubInv, InStep

\* A hub starts in step.
LEMMA NewHubInStep ==
    ASSUME NEW g \in 0 .. MaxGen
    PROVE  NewHub(g) \in HubRecord /\ InStep(NewHub(g))
<1>1. NewHub(g) \in HubRecord
  BY Bounds, EmptyRingType DEF NewHub, HubRecord
<1>2. Kept(0) = 0 /\ Ending(g, 0, 0) = <<>>
  BY Bounds DEF Kept, Ending
<1>3. Snapshot(EmptyRing) = <<>>
  BY EmptyRingType
<1> QED
  BY <1>1, <1>2, <1>3 DEF NewHub, InStep

\* The flush of a full buffer in Write.
LEMMA WrittenFlushed ==
    ASSUME HubInv, NEW n \in 1 .. MaxChunk, hub.seq + n <= MaxOut
    PROVE  Flushed(Written(hub, n)) \in HubRecord /\ InStep(Flushed(Written(hub, n)))
<1> DEFINE h == Written(hub, n)
<1>1. h \in HubRecord /\ InStep(h)
  BY WrittenInStep
<1> HIDE DEF h
<1>2. /\ Flushed(h).gen = h.gen /\ Flushed(h).seq = h.seq
      /\ Flushed(h).ring = h.ring /\ Flushed(h).pending = <<>>
  BY <1>1 DEF HubRecord, Flushed
<1>3. Flushed(h) \in HubRecord
  BY <1>1, FlushedType
<1>4. h.seq \in Nat /\ Ending(h.gen, h.seq, 0) = <<>>
  BY <1>1, Bounds DEF HubRecord, Ending
<1>5. Flushed(h) \in HubRecord /\ InStep(Flushed(h))
  BY <1>1, <1>2, <1>3, <1>4 DEF InStep
<1> QED
  BY <1>5 DEF h

\* The first hub is in step.
LEMMA InitInStep == Init => HubInv
<1>1. 0 \in 0 .. MaxGen
  BY Bounds
<1> QED
  BY <1>1, NewHubInStep DEF Init, HubInv

\* Every step keeps the hub in step.
LEMMA StepInStep == HubInv /\ [Next]_vars => HubInv'
<1> SUFFICES ASSUME HubInv, [Next]_vars PROVE HubInv'
  OBVIOUS
<1>1. ASSUME NEW n \in 1 .. MaxChunk, Write(n) PROVE HubInv'
  <2>1. hub.seq + n <= MaxOut /\ hub' \in {Flushed(Written(hub, n)), Written(hub, n)}
    BY <1>1, WriteInBounds DEF Write
  <2> QED
    BY <2>1, WrittenInStep, WrittenFlushed DEF HubInv
<1>2. CASE TimerFires
  <2>1. hub' = [hub EXCEPT !.timer = "fired"]
    BY <1>2 DEF TimerFires
  <2>2. hub' \in HubRecord
    BY <2>1 DEF HubInv, HubRecord
  <2>3. hub'.gen = hub.gen /\ hub'.seq = hub.seq /\ hub'.ring = hub.ring
        /\ hub'.pending = hub.pending
    BY <2>1 DEF HubInv, HubRecord
  <2> QED
    BY <2>2, <2>3 DEF HubInv, InStep
<1>3. CASE FlushCallback
  BY <1>3, FlushedInStep DEF FlushCallback, HubInv
<1>4. CASE BroadcastResize
  <2>1. hub' = [hub EXCEPT !.resizes = hub.resizes + 1]
    BY <1>4 DEF BroadcastResize
  <2>2. hub' \in HubRecord
    BY <2>1 DEF HubInv, HubRecord
  <2>3. hub'.gen = hub.gen /\ hub'.seq = hub.seq /\ hub'.ring = hub.ring
        /\ hub'.pending = hub.pending
    BY <2>1 DEF HubInv, HubRecord
  <2> QED
    BY <2>2, <2>3 DEF HubInv, InStep
<1>5. CASE Close
  <2> DEFINE h == Flushed(hub)
  <2>1. h \in HubRecord /\ InStep(h)
    BY FlushedInStep
  <2>2. hub' = [h EXCEPT !.closed = TRUE]
    BY <1>5 DEF Close
  <2> HIDE DEF h
  <2>3. hub' \in HubRecord
    BY <2>1, <2>2 DEF HubRecord
  <2>4. hub'.gen = h.gen /\ hub'.seq = h.seq /\ hub'.ring = h.ring /\ hub'.pending = h.pending
    BY <2>1, <2>2 DEF HubRecord
  <2> QED
    BY <2>1, <2>3, <2>4 DEF HubInv, InStep
<1>6. CASE ReplaceHost
  <2>1. hub.gen + 1 \in 0 .. MaxGen /\ hub' = NewHub(hub.gen + 1)
    BY <1>6, Bounds DEF ReplaceHost, HubInv, HubRecord
  <2> QED
    BY <2>1, NewHubInStep DEF HubInv
<1>7. ASSUME NEW c \in Conns, Attach(c) PROVE HubInv'
  BY <1>7, FlushedInStep DEF Attach, AttachHub, HubInv
<1>8. CASE UNCHANGED hub
  BY <1>8 DEF HubInv
<1>9. ASSUME NEW c \in Conns, Pump(c) \/ PumpEnds(c) \/ Leave(c) \/ Unsubscribe(c)
      PROVE UNCHANGED hub
  BY <1>9 DEF Pump, PumpEnds, Leave, Unsubscribe
<1>10. CASE Disconnect \/ Receive \/ UNCHANGED vars
  BY <1>8, <1>10 DEF Disconnect, Receive, vars
<1> QED
  BY <1>1, <1>2, <1>3, <1>4, <1>5, <1>6, <1>7, <1>8, <1>9, <1>10 DEF Next

\* What a newcomer can be given, and what is about to be broadcast, are always the
\* newest bytes of the host (ring.go: "RingBuffer stores the newest bytes written to
\* it"; Hub.Write, flushLocked).
THEOREM HubKeepsNewest == Spec => []RingHoldsNewest
<1>1. HubInv => RingHoldsNewest
  <2> SUFFICES ASSUME HubInv PROVE RingHoldsNewest
    OBVIOUS
  <2>1. hub.seq \in Nat
    BY Bounds DEF HubInv, HubRecord
  <2>2. Min({hub.seq, RingSize}) = Kept(hub.seq)
    BY <2>1, Bounds, MinOfTwo DEF Kept
  <2> QED
    BY <2>2 DEF HubInv, InStep, RingHoldsNewest, Ending
<1> QED
  BY <1>1, InitInStep, StepInStep, PTL DEF Spec
-----------------------------------------------------------------------------
(* Who closes a channel.                                                   *)

\* A record with the fields of a subscriber.
Shape(s) ==
    s = [gen |-> s.gen, registered |-> s.registered, swapped |-> s.swapped,
         leaving |-> s.leaving, closes |-> s.closes, q |-> s.q,
         bufBytes |-> s.bufBytes, need |-> s.need, lossy |-> s.lossy]

\* A subscriber's channel is open until whoever swapped has closed it: the hub does
\* so at once, an unsub in its second half.
Lifecycle(s) ==
    /\ Shape(s)
    /\ s.registered \in BOOLEAN /\ s.swapped \in BOOLEAN /\ s.leaving \in BOOLEAN
    /\ s.leaving => s.swapped /\ s.closes = 0
    /\ ~s.leaving /\ s.swapped => ~s.registered /\ s.closes = 1
    /\ ~s.swapped => s.registered /\ s.closes = 0

ChannelInv ==
    /\ DOMAIN sub = Conns /\ sub = [c \in Conns |-> sub[c]]
    /\ \A c \in Conns : Lifecycle(sub[c])
    /\ hub.closed => \A c \in Conns : ~sub[c].registered

\* Queueing does not touch the life of a subscriber.
Queued(s, t) ==
    /\ Shape(t)
    /\ t.registered = s.registered /\ t.swapped = s.swapped
    /\ t.leaving = s.leaving /\ t.closes = s.closes

\* Dropping frames is a matter of the queue only.
LEMMA DroppedQueued ==
    ASSUME NEW s, Shape(s), NEW n, NEW track
    PROVE  Queued(s, Dropped(s, n, track))
<1> DEFINE q == SubSeq(s.q, n + 1, Len(s.q))
           b == s.bufBytes - FramesLen(SubSeq(s.q, 1, n))
           need == s.need \/ (track /\ n > 0)
           lossy == s.lossy \/ (track /\ n > 0)
<1>1. Dropped(s, n, track) = [s EXCEPT !.q = q, !.bufBytes = b, !.need = need, !.lossy = lossy]
  BY DEF Dropped
<1> HIDE DEF q, b, need, lossy
<1>2. Dropped(s, n, track) =
        [gen |-> s.gen, registered |-> s.registered, swapped |-> s.swapped,
         leaving |-> s.leaving, closes |-> s.closes, q |-> q,
         bufBytes |-> b, need |-> need, lossy |-> lossy]
  BY <1>1 DEF Shape
<1> QED
  BY <1>2 DEF Queued, Shape

\* So is counting again,
LEMMA RecountedQueued ==
    ASSUME NEW s, Shape(s)
    PROVE  Queued(s, Recounted(s))
<1>1. [s EXCEPT !.bufBytes = 0] =
        [gen |-> s.gen, registered |-> s.registered, swapped |-> s.swapped,
         leaving |-> s.leaving, closes |-> s.closes, q |-> s.q,
         bufBytes |-> 0, need |-> s.need, lossy |-> s.lossy]
  BY DEF Shape
<1>2. Queued(s, [s EXCEPT !.bufBytes = 0])
  BY <1>1 DEF Queued, Shape
<1>3. Queued(s, s)
  BY DEF Queued
<1> QED
  BY <1>2, <1>3 DEF Recounted

\* adding a frame,
LEMMA PushedQueued ==
    ASSUME NEW s, Shape(s), NEW f
    PROVE  Queued(s, Pushed(s, f))
<1> DEFINE q == Append(s.q, f)
           b == s.bufBytes + FrameLen(f)
<1>1. Pushed(s, f) = [s EXCEPT !.q = q, !.bufBytes = b]
  BY DEF Pushed
<1> HIDE DEF q, b
<1>2. Pushed(s, f) =
        [gen |-> s.gen, registered |-> s.registered, swapped |-> s.swapped,
         leaving |-> s.leaving, closes |-> s.closes, q |-> q,
         bufBytes |-> b, need |-> s.need, lossy |-> s.lossy]
  BY <1>1 DEF Shape
<1> QED
  BY <1>2 DEF Queued, Shape

\* clearing,
LEMMA ClearedQueued ==
    ASSUME NEW s, Shape(s)
    PROVE  Queued(s, Cleared(s))
<1> DEFINE q == <<>>
           b == 0
           need == FALSE
<1>1. Cleared(s) = [s EXCEPT !.q = q, !.bufBytes = b, !.need = need]
  BY DEF Cleared
<1> HIDE DEF q, b, need
<1>2. Cleared(s) =
        [gen |-> s.gen, registered |-> s.registered, swapped |-> s.swapped,
         leaving |-> s.leaving, closes |-> s.closes, q |-> q,
         bufBytes |-> b, need |-> need, lossy |-> s.lossy]
  BY <1>1 DEF Shape
<1> QED
  BY <1>2 DEF Queued, Shape

\* sending,
LEMMA SendQueued ==
    ASSUME NEW s, Shape(s), NEW f, NEW track \in BOOLEAN, NEW enforceCap \in BOOLEAN
    PROVE  Queued(s, Send(s, f, track, enforceCap))
<1> DEFINE t == Recounted(s)
           n == Evicted(t, FrameLen(f), enforceCap)
           u == Dropped(t, n, track)
           v == Pushed(u, f)
<1>1. Send(s, f, track, enforceCap) \in {s, v}
  BY DEF Send
<1>2. Queued(s, t)
  BY RecountedQueued
<1> HIDE DEF t, n
<1>3. Queued(t, u)
  BY <1>2, DroppedQueued DEF Queued
<1> HIDE DEF u
<1>4. Queued(u, v)
  BY <1>3, PushedQueued DEF Queued
<1> HIDE DEF v
<1>5. Queued(s, v)
  BY <1>2, <1>3, <1>4 DEF Queued
<1>6. Queued(s, s)
  BY DEF Queued
<1> QED
  BY <1>1, <1>5, <1>6

\* and what the hub does for one frame.
LEMMA EnqueueQueued ==
    ASSUME NEW s, Shape(s), NEW f, NEW snapshot
    PROVE  Queued(s, Enqueue(s, f, snapshot))
<1>1. Queued(s, s)
  BY DEF Queued
<1>2. Queued(s, Restarted(s, f, snapshot))
  <2> DEFINE cleared == Cleared(s)
             marked == Send(cleared, Marker, FALSE, FALSE)
             shown == Send(marked, Bytes(snapshot), FALSE, FALSE)
  <2>2. Queued(s, cleared)
    BY ClearedQueued
  <2> HIDE DEF cleared
  <2>3. Queued(cleared, marked)
    BY <2>2, SendQueued DEF Queued
  <2> HIDE DEF marked
  <2>4. Queued(marked, shown)
    BY <2>3, SendQueued DEF Queued
  <2> HIDE DEF shown
  <2>5. Queued(shown, Send(shown, f, FALSE, FALSE))
    BY <2>4, SendQueued DEF Queued
  <2>6. Restarted(s, f, snapshot) = Send(shown, f, FALSE, FALSE)
    BY DEF Restarted, shown, marked, cleared
  <2> QED
    BY <2>2, <2>3, <2>4, <2>5, <2>6 DEF Queued
<1>3. Queued(s, Send(s, f, TRUE, TRUE))
  BY SendQueued
<1> QED
  BY <1>1, <1>2, <1>3 DEF Enqueue

\* A broadcast changes queues only,
LEMMA BroadcastQueued ==
    ASSUME NEW h, NEW subs, NEW f, \A c \in Conns : Shape(subs[c])
    PROVE  /\ DOMAIN Broadcast(h, subs, f) = Conns
           /\ Broadcast(h, subs, f) = [c \in Conns |-> Broadcast(h, subs, f)[c]]
           /\ \A c \in Conns : Queued(subs[c], Broadcast(h, subs, f)[c])
<1>1. \A c \in Conns : Queued(subs[c], subs[c])
  BY DEF Queued
<1>2. \A c \in Conns : Queued(subs[c], Enqueue(subs[c], f, Snapshot(h.ring)))
  BY EnqueueQueued
<1> HIDE DEF Queued
<1> QED
  BY <1>1, <1>2 DEF Broadcast

\* and so does a flush.
LEMMA FlushedSubsQueued ==
    ASSUME NEW h, NEW subs, \A c \in Conns : Shape(subs[c]),
           DOMAIN subs = Conns, subs = [c \in Conns |-> subs[c]]
    PROVE  /\ DOMAIN FlushedSubs(h, subs) = Conns
           /\ FlushedSubs(h, subs) = [c \in Conns |-> FlushedSubs(h, subs)[c]]
           /\ \A c \in Conns : Queued(subs[c], FlushedSubs(h, subs)[c])
<1>1. CASE h.pending = <<>>
  <2>1. FlushedSubs(h, subs) = subs
    BY <1>1 DEF FlushedSubs
  <2>2. \A c \in Conns : Queued(subs[c], subs[c])
    BY DEF Queued
  <2> QED
    BY <2>1, <2>2
<1>2. CASE h.pending # <<>>
  <2>1. FlushedSubs(h, subs) = Broadcast(h, subs, Bytes(h.pending))
    BY <1>2 DEF FlushedSubs
  <2> QED
    BY <2>1, BroadcastQueued
<1> QED
  BY <1>1, <1>2

\* A change of the queue leaves the life of a subscriber alone.
LEMMA QueuedLives ==
    ASSUME NEW s, NEW t, Lifecycle(s), Queued(s, t)
    PROVE  Lifecycle(t)
BY DEF Lifecycle, Queued

\* A subscriber's life begins.
LEMMA NewLives ==
    ASSUME NEW gen, NEW open \in BOOLEAN
    PROVE  Lifecycle(Subscriber(gen, open)) /\ Subscriber(gen, open).registered = open
<1>1. CASE open
  BY <1>1 DEF Lifecycle, Shape, Subscriber
<1>2. CASE ~open
  BY <1>2 DEF Lifecycle, Shape, Subscriber
<1> QED
  BY <1>1, <1>2

\* An unsub has swapped: the channel is its to close.
LEMMA LeavingLives ==
    ASSUME NEW t, Lifecycle(t), ~t.swapped
    PROVE  LET s == [t EXCEPT !.swapped = TRUE, !.leaving = TRUE]
           IN  Lifecycle(s) /\ s.registered = t.registered
<1> DEFINE yes == TRUE
           yes2 == TRUE
           s == [t EXCEPT !.swapped = yes, !.leaving = yes2]
<1>1. yes = TRUE /\ yes2 = TRUE
  OBVIOUS
<1> HIDE DEF yes, yes2
<1>2. s = [gen |-> t.gen, registered |-> t.registered, swapped |-> yes, leaving |-> yes2,
           closes |-> t.closes, q |-> t.q, bufBytes |-> t.bufBytes,
           need |-> t.need, lossy |-> t.lossy]
  <2>1. t = [gen |-> t.gen, registered |-> t.registered, swapped |-> t.swapped,
             leaving |-> t.leaving, closes |-> t.closes, q |-> t.q,
             bufBytes |-> t.bufBytes, need |-> t.need, lossy |-> t.lossy]
    BY DEF Lifecycle, Shape
  <2>2. s = [t EXCEPT !.swapped = yes, !.leaving = yes2]
    OBVIOUS
  <2> HIDE DEF s
  <2> QED
    BY <2>1, <2>2
<1> HIDE DEF s
<1>3. /\ Shape(s) /\ s.registered = t.registered /\ s.swapped = yes /\ s.leaving = yes2
      /\ s.closes = t.closes
  BY <1>2 DEF Shape
<1>4. s.swapped = TRUE /\ s.leaving = TRUE
  BY <1>1, <1>3
<1>5. t.registered \in BOOLEAN /\ t.closes = 0
  BY DEF Lifecycle
<1>6. Lifecycle(s) /\ s.registered = t.registered
  BY <1>3, <1>4, <1>5 DEF Lifecycle
<1> QED
  BY <1>6 DEF s, yes, yes2

\* It closes it.
LEMMA LeftLives ==
    ASSUME NEW t, Lifecycle(t), t.leaving
    PROVE  LET s == [t EXCEPT !.registered = FALSE, !.leaving = FALSE, !.closes = t.closes + 1]
           IN  Lifecycle(s) /\ ~s.registered
<1> DEFINE no == FALSE
           no2 == FALSE
           n == t.closes + 1
           s == [t EXCEPT !.registered = no, !.leaving = no2, !.closes = n]
<1>1. no = FALSE /\ no2 = FALSE /\ n = 1
  BY DEF Lifecycle
<1> HIDE DEF no, no2, n
<1>2. s = [gen |-> t.gen, registered |-> no, swapped |-> t.swapped, leaving |-> no2,
           closes |-> n, q |-> t.q, bufBytes |-> t.bufBytes,
           need |-> t.need, lossy |-> t.lossy]
  <2>1. t = [gen |-> t.gen, registered |-> t.registered, swapped |-> t.swapped,
             leaving |-> t.leaving, closes |-> t.closes, q |-> t.q,
             bufBytes |-> t.bufBytes, need |-> t.need, lossy |-> t.lossy]
    BY DEF Lifecycle, Shape
  <2>2. s = [t EXCEPT !.registered = no, !.leaving = no2, !.closes = n]
    OBVIOUS
  <2> HIDE DEF s
  <2> QED
    BY <2>1, <2>2
<1> HIDE DEF s
<1>3. /\ Shape(s) /\ s.registered = no /\ s.swapped = t.swapped /\ s.leaving = no2
      /\ s.closes = n
  BY <1>2 DEF Shape
<1>4. s.registered = FALSE /\ s.leaving = FALSE /\ s.closes = 1
  BY <1>1, <1>3
<1>5. t.swapped = TRUE
  BY DEF Lifecycle
<1>6. Lifecycle(s) /\ ~s.registered
  BY <1>3, <1>4, <1>5 DEF Lifecycle
<1> QED
  BY <1>6 DEF s, no, no2, n

\* At first every connection is free.
LEMMA InitChannels == Init => ChannelInv
<1> SUFFICES ASSUME Init PROVE ChannelInv
  OBVIOUS
<1>1. sub = [c \in Conns |-> Subscriber(0, FALSE)] /\ hub.closed = FALSE
  BY DEF Init, NewHub
<1>2. \A c \in Conns : sub[c] = Subscriber(0, FALSE)
  BY <1>1
<1>3. Lifecycle(Subscriber(0, FALSE))
  BY NewLives
<1> QED
  BY <1>1, <1>2, <1>3 DEF ChannelInv

\* What a step must do to the hub's and the subscribers' life.
LEMMA ChannelsKept ==
    ASSUME ChannelInv, hub'.closed = hub.closed,
           DOMAIN sub' = Conns, sub' = [c \in Conns |-> sub'[c]],
           \A c \in Conns : Queued(sub[c], sub'[c])
    PROVE  ChannelInv'
<1>1. \A c \in Conns : Lifecycle(sub'[c])
  BY QueuedLives DEF ChannelInv
<1>2. \A c \in Conns : sub'[c].registered = sub[c].registered
  BY DEF Queued
<1> QED
  BY <1>1, <1>2 DEF ChannelInv

\* A flush in a state whose channels are in order.
LEMMA FlushKept ==
    ASSUME ChannelInv, NEW h
    PROVE  /\ DOMAIN FlushedSubs(h, sub) = Conns
           /\ FlushedSubs(h, sub) = [c \in Conns |-> FlushedSubs(h, sub)[c]]
           /\ \A c \in Conns : Queued(sub[c], FlushedSubs(h, sub)[c])
<1>1. \A c \in Conns : Shape(sub[c])
  BY DEF ChannelInv, Lifecycle
<1> QED
  BY <1>1, FlushedSubsQueued DEF ChannelInv

\* One subscriber changes, and stays alive or dies properly.
LEMMA OneChanges ==
    ASSUME ChannelInv, NEW c \in Conns, NEW s, Lifecycle(s),
           NEW subs, DOMAIN subs = Conns, subs = [d \in Conns |-> subs[d]],
           \A d \in Conns : Queued(sub[d], subs[d]),
           sub' = [subs EXCEPT ![c] = s],
           hub'.closed => ~s.registered, hub'.closed = hub.closed
    PROVE  ChannelInv'
<1>1. \A d \in Conns : sub'[d] = IF d = c THEN s ELSE subs[d]
  OBVIOUS
<1>2. DOMAIN sub' = Conns /\ sub' = [d \in Conns |-> sub'[d]]
  OBVIOUS
<1>3. \A d \in Conns : Lifecycle(subs[d]) /\ subs[d].registered = sub[d].registered
  <2>1. \A d \in Conns : Lifecycle(sub[d])
    BY DEF ChannelInv
  <2>2. \A d \in Conns : Lifecycle(subs[d])
    BY <2>1, QueuedLives
  <2> QED
    BY <2>2 DEF Queued
<1>4. \A d \in Conns : Lifecycle(sub'[d])
  BY <1>1, <1>3
<1>5. hub'.closed => \A d \in Conns : ~sub'[d].registered
  BY <1>1, <1>3 DEF ChannelInv
<1> QED
  BY <1>2, <1>4, <1>5 DEF ChannelInv

\* The same with the others left alone.
LEMMA OnlyOneChanges ==
    ASSUME ChannelInv, NEW c \in Conns, NEW s, Lifecycle(s),
           sub' = [sub EXCEPT ![c] = s],
           hub'.closed => ~s.registered, hub'.closed = hub.closed
    PROVE  ChannelInv'
<1>1. \A d \in Conns : Queued(sub[d], sub[d])
  BY DEF ChannelInv, Lifecycle, Queued
<1>2. DOMAIN sub = Conns /\ sub = [d \in Conns |-> sub[d]]
  BY DEF ChannelInv
<1> QED
  BY <1>1, <1>2, OneChanges

\* Hub.Close ends every subscriber, once.
LEMMA ClosedSubEnds ==
    ASSUME NEW s, Lifecycle(s)
    PROVE  Lifecycle(ClosedSub(s)) /\ ~ClosedSub(s).registered
<1>1. CASE ~s.registered
  BY <1>1 DEF ClosedSub
<1>2. CASE s.registered /\ s.swapped
  <2> DEFINE no == FALSE
  <2>1. ClosedSub(s) = [s EXCEPT !.registered = no]
    BY <1>2 DEF ClosedSub
  <2>2. no = FALSE
    OBVIOUS
  <2> HIDE DEF no
  <2>3. ClosedSub(s) =
          [gen |-> s.gen, registered |-> no, swapped |-> s.swapped,
           leaving |-> s.leaving, closes |-> s.closes, q |-> s.q,
           bufBytes |-> s.bufBytes, need |-> s.need, lossy |-> s.lossy]
    BY <2>1 DEF Lifecycle, Shape
  <2> DEFINE e == ClosedSub(s)
  <2>4. Shape(e) /\ e.registered = no /\ e.swapped = s.swapped /\ e.leaving = s.leaving
        /\ e.closes = s.closes
    BY <2>3 DEF Shape
  <2> HIDE DEF e
  <2>5. s.swapped \in BOOLEAN /\ s.leaving \in BOOLEAN /\ s.leaving /\ s.closes = 0
    BY <1>2 DEF Lifecycle
  <2>6. e.registered = FALSE
    BY <2>2, <2>4
  <2>7. Lifecycle(e) /\ ~e.registered
    BY <1>2, <2>4, <2>5, <2>6 DEF Lifecycle
  <2> QED
    BY <2>7 DEF e
<1>3. CASE s.registered /\ ~s.swapped
  <2> DEFINE no == FALSE
             yes == TRUE
             n == s.closes + 1
  <2>1. ClosedSub(s) = [s EXCEPT !.registered = no, !.swapped = yes, !.closes = n]
    BY <1>3 DEF ClosedSub
  <2>2. no = FALSE /\ yes = TRUE /\ n = 1
    BY <1>3 DEF Lifecycle
  <2> HIDE DEF no, yes, n
  <2>3. ClosedSub(s) =
          [gen |-> s.gen, registered |-> no, swapped |-> yes,
           leaving |-> s.leaving, closes |-> n, q |-> s.q,
           bufBytes |-> s.bufBytes, need |-> s.need, lossy |-> s.lossy]
    BY <2>1 DEF Lifecycle, Shape
  <2> DEFINE e == ClosedSub(s)
  <2>4. Shape(e) /\ e.registered = no /\ e.swapped = yes /\ e.leaving = s.leaving
        /\ e.closes = n
    BY <2>3 DEF Shape
  <2> HIDE DEF e
  <2>5. s.leaving = FALSE
    BY <1>3 DEF Lifecycle
  <2>6. e.registered = FALSE /\ e.swapped = TRUE /\ e.leaving = FALSE /\ e.closes = 1
    BY <2>2, <2>4, <2>5
  <2>7. Lifecycle(e) /\ ~e.registered
    BY <2>4, <2>6 DEF Lifecycle
  <2> QED
    BY <2>7 DEF e
<1> QED
  BY <1>1, <1>2, <1>3 DEF Lifecycle

\* Every step keeps the channels in order.
LEMMA StepChannels == ChannelInv /\ HubInv /\ [Next]_vars => ChannelInv'
<1> SUFFICES ASSUME ChannelInv, HubInv, [Next]_vars PROVE ChannelInv'
  OBVIOUS
<1> DEFINE subs == FlushedSubs(hub, sub)
<1>1. \A c \in Conns : Queued(sub[c], sub[c])
  BY DEF ChannelInv, Lifecycle, Queued
<1>2. DOMAIN sub = Conns /\ sub = [c \in Conns |-> sub[c]] /\ \A c \in Conns : Lifecycle(sub[c])
  BY DEF ChannelInv
<1>3. hub.closed = FALSE => Flushed(hub).closed = FALSE
  BY DEF HubInv, HubRecord, Flushed
<1>4. Flushed(hub).closed = hub.closed
  BY DEF HubInv, HubRecord, Flushed
<1>5. ASSUME NEW n \in 1 .. MaxChunk, Write(n) PROVE ChannelInv'
  <2> DEFINE h == Written(hub, n)
  <2>1. h \in HubRecord /\ h.closed = hub.closed
    <3>1. hub.seq + n <= MaxOut
      BY <1>5, WriteInBounds
    <3>2. h \in HubRecord
      BY <3>1, WrittenInStep
    <3>3. h.closed = hub.closed
      BY DEF Written, HubInv, HubRecord
    <3> QED
      BY <3>2, <3>3
  <2>2. CASE Len(h.pending) >= FlushBytes
    <3>1. hub' = Flushed(h) /\ sub' = FlushedSubs(h, sub)
      BY <1>5, <2>2 DEF Write
    <3> HIDE DEF h
    <3>2. Flushed(h).closed = h.closed
      BY <2>1 DEF HubRecord, Flushed
    <3> QED
      BY <2>1, <3>1, <3>2, FlushKept, ChannelsKept
  <2>3. CASE ~(Len(h.pending) >= FlushBytes)
    <3>1. hub' = h /\ sub' = sub
      BY <1>5, <2>3 DEF Write
    <3> HIDE DEF h
    <3> QED
      BY <1>1, <1>2, <2>1, <3>1, ChannelsKept
  <2> QED
    BY <2>2, <2>3
<1>6. CASE TimerFires
  <2>1. hub'.closed = hub.closed /\ sub' = sub
    BY <1>6 DEF TimerFires, HubInv, HubRecord
  <2> QED
    BY <1>1, <1>2, <2>1, ChannelsKept
<1>7. CASE FlushCallback
  <2>1. hub'.closed = hub.closed /\ sub' = FlushedSubs(hub, sub)
    BY <1>4, <1>7 DEF FlushCallback
  <2> QED
    BY <2>1, FlushKept, ChannelsKept
<1>8. CASE BroadcastResize
  <2>1. hub'.closed = hub.closed /\ sub' = Broadcast(hub, sub, Resize)
    BY <1>8 DEF BroadcastResize, HubInv, HubRecord
  <2>2. \A c \in Conns : Shape(sub[c])
    BY <1>2 DEF Lifecycle
  <2> QED
    BY <2>1, <2>2, BroadcastQueued, ChannelsKept
<1>9. CASE Close
  <2> HIDE DEF subs
  <2>1. sub' = [c \in Conns |-> ClosedSub(subs[c])]
    BY <1>9 DEF Close, subs
  <2>2. \A c \in Conns : Lifecycle(subs[c])
    BY <1>2, FlushKept, QueuedLives DEF subs
  <2>3. \A c \in Conns : Lifecycle(sub'[c]) /\ ~sub'[c].registered
    BY <2>1, <2>2, ClosedSubEnds
  <2>4. DOMAIN sub' = Conns /\ sub' = [c \in Conns |-> sub'[c]]
    BY <2>1
  <2> QED
    BY <2>3, <2>4 DEF ChannelInv
<1>10. CASE ReplaceHost
  <2>1. sub' = sub /\ hub.closed
    BY <1>10 DEF ReplaceHost
  <2> QED
    BY <2>1 DEF ChannelInv
<1>11. ASSUME NEW c \in Conns, Attach(c) PROVE ChannelInv'
  <2> HIDE DEF subs
  <2>1. hub' = Flushed(hub)
    BY <1>11 DEF Attach, AttachHub
  <2> DEFINE s == Subscriber(hub.gen, ~hub.closed)
  <2>2. sub' = [subs EXCEPT ![c] = s]
    BY <1>11 DEF Attach, subs
  <2>3. Lifecycle(s) /\ s.registered = ~hub.closed
    <3>1. (~hub.closed) \in BOOLEAN
      OBVIOUS
    <3> QED
      BY <3>1, NewLives
  <2> HIDE DEF s
  <2>4. hub'.closed => ~s.registered
    BY <1>4, <2>1, <2>3
  <2> QED
    BY <1>4, <2>1, <2>2, <2>3, <2>4, FlushKept, OneChanges DEF subs
<1>12. ASSUME NEW c \in Conns, Pump(c) PROVE ChannelInv'
  <2> DEFINE q == Tail(sub[c].q)
             s == [sub[c] EXCEPT !.q = q]
  <2>1. sub' = [sub EXCEPT ![c] = s] /\ hub' = hub
    BY <1>12, <1>2 DEF Pump
  <2>2. Lifecycle(s) /\ s.registered = sub[c].registered
    <3> HIDE DEF q
    <3>1. s = [gen |-> sub[c].gen, registered |-> sub[c].registered,
               swapped |-> sub[c].swapped, leaving |-> sub[c].leaving,
               closes |-> sub[c].closes, q |-> q, bufBytes |-> sub[c].bufBytes,
               need |-> sub[c].need, lossy |-> sub[c].lossy]
      BY <1>2 DEF Lifecycle, Shape
    <3> HIDE DEF s
    <3>2. Queued(sub[c], s)
      BY <3>1 DEF Queued, Shape
    <3> QED
      BY <1>2, <3>2, QueuedLives DEF Queued
  <2> HIDE DEF s
  <2>3. hub.closed => ~s.registered
    BY <2>2 DEF ChannelInv
  <2> QED
    BY <2>1, <2>2, <2>3, OnlyOneChanges
<1>13. ASSUME NEW c \in Conns, Leave(c) PROVE ChannelInv'
  <2> DEFINE t == sub[c]
             s == [t EXCEPT !.swapped = TRUE, !.leaving = TRUE]
  <2>1. sub' = [sub EXCEPT ![c] = s] /\ hub' = hub /\ ~t.swapped /\ Lifecycle(t)
    BY <1>13, <1>2 DEF Leave
  <2>2. hub.closed => ~t.registered
    BY DEF ChannelInv
  <2> HIDE DEF t
  <2>3. Lifecycle(s) /\ s.registered = t.registered
    BY <2>1, LeavingLives
  <2> HIDE DEF s
  <2> QED
    BY <2>1, <2>2, <2>3, OnlyOneChanges
<1>14. ASSUME NEW c \in Conns, Unsubscribe(c) PROVE ChannelInv'
  <2> DEFINE t == sub[c]
             s == [t EXCEPT !.registered = FALSE, !.leaving = FALSE, !.closes = t.closes + 1]
  <2>1. sub' = [sub EXCEPT ![c] = s] /\ hub' = hub /\ t.leaving /\ Lifecycle(t)
    BY <1>14, <1>2 DEF Unsubscribe
  <2> HIDE DEF t
  <2>2. Lifecycle(s) /\ ~s.registered
    BY <2>1, LeftLives
  <2> HIDE DEF s
  <2> QED
    BY <2>1, <2>2, OnlyOneChanges
<1>15. CASE UNCHANGED <<hub, sub>>
  BY <1>15 DEF ChannelInv
<1>16. ASSUME NEW c \in Conns, PumpEnds(c) PROVE UNCHANGED <<hub, sub>>
  BY <1>16 DEF PumpEnds
<1>17. CASE Disconnect \/ Receive \/ UNCHANGED vars
  BY <1>15, <1>17 DEF Disconnect, Receive, vars
<1> QED
  BY <1>5, <1>6, <1>7, <1>8, <1>9, <1>10, <1>11, <1>12, <1>13, <1>14, <1>15, <1>16, <1>17
     DEF Next

\* No channel is closed twice and none is written to after it was closed, in every
\* order of Close and of the two halves of unsub.
THEOREM ChannelsCloseOnce == Spec => []ChannelSafe
<1>1. ChannelInv => ChannelSafe
  <2> SUFFICES ASSUME ChannelInv, NEW c \in Conns
               PROVE  /\ sub[c].closes <= 1
                      /\ sub[c].registered /\ ~sub[c].swapped => sub[c].closes = 0 /\ ~hub.closed
    BY DEF ChannelSafe
  <2>1. Lifecycle(sub[c]) /\ (hub.closed => ~sub[c].registered)
    BY DEF ChannelInv
  <2>2. sub[c].closes = 0 \/ sub[c].closes = 1
    BY <2>1 DEF Lifecycle
  <2> QED
    BY <2>1, <2>2 DEF Lifecycle
<1> QED
  BY <1>1, InitInStep, StepInStep, InitChannels, StepChannels, PTL DEF Spec
-----------------------------------------------------------------------------
(* What a queue is given.                                                  *)

\* A set of naturals has a least element.
LEMMA LeastIn ==
    ASSUME NEW S \in SUBSET Nat, S # {}
    PROVE  Min(S) \in S
<1> DEFINE Below == {0 .. n : n \in S}
<1>1. IsWellFoundedOn(StrictSubsetOrdering(Nat), FiniteSubsetsOf(Nat))
  BY FS_StrictSubsetOrderingWellFounded
<1>2. \A n \in S : IsFiniteSet(0 .. n)
  BY FS_Interval
<1>3. Below \subseteq FiniteSubsetsOf(Nat) /\ Below # {}
  <2>1. \A n \in S : 0 .. n \in SUBSET Nat
    OBVIOUS
  <2> QED
    BY <1>2, <2>1, Zenon DEF FiniteSubsetsOf
<1>4. PICK x \in Below : \A y \in Below : <<y, x>> \notin StrictSubsetOrdering(Nat)
  BY <1>1, <1>3, WFMin
<1>5. PICK m \in S : x = 0 .. m
  BY <1>4
<1>6. ASSUME NEW n \in S PROVE m <= n
  <2>1. CASE n < m
    <3>1. 0 .. n \subseteq 0 .. m /\ m \in 0 .. m /\ m \notin 0 .. n
      BY <2>1
    <3>2. <<0 .. n, 0 .. m>> \in (SUBSET Nat) \X (SUBSET Nat)
      BY <2>1
    <3>3. <<0 .. n, 0 .. m>> \in StrictSubsetOrdering(Nat)
      BY <3>1, <3>2, Zenon DEF StrictSubsetOrdering
    <3>4. 0 .. n \in Below
      OBVIOUS
    <3> QED
      BY <1>4, <1>5, <3>3, <3>4
  <2> QED
    BY <2>1
<1> QED
  BY <1>5, <1>6 DEF Min

\* What can be queued or under way.
Message ==
    [kind : {"bytes", "marker", "resize", "snapshot", "recovery", "closed"},
     data : Seq(Output), seq : 0 .. MaxOut]

\* A frame leaves room for itself by dropping frames that are there.
LEMMA EvictedSome ==
    ASSUME NEW s, s.q \in Seq(Message), NEW len, NEW enforceCap \in BOOLEAN
    PROVE  /\ Evicted(s, len, enforceCap) \in 0 .. Len(s.q)
           /\ ~enforceCap /\ Len(s.q) < FrameCap => Evicted(s, len, enforceCap) = 0
<1> DEFINE Room(n) == \/ n = Len(s.q)
                      \/ /\ len <= BufCap
                         /\ s.bufBytes - FramesLen(SubSeq(s.q, 1, n)) + len <= BufCap
           S == {n \in 0 .. Len(s.q) : Room(n)}
           over == IF enforceCap THEN Min(S) ELSE 0
<1>1. Len(s.q) \in Nat /\ FrameCap \in Nat /\ FrameCap >= 3
  BY StreamAssumption
<1>2. Evicted(s, len, enforceCap) = IF Len(s.q) - over < FrameCap THEN over ELSE over + 1
  BY DEF Evicted
<1>3. Len(s.q) \in S /\ S \subseteq 0 .. Len(s.q)
  BY <1>1
<1> HIDE DEF S
<1>4. Min(S) \in 0 .. Len(s.q)
  <2>1. S \in SUBSET Nat /\ S # {}
    BY <1>1, <1>3
  <2> QED
    BY <1>3, <2>1, LeastIn
<1>5. over \in 0 .. Len(s.q) /\ (~enforceCap => over = 0)
  BY <1>1, <1>4
<1> HIDE DEF over
<1> QED
  BY <1>1, <1>2, <1>5

\* A frame goes behind what is left of the queue; what was dropped is remembered.
Behind(s, t, f, n, track) ==
    /\ t.gen = s.gen /\ t.q = Append(SubSeq(s.q, n + 1, Len(s.q)), f)
    /\ IF track /\ n > 0 THEN t.need = TRUE /\ t.lossy = TRUE
       ELSE t.need = s.need /\ t.lossy = s.lossy

\* What sendLocked does to a queue, for some number of dropped frames.
LEMMA SendBehind ==
    ASSUME NEW s, Shape(s), s.q \in Seq(Message), s.need \in BOOLEAN, s.lossy \in BOOLEAN,
           NEW f, FrameLen(f) # 0, NEW track \in BOOLEAN, NEW enforceCap \in BOOLEAN
    PROVE  \E n \in 0 .. Len(s.q) :
              /\ Behind(s, Send(s, f, track, enforceCap), f, n, track)
              /\ ~enforceCap /\ Len(s.q) < FrameCap => n = 0
<1> DEFINE t == Recounted(s)
           n == Evicted(t, FrameLen(f), enforceCap)
           u == Dropped(t, n, track)
           v == Pushed(u, f)
<1>1. Send(s, f, track, enforceCap) = v
  BY DEF Send
<1>2. t.gen = s.gen /\ t.q = s.q /\ t.need = s.need /\ t.lossy = s.lossy /\ Shape(t)
  <2>1. Shape(t)
    BY RecountedQueued DEF Queued
  <2>2. CASE s.q = <<>>
    BY <2>1, <2>2 DEF Recounted, Shape
  <2>3. CASE s.q # <<>>
    BY <2>1, <2>3 DEF Recounted
  <2> QED
    BY <2>1, <2>2, <2>3
<1> HIDE DEF t
<1>3. n \in 0 .. Len(s.q) /\ (~enforceCap /\ Len(s.q) < FrameCap => n = 0)
  BY <1>2, EvictedSome
<1> HIDE DEF n
<1>4. /\ u.gen = s.gen /\ u.q = SubSeq(s.q, n + 1, Len(s.q)) /\ Shape(u)
      /\ u.need = (s.need \/ (track /\ n > 0)) /\ u.lossy = (s.lossy \/ (track /\ n > 0))
  <2>1. Shape(u)
    BY <1>2, DroppedQueued DEF Queued
  <2> DEFINE q == SubSeq(t.q, n + 1, Len(t.q))
             b == t.bufBytes - FramesLen(SubSeq(t.q, 1, n))
             need == t.need \/ (track /\ n > 0)
             lossy == t.lossy \/ (track /\ n > 0)
  <2>2. u = [t EXCEPT !.q = q, !.bufBytes = b, !.need = need, !.lossy = lossy]
    BY DEF Dropped
  <2>3. need = (s.need \/ (track /\ n > 0)) /\ lossy = (s.lossy \/ (track /\ n > 0))
        /\ q = SubSeq(s.q, n + 1, Len(s.q))
    BY <1>2
  <2> HIDE DEF q, b, need, lossy, u
  <2>4. u.gen = t.gen /\ u.q = q /\ u.need = need /\ u.lossy = lossy
    BY <1>2, <2>2 DEF Shape
  <2> QED
    BY <1>2, <2>1, <2>3, <2>4
<1> HIDE DEF u
<1>5. v.gen = u.gen /\ v.q = Append(u.q, f) /\ v.need = u.need /\ v.lossy = u.lossy
  BY <1>4 DEF Pushed, Shape
<1> HIDE DEF v
<1>6. Behind(s, v, f, n, track)
  <2>1. CASE track /\ n > 0
    BY <1>4, <1>5, <2>1 DEF Behind
  <2>2. CASE ~(track /\ n > 0)
    BY <1>4, <1>5, <2>2 DEF Behind
  <2> QED
    BY <2>1, <2>2
<1> QED
  BY <1>1, <1>3, <1>6

Queues == {"bytes", "marker", "resize"}

\* A subscriber whose queue holds what a hub broadcasts.
QueueShape(s) ==
    /\ s.gen \in 0 .. MaxGen /\ s.need \in BOOLEAN /\ s.lossy \in BOOLEAN
    /\ s.q \in Seq(Message)
    /\ \A i \in 1 .. Len(s.q) :
          s.q[i].kind \in Queues /\ (s.q[i].kind = "marker" => s.q[i] = Marker)
    /\ s.need => s.lossy

\* What the hub broadcasts has a length.
Broadcastable(f) ==
    /\ f \in Message /\ f.kind \in {"bytes", "resize"}
    /\ f.kind = "bytes" => f.data # <<>>

\* Markers, resizes and chunks are messages and take room.
LEMMA FrameFacts ==
    /\ Marker \in Message /\ Resize \in Message /\ Marker.kind = "marker" /\ Resize.kind = "resize"
    /\ FrameLen(Marker) # 0
    /\ \A data \in Seq(Output) :
          Bytes(data) \in Message /\ Bytes(data).kind = "bytes" /\ Bytes(data).data = data
    /\ \A f : Broadcastable(f) => FrameLen(f) # 0
<1>1. MaxOut \in Nat /\ MarkerLen # 0 /\ ResizeLen # 0
  BY StreamAssumption
<1>2. Marker = [kind |-> "marker", data |-> <<>>, seq |-> 0]
      /\ Resize = [kind |-> "resize", data |-> <<>>, seq |-> 0]
  BY DEF Marker, Resize, Frame
<1>3. \A data : Bytes(data) = [kind |-> "bytes", data |-> data, seq |-> 0]
  BY DEF Bytes, Frame
<1>4. <<>> \in Seq(Output)
  OBVIOUS
<1>5. FrameLen(Marker) # 0
  BY <1>1, <1>2 DEF FrameLen
<1>6. ASSUME NEW f, Broadcastable(f) PROVE FrameLen(f) # 0
  <2>1. CASE f.kind = "resize"
    BY <1>1, <2>1 DEF FrameLen
  <2>2. CASE f.kind = "bytes"
    <3>1. f.data \in Seq(Output) /\ f.data # <<>>
      BY <1>6, <2>2 DEF Broadcastable, Message
    <3>2. FrameLen(f) = Len(f.data)
      BY <2>2 DEF FrameLen
    <3> QED
      BY <3>1, <3>2
  <2> QED
    BY <1>6, <2>1, <2>2 DEF Broadcastable
<1>7. Marker \in Message /\ Resize \in Message
  BY <1>1, <1>2, <1>4 DEF Message
<1>8. \A data \in Seq(Output) : Bytes(data) \in Message
  BY <1>1, <1>3 DEF Message
<1> QED
  BY <1>2, <1>3, <1>5, <1>6, <1>7, <1>8

\* What is left of a queue, and a frame behind it.
LEMMA BehindShape ==
    ASSUME NEW s, QueueShape(s), NEW f \in Message, f.kind \in Queues, f.kind = "marker" => f = Marker,
           NEW t, NEW n \in 0 .. Len(s.q), NEW track \in BOOLEAN, Behind(s, t, f, n, track)
    PROVE  /\ QueueShape(t)
           /\ n = 0 => t.q = Append(s.q, f)
<1>1. s.q \in Seq(Message)
  BY DEF QueueShape
<1> DEFINE left == SubSeq(s.q, n + 1, Len(s.q))
<1>2. /\ left \in Seq(Message)
      /\ \A i \in 1 .. Len(left) : left[i] = s.q[n + i] /\ n + i \in 1 .. Len(s.q)
      /\ n = 0 => left = s.q
  <2>1. left \in Seq(Message) /\ \A i \in 1 .. Len(left) : left[i] = s.q[n + i] /\ n + i \in 1 .. Len(s.q)
    BY <1>1
  <2>2. SubSeq(s.q, 1, Len(s.q)) = s.q
    BY <1>1, SubSeqFull
  <2> QED
    BY <2>1, <2>2
<1>3. t.q = Append(left, f)
  BY DEF Behind
<1> HIDE DEF left
<1>4. t.q \in Seq(Message) /\ Len(t.q) = Len(left) + 1
      /\ \A i \in 1 .. Len(t.q) : t.q[i] = IF i <= Len(left) THEN left[i] ELSE f
  BY <1>2, <1>3
<1>5. ASSUME NEW i \in 1 .. Len(t.q)
      PROVE t.q[i].kind \in Queues /\ (t.q[i].kind = "marker" => t.q[i] = Marker)
  <2>1. CASE i <= Len(left)
    <3>1. i \in 1 .. Len(left) /\ t.q[i] = left[i]
      BY <1>2, <1>4, <2>1
    <3>2. t.q[i] = s.q[n + i] /\ n + i \in 1 .. Len(s.q)
      BY <1>2, <3>1
    <3> QED
      BY <3>2 DEF QueueShape
  <2>2. CASE ~(i <= Len(left))
    BY <1>4, <2>2
  <2> QED
    BY <2>1, <2>2
<1>6. t.gen \in 0 .. MaxGen /\ t.need \in BOOLEAN /\ t.lossy \in BOOLEAN /\ (t.need => t.lossy)
  BY DEF Behind, QueueShape
<1> QED
  BY <1>2, <1>3, <1>4, <1>5, <1>6 DEF QueueShape

\* The queue behind a loss: the marker, a snapshot unless there is none, the frame.
Told(snapshot, f) ==
    Append(IF snapshot = <<>> THEN <<Marker>> ELSE Append(<<Marker>>, Bytes(snapshot)), f)

\* A frame loses others, or goes behind all of them, or behind a marker.
Took(s, t, f, snapshot) ==
    /\ QueueShape(t) /\ t.gen = s.gen /\ t.swapped = s.swapped
    /\ \/ t.need
       \/ ~s.need /\ ~t.need /\ t.lossy = s.lossy /\ t.q = Append(s.q, f)
       \/ s.need /\ ~t.need /\ t.lossy = s.lossy /\ t.q = Told(snapshot, f)

\* Clearing forgets the frames and that a marker is due, not that some were lost.
LEMMA ClearedShape ==
    ASSUME NEW s, Shape(s), QueueShape(s)
    PROVE  LET t == Cleared(s)
           IN  /\ Shape(t) /\ QueueShape(t)
               /\ t.gen = s.gen /\ t.q = <<>> /\ t.need = FALSE /\ t.lossy = s.lossy
<1> DEFINE t == Cleared(s)
           q == <<>>
           b == 0
           no == FALSE
<1>1. Shape(t)
  BY ClearedQueued DEF Queued
<1>2. t = [s EXCEPT !.q = q, !.bufBytes = b, !.need = no]
  BY DEF Cleared
<1>3. q = <<>> /\ no = FALSE /\ q \in Seq(Message) /\ Len(q) = 0
  OBVIOUS
<1> HIDE DEF q, b, no, t
<1>4. t.gen = s.gen /\ t.q = q /\ t.need = no /\ t.lossy = s.lossy
  BY <1>2 DEF Shape
<1>5. t.gen = s.gen /\ t.q = <<>> /\ t.need = FALSE /\ t.lossy = s.lossy
  BY <1>3, <1>4
<1>6. t.q \in Seq(Message) /\ Len(t.q) = 0
  BY <1>5
<1>7. QueueShape(t)
  <2>1. \A i \in 1 .. Len(t.q) :
            t.q[i].kind \in Queues /\ (t.q[i].kind = "marker" => t.q[i] = Marker)
    BY <1>6
  <2> QED
    BY <1>5, <1>6, <2>1 DEF QueueShape
<1> QED
  BY <1>1, <1>5, <1>7 DEF t

\* FrameCap is large enough for marker, snapshot and frame: none of them drops another.
LEMMA RestartTold ==
    ASSUME NEW s, Shape(s), QueueShape(s), NEW f, Broadcastable(f), NEW snapshot \in Seq(Output)
    PROVE  LET t == Restarted(s, f, snapshot)
           IN  /\ QueueShape(t) /\ t.gen = s.gen
               /\ ~t.need /\ t.lossy = s.lossy /\ t.q = Told(snapshot, f)
<1> DEFINE c == Cleared(s)
           m == Send(c, Marker, FALSE, FALSE)
           d == Send(m, Bytes(snapshot), FALSE, FALSE)
           t == Send(d, f, FALSE, FALSE)
<1>1. Restarted(s, f, snapshot) = t
  BY DEF Restarted
<1>2. FrameCap \in Nat /\ FrameCap >= 3
  BY StreamAssumption
<1>3. /\ Shape(c) /\ QueueShape(c)
      /\ c.gen = s.gen /\ c.q = <<>> /\ c.need = FALSE /\ c.lossy = s.lossy
  BY ClearedShape
<1> HIDE DEF c
<1>4. /\ Shape(m) /\ QueueShape(m)
      /\ m.gen = s.gen /\ m.q = <<Marker>> /\ m.need = FALSE /\ m.lossy = s.lossy
  <2>1. Shape(m)
    BY <1>3, SendQueued DEF Queued
  <2>2. c.q \in Seq(Message) /\ Len(c.q) = 0
    BY <1>3 DEF QueueShape
  <2>3. FrameLen(Marker) # 0 /\ Marker \in Message /\ Marker.kind \in Queues
    BY FrameFacts DEF Queues
  <2>4. c.need \in BOOLEAN /\ c.lossy \in BOOLEAN
    BY <1>3 DEF QueueShape
  <2>5. PICK n \in 0 .. Len(c.q) :
            Behind(c, m, Marker, n, FALSE) /\ (~FALSE /\ Len(c.q) < FrameCap => n = 0)
    BY <1>3, <2>2, <2>3, <2>4, SendBehind
  <2>6. n = 0
    BY <2>2, <2>5
  <2> HIDE DEF m
  <2>7. QueueShape(m) /\ m.q = Append(c.q, Marker)
    BY <1>3, <2>2, <2>3, <2>5, <2>6, BehindShape
  <2>8. m.gen = c.gen /\ m.need = c.need /\ m.lossy = c.lossy
    BY <2>5 DEF Behind
  <2>9. Append(c.q, Marker) = <<Marker>>
    BY <1>3
  <2> QED
    BY <1>3, <2>1, <2>7, <2>8, <2>9
<1> HIDE DEF m
<1>5. /\ Shape(d) /\ QueueShape(d)
      /\ d.gen = s.gen /\ d.need = FALSE /\ d.lossy = s.lossy /\ Len(d.q) < FrameCap
      /\ d.q = IF snapshot = <<>> THEN <<Marker>> ELSE Append(<<Marker>>, Bytes(snapshot))
  <2>1. CASE snapshot = <<>>
    <3>1. FrameLen(Bytes(snapshot)) = 0
      BY <2>1 DEF FrameLen, Bytes, Frame
    <3>2. d = m
      BY <3>1 DEF Send
    <3> HIDE DEF d
    <3>3. m.q \in Seq(Message) /\ Len(m.q) = 1
      BY <1>4 DEF QueueShape
    <3>4. (IF snapshot = <<>> THEN <<Marker>> ELSE Append(<<Marker>>, Bytes(snapshot))) = <<Marker>>
      BY <2>1, Zenon
    <3>5. Len(m.q) < FrameCap
      BY <1>2, <3>3
    <3> QED
      BY <1>4, <3>2, <3>4, <3>5, Zenon
  <2>2. CASE snapshot # <<>>
    <3>1. Broadcastable(Bytes(snapshot))
      BY <2>2, FrameFacts DEF Broadcastable
    <3>2. FrameLen(Bytes(snapshot)) # 0 /\ Bytes(snapshot) \in Message
          /\ Bytes(snapshot).kind = "bytes"
      BY <3>1, FrameFacts
    <3>3. Shape(d)
      BY <1>4, SendQueued DEF Queued
    <3>4. m.q \in Seq(Message) /\ Len(m.q) = 1
      BY <1>4 DEF QueueShape
    <3>9. m.need \in BOOLEAN /\ m.lossy \in BOOLEAN
      BY <1>4 DEF QueueShape
    <3>5. PICK n \in 0 .. Len(m.q) :
              Behind(m, d, Bytes(snapshot), n, FALSE) /\ (~FALSE /\ Len(m.q) < FrameCap => n = 0)
      BY <1>4, <3>2, <3>4, <3>9, SendBehind
    <3>6. n = 0
      BY <1>2, <3>4, <3>5
    <3> HIDE DEF d
    <3>7. QueueShape(d) /\ d.q = Append(m.q, Bytes(snapshot))
      BY <1>4, <3>2, <3>4, <3>5, <3>6, BehindShape DEF Queues
    <3>8. Len(d.q) = 2
      BY <3>4, <3>7
    <3>10. d.gen = m.gen /\ d.need = m.need /\ d.lossy = m.lossy
      BY <3>5 DEF Behind
    <3>11. d.q = Append(<<Marker>>, Bytes(snapshot))
      BY <1>4, <3>7
    <3> QED
      BY <1>2, <1>4, <2>2, <3>3, <3>7, <3>8, <3>10, <3>11
  <2> QED
    BY <2>1, <2>2
<1> HIDE DEF d
<1>6. QueueShape(t) /\ t.gen = s.gen /\ t.need = FALSE /\ t.lossy = s.lossy /\ t.q = Append(d.q, f)
  <2>1. FrameLen(f) # 0 /\ f \in Message /\ f.kind \in Queues /\ f.kind # "marker"
    BY FrameFacts DEF Broadcastable, Queues
  <2>2. d.q \in Seq(Message) /\ d.need \in BOOLEAN /\ d.lossy \in BOOLEAN
    BY <1>5 DEF QueueShape
  <2>3. PICK n \in 0 .. Len(d.q) :
            Behind(d, t, f, n, FALSE) /\ (~FALSE /\ Len(d.q) < FrameCap => n = 0)
    BY <1>5, <2>1, <2>2, SendBehind
  <2>4. n = 0
    BY <1>5, <2>3
  <2> HIDE DEF t
  <2>5. QueueShape(t) /\ t.q = Append(d.q, f)
    BY <1>5, <2>1, <2>3, <2>4, BehindShape
  <2>6. t.gen = d.gen /\ t.need = d.need /\ t.lossy = d.lossy
    BY <2>3 DEF Behind
  <2> QED
    BY <1>5, <2>5, <2>6
<1> HIDE DEF t
<1> QED
  BY <1>1, <1>5, <1>6 DEF Told

\* What enqueueLocked does to a queue that is not closed.
LEMMA EnqueueTook ==
    ASSUME NEW s, Shape(s), QueueShape(s), ~s.swapped, NEW f, Broadcastable(f),
           NEW snapshot \in Seq(Output)
    PROVE  Took(s, Enqueue(s, f, snapshot), f, snapshot)
<1> DEFINE t == Enqueue(s, f, snapshot)
<1>1. t.swapped = s.swapped
  BY EnqueueQueued DEF Queued
<1>2. CASE s.need
  <2>1. t = Restarted(s, f, snapshot)
    BY <1>2 DEF Enqueue
  <2> HIDE DEF t
  <2>2. /\ QueueShape(t) /\ t.gen = s.gen
        /\ ~t.need /\ t.lossy = s.lossy /\ t.q = Told(snapshot, f)
    BY <2>1, RestartTold
  <2> QED
    BY <1>1, <1>2, <2>2 DEF Took, t
<1>3. CASE ~s.need
  <2>1. t = Send(s, f, TRUE, TRUE)
    BY <1>3 DEF Enqueue
  <2>2. FrameLen(f) # 0 /\ f \in Message /\ f.kind \in Queues /\ f.kind # "marker"
    BY FrameFacts DEF Broadcastable, Queues
  <2>3. s.q \in Seq(Message) /\ s.need \in BOOLEAN /\ s.lossy \in BOOLEAN
    BY DEF QueueShape
  <2> HIDE DEF t
  <2>4. PICK n \in 0 .. Len(s.q) : Behind(s, t, f, n, TRUE)
    BY <2>1, <2>2, <2>3, SendBehind
  <2>5. QueueShape(t) /\ (n = 0 => t.q = Append(s.q, f))
    BY <2>2, <2>4, BehindShape
  <2>6. CASE n = 0
    BY <1>1, <1>3, <2>4, <2>5, <2>6 DEF Took, Behind, t, QueueShape
  <2>7. CASE n # 0
    <3>1. n > 0 /\ t.gen = s.gen /\ t.need
      BY <2>4, <2>7 DEF Behind
    <3> QED
      BY <1>1, <2>5, <3>1 DEF Took, t
  <2> QED
    BY <2>6, <2>7
<1> QED
  BY <1>2, <1>3
-----------------------------------------------------------------------------
(* Where the bytes on their way belong.                                    *)

\* From position p a message leads to position r: the bytes of host g that it
\* carries end at r and leave no gap behind p; a strict one repeats none either.
Link(g, p, m, r, strict) ==
    /\ m.kind \in {"bytes", "snapshot"} =>
          Len(m.data) <= r /\ m.data = Ending(g, r, Len(m.data))
    /\ m.kind = "bytes" => r - Len(m.data) <= p /\ (strict => r - Len(m.data) = p)
    /\ m.kind = "snapshot" => m.seq = r
    /\ m.kind \notin {"bytes", "snapshot"} => r = p
    /\ m.kind = "recovery" /\ strict => m.seq = p

\* No marker among what comes from the i-th message on.
NoMarker(msgs, i) == \A j \in i .. Len(msgs) : msgs[j].kind # "marker"

SnapshotComes(msgs) == msgs # <<>> /\ msgs[1].kind = "snapshot"

Links(s, msgs, pos) ==
    /\ pos \in [0 .. Len(msgs) -> 0 .. MaxOut]
    /\ \A i \in 1 .. Len(msgs) :
          NoMarker(msgs, i) => Link(s.gen, pos[i - 1], msgs[i], pos[i], ~s.lossy)
    /\ ~s.lossy => NoMarker(msgs, 1)

\* What is on its way continues the run.
Continues(s, msgs, cl, from) ==
    /\ NoMarker(msgs, 1) =>
          /\ ~Gap(cl.run)
          /\ \/ SnapshotComes(msgs) \/ cl.run = <<>> \/ Last(cl.run)[1] # s.gen
             \/ from <= Last(cl.run)[2]
    /\ ~s.lossy /\ ~SnapshotComes(msgs) =>
          from = cl.lastSeq /\ (cl.run = <<>> \/ cl.gen = s.gen)

\* What is about to be broadcast continues what is on its way.
Continued(s, to, flushed) ==
    ~s.swapped => flushed <= to /\ (~s.lossy => flushed = to)

\* The run, what is on its way behind it and what has been broadcast, in a row.
Joins(s, msgs, cl, flushed, pos) ==
    /\ Links(s, msgs, pos)
    /\ Continues(s, msgs, cl, pos[0])
    /\ Continued(s, pos[Len(msgs)], flushed)

Joined(s, msgs, cl, flushed) == ~s.need => \E pos : Joins(s, msgs, cl, flushed, pos)

Alike(s, t) == t.gen = s.gen /\ t.lossy = s.lossy /\ t.swapped = s.swapped

\* A message goes behind the others.
LEMMA JoinsAppend ==
    ASSUME NEW s, NEW t, Alike(s, t), NEW msgs \in Seq(Message), NEW cl, NEW flushed, NEW pos,
           Joins(s, msgs, cl, flushed, pos),
           NEW f \in Message, f.kind \notin {"marker", "snapshot"}, NEW r \in 0 .. MaxOut,
           Link(s.gen, pos[Len(msgs)], f, r, ~s.lossy),
           NEW flushed2, Continued(s, r, flushed2)
    PROVE  \E pos2 : Joins(t, Append(msgs, f), cl, flushed2, pos2)
<1> DEFINE n == Len(msgs)
           msgs2 == Append(msgs, f)
           pos2 == [i \in 0 .. n + 1 |-> IF i <= n THEN pos[i] ELSE r]
<1>1. n \in Nat /\ msgs2 \in Seq(Message) /\ Len(msgs2) = n + 1 /\ msgs2[n + 1] = f
      /\ \A i \in 1 .. n : msgs2[i] = msgs[i]
  OBVIOUS
<1>2. /\ pos \in [0 .. n -> 0 .. MaxOut]
      /\ \A i \in 1 .. n :
            NoMarker(msgs, i) => Link(s.gen, pos[i - 1], msgs[i], pos[i], ~s.lossy)
      /\ ~s.lossy => NoMarker(msgs, 1)
  BY DEF Joins, Links
<1>3. pos2 \in [0 .. n + 1 -> 0 .. MaxOut] /\ pos2[n + 1] = r
      /\ \A i \in 0 .. n : pos2[i] = pos[i]
  BY <1>1, <1>2
<1> HIDE DEF n, msgs2, pos2
<1>4. \A i \in 1 .. n + 1 : NoMarker(msgs2, i) => (i <= n => NoMarker(msgs, i))
  BY <1>1 DEF NoMarker, n
<1>5. NoMarker(msgs, 1) <=> NoMarker(msgs2, 1)
  BY <1>1 DEF NoMarker, n
<1>6. SnapshotComes(msgs) <=> SnapshotComes(msgs2)
  <2>1. CASE n = 0
    <3>1. msgs = <<>>
      BY <2>1 DEF n
    <3>2. msgs2[1] = f
      BY <1>1, <2>1
    <3> QED
      BY <3>1, <3>2 DEF SnapshotComes
  <2>2. CASE n # 0
    <3>1. msgs # <<>> /\ msgs2 # <<>> /\ msgs2[1] = msgs[1]
      BY <1>1, <2>2 DEF n
    <3> QED
      BY <3>1 DEF SnapshotComes
  <2> QED
    BY <2>1, <2>2
<1>7. t.gen = s.gen /\ t.lossy = s.lossy /\ t.swapped = s.swapped
  BY DEF Alike
<1>8. Links(t, msgs2, pos2)
  <2>1. ASSUME NEW i \in 1 .. n + 1, NoMarker(msgs2, i)
        PROVE  Link(s.gen, pos2[i - 1], msgs2[i], pos2[i], ~s.lossy)
    <3>1. CASE i <= n
      <4>1. i \in 1 .. n /\ NoMarker(msgs, i)
        BY <1>1, <1>4, <2>1, <3>1
      <4>2. pos2[i - 1] = pos[i - 1] /\ pos2[i] = pos[i] /\ msgs2[i] = msgs[i]
        BY <1>1, <1>3, <4>1
      <4> QED
        BY <1>2, <4>1, <4>2
    <3>2. CASE i = n + 1
      <4>1. pos2[i - 1] = pos[n] /\ pos2[i] = r /\ msgs2[i] = f
        BY <1>1, <1>3, <3>2
      <4> QED
        BY <4>1 DEF n
    <3> QED
      BY <1>1, <3>1, <3>2
  <2> QED
    BY <1>1, <1>2, <1>3, <1>5, <1>7, <2>1 DEF Links
<1>9. Continues(t, msgs2, cl, pos2[0])
  <2>1. pos2[0] = pos[0]
    BY <1>1, <1>3
  <2> QED
    BY <1>5, <1>6, <1>7, <2>1 DEF Joins, Continues
<1>10. Continued(t, pos2[Len(msgs2)], flushed2)
  BY <1>1, <1>3, <1>7 DEF Continued
<1>11. Joins(t, msgs2, cl, flushed2, pos2)
  BY <1>8, <1>9, <1>10 DEF Joins
<1> QED
  BY <1>11 DEF msgs2

\* Behind a marker everything starts again.
LEMMA JoinsMarker ==
    ASSUME NEW s, s.lossy, NEW w \in Seq(Message), NEW cl, NEW flushed, flushed <= MaxOut
    PROVE  \E pos : /\ Joins(s, Append(w, Marker), cl, flushed, pos)
                    /\ pos[Len(w) + 1] = MaxOut
<1> DEFINE n == Len(w)
           msgs == Append(w, Marker)
           pos == [i \in 0 .. n + 1 |-> MaxOut]
<1>1. Marker \in Message /\ Marker.kind = "marker" /\ MaxOut \in Nat
  BY FrameFacts, StreamAssumption
<1>2. n \in Nat /\ Len(msgs) = n + 1 /\ msgs[n + 1] = Marker
  BY <1>1
<1>3. pos \in [0 .. n + 1 -> 0 .. MaxOut] /\ pos[n + 1] = MaxOut
  BY <1>1, <1>2
<1> HIDE DEF n, msgs, pos
<1>4. \A i \in 1 .. n + 1 : ~NoMarker(msgs, i)
  BY <1>1, <1>2 DEF NoMarker
<1>5. Links(s, msgs, pos)
  BY <1>2, <1>3, <1>4 DEF Links
<1>6. Continues(s, msgs, cl, pos[0])
  BY <1>2, <1>4 DEF Continues
<1>7. Continued(s, pos[Len(msgs)], flushed)
  BY <1>2, <1>3 DEF Continued
<1>8. Joins(s, msgs, cl, flushed, pos)
  BY <1>5, <1>6, <1>7 DEF Joins
<1> QED
  BY <1>3, <1>8 DEF msgs, n
-----------------------------------------------------------------------------
(* What the browser shows.                                                 *)

ClientRecord ==
    [conn : Conns \cup {NoConn}, lastSeq : Nat, gen : 0 .. MaxGen,
     exact : BOOLEAN, above : Seq(Nat \X Nat), run : Seq(Output)]

\* A sequence whose elements are of another set is one of that set's.
LEMMA SeqOfElements ==
    ASSUME NEW S, NEW T, NEW s \in Seq(S), \A i \in 1 .. Len(s) : s[i] \in T
    PROVE  s \in Seq(T)
<1>1. Len(s) \in Nat /\ s \in [1 .. Len(s) -> T]
  OBVIOUS
<1> QED
  BY <1>1

\* The page is text, a mark is one piece of it, and the page up to its run is what
\* is above the run.
LEMMA PageFacts ==
    ASSUME NEW cl \in ClientRecord
    PROVE  /\ Page(cl) \in Seq(Nat \X Nat)
           /\ Page(cl) \o MarkText(cl) = Append(Page(cl), <<cl.gen, 0>>)
           /\ Page(cl) \o MarkText(cl) \in Seq(Nat \X Nat)
           /\ Page(cl) \o <<>> = Page(cl) /\ Append(Page(cl), <<cl.gen, 0>>) \o <<>>
                                             = Append(Page(cl), <<cl.gen, 0>>)
           /\ SubSeq(Page(cl), 1, Len(Page(cl)) - Len(cl.run)) = cl.above
<1> DEFINE a == cl.above
           r == cl.run
           t == Page(cl)
           mark == <<cl.gen, 0>>
<1>1. a \in Seq(Nat \X Nat) /\ r \in Seq(Output) /\ mark \in Nat \X Nat
  BY Bounds DEF ClientRecord
<1>2. \A b \in Output : b \in Nat \X Nat
  BY Bounds DEF Output
<1>3. r \in Seq(Nat \X Nat)
  <2>1. \A i \in 1 .. Len(r) : r[i] \in Nat \X Nat
    BY <1>1, <1>2
  <2> QED
    BY <1>1, <2>1, SeqOfElements
<1>4. t = a \o r /\ MarkText(cl) = <<mark>>
  BY DEF Page, MarkText
<1> HIDE DEF a, r, t, mark
<1>5. t \in Seq(Nat \X Nat) /\ Len(t) - Len(r) = Len(a) /\ Len(a) \in Nat
      /\ \A i \in 1 .. Len(a) : t[i] = a[i]
  BY <1>1, <1>3, <1>4
<1>6. t \o <<mark>> = Append(t, mark) /\ Append(t, mark) \in Seq(Nat \X Nat)
  BY <1>1, <1>5
<1>7. t \o <<>> = t /\ Append(t, mark) \o <<>> = Append(t, mark)
  BY <1>5, <1>6, ConcatEmptySeq
<1>8. SubSeq(t, 1, Len(a)) = a
  BY <1>1, <1>5
<1> QED
  BY <1>4, <1>5, <1>6, <1>7, <1>8 DEF a, r, t, mark

\* What an exact client shows ends where it says that it is.
ScreenExact(cl) ==
    /\ cl.lastSeq <= MaxOut /\ Len(cl.run) <= cl.lastSeq
    /\ cl.run = Ending(cl.gen, cl.lastSeq, Len(cl.run))

\* A run of bytes has no gap, and its last byte is where it ends.
LEMMA EndingGapless ==
    ASSUME NEW g \in 0 .. MaxGen, NEW seq \in 0 .. MaxOut, NEW n \in 0 .. seq
    PROVE  /\ ~Gap(Ending(g, seq, n))
           /\ n # 0 => Ending(g, seq, n)[n] = <<g, seq>>
<1> DEFINE s == Ending(g, seq, n)
<1>1. s \in Seq(Output) /\ Len(s) = n /\ \A i \in 1 .. n : s[i] = <<g, seq - n + i>>
  BY EndingFacts
<1> HIDE DEF s
<1>2. ASSUME NEW i \in 1 .. Len(s) - 1 PROVE ~(s[i + 1][2] > s[i][2] + 1)
  <2>1. i \in 1 .. n /\ i + 1 \in 1 .. n /\ seq \in Nat /\ n \in Nat
    BY <1>1, Bounds
  <2>2. s[i] = <<g, seq - n + i>> /\ s[i + 1] = <<g, seq - n + (i + 1)>>
    BY <1>1, <2>1
  <2>3. s[i][2] = seq - n + i /\ s[i + 1][2] = seq - n + (i + 1)
    BY <2>2
  <2> QED
    BY <2>1, <2>3
<1>3. n # 0 => s[n] = <<g, seq>>
  <2>1. n \in Nat /\ seq \in Nat /\ (n # 0 => n \in 1 .. n) /\ seq - n + n = seq
    BY Bounds
  <2> QED
    BY <1>1, <2>1
<1>4. ~Gap(s)
  BY <1>2 DEF Gap
<1> QED
  BY <1>3, <1>4 DEF s

\* Bytes that leave no gap behind what is shown are shown without one.
LEMMA ShownGapless ==
    ASSUME NEW run \in Seq(Output), ~Gap(run), NEW g \in 0 .. MaxGen,
           NEW data \in Seq(Output), NEW r \in 0 .. MaxOut, NEW p \in 0 .. MaxOut,
           Len(data) <= r, data = Ending(g, r, Len(data)), r - Len(data) <= p,
           run = <<>> \/ Last(run)[1] # g \/ p <= Last(run)[2]
    PROVE  LET shown == run \o data
           IN  /\ ~Gap(shown)
               /\ shown = <<>> \/ Last(shown)[1] # g \/ r <= Last(shown)[2]
<1> DEFINE m == Len(run)
           n == Len(data)
           shown == run \o data
<1>1. /\ m \in Nat /\ n \in Nat /\ shown \in Seq(Output) /\ Len(shown) = m + n
      /\ \A i \in 1 .. m : shown[i] = run[i]
      /\ \A i \in 1 .. n : shown[m + i] = data[i]
  OBVIOUS
<1>10. m \in Nat /\ n \in Nat /\ n \in 0 .. r
  BY <1>1, Bounds
<1>2. \A i \in 1 .. n : data[i] = <<g, r - n + i>>
  <2>1. data = Ending(g, r, n)
    OBVIOUS
  <2>2. \A i \in 1 .. n : Ending(g, r, n)[i] = <<g, r - n + i>>
    BY <1>10, EndingFacts
  <2> QED
    BY <2>1, <2>2
<1>3. /\ \A i \in 1 .. m : run[i][2] \in Nat
      /\ \A i \in 1 .. m - 1 : ~(run[i + 1][1] = run[i][1]
                                 /\ run[i + 1][2] > run[i][2] + 1)
  <2>1. \A i \in 1 .. m : run[i] \in Output
    OBVIOUS
  <2>2. \A b \in Output : b[2] \in Nat
    BY DEF Output
  <2> QED
    BY <2>1, <2>2 DEF Gap
<1>4. m # 0 => Last(run) = run[m]
  BY DEF Last
<1>5. m = 0 \/ run[m][1] # g \/ p <= run[m][2]
  <2>1. m # 0 => run # <<>>
    OBVIOUS
  <2> QED
    BY <1>4, <2>1
<1>6. r \in Nat /\ p \in Nat /\ r - n <= p
  BY Bounds
<1> HIDE DEF m, n, shown
<1>7. ASSUME NEW i \in 1 .. (m + n) - 1
      PROVE ~(shown[i + 1][1] = shown[i][1] /\ shown[i + 1][2] > shown[i][2] + 1)
  <2>1. CASE i < m
    <3>1. i \in 1 .. m - 1 /\ i \in 1 .. m /\ i + 1 \in 1 .. m
      BY <1>10, <2>1
    <3>2. shown[i] = run[i] /\ shown[i + 1] = run[i + 1]
      BY <1>1, <3>1
    <3> QED
      BY <1>3, <3>1, <3>2
  <2>2. CASE i = m
    <3>5. m # 0 /\ m \in 1 .. m /\ 1 \in 1 .. n /\ i + 1 = m + 1
      BY <1>10, <2>2
    <3>1. shown[i] = run[m] /\ shown[i + 1] = data[1]
      BY <1>1, <2>2, <3>5
    <3>2. data[1] = <<g, r - n + 1>>
      BY <1>2, <3>5
    <3>3. data[1][1] = g /\ data[1][2] = r - n + 1
      BY <3>2
    <3>4. run[m][2] \in Nat
      BY <1>3, <3>5
    <3>6. CASE run[m][1] # g
      BY <3>1, <3>3, <3>6
    <3>7. CASE p <= run[m][2]
      <4>1. ~(r - n + 1 > run[m][2] + 1)
        BY <1>6, <1>10, <3>4, <3>7
      <4> QED
        BY <3>1, <3>3, <4>1
    <3> QED
      BY <1>5, <3>5, <3>6, <3>7
  <2>3. CASE i > m
    <3> DEFINE j == i - m
    <3>1. j \in 1 .. n /\ j + 1 \in 1 .. n /\ m + j = i /\ m + (j + 1) = i + 1
      BY <1>10, <2>3
    <3> HIDE DEF j
    <3>2. shown[i] = data[j] /\ shown[i + 1] = data[j + 1]
      BY <1>1, <3>1
    <3>3. data[j] = <<g, r - n + j>> /\ data[j + 1] = <<g, r - n + (j + 1)>>
      BY <1>2, <3>1
    <3>4. data[j][2] = r - n + j /\ data[j + 1][2] = r - n + (j + 1)
      BY <3>3
    <3> QED
      BY <1>1, <1>6, <3>1, <3>2, <3>4
  <2> QED
    BY <1>1, <2>1, <2>2, <2>3
<1>8. ~Gap(shown)
  BY <1>1, <1>7 DEF Gap
<1>9. shown = <<>> \/ Last(shown)[1] # g \/ r <= Last(shown)[2]
  <2>1. CASE n = 0
    <3>1. shown = run
      BY <2>1 DEF n, shown
    <3>2. r <= p
      BY <1>6, <2>1
    <3>3. m # 0 => run[m][2] \in Nat
      BY <1>1, <1>3
    <3>4. CASE m = 0
      BY <1>1, <2>1, <3>4
    <3>5. CASE m # 0
      BY <1>4, <1>5, <1>6, <3>1, <3>2, <3>3, <3>5
    <3> QED
      BY <3>4, <3>5
  <2>2. CASE n # 0
    <3>1. Last(shown) = shown[m + n]
      BY <1>1 DEF Last
    <3>2. n \in 1 .. n /\ shown[m + n] = data[n]
      BY <1>1, <2>2
    <3>3. data[n] = <<g, r - n + n>>
      BY <1>2, <3>2
    <3>4. data[n][2] = r
      BY <1>1, <1>6, <3>3
    <3> QED
      BY <1>6, <3>1, <3>2, <3>4
  <2> QED
    BY <2>1, <2>2
<1> QED
  BY <1>8, <1>9 DEF shown

\* A client that was exact and is given what comes next is exact.
LEMMA ShownExact ==
    ASSUME NEW run \in Seq(Output), NEW g \in 0 .. MaxGen, NEW p \in 0 .. MaxOut,
           Len(run) <= p, run = Ending(g, p, Len(run)),
           NEW data \in Seq(Output), NEW r \in 0 .. MaxOut,
           r = p + Len(data), data = Ending(g, r, Len(data))
    PROVE  /\ Len(run \o data) <= r
           /\ run \o data = Ending(g, r, Len(run \o data))
<1>1. Len(run \o data) = Len(run) + Len(data) /\ Len(run) \in Nat /\ Len(data) \in Nat
  OBVIOUS
<1>2. Len(run) \in 0 .. p /\ p + Len(data) \in 0 .. MaxOut
  BY <1>1
<1> DEFINE m == Len(run)
           n == Len(data)
<1> HIDE DEF m, n
<1>3. Ending(g, p, m) \o Ending(g, p + n, n) = Ending(g, p + n, m + n)
  BY <1>1, <1>2, EndingGrows DEF m, n
<1>4. run = Ending(g, p, m) /\ data = Ending(g, p + n, n) /\ p + n = r
  BY DEF m, n
<1>5. run \o data = Ending(g, r, m + n)
  BY <1>3, <1>4
<1>6. Len(run \o data) = m + n /\ m + n <= r
  BY <1>1, <1>2, Bounds DEF m, n
<1> QED
  BY <1>5, <1>6
-----------------------------------------------------------------------------
(* A message is received.                                                  *)

\* What a message of host g makes of a client.
Shown(g, cl, m, cl2) ==
    /\ cl2.conn = cl.conn
    /\ m.kind = "snapshot" =>
          cl2.lastSeq = m.seq /\ cl2.gen = g /\ cl2.exact = TRUE /\ cl2.run = m.data
    /\ m.kind # "snapshot" => cl2.exact = cl.exact
    /\ cl2.above = CASE m.kind = "snapshot" -> Page(cl)
                     [] m.kind = "marker" -> Page(cl) \o MarkText(cl)
                     [] OTHER -> cl.above
    /\ m.kind = "bytes" =>
          cl2.lastSeq = cl.lastSeq + Len(m.data) /\ cl2.gen = g /\ cl2.run = cl.run \o m.data
    /\ m.kind = "marker" =>
          cl2.lastSeq = cl.lastSeq + MarkerLen /\ cl2.gen = cl.gen /\ cl2.run = <<>>
    /\ m.kind = "resize" =>
          cl2.lastSeq = cl.lastSeq /\ cl2.gen = cl.gen /\ cl2.run = cl.run
    /\ m.kind = "recovery" =>
          cl2.lastSeq = m.seq /\ cl2.gen = g /\ cl2.run = cl.run

\* Each kind of message, and the client it makes.
LEMMA ReceivedShown ==
    ASSUME NEW cl \in ClientRecord, NEW m \in Message, m.kind # "closed",
           sub[cl.conn].gen \in 0 .. MaxGen
    PROVE  Received(cl, m) \in ClientRecord /\ Shown(sub[cl.conn].gen, cl, m, Received(cl, m))
<1> DEFINE g == sub[cl.conn].gen
           t == Received(cl, m)
<1>1. /\ m.seq \in Nat /\ m.data \in Seq(Output) /\ Len(m.data) \in Nat /\ MarkerLen \in Nat
      /\ cl.lastSeq \in Nat /\ cl.run \in Seq(Output) /\ <<>> \in Seq(Output)
      /\ Page(cl) \in Seq(Nat \X Nat) /\ Page(cl) \o MarkText(cl) \in Seq(Nat \X Nat)
  BY StreamAssumption, PageFacts DEF Message, ClientRecord
<1>2. g \in 0 .. MaxGen
  OBVIOUS
<1> HIDE DEF g
<1>3. CASE m.kind = "snapshot"
  <2> DEFINE yes == TRUE
  <2>1. t = [cl EXCEPT !.lastSeq = m.seq, !.gen = g, !.exact = yes,
                       !.above = Page(cl), !.run = m.data]
    BY <1>3 DEF Received, g
  <2>2. yes \in BOOLEAN /\ yes = TRUE
    OBVIOUS
  <2> HIDE DEF yes, t
  <2>3. t \in ClientRecord
    BY <1>1, <1>2, <2>1, <2>2 DEF ClientRecord
  <2>4. t.conn = cl.conn /\ t.lastSeq = m.seq /\ t.gen = g /\ t.exact = yes /\ t.run = m.data
        /\ t.above = Page(cl)
    BY <2>1 DEF ClientRecord
  <2> QED
    BY <1>3, <2>2, <2>3, <2>4 DEF Shown, g, t
<1>4. CASE m.kind = "bytes"
  <2> DEFINE n == cl.lastSeq + Len(m.data)
             shown == cl.run \o m.data
  <2>1. t = [cl EXCEPT !.lastSeq = n, !.gen = g, !.run = shown]
    BY <1>4 DEF Received, g
  <2>2. n \in Nat /\ shown \in Seq(Output)
    BY <1>1
  <2> HIDE DEF t, n, shown
  <2>3. t \in ClientRecord
    BY <1>1, <1>2, <2>1, <2>2 DEF ClientRecord
  <2>4. t.conn = cl.conn /\ t.lastSeq = n /\ t.gen = g /\ t.exact = cl.exact /\ t.run = shown
        /\ t.above = cl.above
    BY <2>1 DEF ClientRecord
  <2> QED
    BY <1>4, <2>3, <2>4 DEF Shown, g, t, n, shown
<1>5. CASE m.kind = "marker"
  <2> DEFINE n == cl.lastSeq + MarkerLen
  <2>1. t = [cl EXCEPT !.lastSeq = n, !.above = Page(cl) \o MarkText(cl), !.run = <<>>]
    BY <1>5 DEF Received
  <2>2. n \in Nat
    BY <1>1
  <2> HIDE DEF t, n
  <2>3. t \in ClientRecord
    BY <1>1, <2>1, <2>2 DEF ClientRecord
  <2>4. t.conn = cl.conn /\ t.lastSeq = n /\ t.gen = cl.gen /\ t.exact = cl.exact /\ t.run = <<>>
        /\ t.above = Page(cl) \o MarkText(cl)
    BY <2>1 DEF ClientRecord
  <2> QED
    BY <1>5, <2>3, <2>4 DEF Shown, t, n
<1>6. CASE m.kind = "resize"
  <2>1. t = cl
    BY <1>6 DEF Received
  <2> QED
    BY <1>6, <2>1 DEF Shown
<1>7. CASE m.kind = "recovery"
  <2>1. t = [cl EXCEPT !.lastSeq = m.seq, !.gen = g]
    BY <1>7 DEF Received, g
  <2> HIDE DEF t
  <2>3. t \in ClientRecord
    BY <1>1, <1>2, <2>1 DEF ClientRecord
  <2>4. t.conn = cl.conn /\ t.lastSeq = m.seq /\ t.gen = g /\ t.exact = cl.exact
        /\ t.run = cl.run /\ t.above = cl.above
    BY <2>1 DEF ClientRecord
  <2> QED
    BY <1>7, <2>3, <2>4 DEF Shown, g, t
<1> QED
  BY <1>3, <1>4, <1>5, <1>6, <1>7 DEF Message

\* What is on its way behind the message continues what is shown then.
LEMMA JoinsReceived ==
    ASSUME NEW s, QueueShape(s), NEW msgs \in Seq(Message), msgs # <<>>,
           msgs[1].kind # "closed", \A i \in 2 .. Len(msgs) : msgs[i].kind # "snapshot",
           NEW flushed, NEW pos, NEW cl \in ClientRecord, Joins(s, msgs, cl, flushed, pos),
           NEW cl2 \in ClientRecord, Shown(s.gen, cl, msgs[1], cl2)
    PROVE  /\ \E pos2 : Joins(s, Tail(msgs), cl2, flushed, pos2)
           /\ ~s.lossy /\ (cl.exact => ScreenExact(cl)) => (cl2.exact => ScreenExact(cl2))
<1> DEFINE n == Len(msgs)
           m == msgs[1]
           rest == Tail(msgs)
           pos2 == [i \in 0 .. n - 1 |-> pos[i + 1]]
<1>1. /\ n \in Nat \ {0} /\ rest \in Seq(Message) /\ Len(rest) = n - 1 /\ m \in Message
      /\ \A i \in 1 .. n - 1 : rest[i] = msgs[i + 1]
  OBVIOUS
<1>2. /\ pos \in [0 .. n -> 0 .. MaxOut]
      /\ \A i \in 1 .. n :
            NoMarker(msgs, i) => Link(s.gen, pos[i - 1], msgs[i], pos[i], ~s.lossy)
      /\ ~s.lossy => NoMarker(msgs, 1)
  BY DEF Joins, Links
<1>3. /\ pos2 \in [0 .. n - 1 -> 0 .. MaxOut]
      /\ \A i \in 0 .. n - 1 : pos2[i] = pos[i + 1]
  BY <1>1, <1>2
<1>4. 0 \in 0 .. n /\ 1 \in 0 .. n /\ 1 \in 1 .. n /\ pos[0] \in 0 .. MaxOut /\ pos[1] \in 0 .. MaxOut
  BY <1>1, <1>2
<1>5. s.gen \in 0 .. MaxGen /\ s.lossy \in BOOLEAN
  BY DEF QueueShape
<1>6. cl.run \in Seq(Output) /\ m.data \in Seq(Output) /\ m.seq \in 0 .. MaxOut
      /\ cl.lastSeq \in Nat /\ cl.exact \in BOOLEAN
      /\ m.kind \in {"bytes", "marker", "resize", "snapshot", "recovery"}
  BY <1>1 DEF ClientRecord, Message
<1>7. Continues(s, msgs, cl, pos[0])
  BY DEF Joins
<1>8. msgs[1] = m
  OBVIOUS
<1> HIDE DEF n, m, rest, pos2
<1>9. ~SnapshotComes(rest)
  <2>1. SUFFICES ASSUME rest # <<>> PROVE rest[1].kind # "snapshot"
    BY DEF SnapshotComes
  <2>2. Len(rest) # 0
    BY <1>1, <2>1
  <2>3. 1 \in 1 .. n - 1 /\ rest[1] = msgs[2] /\ 2 \in 2 .. n
    BY <1>1, <2>2
  <2> QED
    BY <2>3 DEF n
<1>10. \A i \in 1 .. n - 1 : NoMarker(rest, i) => NoMarker(msgs, i + 1)
  <2> SUFFICES ASSUME NEW i \in 1 .. n - 1, NoMarker(rest, i), NEW j \in i + 1 .. n
               PROVE  msgs[j].kind # "marker"
    BY DEF NoMarker, n
  <2>1. j - 1 \in i .. n - 1 /\ j - 1 \in 1 .. n - 1 /\ (j - 1) + 1 = j
    BY <1>1
  <2>2. rest[j - 1] = msgs[(j - 1) + 1]
    BY <1>1, <2>1
  <2> QED
    BY <1>1, <2>1, <2>2 DEF NoMarker
<1>11. NoMarker(rest, 1) /\ m.kind # "marker" => NoMarker(msgs, 1)
  <2> SUFFICES ASSUME NoMarker(rest, 1), m.kind # "marker", NEW j \in 1 .. n
               PROVE  msgs[j].kind # "marker"
    BY DEF NoMarker, n
  <2>1. CASE j = 1
    BY <1>8, <2>1
  <2>2. CASE j # 1
    <3>1. j - 1 \in 1 .. n - 1 /\ (j - 1) + 1 = j
      BY <1>1, <2>2
    <3>2. rest[j - 1] = msgs[(j - 1) + 1]
      BY <1>1, <3>1
    <3> QED
      BY <1>1, <3>1, <3>2 DEF NoMarker
  <2> QED
    BY <2>1, <2>2
<1>12. NoMarker(msgs, 1) => NoMarker(rest, 1) /\ m.kind # "marker"
  <2> SUFFICES ASSUME NoMarker(msgs, 1) PROVE NoMarker(rest, 1) /\ m.kind # "marker"
    OBVIOUS
  <2>1. m.kind # "marker"
    BY <1>4, <1>8 DEF NoMarker, n
  <2>2. ASSUME NEW j \in 1 .. n - 1 PROVE rest[j].kind # "marker"
    <3>1. j + 1 \in 1 .. n /\ rest[j] = msgs[j + 1]
      BY <1>1
    <3> QED
      BY <3>1 DEF NoMarker, n
  <2> QED
    BY <1>1, <2>1, <2>2 DEF NoMarker
<1>13. NoMarker(msgs, 1) => Link(s.gen, pos[0], m, pos[1], ~s.lossy)
  BY <1>2, <1>4, <1>8
<1>14. Links(s, rest, pos2)
  <2>1. ASSUME NEW i \in 1 .. n - 1, NoMarker(rest, i)
        PROVE  Link(s.gen, pos2[i - 1], rest[i], pos2[i], ~s.lossy)
    <3>5. n \in Nat /\ i \in Nat /\ 1 <= i /\ i <= n - 1
      BY <1>1
    <3>1. i + 1 \in 1 .. n /\ i - 1 \in 0 .. n - 1 /\ i \in 0 .. n - 1
          /\ (i - 1) + 1 = i /\ (i + 1) - 1 = i
      BY <3>5
    <3>2. pos2[i - 1] = pos[i] /\ pos2[i] = pos[i + 1] /\ rest[i] = msgs[i + 1]
      BY <1>1, <1>3, <3>1
    <3>3. NoMarker(msgs, i + 1)
      BY <1>10, <2>1
    <3>4. Link(s.gen, pos[(i + 1) - 1], msgs[i + 1], pos[i + 1], ~s.lossy)
      BY <1>2, <3>1, <3>3
    <3> QED
      BY <3>1, <3>2, <3>4
  <2> QED
    BY <1>1, <1>2, <1>3, <1>12, <2>1 DEF Links
<1>15. pos2[0] = pos[1] /\ pos2[Len(rest)] = pos[n]
  <2>1. 0 \in 0 .. n - 1 /\ n - 1 \in 0 .. n - 1 /\ (n - 1) + 1 = n /\ 0 + 1 = 1
    BY <1>1
  <2> QED
    BY <1>1, <1>3, <2>1
<1>16. NoMarker(rest, 1) =>
          /\ ~Gap(cl2.run)
          /\ cl2.run = <<>> \/ Last(cl2.run)[1] # s.gen \/ pos[1] <= Last(cl2.run)[2]
  <2> SUFFICES ASSUME NoMarker(rest, 1)
               PROVE  /\ ~Gap(cl2.run)
                      /\ \/ cl2.run = <<>> \/ Last(cl2.run)[1] # s.gen
                         \/ pos[1] <= Last(cl2.run)[2]
    OBVIOUS
  <2>1. CASE m.kind = "marker"
    <3>1. cl2.run = <<>>
      BY <1>8, <2>1 DEF Shown
    <3>2. ~Gap(<<>>)
      BY DEF Gap
    <3> QED
      BY <3>1, <3>2
  <2>2. CASE m.kind = "snapshot"
    <3>1. NoMarker(msgs, 1) /\ cl2.run = m.data
      BY <1>8, <1>11, <2>2 DEF Shown
    <3>2. Len(m.data) <= pos[1] /\ m.data = Ending(s.gen, pos[1], Len(m.data))
      BY <1>13, <2>2, <3>1 DEF Link
    <3> DEFINE l == Len(m.data)
    <3>3. l \in 0 .. pos[1] /\ pos[1] \in Nat
      BY <1>4, <1>6, <3>2
    <3> HIDE DEF l
    <3>4. ~Gap(Ending(s.gen, pos[1], l)) /\ (l # 0 => Ending(s.gen, pos[1], l)[l] = <<s.gen, pos[1]>>)
      BY <1>4, <1>5, <3>3, EndingGapless
    <3>5. m.data = Ending(s.gen, pos[1], l)
      BY <3>2 DEF l
    <3>6. l # 0 => Last(m.data) = <<s.gen, pos[1]>>
      BY <3>4, <3>5 DEF Last, l
    <3>7. l = 0 => m.data = <<>>
      BY <1>6 DEF l
    <3>8. l # 0 => pos[1] <= Last(m.data)[2]
      BY <3>3, <3>6
    <3> QED
      BY <3>1, <3>4, <3>5, <3>7, <3>8
  <2>3. CASE m.kind \notin {"marker", "snapshot"}
    <3>1. NoMarker(msgs, 1) /\ ~SnapshotComes(msgs)
      BY <1>8, <1>11, <2>3 DEF SnapshotComes
    <3>2. /\ ~Gap(cl.run)
          /\ cl.run = <<>> \/ Last(cl.run)[1] # s.gen \/ pos[0] <= Last(cl.run)[2]
      BY <1>7, <3>1 DEF Continues
    <3>3. CASE m.kind = "bytes"
      <4>1. cl2.run = cl.run \o m.data
        BY <1>8, <3>3 DEF Shown
      <4>2. Len(m.data) <= pos[1] /\ m.data = Ending(s.gen, pos[1], Len(m.data))
            /\ pos[1] - Len(m.data) <= pos[0]
        BY <1>13, <3>1, <3>3 DEF Link
      <4> QED
        BY <1>4, <1>5, <1>6, <3>2, <4>1, <4>2, ShownGapless
    <3>4. CASE m.kind # "bytes"
      <4>1. cl2.run = cl.run
        BY <1>6, <1>8, <2>3, <3>4 DEF Shown
      <4>2. pos[1] = pos[0]
        BY <1>13, <2>3, <3>1, <3>4 DEF Link
      <4> QED
        BY <3>2, <4>1, <4>2
    <3> QED
      BY <3>3, <3>4
  <2> QED
    BY <2>1, <2>2, <2>3
<1>17. ~s.lossy =>
          pos[1] = cl2.lastSeq /\ (cl2.run = <<>> \/ cl2.gen = s.gen)
  <2> SUFFICES ASSUME ~s.lossy
               PROVE  pos[1] = cl2.lastSeq /\ (cl2.run = <<>> \/ cl2.gen = s.gen)
    OBVIOUS
  <2>1. NoMarker(msgs, 1) /\ m.kind # "marker" /\ Link(s.gen, pos[0], m, pos[1], TRUE)
    BY <1>2, <1>12, <1>13
  <2>2. CASE m.kind = "snapshot"
    BY <1>8, <2>1, <2>2 DEF Shown, Link
  <2>3. CASE m.kind # "snapshot"
    <3>1. pos[0] = cl.lastSeq /\ (cl.run = <<>> \/ cl.gen = s.gen)
      BY <1>7, <1>8, <2>3 DEF Continues, SnapshotComes
    <3>2. CASE m.kind = "bytes"
      <4>1. pos[1] - Len(m.data) = pos[0] /\ cl2.lastSeq = cl.lastSeq + Len(m.data)
            /\ cl2.gen = s.gen
        BY <1>8, <2>1, <3>2 DEF Shown, Link
      <4>2. Len(m.data) \in Nat /\ pos[1] \in Nat /\ pos[0] \in Nat
        BY <1>4, <1>6
      <4> QED
        BY <3>1, <4>1, <4>2
    <3>3. CASE m.kind = "resize"
      BY <1>8, <2>1, <3>1, <3>3 DEF Shown, Link
    <3>4. CASE m.kind = "recovery"
      BY <1>8, <2>1, <3>1, <3>4 DEF Shown, Link
    <3> QED
      BY <1>6, <2>1, <2>3, <3>2, <3>3, <3>4
  <2> QED
    BY <2>2, <2>3
<1>18. Joins(s, rest, cl2, flushed, pos2)
  <2>1. Continues(s, rest, cl2, pos2[0])
    BY <1>15, <1>16, <1>17 DEF Continues
  <2>2. Continued(s, pos2[Len(rest)], flushed)
    BY <1>15 DEF Joins, n
  <2> QED
    BY <1>14, <2>1, <2>2 DEF Joins
<1>19. ASSUME ~s.lossy, cl.exact => ScreenExact(cl), cl2.exact PROVE ScreenExact(cl2)
  <2>1. NoMarker(msgs, 1) /\ m.kind # "marker" /\ Link(s.gen, pos[0], m, pos[1], TRUE)
    BY <1>2, <1>12, <1>13, <1>19
  <2>2. pos[1] = cl2.lastSeq /\ (cl2.run = <<>> \/ cl2.gen = s.gen)
    BY <1>17, <1>19
  <2>3. CASE m.kind = "snapshot"
    <3>1. cl2.run = m.data /\ cl2.gen = s.gen
      BY <1>8, <2>3 DEF Shown
    <3>2. Len(m.data) <= pos[1] /\ m.data = Ending(s.gen, pos[1], Len(m.data))
      BY <2>1, <2>3 DEF Link
    <3> QED
      BY <1>4, <2>2, <3>1, <3>2 DEF ScreenExact
  <2>4. CASE m.kind # "snapshot"
    <3>1. cl2.exact = cl.exact
      BY <1>8, <2>4 DEF Shown
    <3>2. ScreenExact(cl) /\ pos[0] = cl.lastSeq /\ (cl.run = <<>> \/ cl.gen = s.gen)
      BY <1>7, <1>8, <1>19, <2>4, <3>1 DEF Continues, SnapshotComes
    <3>3. Len(cl.run) <= pos[0] /\ cl.run = Ending(cl.gen, pos[0], Len(cl.run))
      BY <3>2 DEF ScreenExact
    <3>4. cl.run = Ending(s.gen, pos[0], Len(cl.run))
      <4>1. CASE cl.run = <<>>
        <5>1. Len(cl.run) = 0 /\ Ending(s.gen, pos[0], 0) = <<>>
          BY <4>1 DEF Ending
        <5> QED
          BY <4>1, <5>1
      <4>2. CASE cl.gen = s.gen
        BY <3>3, <4>2
      <4> QED
        BY <3>2, <4>1, <4>2
    <3>5. CASE m.kind = "bytes"
      <4>1. /\ pos[1] - Len(m.data) = pos[0] /\ cl2.gen = s.gen
            /\ cl2.run = cl.run \o m.data
            /\ m.data = Ending(s.gen, pos[1], Len(m.data))
        BY <1>8, <2>1, <3>5 DEF Shown, Link
      <4>2. pos[1] = pos[0] + Len(m.data)
        BY <1>4, <1>6, <4>1
      <4>3. /\ Len(cl.run \o m.data) <= pos[1]
            /\ cl.run \o m.data = Ending(s.gen, pos[1], Len(cl.run \o m.data))
        <5> DEFINE g == s.gen
                   p == pos[0]
                   r == pos[1]
                   run == cl.run
                   data == m.data
        <5>1. g \in 0 .. MaxGen /\ p \in 0 .. MaxOut /\ r \in 0 .. MaxOut
              /\ run \in Seq(Output) /\ data \in Seq(Output)
          BY <1>4, <1>5, <1>6
        <5>2. r = p + Len(data) /\ data = Ending(g, r, Len(data))
          BY <4>1, <4>2
        <5>3. Len(run) <= p /\ run = Ending(g, p, Len(run))
          BY <3>3, <3>4
        <5> HIDE DEF g, p, r, run, data
        <5>4. /\ Len(run \o data) <= r
              /\ run \o data = Ending(g, r, Len(run \o data))
          BY <5>1, <5>2, <5>3, ShownExact, Zenon
        <5> QED
          BY <5>4 DEF g, p, r, run, data
      <4>4. cl2.run = cl.run \o m.data /\ cl2.gen = s.gen /\ cl2.lastSeq = pos[1]
            /\ pos[1] <= MaxOut
        BY <1>4, <2>2, <4>1, Bounds
      <4> QED
        BY <4>3, <4>4, Zenon DEF ScreenExact
    <3>6. CASE m.kind = "resize"
      <4>1. cl2.run = cl.run /\ cl2.gen = cl.gen /\ cl2.lastSeq = cl.lastSeq
        BY <1>8, <3>6 DEF Shown
      <4> QED
        BY <3>2, <4>1 DEF ScreenExact
    <3>7. CASE m.kind = "recovery"
      <4>1. cl2.run = cl.run /\ cl2.gen = s.gen /\ pos[1] = pos[0]
        BY <1>8, <2>1, <3>7 DEF Shown, Link
      <4> QED
        BY <1>4, <2>2, <3>3, <3>4, <4>1 DEF ScreenExact
    <3> QED
      BY <1>6, <2>1, <2>4, <3>5, <3>6, <3>7
  <2> QED
    BY <2>3, <2>4
<1> QED
  BY <1>18, <1>19 DEF rest
-----------------------------------------------------------------------------
(* The stream.                                                             *)

WireShape(w) ==
    /\ w \in Seq(Message)
    /\ \A i \in 1 .. Len(w) : w[i].kind = "marker" => w[i] = Marker
    /\ \A i \in 2 .. Len(w) : w[i].kind # "snapshot"

\* How far the hub has broadcast.
FlushedTo(h) == h.seq - Len(h.pending)

StreamInv ==
    /\ client \in ClientRecord /\ WireShape(wire)
    /\ client.conn = NoConn => wire = <<>>
    /\ \A c \in Conns : QueueShape(sub[c]) /\ (~sub[c].swapped => sub[c].gen = hub.gen)
    /\ client.conn # NoConn =>
          Joined(sub[client.conn], wire \o sub[client.conn].q, client, FlushedTo(hub))
    /\ client.exact /\ (client.conn # NoConn => ~sub[client.conn].lossy) => ScreenExact(client)

\* A subscriber whose queue is not touched, and that may have been let go.
Same(s, t) ==
    /\ t.gen = s.gen /\ t.q = s.q /\ t.need = s.need /\ t.lossy = s.lossy
    /\ t.swapped = s.swapped \/ t.swapped

\* A queue that is let go is still joined, whatever the hub does next.
LEMMA JoinedSame ==
    ASSUME NEW s, QueueShape(s), NEW t, Same(s, t), NEW msgs, NEW cl, NEW flushed,
           Joined(s, msgs, cl, flushed), NEW flushed2, t.swapped \/ flushed2 = flushed
    PROVE  QueueShape(t) /\ Joined(t, msgs, cl, flushed2)
<1>1. t.gen = s.gen /\ t.q = s.q /\ t.need = s.need /\ t.lossy = s.lossy
      /\ (t.swapped = s.swapped \/ t.swapped)
  BY DEF Same
<1>2. QueueShape(t)
  BY <1>1 DEF QueueShape
<1>3. ASSUME ~t.need, NEW pos, Joins(s, msgs, cl, flushed, pos)
      PROVE Joins(t, msgs, cl, flushed2, pos)
  <2>1. Links(t, msgs, pos)
    BY <1>1, <1>3 DEF Joins, Links
  <2>2. Continues(t, msgs, cl, pos[0])
    BY <1>1, <1>3 DEF Joins, Continues
  <2>3. Continued(t, pos[Len(msgs)], flushed2)
    BY <1>1, <1>3 DEF Joins, Continued
  <2> QED
    BY <2>1, <2>2, <2>3 DEF Joins
<1> QED
  BY <1>1, <1>2, <1>3 DEF Joined

\* Runs of messages one behind the other.
LEMMA ThreeRuns ==
    ASSUME NEW a \in Seq(Message), NEW b \in Seq(Message), NEW c \in Seq(Message)
    PROVE  (a \o b) \o c = a \o (b \o c)
<1> DEFINE M == Message
<1>1. a \in Seq(M) /\ b \in Seq(M) /\ c \in Seq(M)
  OBVIOUS
<1> HIDE DEF M
<1> QED
  BY <1>1, ConcatAssociative

\* A message behind two runs of messages.
LEMMA AppendBehind ==
    ASSUME NEW w \in Seq(Message), NEW q \in Seq(Message), NEW f \in Message
    PROVE  w \o q \in Seq(Message) /\ w \o Append(q, f) = Append(w \o q, f)
<1>1. w \o q \in Seq(Message) /\ <<f>> \in Seq(Message)
  OBVIOUS
<1>2. Append(q, f) = q \o <<f>>
  BY AppendIsConcat, Zenon
<1>3. Append(w \o q, f) = (w \o q) \o <<f>>
  BY <1>1, AppendIsConcat, Zenon
<1>4. (w \o q) \o <<f>> = w \o (q \o <<f>>)
  BY <1>1, ThreeRuns, Zenon
<1> QED
  BY <1>1, <1>2, <1>3, <1>4, Zenon

\* What a broadcast does to a queue keeps it joined to the hub.
LEMMA TookJoined ==
    ASSUME NEW s, QueueShape(s), ~s.swapped, NEW w \in Seq(Message), NEW cl, NEW flushed \in Nat,
           Joined(s, w \o s.q, cl, flushed), NEW f, Broadcastable(f), NEW flushed2 \in 0 .. MaxOut,
           f.kind = "bytes" => /\ Len(f.data) <= flushed2 /\ flushed2 - Len(f.data) = flushed
                               /\ f.data = Ending(s.gen, flushed2, Len(f.data)),
           f.kind = "resize" => flushed2 = flushed,
           NEW snapshot \in Seq(Output), NEW seq \in 0 .. MaxOut, flushed2 <= seq,
           Len(snapshot) <= seq, snapshot = Ending(s.gen, seq, Len(snapshot)),
           NEW t, Took(s, t, f, snapshot)
    PROVE  Joined(t, w \o t.q, cl, flushed2)
<1>1. f \in Message /\ f.kind \in {"bytes", "resize"} /\ Len(f.data) \in Nat
  BY DEF Broadcastable, Message
<1>2. s.q \in Seq(Message) /\ s.lossy \in BOOLEAN /\ MaxOut \in Nat
  BY Bounds DEF QueueShape
<1>3. t.gen = s.gen /\ t.swapped = s.swapped
  BY DEF Took
<1>4. CASE t.need
  BY <1>4 DEF Joined
\* Whatever the frame goes behind reaches to its first byte; without a loss, exactly.
<1>5. ASSUME NEW msgs \in Seq(Message), NEW pos, NEW to, Joins(s, msgs, cl, to, pos),
             t.lossy = s.lossy,
             \/ to = flushed
             \/ s.lossy /\ to = flushed2
      PROVE  \E pos2 : Joins(t, Append(msgs, f), cl, flushed2, pos2)
  <2> DEFINE end == pos[Len(msgs)]
             r == IF f.kind = "bytes" THEN flushed2 ELSE end
  <2>1. to <= end /\ (~s.lossy => to = end)
    BY <1>5 DEF Joins, Continued
  <2>2. end \in 0 .. MaxOut /\ end \in Nat
    <3>1. Len(msgs) \in 0 .. Len(msgs)
      OBVIOUS
    <3> QED
      BY <1>2, <1>5, <3>1 DEF Joins, Links
  <2> HIDE DEF end
  <2>3. Link(s.gen, end, f, r, ~s.lossy)
    <3>1. CASE f.kind = "bytes"
      <4> DEFINE n == Len(f.data)
      <4>1. n \in Nat /\ n <= flushed2 /\ flushed2 - n = flushed /\ f.data = Ending(s.gen, flushed2, n)
        BY <1>1, <3>1
      <4> HIDE DEF n
      <4>2. flushed2 - n <= end /\ (~s.lossy => flushed2 - n = end)
        <5>1. CASE to = flushed
          BY <2>1, <2>2, <4>1, <5>1
        <5>2. CASE s.lossy /\ to = flushed2
          <6>1. flushed2 <= end /\ flushed2 \in Nat
            BY <1>2, <2>1, <5>2, Bounds
          <6> QED
            BY <2>2, <4>1, <5>2, <6>1
        <5> QED
          BY <1>5, <5>1, <5>2
      <4> QED
        BY <3>1, <4>1, <4>2 DEF Link, n
    <3>2. CASE f.kind = "resize"
      BY <3>2 DEF Link
    <3> QED
      BY <1>1, <3>1, <3>2
  <2>4. Continued(s, r, flushed2)
    <3>1. CASE f.kind = "bytes"
      BY <3>1 DEF Continued
    <3>2. CASE f.kind = "resize"
      <4>1. flushed2 <= end /\ (~s.lossy => flushed2 = end)
        BY <1>5, <2>1, <2>2, <3>2
      <4> QED
        BY <3>2, <4>1 DEF Continued
    <3> QED
      BY <1>1, <3>1, <3>2
  <2>5. r \in 0 .. MaxOut /\ f.kind \notin {"marker", "snapshot"} /\ Alike(s, t)
    BY <1>1, <1>3, <1>5, <2>2 DEF Alike
  <2>6. Link(s.gen, pos[Len(msgs)], f, r, ~s.lossy)
    BY <2>3 DEF end
  <2> HIDE DEF r
  <2> QED
    BY <1>1, <1>5, <2>4, <2>5, <2>6, JoinsAppend, SMTT(30)
<1>6. CASE ~s.need /\ ~t.need /\ t.lossy = s.lossy /\ t.q = Append(s.q, f)
  <2> DEFINE msgs == w \o s.q
  <2>1. PICK pos : Joins(s, msgs, cl, flushed, pos)
    BY <1>6 DEF Joined
  <2>2. msgs \in Seq(Message) /\ w \o t.q = Append(msgs, f)
    <3> DEFINE q == s.q
    <3>1. q \in Seq(Message) /\ f \in Message /\ t.q = Append(q, f)
      BY <1>1, <1>2, <1>6
    <3> HIDE DEF q
    <3>2. w \o q \in Seq(Message) /\ w \o Append(q, f) = Append(w \o q, f)
      BY <3>1, AppendBehind, Zenon
    <3>3. msgs = w \o q
      BY Zenon DEF q
    <3> HIDE DEF msgs
    <3> QED
      BY <3>1, <3>2, <3>3, Zenon
  <2> HIDE DEF msgs
  <2> QED
    BY <1>5, <1>6, <2>1, <2>2 DEF Joined
<1>7. CASE s.need /\ ~t.need /\ t.lossy = s.lossy /\ t.q = Told(snapshot, f)
  <2>1. s.lossy
    BY <1>7 DEF QueueShape
  <2> DEFINE told == IF snapshot = <<>> THEN <<Marker>> ELSE Append(<<Marker>>, Bytes(snapshot))
  <2>2. told \in Seq(Message) /\ t.q = Append(told, f)
        /\ Bytes(snapshot) \in Message /\ Bytes(snapshot).kind = "bytes"
        /\ Bytes(snapshot).data = snapshot /\ Marker \in Message
    BY <1>7, FrameFacts DEF Told
  <2>3. \E pos : Joins(s, w \o told, cl, flushed2, pos)
    <3>4. flushed2 <= MaxOut
      BY <1>2
    <3>1. PICK pos : Joins(s, Append(w, Marker), cl, flushed2, pos) /\ pos[Len(w) + 1] = MaxOut
      BY <2>1, <3>4, JoinsMarker
    <3>2. CASE snapshot = <<>>
      <4>1. w \o told = Append(w, Marker)
        BY <2>2, <3>2
      <4> QED
        BY <3>1, <4>1
    <3>3. CASE snapshot # <<>>
      <4> DEFINE msgs == Append(w, Marker)
      <4>1. msgs \in Seq(Message) /\ Len(msgs) = Len(w) + 1
            /\ w \o told = Append(msgs, Bytes(snapshot))
        BY <2>2, <3>3
      <4> HIDE DEF msgs, told
      <4>2. Link(s.gen, pos[Len(msgs)], Bytes(snapshot), seq, ~s.lossy)
        <5>1. seq - Len(snapshot) <= MaxOut
          BY <1>2
        <5> QED
          BY <2>1, <2>2, <3>1, <4>1, <5>1 DEF Link
      <4>3. Continued(s, seq, flushed2)
        BY <2>1 DEF Continued
      <4>4. Joins(s, msgs, cl, flushed2, pos) /\ Alike(s, s)
        BY <3>1 DEF msgs, Alike
      <4> DEFINE b == Bytes(snapshot)
      <4>5. b.kind \notin {"marker", "snapshot"} /\ b \in Message
        BY <2>2
      <4>6. Link(s.gen, pos[Len(msgs)], b, seq, ~s.lossy)
        BY <4>2
      <4> HIDE DEF b
      <4>7. \E pos2 : Joins(s, Append(msgs, b), cl, flushed2, pos2)
        BY <4>1, <4>3, <4>4, <4>5, <4>6, JoinsAppend, Zenon
      <4> QED
        BY <4>1, <4>7 DEF b
    <3> QED
      BY <3>2, <3>3
  <2> HIDE DEF told
  <2>4. PICK pos : Joins(s, w \o told, cl, flushed2, pos)
    BY <2>3
  <2>5. w \o told \in Seq(Message) /\ w \o t.q = Append(w \o told, f)
    <3>1. told \in Seq(Message) /\ f \in Message /\ t.q = Append(told, f)
      BY <1>1, <2>2
    <3> HIDE DEF told
    <3>2. w \o told \in Seq(Message) /\ w \o Append(told, f) = Append(w \o told, f)
      BY <3>1, AppendBehind, Zenon
    <3> QED
      BY <3>1, <3>2, Zenon
  <2> DEFINE msgs == w \o told
  <2>6. msgs \in Seq(Message) /\ Joins(s, msgs, cl, flushed2, pos) /\ w \o t.q = Append(msgs, f)
    BY <2>4, <2>5
  <2> HIDE DEF msgs
  <2> QED
    BY <1>5, <1>7, <2>1, <2>6 DEF Joined
<1> QED
  BY <1>4, <1>6, <1>7 DEF Took
-----------------------------------------------------------------------------
(* What the hub does.                                                      *)

\* A subscriber goes from s to t while the hub's broadcasts go from one position
\* to another, and whatever continued a run goes on doing so.
Carried(s, t, from, to) ==
    /\ QueueShape(t) /\ t.gen = s.gen /\ (t.swapped = s.swapped \/ t.swapped)
    /\ ~t.lossy => ~s.lossy
    /\ \A w \in Seq(Message) : \A cl :
          Joined(s, w \o s.q, cl, from) => Joined(t, w \o t.q, cl, to)

\* A queue that is not touched.
LEMMA SameCarried ==
    ASSUME NEW s, QueueShape(s), NEW t, Same(s, t), NEW from, NEW to, t.swapped \/ to = from
    PROVE  Carried(s, t, from, to)
<1>1. t.gen = s.gen /\ t.q = s.q /\ t.lossy = s.lossy /\ (t.swapped = s.swapped \/ t.swapped)
  BY DEF Same
<1>2. QueueShape(t)
  BY DEF Same, QueueShape
<1>3. ASSUME NEW w \in Seq(Message), NEW cl, Joined(s, w \o s.q, cl, from)
      PROVE  Joined(t, w \o t.q, cl, to)
  <2> DEFINE msgs == w \o s.q
  <2>1. Joined(s, msgs, cl, from) /\ w \o t.q = msgs
    BY <1>1, <1>3
  <2> HIDE DEF msgs
  <2>2. Joined(t, msgs, cl, to)
    BY <2>1, JoinedSame
  <2> QED
    BY <2>1, <2>2
<1> QED
  BY <1>1, <1>2, <1>3 DEF Carried

\* A queue that is not touched after it was.
LEMMA CarriedThenSame ==
    ASSUME NEW s, NEW t, NEW u, NEW from, NEW mid, NEW to,
           Carried(s, t, from, mid), Same(t, u), u.swapped \/ to = mid
    PROVE  Carried(s, u, from, to)
<1>1. QueueShape(t)
  BY DEF Carried
<1>2. Carried(t, u, mid, to)
  BY <1>1, SameCarried
<1>3. QueueShape(u) /\ u.gen = s.gen /\ (u.swapped = s.swapped \/ u.swapped)
      /\ (~u.lossy => ~s.lossy)
  BY <1>2 DEF Carried
<1>4. ASSUME NEW w \in Seq(Message), NEW cl, Joined(s, w \o s.q, cl, from)
      PROVE  Joined(u, w \o u.q, cl, to)
  <2>1. Joined(t, w \o t.q, cl, mid)
    BY <1>4 DEF Carried
  <2> QED
    BY <1>2, <2>1 DEF Carried
<1> QED
  BY <1>3, <1>4 DEF Carried

\* What can be read of a hub in step.
LEMMA HubFacts ==
    ASSUME NEW h \in HubRecord, InStep(h)
    PROVE  /\ h.gen \in 0 .. MaxGen /\ h.seq \in 0 .. MaxOut /\ h.seq \in Nat
           /\ h.pending \in Seq(Output) /\ Len(h.pending) \in Nat /\ Len(h.pending) <= h.seq
           /\ FlushedTo(h) \in Nat /\ FlushedTo(h) <= h.seq
           /\ Snapshot(h.ring) \in Seq(Output) /\ Len(Snapshot(h.ring)) \in Nat
           /\ Len(Snapshot(h.ring)) <= h.seq
           /\ Snapshot(h.ring) = Ending(h.gen, h.seq, Len(Snapshot(h.ring)))
<1>1. h.gen \in 0 .. MaxGen /\ h.seq \in 0 .. MaxOut /\ h.seq \in Nat
      /\ h.pending \in Seq(Output) /\ Len(h.pending) \in Nat /\ Len(h.pending) <= h.seq
  BY Bounds DEF HubRecord, InStep
<1>2. FlushedTo(h) \in Nat /\ FlushedTo(h) <= h.seq
  BY <1>1 DEF FlushedTo
<1>3. Snapshot(h.ring) = Ending(h.gen, h.seq, Kept(h.seq))
  BY DEF InStep
<1>4. Kept(h.seq) \in 0 .. h.seq
  BY <1>1, Bounds DEF Kept
<1>5. /\ Ending(h.gen, h.seq, Kept(h.seq)) \in Seq(Output)
      /\ Len(Ending(h.gen, h.seq, Kept(h.seq))) = Kept(h.seq)
  BY <1>1, <1>4, EndingFacts
<1>6. Len(Snapshot(h.ring)) = Kept(h.seq)
  BY <1>3, <1>5
<1>7. Kept(h.seq) \in Nat /\ Kept(h.seq) <= h.seq
  BY <1>1, <1>4
<1> QED
  BY <1>1, <1>2, <1>3, <1>5, <1>6, <1>7

\* One subscriber and one frame of its hub.
LEMMA FrameCarried ==
    ASSUME NEW h \in HubRecord, InStep(h), NEW s, Lifecycle(s), QueueShape(s),
           ~s.swapped => s.gen = h.gen, h.closed => ~s.registered,
           NEW f, Broadcastable(f), NEW to,
           f.kind = "bytes" => f.data = h.pending /\ to = h.seq,
           f.kind = "resize" => to = FlushedTo(h),
           NEW t, t = IF s.registered /\ ~h.closed THEN Enqueue(s, f, Snapshot(h.ring)) ELSE s
    PROVE  Carried(s, t, FlushedTo(h), to)
<1>1. CASE s.swapped
  <2>1. t = s
    BY <1>1 DEF Enqueue
  <2>2. Same(s, t) /\ t.swapped
    BY <1>1, <2>1 DEF Same
  <2> QED
    BY <2>2, SameCarried
<1>2. CASE ~s.swapped
  <2> DEFINE snapshot == Snapshot(h.ring)
             from == FlushedTo(h)
  <2>1. t = Enqueue(s, f, snapshot) /\ Shape(s) /\ s.gen = h.gen
    BY <1>2 DEF Lifecycle
  <2>2. /\ h.seq \in 0 .. MaxOut /\ from \in Nat /\ from <= h.seq
        /\ snapshot \in Seq(Output) /\ Len(snapshot) <= h.seq
        /\ snapshot = Ending(h.gen, h.seq, Len(snapshot))
    BY HubFacts
  <2> DEFINE seq == h.seq
  <2>3. /\ f.kind = "bytes" => /\ Len(f.data) <= to /\ to - Len(f.data) = from
                               /\ f.data = Ending(s.gen, to, Len(f.data))
        /\ f.kind = "resize" => to = from
        /\ to \in 0 .. MaxOut /\ to <= seq
    <3>1. CASE f.kind = "bytes"
      <4>1. f.data = h.pending /\ to = h.seq
        BY <3>1
      <4>2. Len(h.pending) <= h.seq /\ h.seq - Len(h.pending) = FlushedTo(h)
            /\ h.pending = Ending(h.gen, h.seq, Len(h.pending))
        BY DEF FlushedTo, InStep
      <4>3. h.seq \in Nat
        BY HubFacts
      <4> QED
        BY <2>1, <2>2, <3>1, <4>1, <4>2, <4>3
    <3>2. CASE f.kind = "resize"
      <4>1. to = from
        BY <3>2
      <4>2. from \in 0 .. MaxOut
        BY <2>2, Bounds
      <4> QED
        BY <2>2, <3>2, <4>1, <4>2
    <3> QED
      BY <3>1, <3>2 DEF Broadcastable
  <2>4. seq \in 0 .. MaxOut /\ Len(snapshot) <= seq /\ snapshot = Ending(s.gen, seq, Len(snapshot))
    BY <2>1, <2>2
  <2> HIDE DEF snapshot, from, seq
  <2>5. Took(s, t, f, snapshot)
    BY <1>2, <2>1, <2>2, EnqueueTook
  <2>6. QueueShape(t) /\ t.gen = s.gen /\ t.swapped = s.swapped
    BY <2>5 DEF Took
  <2>7. ~t.lossy => ~s.lossy
    BY <2>5, <2>6 DEF Took, QueueShape
  <2>8. ASSUME NEW w \in Seq(Message), NEW cl, Joined(s, w \o s.q, cl, from)
        PROVE  Joined(t, w \o t.q, cl, to)
    BY <1>2, <2>2, <2>3, <2>4, <2>5, <2>8, TookJoined
  <2> QED
    BY <2>6, <2>7, <2>8 DEF Carried, from
<1> QED
  BY <1>1, <1>2

\* A flush brings every subscriber up to the hub's position.
LEMMA FlushCarries ==
    ASSUME ChannelInv, NEW h \in HubRecord, InStep(h), h.closed = hub.closed, NEW c \in Conns,
           QueueShape(sub[c]), ~sub[c].swapped => sub[c].gen = h.gen
    PROVE  Carried(sub[c], FlushedSubs(h, sub)[c], FlushedTo(h), h.seq)
<1>1. Lifecycle(sub[c]) /\ (h.closed => ~sub[c].registered)
  BY DEF ChannelInv
<1>2. CASE h.pending = <<>>
  <2>1. FlushedSubs(h, sub)[c] = sub[c]
    BY <1>2 DEF FlushedSubs
  <2>2. FlushedTo(h) = h.seq
    <3>1. h.seq \in Nat
      BY HubFacts
    <3> QED
      BY <1>2, <3>1 DEF FlushedTo
  <2>3. Same(sub[c], sub[c])
    BY DEF Same
  <2> QED
    BY <2>1, <2>2, <2>3, SameCarried
<1>3. CASE h.pending # <<>>
  <2> DEFINE f == Bytes(h.pending)
             s == sub[c]
             t == Broadcast(h, sub, f)[c]
             to == h.seq
  <2>1. FlushedSubs(h, sub)[c] = t
    BY <1>3 DEF FlushedSubs
  <2>2. t = IF s.registered /\ ~h.closed THEN Enqueue(s, f, Snapshot(h.ring)) ELSE s
    BY DEF Broadcast
  <2>3. h.pending \in Seq(Output)
    BY HubFacts
  <2>4. Broadcastable(f) /\ f.kind = "bytes" /\ f.data = h.pending
    BY <1>3, <2>3, FrameFacts DEF Broadcastable
  <2>5. f.kind = "bytes" => f.data = h.pending /\ to = h.seq
    BY <2>4
  <2>6. f.kind = "resize" => to = FlushedTo(h)
    BY <2>4
  <2>7. Lifecycle(s) /\ QueueShape(s) /\ (~s.swapped => s.gen = h.gen) /\ (h.closed => ~s.registered)
    BY <1>1
  <2> HIDE DEF f, s, t, to
  <2>8. Carried(s, t, FlushedTo(h), to)
    BY <2>2, <2>4, <2>5, <2>6, <2>7, FrameCarried
  <2> QED
    BY <2>1, <2>8 DEF s, to
<1> QED
  BY <1>2, <1>3

\* A step of the hub that carries every subscriber.
LEMMA CarriedKept ==
    ASSUME StreamInv, UNCHANGED <<wire, client>>,
           \A c \in Conns : /\ Carried(sub[c], sub'[c], FlushedTo(hub), FlushedTo(hub'))
                            /\ ~sub'[c].swapped => hub'.gen = hub.gen
    PROVE  StreamInv'
<1>1. client' = client /\ wire' = wire
  OBVIOUS
<1>2. \A c \in Conns : QueueShape(sub'[c]) /\ (~sub'[c].swapped => sub'[c].gen = hub'.gen)
  <2> TAKE c \in Conns
  <2>1. QueueShape(sub'[c]) /\ sub'[c].gen = sub[c].gen
        /\ (sub'[c].swapped = sub[c].swapped \/ sub'[c].swapped)
        /\ (~sub'[c].swapped => hub'.gen = hub.gen)
    BY DEF Carried
  <2>2. ~sub[c].swapped => sub[c].gen = hub.gen
    BY DEF StreamInv
  <2> QED
    BY <2>1, <2>2
<1>3. ASSUME client.conn # NoConn
      PROVE /\ Joined(sub'[client.conn], wire \o sub'[client.conn].q, client, FlushedTo(hub'))
            /\ ~sub'[client.conn].lossy => ~sub[client.conn].lossy
  <2> DEFINE c == client.conn
  <2>1. c \in Conns /\ wire \in Seq(Message)
    BY <1>3 DEF StreamInv, ClientRecord, WireShape
  <2>2. Joined(sub[c], wire \o sub[c].q, client, FlushedTo(hub))
    BY <1>3 DEF StreamInv
  <2> HIDE DEF c
  <2>3. Carried(sub[c], sub'[c], FlushedTo(hub), FlushedTo(hub'))
    BY <2>1
  <2>4. Joined(sub'[c], wire \o sub'[c].q, client, FlushedTo(hub'))
        /\ (~sub'[c].lossy => ~sub[c].lossy)
    BY <2>1, <2>2, <2>3 DEF Carried
  <2> QED
    BY <2>4 DEF c
<1>4. client.exact /\ (client.conn # NoConn => ~sub'[client.conn].lossy) => ScreenExact(client)
  BY <1>3 DEF StreamInv
<1>5. client \in ClientRecord /\ WireShape(wire) /\ (client.conn = NoConn => wire = <<>>)
  BY DEF StreamInv
<1> QED
  BY <1>1, <1>2, <1>3, <1>4, <1>5 DEF StreamInv
-----------------------------------------------------------------------------
(* The hub's actions.                                                      *)

\* A flush leaves nothing to be broadcast.
LEMMA FlushedFacts ==
    ASSUME NEW h \in HubRecord, InStep(h)
    PROVE  /\ Flushed(h).gen = h.gen /\ Flushed(h).seq = h.seq
           /\ Flushed(h).closed = h.closed /\ FlushedTo(Flushed(h)) = h.seq
<1>1. /\ Flushed(h).gen = h.gen /\ Flushed(h).seq = h.seq
      /\ Flushed(h).closed = h.closed /\ Flushed(h).pending = <<>>
  BY DEF HubRecord, Flushed
<1>2. h.seq \in Nat
  BY HubFacts
<1> QED
  BY <1>1, <1>2 DEF FlushedTo

\* What is written is not yet broadcast.
LEMMA WrittenFacts ==
    ASSUME HubInv, NEW n \in Nat
    PROVE  LET h == Written(hub, n)
           IN  h.gen = hub.gen /\ h.closed = hub.closed /\ FlushedTo(h) = FlushedTo(hub)
<1> DEFINE h == Written(hub, n)
           out == [i \in 1 .. n |-> <<hub.gen, hub.seq + i>>]
<1>1. /\ h.gen = hub.gen /\ h.closed = hub.closed /\ h.seq = hub.seq + n
      /\ h.pending = hub.pending \o out
  BY DEF HubInv, HubRecord, Written
<1>2. hub.seq \in Nat /\ hub.pending \in Seq(Output)
  BY HubFacts DEF HubInv
<1>3. out \in Seq(Nat \X Nat) /\ Len(out) = n
  <2>1. hub.gen \in Nat
    BY Bounds DEF HubInv, HubRecord
  <2>2. \A i \in 1 .. n : <<hub.gen, hub.seq + i>> \in Nat \X Nat
    BY <1>2, <2>1
  <2> QED
    BY <2>2
<1> HIDE DEF out, h
<1>4. Len(hub.pending \o out) = Len(hub.pending) + n
  <2>1. hub.pending \in Seq(Output \cup (Nat \X Nat)) /\ out \in Seq(Output \cup (Nat \X Nat))
    BY <1>2, <1>3
  <2>2. Len(hub.pending \o out) = Len(hub.pending) + Len(out)
    BY <2>1
  <2> QED
    BY <1>3, <2>2
<1>5. FlushedTo(h) = (hub.seq + n) - (Len(hub.pending) + n)
  BY <1>1, <1>4 DEF FlushedTo
<1>6. Len(hub.pending) \in Nat
  BY <1>2
<1>7. FlushedTo(h) = FlushedTo(hub)
  BY <1>2, <1>5, <1>6 DEF FlushedTo
<1> QED
  BY <1>1, <1>7 DEF h

\* Hub.Write keeps the stream joined, whether the buffer is full or not.
LEMMA StreamWrite ==
    ASSUME HubInv, ChannelInv, StreamInv, NEW n \in 1 .. MaxChunk, Write(n)
    PROVE  StreamInv'
<1> DEFINE h == Written(hub, n)
<1>1. h \in HubRecord /\ InStep(h)
  <2>1. hub.seq + n <= MaxOut
    BY WriteInBounds
  <2> QED
    BY <2>1, WrittenInStep
<1>2. h.gen = hub.gen /\ h.closed = hub.closed /\ FlushedTo(h) = FlushedTo(hub)
  <2>1. n \in Nat
    OBVIOUS
  <2> QED
    BY <2>1, WrittenFacts
<1>3. /\ UNCHANGED <<wire, client>>
      /\ hub' = (IF Len(h.pending) >= FlushBytes THEN Flushed(h) ELSE h)
      /\ sub' = (IF Len(h.pending) >= FlushBytes THEN FlushedSubs(h, sub) ELSE sub)
  BY DEF Write
<1> HIDE DEF h
<1>4. ASSUME NEW c \in Conns
      PROVE /\ Carried(sub[c], sub'[c], FlushedTo(hub), FlushedTo(hub'))
            /\ ~sub'[c].swapped => hub'.gen = hub.gen
  <2>1. QueueShape(sub[c]) /\ (~sub[c].swapped => sub[c].gen = h.gen)
    BY <1>2, <1>4 DEF StreamInv
  <2>2. CASE Len(h.pending) >= FlushBytes
    <3>1. Carried(sub[c], FlushedSubs(h, sub)[c], FlushedTo(h), h.seq)
      BY <1>1, <1>2, <1>4, <2>1, FlushCarries
    <3>2. hub' = Flushed(h) /\ sub' = FlushedSubs(h, sub)
      BY <1>3, <2>2
    <3>3. hub'.gen = h.gen /\ FlushedTo(hub') = h.seq
      BY <1>1, <3>2, FlushedFacts
    <3> QED
      BY <1>2, <3>1, <3>2, <3>3
  <2>3. CASE ~(Len(h.pending) >= FlushBytes)
    <3>1. hub' = h /\ sub' = sub
      BY <1>3, <2>3
    <3>2. Same(sub[c], sub'[c]) /\ FlushedTo(hub') = FlushedTo(hub) /\ hub'.gen = hub.gen
      BY <1>2, <3>1 DEF Same
    <3> QED
      BY <2>1, <3>2, SameCarried
  <2> QED
    BY <2>2, <2>3
<1> QED
  BY <1>3, <1>4, CarriedKept

\* A timer that fires changes nothing that is on its way.
LEMMA StreamTimer ==
    ASSUME HubInv, StreamInv, TimerFires
    PROVE  StreamInv'
<1>1. sub' = sub /\ UNCHANGED <<wire, client>> /\ hub' = [hub EXCEPT !.timer = "fired"]
  BY DEF TimerFires
<1>2. hub'.gen = hub.gen /\ hub'.seq = hub.seq /\ hub'.pending = hub.pending
  BY <1>1 DEF HubInv, HubRecord
<1>3. FlushedTo(hub') = FlushedTo(hub)
  BY <1>2 DEF FlushedTo
<1>4. ASSUME NEW c \in Conns
      PROVE  Carried(sub[c], sub'[c], FlushedTo(hub), FlushedTo(hub'))
  <2>1. QueueShape(sub[c]) /\ Same(sub[c], sub'[c])
    BY <1>1, <1>4 DEF StreamInv, Same
  <2> QED
    BY <1>3, <2>1, SameCarried
<1> QED
  BY <1>1, <1>2, <1>4, CarriedKept

\* Nor does a late flush lose or repeat what was coalesced.
LEMMA StreamFlush ==
    ASSUME HubInv, ChannelInv, StreamInv, FlushCallback
    PROVE  StreamInv'
<1>1. UNCHANGED <<wire, client>> /\ hub' = Flushed(hub) /\ sub' = FlushedSubs(hub, sub)
  BY DEF FlushCallback
<1>2. hub \in HubRecord /\ InStep(hub)
  BY DEF HubInv
<1>3. hub'.gen = hub.gen /\ FlushedTo(hub') = hub.seq
  BY <1>1, <1>2, FlushedFacts
<1>4. ASSUME NEW c \in Conns
      PROVE  Carried(sub[c], sub'[c], FlushedTo(hub), FlushedTo(hub'))
  <2>1. QueueShape(sub[c]) /\ (~sub[c].swapped => sub[c].gen = hub.gen)
    BY <1>4 DEF StreamInv
  <2>2. Carried(sub[c], FlushedSubs(hub, sub)[c], FlushedTo(hub), hub.seq)
    BY <1>2, <1>4, <2>1, FlushCarries
  <2> QED
    BY <1>1, <1>3, <2>2
<1> QED
  BY <1>1, <1>3, <1>4, CarriedKept

\* A resize goes ahead of the coalesced bytes and moves no position.
LEMMA StreamResize ==
    ASSUME HubInv, ChannelInv, StreamInv, BroadcastResize
    PROVE  StreamInv'
<1>1. UNCHANGED <<wire, client>> /\ hub' = [hub EXCEPT !.resizes = @ + 1]
      /\ sub' = Broadcast(hub, sub, Resize)
  BY DEF BroadcastResize
<1>2. hub'.gen = hub.gen /\ hub'.seq = hub.seq /\ hub'.pending = hub.pending
  BY <1>1 DEF HubInv, HubRecord
<1>3. FlushedTo(hub') = FlushedTo(hub)
  BY <1>2 DEF FlushedTo
<1>4. Broadcastable(Resize) /\ Resize.kind = "resize"
  BY FrameFacts DEF Broadcastable
<1>5. hub \in HubRecord /\ InStep(hub)
  BY DEF HubInv
<1>6. ASSUME NEW c \in Conns
      PROVE  Carried(sub[c], sub'[c], FlushedTo(hub), FlushedTo(hub'))
  <2> DEFINE s == sub[c]
             t == sub'[c]
             to == FlushedTo(hub)
             f == Resize
  <2>1. t = IF s.registered /\ ~hub.closed THEN Enqueue(s, f, Snapshot(hub.ring)) ELSE s
    BY <1>1 DEF Broadcast
  <2>2. Lifecycle(s) /\ QueueShape(s) /\ (~s.swapped => s.gen = hub.gen)
        /\ (hub.closed => ~s.registered)
    BY DEF ChannelInv, StreamInv
  <2>3. Broadcastable(f) /\ f.kind = "resize"
    BY <1>4
  <2> HIDE DEF f, s, t, to
  <2>4. f.kind = "resize" => to = FlushedTo(hub)
    BY DEF to
  <2>5. f.kind = "bytes" => f.data = hub.pending /\ to = hub.seq
    BY <2>3
  <2>6. Carried(s, t, FlushedTo(hub), to)
    BY <1>5, <2>1, <2>2, <2>3, <2>4, <2>5, FrameCarried
  <2> QED
    BY <1>3, <2>6 DEF s, t, to
<1> QED
  BY <1>1, <1>2, <1>6, CarriedKept

\* The hub lets a subscriber go with its queue.
LEMMA ClosedSame ==
    ASSUME NEW s, Lifecycle(s)
    PROVE  Same(s, ClosedSub(s)) /\ ClosedSub(s).swapped
<1>1. Lifecycle(ClosedSub(s)) /\ ~ClosedSub(s).registered
  BY ClosedSubEnds
<1>2. ClosedSub(s).swapped
  BY <1>1 DEF Lifecycle
<1> DEFINE t == ClosedSub(s)
<1>3. Shape(s)
  BY DEF Lifecycle
<1>4. t.gen = s.gen /\ t.q = s.q /\ t.need = s.need /\ t.lossy = s.lossy
  <2>1. CASE ~s.registered
    BY <2>1 DEF ClosedSub
  <2>2. CASE s.registered /\ s.swapped
    <3>1. t = [s EXCEPT !.registered = FALSE]
      BY <2>2 DEF ClosedSub
    <3> HIDE DEF t
    <3> QED
      BY <1>3, <3>1 DEF Shape
  <2>3. CASE s.registered /\ ~s.swapped
    <3>1. t = [s EXCEPT !.registered = FALSE, !.swapped = TRUE, !.closes = @ + 1]
      BY <2>3 DEF ClosedSub
    <3> HIDE DEF t
    <3> QED
      BY <1>3, <3>1 DEF Shape
  <2> QED
    BY <2>1, <2>2, <2>3
<1> QED
  BY <1>2, <1>4 DEF Same

\* Close broadcasts what was coalesced first.
LEMMA StreamClose ==
    ASSUME HubInv, ChannelInv, StreamInv, Close
    PROVE  StreamInv'
<1> DEFINE subs == FlushedSubs(hub, sub)
<1>1. UNCHANGED <<wire, client>> /\ sub' = [c \in Conns |-> ClosedSub(subs[c])]
  BY DEF Close
<1>2. \A c \in Conns : Queued(sub[c], subs[c])
  BY FlushKept
<1>3. \A c \in Conns :
          QueueShape(sub[c]) /\ (~sub[c].swapped => sub[c].gen = hub.gen) /\ Lifecycle(sub[c])
  BY DEF StreamInv, ChannelInv
<1>4. hub \in HubRecord /\ InStep(hub)
  BY DEF HubInv
<1>5. \A c \in Conns : Carried(sub[c], subs[c], FlushedTo(hub), hub.seq)
  BY <1>3, <1>4, FlushCarries
<1> HIDE DEF subs
<1>6. ASSUME NEW c \in Conns
      PROVE  Carried(sub[c], sub'[c], FlushedTo(hub), FlushedTo(hub')) /\ sub'[c].swapped
  <2>1. Lifecycle(subs[c])
    BY <1>2, <1>3, <1>6, QueuedLives
  <2>2. Same(subs[c], sub'[c]) /\ sub'[c].swapped
    BY <1>1, <1>6, <2>1, ClosedSame
  <2>3. Carried(sub[c], subs[c], FlushedTo(hub), hub.seq)
    BY <1>5, <1>6
  <2> QED
    BY <2>2, <2>3, CarriedThenSame
<1> QED
  BY <1>1, <1>6, CarriedKept

\* Nobody is subscribed when a host is replaced.
LEMMA StreamReplace ==
    ASSUME HubInv, ChannelInv, StreamInv, ReplaceHost
    PROVE  StreamInv'
<1>1. UNCHANGED <<wire, client>> /\ sub' = sub /\ hub.closed
  BY DEF ReplaceHost
<1>2. ASSUME NEW c \in Conns
      PROVE  Carried(sub[c], sub'[c], FlushedTo(hub), FlushedTo(hub')) /\ sub'[c].swapped
  <2>1. Lifecycle(sub[c]) /\ ~sub[c].registered /\ QueueShape(sub[c])
    BY <1>1, <1>2 DEF ChannelInv, StreamInv
  <2>2. sub[c].swapped
    BY <2>1 DEF Lifecycle
  <2>3. Same(sub[c], sub'[c]) /\ sub'[c].swapped
    BY <1>1, <2>2 DEF Same
  <2> QED
    BY <2>1, <2>3, SameCarried
<1> QED
  BY <1>1, <1>2, CarriedKept
-----------------------------------------------------------------------------
(* What a connection does.                                                 *)

\* One subscriber is replaced.
LEMMA OneReplaced ==
    ASSUME ChannelInv, NEW c \in Conns, NEW t, sub' = [sub EXCEPT ![c] = t]
    PROVE  \A d \in Conns : sub'[d] = IF d = c THEN t ELSE sub[d]
BY DEF ChannelInv

\* A subscriber that is let go continues what it did.
LEMMA LetGoKept ==
    ASSUME ChannelInv, StreamInv, NEW c \in Conns, NEW t, sub' = [sub EXCEPT ![c] = t],
           Same(sub[c], t), UNCHANGED <<hub, wire, client>>
    PROVE  StreamInv'
<1>1. hub' = hub /\ UNCHANGED <<wire, client>>
  OBVIOUS
<1>2. ASSUME NEW d \in Conns
      PROVE  Carried(sub[d], sub'[d], FlushedTo(hub), FlushedTo(hub'))
  <2>1. sub'[d] = IF d = c THEN t ELSE sub[d]
    BY OneReplaced
  <2>2. Same(sub[d], sub'[d])
    <3>1. CASE d = c
      BY <2>1, <3>1
    <3>2. CASE d # c
      BY <2>1, <3>2 DEF Same
    <3> QED
      BY <3>1, <3>2
  <2>3. QueueShape(sub[d])
    BY DEF StreamInv
  <2> QED
    BY <1>1, <2>2, <2>3, SameCarried
<1> QED
  BY <1>1, <1>2, CarriedKept

\* The first half of unsub.
LEMMA LeaveSame ==
    ASSUME ChannelInv, NEW c \in Conns, Leave(c)
    PROVE  /\ UNCHANGED <<hub, wire, client>>
           /\ \E t : sub' = [sub EXCEPT ![c] = t] /\ Same(sub[c], t)
<1> DEFINE s == sub[c]
           t == [s EXCEPT !.swapped = TRUE, !.leaving = TRUE]
<1>1. sub' = [sub EXCEPT ![c] = t] /\ UNCHANGED <<hub, wire, client>> /\ Shape(s)
  BY DEF Leave, ChannelInv, Lifecycle
<1>2. Same(s, t)
  <2> HIDE DEF s
  <2> DEFINE yes == TRUE
  <2>1. t = [s EXCEPT !.swapped = yes, !.leaving = yes] /\ yes
    OBVIOUS
  <2> HIDE DEF t, yes
  <2>2. t.gen = s.gen /\ t.q = s.q /\ t.need = s.need /\ t.lossy = s.lossy /\ t.swapped = yes
    BY <1>1, <2>1 DEF Shape
  <2>3. t.swapped
    BY <2>1, <2>2
  <2> QED
    BY <2>2, <2>3 DEF Same
<1> HIDE DEF t
<1> QED
  BY <1>1, <1>2

LEMMA StreamLeave ==
    ASSUME ChannelInv, StreamInv, NEW c \in Conns, Leave(c)
    PROVE  StreamInv'
BY LeaveSame, LetGoKept

\* The second half of unsub.
LEMMA UnsubscribeSame ==
    ASSUME ChannelInv, NEW c \in Conns, Unsubscribe(c)
    PROVE  /\ UNCHANGED <<hub, wire, client>>
           /\ \E t : sub' = [sub EXCEPT ![c] = t] /\ Same(sub[c], t)
<1> DEFINE s == sub[c]
           t == [s EXCEPT !.registered = FALSE, !.leaving = FALSE, !.closes = s.closes + 1]
<1>1. sub' = [sub EXCEPT ![c] = t] /\ UNCHANGED <<hub, wire, client>> /\ Shape(s)
  BY DEF Unsubscribe, ChannelInv, Lifecycle
<1>2. Same(s, t)
  <2> HIDE DEF s
  <2> DEFINE no == FALSE
             n == s.closes + 1
  <2>1. t = [s EXCEPT !.registered = no, !.leaving = no, !.closes = n]
    OBVIOUS
  <2> HIDE DEF t, no, n
  <2>2. t.gen = s.gen /\ t.q = s.q /\ t.need = s.need /\ t.lossy = s.lossy
        /\ t.swapped = s.swapped
    BY <1>1, <2>1 DEF Shape
  <2> QED
    BY <2>2 DEF Same
<1> HIDE DEF t
<1> QED
  BY <1>1, <1>2

LEMMA StreamUnsubscribe ==
    ASSUME ChannelInv, StreamInv, NEW c \in Conns, Unsubscribe(c)
    PROVE  StreamInv'
BY UnsubscribeSame, LetGoKept

\* What is joined does not depend on where the messages are.
LEMMA JoinedAlike ==
    ASSUME NEW s, NEW t, Alike(s, t), t.need = s.need, NEW msgs, NEW cl, NEW flushed,
           Joined(s, msgs, cl, flushed)
    PROVE  Joined(t, msgs, cl, flushed)
<1>1. t.gen = s.gen /\ t.lossy = s.lossy /\ t.swapped = s.swapped
  BY DEF Alike
<1>2. ASSUME NEW pos, Joins(s, msgs, cl, flushed, pos) PROVE Joins(t, msgs, cl, flushed, pos)
  <2>1. Links(t, msgs, pos)
    BY <1>1, <1>2 DEF Joins, Links
  <2>2. Continues(t, msgs, cl, pos[0])
    BY <1>1, <1>2 DEF Joins, Continues
  <2>3. Continued(t, pos[Len(msgs)], flushed)
    BY <1>1, <1>2 DEF Joins, Continued
  <2> QED
    BY <2>1, <2>2, <2>3 DEF Joins
<1> QED
  BY <1>2 DEF Joined

\* A message that is no snapshot goes onto the wire.
LEMMA WireGrows ==
    ASSUME NEW w, WireShape(w), NEW m \in Message, m.kind # "snapshot",
           m.kind = "marker" => m = Marker
    PROVE  WireShape(Append(w, m))
<1> DEFINE v == Append(w, m)
<1>1. w \in Seq(Message)
  BY DEF WireShape
<1>2. /\ v \in Seq(Message) /\ Len(v) = Len(w) + 1 /\ Len(w) \in Nat
      /\ \A i \in 1 .. Len(w) : v[i] = w[i]
      /\ v[Len(w) + 1] = m
  BY <1>1
<1> HIDE DEF v
<1>3. \A i \in 1 .. Len(v) : i \in 1 .. Len(w) \/ i = Len(w) + 1
  BY <1>2
<1>4. \A i \in 1 .. Len(v) : v[i].kind = "marker" => v[i] = Marker
  <2> TAKE i \in 1 .. Len(v)
  <2>1. CASE i = Len(w) + 1
    BY <1>2, <2>1
  <2>2. CASE i \in 1 .. Len(w)
    <3>1. v[i] = w[i]
      BY <1>2, <2>2
    <3> QED
      BY <2>2, <3>1 DEF WireShape
  <2> QED
    BY <1>3, <2>1, <2>2
<1>5. \A i \in 2 .. Len(v) : v[i].kind # "snapshot"
  <2> TAKE i \in 2 .. Len(v)
  <2>1. CASE i = Len(w) + 1
    BY <1>2, <2>1
  <2>2. CASE i # Len(w) + 1
    <3>1. i \in 1 .. Len(w) /\ i \in 2 .. Len(w)
      BY <1>2, <2>2
    <3> QED
      BY <1>2, <3>1 DEF WireShape
  <2> QED
    BY <2>1, <2>2
<1> QED
  BY <1>2, <1>4, <1>5 DEF WireShape, v

\* Whoever is not connected is not changed by what the connection does.
LEMMA ConnectedKept ==
    ASSUME ChannelInv, StreamInv, NEW c \in Conns, client.conn = c,
           NEW t, sub' = [sub EXCEPT ![c] = t], UNCHANGED <<hub, client>>,
           QueueShape(t), Alike(sub[c], t), WireShape(wire'),
           Joined(t, wire' \o t.q, client, FlushedTo(hub))
    PROVE  StreamInv'
<1>1. hub' = hub /\ client' = client
  OBVIOUS
<1>2. \A d \in Conns : sub'[d] = IF d = c THEN t ELSE sub[d]
  BY OneReplaced
<1>3. sub'[c] = t
  BY <1>2
<1>4. t.gen = sub[c].gen /\ t.lossy = sub[c].lossy /\ t.swapped = sub[c].swapped
  BY DEF Alike
<1>5. \A d \in Conns : QueueShape(sub'[d]) /\ (~sub'[d].swapped => sub'[d].gen = hub'.gen)
  <2> TAKE d \in Conns
  <2>1. CASE d = c
    BY <1>1, <1>3, <1>4, <2>1 DEF StreamInv
  <2>2. CASE d # c
    BY <1>1, <1>2, <2>2 DEF StreamInv
  <2> QED
    BY <2>1, <2>2
<1>6. client \in ClientRecord /\ client.conn # NoConn
  BY StreamAssumption DEF StreamInv
<1>7. client.exact /\ (client.conn # NoConn => ~t.lossy) => ScreenExact(client)
  BY <1>4 DEF StreamInv
<1> QED
  BY <1>1, <1>3, <1>5, <1>6, <1>7 DEF StreamInv

\* The pump moves the first of the queue to the end of the wire.
LEMMA StreamPump ==
    ASSUME ChannelInv, StreamInv, NEW c \in Conns, Pump(c)
    PROVE  StreamInv'
<1> DEFINE s == sub[c]
           rest == Tail(s.q)
           t == [s EXCEPT !.q = rest]
           m == Head(s.q)
<1>1. /\ client.conn = c /\ s.q # <<>> /\ wire' = Append(wire, m)
      /\ sub' = [sub EXCEPT ![c] = t] /\ UNCHANGED <<hub, client>> /\ Shape(s)
  BY DEF Pump, ChannelInv, Lifecycle
<1>2. QueueShape(s) /\ WireShape(wire) /\ Joined(s, wire \o s.q, client, FlushedTo(hub))
  BY <1>1, StreamAssumption DEF StreamInv
<1>3. s.q \in Seq(Message) /\ wire \in Seq(Message)
  BY <1>2 DEF QueueShape, WireShape
<1>4. /\ m \in Message /\ m = s.q[1] /\ rest \in Seq(Message) /\ Len(rest) = Len(s.q) - 1
      /\ \A i \in 1 .. Len(rest) : rest[i] = s.q[i + 1] /\ i + 1 \in 1 .. Len(s.q)
      /\ 1 \in 1 .. Len(s.q)
  BY <1>1, <1>3
<1>5. Append(wire, m) \o rest = wire \o s.q
  <2> DEFINE q == s.q
  <2>1. q \in Seq(Message) /\ q # <<>> /\ m = Head(q) /\ rest = Tail(q) /\ <<m>> \in Seq(Message)
    BY <1>1, <1>3, <1>4
  <2> HIDE DEF q, m, rest
  <2>2. q = <<m>> \o rest
    BY <2>1, SMTT(30)
  <2>3. Append(wire, m) = wire \o <<m>>
    BY <1>3, <1>4
  <2>4. (wire \o <<m>>) \o rest = wire \o (<<m>> \o rest)
    BY <1>3, <1>4, <2>1, ThreeRuns, Zenon
  <2> QED
    BY <2>2, <2>3, <2>4 DEF q
<1> HIDE DEF s, rest, m
<1>6. t.q = rest /\ t.gen = s.gen /\ t.need = s.need /\ t.lossy = s.lossy
      /\ t.swapped = s.swapped
  <2> HIDE DEF t
  <2>1. t = [s EXCEPT !.q = rest]
    BY DEF t
  <2> QED
    BY <1>1, <2>1 DEF Shape
<1> HIDE DEF t
<1>7. QueueShape(t)
  <2>1. \A i \in 1 .. Len(rest) :
            rest[i].kind \in Queues /\ (rest[i].kind = "marker" => rest[i] = Marker)
    BY <1>2, <1>4 DEF QueueShape
  <2> QED
    BY <1>2, <1>4, <1>6, <2>1 DEF QueueShape
<1>8. WireShape(wire')
  <2>1. m.kind \in Queues /\ (m.kind = "marker" => m = Marker)
    BY <1>2, <1>4 DEF QueueShape
  <2>2. m.kind # "snapshot"
    BY <2>1 DEF Queues
  <2> QED
    BY <1>1, <1>2, <1>4, <2>1, <2>2, WireGrows
<1>9. Alike(s, t)
  BY <1>6 DEF Alike
<1>10. Joined(t, wire' \o t.q, client, FlushedTo(hub))
  <2> DEFINE msgs == wire \o s.q
  <2>1. wire' \o t.q = msgs
    BY <1>1, <1>5, <1>6
  <2>2. Joined(s, msgs, client, FlushedTo(hub))
    BY <1>2
  <2> HIDE DEF msgs
  <2>3. Joined(t, msgs, client, FlushedTo(hub))
    BY <1>6, <1>9, <2>2, JoinedAlike
  <2> QED
    BY <2>1, <2>3
<1> QED
  BY <1>1, <1>7, <1>8, <1>9, <1>10, ConnectedKept DEF s

\* The end of the socket goes behind everything else.
LEMMA StreamPumpEnds ==
    ASSUME ChannelInv, StreamInv, NEW c \in Conns, PumpEnds(c)
    PROVE  StreamInv'
<1> DEFINE s == sub[c]
           m == Frame("closed", <<>>, 0)
           flushed == FlushedTo(hub)
<1>1. /\ client.conn = c /\ s.q = <<>> /\ wire' = Append(wire, m)
      /\ sub' = sub /\ UNCHANGED <<hub, client>>
  BY DEF PumpEnds
<1>2. QueueShape(s) /\ WireShape(wire) /\ Joined(s, wire \o s.q, client, flushed)
  BY <1>1, StreamAssumption DEF StreamInv
<1>3. wire \in Seq(Message)
  BY <1>2 DEF WireShape
<1>4. m \in Message /\ m.kind = "closed"
  <2>1. <<>> \in Seq(Output) /\ 0 \in 0 .. MaxOut
    BY Bounds
  <2> QED
    BY <2>1 DEF Frame, Message
<1> HIDE DEF m
<1>5. WireShape(wire')
  BY <1>1, <1>2, <1>4, WireGrows
<1>6. Alike(s, s) /\ sub' = [sub EXCEPT ![c] = s]
  BY <1>1 DEF Alike, ChannelInv
<1>7. wire \o s.q = wire /\ wire' \o s.q = Append(wire, m)
  <2>1. Append(wire, m) \in Seq(Message)
    BY <1>3, <1>4
  <2>2. wire' \o s.q = wire'
    BY <1>1, <2>1
  <2> QED
    BY <1>1, <1>3, <2>2
<1> HIDE DEF s, flushed
<1>8. Joined(s, Append(wire, m), client, flushed)
  <2>1. ASSUME NEW pos, Joins(s, wire, client, flushed, pos)
        PROVE  \E pos2 : Joins(s, Append(wire, m), client, flushed, pos2)
    <3> DEFINE r == pos[Len(wire)]
    <3>1. pos \in [0 .. Len(wire) -> 0 .. MaxOut] /\ Len(wire) \in 0 .. Len(wire)
      BY <1>3, <2>1 DEF Joins, Links
    <3>2. r \in 0 .. MaxOut
      BY <3>1
    <3>3. Continued(s, r, flushed)
      BY <2>1 DEF Joins
    <3>4. Link(s.gen, pos[Len(wire)], m, r, ~s.lossy)
      BY <1>4 DEF Link
    <3>5. m.kind \notin {"marker", "snapshot"}
      BY <1>4
    <3> HIDE DEF r
    <3> QED
      BY <1>3, <1>4, <1>6, <2>1, <3>2, <3>3, <3>4, <3>5, JoinsAppend
  <2> QED
    BY <1>2, <1>7, <2>1 DEF Joined
<1> QED
  BY <1>1, <1>2, <1>5, <1>6, <1>7, <1>8, ConnectedKept DEF s, flushed

\* A connection that is gone.
LEMMA GoneKept ==
    ASSUME StreamInv, client.conn # NoConn, client' = Disconnected(client), wire' = <<>>,
           UNCHANGED <<hub, sub>>
    PROVE  StreamInv'
<1> DEFINE lossy == sub[client.conn].lossy
           exact == client.exact /\ ~lossy
<1>1. client \in ClientRecord /\ (client.exact /\ ~lossy => ScreenExact(client))
  BY DEF StreamInv
<1>2. client' = [client EXCEPT !.conn = NoConn, !.exact = exact]
  BY DEF Disconnected
<1>3. exact \in BOOLEAN /\ (exact => ScreenExact(client))
  BY <1>1
<1> HIDE DEF exact
<1>4. /\ client' \in ClientRecord /\ client'.conn = NoConn /\ client'.exact = exact
      /\ client'.lastSeq = client.lastSeq /\ client'.gen = client.gen
      /\ client'.run = client.run
  BY <1>1, <1>2, <1>3 DEF ClientRecord
<1>5. client'.exact => ScreenExact(client')
  BY <1>3, <1>4 DEF ScreenExact
<1>6. WireShape(wire')
  <2>1. wire' \in Seq(Message) /\ Len(wire') = 0
    OBVIOUS
  <2> QED
    BY <2>1 DEF WireShape
<1>7. \A c \in Conns : QueueShape(sub'[c]) /\ (~sub'[c].swapped => sub'[c].gen = hub'.gen)
  BY DEF StreamInv
<1> QED
  BY <1>4, <1>5, <1>6, <1>7 DEF StreamInv

\* A socket that breaks loses what was under way, and a client that lost frames is not exact.
LEMMA StreamDisconnect ==
    ASSUME StreamInv, Disconnect
    PROVE  StreamInv'
BY GoneKept DEF Disconnect

\* The browser takes the first message of the wire.
LEMMA StreamReceive ==
    ASSUME StreamInv, Receive
    PROVE  StreamInv'
<1> DEFINE m == Head(wire)
           c == client.conn
           s == sub[c]
           flushed == FlushedTo(hub)
<1>1. wire # <<>> /\ client' = Received(client, m) /\ UNCHANGED <<hub, sub>>
      /\ wire' = IF m.kind = "closed" THEN <<>> ELSE Tail(wire)
  BY DEF Receive
<1>2. client \in ClientRecord /\ WireShape(wire) /\ c \in Conns /\ c # NoConn
  BY <1>1 DEF StreamInv, ClientRecord
<1>3. QueueShape(s) /\ Joined(s, wire \o s.q, client, flushed)
  BY <1>2 DEF StreamInv
<1>4. s.q \in Seq(Message) /\ wire \in Seq(Message) /\ s.gen \in 0 .. MaxGen
  BY <1>2, <1>3 DEF QueueShape, WireShape
<1>5. m \in Message /\ m = wire[1]
  BY <1>1, <1>4
<1>6. CASE m.kind = "closed"
  <2>1. client' = Disconnected(client) /\ wire' = <<>>
    BY <1>1, <1>6 DEF Received
  <2> QED
    BY <1>1, <1>2, <2>1, GoneKept
<1>7. CASE m.kind # "closed"
  <2> DEFINE msgs == wire \o s.q
             rest == Tail(wire)
  <2>1. client' \in ClientRecord /\ Shown(s.gen, client, m, client')
    BY <1>1, <1>2, <1>4, <1>5, <1>7, ReceivedShown
  <2>2. /\ msgs \in Seq(Message) /\ msgs # <<>> /\ msgs[1] = m
        /\ Tail(msgs) = rest \o s.q
        /\ rest \in Seq(Message) /\ Len(rest) = Len(wire) - 1
        /\ \A i \in 1 .. Len(rest) : rest[i] = wire[i + 1]
        /\ \A i \in 1 .. Len(wire) : msgs[i] = wire[i]
        /\ \A i \in 1 .. Len(s.q) : msgs[Len(wire) + i] = s.q[i]
        /\ Len(msgs) = Len(wire) + Len(s.q)
    <3> DEFINE q == s.q
    <3>1. q \in Seq(Message) /\ wire \in Seq(Message) /\ wire # <<>> /\ m = wire[1]
      BY <1>1, <1>4, <1>5
    <3>2. /\ rest \in Seq(Message) /\ Len(rest) = Len(wire) - 1
          /\ \A i \in 1 .. Len(rest) : rest[i] = wire[i + 1]
          /\ Len(wire) \in Nat /\ Len(wire) # 0 /\ Len(q) \in Nat
      BY <3>1
    <3> HIDE DEF q, m, rest
    <3>3. /\ wire \o q \in Seq(Message) /\ Len(wire \o q) = Len(wire) + Len(q)
          /\ \A i \in 1 .. Len(wire) : (wire \o q)[i] = wire[i]
          /\ \A i \in 1 .. Len(q) : (wire \o q)[Len(wire) + i] = q[i]
      BY <3>1
    <3>4. (wire \o q)[1] = m /\ wire \o q # <<>>
      BY <3>1, <3>2, <3>3
    <3>5. Tail(wire \o q) = rest \o q
      <4> DEFINE t == Tail(wire \o q)
                 u == rest \o q
      <4>1. /\ t \in Seq(Message) /\ Len(t) = Len(wire) + Len(q) - 1
            /\ \A i \in 1 .. Len(t) : t[i] = (wire \o q)[i + 1]
        BY <3>3, <3>4, HeadTailProperties
      <4>2. /\ u \in Seq(Message) /\ Len(u) = Len(rest) + Len(q)
            /\ \A i \in 1 .. Len(rest) + Len(q) :
                  u[i] = IF i <= Len(rest) THEN rest[i] ELSE q[i - Len(rest)]
        BY <3>1, <3>2, ConcatProperties
      <4> HIDE DEF t, u
      <4>3. Len(t) = Len(u)
        BY <3>2, <4>1, <4>2
      <4>4. ASSUME NEW i \in 1 .. Len(t) PROVE t[i] = u[i]
        <5>1. CASE i <= Len(rest)
          <6>1. i \in 1 .. Len(rest) /\ i + 1 \in 1 .. Len(wire)
            BY <3>2, <5>1
          <6> QED
            BY <3>2, <3>3, <4>1, <4>2, <4>3, <5>1, <6>1
        <5>2. CASE ~(i <= Len(rest))
          <6> DEFINE j == i - Len(rest)
          <6>1. j \in 1 .. Len(q) /\ i + 1 = Len(wire) + j
            BY <3>2, <4>1, <5>2
          <6> HIDE DEF j
          <6>2. t[i] = q[j]
            BY <3>3, <4>1, <6>1
          <6>3. u[i] = q[j]
            BY <4>2, <4>3, <5>2 DEF j
          <6> QED
            BY <6>2, <6>3
        <5> QED
          BY <5>1, <5>2
      <4>5. t = u
        BY <4>1, <4>2, <4>3, <4>4, SeqEqual
      <4> QED
        BY <4>5 DEF t, u
    <3> QED
      BY <3>2, <3>3, <3>4, <3>5 DEF q
  <2>3. Len(wire) \in Nat /\ Len(s.q) \in Nat /\ Len(rest) \in Nat
    BY <1>4, <2>2
  <2> HIDE DEF msgs, rest, m, s, flushed
  <2>4. \A i \in 2 .. Len(msgs) : msgs[i].kind # "snapshot"
    <3> TAKE i \in 2 .. Len(msgs)
    <3>1. CASE i <= Len(wire)
      <4>1. i \in 2 .. Len(wire) /\ i \in 1 .. Len(wire)
        BY <2>3, <3>1
      <4> QED
        BY <1>2, <2>2, <4>1 DEF WireShape
    <3>2. CASE ~(i <= Len(wire))
      <4> DEFINE j == i - Len(wire)
      <4>1. j \in 1 .. Len(s.q) /\ Len(wire) + j = i
        BY <2>2, <2>3, <3>2
      <4> HIDE DEF j
      <4>2. msgs[i] = s.q[j] /\ s.q[j].kind \in Queues
        BY <1>3, <2>2, <4>1 DEF QueueShape
      <4> QED
        BY <4>2 DEF Queues
    <3> QED
      BY <3>1, <3>2
  <2>5. ASSUME NEW pos, Joins(s, msgs, client, flushed, pos)
        PROVE  /\ \E pos2 : Joins(s, Tail(msgs), client', flushed, pos2)
               /\ ~s.lossy /\ (client.exact => ScreenExact(client))
                     => (client'.exact => ScreenExact(client'))
    BY <1>2, <1>3, <1>7, <2>1, <2>2, <2>4, <2>5, JoinsReceived
  <2>6. Joined(s, rest \o s.q, client', flushed)
    BY <1>3, <2>2, <2>5 DEF Joined, msgs
  <2>7. client'.exact /\ ~s.lossy => ScreenExact(client')
    <3> SUFFICES ASSUME client'.exact, ~s.lossy PROVE ScreenExact(client')
      OBVIOUS
    <3>1. ~s.need
      BY <1>3 DEF QueueShape
    <3>2. PICK pos : Joins(s, msgs, client, flushed, pos)
      BY <1>3, <3>1 DEF Joined, msgs
    <3>3. client.exact => ScreenExact(client)
      BY DEF StreamInv, s
    <3>4. ~s.lossy /\ (client.exact => ScreenExact(client))
             => (client'.exact => ScreenExact(client'))
      BY <2>5, <3>2
    <3> HIDE DEF StreamInv, Receive
    <3> QED
      BY <3>3, <3>4
  <2>8. client'.conn = c
    BY <2>1 DEF Shown
  <2>9. wire' = rest /\ WireShape(rest)
    <3>1. wire' = rest
      BY <1>1, <1>7 DEF rest
    <3>2. \A i \in 1 .. Len(rest) : rest[i] = wire[i + 1] /\ i + 1 \in 1 .. Len(wire)
          /\ i + 1 \in 2 .. Len(wire)
      BY <2>2, <2>3
    <3>3. \A i \in 2 .. Len(rest) : i \in 1 .. Len(rest)
      OBVIOUS
    <3>4. /\ \A i \in 1 .. Len(wire) : wire[i].kind = "marker" => wire[i] = Marker
          /\ \A i \in 2 .. Len(wire) : wire[i].kind # "snapshot"
      BY <1>2 DEF WireShape
    <3>5. \A i \in 1 .. Len(rest) : rest[i].kind = "marker" => rest[i] = Marker
      BY <3>2, <3>4, Zenon
    <3>6. \A i \in 2 .. Len(rest) : rest[i].kind # "snapshot"
      BY <3>2, <3>3, <3>4, Zenon
    <3> QED
      BY <2>2, <3>1, <3>5, <3>6, Zenon DEF WireShape
  <2>10. \A d \in Conns : QueueShape(sub'[d]) /\ (~sub'[d].swapped => sub'[d].gen = hub'.gen)
    BY <1>1 DEF StreamInv
  <2>11. sub' = sub /\ hub' = hub
    BY <1>1
  <2> QED
    BY <1>2, <2>1, <2>6, <2>7, <2>8, <2>9, <2>10, <2>11 DEF StreamInv, s, flushed
<1> QED
  BY <1>6, <1>7
-----------------------------------------------------------------------------
(* A browser attaches.                                                     *)

\* A recovery with no replay ahead of it.
LEMMA OneMessage ==
    ASSUME NEW m \in Message
    PROVE  LET v == <<>> \o <<m>>
           IN  v \in Seq(Message) /\ Len(v) = 1 /\ v[1] = m
<1>1. <<m>> \in Seq(Message) /\ Len(<<m>>) = 1 /\ <<m>>[1] = m
  OBVIOUS
<1>2. <<>> \o <<m>> = <<m>>
  BY <1>1, ConcatEmptySeq
<1> QED
  BY <1>1, <1>2

\* A replay and the recovery behind it.
LEMMA TwoMessages ==
    ASSUME NEW m \in Message, NEW n \in Message
    PROVE  LET v == <<m>> \o <<n>>
           IN  v \in Seq(Message) /\ Len(v) = 2 /\ v[1] = m /\ v[2] = n /\ v # <<>>
<1> DEFINE v == <<m>> \o <<n>>
<1>1. <<m>> \in Seq(Message) /\ Len(<<m>>) = 1 /\ <<m>>[1] = m
  OBVIOUS
<1>2. <<n>> \in Seq(Message) /\ Len(<<n>>) = 1 /\ <<n>>[1] = n
  OBVIOUS
<1>3. /\ v \in Seq(Message) /\ Len(v) = 2
      /\ \A i \in 1 .. 2 : v[i] = IF i <= 1 THEN <<m>>[i] ELSE <<n>>[i - 1]
  BY <1>1, <1>2, ConcatProperties
<1> HIDE DEF v
<1>4. v[1] = m
  BY <1>1, <1>3
<1>5. v[2] = n
  BY <1>2, <1>3
<1> QED
  BY <1>3, <1>4, <1>5 DEF v

\* What follows a position in a run of bytes.
LEMMA EndingSuffix ==
    ASSUME NEW g \in 0 .. MaxGen, NEW seq \in 0 .. MaxOut, NEW k \in 0 .. seq,
           NEW p \in Nat, seq - k <= p, p <= seq
    PROVE  SubSeq(Ending(g, seq, k), p - (seq - k) + 1, k) = Ending(g, seq, seq - p)
<1> DEFINE e == Ending(g, seq, k)
           a == p - (seq - k)
           t == SubSeq(e, a + 1, k)
           u == Ending(g, seq, seq - p)
<1>1. seq \in Nat /\ k \in Nat /\ k <= seq /\ seq - p \in 0 .. seq
  BY Bounds
<1>2. a \in 0 .. k /\ k - a = seq - p /\ seq - k + a = p
  BY <1>1
<1>3. e \in Seq(Byte) /\ Len(e) = k /\ \A i \in 1 .. k : e[i] = <<g, seq - k + i>>
  BY EndingFacts
<1>4. u \in Seq(Byte) /\ Len(u) = seq - p /\ \A i \in 1 .. seq - p : u[i] = <<g, seq - (seq - p) + i>>
  BY <1>1, EndingFacts
<1> HIDE DEF a, e, u
<1>5. t \in Seq(Byte) /\ Len(t) = k - a /\ \A i \in 1 .. k - a : t[i] = e[a + i]
  BY <1>1, <1>2, <1>3
<1> HIDE DEF t
<1>6. ASSUME NEW i \in 1 .. Len(t) PROVE t[i] = u[i]
  <2>1. i \in 1 .. k - a /\ i \in 1 .. seq - p /\ a + i \in 1 .. k
    BY <1>1, <1>2, <1>5
  <2>2. t[i] = <<g, seq - k + (a + i)>> /\ u[i] = <<g, seq - (seq - p) + i>>
    BY <1>3, <1>4, <1>5, <2>1
  <2>3. seq - k + (a + i) = seq - (seq - p) + i
    BY <1>1, <1>2, <2>1
  <2> QED
    BY <2>2, <2>3
<1>7. t = u
  BY <1>2, <1>4, <1>5, <1>6, SameElements
<1> QED
  BY <1>7 DEF t, u, e, a

\* The replay is a snapshot, or what follows the position up to the hub's.
LEMMA ReplayFacts ==
    ASSUME NEW h \in HubRecord, InStep(h), NEW p \in Nat
    PROVE  LET r == ReplaySince(h, p)
           IN  /\ r \in Message /\ r.kind \in {"snapshot", "bytes"}
               /\ Len(r.data) <= h.seq /\ r.data = Ending(h.gen, h.seq, Len(r.data))
               /\ r.kind = "snapshot" => r.seq = h.seq
               /\ r.kind = "bytes" => p \in 0 .. h.seq /\ Len(r.data) = h.seq - p
<1> DEFINE snapshot == Snapshot(h.ring)
           k == Len(snapshot)
           earliest == h.seq - k
           r == ReplaySince(h, p)
<1>1. /\ h.gen \in 0 .. MaxGen /\ h.seq \in 0 .. MaxOut /\ h.seq \in Nat
      /\ snapshot \in Seq(Output) /\ k \in Nat /\ k <= h.seq
      /\ snapshot = Ending(h.gen, h.seq, k)
  BY HubFacts
<1>2. CASE p < earliest \/ p > h.seq
  <2>1. r = [kind |-> "snapshot", data |-> snapshot, seq |-> h.seq]
    BY <1>2 DEF ReplaySince, Frame
  <2> HIDE DEF r, snapshot
  <2> QED
    BY <1>1, <2>1 DEF Message, r
<1>3. CASE ~(p < earliest \/ p > h.seq)
  <2> DEFINE data == SubSeq(snapshot, p - earliest + 1, k)
  <2>1. r = [kind |-> "bytes", data |-> data, seq |-> 0]
    BY <1>3 DEF ReplaySince, Frame, Bytes
  <2>2. p \in 0 .. h.seq /\ h.seq - k <= p /\ p <= h.seq /\ k \in 0 .. h.seq
    BY <1>1, <1>3
  <2> DEFINE e == Ending(h.gen, h.seq, k)
             u == Ending(h.gen, h.seq, h.seq - p)
  <2>3. SubSeq(e, p - (h.seq - k) + 1, k) = u
    BY <1>1, <2>2, EndingSuffix
  <2>4. h.seq - p \in 0 .. h.seq
    BY <1>1, <2>2
  <2>5. u \in Seq(Output) /\ Len(u) = h.seq - p
    BY <1>1, <2>4, EndingFacts
  <2>6. data = u
    BY <1>1, <2>3
  <2>7. 0 \in 0 .. MaxOut /\ h.seq - p <= h.seq
    BY <1>1, <2>2, Bounds
  <2> HIDE DEF r, data, u, e, snapshot, k, earliest
  <2>8. r.kind = "bytes" /\ r.data = u /\ r \in Message
    BY <2>1, <2>5, <2>6, <2>7 DEF Message
  <2>9. r.data = Ending(h.gen, h.seq, Len(r.data))
    BY <2>5, <2>8 DEF u
  <2> QED
    BY <2>2, <2>5, <2>7, <2>8, <2>9 DEF r
<1> QED
  BY <1>2, <1>3

\* A new connection: the replay, if there is any, and the recovery behind it.
LEMMA NewJoins ==
    ASSUME NEW s, ~s.lossy, NEW msgs \in Seq(Message), Len(msgs) \in {1, 2},
           NEW cl, NEW from \in 0 .. MaxOut, NEW to \in 0 .. MaxOut,
           msgs[Len(msgs)].kind = "recovery", msgs[Len(msgs)].seq = to,
           Len(msgs) = 1 => from = to,
           Len(msgs) = 2 => msgs[1].kind # "marker" /\ Link(s.gen, from, msgs[1], to, TRUE),
           Continues(s, msgs, cl, from)
    PROVE  \E pos : Joins(s, msgs, cl, to, pos)
<1> DEFINE n == Len(msgs)
           pos == [i \in 0 .. n |-> IF i = 0 THEN from ELSE to]
<1>1. n \in Nat /\ n # 0
  <2>1. n = 1 \/ n = 2
    BY Zenon
  <2> HIDE DEF n
  <2> QED
    BY <2>1
<1>2. pos \in [0 .. n -> 0 .. MaxOut] /\ pos[0] = from
      /\ \A i \in 1 .. n : pos[i] = to
  BY <1>1
<1>3. \A i \in 1 .. n : i = n \/ (n = 2 /\ i = 1)
  BY <1>1
<1> HIDE DEF n, pos
<1>4. NoMarker(msgs, 1)
  <2> SUFFICES ASSUME NEW i \in 1 .. n PROVE msgs[i].kind # "marker"
    BY DEF NoMarker, n
  <2>1. CASE i = n
    BY <2>1 DEF n
  <2>2. CASE n = 2 /\ i = 1
    BY <2>2 DEF n
  <2> QED
    BY <1>3, <2>1, <2>2
<1>5. ASSUME NEW i \in 1 .. n PROVE Link(s.gen, pos[i - 1], msgs[i], pos[i], ~s.lossy)
  <2>1. CASE n = 2 /\ i = 1
    <3>1. pos[i - 1] = from /\ pos[i] = to /\ i = 1 /\ Len(msgs) = 2
      BY <1>2, <2>1 DEF n
    <3>2. Link(s.gen, from, msgs[1], to, TRUE)
      BY <3>1
    <3>3. Link(s.gen, from, msgs[1], to, ~s.lossy)
      BY <3>2 DEF Link
    <3> QED
      BY <3>1, <3>3
  <2>2. CASE i = n
    <3>1. pos[i - 1] = to /\ pos[i] = to
      <4>1. CASE n = 1
        <5>1. i - 1 = 0 /\ from = to
          BY <2>2, <4>1 DEF n
        <5> QED
          BY <1>2, <5>1
      <4>2. CASE n # 1
        <5>1. i - 1 \in 1 .. n
          BY <1>1, <2>2, <4>2
        <5> QED
          BY <1>2, <5>1
      <4> QED
        BY <4>1, <4>2
    <3>2. msgs[i].kind = "recovery" /\ msgs[i].seq = to
      BY <2>2 DEF n
    <3> QED
      BY <3>1, <3>2 DEF Link
  <2> QED
    BY <1>3, <2>1, <2>2
<1>6. Links(s, msgs, pos)
  BY <1>2, <1>4, <1>5 DEF Links, n
<1>7. Continues(s, msgs, cl, pos[0])
  BY <1>2
<1>8. Continued(s, pos[Len(msgs)], to)
  <2>1. pos[Len(msgs)] = to
    BY <1>1, <1>2 DEF n
  <2>2. to \in Nat
    BY Bounds
  <2> QED
    BY <2>1, <2>2 DEF Continued
<1>9. Joins(s, msgs, cl, to, pos)
  BY <1>6, <1>7, <1>8 DEF Joins
<1> QED
  BY <1>9

\* The replay goes on where an exact run ends, or starts another.
LEMMA AttachJoins ==
    ASSUME NEW h \in HubRecord, InStep(h), NEW s, ~s.lossy, s.gen = h.gen,
           NEW cl \in ClientRecord, cl.exact => ScreenExact(cl), ~cl.exact => cl.run = <<>>,
           NEW r, r = ReplaySince(h, cl.lastSeq),
           r.kind = "bytes" /\ cl.exact => cl.gen = h.gen \/ cl.lastSeq = 0,
           NEW msgs, msgs = (IF r.kind = "bytes" /\ r.data = <<>> THEN <<>> ELSE <<r>>)
                            \o <<Frame("recovery", <<>>, h.seq)>>
    PROVE  WireShape(msgs) /\ \E pos : Joins(s, msgs, cl, h.seq, pos)
<1> DEFINE last == Frame("recovery", <<>>, h.seq)
<1>1. /\ h.seq \in 0 .. MaxOut /\ h.seq \in Nat
      /\ cl.lastSeq \in Nat /\ cl.run \in Seq(Output) /\ cl.gen \in 0 .. MaxGen
  BY HubFacts DEF ClientRecord
<1>2. /\ r \in Message /\ r.kind \in {"snapshot", "bytes"}
      /\ Len(r.data) <= h.seq /\ r.data = Ending(h.gen, h.seq, Len(r.data))
      /\ r.kind = "snapshot" => r.seq = h.seq
      /\ r.kind = "bytes" => cl.lastSeq \in 0 .. h.seq /\ Len(r.data) = h.seq - cl.lastSeq
  BY <1>1, ReplayFacts
<1>3. last \in Message /\ last.kind = "recovery" /\ last.seq = h.seq
  <2>1. <<>> \in Seq(Output)
    OBVIOUS
  <2> QED
    BY <1>1, <2>1 DEF Frame, Message
<1> HIDE DEF last
<1>4. ~Gap(cl.run)
  <2>1. CASE cl.exact
    <3> DEFINE n == Len(cl.run)
    <3>1. n \in 0 .. cl.lastSeq /\ cl.lastSeq \in 0 .. MaxOut /\ cl.run = Ending(cl.gen, cl.lastSeq, n)
      BY <1>1, <2>1 DEF ScreenExact
    <3> HIDE DEF n
    <3>2. ~Gap(Ending(cl.gen, cl.lastSeq, n))
      BY <1>1, <3>1, EndingGapless
    <3> QED
      BY <3>1, <3>2
  <2>2. CASE ~cl.exact
    <3>1. Len(cl.run) = 0
      BY <2>2
    <3> QED
      BY <3>1 DEF Gap
  <2> QED
    BY <2>1, <2>2
<1>5. CASE r.kind = "snapshot"
  <2>1. msgs = <<r>> \o <<last>>
    BY <1>5, Zenon DEF last
  <2>2. /\ msgs \in Seq(Message) /\ Len(msgs) = 2 /\ msgs[1] = r /\ msgs[2] = last
        /\ msgs # <<>>
    <3> DEFINE v == <<r>> \o <<last>>
    <3>1. v \in Seq(Message) /\ Len(v) = 2 /\ v[1] = r /\ v[2] = last /\ v # <<>>
      BY <1>2, <1>3, TwoMessages
    <3>2. msgs = v
      BY <2>1
    <3> HIDE DEF v
    <3> QED
      BY <3>1, <3>2, Zenon
  <2>3. SnapshotComes(msgs)
    BY <1>5, <2>2 DEF SnapshotComes
  <2>4. Continues(s, msgs, cl, h.seq)
    BY <1>4, <2>3 DEF Continues
  <2>5. Link(s.gen, h.seq, msgs[1], h.seq, TRUE)
    BY <1>2, <1>5, <2>2 DEF Link
  <2>6. \E pos : Joins(s, msgs, cl, h.seq, pos)
    BY <1>1, <1>3, <1>5, <2>2, <2>4, <2>5, NewJoins
  <2>7. WireShape(msgs)
    <3>1. \A i \in 1 .. Len(msgs) : msgs[i].kind # "marker"
      BY <1>3, <1>5, <2>2
    <3>2. \A i \in 2 .. Len(msgs) : msgs[i].kind # "snapshot"
      BY <1>3, <2>2
    <3> QED
      BY <2>2, <3>1, <3>2 DEF WireShape
  <2> QED
    BY <2>6, <2>7
<1>6. CASE r.kind = "bytes"
  <2> DEFINE from == cl.lastSeq
  <2>1. from \in 0 .. h.seq /\ Len(r.data) = h.seq - from /\ from \in Nat /\ from \in 0 .. MaxOut
    <3>1. from \in 0 .. h.seq /\ Len(r.data) = h.seq - from
      BY <1>2, <1>6
    <3> HIDE DEF from
    <3> QED
      BY <1>1, <3>1, Bounds
  <2>2. \/ cl.run = <<>> \/ Last(cl.run)[1] # s.gen
        \/ from <= Last(cl.run)[2]
    <3> SUFFICES ASSUME cl.run # <<>> PROVE from <= Last(cl.run)[2]
      OBVIOUS
    <3> DEFINE n == Len(cl.run)
    <3>1. /\ n \in 0 .. from /\ n # 0 /\ cl.run = Ending(cl.gen, from, n)
      BY <1>1 DEF ScreenExact
    <3>2. Last(cl.run) = cl.run[n]
      BY DEF Last
    <3> HIDE DEF n, from
    <3>3. Ending(cl.gen, from, n)[n] = <<cl.gen, from>>
      BY <1>1, <2>1, <3>1, EndingGapless
    <3>4. Last(cl.run) = <<cl.gen, from>>
      BY <3>1, <3>2, <3>3
    <3> QED
      BY <2>1, <3>4
  <2>3. cl.run = <<>> \/ cl.gen = s.gen
    <3>1. CASE cl.exact /\ cl.lastSeq = 0
      <4>1. Len(cl.run) <= 0
        BY <3>1 DEF ScreenExact
      <4> QED
        BY <1>1, <4>1
    <3> QED
      BY <1>6, <3>1
  <2> HIDE DEF from
  <2>4. \A ms : Continues(s, ms, cl, from)
    BY <1>4, <2>2, <2>3 DEF Continues, from
  <2>5. CASE r.data = <<>>
    <3>1. msgs = <<>> \o <<last>>
      BY <1>6, <2>5, Zenon DEF last
    <3>2. msgs \in Seq(Message) /\ Len(msgs) = 1 /\ msgs[1] = last
      BY <1>3, <3>1, OneMessage, Zenon
    <3>3. from = h.seq
      <4>1. Len(r.data) = 0
        BY <2>5
      <4> QED
        BY <1>1, <2>1, <4>1
    <3>4. \E pos : Joins(s, msgs, cl, h.seq, pos)
      <4>1. msgs[Len(msgs)] = last /\ Len(msgs) # 2 /\ Len(msgs) \in {1, 2}
        BY <3>2
      <4>2. msgs[Len(msgs)].kind = "recovery" /\ msgs[Len(msgs)].seq = h.seq
        BY <1>3, <4>1
      <4>3. Continues(s, msgs, cl, from)
        BY <2>4
      <4> QED
        BY <1>1, <2>1, <3>2, <3>3, <4>1, <4>2, <4>3, NewJoins
    <3>5. WireShape(msgs)
      <4>1. \A i \in 1 .. Len(msgs) : msgs[i].kind # "marker"
        BY <1>3, <3>2
      <4>2. \A i \in 2 .. Len(msgs) : msgs[i].kind # "snapshot"
        BY <3>2
      <4> QED
        BY <3>2, <4>1, <4>2 DEF WireShape
    <3> QED
      BY <3>4, <3>5
  <2>6. CASE r.data # <<>>
    <3>1. msgs = <<r>> \o <<last>>
      BY <1>6, <2>6, Zenon DEF last
    <3>2. msgs \in Seq(Message) /\ Len(msgs) = 2 /\ msgs[1] = r /\ msgs[2] = last
      <4> DEFINE v == <<r>> \o <<last>>
      <4>1. v \in Seq(Message) /\ Len(v) = 2 /\ v[1] = r /\ v[2] = last
        BY <1>2, <1>3, TwoMessages
      <4>2. msgs = v
        BY <3>1
      <4> HIDE DEF v
      <4> QED
        BY <4>1, <4>2, Zenon
    <3>3. h.seq - Len(r.data) = from
      BY <1>1, <2>1
    <3>4. Link(s.gen, from, msgs[1], h.seq, TRUE)
      BY <1>2, <1>6, <2>1, <3>2, <3>3 DEF Link
    <3>5. \E pos : Joins(s, msgs, cl, h.seq, pos)
      BY <1>1, <1>3, <1>6, <2>1, <2>4, <3>2, <3>4, NewJoins
    <3>6. WireShape(msgs)
      <4>1. \A i \in 1 .. Len(msgs) : msgs[i].kind # "marker"
        BY <1>3, <1>6, <3>2
      <4>2. \A i \in 2 .. Len(msgs) : msgs[i].kind # "snapshot"
        BY <1>3, <3>2
      <4> QED
        BY <3>2, <4>1, <4>2 DEF WireShape
    <3> QED
      BY <3>5, <3>6
  <2> QED
    BY <2>5, <2>6
<1> QED
  BY <1>2, <1>5, <1>6
-----------------------------------------------------------------------------
\* SubscribeFrom flushes, reads and registers under one lock.
LEMMA StreamAttach ==
    ASSUME HubInv, ChannelInv, StreamInv, NEW c \in Conns, Attach(c)
    PROVE  StreamInv'
<1> DEFINE h == Flushed(hub)
           r == ReplaySince(h, client.lastSeq)
           compared == client.gen = hub.gen \/ client.lastSeq = 0
           exact == client.exact /\ (r.kind = "snapshot" \/ compared)
           above == IF exact THEN client.above ELSE Page(client)
           run == IF exact THEN client.run ELSE <<>>
           s == Subscriber(hub.gen, ~hub.closed)
           subs == FlushedSubs(hub, sub)
<1>1. /\ client.conn = NoConn /\ hub' = h /\ sub' = [subs EXCEPT ![c] = s]
      /\ wire' = (IF r.kind = "bytes" /\ r.data = <<>> THEN <<>> ELSE <<r>>)
                 \o <<Frame("recovery", <<>>, h.seq)>>
      /\ client' = [client EXCEPT !.conn = c, !.exact = exact, !.above = above, !.run = run]
  BY DEF Attach, AttachHub
<1>2. /\ h \in HubRecord /\ InStep(h) /\ h.gen = hub.gen /\ h.seq = hub.seq
      /\ FlushedTo(h) = h.seq
  <2>1. hub \in HubRecord /\ InStep(hub)
    BY DEF HubInv
  <2> QED
    BY <2>1, FlushedInStep, FlushedFacts
<1>3. client \in ClientRecord /\ (client.exact => ScreenExact(client))
  BY <1>1 DEF StreamInv
<1>4. r.kind \in {"snapshot", "bytes"}
  <2>1. client.lastSeq \in Nat
    BY <1>3 DEF ClientRecord
  <2> HIDE DEF h
  <2> QED
    BY <1>2, <2>1, ReplayFacts
<1>5. s.gen = hub.gen /\ s.q = <<>> /\ s.need = FALSE /\ s.lossy = FALSE
  BY DEF Subscriber
<1>6. QueueShape(s)
  <2>1. <<>> \in Seq(Message) /\ Len(<<>>) = 0
    OBVIOUS
  <2>2. s.q \in Seq(Message) /\ Len(s.q) = 0
    BY <1>5, <2>1
  <2>3. s.gen \in 0 .. MaxGen
    BY <1>5 DEF HubInv, HubRecord
  <2> HIDE DEF s
  <2>4. \A i \in 1 .. Len(s.q) :
            s.q[i].kind \in Queues /\ (s.q[i].kind = "marker" => s.q[i] = Marker)
    BY <2>2
  <2> QED
    BY <1>5, <2>2, <2>3, <2>4 DEF QueueShape
<1>7. \A d \in Conns : Carried(sub[d], subs[d], FlushedTo(hub), hub.seq)
  <2> TAKE d \in Conns
  <2>1. hub \in HubRecord /\ InStep(hub)
    BY DEF HubInv
  <2>2. QueueShape(sub[d]) /\ (~sub[d].swapped => sub[d].gen = hub.gen)
    BY DEF StreamInv
  <2> QED
    BY <2>1, <2>2, FlushCarries
<1>8. \A d \in Conns : sub'[d] = IF d = c THEN s ELSE subs[d]
  <2>1. DOMAIN subs = Conns /\ subs = [d \in Conns |-> subs[d]]
    BY FlushKept
  <2> HIDE DEF subs, s
  <2> QED
    BY <1>1, <2>1
<1> HIDE DEF h, r, compared, s, subs
<1>9. /\ exact \in BOOLEAN /\ (exact => ScreenExact(client)) /\ run \in Seq(Output)
      /\ above \in Seq(Nat \X Nat)
  <2>1. /\ client.exact \in BOOLEAN /\ client.run \in Seq(Output) /\ <<>> \in Seq(Output)
        /\ client.above \in Seq(Nat \X Nat) /\ Page(client) \in Seq(Nat \X Nat)
    BY <1>3, PageFacts DEF ClientRecord
  <2> QED
    BY <1>3, <2>1
<1>10. /\ exact => run = client.run
       /\ ~exact => run = <<>>
       /\ exact /\ r.kind = "bytes" => compared
  OBVIOUS
<1> HIDE DEF exact, above, run
<1>11. /\ client' \in ClientRecord /\ client'.conn = c /\ client'.exact = exact
       /\ client'.run = run /\ client'.lastSeq = client.lastSeq
       /\ client'.gen = client.gen
  BY <1>1, <1>3, <1>9 DEF ClientRecord
<1>12. client'.exact => ScreenExact(client')
  BY <1>9, <1>10, <1>11 DEF ScreenExact
<1>13. r = ReplaySince(h, client'.lastSeq)
  BY <1>11 DEF r
<1>14. /\ ~client'.exact => client'.run = <<>>
       /\ r.kind = "bytes" /\ client'.exact => client'.gen = h.gen \/ client'.lastSeq = 0
  BY <1>2, <1>10, <1>11 DEF compared
<1>15. WireShape(wire') /\ \E pos : Joins(s, wire', client', h.seq, pos)
  <2> DEFINE cl == client'
             msgs == wire'
  <2>1. cl \in ClientRecord /\ (cl.exact => ScreenExact(cl)) /\ (~cl.exact => cl.run = <<>>)
        /\ r = ReplaySince(h, cl.lastSeq)
        /\ (r.kind = "bytes" /\ cl.exact => cl.gen = h.gen \/ cl.lastSeq = 0)
    BY <1>11, <1>12, <1>13, <1>14
  <2>2. msgs = (IF r.kind = "bytes" /\ r.data = <<>> THEN <<>> ELSE <<r>>)
               \o <<Frame("recovery", <<>>, h.seq)>>
    BY <1>1
  <2>3. ~s.lossy /\ s.gen = h.gen
    BY <1>2, <1>5
  <2> HIDE DEF cl, msgs
  <2>4. WireShape(msgs) /\ \E pos : Joins(s, msgs, cl, h.seq, pos)
    BY <1>2, <2>1, <2>2, <2>3, AttachJoins
  <2> QED
    BY <2>4 DEF cl, msgs
<1>16. sub'[c] = s /\ wire' \o s.q = wire'
  <2>1. wire' \in Seq(Message)
    BY <1>15 DEF WireShape
  <2> QED
    BY <1>5, <1>8, <2>1, ConcatEmptySeq
<1>17. Joined(s, wire' \o s.q, client', FlushedTo(hub'))
  <2>1. FlushedTo(hub') = h.seq
    BY <1>1, <1>2
  <2> QED
    BY <1>15, <1>16, <2>1 DEF Joined
<1>18. \A d \in Conns : QueueShape(sub'[d]) /\ (~sub'[d].swapped => sub'[d].gen = hub'.gen)
  <2> TAKE d \in Conns
  <2>1. CASE d = c
    BY <1>1, <1>2, <1>5, <1>6, <1>16, <2>1
  <2>2. CASE d # c
    <3>1. sub'[d] = subs[d]
      BY <1>8, <2>2
    <3>2. Carried(sub[d], subs[d], FlushedTo(hub), hub.seq)
      BY <1>7
    <3>3. QueueShape(subs[d]) /\ subs[d].gen = sub[d].gen
          /\ (subs[d].swapped = sub[d].swapped \/ subs[d].swapped)
      BY <3>2 DEF Carried
    <3>4. ~sub[d].swapped => sub[d].gen = hub.gen
      BY DEF StreamInv
    <3> QED
      BY <1>1, <1>2, <3>1, <3>3, <3>4
  <2> QED
    BY <2>1, <2>2
<1>19. client'.conn # NoConn
  BY <1>11, StreamAssumption
<1> QED
  BY <1>11, <1>12, <1>15, <1>16, <1>17, <1>18, <1>19 DEF StreamInv

\* A new daemon: nothing was shown and nobody is connected.
LEMMA InitStream == Init => StreamInv
<1> SUFFICES ASSUME Init PROVE StreamInv
  OBVIOUS
<1>1. <<>> \in Seq(Output) /\ <<>> \in Seq(Message) /\ Len(<<>>) = 0 /\ 0 \in 0 .. MaxGen
  BY Bounds
<1>2. client = [conn |-> NoConn, lastSeq |-> 0, gen |-> 0, exact |-> TRUE,
                  above |-> <<>>, run |-> <<>>]
  BY DEF Init, NewClient
<1>3. client \in ClientRecord /\ client.conn = NoConn
  BY <1>1, <1>2 DEF ClientRecord
<1>4. ScreenExact(client)
  <2>1. Ending(0, 0, 0) = <<>>
    BY DEF Ending
  <2>2. client.lastSeq = 0 /\ client.gen = 0 /\ client.run = <<>> /\ 0 <= MaxOut
    BY <1>2, Bounds
  <2> QED
    BY <1>1, <2>1, <2>2 DEF ScreenExact
<1>5. wire = <<>> /\ WireShape(wire)
  <2>1. wire = <<>>
    BY DEF Init
  <2> QED
    BY <1>1, <2>1 DEF WireShape
<1>6. \A c \in Conns : QueueShape(sub[c]) /\ sub[c].swapped
  <2> TAKE c \in Conns
  <2>1. sub[c].gen = 0 /\ sub[c].q = <<>> /\ sub[c].need = FALSE /\ sub[c].lossy = FALSE
        /\ sub[c].swapped = TRUE
    BY DEF Init, Subscriber
  <2>2. sub[c].q \in Seq(Message) /\ Len(sub[c].q) = 0
    BY <1>1, <2>1
  <2>3. \A i \in 1 .. Len(sub[c].q) :
            sub[c].q[i].kind \in Queues /\ (sub[c].q[i].kind = "marker" => sub[c].q[i] = Marker)
    BY <2>2
  <2> QED
    BY <1>1, <2>1, <2>2, <2>3 DEF QueueShape
<1> QED
  BY <1>3, <1>4, <1>5, <1>6 DEF StreamInv

\* Every step keeps hub, channels and what is on its way joined.
LEMMA StepStream == HubInv /\ ChannelInv /\ StreamInv /\ [Next]_vars => StreamInv'
<1> SUFFICES ASSUME HubInv, ChannelInv, StreamInv, [Next]_vars PROVE StreamInv'
  OBVIOUS
<1>1. ASSUME NEW n \in 1 .. MaxChunk, Write(n) PROVE StreamInv'
  BY <1>1, StreamWrite
<1>2. CASE TimerFires
  BY <1>2, StreamTimer
<1>3. CASE FlushCallback
  BY <1>3, StreamFlush
<1>4. CASE BroadcastResize
  BY <1>4, StreamResize
<1>5. CASE Close
  BY <1>5, StreamClose
<1>6. CASE ReplaceHost
  BY <1>6, StreamReplace
<1>7. ASSUME NEW c \in Conns, Attach(c) PROVE StreamInv'
  BY <1>7, StreamAttach
<1>8. ASSUME NEW c \in Conns, Pump(c) PROVE StreamInv'
  BY <1>8, StreamPump
<1>9. ASSUME NEW c \in Conns, PumpEnds(c) PROVE StreamInv'
  BY <1>9, StreamPumpEnds
<1>10. ASSUME NEW c \in Conns, Leave(c) PROVE StreamInv'
  BY <1>10, StreamLeave
<1>11. ASSUME NEW c \in Conns, Unsubscribe(c) PROVE StreamInv'
  BY <1>11, StreamUnsubscribe
<1>12. CASE Disconnect
  BY <1>12, StreamDisconnect
<1>13. CASE Receive
  BY <1>13, StreamReceive
<1>14. CASE UNCHANGED vars
  <2>1. hub' = hub /\ sub' = sub /\ wire' = wire /\ client' = client
    BY <1>14 DEF vars
  <2> QED
    BY <2>1 DEF StreamInv
<1> QED
  BY <1>1, <1>2, <1>3, <1>4, <1>5, <1>6, <1>7, <1>8, <1>9, <1>10, <1>11, <1>12, <1>13, <1>14
     DEF Next

\* A run of bytes goes on byte by byte, up to where it ends.
LEMMA EndingRuns ==
    ASSUME NEW g \in 0 .. MaxGen, NEW seq \in 0 .. MaxOut, NEW n \in 0 .. seq,
           NEW s, s = Ending(g, seq, n)
    PROVE  Consecutive(s) /\ (s # <<>> => Last(s) = <<g, seq>>)
<1>1. seq \in Nat /\ n \in Nat
  BY Bounds
<1>2. s \in Seq(Output) /\ Len(s) = n /\ \A i \in 1 .. n : s[i] = <<g, seq - n + i>>
  BY EndingFacts
<1>3. ASSUME NEW i \in 1 .. Len(s) - 1 PROVE s[i + 1] = <<s[i][1], s[i][2] + 1>>
  <2>1. i \in 1 .. n /\ i + 1 \in 1 .. n /\ seq - n + (i + 1) = seq - n + i + 1
    BY <1>1, <1>2
  <2>2. s[i] = <<g, seq - n + i>> /\ s[i + 1] = <<g, seq - n + (i + 1)>>
    BY <1>2, <2>1
  <2>3. s[i][1] = g /\ s[i][2] = seq - n + i
    BY <2>2
  <2> QED
    BY <2>1, <2>2, <2>3
<1>4. ASSUME s # <<>> PROVE Last(s) = <<g, seq>>
  <2>1. n # 0
    BY <1>2, <1>4
  <2>2. s[n] = <<g, seq>>
    BY <2>1, EndingGapless
  <2> QED
    BY <1>2, <2>2 DEF Last
<1> QED
  BY <1>3, <1>4 DEF Consecutive

\* So does the run of an exact client.
LEMMA ExactRuns ==
    ASSUME NEW cl \in ClientRecord, ScreenExact(cl)
    PROVE  /\ Consecutive(cl.run)
           /\ cl.run # <<>> => Last(cl.run) = <<cl.gen, cl.lastSeq>>
<1> DEFINE n == Len(cl.run)
           g == cl.gen
           seq == cl.lastSeq
<1>1. g \in 0 .. MaxGen /\ seq \in 0 .. MaxOut /\ n \in 0 .. seq /\ cl.run = Ending(g, seq, n)
  BY Bounds DEF ScreenExact, ClientRecord
<1> HIDE DEF n, g, seq
<1>2. Consecutive(cl.run) /\ (cl.run # <<>> => Last(cl.run) = <<g, seq>>)
  BY <1>1, EndingRuns
<1> QED
  BY <1>2 DEF g, seq

\* Over any number of connections, hosts, flushes and timers, a browser that lost
\* nothing and was not handed to another host unnoticed shows every byte behind the
\* last marker or snapshot once and in order, and asks for the right one when it
\* reconnects (Hub.SubscribeFrom, replaySinceLocked, handleBinary).
THEOREM ScreenIsContiguous == Spec => []StreamContiguous
<1>1. StreamInv => StreamContiguous
  <2> SUFFICES ASSUME StreamInv, client.exact, client.conn # NoConn => ~sub[client.conn].lossy
               PROVE  /\ Consecutive(client.run)
                      /\ client.run # <<>> =>
                            Last(client.run) = <<client.gen, client.lastSeq>>
    BY DEF StreamContiguous
  <2>1. ScreenExact(client) /\ client \in ClientRecord
    BY DEF StreamInv
  <2> QED
    BY <2>1, ExactRuns
<1> QED
  BY <1>1, InitInStep, StepInStep, InitChannels, StepChannels, InitStream, StepStream, PTL
     DEF Spec

\* For every queue size: a browser with a hole in what its connection gave it since
\* the last marker has a marker coming, or one is owed to it ahead of the next frame
\* (enqueueLocked, dropOldestLocked).  Of a loss it did not live to announce the
\* next connection knows nothing; its output is not part of the same run.
THEOREM LossIsTold == Spec => []LossIsSignalled
<1>1. StreamInv => LossIsSignalled
  <2> DEFINE s == sub[client.conn]
             msgs == wire \o s.q
  <2> SUFFICES ASSUME StreamInv, client.conn # NoConn, Gap(client.run), ~s.need
               PROVE  Marker \in ToSet(s.q) \cup ToSet(wire)
    BY DEF LossIsSignalled
  <2>1. QueueShape(s) /\ WireShape(wire) /\ Joined(s, msgs, client, FlushedTo(hub))
    BY DEF StreamInv, ClientRecord
  <2>2. s.q \in Seq(Message) /\ wire \in Seq(Message)
    BY <2>1 DEF QueueShape, WireShape
  <2>3. PICK pos : Joins(s, msgs, client, FlushedTo(hub), pos)
    BY <2>1 DEF Joined
  <2>4. ~NoMarker(msgs, 1)
    BY <2>3 DEF Joins, Continues
  <2>5. PICK j \in 1 .. Len(msgs) : msgs[j].kind = "marker"
    BY <2>4 DEF NoMarker
  <2>6. CASE j <= Len(wire)
    <3>1. j \in 1 .. Len(wire) /\ msgs[j] = wire[j]
      BY <2>2, <2>6
    <3>2. wire[j] = Marker
      BY <2>1, <2>5, <3>1 DEF WireShape
    <3>3. j \in DOMAIN wire
      BY <2>2, <3>1
    <3> QED
      BY <3>2, <3>3, Zenon DEF ToSet
  <2>7. CASE ~(j <= Len(wire))
    <3> DEFINE k == j - Len(wire)
    <3>1. k \in 1 .. Len(s.q) /\ msgs[j] = s.q[k]
      BY <2>2, <2>7
    <3> HIDE DEF k, s, msgs
    <3>2. s.q[k] = Marker
      BY <2>1, <2>5, <3>1 DEF QueueShape
    <3>3. k \in DOMAIN s.q
      BY <2>2, <3>1
    <3> QED
      BY <3>2, <3>3, Zenon DEF ToSet
  <2> QED
    BY <2>6, <2>7
<1> QED
  BY <1>1, InitInStep, StepInStep, InitChannels, StepChannels, InitStream, StepStream, PTL
     DEF Spec
-----------------------------------------------------------------------------
(***************************************************************************)
(* The run as ScreenSpec has it.                                        *)
(***************************************************************************)

\* What a hub has been given, or one of an earlier host.
Was(b, h) == b[1] < h.gen \/ (b[1] = h.gen /\ b[2] <= h.seq)

\* A message carries nothing that was not printed, and an empty chunk is not sent.
Carries(m, h) ==
    /\ \A i \in 1 .. Len(m.data) : Was(m.data[i], h)
    /\ m.kind = "bytes" => m.data # <<>>

AllCarry(q, h) == \A i \in 1 .. Len(q) : Carries(q[i], h)

\* A snapshot is a run of the host's output that begins behind what an exact client has.
SnapshotAhead(m, g, cl) ==
    /\ m.data = Ending(g, m.seq, Len(m.data)) /\ Len(m.data) <= m.seq
    /\ cl.exact => \/ cl.gen < g
                   \/ cl.gen = g /\ m.data # <<>> /\ m.data[1][2] > cl.lastSeq + 1

\* Nothing is shown or under way that was not printed, and positions are of hosts
\* that were there.
PlaceInv ==
    /\ \A c \in Conns : sub[c].gen <= hub.gen /\ AllCarry(sub[c].q, hub)
    /\ AllCarry(wire, hub) /\ client.gen <= hub.gen
    /\ \A i \in 1 .. Len(client.run) : Was(client.run[i], hub)
    /\ client.conn # NoConn =>
          /\ client.gen <= sub[client.conn].gen
          /\ \A i \in 1 .. Len(wire) :
                wire[i].kind \in {"snapshot", "recovery"} =>
                    Was(<<sub[client.conn].gen, wire[i].seq>>, hub)
          /\ SnapshotComes(wire) => SnapshotAhead(wire[1], sub[client.conn].gen, client)
    /\ Faithful => Was(<<client.gen, client.lastSeq>>, hub)

\* A hub goes on, or makes way for the next one.
Later(h, k) == h.gen < k.gen \/ (h.gen = k.gen /\ h.seq <= k.seq)

HubNumbers(h) == h.gen \in Nat /\ h.seq \in Nat

\* A byte is a pair of numbers.
LEMMA ByteNumbers == \A b \in Output : b[1] \in Nat /\ b[2] \in Nat
<1> TAKE b \in Output
<1>1. PICK g \in 0 .. MaxGen, i \in 1 .. MaxOut : b = <<g, i>>
  BY DEF Output
<1>2. b[1] = g /\ b[2] = i
  BY <1>1
<1> QED
  BY <1>2, Bounds

\* What was printed stays printed.
LEMMA WasKept ==
    ASSUME NEW h, NEW k, HubNumbers(h), HubNumbers(k), Later(h, k),
           NEW b, b[1] \in Nat, b[2] \in Nat, Was(b, h)
    PROVE  Was(b, k)
BY DEF Was, Later, HubNumbers

\* What a queue carries stays printed.
LEMMA CarryKept ==
    ASSUME NEW h, NEW k, HubNumbers(h), HubNumbers(k), Later(h, k),
           NEW q \in Seq(Message), AllCarry(q, h)
    PROVE  AllCarry(q, k)
<1> SUFFICES ASSUME NEW i \in 1 .. Len(q) PROVE Carries(q[i], k)
  BY DEF AllCarry
<1>1. q[i] \in Message /\ Carries(q[i], h)
  BY DEF AllCarry
<1>2. q[i].data \in Seq(Output)
  BY <1>1 DEF Message
<1>3. ASSUME NEW j \in 1 .. Len(q[i].data) PROVE Was(q[i].data[j], k)
  <2>1. q[i].data[j] \in Output /\ Was(q[i].data[j], h)
    BY <1>1, <1>2 DEF Carries
  <2> QED
    BY <2>1, ByteNumbers, WasKept
<1> QED
  BY <1>1, <1>3 DEF Carries

\* A run that ends at a hub's position was printed.
LEMMA EndingWas ==
    ASSUME NEW h \in HubRecord, NEW n \in 0 .. h.seq
    PROVE  \A i \in 1 .. Len(Ending(h.gen, h.seq, n)) : Was(Ending(h.gen, h.seq, n)[i], h)
<1>1. h.gen \in 0 .. MaxGen /\ h.seq \in 0 .. MaxOut /\ h.seq \in Nat
  BY Bounds DEF HubRecord
<1> DEFINE e == Ending(h.gen, h.seq, n)
<1>2. Len(e) = n /\ \A i \in 1 .. n : e[i] = <<h.gen, h.seq - n + i>>
  BY <1>1, EndingFacts
<1> HIDE DEF e
<1>3. ASSUME NEW i \in 1 .. Len(e) PROVE Was(e[i], h)
  <2>1. e[i] = <<h.gen, h.seq - n + i>>
    BY <1>2
  <2>2. e[i][1] = h.gen /\ e[i][2] = h.seq - n + i
    BY <2>1
  <2>3. h.seq - n + i <= h.seq
    BY <1>1, <1>2
  <2> QED
    BY <2>2, <2>3 DEF Was
<1> QED
  BY <1>3 DEF e

\* What a hub can give to a newcomer, and what it coalesces, was printed.
LEMMA HubCarries ==
    ASSUME NEW h \in HubRecord, InStep(h)
    PROVE  /\ HubNumbers(h)
           /\ \A i \in 1 .. Len(Snapshot(h.ring)) : Was(Snapshot(h.ring)[i], h)
           /\ \A i \in 1 .. Len(h.pending) : Was(h.pending[i], h)
<1>1. /\ h.gen \in 0 .. MaxGen /\ h.seq \in Nat
      /\ Len(h.pending) \in Nat /\ Len(h.pending) <= h.seq
      /\ Len(Snapshot(h.ring)) \in Nat /\ Len(Snapshot(h.ring)) <= h.seq
      /\ Snapshot(h.ring) = Ending(h.gen, h.seq, Len(Snapshot(h.ring)))
      /\ h.pending = Ending(h.gen, h.seq, Len(h.pending))
  BY HubFacts DEF InStep
<1> DEFINE k == Len(Snapshot(h.ring))
           n == Len(h.pending)
<1>2. k \in 0 .. h.seq /\ n \in 0 .. h.seq
  BY <1>1
<1>3. Snapshot(h.ring) = Ending(h.gen, h.seq, k) /\ h.pending = Ending(h.gen, h.seq, n)
  BY <1>1
<1> HIDE DEF k, n
<1>4. /\ \A i \in 1 .. Len(Ending(h.gen, h.seq, k)) : Was(Ending(h.gen, h.seq, k)[i], h)
      /\ \A i \in 1 .. Len(Ending(h.gen, h.seq, n)) : Was(Ending(h.gen, h.seq, n)[i], h)
  BY <1>2, EndingWas
<1>5. HubNumbers(h)
  BY <1>1, Bounds DEF HubNumbers
<1> QED
  BY <1>3, <1>4, <1>5

\* A queue with a message more.
LEMMA CarryMore ==
    ASSUME NEW h, NEW q \in Seq(Message), AllCarry(q, h), NEW f \in Message, Carries(f, h)
    PROVE  AllCarry(Append(q, f), h)
<1> SUFFICES ASSUME NEW i \in 1 .. Len(Append(q, f)) PROVE Carries(Append(q, f)[i], h)
  BY DEF AllCarry
<1>1. Append(q, f)[i] = IF i <= Len(q) THEN q[i] ELSE f
  OBVIOUS
<1>2. i <= Len(q) => i \in 1 .. Len(q)
  OBVIOUS
<1> QED
  BY <1>1, <1>2 DEF AllCarry

\* Queueing a frame brings nothing that was not printed.
LEMMA EnqueueCarries ==
    ASSUME NEW h, NEW s, Shape(s), QueueShape(s), AllCarry(s.q, h),
           NEW f, Broadcastable(f), Carries(f, h), NEW snapshot \in Seq(Output),
           \A i \in 1 .. Len(snapshot) : Was(snapshot[i], h)
    PROVE  AllCarry(Enqueue(s, f, snapshot).q, h)
<1> DEFINE t == Enqueue(s, f, snapshot)
<1>1. s.q \in Seq(Message) /\ f \in Message /\ s.need \in BOOLEAN /\ s.lossy \in BOOLEAN
  BY DEF QueueShape, Broadcastable
<1>2. CASE s.swapped
  BY <1>2 DEF Enqueue
<1>3. CASE ~s.swapped /\ s.need
  <2>1. t = Restarted(s, f, snapshot)
    BY <1>3 DEF Enqueue
  <2> HIDE DEF t
  <2>2. t.q = Told(snapshot, f)
    BY <2>1, RestartTold
  <2> DEFINE q == IF snapshot = <<>> THEN <<Marker>> ELSE Append(<<Marker>>, Bytes(snapshot))
  <2>3. Marker \in Message /\ Carries(Marker, h)
    <3>1. Marker.data = <<>> /\ Marker.kind = "marker"
      BY DEF Marker, Frame
    <3>2. Len(Marker.data) = 0
      BY <3>1
    <3> QED
      BY <3>1, <3>2, FrameFacts DEF Carries
  <2>4. <<Marker>> \in Seq(Message) /\ AllCarry(<<Marker>>, h)
    BY <2>3 DEF AllCarry
  <2>5. q \in Seq(Message) /\ AllCarry(q, h)
    <3>1. CASE snapshot = <<>>
      BY <2>4, <3>1, Zenon
    <3>2. CASE snapshot # <<>>
      <4>1. Bytes(snapshot) \in Message /\ Bytes(snapshot).data = snapshot
        BY FrameFacts
      <4>2. Carries(Bytes(snapshot), h)
        BY <3>2, <4>1 DEF Carries
      <4>3. q = Append(<<Marker>>, Bytes(snapshot))
        BY <3>2, Zenon
      <4>4. AllCarry(Append(<<Marker>>, Bytes(snapshot)), h)
        BY <2>4, <4>1, <4>2, CarryMore
      <4>5. Append(<<Marker>>, Bytes(snapshot)) \in Seq(Message)
        BY <2>4, <4>1
      <4> QED
        BY <4>3, <4>4, <4>5, Zenon
    <3> QED
      BY <3>1, <3>2
  <2>6. t.q = Append(q, f)
    BY <2>2 DEF Told
  <2> HIDE DEF q
  <2>7. AllCarry(Append(q, f), h)
    BY <1>1, <2>5, CarryMore
  <2> QED
    BY <2>6, <2>7 DEF t
<1>4. CASE ~s.swapped /\ ~s.need
  <2>1. t = Send(s, f, TRUE, TRUE)
    BY <1>4 DEF Enqueue
  <2>2. FrameLen(f) # 0
    BY FrameFacts
  <2> HIDE DEF t
  <2>3. PICK n \in 0 .. Len(s.q) : Behind(s, t, f, n, TRUE)
    BY <1>1, <2>1, <2>2, SendBehind
  <2> DEFINE left == SubSeq(s.q, n + 1, Len(s.q))
  <2>4. left \in Seq(Message) /\ \A i \in 1 .. Len(left) : left[i] = s.q[n + i] /\ n + i \in 1 .. Len(s.q)
    BY <1>1
  <2>5. AllCarry(left, h)
    BY <2>4 DEF AllCarry
  <2>6. t.q = Append(left, f)
    BY <2>3 DEF Behind
  <2> HIDE DEF left
  <2>7. AllCarry(Append(left, f), h)
    BY <1>1, <2>4, <2>5, CarryMore
  <2> QED
    BY <2>6, <2>7 DEF t
<1> QED
  BY <1>2, <1>3, <1>4

\* A flush hands on what was coalesced.
LEMMA FlushCarriesPrinted ==
    ASSUME ChannelInv, NEW h \in HubRecord, InStep(h), NEW c \in Conns,
           QueueShape(sub[c]), AllCarry(sub[c].q, h)
    PROVE  AllCarry(FlushedSubs(h, sub)[c].q, h)
<1>1. Lifecycle(sub[c]) /\ Shape(sub[c])
  BY DEF ChannelInv, Lifecycle
<1>2. CASE h.pending = <<>>
  BY <1>2 DEF FlushedSubs
<1>3. CASE h.pending # <<>>
  <2> DEFINE f == Bytes(h.pending)
             snapshot == Snapshot(h.ring)
             s == sub[c]
  <2>1. FlushedSubs(h, sub)[c] = IF s.registered /\ ~h.closed THEN Enqueue(s, f, snapshot) ELSE s
    BY <1>3 DEF FlushedSubs, Broadcast
  <2>2. h.pending \in Seq(Output) /\ snapshot \in Seq(Output)
    BY HubFacts
  <2>3. Broadcastable(f) /\ f.data = h.pending
    BY <1>3, <2>2, FrameFacts DEF Broadcastable
  <2>4. Carries(f, h) /\ \A i \in 1 .. Len(snapshot) : Was(snapshot[i], h)
    BY <1>3, <2>3, HubCarries DEF Carries
  <2> HIDE DEF f, snapshot
  <2>5. AllCarry(Enqueue(s, f, snapshot).q, h)
    BY <1>1, <2>2, <2>3, <2>4, EnqueueCarries
  <2> QED
    BY <2>1, <2>5
<1> QED
  BY <1>2, <1>3
-----------------------------------------------------------------------------
(* What the hub does to the run's place.                                *)

\* Subscribers keep their host, do not forget a loss and get what was printed.
Onward ==
    /\ HubNumbers(hub) /\ HubNumbers(hub') /\ Later(hub, hub') /\ UNCHANGED <<wire, client>>
    /\ \A c \in Conns : /\ sub'[c].gen = sub[c].gen
                        /\ ~sub'[c].lossy => ~sub[c].lossy
                        /\ AllCarry(sub'[c].q, hub')

\* The numbers a client and a subscriber are made of.
LEMMA ClientNumbers ==
    ASSUME StreamInv
    PROVE  /\ client.gen \in Nat /\ client.lastSeq \in Nat /\ client.exact \in BOOLEAN
           /\ client.run \in Seq(Output) /\ wire \in Seq(Message)
           /\ \A c \in Conns : sub[c].gen \in Nat /\ sub[c].lossy \in BOOLEAN
                               /\ sub[c].q \in Seq(Message)
           /\ client.conn # NoConn => client.conn \in Conns
<1>1. client \in ClientRecord /\ wire \in Seq(Message)
  BY DEF StreamInv, WireShape
<1>2. \A c \in Conns : sub[c].gen \in 0 .. MaxGen /\ sub[c].lossy \in BOOLEAN
                       /\ sub[c].q \in Seq(Message)
  BY DEF StreamInv, QueueShape
<1>3. \A n \in 0 .. MaxGen : n \in Nat
  BY Bounds
<1> QED
  BY <1>1, <1>2, <1>3 DEF ClientRecord

\* A browser that did nothing is where it was, and no more faithful.
LEMMA OnwardKeeps ==
    ASSUME StreamInv, PlaceInv, Onward
    PROVE  PlaceInv' /\ (Faithful' => Faithful)
<1>1. /\ HubNumbers(hub) /\ HubNumbers(hub') /\ Later(hub, hub')
      /\ client' = client /\ wire' = wire
      /\ \A c \in Conns : /\ sub'[c].gen = sub[c].gen
                          /\ ~sub'[c].lossy => ~sub[c].lossy
                          /\ AllCarry(sub'[c].q, hub')
  BY DEF Onward
<1>2. /\ client.gen \in Nat /\ client.lastSeq \in Nat /\ client.run \in Seq(Output)
      /\ wire \in Seq(Message) /\ (client.conn # NoConn => client.conn \in Conns)
      /\ \A c \in Conns : sub[c].gen \in Nat
  BY ClientNumbers
<1>3. hub.gen \in Nat /\ hub'.gen \in Nat /\ hub.gen <= hub'.gen
  BY <1>1 DEF HubNumbers, Later
<1>4. \A c \in Conns : sub'[c].gen <= hub'.gen /\ AllCarry(sub'[c].q, hub')
  BY <1>1, <1>2, <1>3 DEF PlaceInv
<1>5. AllCarry(wire', hub') /\ client'.gen <= hub'.gen
  <2>1. AllCarry(wire, hub')
    BY <1>1, <1>2, CarryKept DEF PlaceInv
  <2> QED
    BY <1>1, <1>2, <1>3, <2>1 DEF PlaceInv
<1>6. \A i \in 1 .. Len(client'.run) : Was(client'.run[i], hub')
  <2> SUFFICES ASSUME NEW i \in 1 .. Len(client.run) PROVE Was(client.run[i], hub')
    BY <1>1
  <2>1. client.run[i] \in Output /\ Was(client.run[i], hub)
    BY <1>2 DEF PlaceInv
  <2> QED
    BY <1>1, <2>1, ByteNumbers, WasKept
<1>7. ASSUME client.conn # NoConn
      PROVE  /\ client'.gen <= sub'[client.conn].gen
             /\ \A i \in 1 .. Len(wire') :
                   wire'[i].kind \in {"snapshot", "recovery"} =>
                       Was(<<sub'[client.conn].gen, wire'[i].seq>>, hub')
             /\ SnapshotComes(wire') => SnapshotAhead(wire'[1], sub'[client.conn].gen, client')
  <2> DEFINE g == sub[client.conn].gen
  <2>1. g \in Nat /\ sub'[client.conn].gen = g
    BY <1>1, <1>2, <1>7
  <2>2. client.gen <= g /\ (SnapshotComes(wire) => SnapshotAhead(wire[1], g, client))
    BY <1>7 DEF PlaceInv
  <2> HIDE DEF g
  <2>3. ASSUME NEW i \in 1 .. Len(wire), wire[i].kind \in {"snapshot", "recovery"}
        PROVE  Was(<<g, wire[i].seq>>, hub')
    <3> DEFINE b == <<g, wire[i].seq>>
    <3>1. wire[i].seq \in Nat
      <4>1. wire[i] \in Message
        BY <1>2
      <4> QED
        BY <4>1, Bounds DEF Message
    <3>2. b[1] \in Nat /\ b[2] \in Nat
      BY <2>1, <3>1
    <3>3. Was(b, hub)
      BY <1>7, <2>3 DEF PlaceInv, g
    <3> HIDE DEF b
    <3>4. Was(b, hub')
      BY <1>1, <3>2, <3>3, WasKept
    <3> QED
      BY <3>4 DEF b
  <2> QED
    BY <1>1, <2>1, <2>2, <2>3
<1>8. Faithful' => Faithful
  BY <1>1, <1>2 DEF Faithful
<1>9. Faithful' => Was(<<client'.gen, client'.lastSeq>>, hub')
  <2> SUFFICES ASSUME Faithful PROVE Was(<<client.gen, client.lastSeq>>, hub')
    BY <1>1, <1>8
  <2> DEFINE b == <<client.gen, client.lastSeq>>
  <2>1. Was(b, hub)
    BY DEF PlaceInv
  <2>2. b[1] \in Nat /\ b[2] \in Nat
    BY <1>2
  <2> HIDE DEF b
  <2>3. Was(b, hub')
    BY <1>1, <2>1, <2>2, WasKept
  <2> QED
    BY <2>3 DEF b
<1>10. client'.conn = client.conn
  BY <1>1
<1> QED
  BY <1>4, <1>5, <1>6, <1>7, <1>8, <1>9, <1>10 DEF PlaceInv

\* What a flush leaves in a queue was printed, for the same host and no less lossy.
LEMMA FlushOnward ==
    ASSUME HubInv, ChannelInv, StreamInv, PlaceInv, NEW h \in HubRecord, InStep(h),
           h.gen = hub.gen, h.closed = hub.closed, Later(hub, h), NEW c \in Conns
    PROVE  /\ FlushedSubs(h, sub)[c].gen = sub[c].gen
           /\ ~FlushedSubs(h, sub)[c].lossy => ~sub[c].lossy
           /\ AllCarry(FlushedSubs(h, sub)[c].q, h)
<1>1. QueueShape(sub[c]) /\ (~sub[c].swapped => sub[c].gen = h.gen)
  BY DEF StreamInv
<1>2. Carried(sub[c], FlushedSubs(h, sub)[c], FlushedTo(h), h.seq)
  BY <1>1, FlushCarries
<1>3. AllCarry(sub[c].q, h)
  <2>1. HubNumbers(hub) /\ HubNumbers(h)
    BY HubCarries DEF HubInv
  <2>2. sub[c].q \in Seq(Message) /\ AllCarry(sub[c].q, hub)
    BY <1>1 DEF QueueShape, PlaceInv
  <2> QED
    BY <2>1, <2>2, CarryKept
<1>4. AllCarry(FlushedSubs(h, sub)[c].q, h)
  BY <1>1, <1>3, FlushCarriesPrinted
<1> QED
  BY <1>2, <1>4 DEF Carried

\* A subscriber that is left alone keeps what it has.
LEMMA AloneOnward ==
    ASSUME HubInv, HubInv', StreamInv, PlaceInv, Later(hub, hub'), NEW c \in Conns,
           NEW t, Same(sub[c], t)
    PROVE  t.gen = sub[c].gen /\ (~t.lossy => ~sub[c].lossy) /\ AllCarry(t.q, hub')
<1>1. HubNumbers(hub) /\ HubNumbers(hub')
  BY HubCarries DEF HubInv
<1>2. sub[c].q \in Seq(Message) /\ AllCarry(sub[c].q, hub)
  BY DEF StreamInv, QueueShape, PlaceInv
<1>3. AllCarry(sub[c].q, hub')
  BY <1>1, <1>2, CarryKept
<1> QED
  BY <1>3 DEF Same

\* Carrying is a matter of the host and of how much it has printed.
LEMMA CarryAlike ==
    ASSUME NEW h, NEW k, k.gen = h.gen, k.seq = h.seq, NEW q, AllCarry(q, h)
    PROVE  AllCarry(q, k)
BY DEF AllCarry, Carries, Was

\* Hub.Write.
LEMMA WriteOnward ==
    ASSUME HubInv, HubInv', ChannelInv, StreamInv, PlaceInv, NEW n \in 1 .. MaxChunk, Write(n)
    PROVE  Onward /\ hub'.gen = hub.gen /\ hub'.seq > hub.seq
<1> DEFINE h == Written(hub, n)
<1>1. h \in HubRecord /\ InStep(h)
  <2>1. hub.seq + n <= MaxOut
    BY WriteInBounds
  <2> QED
    BY <2>1, WrittenInStep
<1>2. h.gen = hub.gen /\ h.closed = hub.closed /\ h.seq = hub.seq + n
  BY DEF HubInv, HubRecord, Written
<1>3. /\ UNCHANGED <<wire, client>>
      /\ hub' = (IF Len(h.pending) >= FlushBytes THEN Flushed(h) ELSE h)
      /\ sub' = (IF Len(h.pending) >= FlushBytes THEN FlushedSubs(h, sub) ELSE sub)
  BY DEF Write
<1>4. HubNumbers(hub) /\ HubNumbers(hub')
  BY HubCarries DEF HubInv
<1>5. hub'.gen = h.gen /\ hub'.seq = h.seq
  <2> HIDE DEF h
  <2> QED
    BY <1>1, <1>3, FlushedFacts
<1>6. hub.seq \in Nat /\ n \in Nat /\ n >= 1
  BY <1>4, Bounds DEF HubNumbers
<1>7. Later(hub, h) /\ Later(hub, hub') /\ hub'.seq > hub.seq
  BY <1>2, <1>5, <1>6 DEF Later
<1> HIDE DEF h
<1>8. ASSUME NEW c \in Conns
      PROVE  /\ sub'[c].gen = sub[c].gen
             /\ ~sub'[c].lossy => ~sub[c].lossy
             /\ AllCarry(sub'[c].q, hub')
  <2>1. CASE Len(h.pending) >= FlushBytes
    <3>1. /\ FlushedSubs(h, sub)[c].gen = sub[c].gen
          /\ ~FlushedSubs(h, sub)[c].lossy => ~sub[c].lossy
          /\ AllCarry(FlushedSubs(h, sub)[c].q, h)
      BY <1>1, <1>2, <1>7, FlushOnward
    <3>2. sub' = FlushedSubs(h, sub)
      BY <1>3, <2>1
    <3>3. AllCarry(FlushedSubs(h, sub)[c].q, hub')
      BY <1>5, <3>1, CarryAlike
    <3> QED
      BY <3>1, <3>2, <3>3
  <2>2. CASE ~(Len(h.pending) >= FlushBytes)
    <3>1. Same(sub[c], sub'[c])
      BY <1>3, <2>2 DEF Same
    <3> QED
      BY <1>7, <3>1, AloneOnward
  <2> QED
    BY <2>1, <2>2
<1> QED
  BY <1>2, <1>3, <1>4, <1>5, <1>7, <1>8 DEF Onward

\* A resize carries no bytes, but the snapshot ahead of it may.
LEMMA ResizeOnward ==
    ASSUME HubInv, ChannelInv, StreamInv, PlaceInv, BroadcastResize,
           hub'.gen = hub.gen, hub'.seq = hub.seq, NEW c \in Conns
    PROVE  /\ sub'[c].gen = sub[c].gen
           /\ ~sub'[c].lossy => ~sub[c].lossy
           /\ AllCarry(sub'[c].q, hub')
<1> DEFINE s == sub[c]
           t == sub'[c]
           f == Resize
           snapshot == Snapshot(hub.ring)
           to == FlushedTo(hub)
<1>1. hub \in HubRecord /\ InStep(hub)
  BY DEF HubInv
<1>2. t = IF s.registered /\ ~hub.closed THEN Enqueue(s, f, snapshot) ELSE s
  BY DEF BroadcastResize, Broadcast
<1>3. /\ Lifecycle(s) /\ Shape(s) /\ QueueShape(s) /\ (~s.swapped => s.gen = hub.gen)
      /\ (hub.closed => ~s.registered) /\ AllCarry(s.q, hub)
  BY DEF ChannelInv, StreamInv, PlaceInv, Lifecycle
<1>4. Broadcastable(f) /\ f.kind = "resize" /\ Carries(f, hub)
  <2>1. Resize.kind = "resize" /\ Resize.data = <<>>
    BY DEF Resize, Frame
  <2>2. Len(f.data) = 0
    BY <2>1
  <2> QED
    BY <2>1, <2>2, FrameFacts DEF Broadcastable, Carries
<1>5. snapshot \in Seq(Output) /\ \A i \in 1 .. Len(snapshot) : Was(snapshot[i], hub)
  BY <1>1, HubFacts, HubCarries
<1> HIDE DEF f, s, t, to, snapshot
<1>6. Carried(s, t, FlushedTo(hub), to)
  <2>1. f.kind = "resize" => to = FlushedTo(hub)
    BY DEF to
  <2>2. f.kind = "bytes" => f.data = hub.pending /\ to = hub.seq
    BY <1>4
  <2>3. t = IF s.registered /\ ~hub.closed THEN Enqueue(s, f, Snapshot(hub.ring)) ELSE s
    BY <1>2 DEF snapshot
  <2> QED
    BY <1>1, <1>3, <1>4, <2>1, <2>2, <2>3, FrameCarried
<1>7. AllCarry(t.q, hub)
  <2>1. AllCarry(Enqueue(s, f, snapshot).q, hub)
    BY <1>3, <1>4, <1>5, EnqueueCarries
  <2> QED
    BY <1>2, <1>3, <2>1
<1>8. AllCarry(t.q, hub')
  BY <1>7, CarryAlike
<1> QED
  BY <1>6, <1>8 DEF Carried, s, t

\* A timer, a late flush, a resize, the end of the child: nothing more is printed.
LEMMA QuietOnward ==
    ASSUME HubInv, HubInv', ChannelInv, StreamInv, PlaceInv,
           TimerFires \/ FlushCallback \/ BroadcastResize \/ Close
    PROVE  Onward /\ hub'.gen = hub.gen /\ hub'.seq = hub.seq
<1> DEFINE subs == FlushedSubs(hub, sub)
<1>1. hub \in HubRecord /\ InStep(hub) /\ HubNumbers(hub) /\ HubNumbers(hub')
  BY HubCarries DEF HubInv
<1>2. UNCHANGED <<wire, client>> /\ hub'.gen = hub.gen /\ hub'.seq = hub.seq
  <2>1. CASE TimerFires
    BY <1>1, <2>1 DEF TimerFires, HubRecord
  <2>2. CASE FlushCallback
    BY <1>1, <2>2, FlushedFacts DEF FlushCallback
  <2>3. CASE BroadcastResize
    BY <1>1, <2>3 DEF BroadcastResize, HubRecord
  <2>4. CASE Close
    BY <1>1, <2>4 DEF Close, HubRecord, Flushed
  <2> QED
    BY <2>1, <2>2, <2>3, <2>4
<1>3. Later(hub, hub')
  BY <1>1, <1>2 DEF Later, HubNumbers
<1>4. ASSUME NEW c \in Conns
      PROVE  subs[c].gen = sub[c].gen /\ (~subs[c].lossy => ~sub[c].lossy) /\ AllCarry(subs[c].q, hub')
  <2>1. Later(hub, hub)
    BY <1>1 DEF Later, HubNumbers
  <2>2. /\ FlushedSubs(hub, sub)[c].gen = sub[c].gen
        /\ ~FlushedSubs(hub, sub)[c].lossy => ~sub[c].lossy
        /\ AllCarry(FlushedSubs(hub, sub)[c].q, hub)
    BY <1>1, <2>1, FlushOnward
  <2>3. AllCarry(subs[c].q, hub')
    BY <1>2, <2>2, CarryAlike
  <2> QED
    BY <2>2, <2>3
<1>5. \A c \in Conns : Queued(sub[c], subs[c]) /\ Lifecycle(sub[c])
  BY FlushKept DEF ChannelInv
<1> HIDE DEF subs
<1>6. ASSUME NEW c \in Conns
      PROVE  /\ sub'[c].gen = sub[c].gen
             /\ ~sub'[c].lossy => ~sub[c].lossy
             /\ AllCarry(sub'[c].q, hub')
  <2>1. CASE TimerFires
    <3>1. Same(sub[c], sub'[c])
      BY <2>1 DEF TimerFires, Same
    <3> QED
      BY <1>3, <3>1, AloneOnward
  <2>2. CASE FlushCallback
    <3>1. sub'[c] = subs[c]
      BY <2>2 DEF FlushCallback, subs
    <3> QED
      BY <1>4, <3>1
  <2>3. CASE BroadcastResize
    BY <1>1, <1>2, <1>3, <2>3, ResizeOnward
  <2>4. CASE Close
    <3>1. sub'[c] = ClosedSub(subs[c])
      BY <2>4 DEF Close, subs
    <3>2. Lifecycle(subs[c])
      BY <1>5, QueuedLives
    <3>3. Same(subs[c], sub'[c])
      BY <3>1, <3>2, ClosedSame
    <3> QED
      BY <1>4, <3>3 DEF Same
  <2> QED
    BY <2>1, <2>2, <2>3, <2>4
<1> QED
  BY <1>1, <1>2, <1>3, <1>6 DEF Onward

\* A connection that is let go.
LEMMA LetGoOnward ==
    ASSUME HubInv, HubInv', ChannelInv, StreamInv, PlaceInv, NEW c \in Conns,
           Leave(c) \/ Unsubscribe(c)
    PROVE  Onward /\ hub' = hub /\ \A d \in Conns : sub'[d].lossy = sub[d].lossy
<1>1. UNCHANGED <<hub, wire, client>> /\ \E t : sub' = [sub EXCEPT ![c] = t] /\ Same(sub[c], t)
  <2>1. CASE Leave(c)
    BY <2>1, LeaveSame
  <2>2. CASE Unsubscribe(c)
    BY <2>2, UnsubscribeSame
  <2> QED
    BY <2>1, <2>2
<1>2. PICK t : sub' = [sub EXCEPT ![c] = t] /\ Same(sub[c], t)
  BY <1>1
<1>3. HubNumbers(hub) /\ hub' = hub /\ Later(hub, hub')
  BY <1>1, HubCarries DEF HubInv, HubNumbers, Later
<1>4. \A d \in Conns : sub'[d] = IF d = c THEN t ELSE sub[d]
  BY <1>2, OneReplaced
<1>5. ASSUME NEW d \in Conns PROVE Same(sub[d], sub'[d])
  <2>1. CASE d = c
    BY <1>2, <1>4, <2>1
  <2>2. CASE d # c
    BY <1>4, <2>2 DEF Same
  <2> QED
    BY <2>1, <2>2
<1>6. ASSUME NEW d \in Conns
      PROVE  /\ sub'[d].gen = sub[d].gen
             /\ ~sub'[d].lossy => ~sub[d].lossy
             /\ AllCarry(sub'[d].q, hub')
  BY <1>3, <1>5, AloneOnward
<1>7. \A d \in Conns : sub'[d].lossy = sub[d].lossy
  BY <1>5 DEF Same
<1> QED
  BY <1>1, <1>3, <1>6, <1>7 DEF Onward

\* Another host.
LEMMA ReplaceOnward ==
    ASSUME HubInv, HubInv', ChannelInv, StreamInv, PlaceInv, ReplaceHost
    PROVE  Onward /\ hub'.gen = hub.gen + 1 /\ hub'.seq = 0 /\ sub' = sub
<1>1. UNCHANGED <<wire, client>> /\ sub' = sub /\ hub'.gen = hub.gen + 1 /\ hub'.seq = 0
  BY DEF ReplaceHost, NewHub
<1>2. HubNumbers(hub) /\ HubNumbers(hub')
  BY HubCarries DEF HubInv
<1>3. Later(hub, hub')
  BY <1>1, <1>2 DEF Later, HubNumbers
<1>4. ASSUME NEW d \in Conns
      PROVE  /\ sub'[d].gen = sub[d].gen
             /\ ~sub'[d].lossy => ~sub[d].lossy
             /\ AllCarry(sub'[d].q, hub')
  <2>1. Same(sub[d], sub'[d])
    BY <1>1 DEF Same
  <2> QED
    BY <1>3, <2>1, AloneOnward
<1> QED
  BY <1>1, <1>2, <1>3, <1>4 DEF Onward

\* A message that is neither snapshot nor recovery goes onto the wire.
LEMMA WireMore ==
    ASSUME StreamInv, PlaceInv, client.conn # NoConn, NEW m \in Message, Carries(m, hub),
           m.kind \notin {"snapshot", "recovery"}
    PROVE  LET w == Append(wire, m)
               g == sub[client.conn].gen
           IN  /\ AllCarry(w, hub)
               /\ \A i \in 1 .. Len(w) :
                     w[i].kind \in {"snapshot", "recovery"} => Was(<<g, w[i].seq>>, hub)
               /\ SnapshotComes(w) => SnapshotAhead(w[1], g, client)
<1> DEFINE w == Append(wire, m)
           g == sub[client.conn].gen
<1>1. wire \in Seq(Message)
  BY DEF StreamInv, WireShape
<1>2. /\ AllCarry(wire, hub)
      /\ \A i \in 1 .. Len(wire) :
            wire[i].kind \in {"snapshot", "recovery"} => Was(<<g, wire[i].seq>>, hub)
      /\ SnapshotComes(wire) => SnapshotAhead(wire[1], g, client)
  BY DEF PlaceInv
<1>3. /\ Len(wire) \in Nat /\ Len(w) = Len(wire) + 1 /\ w[Len(wire) + 1] = m
      /\ \A i \in 1 .. Len(wire) : w[i] = wire[i]
      /\ wire # <<>> => 1 \in 1 .. Len(wire)
      /\ wire = <<>> => Len(wire) + 1 = 1
  BY <1>1
<1>4. AllCarry(w, hub)
  BY <1>1, <1>2, CarryMore
<1> HIDE DEF w, g
<1>5. \A i \in 1 .. Len(w) : w[i].kind \in {"snapshot", "recovery"} => Was(<<g, w[i].seq>>, hub)
  <2> TAKE i \in 1 .. Len(w)
  <2>1. i \in 1 .. Len(wire) \/ i = Len(wire) + 1
    BY <1>3
  <2> QED
    BY <1>2, <1>3, <2>1
<1>6. SnapshotComes(w) => SnapshotAhead(w[1], g, client)
  <2>1. CASE wire = <<>>
    <3>1. w[1] = m
      BY <1>3, <2>1
    <3> QED
      BY <3>1 DEF SnapshotComes
  <2>2. CASE wire # <<>>
    <3>1. w[1] = wire[1]
      BY <1>3, <2>2
    <3> QED
      BY <1>2, <2>2, <3>1 DEF SnapshotComes
  <2> QED
    BY <2>1, <2>2
<1> QED
  BY <1>4, <1>5, <1>6 DEF w, g

\* The pump sends what was queued, or the end.
LEMMA PumpPlace ==
    ASSUME HubInv, ChannelInv, StreamInv, PlaceInv, NEW c \in Conns, Pump(c) \/ PumpEnds(c)
    PROVE  /\ PlaceInv' /\ hub' = hub /\ client' = client
           /\ \A d \in Conns : sub'[d].lossy = sub[d].lossy
<1>1. hub' = hub /\ client' = client /\ client.conn = c /\ client.conn # NoConn
  BY StreamAssumption DEF Pump, PumpEnds
<1>2. /\ sub[c].q \in Seq(Message) /\ AllCarry(sub[c].q, hub)
      /\ \A i \in 1 .. Len(sub[c].q) : sub[c].q[i].kind \in Queues
  BY DEF StreamInv, QueueShape, PlaceInv
<1>3. PICK m \in Message : wire' = Append(wire, m) /\ Carries(m, hub)
                           /\ m.kind \notin {"snapshot", "recovery"}
  <2>1. CASE Pump(c)
    <3> DEFINE m == Head(sub[c].q)
    <3>1. sub[c].q # <<>> /\ wire' = Append(wire, m)
      BY <2>1 DEF Pump
    <3>2. 1 \in 1 .. Len(sub[c].q) /\ m = sub[c].q[1] /\ m \in Message
      BY <1>2, <3>1
    <3> HIDE DEF m
    <3>3. Carries(m, hub) /\ m.kind \in Queues
      BY <1>2, <3>2 DEF AllCarry
    <3> QED
      BY <3>1, <3>2, <3>3 DEF Queues
  <2>2. CASE PumpEnds(c)
    <3> DEFINE m == Frame("closed", <<>>, 0)
    <3>1. wire' = Append(wire, m)
      BY <2>2 DEF PumpEnds
    <3>2. m.kind = "closed" /\ m.data = <<>> /\ m.seq = 0
      BY DEF Frame
    <3>3. m \in Message
      <4>1. <<>> \in Seq(Output) /\ 0 \in 0 .. MaxOut
        BY Bounds
      <4> QED
        BY <4>1 DEF Frame, Message
    <3> HIDE DEF m
    <3>4. Len(m.data) = 0
      BY <3>2
    <3>5. Carries(m, hub)
      BY <3>2, <3>4 DEF Carries
    <3> QED
      BY <3>1, <3>2, <3>3, <3>5
  <2> QED
    BY <2>1, <2>2
<1>4. \A d \in Conns : /\ sub'[d].gen = sub[d].gen /\ sub'[d].lossy = sub[d].lossy
                       /\ AllCarry(sub'[d].q, hub)
  <2> TAKE d \in Conns
  <2>1. AllCarry(sub[d].q, hub)
    BY DEF PlaceInv
  <2>2. CASE PumpEnds(c)
    BY <2>1, <2>2 DEF PumpEnds
  <2>3. CASE Pump(c)
    <3> DEFINE rest == Tail(sub[c].q)
               s == sub[c]
               t == [s EXCEPT !.q = rest]
    <3>1. sub' = [sub EXCEPT ![c] = t] /\ s.q # <<>>
      BY <2>3 DEF Pump
    <3>2. AllCarry(rest, hub)
      <4>1. /\ Len(rest) = Len(sub[c].q) - 1
            /\ \A i \in 1 .. Len(rest) : rest[i] = sub[c].q[i + 1] /\ i + 1 \in 1 .. Len(sub[c].q)
        BY <1>2, <3>1
      <4> HIDE DEF rest
      <4> QED
        BY <1>2, <4>1 DEF AllCarry
    <3>3. Shape(s)
      BY DEF ChannelInv, Lifecycle
    <3> HIDE DEF rest, s
    <3>4. t.gen = s.gen /\ t.lossy = s.lossy /\ t.q = rest
      <4> HIDE DEF t
      <4>1. t = [s EXCEPT !.q = rest]
        BY DEF t
      <4> QED
        BY <3>3, <4>1 DEF Shape
    <3> HIDE DEF t
    <3>5. sub'[d] = IF d = c THEN t ELSE sub[d]
      BY <3>1, OneReplaced
    <3>6. CASE d = c
      BY <3>2, <3>4, <3>5, <3>6 DEF s
    <3>7. CASE d # c
      BY <2>1, <3>5, <3>7
    <3> QED
      BY <3>6, <3>7
  <2> QED
    BY <2>2, <2>3
<1> DEFINE w == wire'
           g == sub[c].gen
<1>5. /\ AllCarry(w, hub)
      /\ \A i \in 1 .. Len(w) :
            w[i].kind \in {"snapshot", "recovery"} => Was(<<g, w[i].seq>>, hub)
      /\ SnapshotComes(w) => SnapshotAhead(w[1], g, client)
  BY <1>1, <1>3, WireMore
<1> HIDE DEF w, g
<1>6. \A d \in Conns : sub'[d].gen <= hub'.gen /\ AllCarry(sub'[d].q, hub')
  BY <1>1, <1>4 DEF PlaceInv
<1>7. g = sub'[c].gen /\ client.gen <= g
  BY <1>1, <1>4 DEF PlaceInv, g
<1>8. Faithful' <=> Faithful
  BY <1>1, <1>4 DEF Faithful
<1>9. (client.gen <= hub.gen) /\ (\A i \in 1 .. Len(client.run) : Was(client.run[i], hub))
      /\ (Faithful => Was(<<client.gen, client.lastSeq>>, hub))
  BY DEF PlaceInv
<1>10. PlaceInv'
  BY <1>1, <1>5, <1>6, <1>7, <1>8, <1>9 DEF PlaceInv, w
<1> QED
  BY <1>1, <1>4, <1>10

\* A snapshot for a position of the same host begins where the next byte is no longer kept.
LEMMA ReplayAhead ==
    ASSUME NEW h \in HubRecord, InStep(h), NEW p \in Nat, p <= h.seq,
           NEW r, r = ReplaySince(h, p), r.kind = "snapshot"
    PROVE  r.data # <<>> /\ r.data[1][2] > p + 1
<1> DEFINE snapshot == Snapshot(h.ring)
           k == Kept(h.seq)
<1>1. h.gen \in 0 .. MaxGen /\ h.seq \in 0 .. MaxOut /\ h.seq \in Nat
  BY HubFacts
<1>2. k \in 0 .. h.seq /\ (h.seq # 0 => k # 0)
  BY <1>1, Bounds DEF Kept
<1>3. snapshot = Ending(h.gen, h.seq, k)
  BY DEF InStep
<1>4. /\ Ending(h.gen, h.seq, k) \in Seq(Output) /\ Len(Ending(h.gen, h.seq, k)) = k
      /\ \A i \in 1 .. k : Ending(h.gen, h.seq, k)[i] = <<h.gen, h.seq - k + i>>
  BY <1>1, <1>2, EndingFacts
<1> HIDE DEF k
<1>5. snapshot \in Seq(Output) /\ Len(snapshot) = k /\ \A i \in 1 .. k : snapshot[i] = <<h.gen, h.seq - k + i>>
  BY <1>3, <1>4
<1>6. r = IF p < h.seq - Len(snapshot) \/ p > h.seq THEN Frame("snapshot", snapshot, h.seq)
          ELSE Bytes(SubSeq(snapshot, p - (h.seq - Len(snapshot)) + 1, Len(snapshot)))
  BY DEF ReplaySince
<1> HIDE DEF snapshot
<1>7. p < h.seq - k /\ r.data = snapshot
  BY <1>1, <1>5, <1>6 DEF Frame, Bytes
<1>8. h.seq # 0 /\ k # 0 /\ 1 \in 1 .. k
  BY <1>1, <1>2, <1>7
<1>9. snapshot[1] = <<h.gen, h.seq - k + 1>> /\ snapshot # <<>>
  BY <1>5, <1>8
<1>10. snapshot[1][2] = h.seq - k + 1
  BY <1>9
<1> QED
  BY <1>1, <1>2, <1>7, <1>9, <1>10

\* The replay for a browser and the recovery behind it.
LEMMA ReplayPlace ==
    ASSUME NEW h \in HubRecord, InStep(h), NEW cl \in ClientRecord,
           cl.exact => Was(<<cl.gen, cl.lastSeq>>, h),
           NEW r, r = ReplaySince(h, cl.lastSeq),
           NEW w, w = (IF r.kind = "bytes" /\ r.data = <<>> THEN <<>> ELSE <<r>>)
                      \o <<Frame("recovery", <<>>, h.seq)>>
    PROVE  /\ AllCarry(w, h)
           /\ \A i \in 1 .. Len(w) :
                 w[i].kind \in {"snapshot", "recovery"} => Was(<<h.gen, w[i].seq>>, h)
           /\ SnapshotComes(w) => SnapshotAhead(w[1], h.gen, cl)
<1> DEFINE last == Frame("recovery", <<>>, h.seq)
<1>1. /\ h.gen \in 0 .. MaxGen /\ h.seq \in 0 .. MaxOut /\ h.seq \in Nat /\ h.gen \in Nat
      /\ cl.lastSeq \in Nat /\ cl.gen \in 0 .. MaxGen
  BY HubFacts, Bounds DEF ClientRecord
<1>2. /\ r \in Message /\ r.kind \in {"snapshot", "bytes"}
      /\ Len(r.data) <= h.seq /\ r.data = Ending(h.gen, h.seq, Len(r.data))
      /\ r.kind = "snapshot" => r.seq = h.seq
  BY <1>1, ReplayFacts
<1>3. last \in Message /\ last.kind = "recovery" /\ last.seq = h.seq /\ last.data = <<>>
  <2>1. <<>> \in Seq(Output)
    OBVIOUS
  <2> QED
    BY <1>1, <2>1 DEF Frame, Message
<1> HIDE DEF last
<1>4. Carries(last, h)
  <2>1. Len(last.data) = 0
    BY <1>3
  <2> QED
    BY <1>3, <2>1 DEF Carries
<1>5. \A i \in 1 .. Len(r.data) : Was(r.data[i], h)
  <2> DEFINE n == Len(r.data)
  <2>1. r.data \in Seq(Output)
    BY <1>2 DEF Message
  <2>2. n \in 0 .. h.seq /\ r.data = Ending(h.gen, h.seq, n)
    BY <1>1, <1>2, <2>1
  <2> HIDE DEF n
  <2>3. \A i \in 1 .. Len(Ending(h.gen, h.seq, n)) : Was(Ending(h.gen, h.seq, n)[i], h)
    BY <2>2, EndingWas
  <2> QED
    BY <2>2, <2>3
<1>6. Was(<<h.gen, h.seq>>, h)
  BY <1>1 DEF Was
<1>7. CASE r.kind = "bytes" /\ r.data = <<>>
  <2>1. w = <<>> \o <<last>>
    BY <1>7, Zenon DEF last
  <2>2. w \in Seq(Message) /\ Len(w) = 1 /\ w[1] = last
    BY <1>3, <2>1, OneMessage, Zenon
  <2>3. \A i \in 1 .. Len(w) : w[i] = last
    BY <2>2
  <2>4. AllCarry(w, h)
    BY <1>4, <2>3 DEF AllCarry
  <2>5. ~SnapshotComes(w)
    BY <1>3, <2>2 DEF SnapshotComes
  <2> QED
    BY <1>3, <1>6, <2>3, <2>4, <2>5
<1>8. CASE ~(r.kind = "bytes" /\ r.data = <<>>)
  <2>1. w = <<r>> \o <<last>>
    BY <1>8, Zenon DEF last
  <2>2. w \in Seq(Message) /\ Len(w) = 2 /\ w[1] = r /\ w[2] = last
    <3> DEFINE v == <<r>> \o <<last>>
    <3>1. v \in Seq(Message) /\ Len(v) = 2 /\ v[1] = r /\ v[2] = last
      BY <1>2, <1>3, TwoMessages
    <3>2. w = v
      BY <2>1
    <3> HIDE DEF v
    <3> QED
      BY <3>1, <3>2, Zenon
  <2>3. \A i \in 1 .. Len(w) : w[i] = r \/ w[i] = last
    BY <2>2
  <2>4. Carries(r, h)
    BY <1>5, <1>8 DEF Carries
  <2>5. AllCarry(w, h)
    BY <1>4, <2>3, <2>4 DEF AllCarry
  <2>6. \A i \in 1 .. Len(w) :
            w[i].kind \in {"snapshot", "recovery"} => Was(<<h.gen, w[i].seq>>, h)
    <3> TAKE i \in 1 .. Len(w)
    <3>1. CASE w[i] = last
      BY <1>3, <1>6, <3>1
    <3>2. CASE w[i] = r
      BY <1>2, <1>6, <3>2
    <3> QED
      BY <2>3, <3>1, <3>2
  <2>7. ASSUME r.kind = "snapshot" PROVE SnapshotAhead(r, h.gen, cl)
    <3>1. r.seq = h.seq /\ r.data = Ending(h.gen, r.seq, Len(r.data)) /\ Len(r.data) <= r.seq
      BY <1>2, <2>7
    <3>2. ASSUME cl.exact
          PROVE  cl.gen < h.gen \/ (cl.gen = h.gen /\ r.data # <<>> /\ r.data[1][2] > cl.lastSeq + 1)
      <4>1. cl.gen < h.gen \/ (cl.gen = h.gen /\ cl.lastSeq <= h.seq)
        BY <3>2 DEF Was
      <4>2. CASE cl.gen = h.gen /\ cl.lastSeq <= h.seq
        BY <1>1, <2>7, <4>2, ReplayAhead
      <4> QED
        BY <4>1, <4>2
    <3> QED
      BY <3>1, <3>2 DEF SnapshotAhead
  <2> QED
    BY <2>2, <2>5, <2>6, <2>7 DEF SnapshotComes
<1> QED
  BY <1>7, <1>8

\* A browser attaches: it is where it was, or its run is cleared.
LEMMA AttachPlace ==
    ASSUME HubInv, ChannelInv, StreamInv, PlaceInv, NEW c \in Conns, Attach(c)
    PROVE  /\ PlaceInv'
           /\ hub'.gen = hub.gen /\ hub'.seq = hub.seq
           /\ client'.gen = client.gen /\ client'.lastSeq = client.lastSeq
           /\ Faithful' => Faithful /\ client'.run = client.run /\ client'.above = client.above
           /\ ~Faithful' => client'.run = <<>> /\ client'.above = Page(client)
<1> DEFINE h == Flushed(hub)
           r == ReplaySince(h, client.lastSeq)
           compared == client.gen = hub.gen \/ client.lastSeq = 0
           exact == client.exact /\ (r.kind = "snapshot" \/ compared)
           above == IF exact THEN client.above ELSE Page(client)
           run == IF exact THEN client.run ELSE <<>>
           s == Subscriber(hub.gen, ~hub.closed)
           subs == FlushedSubs(hub, sub)
<1>1. /\ client.conn = NoConn /\ hub' = h /\ sub' = [subs EXCEPT ![c] = s]
      /\ wire' = (IF r.kind = "bytes" /\ r.data = <<>> THEN <<>> ELSE <<r>>)
                 \o <<Frame("recovery", <<>>, h.seq)>>
      /\ client' = [client EXCEPT !.conn = c, !.exact = exact, !.above = above, !.run = run]
  BY DEF Attach, AttachHub
<1>2. hub \in HubRecord /\ InStep(hub) /\ HubNumbers(hub)
  BY HubCarries DEF HubInv
<1>3. h \in HubRecord /\ InStep(h) /\ h.gen = hub.gen /\ h.seq = hub.seq /\ Later(hub, hub)
  BY <1>2, FlushedInStep, FlushedFacts DEF HubNumbers, Later
<1>4. client \in ClientRecord
  BY DEF StreamInv
<1>5. s.gen = hub.gen /\ s.q = <<>> /\ s.lossy = FALSE
  BY DEF Subscriber
<1>6. \A d \in Conns : subs[d].gen = sub[d].gen /\ AllCarry(subs[d].q, hub)
  BY <1>2, <1>3, FlushOnward
<1>7. \A d \in Conns : sub'[d] = IF d = c THEN s ELSE subs[d]
  <2>1. DOMAIN subs = Conns /\ subs = [d \in Conns |-> subs[d]]
    BY FlushKept
  <2> HIDE DEF subs, s
  <2> QED
    BY <1>1, <2>1
<1> HIDE DEF h, r, compared, s, subs
<1>8. /\ exact \in BOOLEAN /\ (exact => client.exact /\ run = client.run /\ above = client.above)
      /\ (~exact => run = <<>> /\ above = Page(client))
      /\ run \in Seq(Output) /\ above \in Seq(Nat \X Nat)
  <2>1. /\ client.exact \in BOOLEAN /\ client.run \in Seq(Output) /\ <<>> \in Seq(Output)
        /\ client.above \in Seq(Nat \X Nat) /\ Page(client) \in Seq(Nat \X Nat)
    BY <1>4, PageFacts DEF ClientRecord
  <2> QED
    BY <2>1
<1> HIDE DEF exact, above, run
<1>9. /\ client' \in ClientRecord /\ client'.conn = c /\ client'.exact = exact
      /\ client'.run = run /\ client'.above = above /\ client'.lastSeq = client.lastSeq
      /\ client'.gen = client.gen
  BY <1>1, <1>4, <1>8 DEF ClientRecord
<1>10. sub'[c] = s /\ c # NoConn
  BY <1>7, StreamAssumption
<1>11. (Faithful' <=> exact) /\ (Faithful <=> client.exact)
  <2>1. Faithful' <=> exact
    BY <1>5, <1>8, <1>9, <1>10 DEF Faithful
  <2> QED
    BY <1>1, <2>1 DEF Faithful
<1>12. \A d \in Conns : sub'[d].gen <= hub'.gen /\ AllCarry(sub'[d].q, hub')
  <2> TAKE d \in Conns
  <2>1. CASE d = c
    <3>1. Len(s.q) = 0
      BY <1>5
    <3>2. AllCarry(s.q, hub')
      BY <3>1 DEF AllCarry
    <3> QED
      BY <1>1, <1>2, <1>3, <1>5, <1>10, <2>1, <3>2 DEF HubNumbers
  <2>2. CASE d # c
    <3>1. sub'[d] = subs[d] /\ sub[d].gen <= hub.gen
      BY <1>7, <2>2 DEF PlaceInv
    <3>2. AllCarry(subs[d].q, hub')
      BY <1>1, <1>3, <1>6, CarryAlike
    <3> QED
      BY <1>1, <1>3, <1>6, <3>1, <3>2
  <2> QED
    BY <2>1, <2>2
<1>13. \A b : Was(b, hub') <=> Was(b, hub)
  BY <1>1, <1>3 DEF Was
<1> DEFINE cl == client'
           w == wire'
<1>14. cl.exact => Was(<<cl.gen, cl.lastSeq>>, h)
  <2>1. ASSUME exact PROVE Was(<<client.gen, client.lastSeq>>, hub)
    BY <1>8, <1>11, <2>1 DEF PlaceInv
  <2> QED
    BY <1>1, <1>9, <1>13, <2>1
<1>15. cl \in ClientRecord /\ r = ReplaySince(h, cl.lastSeq)
       /\ w = (IF r.kind = "bytes" /\ r.data = <<>> THEN <<>> ELSE <<r>>)
              \o <<Frame("recovery", <<>>, h.seq)>>
  BY <1>1, <1>9 DEF r
<1> HIDE DEF cl, w
<1>16. /\ AllCarry(w, h)
       /\ \A i \in 1 .. Len(w) :
             w[i].kind \in {"snapshot", "recovery"} => Was(<<h.gen, w[i].seq>>, h)
       /\ SnapshotComes(w) => SnapshotAhead(w[1], h.gen, cl)
  BY <1>3, <1>14, <1>15, ReplayPlace
<1>17. /\ client'.gen <= hub'.gen /\ client'.gen <= sub'[c].gen
       /\ \A i \in 1 .. Len(client'.run) : Was(client'.run[i], hub')
  <2>1. client.gen <= hub.gen /\ \A i \in 1 .. Len(client.run) : Was(client.run[i], hub)
    BY DEF PlaceInv
  <2>2. \A i \in 1 .. Len(run) : Was(run[i], hub)
    BY <1>8, <2>1
  <2> QED
    BY <1>1, <1>3, <1>5, <1>9, <1>10, <1>13, <2>1, <2>2
<1>18. Faithful' => Was(<<client'.gen, client'.lastSeq>>, hub')
  BY <1>1, <1>9, <1>11, <1>14 DEF cl
<1>19. /\ AllCarry(wire', hub')
       /\ \A i \in 1 .. Len(wire') :
             wire'[i].kind \in {"snapshot", "recovery"} => Was(<<sub'[c].gen, wire'[i].seq>>, hub')
       /\ SnapshotComes(wire') => SnapshotAhead(wire'[1], sub'[c].gen, client')
  BY <1>1, <1>3, <1>5, <1>10, <1>16 DEF cl, w
<1>20. PlaceInv'
  BY <1>9, <1>12, <1>17, <1>18, <1>19 DEF PlaceInv
<1>21. hub'.gen = hub.gen /\ hub'.seq = hub.seq
  BY <1>1, <1>3
<1>22. /\ Faithful' => Faithful /\ client'.run = client.run /\ client'.above = client.above
       /\ ~Faithful' => client'.run = <<>> /\ client'.above = Page(client)
  BY <1>8, <1>9, <1>11, Zenon
<1> QED
  BY <1>9, <1>20, <1>21, <1>22, Zenon

\* A client that lost nothing is not told of a loss, and recovers where it is.
LEMMA FirstInPlace ==
    ASSUME StreamInv, wire # <<>>, ~sub[client.conn].lossy
    PROVE  /\ wire[1].kind # "marker"
           /\ wire[1].kind = "recovery" => wire[1].seq = client.lastSeq
<1> DEFINE s == sub[client.conn]
           msgs == wire \o s.q
<1>1. client.conn # NoConn /\ client.conn \in Conns /\ wire \in Seq(Message)
  BY DEF StreamInv, ClientRecord, WireShape
<1>2. QueueShape(s) /\ Joined(s, msgs, client, FlushedTo(hub))
  BY <1>1 DEF StreamInv
<1>3. s.q \in Seq(Message) /\ ~s.need
  BY <1>2 DEF QueueShape
<1>4. msgs[1] = wire[1] /\ 1 \in 1 .. Len(msgs)
  BY <1>1, <1>3
<1>5. ~s.lossy
  OBVIOUS
<1> HIDE DEF s, msgs
<1>6. PICK pos : Joins(s, msgs, client, FlushedTo(hub), pos)
  BY <1>2, <1>3 DEF Joined
<1>7. NoMarker(msgs, 1)
  BY <1>5, <1>6 DEF Joins, Links
<1>8. msgs[1].kind # "marker"
  BY <1>4, <1>7 DEF NoMarker
<1>9. ASSUME msgs[1].kind = "recovery" PROVE msgs[1].seq = client.lastSeq
  <2>1. ~SnapshotComes(msgs)
    BY <1>9 DEF SnapshotComes
  <2>2. pos[0] = client.lastSeq
    BY <1>5, <1>6, <2>1 DEF Joins, Continues
  <2>3. Link(s.gen, pos[1 - 1], msgs[1], pos[1], ~s.lossy)
    BY <1>4, <1>6, <1>7 DEF Joins, Links
  <2>4. msgs[1].seq = pos[1 - 1]
    BY <1>5, <1>9, <2>3 DEF Link
  <2>5. 1 - 1 = 0
    OBVIOUS
  <2> QED
    BY <2>2, <2>4, <2>5
<1> QED
  BY <1>4, <1>8, <1>9

\* What is received, by whom, and what is left.
LEMMA Taken ==
    ASSUME StreamInv, PlaceInv, Receive, wire[1].kind # "closed"
    PROVE  LET c == client.conn
               g == sub[c].gen
           IN  /\ c \in Conns /\ c # NoConn /\ wire # <<>>
               /\ hub' = hub /\ sub' = sub /\ wire' = Tail(wire)
               /\ wire[1] \in Message /\ Carries(wire[1], hub)
               /\ client' \in ClientRecord /\ Shown(g, client, wire[1], client')
               /\ AllCarry(wire', hub) /\ ~SnapshotComes(wire')
               /\ \A i \in 1 .. Len(wire') :
                     wire'[i].kind \in {"snapshot", "recovery"} => Was(<<g, wire'[i].seq>>, hub)
<1> DEFINE c == client.conn
           m == wire[1]
           g == sub[c].gen
<1>1. wire \in Seq(Message) /\ wire # <<>> /\ Head(wire) = m /\ m \in Message /\ 1 \in 1 .. Len(wire)
  BY DEF Receive, StreamInv, WireShape
<1>2. c \in Conns /\ c # NoConn /\ client \in ClientRecord /\ WireShape(wire) /\ g \in 0 .. MaxGen
  BY <1>1 DEF StreamInv, ClientRecord, QueueShape
<1>3. hub' = hub /\ sub' = sub /\ wire' = Tail(wire) /\ client' = Received(client, m)
  BY <1>1 DEF Receive
<1>4. /\ AllCarry(wire, hub)
      /\ \A i \in 1 .. Len(wire) :
            wire[i].kind \in {"snapshot", "recovery"} => Was(<<g, wire[i].seq>>, hub)
  BY <1>2 DEF PlaceInv
<1>5. client' \in ClientRecord /\ Shown(g, client, m, client')
  BY <1>1, <1>2, <1>3, ReceivedShown
<1> HIDE DEF g, m, c
<1>6. /\ Len(wire') = Len(wire) - 1 /\ Len(wire) \in Nat
      /\ \A i \in 1 .. Len(wire') : wire'[i] = wire[i + 1] /\ i + 1 \in 1 .. Len(wire)
      /\ wire' # <<>> => 1 \in 1 .. Len(wire') /\ 2 \in 2 .. Len(wire)
  BY <1>1, <1>3
<1>7. AllCarry(wire', hub)
  BY <1>4, <1>6 DEF AllCarry
<1>8. ~SnapshotComes(wire')
  <2> SUFFICES ASSUME wire' # <<>> PROVE wire'[1].kind # "snapshot"
    BY DEF SnapshotComes
  <2>1. wire'[1] = wire[1 + 1] /\ 1 + 1 = 2
    BY <1>6
  <2> QED
    BY <1>2, <1>6, <2>1 DEF WireShape
<1>9. \A i \in 1 .. Len(wire') :
          wire'[i].kind \in {"snapshot", "recovery"} => Was(<<g, wire'[i].seq>>, hub)
  BY <1>4, <1>6
<1>10. Carries(m, hub)
  BY <1>1, <1>4 DEF AllCarry, m
<1> QED
  BY <1>1, <1>2, <1>3, <1>5, <1>7, <1>8, <1>9, <1>10 DEF g, m, c

\* More behind a sequence.
LEMMA MoreShown ==
    ASSUME NEW a \in Seq(Output), NEW b \in Seq(Output), NEW s, s = a \o b, NEW h,
           \A i \in 1 .. Len(a) : Was(a[i], h), \A i \in 1 .. Len(b) : Was(b[i], h)
    PROVE  /\ \A i \in 1 .. Len(s) : Was(s[i], h)
           /\ b # <<>> => Len(s) \in 1 .. Len(s) /\ s # <<>>
           /\ IsPrefix(a, s)
<1>1. /\ s \in Seq(Output) /\ Len(s) = Len(a) + Len(b) /\ Len(a) \in Nat /\ Len(b) \in Nat
      /\ \A i \in 1 .. Len(a) : s[i] = a[i]
      /\ \A i \in 1 .. Len(b) : s[Len(a) + i] = b[i]
  OBVIOUS
<1>2. ASSUME NEW i \in 1 .. Len(s) PROVE Was(s[i], h)
  <2>1. CASE i <= Len(a)
    <3>1. i \in 1 .. Len(a)
      BY <1>1, <2>1
    <3> QED
      BY <1>1, <3>1
  <2>2. CASE ~(i <= Len(a))
    <3> DEFINE j == i - Len(a)
    <3>1. j \in 1 .. Len(b) /\ Len(a) + j = i
      BY <1>1, <2>2
    <3> HIDE DEF j
    <3> QED
      BY <1>1, <3>1
  <2> QED
    BY <2>1, <2>2
<1>3. b # <<>> => Len(s) \in 1 .. Len(s) /\ s # <<>>
  <2>1. b # <<>> => Len(b) # 0
    OBVIOUS
  <2>2. s = <<>> => Len(s) = 0
    OBVIOUS
  <2> QED
    BY <1>1, <2>1, <2>2
<1>4. IsPrefix(a, s)
  <2>1. SubSeq(a, 1, Len(a)) = a
    BY <1>1
  <2>2. SubSeq(s, 1, Len(a)) = a
    <3> DEFINE t == SubSeq(s, 1, Len(a))
    <3>1. t \in Seq(Output) /\ Len(t) = Len(a) /\ \A i \in 1 .. Len(a) : t[i] = s[i]
      BY <1>1
    <3> HIDE DEF t
    <3>2. t = a
      BY <1>1, <3>1, SeqEqual
    <3> QED
      BY <3>2 DEF t
  <2> QED
    BY <1>1, <2>1, <2>2 DEF IsPrefix
<1> QED
  BY <1>2, <1>3, <1>4

\* The browser takes a message.
LEMMA ReceivePlace ==
    ASSUME StreamInv, StreamInv', PlaceInv, Receive, wire[1].kind # "closed"
    PROVE  PlaceInv'
<1> DEFINE c == client.conn
           g == sub[c].gen
           m == wire[1]
<1>1. /\ c \in Conns /\ c # NoConn /\ wire # <<>> /\ hub' = hub /\ sub' = sub
      /\ m \in Message /\ Carries(m, hub)
      /\ client' \in ClientRecord /\ Shown(g, client, m, client')
      /\ AllCarry(wire', hub) /\ ~SnapshotComes(wire')
      /\ \A i \in 1 .. Len(wire') :
            wire'[i].kind \in {"snapshot", "recovery"} => Was(<<g, wire'[i].seq>>, hub)
  BY Taken
<1>2. /\ \A d \in Conns : sub[d].gen <= hub.gen /\ AllCarry(sub[d].q, hub)
      /\ client.gen <= hub.gen /\ client.gen <= g
      /\ \A i \in 1 .. Len(client.run) : Was(client.run[i], hub)
      /\ m.kind \in {"snapshot", "recovery"} => Was(<<g, m.seq>>, hub)
      /\ Faithful => Was(<<client.gen, client.lastSeq>>, hub)
  <2>1. 1 \in 1 .. Len(wire)
    BY <1>1 DEF StreamInv, WireShape
  <2> QED
    BY <1>1, <2>1 DEF PlaceInv
<1>3. m.kind \in {"bytes", "marker", "resize", "snapshot", "recovery"}
  BY <1>1 DEF Message
<1>4. /\ client.run \in Seq(Output) /\ client'.run \in Seq(Output) /\ m.data \in Seq(Output)
      /\ client'.conn = c /\ g \in Nat
  BY <1>1, ClientNumbers DEF Shown, ClientRecord, Message
<1>5. (Faithful' <=> client'.exact /\ ~sub[c].lossy) /\ (Faithful <=> client.exact /\ ~sub[c].lossy)
  BY <1>1, <1>4 DEF Faithful
<1> HIDE DEF g, m
<1>6. client'.gen <= g /\ client'.gen <= hub.gen
  <2>1. client'.gen = g \/ client'.gen = client.gen
    BY <1>1, <1>3 DEF Shown
  <2>2. g <= hub.gen
    BY <1>1, <1>2 DEF g
  <2> QED
    BY <1>2, <1>4, <2>1, <2>2
<1>7. \A i \in 1 .. Len(client'.run) : Was(client'.run[i], hub)
  <2>1. CASE m.kind = "bytes"
    <3>1. client'.run = client.run \o m.data
      BY <1>1, <2>1 DEF Shown
    <3> DEFINE old == client.run
               more == m.data
               shown == client'.run
    <3>2. old \in Seq(Output) /\ more \in Seq(Output) /\ shown = old \o more
      BY <1>4, <3>1
    <3>3. /\ \A i \in 1 .. Len(old) : Was(old[i], hub)
          /\ \A i \in 1 .. Len(more) : Was(more[i], hub)
      BY <1>1, <1>2 DEF Carries
    <3> HIDE DEF old, more, shown
    <3>4. \A i \in 1 .. Len(shown) : Was(shown[i], hub)
      BY <3>2, <3>3, MoreShown
    <3> QED
      BY <3>4 DEF shown
  <2>2. CASE m.kind = "snapshot"
    BY <1>1, <2>2 DEF Shown, Carries
  <2>3. CASE m.kind = "marker"
    <3>1. Len(client'.run) = 0
      BY <1>1, <2>3 DEF Shown
    <3> QED
      BY <3>1
  <2>4. CASE m.kind \in {"resize", "recovery"}
    BY <1>1, <1>2, <2>4 DEF Shown
  <2> QED
    BY <1>3, <2>1, <2>2, <2>3, <2>4
<1>8. Faithful' => Was(<<client'.gen, client'.lastSeq>>, hub)
  <2> SUFFICES ASSUME Faithful' PROVE Was(<<client'.gen, client'.lastSeq>>, hub)
    OBVIOUS
  <2>1. CASE m.kind \in {"snapshot", "recovery"}
    BY <1>1, <1>2, <2>1 DEF Shown
  <2>2. CASE m.kind = "bytes"
    <3>1. m.data # <<>> /\ client'.run = client.run \o m.data
      BY <1>1, <2>2 DEF Carries, Shown
    <3> DEFINE old == client.run
               more == m.data
               shown == client'.run
    <3>2. old \in Seq(Output) /\ more \in Seq(Output) /\ more # <<>> /\ shown = old \o more
      BY <1>4, <3>1
    <3> HIDE DEF old, more, shown
    <3>3. /\ \A i \in 1 .. Len(old) : Was(old[i], hub)
          /\ \A i \in 1 .. Len(more) : Was(more[i], hub)
      BY <1>1, <1>2 DEF Carries, old, more
    <3>4. Len(shown) \in 1 .. Len(shown) /\ shown # <<>>
      BY <3>2, <3>3, MoreShown
    <3>5. Len(client'.run) \in 1 .. Len(client'.run) /\ client'.run # <<>>
      BY <3>4 DEF shown
    <3>6. ScreenExact(client')
      BY <1>1, <1>4, <1>5 DEF StreamInv
    <3>7. client'.run[Len(client'.run)] = <<client'.gen, client'.lastSeq>>
      <4> DEFINE cl == client'
      <4>1. cl \in ClientRecord /\ ScreenExact(cl) /\ cl.run # <<>>
        BY <1>1, <3>5, <3>6
      <4> HIDE DEF cl
      <4>2. cl.run[Len(cl.run)] = <<cl.gen, cl.lastSeq>>
        BY <4>1, ExactRuns DEF Last
      <4> QED
        BY <4>2 DEF cl
    <3> QED
      BY <1>7, <3>5, <3>7
  <2>3. CASE m.kind = "resize"
    BY <1>1, <1>2, <1>5, <2>3 DEF Shown
  <2>4. CASE m.kind = "marker"
    BY <1>1, <1>5, <2>4, FirstInPlace DEF m
  <2> QED
    BY <1>3, <2>1, <2>2, <2>3, <2>4
<1> QED
  BY <1>1, <1>2, <1>4, <1>6, <1>7, <1>8 DEF PlaceInv, g

\* A connection that is gone leaves the run where it is.
LEMMA GonePlace ==
    ASSUME StreamInv, PlaceInv, client.conn # NoConn, client' = Disconnected(client),
           wire' = <<>>, UNCHANGED <<hub, sub>>
    PROVE  /\ PlaceInv' /\ (Faithful' <=> Faithful) /\ hub' = hub
           /\ client'.run = client.run /\ client'.gen = client.gen
           /\ client'.lastSeq = client.lastSeq /\ client'.above = client.above
<1> DEFINE lossy == sub[client.conn].lossy
           exact == client.exact /\ ~lossy
<1>1. client \in ClientRecord
  BY DEF StreamInv
<1>2. client' = [client EXCEPT !.conn = NoConn, !.exact = exact]
  BY DEF Disconnected
<1>3. exact \in BOOLEAN /\ (exact <=> Faithful)
  BY <1>1 DEF Faithful
<1> HIDE DEF exact
<1>4. /\ client'.conn = NoConn /\ client'.exact = exact /\ client'.run = client.run
      /\ client'.gen = client.gen /\ client'.lastSeq = client.lastSeq
      /\ client'.above = client.above
  BY <1>1, <1>2, <1>3 DEF ClientRecord
<1>5. Faithful' <=> Faithful
  BY <1>3, <1>4 DEF Faithful
<1>6. AllCarry(wire', hub)
  <2>1. Len(wire') = 0
    OBVIOUS
  <2> QED
    BY <2>1 DEF AllCarry
<1>7. hub' = hub /\ sub' = sub
  OBVIOUS
<1> QED
  BY <1>4, <1>5, <1>6, <1>7 DEF PlaceInv

\* A socket that was closed by the daemon.
LEMMA ClosedGone ==
    ASSUME StreamInv, Receive, wire[1].kind = "closed"
    PROVE  /\ client.conn # NoConn /\ client' = Disconnected(client) /\ wire' = <<>>
           /\ UNCHANGED <<hub, sub>>
<1>1. wire \in Seq(Message) /\ wire # <<>> /\ Head(wire) = wire[1]
  BY DEF Receive, StreamInv, WireShape
<1>2. client.conn # NoConn
  BY <1>1 DEF StreamInv
<1> QED
  BY <1>1, <1>2 DEF Receive, Received

\* Nothing was printed, queued or shown.
LEMMA InitPlace == Init => PlaceInv
<1> SUFFICES ASSUME Init PROVE PlaceInv
  OBVIOUS
<1>1. /\ hub.gen = 0 /\ hub.seq = 0 /\ wire = <<>> /\ client.conn = NoConn
      /\ client.gen = 0 /\ client.lastSeq = 0 /\ client.run = <<>>
      /\ \A c \in Conns : sub[c].gen = 0 /\ sub[c].q = <<>>
  BY DEF Init, NewHub, NewClient, Subscriber
<1>2. Len(wire) = 0 /\ Len(client.run) = 0 /\ \A c \in Conns : Len(sub[c].q) = 0
  BY <1>1
<1>3. Was(<<client.gen, client.lastSeq>>, hub)
  BY <1>1 DEF Was
<1> QED
  BY <1>1, <1>2, <1>3 DEF PlaceInv, AllCarry

\* Every step keeps the place.
LEMMA StepPlace ==
    HubInv /\ HubInv' /\ ChannelInv /\ StreamInv /\ StreamInv' /\ PlaceInv /\ [Next]_vars => PlaceInv'
<1> SUFFICES ASSUME HubInv, HubInv', ChannelInv, StreamInv, StreamInv', PlaceInv, [Next]_vars
             PROVE  PlaceInv'
  OBVIOUS
<1>1. ASSUME NEW n \in 1 .. MaxChunk, Write(n) PROVE PlaceInv'
  BY <1>1, WriteOnward, OnwardKeeps
<1>2. CASE TimerFires \/ FlushCallback \/ BroadcastResize \/ Close
  BY <1>2, QuietOnward, OnwardKeeps
<1>3. CASE ReplaceHost
  BY <1>3, ReplaceOnward, OnwardKeeps
<1>4. ASSUME NEW c \in Conns, Attach(c) PROVE PlaceInv'
  BY <1>4, AttachPlace
<1>5. ASSUME NEW c \in Conns, Pump(c) \/ PumpEnds(c) PROVE PlaceInv'
  BY <1>5, PumpPlace
<1>6. ASSUME NEW c \in Conns, Leave(c) \/ Unsubscribe(c) PROVE PlaceInv'
  BY <1>6, LetGoOnward, OnwardKeeps
<1>7. CASE Disconnect
  BY <1>7, GonePlace DEF Disconnect
<1>8. CASE Receive
  <2>1. CASE wire[1].kind = "closed"
    BY <1>8, <2>1, ClosedGone, GonePlace
  <2>2. CASE wire[1].kind # "closed"
    BY <1>8, <2>2, ReceivePlace
  <2> QED
    BY <2>1, <2>2
<1>9. CASE UNCHANGED vars
  <2>1. hub' = hub /\ sub' = sub /\ wire' = wire /\ client' = client
    BY <1>9 DEF vars
  <2>2. Faithful' <=> Faithful
    BY <2>1 DEF Faithful
  <2> QED
    BY <2>1, <2>2 DEF PlaceInv
<1> QED
  BY <1>1, <1>2, <1>3, <1>4, <1>5, <1>6, <1>7, <1>8, <1>9 DEF Next
-----------------------------------------------------------------------------
(* The steps of ScreenSpec.                                                *)

\* Nothing was printed, and the browser is where it was.
SamePlace ==
    /\ hub'.gen = hub.gen /\ hub'.seq = hub.seq
    /\ client'.gen = client.gen /\ client'.lastSeq = client.lastSeq

\* A step that no run shows.
LEMMA ScreenStays ==
    ASSUME SamePlace, client'.run = client.run, client'.above = client.above,
           Faithful' <=> Faithful
    PROVE  UNCHANGED Abs!screenVars
<1>1. Faithful' = Faithful
  BY Zenon DEF Faithful
<1> QED
  BY <1>1 DEF Abs!screenVars, SamePlace, Page

\* A step after which the run may be no longer faithful.
LEMMA ScreenLoses ==
    ASSUME SamePlace, client'.run = client.run, client'.above = client.above,
           Faithful' => Faithful
    PROVE  Abs!SpecNext \/ UNCHANGED Abs!screenVars
<1>1. CASE Faithful' <=> Faithful
  BY <1>1, ScreenStays
<1>2. CASE ~Faithful'
  <2>1. Faithful' = FALSE
    BY <1>2, Zenon DEF Faithful
  <2>2. Abs!Lose
    BY <2>1 DEF Abs!Lose, SamePlace, Page
  <2> QED
    BY <2>2 DEF Abs!SpecNext
<1> QED
  BY <1>1, <1>2

\* A step after which no run has begun, behind a mark or none.
LEMMA ScreenBreaks ==
    ASSUME StreamInv, hub'.gen = hub.gen, hub'.seq = hub.seq, client'.run = <<>>, ~Faithful',
           client'.above \in {Page(client), Page(client) \o MarkText(client)}
    PROVE  Abs!SpecNext
<1>1. Faithful' = FALSE
  BY Zenon DEF Faithful
<1>2. client \in ClientRecord
  BY DEF StreamInv
<1>3. Page(client)' = client'.above \o <<>>
  BY DEF Page
<1>4. Page(client)' \in {Page(client), Append(Page(client), <<client.gen, 0>>)}
  BY <1>2, <1>3, PageFacts
<1>5. Abs!BreakOff
  BY <1>1, <1>4 DEF Abs!BreakOff
<1> QED
  BY <1>5 DEF Abs!SpecNext

\* What is shown was printed, and is a run up to the place of a faithful browser.
LEMMA ScreenFacts ==
    ASSUME StreamInv, PlaceInv
    PROVE  /\ Abs!WasPrinted(client.run)
           /\ Faithful => Abs!RunTo(client.run, <<client.gen, client.lastSeq>>)
<1>1. client \in ClientRecord /\ (Faithful => ScreenExact(client))
  BY DEF StreamInv, Faithful
<1>2. DOMAIN client.run = 1 .. Len(client.run)
  BY <1>1 DEF ClientRecord
<1>3. Abs!WasPrinted(client.run)
  <2> SUFFICES ASSUME NEW i \in 1 .. Len(client.run)
               PROVE  Abs!Behind(client.run[i], <<hub.gen, hub.seq>>)
    BY <1>2 DEF Abs!WasPrinted
  <2>1. Was(client.run[i], hub)
    BY DEF PlaceInv
  <2> QED
    BY <2>1 DEF Was, Abs!Behind
<1>4. Faithful => Abs!RunTo(client.run, <<client.gen, client.lastSeq>>)
  <2> SUFFICES ASSUME Faithful PROVE Abs!RunTo(client.run, <<client.gen, client.lastSeq>>)
    OBVIOUS
  <2>1. /\ Consecutive(client.run)
        /\ client.run # <<>> => Last(client.run) = <<client.gen, client.lastSeq>>
    BY <1>1, ExactRuns
  <2> QED
    BY <2>1 DEF Consecutive, Abs!RunTo, Last, Abs!Last
<1> QED
  BY <1>3, <1>4

\* More output, or a recovery that changes nothing that is shown.
LEMMA ScreenShows ==
    ASSUME StreamInv, hub'.gen = hub.gen, hub'.seq = hub.seq, Faithful' <=> Faithful,
           client'.above = client.above,
           IsPrefix(client.run, client'.run), Abs!WasPrinted(client'.run),
           Faithful => /\ Abs!RunTo(client'.run, <<client'.gen, client'.lastSeq>>)
                       /\ \/ client.gen < client'.gen
                          \/ client.gen = client'.gen /\ client.lastSeq <= client'.lastSeq
    PROVE  Abs!SpecNext
<1>1. Faithful' = Faithful
  BY Zenon DEF Faithful
<1>2. Page(client)' = Abs!Above \o client'.run
  <2>1. Abs!Above = client.above
    BY PageFacts DEF Abs!Above, StreamInv
  <2> QED
    BY <2>1 DEF Page
<1>3. Abs!Show
  BY <1>1, <1>2 DEF Abs!Show, Abs!Behind, IsPrefix, Abs!IsPrefix
<1> QED
  BY <1>3 DEF Abs!SpecNext

\* The browser takes a message: the run grows, or another begins behind it.
LEMMA ReceiveStep ==
    ASSUME StreamInv, StreamInv', PlaceInv, PlaceInv', Receive, wire[1].kind # "closed"
    PROVE  Abs!SpecNext \/ UNCHANGED Abs!screenVars
<1> DEFINE c == client.conn
           g == sub[c].gen
           m == wire[1]
<1>1. /\ c \in Conns /\ c # NoConn /\ wire # <<>> /\ hub' = hub /\ sub' = sub
      /\ m \in Message /\ client' \in ClientRecord /\ Shown(g, client, m, client')
  BY Taken
<1>2. m.kind \in {"bytes", "marker", "resize", "snapshot", "recovery"}
  BY <1>1 DEF Message
<1>3. (Faithful' <=> client'.exact /\ ~sub[c].lossy) /\ (Faithful <=> client.exact /\ ~sub[c].lossy)
  BY <1>1 DEF Faithful, Shown
<1>4. /\ Abs!WasPrinted(client'.run)
      /\ Faithful' => Abs!RunTo(client'.run, <<client'.gen, client'.lastSeq>>)
  <2>1. (Abs!WasPrinted(client.run))'
        /\ (Faithful => Abs!RunTo(client.run, <<client.gen, client.lastSeq>>))'
    BY ScreenFacts, PTL
  <2> QED
    BY <1>1, <2>1 DEF Abs!WasPrinted, Abs!RunTo, Abs!Behind
<1>5. client.gen \in Nat /\ client.lastSeq \in Nat /\ g \in Nat /\ client.gen <= g
  BY <1>1, ClientNumbers DEF PlaceInv
<1>6. SnapshotComes(wire) => SnapshotAhead(m, g, client)
  BY <1>1 DEF PlaceInv
<1>7. ~sub[c].lossy => m.kind # "marker" /\ (m.kind = "recovery" => m.seq = client.lastSeq)
  BY <1>1, FirstInPlace
<1> HIDE DEF g, m, c
<1>8. CASE m.kind = "resize"
  <2>1. client'.run = client.run /\ SamePlace /\ (Faithful' <=> Faithful)
        /\ client'.above = client.above
    BY <1>1, <1>3, <1>8 DEF Shown, SamePlace
  <2> QED
    BY <2>1, ScreenStays
<1>9. CASE m.kind = "marker"
  <2>1. client'.run = <<>> /\ ~Faithful' /\ client'.above = Page(client) \o MarkText(client)
    BY <1>1, <1>3, <1>7, <1>9 DEF Shown
  <2> QED
    BY <1>1, <2>1, ScreenBreaks
<1>10. CASE m.kind = "recovery"
  <2>1. /\ client'.run = client.run /\ client'.gen = g /\ client'.lastSeq = m.seq
        /\ Faithful' <=> Faithful
        /\ client'.above = client.above
    BY <1>1, <1>3, <1>10 DEF Shown
  <2>2. IsPrefix(client.run, client'.run)
    <3>1. Len(client.run) \in Nat
      BY <1>1, <2>1 DEF ClientRecord
    <3> QED
      BY <2>1, <3>1 DEF IsPrefix
  <2>3. Faithful => \/ client.gen < client'.gen
                    \/ client.gen = client'.gen /\ client.lastSeq <= client'.lastSeq
    BY <1>3, <1>5, <1>7, <1>10, <2>1
  <2> QED
    BY <1>1, <1>4, <2>1, <2>2, <2>3, ScreenShows
<1>11. CASE m.kind = "bytes"
  <2>1. /\ client'.run = client.run \o m.data /\ client'.gen = g
        /\ client'.lastSeq = client.lastSeq + Len(m.data)
        /\ Faithful' <=> Faithful
        /\ client'.above = client.above
    BY <1>1, <1>3, <1>11 DEF Shown
  <2> DEFINE old == client.run
             more == m.data
             shown == client'.run
  <2>2. old \in Seq(Output) /\ more \in Seq(Output) /\ shown = old \o more
    BY <1>1, <2>1, ClientNumbers DEF Message
  <2>3. /\ \A i \in 1 .. Len(old) : Was(old[i], hub)
        /\ \A i \in 1 .. Len(more) : Was(more[i], hub)
    BY Taken DEF PlaceInv, Carries, m
  <2>4. Len(m.data) \in Nat
    BY <2>2
  <2> HIDE DEF old, more, shown
  <2>5. IsPrefix(old, shown)
    BY <2>2, <2>3, MoreShown
  <2>6. IsPrefix(client.run, client'.run)
    BY <2>5 DEF old, shown
  <2>7. \/ client.gen < client'.gen
        \/ client.gen = client'.gen /\ client.lastSeq <= client'.lastSeq
    BY <1>5, <2>1, <2>4
  <2> QED
    BY <1>1, <1>4, <2>1, <2>6, <2>7, ScreenShows
<1>12. CASE m.kind = "snapshot"
  <2>1. /\ client'.run = m.data /\ client'.gen = g /\ client'.lastSeq = m.seq
        /\ client'.above = Page(client)
    BY <1>1, <1>12 DEF Shown
  <2>2. SnapshotAhead(m, g, client)
    BY <1>1, <1>6, <1>12 DEF SnapshotComes, m
  <2>3. Abs!RunTo(client'.run, <<client'.gen, client'.lastSeq>>)
    <3> DEFINE s == m.data
               n == Len(s)
               seq == m.seq
    <3>1. g \in 0 .. MaxGen /\ seq \in 0 .. MaxOut /\ n \in 0 .. seq /\ s = Ending(g, seq, n)
      <4>1. client'.gen \in 0 .. MaxGen /\ m.seq \in 0 .. MaxOut /\ m.data \in Seq(Output)
        BY <1>1 DEF ClientRecord, Message
      <4>2. m.data = Ending(g, m.seq, Len(m.data)) /\ Len(m.data) <= m.seq
        BY <2>2 DEF SnapshotAhead
      <4>3. Len(m.data) \in Nat /\ m.seq \in Nat
        BY <4>1, Bounds
      <4> QED
        BY <2>1, <4>1, <4>2, <4>3
    <3> HIDE DEF n, seq, s
    <3>2. Consecutive(s) /\ (s # <<>> => Last(s) = <<g, seq>>)
      BY <3>1, EndingRuns
    <3>3. Abs!RunTo(s, <<g, seq>>)
      BY <3>2 DEF Consecutive, Abs!RunTo, Last, Abs!Last
    <3> QED
      BY <2>1, <3>3 DEF s, seq
  <2>4. Faithful => \/ client.gen < client'.gen
                    \/ client.gen = client'.gen /\ client'.run # <<>>
                       /\ client'.run[1][2] > client.lastSeq + 1
    BY <1>3, <2>1, <2>2 DEF SnapshotAhead
  <2>5. Page(client)' = Page(client) \o client'.run
    BY <2>1 DEF Page
  <2>6. Abs!Resume
    BY <1>1, <1>4, <2>3, <2>4, <2>5 DEF Abs!Resume
  <2> QED
    BY <2>6 DEF Abs!SpecNext
<1> QED
  BY <1>2, <1>8, <1>9, <1>10, <1>11, <1>12

\* A browser that attaches is where it was, or its run is over.
LEMMA AttachStep ==
    ASSUME HubInv, ChannelInv, StreamInv, PlaceInv, NEW c \in Conns, Attach(c)
    PROVE  Abs!SpecNext \/ UNCHANGED Abs!screenVars
<1>1. /\ hub'.gen = hub.gen /\ hub'.seq = hub.seq
      /\ client'.gen = client.gen /\ client'.lastSeq = client.lastSeq
      /\ Faithful' => Faithful /\ client'.run = client.run /\ client'.above = client.above
      /\ ~Faithful' => client'.run = <<>> /\ client'.above = Page(client)
  BY AttachPlace
<1>2. CASE Faithful'
  BY <1>1, <1>2, ScreenStays DEF SamePlace
<1>3. CASE ~Faithful'
  BY <1>1, <1>3, ScreenBreaks
<1> QED
  BY <1>2, <1>3

\* Every step of the stream is one of the run, or none.
LEMMA StepScreen ==
    ASSUME HubInv, HubInv', ChannelInv, StreamInv, StreamInv', PlaceInv, PlaceInv', [Next]_vars
    PROVE  Abs!SpecNext \/ UNCHANGED Abs!screenVars
<1>1. ASSUME NEW n \in 1 .. MaxChunk, Write(n) PROVE Abs!SpecNext
  <2>1. Onward /\ hub'.gen = hub.gen /\ hub'.seq > hub.seq
    BY <1>1, WriteOnward
  <2>2. (Faithful' => Faithful) /\ client' = client
    BY <2>1, OnwardKeeps DEF Onward
  <2>3. Abs!HostWrites
    BY <2>1, <2>2 DEF Abs!HostWrites, Page
  <2> QED
    BY <2>3 DEF Abs!SpecNext
<1>2. ASSUME TimerFires \/ FlushCallback \/ BroadcastResize \/ Close
      PROVE  Abs!SpecNext \/ UNCHANGED Abs!screenVars
  <2>1. Onward /\ hub'.gen = hub.gen /\ hub'.seq = hub.seq
    BY <1>2, QuietOnward
  <2>2. (Faithful' => Faithful) /\ client' = client
    BY <2>1, OnwardKeeps DEF Onward
  <2> QED
    BY <2>1, <2>2, ScreenLoses DEF SamePlace
<1>3. CASE ReplaceHost
  <2>1. Onward /\ hub'.gen = hub.gen + 1 /\ hub'.seq = 0 /\ sub' = sub
    BY <1>3, ReplaceOnward
  <2>2. client' = client
    BY <2>1 DEF Onward
  <2>3. Faithful' = Faithful
    BY <2>1, <2>2 DEF Faithful
  <2>4. Abs!NextHost
    BY <2>1, <2>2, <2>3 DEF Abs!NextHost, Page
  <2> QED
    BY <2>4 DEF Abs!SpecNext
<1>4. ASSUME NEW c \in Conns, Attach(c) PROVE Abs!SpecNext \/ UNCHANGED Abs!screenVars
  BY <1>4, AttachStep
<1>5. ASSUME NEW c \in Conns, Pump(c) \/ PumpEnds(c) PROVE UNCHANGED Abs!screenVars
  <2>1. hub' = hub /\ client' = client /\ \A d \in Conns : sub'[d].lossy = sub[d].lossy
    BY <1>5, PumpPlace
  <2>2. Faithful' <=> Faithful
    BY <2>1, ClientNumbers DEF Faithful
  <2> QED
    BY <2>1, <2>2, ScreenStays DEF SamePlace
<1>6. ASSUME NEW c \in Conns, Leave(c) \/ Unsubscribe(c) PROVE UNCHANGED Abs!screenVars
  <2>1. Onward /\ hub' = hub /\ \A d \in Conns : sub'[d].lossy = sub[d].lossy
    BY <1>6, LetGoOnward
  <2>2. client' = client
    BY <2>1 DEF Onward
  <2>3. Faithful' <=> Faithful
    BY <2>1, <2>2, ClientNumbers DEF Faithful
  <2> QED
    BY <2>1, <2>2, <2>3, ScreenStays DEF SamePlace
<1>7. CASE Disconnect \/ (Receive /\ wire[1].kind = "closed")
  <2>1. /\ client.conn # NoConn /\ client' = Disconnected(client) /\ wire' = <<>>
        /\ UNCHANGED <<hub, sub>>
    BY <1>7, ClosedGone DEF Disconnect
  <2>2. /\ (Faithful' <=> Faithful) /\ hub' = hub
        /\ client'.run = client.run /\ client'.gen = client.gen
        /\ client'.lastSeq = client.lastSeq /\ client'.above = client.above
    BY <2>1, GonePlace
  <2> QED
    BY <2>2, ScreenStays DEF SamePlace
<1>8. CASE Receive /\ wire[1].kind # "closed"
  BY <1>8, ReceiveStep
<1>9. CASE UNCHANGED vars
  <2>1. hub' = hub /\ sub' = sub /\ client' = client
    BY <1>9 DEF vars
  <2>2. Faithful' <=> Faithful
    BY <2>1 DEF Faithful
  <2> QED
    BY <2>1, <2>2, ScreenStays DEF SamePlace
<1> QED
  BY <1>1, <1>2, <1>3, <1>4, <1>5, <1>6, <1>7, <1>8, <1>9 DEF Next

\* A new daemon has printed and shown nothing.
LEMMA InitScreen == Init => Abs!SpecInit
<1> SUFFICES ASSUME Init PROVE Abs!SpecInit
  OBVIOUS
<1>1. /\ hub.gen = 0 /\ hub.seq = 0 /\ client.run = <<>> /\ client.above = <<>> /\ client.gen = 0 /\ client.lastSeq = 0
      /\ client.exact = TRUE /\ client.conn = NoConn
  BY DEF Init, NewHub, NewClient
<1>2. Faithful = TRUE
  BY <1>1 DEF Faithful
<1>3. Page(client) = <<>>
  BY <1>1 DEF Page
<1> QED
  BY <1>1, <1>2, <1>3 DEF Abs!SpecInit

\* For every ring, queue, flush and marker size, and any number of connections and
\* hosts: the stream keeps what a browser's terminal promises.  The page only grows,
\* its run was printed, a faithful run goes on behind its last byte or makes way for
\* a later one, never an earlier one, and after a loss the browser is not faithful
\* before another run has begun (Hub, handleWSPTY, TerminalWS).
THEOREM StreamImplementsScreen == Spec => ImplementsScreen
<1> DEFINE Inv == HubInv /\ ChannelInv /\ StreamInv /\ PlaceInv
<1>1. Init => Inv
  BY InitInStep, InitChannels, InitStream, InitPlace
<1>2. Inv /\ [Next]_vars => Inv'
  <2> SUFFICES ASSUME Inv, [Next]_vars PROVE Inv'
    OBVIOUS
  <2>1. HubInv' /\ ChannelInv' /\ StreamInv'
    BY StepInStep, StepChannels, StepStream
  <2>2. PlaceInv'
    BY <2>1, StepPlace
  <2> QED
    BY <2>1, <2>2
<1>3. Inv /\ Inv' /\ [Next]_vars => [Abs!SpecNext]_(Abs!screenVars)
  BY StepScreen
<1> QED
  BY <1>1, <1>2, <1>3, InitScreen, PTL DEF Spec, ImplementsScreen, Abs!Spec
===============================================================================
