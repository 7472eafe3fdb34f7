---------------------------- MODULE MsgSock_proofs ----------------------------
(***************************************************************************)
(* A pair of msg_socks implements MsgChannel, for any messages, bounds and *)
(* sizes of header, kernel buffers and iovecs.                             *)
(*                                                                         *)
(* The argument counts bytes.  Upto(sent)[k] is the place in the stream    *)
(* where message k ends.  What the sender has still to write, what the     *)
(* kernels hold and what the receiver holds are adjacent pieces of the     *)
(* stream (StreamInv), however writev and readv cut them, and the receiver *)
(* always is at the length word or at the body of message Len(got) + 1     *)
(* (ReadInv).  A failure that has been reported leaves the receiver where  *)
(* no more messages can be cut off (FailInv).                              *)
(***************************************************************************)
EXTENDS MsgSock, SequenceTheorems, WellFoundedInduction, TLAPS

\* x is the n-th byte of the messages in s.
At(s, x, n) ==
    /\ x \in (1..Len(s)) \X Nat
    /\ x[2] \in 1..RawSize(s[x[1]])
    /\ n = Upto(s)[x[1] - 1] + x[2]

\* q holds the last messages of s.
QueueOf(q, s) ==
    /\ Len(q) <= Len(s)
    /\ \A j \in 1..Len(q) :
        q[j].k = Len(s) - Len(q) + j /\ q[j].len = s[Len(s) - Len(q) + j].len

\* The size and the start of a queue.
Counted(q, size, start) ==
    /\ size = QueueBytes(q) - start
    /\ IF q = <<>> THEN start = 0 ELSE start < RawSize(Head(q))

\* The bytes in b are those of the stream of s behind the first `base' bytes.
Piece(s, base, b) == \A n \in 1..Len(b) : At(s, b[n], base + n)

\* Behind the first `base' bytes of the stream there are those in b and, unless writing
\* has ended, those in the queue.
Flow(s, base, b, q, size, start, ended) ==
    /\ QueueOf(q, s) /\ Counted(q, size, start)
    /\ Piece(s, base, b)
    /\ base + Len(b) <= QueueBytes(s)
    /\ IF ended THEN q = <<>> ELSE base + Len(b) = QueueBytes(s) - size

\* The number of bytes that have become messages or length words.
Pos == Upto(sent)[Len(got)] + IF rdlen = NoMsg THEN 0 ELSE Hdr

\* The bytes from Pos on are in rbuf, then in net, then in wqueue_.
StreamInv ==
    /\ Len(got) <= Len(sent) /\ Len(sent) <= MaxSends
    /\ Piece(sent, Pos, rbuf)
    /\ Flow(sent, Pos + Len(rbuf), net, wqueue, wsize, wstart, wfail \/ closed)

WakeInv == NoIdleWakeups /\ (closed => ~wcb)

ReadInv ==
    /\ \A k \in DOMAIN got : got[k] = k
    /\ rdlen # NoMsg =>
        /\ Len(got) < Len(sent) /\ Len(rbuf) < rdlen
        /\ sent[Len(got) + 1].last /\ sent[Len(got) + 1].len = rdlen
    /\ rdlen = NoMsg => Len(rbuf) <= Hdr
    /\ ipc = "parse" => rdlen = NoMsg /\ Len(rbuf) = Hdr
    /\ NoUseAfterDestroy

FailInv ==
    /\ rfail = "eof" => closed /\ net = <<>> /\ Wanted > 0
    /\ rfail = "framing" =>
        /\ rdlen = NoMsg /\ Len(rbuf) = Hdr /\ Len(got) < Len(sent)
        /\ sent[Len(got) + 1].len > MaxMsgLen \/ ~sent[Len(got) + 1].last

IInv == TypeOK /\ StreamInv /\ WakeInv /\ ReadInv /\ FailInv

-----------------------------------------------------------------------------
(* Sums over a sequence of messages. *)

LEMMA LeastOf == ASSUME NEW S \in SUBSET Nat, S # {} PROVE \E s \in S : \A t \in S : s <= t
<1>1. PICK s \in S : \A t \in S : <<t, s>> \notin OpToRel(<, Nat)
  BY NatLessThanWellFounded, WFMin
<1>2. ASSUME NEW t \in S PROVE s <= t
  <2>1. <<t, s>>[1] = t /\ <<t, s>>[2] = s /\ <<t, s>> \in Nat \X Nat
    OBVIOUS
  <2>2. ~(t < s)
    BY <1>1, <2>1 DEF OpToRel
  <2> QED
    BY <2>2
<1> QED
  BY <1>2

\* A sequence of messages whose raw sizes are numbers.
Sized(s) == Len(s) \in Nat /\ \A j \in 1..Len(s) : RawSize(s[j]) \in Nat \ {0}

\* f is the function of Upto, as far as n.
Sums(s, f, n) ==
    /\ f \in [0..n -> Nat] /\ f[0] = 0
    /\ \A j \in 1..n : f[j] = f[j - 1] + RawSize(s[j])

LEMMA SumsExist == ASSUME NEW s, Sized(s) PROVE \E f : Sums(s, f, Len(s))
<1> DEFINE Bad == {n \in 0..Len(s) : ~ \E f : Sums(s, f, n)}
<1>1. SUFFICES Bad = {}
  <2>1. Len(s) \in 0..Len(s)
    BY DEF Sized
  <2> QED
    BY <1>1, <2>1
<1>2. SUFFICES ASSUME Bad # {} PROVE FALSE
  OBVIOUS
<1>3. Bad \in SUBSET Nat
  BY DEF Sized
<1>4. PICK n \in Bad : \A m \in Bad : n <= m
  <2> HIDE DEF Bad
  <2> QED
    BY <1>2, <1>3, LeastOf
<1>5. n \in 0..Len(s) /\ n \in Nat /\ Len(s) \in Nat
  BY <1>3 DEF Sized
<1>6. CASE n = 0
  <2>1. PICK f : f = [j \in 0..0 |-> 0]
    OBVIOUS
  <2>2. f \in [0..0 -> Nat] /\ f[0] = 0
    BY <2>1
  <2>3. Sums(s, f, 0)
    BY <2>2 DEF Sums
  <2> QED
    BY <1>6, <2>3
<1>7. CASE n # 0
  <2>1. n - 1 \in 0..Len(s) /\ n - 1 \notin Bad
    <3>1. n - 1 \in 0..Len(s) /\ n - 1 < n
      BY <1>5, <1>7
    <3>2. ASSUME n - 1 \in Bad PROVE FALSE
      <4>1. n <= n - 1
        BY <1>4, <3>2
      <4> QED
        BY <1>5, <4>1
    <3> QED
      BY <3>1, <3>2
  <2>2. PICK f : Sums(s, f, n - 1)
    BY <2>1
  <2>3. RawSize(s[n]) \in Nat /\ n - 1 \in 0..(n - 1) /\ f \in [0..(n - 1) -> Nat]
    BY <1>5, <1>7, <2>2 DEF Sized, Sums
  <2>4. PICK g : g = [j \in 0..n |-> IF j = n THEN f[n - 1] + RawSize(s[n]) ELSE f[j]]
    OBVIOUS
  <2>5. g[n] = f[n - 1] + RawSize(s[n]) /\ \A j \in 0..(n - 1) : g[j] = f[j]
    BY <1>5, <1>7, <2>4
  <2>6. g \in [0..n -> Nat]
    <3>1. ASSUME NEW j \in 0..n PROVE (IF j = n THEN f[n - 1] + RawSize(s[n]) ELSE f[j]) \in Nat
      <4>1. CASE j = n
        BY <2>3, <4>1
      <4>2. CASE j # n
        <5>1. j \in 0..(n - 1)
          BY <1>5, <4>2
        <5> QED
          BY <2>3, <4>2, <5>1
      <4> QED
        BY <4>1, <4>2
    <3> QED
      BY <2>4, <3>1
  <2>7. g[0] = 0
    BY <1>5, <1>7, <2>2, <2>5 DEF Sums
  <2>8. ASSUME NEW j \in 1..n PROVE g[j] = g[j - 1] + RawSize(s[j])
    <3>1. j - 1 \in 0..(n - 1) /\ (j # n => j \in 1..(n - 1) /\ j \in 0..(n - 1))
      BY <1>5
    <3> QED
      BY <2>2, <2>5, <3>1 DEF Sums
  <2>9. Sums(s, g, n)
    BY <2>6, <2>7, <2>8 DEF Sums
  <2> QED
    BY <2>9
<1> QED
  BY <1>6, <1>7

LEMMA UptoSums == ASSUME NEW s, Sized(s) PROVE Sums(s, Upto(s), Len(s))
<1>1. PICK f : Sums(s, f, Len(s))
  BY SumsExist
<1>2. f = [j \in 0..Len(s) |-> IF j = 0 THEN 0 ELSE f[j - 1] + RawSize(s[j])]
  <2>1. Len(s) \in Nat
    BY DEF Sized
  <2>2. ASSUME NEW j \in 0..Len(s) PROVE f[j] = IF j = 0 THEN 0 ELSE f[j - 1] + RawSize(s[j])
    BY <1>1, <2>1 DEF Sums
  <2>3. f = [j \in 0..Len(s) |-> f[j]]
    BY <1>1 DEF Sums
  <2> QED
    BY <2>2, <2>3
<1>3. Upto(s) = [j \in 0..Len(s) |-> IF j = 0 THEN 0 ELSE Upto(s)[j - 1] + RawSize(s[j])]
  BY <1>2, Zenon DEF Upto
<1> DEFINE g == Upto(s)
<1>4. g = [j \in 0..Len(s) |-> IF j = 0 THEN 0 ELSE g[j - 1] + RawSize(s[j])]
  BY <1>3
<1> HIDE DEF g
<1>5. Len(s) \in Nat /\ g[0] = 0 /\ \A j \in 1..Len(s) : g[j] = g[j - 1] + RawSize(s[j])
  BY <1>4 DEF Sized
<1>6. \A j \in 0..Len(s) : g[j] \in Nat
  <2> DEFINE Bad == {n \in 0..Len(s) : g[n] \notin Nat}
  <2>1. SUFFICES ASSUME Bad # {} PROVE FALSE
    OBVIOUS
  <2>2. Bad \in SUBSET Nat
    BY <1>5
  <2>3. PICK n \in Bad : \A m \in Bad : n <= m
    <3> HIDE DEF Bad
    <3> QED
      BY <2>1, <2>2, LeastOf
  <2>4. n \in 1..Len(s) /\ n - 1 \in 0..Len(s) /\ n - 1 \notin Bad
    BY <1>5, <2>2, <2>3
  <2> QED
    BY <1>5, <2>4 DEF Sized
<1>7. g \in [0..Len(s) -> Nat]
  BY <1>4, <1>6
<1> QED
  BY <1>5, <1>7 DEF Sums, g

LEMMA UptoGrows ==
    ASSUME NEW s, Sized(s), NEW h \in 0..Len(s), NEW j \in 0..Len(s), h < j
    PROVE  Upto(s)[h] + RawSize(s[h + 1]) <= Upto(s)[j]
<1> DEFINE Bad == {n \in 0..Len(s) : h < n /\ ~(Upto(s)[h] + RawSize(s[h + 1]) <= Upto(s)[n])}
<1>1. SUFFICES ASSUME Bad # {} PROVE FALSE
  OBVIOUS
<1>2. Bad \in SUBSET Nat
  BY DEF Sized
<1>3. PICK n \in Bad : \A m \in Bad : n <= m
  <2> HIDE DEF Bad
  <2> QED
    BY <1>1, <1>2, LeastOf
<1>4. Len(s) \in Nat /\ Upto(s) \in [0..Len(s) -> Nat] /\ \A k \in 1..Len(s) : Upto(s)[k] = Upto(s)[k - 1] + RawSize(s[k])
  BY UptoSums DEF Sums, Sized
<1>5. n \in 1..Len(s) /\ n - 1 \in 0..Len(s) /\ h <= n - 1 /\ n - 1 \notin Bad
  <2>1. n \in 1..Len(s) /\ n - 1 \in 0..Len(s) /\ h <= n - 1 /\ n - 1 < n
    BY <1>4
  <2>2. ASSUME n - 1 \in Bad PROVE FALSE
    <3>1. n <= n - 1
      BY <1>3, <2>2
    <3> QED
      BY <2>1, <3>1
  <2> QED
    BY <2>1, <2>2
<1>6. RawSize(s[n]) \in Nat /\ Upto(s)[n - 1] \in Nat /\ Upto(s)[n] = Upto(s)[n - 1] + RawSize(s[n])
  BY <1>4, <1>5 DEF Sized
<1>7. CASE h = n - 1
  BY <1>4, <1>5, <1>6, <1>7
<1>8. CASE h < n - 1
  <2>1. Upto(s)[h] + RawSize(s[h + 1]) <= Upto(s)[n - 1]
    BY <1>5, <1>8
  <2>2. Upto(s)[h] \in Nat /\ RawSize(s[h + 1]) \in Nat
    <3>1. h + 1 \in 1..Len(s)
      BY <1>4
    <3> QED
      BY <1>4, <3>1 DEF Sized
  <2> QED
    BY <1>6, <2>1, <2>2
<1> QED
  BY <1>4, <1>5, <1>7, <1>8

\* q has the sizes of a part of s, the one behind the first K messages.
PartOf(q, s, K) ==
    /\ K \in Nat /\ K + Len(q) <= Len(s)
    /\ \A j \in 1..Len(q) : RawSize(q[j]) = RawSize(s[K + j])

\* The sums over q are sums over s behind the first K messages.
Shifted(q, s, K) == \A j \in 0..Len(q) : Upto(s)[K + j] = Upto(s)[K] + Upto(q)[j]

LEMMA PartSums ==
    ASSUME NEW s, NEW q, NEW K, Sized(s), Sized(q), PartOf(q, s, K)
    PROVE  Shifted(q, s, K)
<1> USE DEF PartOf, Shifted
<1> DEFINE Bad == {j \in 0..Len(q) : Upto(s)[K + j] # Upto(s)[K] + Upto(q)[j]}
<1>1. SUFFICES ASSUME Bad # {} PROVE FALSE
  OBVIOUS
<1>2. Bad \in SUBSET Nat
  BY DEF Sized
<1>3. PICK n \in Bad : \A m \in Bad : n <= m
  <2> HIDE DEF Bad
  <2> QED
    BY <1>1, <1>2, LeastOf
<1>4. /\ Len(s) \in Nat /\ Upto(s) \in [0..Len(s) -> Nat] /\ \A k \in 1..Len(s) : Upto(s)[k] = Upto(s)[k - 1] + RawSize(s[k])
      /\ Len(q) \in Nat /\ Upto(q) \in [0..Len(q) -> Nat] /\ \A k \in 1..Len(q) : Upto(q)[k] = Upto(q)[k - 1] + RawSize(q[k])
      /\ Upto(q)[0] = 0
  BY UptoSums DEF Sums, Sized
<1>5. Upto(s)[K] \in Nat /\ K \in 0..Len(s)
  <2>1. K \in 0..Len(s)
    <3>1. Len(s) \in Nat /\ Len(q) \in Nat
      BY DEF Sized
    <3> QED
      BY <3>1
  <2> QED
    BY <1>4, <2>1
<1>6. n # 0
  BY <1>4, <1>5
<1>7. n \in 1..Len(q) /\ n - 1 \in 0..Len(q) /\ n - 1 < n /\ n - 1 \notin Bad
  <2>1. n \in 1..Len(q) /\ n - 1 \in 0..Len(q) /\ n - 1 < n
    BY <1>4, <1>6
  <2>2. ASSUME n - 1 \in Bad PROVE FALSE
    <3>1. n <= n - 1
      BY <1>3, <2>2
    <3> QED
      BY <2>1, <3>1
  <2> QED
    BY <2>1, <2>2
<1>8. Upto(s)[K + (n - 1)] = Upto(s)[K] + Upto(q)[n - 1]
  BY <1>7
<1>9. K + n \in 1..Len(s) /\ (K + n) - 1 = K + (n - 1)
  BY <1>4, <1>7
<1>10. Upto(s)[K + n] = Upto(s)[K + (n - 1)] + RawSize(s[K + n])
  BY <1>4, <1>9
<1>11. Upto(q)[n] = Upto(q)[n - 1] + RawSize(q[n]) /\ RawSize(q[n]) = RawSize(s[K + n])
  BY <1>4, <1>7
<1>12. Upto(q)[n - 1] \in Nat /\ RawSize(q[n]) \in Nat
  BY <1>4, <1>7 DEF Sized
<1> QED
  BY <1>5, <1>8, <1>10, <1>11, <1>12

LEMMA CoveredFacts ==
    ASSUME NEW q, Sized(q), NEW n \in Nat
    PROVE  /\ Covered(q, n) \in 0..Len(q) /\ Upto(q)[Covered(q, n)] <= n
           /\ Covered(q, n) < Len(q) => n < Upto(q)[Covered(q, n) + 1]
<1> DEFINE Last(j) == j < Len(q) => n < Upto(q)[j + 1]
           Ends == {j \in 0..Len(q) : Last(j)}
<1>1. Len(q) \in Nat /\ Upto(q) \in [0..Len(q) -> Nat] /\ Upto(q)[0] = 0
  BY UptoSums DEF Sums, Sized
<1>2. Ends \in SUBSET Nat /\ Len(q) \in Ends
  BY <1>1
<1>3. PICK j \in Ends : \A h \in Ends : j <= h
  <2> HIDE DEF Ends
  <2> QED
    BY <1>2, LeastOf
<1>4. Upto(q)[j] <= n
  <2>1. CASE j = 0
    BY <1>1, <2>1
  <2>2. CASE j # 0
    <3>1. j - 1 \in 0..Len(q) /\ j - 1 < j /\ (j - 1) + 1 = j /\ j - 1 < Len(q) /\ j \in 0..Len(q)
      BY <1>1, <2>2
    <3>2. ASSUME j - 1 \in Ends PROVE FALSE
      <4>1. j <= j - 1
        BY <1>3, <3>2
      <4> QED
        BY <3>1, <4>1
    <3>3. ~(n < Upto(q)[j])
      BY <3>1, <3>2
    <3> QED
      BY <1>1, <3>1, <3>3
  <2> QED
    BY <2>1, <2>2
<1>5. j \in 0..Len(q) /\ Upto(q)[j] <= n /\ (j < Len(q) => n < Upto(q)[j + 1])
  BY <1>4
<1> QED
  BY <1>5, Zenon DEF Covered

LEMMA AtUnique ==
    ASSUME NEW s, Sized(s), NEW x, NEW n, At(s, x, n), NEW k \in 1..Len(s),
           Upto(s)[k - 1] < n, n <= Upto(s)[k]
    PROVE  x = <<k, n - Upto(s)[k - 1]>>
<1>1. Len(s) \in Nat /\ Upto(s) \in [0..Len(s) -> Nat] /\ \A j \in 1..Len(s) : Upto(s)[j] = Upto(s)[j - 1] + RawSize(s[j])
  BY UptoSums DEF Sums, Sized
<1>2. PICK a, b : x = <<a, b>> /\ a \in 1..Len(s) /\ b \in Nat /\ b \in 1..RawSize(s[a]) /\ n = Upto(s)[a - 1] + b
  BY DEF At
<1>3. RawSize(s[a]) \in Nat /\ a - 1 \in 0..Len(s) /\ k - 1 \in 0..Len(s) /\ a \in 0..Len(s) /\ k \in 0..Len(s)
  BY <1>1, <1>2 DEF Sized
<1>4. /\ Upto(s)[a] = Upto(s)[a - 1] + RawSize(s[a]) /\ Upto(s)[a - 1] < n /\ n <= Upto(s)[a]
      /\ Upto(s)[a] \in Nat /\ Upto(s)[a - 1] \in Nat /\ Upto(s)[k] \in Nat /\ Upto(s)[k - 1] \in Nat /\ n \in Nat
  <2>1. Upto(s)[a] \in Nat /\ Upto(s)[a - 1] \in Nat /\ Upto(s)[k] \in Nat /\ Upto(s)[k - 1] \in Nat
    BY <1>1, <1>3
  <2>2. Upto(s)[a] = Upto(s)[a - 1] + RawSize(s[a]) /\ b \in 1..RawSize(s[a]) /\ n = Upto(s)[a - 1] + b
    BY <1>1, <1>2
  <2> QED
    BY <1>3, <2>1, <2>2
<1>5. \A h, j \in 0..Len(s) : h < j => Upto(s)[h] <= Upto(s)[j]
  <2>1. ASSUME NEW h \in 0..Len(s), NEW j \in 0..Len(s), h < j PROVE Upto(s)[h] <= Upto(s)[j]
    <3>1. Upto(s)[h] + RawSize(s[h + 1]) <= Upto(s)[j]
      BY <2>1, UptoGrows
    <3>2. h + 1 \in 1..Len(s) /\ RawSize(s[h + 1]) \in Nat
      BY <1>1, <2>1 DEF Sized
    <3> QED
      BY <1>1, <3>1, <3>2
  <2> QED
    BY <2>1
<1>6. ~(a < k)
  <2>1. a < k => Upto(s)[a] <= Upto(s)[k - 1]
    <3>1. a < k => a = k - 1 \/ a < k - 1
      BY <1>2
    <3> QED
      BY <1>3, <1>4, <1>5, <3>1
  <2> QED
    BY <1>4, <2>1
<1>7. ~(k < a)
  <2>1. k < a => Upto(s)[k] <= Upto(s)[a - 1]
    <3>1. k < a => k = a - 1 \/ k < a - 1
      BY <1>2
    <3> QED
      BY <1>3, <1>4, <1>5, <3>1
  <2> QED
    BY <1>4, <2>1
<1>8. a = k
  BY <1>2, <1>6, <1>7
<1>9. b = n - Upto(s)[k - 1]
  BY <1>1, <1>2, <1>3, <1>8
<1> QED
  BY <1>2, <1>8, <1>9

LEMMA AtGrows ==
    ASSUME NEW s, NEW t, Sized(s), Sized(t), Len(s) <= Len(t), \A j \in 1..Len(s) : t[j] = s[j]
    PROVE  /\ \A j \in 0..Len(s) : Upto(t)[j] = Upto(s)[j]
           /\ \A x, n : At(s, x, n) => At(t, x, n)
<1>1. \A j \in 0..Len(s) : Upto(t)[0 + j] = Upto(t)[0] + Upto(s)[j]
  <2>1. PartOf(s, t, 0)
    BY DEF Sized, PartOf
  <2>2. Shifted(s, t, 0)
    BY <2>1, PartSums
  <2> QED
    BY <2>2 DEF Shifted
<1>2. Upto(t)[0] = 0 /\ Upto(s) \in [0..Len(s) -> Nat] /\ Len(s) \in Nat /\ Len(t) \in Nat
  BY UptoSums DEF Sums, Sized
<1>3. \A j \in 0..Len(s) : Upto(t)[j] = Upto(s)[j]
  <2> TAKE j \in 0..Len(s)
  <2>1. 0 + j = j /\ Upto(s)[j] \in Nat
    BY <1>2
  <2> QED
    BY <1>1, <1>2, <2>1
<1>4. ASSUME NEW x, NEW n, At(s, x, n) PROVE At(t, x, n)
  <2>1. PICK a, b : x = <<a, b>> /\ a \in 1..Len(s) /\ b \in Nat /\ b \in 1..RawSize(s[a]) /\ n = Upto(s)[a - 1] + b
    BY <1>4 DEF At
  <2>2. a \in 1..Len(t) /\ a - 1 \in 0..Len(s) /\ t[a] = s[a]
    BY <1>2, <2>1
  <2>3. n = Upto(t)[a - 1] + b /\ b \in 1..RawSize(t[a])
    BY <1>3, <2>1, <2>2
  <2> QED
    BY <2>1, <2>2, <2>3 DEF At
<1> QED
  BY <1>3, <1>4

\* Where the messages of the queue begin in the stream.
LEMMA QueueSums ==
    ASSUME NEW s, NEW q, Sized(s), Sized(q), QueueOf(q, s)
    PROVE  /\ Len(s) - Len(q) \in 0..Len(s)
           /\ \A j \in 0..Len(q) : Upto(s)[(Len(s) - Len(q)) + j] = Upto(s)[Len(s) - Len(q)] + Upto(q)[j]
           /\ QueueBytes(s) = Upto(s)[Len(s) - Len(q)] + QueueBytes(q)
<1>1. Len(s) \in Nat /\ Len(q) \in Nat /\ Len(q) <= Len(s)
  BY DEF Sized, QueueOf
<1>2. PICK K : K = Len(s) - Len(q)
  OBVIOUS
<1>3. K \in Nat /\ K \in 0..Len(s) /\ K + Len(q) <= Len(s) /\ K + Len(q) = Len(s)
  BY <1>1, <1>2
<1>4. \A j \in 1..Len(q) : RawSize(q[j]) = RawSize(s[K + j])
  BY <1>2 DEF QueueOf, RawSize
<1>5. \A j \in 0..Len(q) : Upto(s)[K + j] = Upto(s)[K] + Upto(q)[j]
  <2>1. PartOf(q, s, K)
    BY <1>3, <1>4 DEF PartOf
  <2>2. Shifted(q, s, K)
    BY <2>1, PartSums
  <2> QED
    BY <2>2 DEF Shifted
<1>6. Len(q) \in 0..Len(q)
  BY <1>1
<1>7. QueueBytes(s) = Upto(s)[K] + QueueBytes(q)
  BY <1>3, <1>5, <1>6 DEF QueueBytes
<1> QED
  BY <1>2, <1>3, <1>5, <1>7

\* The bytes of the queue are those of the stream.
LEMMA QueueBytesAt ==
    ASSUME NEW s, NEW q, Sized(s), Sized(q), QueueOf(q, s), NEW n \in 1..QueueBytes(q)
    PROVE  At(s, ByteAt(q, n), Upto(s)[Len(s) - Len(q)] + n)
<1>1. /\ Len(q) \in Nat /\ Upto(q) \in [0..Len(q) -> Nat] /\ \A j \in 1..Len(q) : Upto(q)[j] = Upto(q)[j - 1] + RawSize(q[j])
      /\ Len(s) \in Nat /\ Upto(s) \in [0..Len(s) -> Nat]
  BY UptoSums DEF Sums, Sized
<1>2. PICK j : j = Covered(q, n - 1)
  OBVIOUS
<1>3. n \in Nat /\ n - 1 \in Nat /\ n <= Upto(q)[Len(q)] /\ Upto(q)[Len(q)] \in Nat
  <2>1. Upto(q)[Len(q)] \in Nat
    BY <1>1
  <2> QED
    BY <2>1 DEF QueueBytes
<1>4. j \in 0..Len(q) /\ Upto(q)[j] <= n - 1 /\ (j < Len(q) => n - 1 < Upto(q)[j + 1])
  BY <1>2, <1>3, CoveredFacts
<1>5. j # Len(q)
  BY <1>3, <1>4
<1>6. j + 1 \in 1..Len(q) /\ (j + 1) - 1 = j
  BY <1>1, <1>4, <1>5
<1>7. Upto(q)[j] \in Nat /\ RawSize(q[j + 1]) \in Nat /\ Upto(q)[j + 1] = Upto(q)[j] + RawSize(q[j + 1])
  BY <1>1, <1>4, <1>6 DEF Sized
<1>8. n - Upto(q)[j] \in Nat /\ n - Upto(q)[j] \in 1..RawSize(q[j + 1])
  BY <1>1, <1>3, <1>4, <1>5, <1>7
<1>9. PICK K : K = Len(s) - Len(q)
  OBVIOUS
<1>10. K \in 0..Len(s) /\ Upto(s)[K + j] = Upto(s)[K] + Upto(q)[j] /\ Upto(s)[K] \in Nat
  BY <1>1, <1>4, <1>9, QueueSums
<1>11. q[j + 1].k = K + (j + 1) /\ RawSize(q[j + 1]) = RawSize(s[K + (j + 1)])
  BY <1>6, <1>9 DEF QueueOf, RawSize
<1>12. K + (j + 1) \in 1..Len(s) /\ (K + (j + 1)) - 1 = K + j
  BY <1>1, <1>4, <1>5, <1>9, <1>10
<1>13. PICK x : x = <<K + (j + 1), n - Upto(q)[j]>>
  OBVIOUS
<1>14. x[1] = K + (j + 1) /\ x[2] = n - Upto(q)[j] /\ x \in (1..Len(s)) \X Nat
  BY <1>8, <1>12, <1>13
<1>15. Upto(s)[K] + n = Upto(s)[x[1] - 1] + x[2]
  BY <1>3, <1>7, <1>10, <1>12, <1>14
<1>16. At(s, x, Upto(s)[K] + n)
  BY <1>8, <1>11, <1>14, <1>15 DEF At
<1>17. ByteAt(q, n) = x
  BY <1>2, <1>11, <1>13 DEF ByteAt
<1> QED
  BY <1>9, <1>16, <1>17

-----------------------------------------------------------------------------
(* The write queue. *)

Queues == Seq([k : 1..MaxSends, len : Nat])

LEMMA MessagesAreSized ==
    /\ \A q \in Queues : Sized(q)
    /\ \A s \in Seq(Messages) : Sized(s) /\ \A j \in DOMAIN s : s[j] \in Messages /\ s[j].len \in Nat /\ s[j].last \in BOOLEAN
<1>1. \A q \in Queues : Sized(q)
  <2> TAKE q \in Queues
  <2>1. Len(q) \in Nat /\ \A j \in 1..Len(q) : q[j] \in [k : 1..MaxSends, len : Nat]
    <3>1. q \in Seq([k : 1..MaxSends, len : Nat])
      BY DEF Queues
    <3>2. Len(q) \in Nat
      BY <3>1
    <3>3. \A j \in 1..Len(q) : q[j] \in [k : 1..MaxSends, len : Nat]
      BY <3>1, ElementOfSeq
    <3> QED
      BY <3>2, <3>3
  <2>2. \A j \in 1..Len(q) : q[j].len \in Nat
    BY <2>1
  <2> QED
    BY <2>1, <2>2, ConstantsAssumption DEF Sized, RawSize
<1>2. ASSUME NEW s \in Seq(Messages)
      PROVE  Sized(s) /\ \A j \in DOMAIN s : s[j] \in Messages /\ s[j].len \in Nat /\ s[j].last \in BOOLEAN
  <2>1. \A j \in DOMAIN s : s[j] \in Messages /\ s[j] \in [len : Nat, last : BOOLEAN]
    BY ConstantsAssumption
  <2>2. Len(s) \in Nat /\ DOMAIN s = 1..Len(s)
    OBVIOUS
  <2> QED
    BY <2>1, <2>2, ConstantsAssumption DEF Sized, RawSize
<1> QED
  BY <1>1, <1>2

LEMMA DropFacts ==
    ASSUME NEW T, NEW q \in Seq(T), NEW j \in 0..Len(q)
    PROVE  /\ Drop(q, j) \in Seq(T) /\ Len(Drop(q, j)) = Len(q) - j
           /\ \A h \in 1..(Len(q) - j) : Drop(q, j)[h] = q[j + h]
           /\ Take(q, j) \in Seq(T) /\ Len(Take(q, j)) = j
           /\ \A h \in 1..j : Take(q, j)[h] = q[h]
<1>1. Len(q) \in Nat /\ j \in Nat /\ j + 1 \in 1..(Len(q) + 1) /\ Len(q) \in j..Len(q) /\ \A h \in 1..Len(q) : q[h] \in T
  OBVIOUS
<1>2. Take(q, j) \in Seq(T) /\ Len(Take(q, j)) = j /\ \A h \in 1..j : Take(q, j)[h] = q[h]
  BY <1>1 DEF Take
<1>3. Drop(q, j) \in Seq(T) /\ Len(Drop(q, j)) = Len(q) - j
  BY <1>1 DEF Drop
<1>4. \A h \in 1..(Len(q) - j) : Drop(q, j)[h] = q[j + h]
  BY <1>1 DEF Drop
<1> QED
  BY <1>2, <1>3, <1>4

LEMMA PopFacts ==
    ASSUME NEW q \in Queues, NEW start \in Nat, NEW size, Counted(q, size, start), NEW n \in Nat, n <= size,
           NEW s, Sized(s), QueueOf(q, s), q # <<>>
    PROVE  /\ PopWbytes(q, start, n).queue \in Queues /\ PopWbytes(q, start, n).start \in Nat
           /\ Counted(PopWbytes(q, start, n).queue, size - n, PopWbytes(q, start, n).start)
           /\ QueueOf(PopWbytes(q, start, n).queue, s)
<1>1. Sized(q) /\ q \in Seq([k : 1..MaxSends, len : Nat])
  BY MessagesAreSized DEF Queues
<1>2. /\ Len(q) \in Nat /\ Upto(q) \in [0..Len(q) -> Nat] /\ Upto(q)[0] = 0 /\ Len(q) \in 0..Len(q)
      /\ \A j \in 1..Len(q) : Upto(q)[j] = Upto(q)[j - 1] + RawSize(q[j])
  BY <1>1, UptoSums DEF Sums, Sized
<1>3. PICK j : j = Covered(q, start + n)
  OBVIOUS
<1>4. j \in 0..Len(q) /\ Upto(q)[j] <= start + n /\ (j < Len(q) => start + n < Upto(q)[j + 1])
  <2>1. start + n \in Nat
    OBVIOUS
  <2> QED
    BY <1>1, <1>3, <2>1, CoveredFacts
<1>5. Upto(q)[j] \in Nat /\ Upto(q)[Len(q)] \in Nat /\ size = Upto(q)[Len(q)] - start
  BY <1>2, <1>4 DEF Counted, QueueBytes
<1>6. PICK d : d = Drop(q, j)
  OBVIOUS
<1>7. d \in Queues /\ Len(d) = Len(q) - j /\ (\A h \in 1..Len(d) : d[h] = q[j + h]) /\ Len(d) \in Nat
  <2>1. d \in Seq([k : 1..MaxSends, len : Nat]) /\ Len(d) = Len(q) - j /\ \A h \in 1..(Len(q) - j) : d[h] = q[j + h]
    BY <1>1, <1>4, <1>6, DropFacts
  <2> QED
    BY <1>2, <1>4, <2>1 DEF Queues
<1>8. PopWbytes(q, start, n) = [queue |-> d, start |-> start + n - Upto(q)[j]]
  BY <1>3, <1>6 DEF PopWbytes
<1>9. PICK t : t = start + n - Upto(q)[j]
  OBVIOUS
<1>10. t \in Nat
  BY <1>4, <1>5, <1>9
<1>11. Sized(d)
  BY <1>7, MessagesAreSized
<1>12. QueueBytes(d) = Upto(q)[Len(q)] - Upto(q)[j] /\ Upto(d)[Len(d)] \in Nat
  <2>1. PartOf(d, q, j)
    BY <1>2, <1>4, <1>7 DEF PartOf
  <2>2. Shifted(d, q, j)
    BY <1>1, <1>11, <2>1, PartSums
  <2>3. Upto(d)[Len(d)] \in Nat /\ Len(d) \in 0..Len(d) /\ j + Len(d) = Len(q)
    <3>1. Len(d) \in 0..Len(d) /\ j + Len(d) = Len(q)
      <4>1. Len(d) \in Nat /\ Len(d) = Len(q) - j /\ j \in 0..Len(q) /\ Len(q) \in Nat
        BY <1>2, <1>4, <1>7
      <4> QED
        BY <4>1
    <3>2. Upto(d) \in [0..Len(d) -> Nat]
      BY <1>11, UptoSums DEF Sums
    <3> QED
      BY <3>1, <3>2
  <2>4. Upto(q)[Len(q)] = Upto(q)[j] + Upto(d)[Len(d)]
    BY <2>2, <2>3 DEF Shifted
  <2> QED
    BY <1>5, <2>3, <2>4 DEF QueueBytes
<1>13. Counted(d, size - n, t)
  <2>1. size - n = QueueBytes(d) - t
    BY <1>5, <1>9, <1>12
  <2>2. CASE d = <<>>
    <3>1. j = Len(q)
      BY <1>2, <1>4, <1>7, <2>2
    <3>2. t = 0
      BY <1>4, <1>5, <1>9, <3>1
    <3> QED
      BY <2>1, <2>2, <3>2 DEF Counted
  <2>3. CASE d # <<>>
    <3>1. Len(d) # 0
      BY <1>7, <2>3 DEF Queues
    <3>2. j < Len(q) /\ j + 1 \in 1..Len(q) /\ (j + 1) - 1 = j /\ Head(d) = q[j + 1]
      BY <1>2, <1>4, <1>7, <3>1, <2>3 DEF Queues
    <3>3. Upto(q)[j + 1] = Upto(q)[j] + RawSize(q[j + 1]) /\ start + n < Upto(q)[j + 1] /\ RawSize(q[j + 1]) \in Nat
      BY <1>1, <1>2, <1>4, <3>2 DEF Sized
    <3>4. t < RawSize(Head(d))
      BY <1>5, <1>9, <3>2, <3>3
    <3> QED
      BY <2>1, <2>3, <3>4 DEF Counted
  <2> QED
    BY <2>2, <2>3
<1>14. QueueOf(d, s)
  <2>1. Len(s) \in Nat /\ Len(q) <= Len(s) /\ Len(d) <= Len(s)
    BY <1>2, <1>4, <1>7 DEF QueueOf, Sized
  <2>2. ASSUME NEW h \in 1..Len(d)
        PROVE  d[h].k = Len(s) - Len(d) + h /\ d[h].len = s[Len(s) - Len(d) + h].len
    <3>1. j + h \in 1..Len(q) /\ d[h] = q[j + h]
      BY <1>2, <1>4, <1>7
    <3>2. q[j + h].k = Len(s) - Len(q) + (j + h) /\ q[j + h].len = s[Len(s) - Len(q) + (j + h)].len
      BY <3>1 DEF QueueOf
    <3>3. Len(s) - Len(d) + h = Len(s) - Len(q) + (j + h)
      BY <1>2, <1>4, <1>7, <2>1
    <3> QED
      BY <3>1, <3>2, <3>3
  <2> QED
    BY <2>1, <2>2 DEF QueueOf
<1> QED
  BY <1>7, <1>8, <1>9, <1>10, <1>13, <1>14

Wire == Seq((1..MaxSends) \X Nat)

LEMMA EmptyQueue ==
    ASSUME NEW s, Sized(s)
    PROVE  <<>> \in Queues /\ QueueOf(<<>>, s) /\ Counted(<<>>, 0, 0) /\ QueueBytes(<<>>) = 0
<1>1. <<>> \in Queues
  BY DEF Queues
<1>2. Sized(<<>>)
  BY <1>1, MessagesAreSized
<1>3. Upto(<<>>)[0] = 0
  BY <1>2, UptoSums DEF Sums
<1>4. QueueBytes(<<>>) = 0
  BY <1>3 DEF QueueBytes
<1> QED
  BY <1>1, <1>4 DEF QueueOf, Counted, Sized

\* What writev is offered are the first bytes of the queue behind wstart_.
LEMMA OfferedFacts ==
    ASSUME NEW s, Sized(s), Len(s) <= MaxSends, NEW q \in Queues, QueueOf(q, s), NEW start \in Nat, NEW size,
           Counted(q, size, start)
    PROVE  /\ q # <<>> => size \in Nat
           /\ Offered(q, start) \in Wire
           /\ Offered(q, start) # <<>> => q # <<>> /\ Len(Offered(q, start)) <= size
           /\ Piece(s, QueueBytes(s) - size, Offered(q, start))
<1>1. Sized(q) /\ Len(q) \in Nat /\ Len(s) \in Nat
  BY MessagesAreSized DEF Sized
<1>2. /\ Upto(q) \in [0..Len(q) -> Nat] /\ Upto(q)[0] = 0 /\ \A j \in 1..Len(q) : Upto(q)[j] = Upto(q)[j - 1] + RawSize(q[j])
      /\ QueueBytes(q) \in Nat
  BY <1>1, UptoSums DEF Sums, QueueBytes
<1>3. PICK K : K = Len(s) - Len(q)
  OBVIOUS
<1>4. K \in 0..Len(s) /\ Upto(s)[K] \in Nat /\ QueueBytes(s) = Upto(s)[K] + QueueBytes(q)
  BY <1>1, <1>3, QueueSums, UptoSums DEF Sums
<1>5. size = QueueBytes(q) - start /\ QueueBytes(s) - size = Upto(s)[K] + start
  BY <1>2, <1>4 DEF Counted
<1>6. PICK z : z = Upto(q)[Least(MaxIov, Len(q))]
  OBVIOUS
<1>7. Least(MaxIov, Len(q)) \in 0..Len(q)
  BY <1>1, ConstantsAssumption DEF Least
<1>8. z \in Nat /\ z <= QueueBytes(q)
  <2>1. z \in Nat
    BY <1>2, <1>6, <1>7
  <2>2. CASE Least(MaxIov, Len(q)) = Len(q)
    BY <1>2, <1>6, <2>2 DEF QueueBytes
  <2>3. CASE Least(MaxIov, Len(q)) # Len(q)
    <3>1. Least(MaxIov, Len(q)) < Len(q) /\ Len(q) \in 0..Len(q)
      BY <1>1, <1>7, <2>3
    <3>2. z + RawSize(q[Least(MaxIov, Len(q)) + 1]) <= Upto(q)[Len(q)]
      BY <1>1, <1>6, <1>7, <3>1, UptoGrows
    <3>3. RawSize(q[Least(MaxIov, Len(q)) + 1]) \in Nat
      <4>1. Least(MaxIov, Len(q)) + 1 \in 1..Len(q)
        BY <1>1, <1>7, <3>1
      <4> QED
        BY <1>1, <4>1 DEF Sized
    <3> QED
      BY <1>2, <2>1, <3>2, <3>3 DEF QueueBytes
  <2> QED
    BY <2>1, <2>2, <2>3
<1>9. PICK o : o = Offered(q, start)
  OBVIOUS
<1>10. o = [n \in 1..(z - start) |-> ByteAt(q, start + n)]
  BY <1>6, <1>9 DEF Offered
<1>11. ASSUME NEW n \in 1..(z - start)
       PROVE  At(s, o[n], (QueueBytes(s) - size) + n) /\ o[n] \in (1..MaxSends) \X Nat
  <2>1. start + n \in 1..QueueBytes(q) /\ n \in Nat
    BY <1>2, <1>8
  <2>2. At(s, ByteAt(q, start + n), Upto(s)[K] + (start + n))
    BY <1>1, <1>3, <2>1, QueueBytesAt
  <2>3. Upto(s)[K] + (start + n) = (QueueBytes(s) - size) + n
    BY <1>4, <1>5, <2>1
  <2>4. o[n] = ByteAt(q, start + n)
    BY <1>10
  <2>5. At(s, o[n], (QueueBytes(s) - size) + n)
    BY <2>2, <2>3, <2>4
  <2>6. 1..Len(s) \subseteq 1..MaxSends
    BY <1>1, ConstantsAssumption
  <2> QED
    BY <2>5, <2>6 DEF At
<1>12. z - start \in Int /\ (z - start >= 0 => Len(o) = z - start) /\ (z - start < 0 => Len(o) = 0) /\ DOMAIN o = 1..Len(o)
  <2>1. CASE z - start >= 0
    <3>1. z - start \in Nat
      BY <1>8, <2>1
    <3> QED
      BY <1>10, <2>1, <3>1
  <2>2. CASE z - start < 0
    <3>1. 1..(z - start) = {} /\ 1..0 = {}
      BY <1>8, <2>2
    <3>2. DOMAIN o = 1..0
      BY <1>10, <3>1
    <3>3. o = [n \in 1..0 |-> ByteAt(q, start + n)]
      BY <1>10, <3>1
    <3>4. Len(o) = 0
      BY <3>3
    <3> QED
      BY <1>8, <2>2, <3>2, <3>4
  <2> QED
    BY <1>8, <2>1, <2>2
<1>13. Piece(s, QueueBytes(s) - size, o)
  <2> SUFFICES ASSUME NEW n \in 1..Len(o) PROVE At(s, o[n], (QueueBytes(s) - size) + n)
    BY DEF Piece
  <2>1. n \in 1..(z - start)
    BY <1>12
  <2> QED
    BY <1>11, <2>1
<1>14. o \in Wire
  <2>1. \A n \in 1..Len(o) : o[n] \in (1..MaxSends) \X Nat
    BY <1>11, <1>12
  <2>2. Len(o) \in Nat
    BY <1>12
  <2>3. o = [n \in 1..Len(o) |-> o[n]]
    BY <1>10, <1>12
  <2> QED
    BY <2>1, <2>2, <2>3 DEF Wire
<1>15. ASSUME q # <<>> PROVE size \in Nat
  <2>1. Len(q) \in 1..Len(q) /\ 1 \in 1..Len(q) /\ Head(q) = q[1]
    BY <1>1, <1>15 DEF Queues
  <2>2. Upto(q)[1] = RawSize(q[1]) /\ start < RawSize(q[1]) /\ RawSize(q[1]) \in Nat
    BY <1>1, <1>2, <1>15, <2>1 DEF Counted, Sized
  <2>3. Upto(q)[1] <= QueueBytes(q)
    <3>1. CASE Len(q) = 1
      BY <1>2, <3>1 DEF QueueBytes
    <3>2. CASE Len(q) # 1
      <4>1. 1 \in 0..Len(q) /\ Len(q) \in 0..Len(q) /\ 1 < Len(q) /\ 1 + 1 \in 1..Len(q)
        <5>1. Len(q) \in Nat /\ 1 <= Len(q) /\ Len(q) # 1
          BY <1>1, <2>1, <3>2
        <5>2. \A n \in Nat : 1 <= n /\ n # 1 => 1 \in 0..n /\ n \in 0..n /\ 1 < n /\ 1 + 1 \in 1..n
          OBVIOUS
        <5> QED
          BY <5>1, <5>2
      <4>2. Upto(q)[1] + RawSize(q[1 + 1]) <= Upto(q)[Len(q)]
        BY <1>1, <4>1, UptoGrows
      <4>3. RawSize(q[1 + 1]) \in Nat
        BY <1>1, <4>1 DEF Sized
      <4> QED
        BY <1>2, <2>2, <4>2, <4>3 DEF QueueBytes
    <3> QED
      BY <3>1, <3>2
  <2> QED
    BY <1>2, <1>5, <2>2, <2>3
<1>16. ASSUME o # <<>> PROVE q # <<>> /\ Len(o) <= size
  <2>1. Len(o) # 0
    BY <1>14, <1>16 DEF Wire
  <2>2. Len(o) = z - start /\ z - start > 0
    BY <1>12, <2>1
  <2>3. q # <<>>
    <3>1. q = <<>> => Len(q) = 0
      OBVIOUS
    <3>2. q = <<>> => z = 0
      BY <1>2, <1>6, <1>7, <3>1
    <3> QED
      BY <2>2, <3>2
  <2> QED
    BY <1>2, <1>5, <1>8, <2>2, <2>3
<1> QED
  BY <1>9, <1>13, <1>14, <1>15, <1>16

\* Pieces of the stream can be joined and cut.
LEMMA PieceFacts ==
    ASSUME NEW s, NEW base \in Nat, NEW b \in Wire, Piece(s, base, b)
    PROVE  /\ \A c \in Wire : Piece(s, base + Len(b), c) => Piece(s, base, b \o c)
           /\ \A n \in 0..Len(b) : Piece(s, base, Take(b, n)) /\ Piece(s, base + n, Drop(b, n))
<1>1. b \in Seq((1..MaxSends) \X Nat) /\ Len(b) \in Nat
  BY DEF Wire
<1>2. ASSUME NEW c \in Wire, Piece(s, base + Len(b), c) PROVE Piece(s, base, b \o c)
  <2>1. c \in Seq((1..MaxSends) \X Nat) /\ Len(c) \in Nat
    BY DEF Wire
  <2>2. /\ Len(b \o c) = Len(b) + Len(c)
        /\ \A n \in 1..(Len(b) + Len(c)) : (b \o c)[n] = IF n <= Len(b) THEN b[n] ELSE c[n - Len(b)]
    BY <1>1, <2>1, ConcatProperties
  <2>3. ASSUME NEW n \in 1..(Len(b) + Len(c)) PROVE At(s, (b \o c)[n], base + n)
    <3>1. CASE n <= Len(b)
      <4>1. n \in 1..Len(b) /\ (b \o c)[n] = b[n]
        BY <1>1, <2>1, <2>2, <3>1
      <4> QED
        BY <4>1 DEF Piece
    <3>2. CASE ~(n <= Len(b))
      <4>1. n - Len(b) \in 1..Len(c) /\ (b \o c)[n] = c[n - Len(b)] /\ (base + Len(b)) + (n - Len(b)) = base + n
        BY <1>1, <2>1, <2>2, <3>2
      <4> QED
        BY <1>2, <4>1 DEF Piece
    <3> QED
      BY <3>1, <3>2
  <2> QED
    BY <2>2, <2>3 DEF Piece
<1>3. ASSUME NEW n \in 0..Len(b) PROVE Piece(s, base, Take(b, n)) /\ Piece(s, base + n, Drop(b, n))
  <2>1. /\ Len(Take(b, n)) = n /\ Len(Drop(b, n)) = Len(b) - n
        /\ \A h \in 1..n : Take(b, n)[h] = b[h]
        /\ \A h \in 1..(Len(b) - n) : Drop(b, n)[h] = b[n + h]
    BY <1>1, DropFacts
  <2>2. ASSUME NEW h \in 1..n PROVE At(s, Take(b, n)[h], base + h)
    <3>1. h \in 1..Len(b)
      BY <1>1
    <3> QED
      BY <2>1, <3>1 DEF Piece
  <2>3. ASSUME NEW h \in 1..(Len(b) - n) PROVE At(s, Drop(b, n)[h], (base + n) + h)
    <3>1. n + h \in 1..Len(b) /\ base + (n + h) = (base + n) + h
      BY <1>1
    <3>2. At(s, b[n + h], base + (n + h))
      BY <3>1 DEF Piece
    <3> QED
      BY <2>1, <3>1, <3>2
  <2> QED
    BY <2>1, <2>2, <2>3 DEF Piece
<1> QED
  BY <1>2, <1>3

\* However much writev takes, the bytes it takes are the next ones of the stream.
LEMMA OutputStep ==
    ASSUME TypeOK, NEW s \in Seq(Messages), Len(s) <= MaxSends, NEW base \in Nat,
           NEW q \in Queues, NEW size, NEW cbset \in BOOLEAN, wcb = cbset,
           Flow(s, base, net, q, size, wstart, wfail), Output(q, size, cbset)
    PROVE  /\ wqueue' \in Queues /\ wsize' \in Nat /\ wstart' \in Nat /\ wfail' \in BOOLEAN /\ wcb' \in BOOLEAN
           /\ net' \in Wire /\ Len(net') <= Capacity
           /\ wcb' => wsize' > 0 \/ wfail'
           /\ Flow(s, base, net', wqueue', wsize', wstart', wfail')
<1>a. Sized(s) /\ Sized(q) /\ Len(s) \in Nat
  BY MessagesAreSized DEF Sized
<1>b. wstart \in Nat /\ wfail \in BOOLEAN /\ wcb \in BOOLEAN /\ net \in Wire /\ Len(net) \in Nat /\ Len(net) <= Capacity
  BY DEF TypeOK, Wire
<1>c. /\ QueueOf(q, s) /\ Counted(q, size, wstart) /\ Piece(s, base, net)
      /\ base + Len(net) <= QueueBytes(s)
      /\ IF wfail THEN q = <<>> ELSE base + Len(net) = QueueBytes(s) - size
  BY DEF Flow
<1>d. PICK o : o = Offered(q, wstart)
  OBVIOUS
<1>e. /\ q # <<>> => size \in Nat
      /\ o \in Wire /\ o \in Seq((1..MaxSends) \X Nat) /\ Len(o) \in Nat /\ (Len(o) > 0 => o # <<>>)
      /\ o # <<>> => q # <<>> /\ Len(o) <= size
      /\ Piece(s, QueueBytes(s) - size, o)
  <2>1. o \in Wire
    BY <1>a, <1>b, <1>c, <1>d, OfferedFacts
  <2>2. Len(o) \in Nat /\ (Len(o) > 0 => o # <<>>) /\ o \in Seq((1..MaxSends) \X Nat)
    BY <2>1 DEF Wire
  <2> QED
    BY <1>a, <1>b, <1>c, <1>d, <2>1, <2>2, OfferedFacts
<1>f. QueueBytes(s) \in Nat
  <2>1. Upto(s) \in [0..Len(s) -> Nat] /\ Len(s) \in 0..Len(s)
    BY <1>a, UptoSums DEF Sums
  <2> QED
    BY <2>1 DEF QueueBytes
<1>1. CASE \E n \in 1..Least(Len(o), Capacity - Len(net)) :
              /\ net' = net \o Take(o, n)
              /\ LET p == PopWbytes(q, wstart, n) IN wqueue' = p.queue /\ wstart' = p.start
              /\ wsize' = size - n
              /\ wcb' = WriteCallback(wsize', cbset)
              /\ UNCHANGED wfail
  <2>1. PICK n \in 1..Least(Len(o), Capacity - Len(net)) :
              /\ net' = net \o Take(o, n)
              /\ wqueue' = PopWbytes(q, wstart, n).queue /\ wstart' = PopWbytes(q, wstart, n).start
              /\ wsize' = size - n
              /\ wcb' = WriteCallback(wsize', cbset)
              /\ UNCHANGED wfail
    BY <1>1
  <2>2. n \in Nat /\ n <= Len(o) /\ n <= Capacity - Len(net) /\ n \in 0..Len(o) /\ 1 <= n
    BY <1>b, <1>e, ConstantsAssumption DEF Least
  <2>3. q # <<>> /\ n <= size /\ size \in Nat /\ ~wfail /\ base + Len(net) = QueueBytes(s) - size
    BY <1>c, <1>e, <2>2
  <2>4. wqueue' \in Queues /\ wstart' \in Nat /\ Counted(wqueue', wsize', wstart') /\ QueueOf(wqueue', s)
    BY <1>a, <1>b, <1>c, <2>1, <2>2, <2>3, PopFacts
  <2>5. wsize' \in Nat
    BY <2>1, <2>2, <2>3
  <2>6. wfail' = FALSE
    BY <2>1, <2>3, <1>b
  <2>7. Take(o, n) \in Wire /\ Len(Take(o, n)) = n
    BY <1>e, <2>2, DropFacts DEF Wire
  <2>8. net' \in Wire /\ Len(net') = Len(net) + n
    <3>1. net \in Seq((1..MaxSends) \X Nat) /\ Take(o, n) \in Seq((1..MaxSends) \X Nat)
      BY <1>b, <2>7 DEF Wire
    <3> QED
      BY <2>1, <2>7, <3>1, ConcatProperties DEF Wire
  <2>9. Len(net') <= Capacity
    BY <1>b, <2>2, <2>8, ConstantsAssumption
  <2>10. Piece(s, base, net')
    <3>1. QueueBytes(s) - size \in Nat
      BY <2>3, <1>b
    <3>2. Piece(s, base + Len(net), Take(o, n))
      BY <1>e, <2>2, <2>3, <3>1, PieceFacts
    <3> QED
      BY <1>b, <1>c, <2>1, <2>7, <3>2, PieceFacts
  <2>11. base + Len(net') = QueueBytes(s) - wsize' /\ base + Len(net') <= QueueBytes(s)
    <3>1. wsize' = size - n /\ Len(net') = Len(net) + n
      BY <2>1, <2>8
    <3>2. \A t, l \in Nat : base + l = t - size => base + (l + n) = t - (size - n) /\ base + (l + n) <= t
      BY <2>2, <2>3
    <3> QED
      BY <1>b, <1>f, <2>3, <3>1, <3>2
  <2>12. wcb' \in BOOLEAN /\ (wcb' => wsize' > 0)
    <3>1. wcb' = (CASE wsize' > 0 /\ ~cbset -> TRUE [] wsize' = 0 /\ cbset -> FALSE [] OTHER -> wcb)
      BY <2>1 DEF WriteCallback
    <3>2. CASE wsize' > 0
      <4>1. wsize' # 0
        BY <2>5, <3>2
      <4>2. wcb' = TRUE
        BY <3>1, <3>2, <4>1
      <4> QED
        BY <3>2, <4>2
    <3>3. CASE ~(wsize' > 0)
      <4>1. wsize' = 0
        BY <2>5, <3>3
      <4>2. wcb' = FALSE
        BY <3>1, <3>3, <4>1
      <4> QED
        BY <4>2
    <3> QED
      BY <3>2, <3>3
  <2>13. Flow(s, base, net', wqueue', wsize', wstart', wfail')
    BY <2>4, <2>6, <2>10, <2>11 DEF Flow
  <2> QED
    BY <2>4, <2>5, <2>6, <2>8, <2>9, <2>12, <2>13
<1>2. CASE /\ o # <<>> /\ Len(net) = Capacity
           /\ wqueue' = q /\ wsize' = size
           /\ UNCHANGED <<net, wstart, wcb, wfail>>
  <2>1. size \in Nat /\ size > 0
    <3>1. Len(o) > 0
      BY <1>2, <1>e
    <3> QED
      BY <1>2, <1>e, <3>1
  <2>2. Flow(s, base, net', wqueue', wsize', wstart', wfail')
    BY <1>2
  <2> QED
    BY <1>b, <1>2, <2>1, <2>2
<1>3. CASE /\ wfail' = TRUE /\ wqueue' = <<>> /\ wsize' = 0 /\ wstart' = 0
           /\ UNCHANGED <<net, wcb>>
  <2>1. <<>> \in Queues /\ QueueOf(<<>>, s) /\ Counted(<<>>, 0, 0)
    BY <1>a, EmptyQueue
  <2>2. Flow(s, base, net', wqueue', wsize', wstart', wfail')
    BY <1>3, <1>c, <2>1 DEF Flow
  <2> QED
    BY <1>b, <1>3, <2>1, <2>2
<1> QED
  BY <1>1, <1>2, <1>3, <1>d DEF Output

-----------------------------------------------------------------------------
(* The state between two steps. *)

SendTypes ==
    /\ sent \in Seq(Messages) /\ wqueue \in Queues /\ wsize \in Nat /\ wstart \in Nat
    /\ wfail \in BOOLEAN /\ wcb \in BOOLEAN /\ closed \in BOOLEAN

RecvTypes ==
    /\ net \in Wire /\ Len(net) <= Capacity
    /\ ipc \in {"poll", "loop", "parse"} /\ i \in 0..2
    /\ rdlen \in 1..MaxMsgLen \cup {NoMsg} /\ rbuf \in Wire
    /\ rcb \in BOOLEAN /\ destroyed \in BOOLEAN
    /\ rfail \in {"no", "eof", "framing", "alloc"}
    /\ got \in Seq(0..MaxSends)

LEMMA Types == TypeOK <=> SendTypes /\ RecvTypes /\ Wanted >= 0
  BY DEF TypeOK, SendTypes, RecvTypes, Queues, Wire

\* The pieces that the kernels and the receiver hold.
Pieces == Piece(sent, Pos, rbuf) /\ Piece(sent, Pos + Len(rbuf), net)

\* The receiver's state, numbers only.
LEMMA Numbers ==
    ASSUME SendTypes, RecvTypes, Len(got) <= Len(sent)
    PROVE  /\ Sized(sent) /\ Len(got) \in Nat /\ Len(sent) \in Nat /\ Len(rbuf) \in Nat /\ Len(net) \in Nat
           /\ Len(got) \in 0..Len(sent) /\ Upto(sent)[Len(got)] \in Nat /\ Pos \in Nat /\ QueueBytes(sent) \in Nat
           /\ rdlen # NoMsg => rdlen \in Nat /\ rdlen \in 1..MaxMsgLen
           /\ Hdr \in Nat /\ Hdr >= 1
<1>1. Sized(sent) /\ Len(got) \in Nat /\ Len(sent) \in Nat /\ Len(rbuf) \in Nat /\ Len(net) \in Nat
  BY MessagesAreSized DEF SendTypes, RecvTypes, Wire
<1>2. Upto(sent) \in [0..Len(sent) -> Nat] /\ Len(got) \in 0..Len(sent) /\ Len(sent) \in 0..Len(sent)
  BY <1>1, UptoSums DEF Sums
<1>3. Upto(sent)[Len(got)] \in Nat /\ QueueBytes(sent) \in Nat
  BY <1>2 DEF QueueBytes
<1>4. Pos \in Nat
  BY <1>3, ConstantsAssumption DEF Pos
<1>5. rdlen # NoMsg => rdlen \in Nat /\ rdlen \in 1..MaxMsgLen
  BY ConstantsAssumption DEF RecvTypes
<1> QED
  BY <1>1, <1>2, <1>3, <1>4, <1>5, ConstantsAssumption

LEMMA WantedFacts ==
    ASSUME RecvTypes, ReadInv
    PROVE  Wanted \in Nat /\ (rdlen # NoMsg => Wanted > 0)
<1>1. Len(rbuf) \in Nat /\ Hdr \in Nat \ {0} /\ (rdlen # NoMsg => rdlen \in Nat)
  BY ConstantsAssumption DEF RecvTypes, Wire
<1>2. rdlen = NoMsg => Wanted = Hdr - Len(rbuf) /\ Len(rbuf) <= Hdr
  BY <1>1 DEF Wanted, ReadInv
<1>3. rdlen # NoMsg => Wanted = rdlen + Hdr - Len(rbuf) /\ Len(rbuf) < rdlen
  BY <1>1 DEF Wanted, ReadInv
<1> QED
  BY <1>1, <1>2, <1>3

\* As long as there are bytes or a message is being read, one more has been sent.
LEMMA NextMessage ==
    ASSUME IInv, Len(rbuf) + Len(net) > 0 \/ rdlen # NoMsg
    PROVE  /\ Len(got) < Len(sent) /\ Len(got) + 1 \in 1..Len(sent)
           /\ sent[Len(got) + 1] \in Messages /\ sent[Len(got) + 1].len \in Nat /\ sent[Len(got) + 1].last \in BOOLEAN
           /\ Upto(sent)[Len(got) + 1] = Upto(sent)[Len(got)] + Hdr + sent[Len(got) + 1].len
<1>a. SendTypes /\ RecvTypes /\ Len(got) <= Len(sent)
  BY Types DEF IInv, StreamInv
<1>b. /\ Sized(sent) /\ Len(got) \in Nat /\ Len(sent) \in Nat /\ Len(rbuf) \in Nat /\ Len(net) \in Nat
      /\ Upto(sent)[Len(got)] \in Nat /\ Pos \in Nat /\ QueueBytes(sent) \in Nat
  BY <1>a, Numbers
<1>1. Len(got) < Len(sent)
  <2>1. CASE rdlen # NoMsg
    BY <2>1 DEF IInv, ReadInv
  <2>2. CASE rdlen = NoMsg /\ Len(got) = Len(sent)
    <3>1. Pos = QueueBytes(sent)
      BY <1>b, <2>2 DEF Pos, QueueBytes
    <3>2. Pos + Len(rbuf) + Len(net) <= QueueBytes(sent)
      BY DEF IInv, StreamInv, Flow
    <3> QED
      BY <1>b, <2>2, <3>1, <3>2
  <2> QED
    BY <1>a, <1>b, <2>1, <2>2
<1>2. Len(got) + 1 \in 1..Len(sent) /\ (Len(got) + 1) - 1 = Len(got)
  BY <1>b, <1>1
<1>3. Upto(sent)[Len(got) + 1] = Upto(sent)[Len(got)] + RawSize(sent[Len(got) + 1])
  BY <1>b, <1>2, UptoSums DEF Sums
<1>4. sent[Len(got) + 1] \in Messages /\ sent[Len(got) + 1].len \in Nat /\ sent[Len(got) + 1].last \in BOOLEAN
  BY <1>a, <1>b, <1>2, MessagesAreSized DEF SendTypes
<1>5. RawSize(sent[Len(got) + 1]) = Hdr + sent[Len(got) + 1].len
  BY DEF RawSize
<1> QED
  BY <1>b, <1>1, <1>2, <1>3, <1>4, <1>5, ConstantsAssumption

\* What the n-th byte of the next message is.
LEMMA NextByte ==
    ASSUME IInv, Len(got) < Len(sent), NEW x, NEW n \in 1..(Hdr + sent[Len(got) + 1].len),
           At(sent, x, Upto(sent)[Len(got)] + n)
    PROVE  x = <<Len(got) + 1, n>>
<1>a. SendTypes /\ RecvTypes /\ Len(got) <= Len(sent)
  BY Types DEF IInv, StreamInv
<1>b. /\ Sized(sent) /\ Len(got) \in Nat /\ Len(sent) \in Nat /\ Upto(sent)[Len(got)] \in Nat
  BY <1>a, Numbers
<1>1. PICK k : k = Len(got) + 1
  OBVIOUS
<1>2. k \in 1..Len(sent) /\ k - 1 = Len(got)
  BY <1>1, <1>b
<1>3. Upto(sent)[k] = Upto(sent)[k - 1] + RawSize(sent[k])
  BY <1>b, <1>2, UptoSums DEF Sums
<1>4. sent[k].len \in Nat /\ RawSize(sent[k]) = Hdr + sent[k].len
  BY <1>a, <1>b, <1>2, MessagesAreSized DEF SendTypes, RawSize
<1>5. n \in Nat /\ 1 <= n /\ n <= Hdr + sent[k].len
  BY <1>1, <1>4, ConstantsAssumption
<1>6. PICK p : p = Upto(sent)[k - 1] + n
  OBVIOUS
<1>7. Upto(sent)[k - 1] < p /\ p <= Upto(sent)[k] /\ p - Upto(sent)[k - 1] = n
  BY <1>b, <1>2, <1>3, <1>4, <1>5, <1>6, ConstantsAssumption
<1>8. At(sent, x, p)
  BY <1>2, <1>6
<1>9. x = <<k, p - Upto(sent)[k - 1]>>
  BY <1>b, <1>2, <1>7, <1>8, AtUnique
<1> QED
  BY <1>1, <1>7, <1>9

\* A whole length word is that of the next message.
LEMMA WordFacts ==
    ASSUME IInv, rdlen = NoMsg, Len(rbuf) = Hdr
    PROVE  /\ Len(got) < Len(sent) /\ Next_k = Len(got) + 1 /\ NextLen = sent[Len(got) + 1]
           /\ NextLen.len \in Nat /\ NextLen.last \in BOOLEAN
<1>a. SendTypes /\ RecvTypes /\ Len(got) <= Len(sent) /\ Piece(sent, Pos, rbuf) /\ Pos = Upto(sent)[Len(got)]
  <2>1. SendTypes /\ RecvTypes /\ Len(got) <= Len(sent) /\ Piece(sent, Pos, rbuf)
    BY Types DEF IInv, StreamInv
  <2> QED
    BY <2>1, Numbers DEF Pos
<1>b. Len(net) \in Nat /\ Len(rbuf) \in Nat /\ Hdr \in Nat /\ Hdr >= 1 /\ rbuf \in Wire /\ Len(got) \in Nat
  BY <1>a, Numbers DEF RecvTypes
<1>1. Len(got) < Len(sent) /\ sent[Len(got) + 1].len \in Nat /\ sent[Len(got) + 1].last \in BOOLEAN
  BY <1>b, NextMessage
<1>2. ASSUME NEW n \in 1..Hdr PROVE rbuf[n] = <<Len(got) + 1, n>>
  <2>1. At(sent, rbuf[n], Upto(sent)[Len(got)] + n)
    BY <1>a DEF Piece
  <2>2. n \in 1..(Hdr + sent[Len(got) + 1].len)
    BY <1>b, <1>1
  <2> QED
    BY <1>1, <2>1, <2>2, NextByte
<1>3. 1 \in 1..Hdr /\ rbuf[1][1] = Len(got) + 1
  <2>1. 1 \in 1..Hdr
    BY <1>b
  <2> QED
    BY <1>2, <2>1
<1>4. rbuf = [n \in 1..Hdr |-> <<Len(got) + 1, n>>]
  <2>1. rbuf = [n \in 1..Hdr |-> rbuf[n]]
    BY <1>b DEF Wire
  <2> QED
    BY <1>2, <2>1
<1>5. Next_k = Len(got) + 1
  BY <1>3, <1>4 DEF Next_k
<1>6. NextLen = sent[Len(got) + 1]
  BY <1>b, <1>5 DEF NextLen, Corrupt
<1> QED
  BY <1>1, <1>5, <1>6

-----------------------------------------------------------------------------
(* Steps of the channel. *)

Numbered == [k \in DOMAIN sent |-> k]
Broken == destroyed \/ rfail \in {"eof", "framing"}
ChannelStep == [Channel!Next]_<<Numbered, got, Broken>>

LEMMA QuietStep == ASSUME UNCHANGED <<sent, got>>, Broken' = Broken \/ Broken' PROVE ChannelStep
<1>1. CASE Broken' = Broken
  BY <1>1 DEF ChannelStep, Numbered
<1>2. CASE Broken'
  <2>1. Broken' = TRUE
    BY <1>2 DEF Broken
  <2>2. Channel!Break
    BY <2>1 DEF Channel!Break, Broken
  <2> QED
    BY <2>2 DEF ChannelStep, Channel!Next
<1> QED
  BY <1>1, <1>2

LEMMA DeliverStep ==
    ASSUME sent \in Seq(Messages), UNCHANGED sent, Len(got) \in Nat, Len(got) < Len(sent),
           got' = Append(got, Len(got) + 1), ~Broken
    PROVE  ChannelStep
<1>1. Len(Numbered) = Len(sent) /\ Numbered[Len(got) + 1] = Len(got) + 1
  BY DEF Numbered
<1>2. (destroyed \/ rfail \in {"eof", "framing"})' \in BOOLEAN
  OBVIOUS
<1>3. Channel!Deliver
  BY <1>1, <1>2 DEF Channel!Deliver, Numbered, Broken
<1> QED
  BY <1>3 DEF ChannelStep, Channel!Next

\* The steps of the receiver move bytes and do not change what they are.
LEMMA ReceiverStep ==
    ASSUME IInv, UNCHANGED sender, RecvTypes', Pieces', Len(got') <= Len(sent),
           Pos' + Len(rbuf') + Len(net') = Pos + Len(rbuf) + Len(net), ReadInv', FailInv'
    PROVE  IInv'
<1>a. TypeOK /\ StreamInv /\ WakeInv /\ SendTypes
  BY Types DEF IInv
<1>b. UNCHANGED <<sent, wqueue, wsize, wstart, wfail, wcb, closed>>
  BY DEF sender
<1>1. SendTypes'
  BY <1>a, <1>b DEF SendTypes
<1>2. Wanted' >= 0
  <2>1. (RecvTypes /\ ReadInv => Wanted \in Nat)'
    <3>1. RecvTypes /\ ReadInv => Wanted \in Nat
      BY WantedFacts
    <3>2. Len(rbuf') \in Nat /\ Hdr \in Nat \ {0} /\ (rdlen' # NoMsg => rdlen' \in Nat)
      BY ConstantsAssumption DEF RecvTypes, Wire
    <3>3. rdlen' = NoMsg => Wanted' = Hdr - Len(rbuf') /\ Len(rbuf') <= Hdr
      BY <3>2 DEF Wanted, ReadInv
    <3>4. rdlen' # NoMsg => Wanted' = rdlen' + Hdr - Len(rbuf') /\ Len(rbuf') < rdlen'
      BY <3>2 DEF Wanted, ReadInv
    <3> QED
      BY <3>2, <3>3, <3>4
  <2> QED
    BY <2>1
<1>3. TypeOK'
  <2>1. SendTypes' /\ RecvTypes' /\ Wanted' >= 0 => TypeOK'
    BY DEF TypeOK, SendTypes, RecvTypes, Queues, Wire
  <2> QED
    BY <1>1, <1>2, <2>1
<1>4. StreamInv'
  <2>1. Flow(sent, Pos + Len(rbuf), net, wqueue, wsize, wstart, wfail \/ closed)
    BY <1>a DEF StreamInv
  <2>2. Flow(sent, Pos' + Len(rbuf'), net', wqueue, wsize, wstart, wfail \/ closed)
    BY <1>b, <2>1 DEF Flow, Pieces
  <2> QED
    BY <1>a, <1>b, <2>2 DEF StreamInv, Pieces
<1>5. WakeInv'
  BY <1>a, <1>b DEF WakeInv, NoIdleWakeups
<1> QED
  BY <1>3, <1>4, <1>5 DEF IInv

\* A step that leaves the bytes where they are.
LEMMA StillStep ==
    ASSUME IInv, UNCHANGED sender, UNCHANGED <<net, rdlen, rbuf, got>>, RecvTypes', ReadInv', FailInv'
    PROVE  IInv'
<1>1. UNCHANGED sent /\ Pos' = Pos
  BY DEF sender, Pos
<1>2. Pieces /\ Len(got) <= Len(sent)
  BY DEF IInv, StreamInv, Flow, Pieces
<1>3. Pieces' /\ Len(got') <= Len(sent) /\ Pos' + Len(rbuf') + Len(net') = Pos + Len(rbuf) + Len(net)
  BY <1>1, <1>2 DEF Pieces
<1> QED
  BY <1>3, ReceiverStep

\* rcb_ returns and input() goes on, or not.
LEMMA CallbackFacts ==
    ASSUME NEW registered \in BOOLEAN, i \in 0..2, Callback(registered),
           AfterCallback(Return) \/ AfterCallback(Loop)
    PROVE  /\ destroyed' \in BOOLEAN /\ rcb' \in BOOLEAN /\ ipc' \in {"poll", "loop"} /\ i' \in 0..2
           /\ destroyed' => ipc' = "poll" /\ ~rcb'
<1>1. destroyed' \in BOOLEAN /\ rcb' = (registered /\ ~destroyed')
  BY DEF Callback
<1>2. rcb' \in BOOLEAN /\ (destroyed' => ~rcb')
  BY <1>1
<1>3. ipc' \in {"poll", "loop"} /\ i' \in 0..2
  BY DEF AfterCallback, Return, Loop
<1>4. destroyed' => ipc' = "poll"
  BY DEF AfterCallback, Return
<1> QED
  BY <1>1, <1>2, <1>3, <1>4

\* The pollset calls input(), or input() stops or goes on without reading.
LEMMA ControlStep ==
    ASSUME IInv, PollIn \/ Reparse \/ Destroy \/ (ReadNothing /\ ~Eof)
    PROVE  IInv' /\ ChannelStep
<1>a. TypeOK /\ ReadInv /\ FailInv /\ RecvTypes
  BY Types DEF IInv
<1>b. /\ UNCHANGED <<net, rdlen, rbuf, rfail, got>>
      /\ UNCHANGED sender
      /\ \/ PollIn /\ ipc = "poll" /\ rcb /\ ipc' = "loop" /\ UNCHANGED <<i, rcb, destroyed>>
         \/ Reparse /\ ipc = "loop" /\ Wanted = 0 /\ ipc' = "parse" /\ UNCHANGED <<i, rcb, destroyed>>
         \/ Destroy /\ ipc = "poll" /\ ~destroyed /\ destroyed' = TRUE /\ rcb' = FALSE /\ UNCHANGED <<ipc, i>>
         \/ ReadNothing /\ ipc = "loop" /\ ipc' = "poll" /\ i' = 0 /\ UNCHANGED <<rcb, destroyed>>
  <2>1. CASE PollIn
    BY <2>1 DEF PollIn
  <2>2. CASE Reparse
    BY <2>2 DEF Reparse
  <2>3. CASE Destroy
    BY <2>3 DEF Destroy
  <2>4. CASE ReadNothing /\ ~Eof
    BY <2>4 DEF ReadNothing, Return
  <2> QED
    BY <2>1, <2>2, <2>3, <2>4
<1>c. UNCHANGED <<sent, closed>>
  BY <1>b DEF sender
<1>1. RecvTypes'
  <2>1. i \in 0..2 /\ rcb \in BOOLEAN /\ destroyed \in BOOLEAN /\ ipc \in {"poll", "loop", "parse"}
    BY <1>a DEF RecvTypes
  <2>2. ipc' \in {"poll", "loop", "parse"}
    BY <1>b, <2>1
  <2>3. i' = i \/ i' = 0
    BY <1>b
  <2>4. i' \in 0..2
    BY <2>1, <2>3
  <2>5. (rcb' = rcb \/ rcb' = FALSE) /\ (destroyed' = destroyed \/ destroyed' = TRUE)
    BY <1>b, Zenon
  <2>6. rcb' \in BOOLEAN /\ destroyed' \in BOOLEAN
    BY <2>1, <2>5, Zenon
  <2> QED
    BY <1>a, <1>b, <2>2, <2>4, <2>6 DEF RecvTypes
<1>2. Wanted = 0 => rdlen = NoMsg /\ Len(rbuf) = Hdr
  <2>1. Wanted = 0 => rdlen = NoMsg
    BY <1>a, WantedFacts
  <2>2. Len(rbuf) \in Nat /\ Hdr \in Nat
    BY <1>a, ConstantsAssumption DEF RecvTypes, Wire
  <2> QED
    BY <2>1, <2>2 DEF Wanted
<1>3. ReadInv'
  <2>1. NoUseAfterDestroy'
    BY <1>a, <1>b DEF ReadInv, NoUseAfterDestroy
  <2>2. (ipc = "parse" => rdlen = NoMsg /\ Len(rbuf) = Hdr)'
    BY <1>a, <1>b, <1>2 DEF ReadInv
  <2> QED
    BY <1>a, <1>b, <1>c, <2>1, <2>2 DEF ReadInv
<1>4. FailInv'
  <2>1. Wanted' = Wanted
    BY <1>b DEF Wanted
  <2> QED
    BY <1>a, <1>b, <1>c, <2>1 DEF FailInv
<1>5. IInv'
  BY <1>b, <1>1, <1>3, <1>4, StillStep
<1>6. Broken' = Broken \/ Broken'
  BY <1>b DEF Broken
<1> QED
  BY <1>b, <1>c, <1>5, <1>6, QuietStep

\* input() stops or goes on after a failure was reported, or reports one.
LEMMA FailStep ==
    ASSUME IInv, ParseFragment \/ ParseAllocFails \/ ParseTooLong \/ (ReadNothing /\ Eof)
    PROVE  IInv' /\ ChannelStep
<1>a. TypeOK /\ ReadInv /\ FailInv /\ RecvTypes
  BY Types DEF IInv
<1>b. PICK registered \in BOOLEAN :
        /\ UNCHANGED <<net, rdlen, rbuf, got>> /\ UNCHANGED sender
        /\ Callback(registered) /\ (AfterCallback(Return) \/ AfterCallback(Loop))
        /\ \/ ReadNothing /\ Eof /\ rfail' = "eof"
           \/ (ParseFragment \/ ParseTooLong) /\ rfail' = "framing"
           \/ ParseAllocFails /\ rfail' = "alloc"
  <2>1. rcb \in BOOLEAN /\ FALSE \in BOOLEAN
    BY <1>a DEF RecvTypes
  <2>2. CASE ParseFragment
    BY <2>1, <2>2 DEF ParseFragment, Fail
  <2>3. CASE ParseAllocFails
    BY <2>1, <2>3 DEF ParseAllocFails, Fail
  <2>4. CASE ParseTooLong
    BY <2>1, <2>4 DEF ParseTooLong, Fail
  <2>5. CASE ReadNothing /\ Eof
    BY <2>1, <2>5 DEF ReadNothing, Fail
  <2> QED
    BY <2>2, <2>3, <2>4, <2>5
<1>c. UNCHANGED <<sent, closed>>
  BY <1>b DEF sender
<1>d. /\ destroyed' \in BOOLEAN /\ rcb' \in BOOLEAN /\ ipc' \in {"poll", "loop"} /\ i' \in 0..2
      /\ destroyed' => ipc' = "poll" /\ ~rcb'
  <2>1. i \in 0..2
    BY <1>a DEF RecvTypes
  <2> QED
    BY <1>b, <2>1, CallbackFacts
<1>1. RecvTypes'
  BY <1>a, <1>b, <1>d DEF RecvTypes
<1>2. ReadInv'
  BY <1>a, <1>b, <1>c, <1>d DEF ReadInv, NoUseAfterDestroy
<1>3. CASE ReadNothing /\ Eof /\ rfail' = "eof"
  <2>1. FailInv'
    BY <1>b, <1>c, <1>3 DEF FailInv, ReadNothing, Eof, Wanted
  <2>2. Broken'
    BY <1>3 DEF Broken
  <2> QED
    BY <1>b, <1>c, <1>1, <1>2, <2>1, <2>2, StillStep, QuietStep
<1>4. ASSUME ParseFragment \/ ParseTooLong \/ ParseAllocFails
      PROVE  /\ rdlen = NoMsg /\ Len(rbuf) = Hdr /\ Len(got) < Len(sent) /\ NextLen = sent[Len(got) + 1]
             /\ NextLen.len \in Nat
  <2>1. ipc = "parse"
    BY <1>4 DEF ParseFragment, ParseTooLong, ParseAllocFails, ParseAcceptable
  <2>2. rdlen = NoMsg /\ Len(rbuf) = Hdr
    BY <1>a, <2>1 DEF ReadInv
  <2> QED
    BY <2>2, WordFacts
<1>5. CASE (ParseFragment \/ ParseTooLong) /\ rfail' = "framing"
  <2>1. NextLen.len > MaxMsgLen \/ ~NextLen.last
    BY <1>5 DEF ParseFragment, ParseTooLong
  <2>2. FailInv'
    BY <1>b, <1>c, <1>4, <1>5, <2>1 DEF FailInv
  <2>3. Broken'
    BY <1>5 DEF Broken
  <2> QED
    BY <1>b, <1>c, <1>1, <1>2, <2>2, <2>3, StillStep, QuietStep
<1>6. CASE ParseAllocFails /\ rfail' = "alloc"
  <2>1. NextLen.last /\ NextLen.len \in 1..MaxMsgLen
    BY <1>6 DEF ParseAllocFails, ParseAcceptable
  <2>2. rfail # "framing"
    <3>1. ASSUME rfail = "framing" PROVE NextLen.len > MaxMsgLen \/ ~NextLen.last
      BY <1>a, <1>4, <1>6, <3>1 DEF FailInv
    <3> QED
      BY <2>1, <3>1, <1>4, <1>6, ConstantsAssumption
  <2>3. rfail # "eof"
    <3>1. Wanted = 0
      BY <1>4, <1>6, ConstantsAssumption DEF Wanted
    <3> QED
      BY <1>a, <3>1 DEF FailInv
  <2>4. FailInv'
    BY <1>6 DEF FailInv
  <2>5. Broken => Broken'
    <3>1. destroyed = FALSE
      <4>1. ipc = "parse" /\ destroyed \in BOOLEAN
        BY <1>6, <1>a DEF ParseAllocFails, ParseAcceptable, RecvTypes
      <4> QED
        BY <1>a, <4>1 DEF ReadInv, NoUseAfterDestroy
    <3>2. ~Broken
      BY <2>2, <2>3, <3>1 DEF Broken
    <3> QED
      BY <3>2
  <2>6. Broken' = Broken \/ Broken'
    <3>1. Broken \in BOOLEAN /\ Broken' \in BOOLEAN
      <4>1. (destroyed' \/ rfail' \in {"eof", "framing"}) \in BOOLEAN
        OBVIOUS
      <4>2. (destroyed \/ rfail \in {"eof", "framing"}) \in BOOLEAN
        OBVIOUS
      <4> QED
        BY <4>1, <4>2 DEF Broken
    <3> QED
      BY <2>5, <3>1, Zenon
  <2> QED
    BY <1>b, <1>c, <1>1, <1>2, <2>4, <2>6, StillStep, QuietStep
<1> QED
  BY <1>b, <1>3, <1>5, <1>6

-----------------------------------------------------------------------------
(* Steps that read. *)

\* n bytes go from the kernels to the receiver, who has not been told of a failure that
\* would end the channel.
LEMMA ReadFacts ==
    ASSUME IInv, ipc = "loop", NEW n \in 1..Least(Wanted, Len(net))
    PROVE  /\ n \in Nat /\ 1 <= n /\ n <= Wanted /\ n <= Len(net) /\ n \in 0..Len(net)
           /\ rbuf \o Take(net, n) \in Wire /\ Len(rbuf \o Take(net, n)) = Len(rbuf) + n
           /\ Drop(net, n) \in Wire /\ Len(Drop(net, n)) = Len(net) - n
           /\ Piece(sent, Pos, rbuf \o Take(net, n))
           /\ Piece(sent, Pos + (Len(rbuf) + n), Drop(net, n))
           /\ rfail \notin {"eof", "framing"} /\ ~destroyed /\ ~Broken
<1>a. SendTypes /\ RecvTypes /\ ReadInv /\ FailInv /\ Len(got) <= Len(sent)
  BY Types DEF IInv, StreamInv
<1>b. Len(rbuf) \in Nat /\ Len(net) \in Nat /\ Pos \in Nat /\ Wanted \in Nat /\ rbuf \in Wire /\ net \in Wire
  BY <1>a, Numbers, WantedFacts DEF RecvTypes
<1>1. n \in Nat /\ 1 <= n /\ n <= Wanted /\ n <= Len(net) /\ n \in 0..Len(net)
  BY <1>b DEF Least
<1>2. Take(net, n) \in Wire /\ Len(Take(net, n)) = n /\ Drop(net, n) \in Wire /\ Len(Drop(net, n)) = Len(net) - n
  BY <1>b, <1>1, DropFacts DEF Wire
<1>3. rbuf \o Take(net, n) \in Wire /\ Len(rbuf \o Take(net, n)) = Len(rbuf) + n
  BY <1>b, <1>2, ConcatProperties DEF Wire
<1>4. Piece(sent, Pos, rbuf) /\ Piece(sent, Pos + Len(rbuf), net)
  BY DEF IInv, StreamInv, Flow
<1>5. Pos + Len(rbuf) \in Nat /\ (Pos + Len(rbuf)) + n = Pos + (Len(rbuf) + n)
  BY <1>b, <1>1
<1>6. Piece(sent, Pos + Len(rbuf), Take(net, n)) /\ Piece(sent, (Pos + Len(rbuf)) + n, Drop(net, n))
  BY <1>b, <1>1, <1>4, <1>5, PieceFacts
<1>7. Piece(sent, Pos, rbuf \o Take(net, n))
  BY <1>b, <1>2, <1>4, <1>6, PieceFacts
<1>8. rfail # "eof"
  <2>1. net # <<>>
    BY <1>1
  <2> QED
    BY <1>a, <2>1 DEF FailInv
<1>9. rfail # "framing"
  <2>1. rdlen = NoMsg /\ Len(rbuf) = Hdr => Wanted = 0
    BY <1>b, ConstantsAssumption DEF Wanted
  <2> QED
    BY <1>a, <1>1, <2>1 DEF FailInv
<1>10. ~destroyed
  BY <1>a DEF ReadInv, NoUseAfterDestroy
<1> QED
  BY <1>1, <1>2, <1>3, <1>5, <1>6, <1>7, <1>8, <1>9, <1>10 DEF Broken

LEMMA ReadPartStep == ASSUME IInv, ReadPart PROVE IInv' /\ ChannelStep
<1>a. SendTypes /\ RecvTypes /\ ReadInv /\ FailInv /\ Len(got) <= Len(sent)
  BY Types DEF IInv, StreamInv
<1>b. PICK n \in 1..Least(Wanted, Len(net)) :
        /\ rdlen # NoMsg => Len(rbuf) + n < rdlen
        /\ net' = Drop(net, n)
        /\ rbuf' = rbuf \o Take(net, n)
  BY DEF ReadPart
<1>c. ipc = "loop" /\ UNCHANGED <<rdlen, rcb, rfail, got, destroyed>> /\ UNCHANGED sender /\ ToParse
  BY DEF ReadPart
<1>d. /\ n \in Nat /\ 1 <= n /\ n <= Wanted /\ n <= Len(net)
      /\ rbuf' \in Wire /\ Len(rbuf') = Len(rbuf) + n /\ net' \in Wire /\ Len(net') = Len(net) - n
      /\ Piece(sent, Pos, rbuf') /\ Piece(sent, Pos + Len(rbuf'), net')
      /\ rfail \notin {"eof", "framing"} /\ ~destroyed
  BY <1>b, <1>c, ReadFacts
<1>e. Len(rbuf) \in Nat /\ Len(net) \in Nat /\ Pos \in Nat /\ Hdr \in Nat
  BY <1>a, Numbers
<1>f. UNCHANGED <<sent, closed>>
  BY <1>c DEF sender
<1>1. /\ ipc' \in {"poll", "parse"} /\ i' \in 0..2
      /\ ipc' = "parse" => rdlen' = NoMsg /\ Len(rbuf') = Hdr
  BY <1>a, <1>c DEF ToParse, Return, RecvTypes
<1>2. RecvTypes'
  <2>1. Len(net') <= Capacity
    BY <1>a, <1>d, <1>e, ConstantsAssumption DEF RecvTypes
  <2> QED
    BY <1>a, <1>c, <1>d, <1>1, <2>1 DEF RecvTypes
<1>3. ReadInv'
  <2>1. rdlen # NoMsg => Len(rbuf') < rdlen
    BY <1>b, <1>d
  <2>2. rdlen = NoMsg => Len(rbuf') <= Hdr
    BY <1>d, <1>e DEF Wanted
  <2> QED
    BY <1>a, <1>c, <1>d, <1>f, <1>1, <2>1, <2>2 DEF ReadInv, NoUseAfterDestroy
<1>4. FailInv'
  BY <1>c, <1>d DEF FailInv
<1>5. Pos' = Pos
  BY <1>c, <1>f DEF Pos
<1>6. Pos' + Len(rbuf') + Len(net') = Pos + Len(rbuf) + Len(net)
  BY <1>d, <1>e, <1>5
<1>7. Pieces' /\ Len(got') <= Len(sent)
  BY <1>a, <1>c, <1>d, <1>f, <1>5 DEF Pieces
<1>8. IInv'
  BY <1>c, <1>2, <1>3, <1>4, <1>6, <1>7, ReceiverStep
<1>9. Broken' = Broken
  BY <1>c DEF Broken
<1> QED
  BY <1>c, <1>f, <1>8, <1>9, QuietStep

\* What got becomes when the next message is delivered.
LEMMA GotFacts ==
    ASSUME IInv, Len(got) < Len(sent), got' = Append(got, Len(got) + 1), UNCHANGED sent
    PROVE  /\ got' \in Seq(0..MaxSends) /\ Len(got') = Len(got) + 1 /\ Len(got') <= Len(sent)
           /\ \A k \in DOMAIN got' : got'[k] = k
<1>1. got \in Seq(0..MaxSends) /\ Len(got) \in Nat /\ Len(sent) \in Nat /\ Len(sent) <= MaxSends
      /\ \A k \in DOMAIN got : got[k] = k
  <2>1. SendTypes /\ RecvTypes /\ Len(got) <= Len(sent) /\ Len(sent) <= MaxSends
    BY Types DEF IInv, StreamInv
  <2> QED
    BY <2>1, Numbers DEF IInv, ReadInv, RecvTypes
<1>2. Len(got) + 1 \in 0..MaxSends
  BY <1>1, ConstantsAssumption
<1>3. /\ got' \in Seq(0..MaxSends) /\ Len(got') = Len(got) + 1
      /\ \A k \in 1..(Len(got) + 1) : got'[k] = IF k <= Len(got) THEN got[k] ELSE Len(got) + 1
  BY <1>1, <1>2, AppendProperties
<1>4. ASSUME NEW k \in DOMAIN got' PROVE got'[k] = k
  <2>1. k \in 1..(Len(got) + 1)
    BY <1>3
  <2>2. CASE k <= Len(got)
    <3>1. k \in DOMAIN got
      BY <1>1, <2>1, <2>2
    <3> QED
      BY <1>1, <1>3, <2>1, <2>2, <3>1
  <2>3. CASE ~(k <= Len(got))
    <3>1. k = Len(got) + 1
      BY <1>1, <2>1, <2>3
    <3> QED
      BY <1>3, <2>1, <2>3
  <2> QED
    BY <2>2, <2>3
<1> QED
  BY <1>1, <1>3, <1>4

\* The whole body that has been read is that of the next message.
LEMMA BodyFacts ==
    ASSUME IInv, rdlen # NoMsg, NEW b \in Wire, Piece(sent, Pos, b), Len(b) >= rdlen
    PROVE  Received(Take(b, rdlen)) = Len(got) + 1
<1>a. SendTypes /\ RecvTypes /\ ReadInv /\ Len(got) <= Len(sent)
  BY Types DEF IInv, StreamInv
<1>b. /\ Len(got) \in Nat /\ Upto(sent)[Len(got)] \in Nat /\ Hdr \in Nat /\ rdlen \in Nat /\ rdlen >= 1
      /\ Pos = Upto(sent)[Len(got)] + Hdr
  BY <1>a, Numbers DEF Pos
<1>1. Len(got) < Len(sent) /\ sent[Len(got) + 1].len = rdlen
  BY <1>a DEF ReadInv
<1>2. Len(b) \in Nat /\ rdlen \in 0..Len(b)
  BY <1>b DEF Wire
<1>3. /\ Take(b, rdlen) \in Wire /\ Len(Take(b, rdlen)) = rdlen
      /\ \A h \in 1..rdlen : Take(b, rdlen)[h] = b[h]
  BY <1>2, DropFacts DEF Wire
<1>4. ASSUME NEW h \in 1..rdlen PROVE Take(b, rdlen)[h] = <<Len(got) + 1, Hdr + h>>
  <2>1. h \in Nat /\ 1 <= h /\ h <= rdlen /\ h \in 1..Len(b)
    BY <1>b, <1>2
  <2>2. At(sent, b[h], Pos + h)
    BY <2>1 DEF Piece
  <2>3. Pos + h = Upto(sent)[Len(got)] + (Hdr + h) /\ Hdr + h \in 1..(Hdr + rdlen)
    BY <1>b, <2>1
  <2>4. b[h] = <<Len(got) + 1, Hdr + h>>
    BY <1>1, <2>2, <2>3, NextByte
  <2> QED
    BY <1>3, <2>4
<1>5. Take(b, rdlen) = [h \in 1..rdlen |-> <<Len(got) + 1, Hdr + h>>]
  <2>1. Take(b, rdlen) = [h \in 1..rdlen |-> Take(b, rdlen)[h]]
    BY <1>3 DEF Wire
  <2> QED
    BY <1>4, <2>1
<1>6. Take(b, rdlen)[1][1] = Len(got) + 1
  <2>1. 1 \in 1..rdlen
    BY <1>b
  <2> QED
    BY <1>4, <2>1
<1>7. PICK t : t = Take(b, rdlen)
  OBVIOUS
<1>8. Received(t) = Len(got) + 1
  BY <1>1, <1>5, <1>6, <1>7 DEF Received
<1> QED
  BY <1>7, <1>8

LEMMA ReadMessageStep == ASSUME IInv, ReadMessage PROVE IInv' /\ ChannelStep
<1>a. SendTypes /\ RecvTypes /\ ReadInv /\ FailInv /\ Len(got) <= Len(sent)
  BY Types DEF IInv, StreamInv
<1>c. /\ ipc = "loop" /\ rdlen # NoMsg /\ rdlen' = NoMsg /\ UNCHANGED rfail /\ UNCHANGED sender
      /\ Callback(rcb) /\ AfterCallback(ToParse)
  BY DEF ReadMessage
<1>b. PICK n \in 1..Least(Wanted, Len(net)) :
        /\ Len(rbuf \o Take(net, n)) >= rdlen
        /\ net' = Drop(net, n)
        /\ got' = Append(got, Received(Take(rbuf \o Take(net, n), rdlen)))
        /\ rbuf' = Drop(rbuf \o Take(net, n), rdlen)
  BY DEF ReadMessage
<1>d. PICK b : b = rbuf \o Take(net, n)
  OBVIOUS
<1>e. /\ n \in Nat /\ 1 <= n /\ n <= Wanted /\ n <= Len(net)
      /\ b \in Wire /\ Len(b) = Len(rbuf) + n /\ net' \in Wire /\ Len(net') = Len(net) - n
      /\ Piece(sent, Pos, b) /\ Piece(sent, Pos + (Len(rbuf) + n), net')
      /\ rfail \notin {"eof", "framing"} /\ ~destroyed /\ ~Broken
  BY <1>b, <1>c, <1>d, ReadFacts
<1>f. /\ Len(rbuf) \in Nat /\ Len(net) \in Nat /\ Len(got) \in Nat /\ Pos \in Nat /\ Hdr \in Nat
      /\ rdlen \in Nat /\ Upto(sent)[Len(got)] \in Nat
  BY <1>a, <1>c, Numbers
<1>g. UNCHANGED <<sent, closed>>
  BY <1>c DEF sender
<1>1. Len(got) < Len(sent) /\ got' = Append(got, Len(got) + 1)
  <2>1. Len(b) >= rdlen
    BY <1>b, <1>d
  <2> QED
    BY <1>a, <1>b, <1>c, <1>d, <1>e, <2>1, BodyFacts DEF ReadInv
<1>2. /\ got' \in Seq(0..MaxSends) /\ Len(got') = Len(got) + 1 /\ Len(got') <= Len(sent)
      /\ \A k \in DOMAIN got' : got'[k] = k
  BY <1>1, <1>g, GotFacts
<1>3. rdlen \in 0..Len(b)
  BY <1>b, <1>d, <1>e, <1>f
<1>4. rbuf' \in Wire /\ Len(rbuf') = Len(rbuf) + n - rdlen /\ Piece(sent, Pos + rdlen, rbuf')
  <2>1. rbuf' \in Wire /\ Len(rbuf') = Len(b) - rdlen
    BY <1>b, <1>d, <1>e, <1>3, DropFacts DEF Wire
  <2>2. Piece(sent, Pos + rdlen, rbuf')
    <3>1. Piece(sent, Pos + rdlen, Drop(b, rdlen))
      BY <1>e, <1>f, <1>3, PieceFacts
    <3>2. rbuf' = Drop(b, rdlen)
      BY <1>b, <1>d
    <3> QED
      BY <3>1, <3>2
  <2>3. Len(rbuf') = Len(rbuf) + n - rdlen
    BY <1>e, <1>f, <2>1
  <2> QED
    BY <2>1, <2>2, <2>3
<1>5. Pos' = Pos + rdlen
  <2>1. Upto(sent)[Len(got) + 1] = Upto(sent)[Len(got)] + Hdr + sent[Len(got) + 1].len
    BY <1>c, NextMessage
  <2>2. sent[Len(got) + 1].len = rdlen
    BY <1>a, <1>c DEF ReadInv
  <2>3. Pos' = Upto(sent)[Len(got) + 1] + 0
    BY <1>c, <1>g, <1>2 DEF Pos
  <2>4. Pos = Upto(sent)[Len(got)] + Hdr
    BY <1>c DEF Pos
  <2> QED
    BY <1>f, <2>1, <2>2, <2>3, <2>4
<1>6. /\ destroyed' \in BOOLEAN /\ rcb' \in BOOLEAN /\ ipc' \in {"poll", "parse"} /\ i' \in 0..2
      /\ ipc' = "parse" => rdlen' = NoMsg /\ Len(rbuf') = Hdr
      /\ destroyed' => ipc' = "poll" /\ ~rcb'
  <2>1. destroyed' \in BOOLEAN /\ rcb' = (rcb /\ ~destroyed')
    BY <1>c DEF Callback
  <2>2. rcb' \in BOOLEAN /\ (destroyed' => ~rcb')
    BY <1>a, <2>1 DEF RecvTypes
  <2>3. ipc' \in {"poll", "parse"} /\ i' \in 0..2
    BY <1>a, <1>c DEF AfterCallback, ToParse, Return, RecvTypes
  <2>4. (ipc' = "parse" => rdlen' = NoMsg /\ Len(rbuf') = Hdr) /\ (destroyed' => ipc' = "poll")
    BY <1>c DEF AfterCallback, ToParse, Return
  <2> QED
    BY <2>1, <2>2, <2>3, <2>4
<1>7. RecvTypes'
  <2>1. Len(net') <= Capacity
    BY <1>a, <1>e, <1>f, ConstantsAssumption DEF RecvTypes
  <2> QED
    BY <1>a, <1>c, <1>e, <1>2, <1>4, <1>6, <2>1 DEF RecvTypes
<1>8. ReadInv'
  <2>1. Len(rbuf') <= Hdr
    BY <1>c, <1>e, <1>f, <1>4 DEF Wanted
  <2> QED
    BY <1>c, <1>2, <1>6, <2>1 DEF ReadInv, NoUseAfterDestroy
<1>9. FailInv'
  BY <1>c, <1>e DEF FailInv
<1>10. Pos' + Len(rbuf') = Pos + (Len(rbuf) + n)
  BY <1>e, <1>f, <1>4, <1>5
<1>11. Pos' + Len(rbuf') + Len(net') = Pos + Len(rbuf) + Len(net)
  BY <1>e, <1>f, <1>10
<1>12. Pieces'
  BY <1>e, <1>g, <1>4, <1>5, <1>10 DEF Pieces
<1>13. IInv'
  BY <1>c, <1>g, <1>2, <1>7, <1>8, <1>9, <1>11, <1>12, ReceiverStep
<1> QED
  BY <1>a, <1>e, <1>f, <1>g, <1>1, <1>13, DeliverStep DEF SendTypes

-----------------------------------------------------------------------------
(* Steps that parse a length word. *)

\* An empty message is delivered at once.
LEMMA ParseEmptyStep == ASSUME IInv, ParseEmpty PROVE IInv' /\ ChannelStep
<1>a. SendTypes /\ RecvTypes /\ ReadInv /\ FailInv /\ Len(got) <= Len(sent)
  BY Types DEF IInv, StreamInv
<1>b. /\ ipc = "parse" /\ NextLen.last /\ NextLen.len = 0
      /\ rbuf' = <<>> /\ got' = Append(got, Next_k)
      /\ Callback(rcb) /\ AfterCallback(Loop)
      /\ UNCHANGED <<net, rdlen, rfail>> /\ UNCHANGED sender
  BY DEF ParseEmpty
<1>c. UNCHANGED <<sent, closed>>
  BY <1>b DEF sender
<1>d. rdlen = NoMsg /\ Len(rbuf) = Hdr
  BY <1>a, <1>b DEF ReadInv
<1>e. /\ Len(got) < Len(sent) /\ got' = Append(got, Len(got) + 1)
      /\ sent[Len(got) + 1].len = 0 /\ sent[Len(got) + 1].last
  BY <1>b, <1>d, WordFacts
<1>f. /\ Len(net) \in Nat /\ Len(got) \in Nat /\ Pos \in Nat /\ Hdr \in Nat /\ Hdr >= 1
      /\ Upto(sent)[Len(got)] \in Nat
  BY <1>a, Numbers
<1>1. /\ got' \in Seq(0..MaxSends) /\ Len(got') = Len(got) + 1 /\ Len(got') <= Len(sent)
      /\ \A k \in DOMAIN got' : got'[k] = k
  BY <1>c, <1>e, GotFacts
<1>2. rbuf' \in Wire /\ Len(rbuf') = 0
  BY <1>b DEF Wire
<1>3. Pos' = Pos + Hdr
  <2>1. Upto(sent)[Len(got) + 1] = Upto(sent)[Len(got)] + Hdr + sent[Len(got) + 1].len
    BY <1>d, <1>f, NextMessage
  <2>2. Pos' = Upto(sent)[Len(got) + 1] + 0
    BY <1>b, <1>c, <1>d, <1>1 DEF Pos
  <2>3. Pos = Upto(sent)[Len(got)] + 0
    BY <1>d DEF Pos
  <2> QED
    BY <1>e, <1>f, <2>1, <2>2, <2>3
<1>4. /\ destroyed' \in BOOLEAN /\ rcb' \in BOOLEAN /\ ipc' \in {"poll", "loop"} /\ i' \in 0..2
      /\ destroyed' => ipc' = "poll" /\ ~rcb'
  <2>1. i \in 0..2 /\ rcb \in BOOLEAN
    BY <1>a DEF RecvTypes
  <2> QED
    BY <1>b, <2>1, CallbackFacts
<1>5. rfail \notin {"eof", "framing"} /\ ~destroyed /\ ~Broken
  <2>1. Wanted = 0
    BY <1>d, <1>f DEF Wanted
  <2>2. rfail # "eof"
    BY <1>a, <2>1 DEF FailInv
  <2>3. rfail # "framing"
    BY <1>a, <1>e, ConstantsAssumption DEF FailInv
  <2>4. ~destroyed
    BY <1>a, <1>b DEF ReadInv, NoUseAfterDestroy
  <2> QED
    BY <2>2, <2>3, <2>4 DEF Broken
<1>6. RecvTypes'
  BY <1>a, <1>b, <1>1, <1>2, <1>4 DEF RecvTypes
<1>7. ReadInv'
  BY <1>b, <1>d, <1>f, <1>1, <1>2, <1>4 DEF ReadInv, NoUseAfterDestroy
<1>8. FailInv'
  BY <1>b, <1>5 DEF FailInv
<1>9. Pos' + Len(rbuf') = Pos + Len(rbuf)
  BY <1>d, <1>f, <1>2, <1>3
<1>10. Pieces'
  <2>1. Piece(sent, Pos + Len(rbuf), net)
    BY DEF IInv, StreamInv, Flow
  <2>2. Piece(sent, Pos', rbuf')
    BY <1>2 DEF Piece
  <2> QED
    BY <1>b, <1>c, <1>9, <2>1, <2>2 DEF Pieces
<1>11. Pos' + Len(rbuf') + Len(net') = Pos + Len(rbuf) + Len(net)
  BY <1>b, <1>f, <1>9
<1>12. IInv'
  BY <1>b, <1>c, <1>1, <1>6, <1>7, <1>8, <1>10, <1>11, ReceiverStep
<1> QED
  BY <1>a, <1>c, <1>e, <1>f, <1>5, <1>12, DeliverStep DEF SendTypes

\* After an acceptable length word comes the message's body.
LEMMA ParseAllocStep == ASSUME IInv, ParseAlloc PROVE IInv' /\ ChannelStep
<1>a. SendTypes /\ RecvTypes /\ ReadInv /\ FailInv /\ Len(got) <= Len(sent)
  BY Types DEF IInv, StreamInv
<1>b. /\ ipc = "parse" /\ NextLen.last /\ NextLen.len \in 1..MaxMsgLen
      /\ rdlen' = NextLen.len /\ rbuf' = <<>> /\ Loop
      /\ UNCHANGED <<net, rcb, rfail, got, destroyed>> /\ UNCHANGED sender
  BY DEF ParseAlloc, ParseAcceptable
<1>c. UNCHANGED <<sent, closed>>
  BY <1>b DEF sender
<1>d. rdlen = NoMsg /\ Len(rbuf) = Hdr
  BY <1>a, <1>b DEF ReadInv
<1>e. Len(got) < Len(sent) /\ NextLen = sent[Len(got) + 1]
  BY <1>d, WordFacts
<1>f. /\ Len(net) \in Nat /\ Len(got) \in Nat /\ Pos \in Nat /\ Hdr \in Nat /\ Hdr >= 1
      /\ Upto(sent)[Len(got)] \in Nat
  BY <1>a, Numbers
<1>g. rdlen' \in 1..MaxMsgLen /\ rdlen' # NoMsg /\ rdlen' \in Nat /\ rdlen' >= 1
  BY <1>b, ConstantsAssumption
<1>1. rbuf' \in Wire /\ Len(rbuf') = 0
  BY <1>b DEF Wire
<1>2. Pos' = Pos + Hdr
  BY <1>b, <1>c, <1>d, <1>f, <1>g DEF Pos
<1>3. ipc' \in {"poll", "loop"} /\ i' \in 0..2
  <2>1. i \in 0..2
    BY <1>a DEF RecvTypes
  <2> QED
    BY <1>b, <2>1 DEF Loop, Return
<1>4. rfail \notin {"eof", "framing"} /\ ~destroyed
  <2>1. Wanted = 0
    BY <1>d, <1>f DEF Wanted
  <2>2. rfail # "eof"
    BY <1>a, <2>1 DEF FailInv
  <2>3. rfail # "framing"
    BY <1>a, <1>b, <1>e, ConstantsAssumption DEF FailInv
  <2>4. ~destroyed
    BY <1>a, <1>b DEF ReadInv, NoUseAfterDestroy
  <2> QED
    BY <2>2, <2>3, <2>4
<1>5. RecvTypes'
  BY <1>a, <1>b, <1>g, <1>1, <1>3 DEF RecvTypes
<1>6. ReadInv'
  BY <1>a, <1>b, <1>c, <1>e, <1>g, <1>1, <1>3, <1>4 DEF ReadInv, NoUseAfterDestroy
<1>7. FailInv'
  BY <1>b, <1>4 DEF FailInv
<1>8. Pos' + Len(rbuf') = Pos + Len(rbuf)
  BY <1>d, <1>f, <1>1, <1>2
<1>9. Pieces'
  <2>1. Piece(sent, Pos + Len(rbuf), net)
    BY DEF IInv, StreamInv, Flow
  <2>2. Piece(sent, Pos', rbuf')
    BY <1>1 DEF Piece
  <2> QED
    BY <1>b, <1>c, <1>8, <2>1, <2>2 DEF Pieces
<1>10. Pos' + Len(rbuf') + Len(net') = Pos + Len(rbuf) + Len(net)
  BY <1>b, <1>f, <1>8
<1>11. IInv'
  BY <1>a, <1>b, <1>5, <1>6, <1>7, <1>9, <1>10, ReceiverStep
<1>12. Broken' = Broken
  BY <1>b DEF Broken
<1> QED
  BY <1>b, <1>c, <1>11, <1>12, QuietStep

-----------------------------------------------------------------------------
(* Steps of the sender. *)

LEMMA SumAppended ==
    ASSUME NEW s, NEW t, Sized(s), Sized(t), Len(t) = Len(s) + 1, \A j \in 1..Len(s) : t[j] = s[j]
    PROVE  /\ QueueBytes(s) \in Nat /\ RawSize(t[Len(t)]) \in Nat \ {0}
           /\ QueueBytes(t) = QueueBytes(s) + RawSize(t[Len(t)])
<1>1. Len(s) \in Nat /\ Len(t) \in 1..Len(t) /\ Len(t) - 1 = Len(s) /\ Len(s) \in 0..Len(s) /\ Len(s) <= Len(t)
  BY DEF Sized
<1>2. Upto(t)[Len(t)] = Upto(t)[Len(s)] + RawSize(t[Len(t)])
  BY <1>1, UptoSums DEF Sums
<1>3. Upto(t)[Len(s)] = Upto(s)[Len(s)]
  BY <1>1, AtGrows
<1>4. Upto(s)[Len(s)] \in Nat
  BY <1>1, UptoSums DEF Sums
<1> QED
  BY <1>1, <1>2, <1>3, <1>4 DEF QueueBytes, Sized

\* What lies in the stream of s lies in that of t.
KeepsPieces(s, t) == \A base, b : Piece(s, base, b) => Piece(t, base, b)

\* A message is added to the stream.
LEMMA StreamGrows ==
    ASSUME NEW s \in Seq(Messages), NEW m \in Messages, NEW t, t = Append(s, m)
    PROVE  /\ t \in Seq(Messages) /\ Sized(t) /\ Len(t) = Len(s) + 1 /\ \A j \in 1..Len(s) : t[j] = s[j]
           /\ t[Len(s) + 1] = m /\ RawSize(m) \in Nat \ {0}
           /\ QueueBytes(s) \in Nat /\ QueueBytes(t) = QueueBytes(s) + RawSize(m)
           /\ \A j \in 0..Len(s) : Upto(t)[j] = Upto(s)[j]
           /\ KeepsPieces(s, t)
<1>1. /\ t \in Seq(Messages) /\ Len(t) = Len(s) + 1 /\ Len(s) \in Nat
      /\ t[Len(s) + 1] = m /\ \A j \in 1..Len(s) : t[j] = s[j]
  BY AppendProperties
<1>2. Sized(s) /\ Sized(t)
  BY <1>1, MessagesAreSized
<1>3. QueueBytes(s) \in Nat /\ RawSize(m) \in Nat \ {0} /\ QueueBytes(t) = QueueBytes(s) + RawSize(m)
  BY <1>1, <1>2, SumAppended
<1>4. Len(s) <= Len(t)
  BY <1>1
<1>5. \A j \in 0..Len(s) : Upto(t)[j] = Upto(s)[j]
  BY <1>1, <1>2, <1>4, AtGrows
<1>6. \A x, n : At(s, x, n) => At(t, x, n)
  BY <1>1, <1>2, <1>4, AtGrows
<1>7. KeepsPieces(s, t)
  BY <1>6 DEF Piece, KeepsPieces
<1> QED
  BY <1>1, <1>2, <1>3, <1>5, <1>7

\* putmsg puts the message in the queue, or writing has ended and it is dropped.
LEMMA FlowGrows ==
    ASSUME NEW s \in Seq(Messages), NEW m \in Messages, NEW t, t = Append(s, m), Len(t) <= MaxSends,
           NEW base \in Nat, NEW b \in Wire, NEW q \in Queues, NEW size \in Nat, NEW start \in Nat,
           NEW ended, Flow(s, base, b, q, size, start, ended)
    PROVE  /\ ended => Flow(t, base, b, q, size, start, ended)
           /\ ~ended => LET r == Append(q, [k |-> Len(t), len |-> m.len])
                        IN  r \in Queues /\ Flow(t, base, b, r, size + RawSize(m), start, ended)
<1>d. Len(s) \in Nat
  OBVIOUS
<1>a. /\ Sized(t) /\ Len(t) = Len(s) + 1 /\ Len(s) \in Nat /\ \A j \in 1..Len(s) : t[j] = s[j]
      /\ t[Len(s) + 1] = m /\ RawSize(m) \in Nat \ {0}
      /\ QueueBytes(s) \in Nat /\ QueueBytes(t) = QueueBytes(s) + RawSize(m)
      /\ KeepsPieces(s, t)
  <2>1. Sized(t) /\ RawSize(m) \in Nat \ {0}
    BY StreamGrows, Zenon
  <2>5. Len(t) = Len(s) + 1 /\ t[Len(s) + 1] = m
    BY <1>d, AppendProperties
  <2>2. \A j \in 1..Len(s) : t[j] = s[j]
    BY StreamGrows
  <2>3. QueueBytes(s) \in Nat /\ QueueBytes(t) = QueueBytes(s) + RawSize(m)
    BY StreamGrows
  <2>4. KeepsPieces(s, t)
    BY StreamGrows
  <2> QED
    BY <1>d, <2>1, <2>2, <2>3, <2>4, <2>5, Zenon
<1>b. /\ QueueOf(q, s) /\ Counted(q, size, start) /\ Piece(s, base, b)
      /\ base + Len(b) <= QueueBytes(s)
      /\ IF ended THEN q = <<>> ELSE base + Len(b) = QueueBytes(s) - size
  BY DEF Flow
<1>c. Len(b) \in Nat /\ Len(q) \in Nat
  BY DEF Wire, Queues
<1>1. Piece(t, base, b) /\ base + Len(b) <= QueueBytes(t)
  BY <1>a, <1>b, <1>c DEF KeepsPieces
<1>2. ASSUME ended PROVE Flow(t, base, b, q, size, start, ended)
  <2>1. QueueOf(q, t)
    BY <1>a, <1>b, <1>2, EmptyQueue
  <2> QED
    BY <1>b, <1>1, <1>2, <2>1 DEF Flow
<1>3. ASSUME ~ended, NEW r, r = Append(q, [k |-> Len(t), len |-> m.len])
      PROVE  r \in Queues /\ Flow(t, base, b, r, size + RawSize(m), start, ended)
  <2>1. m.len \in Nat
    BY <1>a, ConstantsAssumption
  <2>2. PICK e : e = [k |-> Len(t), len |-> m.len]
    OBVIOUS
  <2>3. e \in [k : 1..MaxSends, len : Nat] /\ e.k = Len(t) /\ e.len = m.len
    BY <1>a, <2>1, <2>2, ConstantsAssumption
  <2>4. /\ r \in Queues /\ Len(r) = Len(q) + 1 /\ r[Len(q) + 1] = e /\ \A j \in 1..Len(q) : r[j] = q[j]
    BY <1>3, <2>2, <2>3, AppendProperties DEF Queues
  <2>5. QueueOf(r, t)
    <3>1. Len(r) <= Len(t)
      BY <1>a, <1>b, <1>c, <2>4 DEF QueueOf
    <3>2. ASSUME NEW j \in 1..Len(r)
          PROVE  r[j].k = Len(t) - Len(r) + j /\ r[j].len = t[Len(t) - Len(r) + j].len
      <4>1. Len(t) - Len(r) = Len(s) - Len(q)
        BY <1>a, <1>c, <2>4
      <4>2. CASE j = Len(q) + 1
        <5>1. Len(t) - Len(r) + j = Len(t)
          BY <1>a, <1>c, <2>4, <4>2
        <5> QED
          BY <1>a, <2>3, <2>4, <4>2, <5>1
      <4>3. CASE j # Len(q) + 1
        <5>1. j \in 1..Len(q) /\ Len(q) <= Len(s)
          BY <1>b, <1>c, <2>4, <4>3 DEF QueueOf
        <5>2. Len(s) - Len(q) + j \in 1..Len(s)
          BY <1>a, <1>c, <5>1
        <5>3. r[j] = q[j] /\ t[Len(s) - Len(q) + j] = s[Len(s) - Len(q) + j]
          BY <1>a, <2>4, <5>1, <5>2
        <5>4. q[j].k = Len(s) - Len(q) + j /\ q[j].len = s[Len(s) - Len(q) + j].len
          BY <1>b, <5>1 DEF QueueOf
        <5> QED
          BY <4>1, <5>3, <5>4
      <4> QED
        BY <4>2, <4>3
    <3> QED
      BY <3>1, <3>2 DEF QueueOf
  <2>6. RawSize(e) = RawSize(m)
    BY <2>3 DEF RawSize
  <2>7. Sized(q) /\ Sized(r)
    BY <2>4, MessagesAreSized
  <2>8. QueueBytes(q) \in Nat /\ QueueBytes(r) = QueueBytes(q) + RawSize(m)
    BY <1>c, <2>4, <2>6, <2>7, SumAppended
  <2>9. Counted(r, size + RawSize(m), start)
    <3>1. size + RawSize(m) = QueueBytes(r) - start
      <4>1. size = QueueBytes(q) - start
        BY <1>b DEF Counted
      <4> QED
        BY <1>a, <2>8, <4>1
    <3>2. r # <<>> /\ Head(r) = r[1]
      BY <1>c, <2>4 DEF Queues
    <3>3. CASE q = <<>>
      <4>1. start = 0
        BY <1>b, <3>3 DEF Counted
      <4>2. r[1] = e
        BY <2>4, <3>3
      <4> QED
        BY <1>a, <2>6, <3>1, <3>2, <4>1, <4>2 DEF Counted
    <3>4. CASE q # <<>>
      <4>1. 1 \in 1..Len(q) /\ Head(q) = q[1]
        BY <3>4, <1>c DEF Queues
      <4>2. start < RawSize(Head(q))
        BY <1>b, <3>4 DEF Counted
      <4> QED
        BY <2>4, <3>1, <3>2, <4>1, <4>2 DEF Counted
    <3> QED
      BY <3>3, <3>4
  <2>10. base + Len(b) = QueueBytes(t) - (size + RawSize(m))
    BY <1>3, <1>a, <1>b, <1>c
  <2> QED
    BY <1>1, <1>3, <2>4, <2>5, <2>9, <2>10 DEF Flow
<1> QED
  BY <1>2, <1>3

\* The steps of the sender leave the receiver alone.
LEMMA SenderStep ==
    ASSUME IInv, UNCHANGED receiver, SendTypes', net' \in Wire, Len(net') <= Capacity,
           Len(sent) <= Len(sent'), Len(sent') <= MaxSends,
           \A j \in 1..Len(sent) : sent'[j] = sent[j],
           Piece(sent', Pos, rbuf),
           Upto(sent')[Len(got)] = Upto(sent)[Len(got)],
           Flow(sent', Pos + Len(rbuf), net', wqueue', wsize', wstart', wfail' \/ closed'),
           WakeInv', rfail # "eof" \/ UNCHANGED <<closed, net>>
    PROVE  IInv'
<1>a. SendTypes /\ RecvTypes /\ ReadInv /\ FailInv /\ Len(got) <= Len(sent)
  BY Types DEF IInv, StreamInv
<1>b. UNCHANGED <<ipc, i, rdlen, rbuf, rcb, rfail, got, destroyed>>
  BY DEF receiver
<1>c. Len(got) \in Nat /\ Len(sent) \in Nat /\ Len(sent') \in Nat
  BY <1>a, Numbers DEF SendTypes
<1>d. Pos' = Pos /\ Wanted' = Wanted
  BY <1>b DEF Pos, Wanted
<1>e. Len(got) < Len(sent) => sent'[Len(got) + 1] = sent[Len(got) + 1]
  <2>1. Len(got) < Len(sent) => Len(got) + 1 \in 1..Len(sent)
    BY <1>c
  <2> QED
    BY <2>1
<1>1. RecvTypes'
  BY <1>a, <1>b DEF RecvTypes
<1>2. Wanted' >= 0
  BY <1>d, Types DEF IInv
<1>3. TypeOK'
  <2>1. SendTypes' /\ RecvTypes' /\ Wanted' >= 0 => TypeOK'
    BY DEF TypeOK, SendTypes, RecvTypes, Queues, Wire
  <2> QED
    BY <1>1, <1>2, <2>1
<1>4. StreamInv'
  BY <1>a, <1>b, <1>c, <1>d DEF StreamInv
<1>5. ReadInv'
  <2>1. rdlen' # NoMsg =>
          /\ Len(got') < Len(sent') /\ Len(rbuf') < rdlen'
          /\ sent'[Len(got') + 1].last /\ sent'[Len(got') + 1].len = rdlen'
    BY <1>a, <1>b, <1>c, <1>e DEF ReadInv
  <2> QED
    BY <1>a, <1>b, <2>1 DEF ReadInv, NoUseAfterDestroy
<1>6. FailInv'
  <2>1. rfail' = "eof" => closed' /\ net' = <<>> /\ Wanted' > 0
    BY <1>a, <1>b, <1>d DEF FailInv
  <2>2. rfail' = "framing" =>
          /\ rdlen' = NoMsg /\ Len(rbuf') = Hdr /\ Len(got') < Len(sent')
          /\ sent'[Len(got') + 1].len > MaxMsgLen \/ ~sent'[Len(got') + 1].last
    BY <1>a, <1>b, <1>c, <1>e DEF FailInv
  <2> QED
    BY <2>1, <2>2 DEF FailInv
<1> QED
  BY <1>3, <1>4, <1>5, <1>6 DEF IInv

\* What the lemma above needs of a step that adds nothing to the stream.
LEMMA SameStream ==
    ASSUME IInv, UNCHANGED sent
    PROVE  /\ sent' \in Seq(Messages) /\ Len(sent) <= Len(sent') /\ Len(sent') <= MaxSends
           /\ \A j \in 1..Len(sent) : sent'[j] = sent[j]
           /\ Piece(sent', Pos, rbuf)
           /\ Upto(sent')[Len(got)] = Upto(sent)[Len(got)]
<1>1. SendTypes /\ Len(sent) <= MaxSends /\ Piece(sent, Pos, rbuf)
  BY Types DEF IInv, StreamInv
<1>2. Len(sent) \in Nat
  BY <1>1 DEF SendTypes
<1> QED
  BY <1>1, <1>2 DEF SendTypes

LEMMA PutmsgStep == ASSUME IInv, NEW m \in Messages, Putmsg(m) PROVE IInv' /\ ChannelStep
<1>a. SendTypes /\ RecvTypes /\ Len(got) <= Len(sent) /\ WakeInv /\ FailInv /\ TypeOK
  BY Types DEF IInv, StreamInv
<1>b. /\ Len(sent) \in Nat /\ Len(got) \in 0..Len(sent) /\ Len(rbuf) \in Nat /\ Pos \in Nat /\ net \in Wire
      /\ Pos + Len(rbuf) \in Nat /\ MaxSends \in Nat
  BY <1>a, Numbers, ConstantsAssumption DEF RecvTypes
<1>c. /\ ~closed /\ Len(sent) < MaxSends /\ sent' = Append(sent, m)
      /\ UNCHANGED closed /\ UNCHANGED receiver
  BY DEF Putmsg
<1>d. sent \in Seq(Messages) /\ wqueue \in Queues /\ wsize \in Nat /\ wstart \in Nat /\ wfail \in BOOLEAN
  BY <1>a DEF SendTypes
<1>1. PICK t : t = sent'
  OBVIOUS
<1>2. t = Append(sent, m)
  BY <1>c, <1>1
<1>3. /\ t \in Seq(Messages) /\ Len(t) = Len(sent) + 1 /\ \A j \in 1..Len(sent) : t[j] = sent[j]
  BY <1>d, <1>2, AppendProperties
<1>4. RawSize(m) \in Nat \ {0}
  BY <1>d, <1>2, StreamGrows, Zenon
<1>5. Len(sent) <= Len(t) /\ Len(t) <= MaxSends
  BY <1>b, <1>c, <1>3
<1>6. Piece(t, Pos, rbuf)
  <2>1. Piece(sent, Pos, rbuf)
    BY DEF IInv, StreamInv
  <2>2. KeepsPieces(sent, t)
    BY <1>d, <1>2, StreamGrows
  <2> QED
    BY <2>1, <2>2 DEF KeepsPieces
<1>7. Upto(t)[Len(got)] = Upto(sent)[Len(got)]
  <2>1. Sized(sent) /\ Sized(t) /\ Len(sent) <= Len(t)
    BY <1>d, <1>3, <1>5, MessagesAreSized
  <2>2. \A j \in 0..Len(sent) : Upto(t)[j] = Upto(sent)[j]
    BY <1>3, <2>1, AtGrows
  <2> QED
    BY <1>b, <2>2
<1>8. PICK r : r = Append(wqueue, [k |-> Len(t), len |-> m.len])
  OBVIOUS
<1>9. /\ wfail => Flow(t, Pos + Len(rbuf), net, wqueue, wsize, wstart, wfail)
      /\ ~wfail => r \in Queues /\ Flow(t, Pos + Len(rbuf), net, r, wsize + RawSize(m), wstart, wfail)
  <2>1. Flow(sent, Pos + Len(rbuf), net, wqueue, wsize, wstart, wfail \/ closed)
    BY DEF IInv, StreamInv
  <2>2. (wfail \/ closed) = wfail
    BY <1>c, <1>d
  <2>3. Flow(sent, Pos + Len(rbuf), net, wqueue, wsize, wstart, wfail)
    BY <2>1, <2>2
  <2> QED
    BY <1>b, <1>d, <1>2, <1>5, <1>8, <2>3, FlowGrows
<1>10. \/ wfail /\ UNCHANGED <<wqueue, wsize, wstart, wfail, wcb, net>>
       \/ ~wfail /\ wsize = 0 /\ Output(r, wsize + RawSize(m), FALSE)
       \/ /\ ~wfail /\ wsize > 0
          /\ wqueue' = r /\ wsize' = wsize + RawSize(m)
          /\ UNCHANGED <<wstart, wfail, wcb, net>>
  BY <1>1, <1>8 DEF Putmsg
<1>e. wcb \in BOOLEAN /\ closed = FALSE
  BY <1>a, <1>c DEF SendTypes
<1>11. /\ wqueue' \in Queues /\ wsize' \in Nat /\ wstart' \in Nat /\ wfail' \in BOOLEAN /\ wcb' \in BOOLEAN
       /\ net' \in Wire /\ Len(net') <= Capacity
       /\ wcb' => wsize' > 0 \/ wfail'
       /\ Flow(t, Pos + Len(rbuf), net', wqueue', wsize', wstart', wfail')
  <2>1. CASE wfail /\ UNCHANGED <<wqueue, wsize, wstart, wfail, wcb, net>>
    BY <1>a, <1>9, <2>1 DEF SendTypes, RecvTypes
  <2>2. CASE ~wfail /\ wsize = 0 /\ Output(r, wsize + RawSize(m), FALSE)
    <3>1. wcb = FALSE
      BY <1>a, <1>d, <1>e, <2>2 DEF WakeInv, NoIdleWakeups
    <3>2. r \in Queues /\ Flow(t, Pos + Len(rbuf), net, r, wsize + RawSize(m), wstart, wfail)
      BY <1>9, <2>2
    <3>3. PICK size : size = wsize + RawSize(m)
      OBVIOUS
    <3>4. Output(r, size, FALSE) /\ Flow(t, Pos + Len(rbuf), net, r, size, wstart, wfail)
      BY <2>2, <3>2, <3>3
    <3>5. FALSE \in BOOLEAN
      OBVIOUS
    <3> QED
      BY <1>a, <1>b, <1>3, <1>5, <3>1, <3>2, <3>4, <3>5, OutputStep
  <2>3. CASE /\ ~wfail /\ wsize > 0
             /\ wqueue' = r /\ wsize' = wsize + RawSize(m)
             /\ UNCHANGED <<wstart, wfail, wcb, net>>
    <3>1. wsize' \in Nat /\ wsize' > 0
      BY <1>d, <1>4, <2>3
    <3> QED
      BY <1>a, <1>9, <2>3, <3>1 DEF SendTypes, RecvTypes
  <2> QED
    BY <1>10, <2>1, <2>2, <2>3
<1>12. SendTypes'
  BY <1>1, <1>3, <1>11, <1>c, <1>e DEF SendTypes
<1>13. WakeInv'
  BY <1>11, <1>c, <1>e DEF WakeInv, NoIdleWakeups
<1>14. Flow(sent', Pos + Len(rbuf), net', wqueue', wsize', wstart', wfail' \/ closed')
  <2>1. (wfail' \/ closed') = wfail'
    BY <1>11, <1>c, <1>e
  <2> QED
    BY <1>1, <1>11, <2>1
<1>15. rfail # "eof"
  BY <1>a, <1>c DEF FailInv
<1>16. Len(sent) <= Len(sent') /\ Len(sent') <= MaxSends /\ \A j \in 1..Len(sent) : sent'[j] = sent[j]
  BY <1>1, <1>3, <1>5
<1>17. Piece(sent', Pos, rbuf) /\ Upto(sent')[Len(got)] = Upto(sent)[Len(got)]
  BY <1>1, <1>6, <1>7
<1>18. IInv'
  BY <1>c, <1>11, <1>12, <1>13, <1>14, <1>15, <1>16, <1>17, SenderStep
<1>19. ChannelStep
  <2>1. Numbered' = [k \in 1..(Len(sent) + 1) |-> k]
    BY <1>1, <1>3 DEF Numbered
  <2>2. Numbered = [k \in 1..Len(sent) |-> k] /\ Len(Numbered) = Len(sent)
    BY <1>b, <1>d DEF Numbered
  <2>3. Append(Numbered, Len(sent) + 1) = [k \in 1..(Len(sent) + 1) |-> k]
    <3>1. Append(Numbered, Len(sent) + 1) =
            [k \in 1..(Len(sent) + 1) |-> IF k = Len(sent) + 1 THEN Len(sent) + 1 ELSE Numbered[k]]
      BY <1>b, <2>2
    <3>2. ASSUME NEW k \in 1..(Len(sent) + 1)
          PROVE  (IF k = Len(sent) + 1 THEN Len(sent) + 1 ELSE Numbered[k]) = k
      <4>1. k # Len(sent) + 1 => k \in 1..Len(sent)
        BY <1>b
      <4> QED
        BY <2>2, <4>1
    <3> QED
      BY <3>1, <3>2
  <2>4. Len(sent) + 1 \in 1..MaxSends
    BY <1>b, <1>c
  <2>5. UNCHANGED <<got, destroyed, rfail>>
    BY <1>c DEF receiver
  <2>6. Numbered' = Append(Numbered, Len(sent) + 1)
    BY <2>1, <2>3
  <2>7. \E k \in 1..MaxSends : Channel!Submit(k)
    BY <2>4, <2>5, <2>6 DEF Channel!Submit, Numbered
  <2>8. Channel!Next
    BY <2>7 DEF Channel!Next
  <2> QED
    BY <2>8 DEF ChannelStep
<1> QED
  BY <1>18, <1>19

LEMMA PollOutStep == ASSUME IInv, PollOut PROVE IInv' /\ ChannelStep
<1>a. SendTypes /\ RecvTypes /\ Len(got) <= Len(sent) /\ WakeInv /\ FailInv /\ TypeOK
  BY Types DEF IInv, StreamInv
<1>b. /\ wcb /\ Output(wqueue, wsize, TRUE) /\ UNCHANGED <<sent, closed>> /\ UNCHANGED receiver
  BY DEF PollOut
<1>c. Pos + Len(rbuf) \in Nat /\ sent \in Seq(Messages) /\ wqueue \in Queues /\ Len(sent) <= MaxSends
  BY <1>a, Numbers DEF SendTypes, IInv, StreamInv
<1>d. wcb = TRUE /\ closed = FALSE /\ wfail \in BOOLEAN
  BY <1>a, <1>b DEF SendTypes, WakeInv
<1>1. Flow(sent, Pos + Len(rbuf), net, wqueue, wsize, wstart, wfail)
  <2>1. Flow(sent, Pos + Len(rbuf), net, wqueue, wsize, wstart, wfail \/ closed)
    BY DEF IInv, StreamInv
  <2>2. (wfail \/ closed) = wfail
    BY <1>d
  <2> QED
    BY <2>1, <2>2
<1>2. /\ wqueue' \in Queues /\ wsize' \in Nat /\ wstart' \in Nat /\ wfail' \in BOOLEAN /\ wcb' \in BOOLEAN
      /\ net' \in Wire /\ Len(net') <= Capacity
      /\ wcb' => wsize' > 0 \/ wfail'
      /\ Flow(sent, Pos + Len(rbuf), net', wqueue', wsize', wstart', wfail')
  <2>1. TRUE \in BOOLEAN
    OBVIOUS
  <2> QED
    BY <1>a, <1>b, <1>c, <1>d, <1>1, <2>1, OutputStep
<1>3. SendTypes'
  BY <1>b, <1>c, <1>d, <1>2 DEF SendTypes
<1>4. WakeInv'
  BY <1>b, <1>d, <1>2 DEF WakeInv, NoIdleWakeups
<1>5. Flow(sent', Pos + Len(rbuf), net', wqueue', wsize', wstart', wfail' \/ closed')
  <2>1. (wfail' \/ closed') = wfail'
    BY <1>b, <1>d, <1>2
  <2> QED
    BY <1>b, <1>2, <2>1
<1>6. rfail # "eof"
  BY <1>a, <1>d DEF FailInv
<1>7. IInv'
  BY <1>b, <1>2, <1>3, <1>4, <1>5, <1>6, SameStream, SenderStep
<1>8. Broken' = Broken /\ UNCHANGED got
  BY <1>b DEF Broken, receiver
<1> QED
  BY <1>b, <1>7, <1>8, QuietStep

LEMMA CloseStep == ASSUME IInv, Close PROVE IInv' /\ ChannelStep
<1>a. SendTypes /\ RecvTypes /\ Len(got) <= Len(sent) /\ FailInv
  BY Types DEF IInv, StreamInv
<1>b. /\ ~closed /\ closed' = TRUE /\ wcb' = FALSE /\ wqueue' = <<>> /\ wsize' = 0 /\ wstart' = 0
      /\ UNCHANGED <<sent, wfail, net>> /\ UNCHANGED receiver
  BY DEF Close
<1>1. <<>> \in Queues /\ QueueOf(<<>>, sent) /\ Counted(<<>>, 0, 0)
  BY <1>a, MessagesAreSized, EmptyQueue DEF SendTypes
<1>2. SendTypes'
  BY <1>a, <1>b, <1>1 DEF SendTypes
<1>3. WakeInv'
  BY <1>b DEF WakeInv, NoIdleWakeups
<1>4. Flow(sent', Pos + Len(rbuf), net', wqueue', wsize', wstart', wfail' \/ closed')
  <2>1. Piece(sent, Pos + Len(rbuf), net) /\ (Pos + Len(rbuf)) + Len(net) <= QueueBytes(sent)
    BY DEF IInv, StreamInv, Flow
  <2> QED
    BY <1>b, <1>1, <2>1 DEF Flow
<1>5. rfail # "eof"
  BY <1>a, <1>b DEF FailInv
<1>6. net' \in Wire /\ Len(net') <= Capacity
  BY <1>a, <1>b DEF RecvTypes
<1>7. IInv'
  BY <1>b, <1>2, <1>3, <1>4, <1>5, <1>6, SameStream, SenderStep
<1>8. Broken' = Broken /\ UNCHANGED got
  BY <1>b DEF Broken, receiver
<1> QED
  BY <1>b, <1>7, <1>8, QuietStep

LEMMA StutterStep == ASSUME IInv, UNCHANGED vars PROVE IInv' /\ ChannelStep
<1>a. TypeOK /\ ReadInv /\ FailInv /\ RecvTypes
  BY Types DEF IInv
<1>1. /\ UNCHANGED <<net, rdlen, rbuf, got>> /\ UNCHANGED <<ipc, i, rcb, rfail, destroyed>> /\ UNCHANGED sender
  BY DEF vars, receiver
<1>2. UNCHANGED <<sent, closed>>
  BY <1>1 DEF sender
<1>3. RecvTypes'
  BY <1>a, <1>1 DEF RecvTypes
<1>4. ReadInv'
  BY <1>a, <1>1, <1>2 DEF ReadInv, NoUseAfterDestroy
<1>5. FailInv'
  <2>1. Wanted' = Wanted
    BY <1>1 DEF Wanted
  <2> QED
    BY <1>a, <1>1, <1>2, <2>1 DEF FailInv
<1>6. IInv'
  BY <1>1, <1>3, <1>4, <1>5, StillStep
<1>7. Broken' = Broken
  BY <1>1 DEF Broken
<1> QED
  BY <1>1, <1>2, <1>6, <1>7, QuietStep

-----------------------------------------------------------------------------
(* The invariant, and the channel. *)

LEMMA InitInv == Init => IInv /\ Channel!Init
<1> SUFFICES ASSUME Init PROVE IInv /\ Channel!Init
  OBVIOUS
<1>a. /\ sent = <<>> /\ wqueue = <<>> /\ wsize = 0 /\ wstart = 0
      /\ wfail = FALSE /\ wcb = FALSE /\ closed = FALSE
      /\ net = <<>>
      /\ ipc = "poll" /\ i = 0 /\ rdlen = NoMsg /\ rbuf = <<>>
      /\ rcb = TRUE /\ rfail = "no" /\ got = <<>> /\ destroyed = FALSE
  BY DEF Init
<1>1. sent \in Seq(Messages) /\ Len(sent) = 0 /\ <<>> \in Wire /\ got \in Seq(0..MaxSends) /\ Len(got) = 0
  BY <1>a DEF Wire
<1>2. <<>> \in Queues /\ QueueOf(<<>>, sent) /\ Counted(<<>>, 0, 0) /\ QueueBytes(sent) = 0
  BY <1>1, <1>a, MessagesAreSized, EmptyQueue
<1>3. SendTypes
  <2>1. wqueue \in Queues
    BY <1>a, <1>2
  <2>2. wsize \in Nat /\ wstart \in Nat
    BY <1>a
  <2>3. wfail \in BOOLEAN /\ wcb \in BOOLEAN /\ closed \in BOOLEAN
    BY <1>a
  <2> QED
    BY <1>1, <2>1, <2>2, <2>3 DEF SendTypes
<1>4. RecvTypes
  <2>1. net \in Wire /\ rbuf \in Wire /\ got \in Seq(0..MaxSends)
    BY <1>a, <1>1
  <2>2. Len(net) <= Capacity /\ i \in 0..2
    BY <1>a, ConstantsAssumption
  <2>3. ipc \in {"poll", "loop", "parse"} /\ rdlen \in 1..MaxMsgLen \cup {NoMsg}
    BY <1>a
  <2>4. rcb \in BOOLEAN /\ destroyed \in BOOLEAN /\ rfail \in {"no", "eof", "framing", "alloc"}
    BY <1>a
  <2> QED
    BY <2>1, <2>2, <2>3, <2>4 DEF RecvTypes
<1>5. Wanted = Hdr /\ Hdr \in Nat /\ Hdr > 0
  BY <1>a, ConstantsAssumption DEF Wanted
<1>6. TypeOK
  BY <1>3, <1>4, <1>5, Types
<1>7. Pos = 0
  <2>1. Upto(sent)[Len(got)] = QueueBytes(sent)
    BY <1>1 DEF QueueBytes
  <2> QED
    BY <1>2, <1>a, <2>1 DEF Pos
<1>8. StreamInv
  <2>1. Len(rbuf) = 0 /\ Len(net) = 0
    BY <1>a
  <2>2. Piece(sent, Pos, rbuf) /\ Piece(sent, Pos + Len(rbuf), net)
    BY <2>1 DEF Piece
  <2>3. Flow(sent, Pos + Len(rbuf), net, wqueue, wsize, wstart, wfail \/ closed)
    BY <1>a, <1>2, <1>7, <2>1, <2>2 DEF Flow
  <2> QED
    BY <1>1, <2>2, <2>3, ConstantsAssumption DEF StreamInv
<1>9. WakeInv
  BY <1>a DEF WakeInv, NoIdleWakeups
<1>10. ReadInv
  BY <1>a, <1>5 DEF ReadInv, NoUseAfterDestroy
<1>11. FailInv
  BY <1>a DEF FailInv
<1>12. Channel!Init
  BY <1>a DEF Channel!Init
<1> QED
  BY <1>6, <1>8, <1>9, <1>10, <1>11, <1>12 DEF IInv

LEMMA StepInv == IInv /\ [Next]_vars => IInv' /\ ChannelStep
<1> SUFFICES ASSUME IInv, [Next]_vars PROVE IInv' /\ ChannelStep
  OBVIOUS
<1>1. CASE \E m \in Messages : Putmsg(m)
  BY <1>1, PutmsgStep
<1>2. CASE PollOut
  BY <1>2, PollOutStep
<1>3. CASE Close
  BY <1>3, CloseStep
<1>4. CASE PollIn \/ Reparse \/ Destroy
  BY <1>4, ControlStep
<1>5. CASE ReadPart
  BY <1>5, ReadPartStep
<1>6. CASE ReadMessage
  BY <1>6, ReadMessageStep
<1>7. CASE ReadNothing
  BY <1>7, ControlStep, FailStep
<1>8. CASE ParseFragment \/ ParseAllocFails \/ ParseTooLong
  BY <1>8, FailStep
<1>9. CASE ParseEmpty
  BY <1>9, ParseEmptyStep
<1>10. CASE ParseAlloc
  BY <1>10, ParseAllocStep
<1>11. CASE UNCHANGED vars
  BY <1>11, StutterStep
<1> QED
  BY <1>1, <1>2, <1>3, <1>4, <1>5, <1>6, <1>7, <1>8, <1>9, <1>10, <1>11 DEF Next, Input

LEMMA Invariance == Spec => []IInv
<1>1. Init => IInv
  BY InitInv
<1>2. IInv /\ [Next]_vars => IInv'
  BY StepInv
<1> QED
  BY <1>1, <1>2, PTL DEF Spec, Safety

\* The messages that rcb_ is given are the first ones that putmsg was given, whole
\* and in order, and after end of file, a framing error or the receiver's own close
\* there are no more (msg_sock implements MsgChannel).
THEOREM MsgSockIsAChannel == Spec => ChannelSpec
<1>1. Init => Channel!Init
  BY InitInv
<1>2. IInv /\ [Next]_vars => [Channel!Next]_<<Numbered, got, Broken>>
  BY StepInv DEF ChannelStep
<1>3. ChannelSpec <=> Channel!Init /\ [][Channel!Next]_<<Numbered, got, Broken>>
  BY DEF ChannelSpec, Channel!Spec, Numbered, Broken
<1> QED
  BY <1>1, <1>2, <1>3, Invariance, PTL DEF Spec, Safety

\* wsize() is what is left to write of the queue: output() and pop_wbytes keep wsize_,
\* wstart_ and wqueue_ in step however writev cuts the bytes.
THEOREM WriteSizesMatch == Spec => []WsizeMatches
<1>1. IInv => WsizeMatches
  BY DEF IInv, StreamInv, Flow, Counted, WsizeMatches
<1> QED
  BY <1>1, Invariance, PTL

\* input() does not go on, and is not called again, once a callback or the
\* application has destroyed the msg_sock.
THEOREM DestroyedSocksRest == Spec => []NoUseAfterDestroy
<1>1. IInv => NoUseAfterDestroy
  BY DEF IInv, ReadInv
<1> QED
  BY <1>1, Invariance, PTL

\* A receiver is told of a framing error only when the next message is too long or a
\* fragment, and of end of file only after a close.
THEOREM FailuresHaveCauses == Spec => []FailuresAreCaused
<1>1. IInv => FailuresAreCaused
  BY DEF IInv, FailInv, FailuresAreCaused
<1> QED
  BY <1>1, Invariance, PTL

\* A Write callback is registered only while something is queued or a write has failed.
THEOREM WakeupsHaveWork == Spec => []NoIdleWakeups
<1>1. IInv => NoIdleWakeups
  BY DEF IInv, WakeInv
<1> QED
  BY <1>1, Invariance, PTL
===============================================================================
