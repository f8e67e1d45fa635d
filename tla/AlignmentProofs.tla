--------------------------- MODULE AlignmentProofs ---------------------------
(* Pipelining: every request of a connection is read from its own first     *)
(* piece on, for any number of requests, whatever the client sends and the  *)
(* service does, up to the first body that is not read to its end.          *)
EXTENDS ServeProofs

-----------------------------------------------------------------------------
(* The l pieces s of m requests rs, one request after the other. *)

(* Piece i is the first of request k, or will be. *)
BeginsIn(s, l, m, i, k) ==
    \/ i \in 1..l /\ s[i] = [k |-> k, t |-> "line"]
    \/ i = l + 1 /\ k = m + 1

(* The request that begins with piece i is there in its shape. *)
Shaped(s, l, rs, m, i) ==
    LET k == s[i].k
        shape == Shape(rs[k])
    IN  /\ \A o \in 1..Len(shape) : i + o - 1 \in 1..l /\ s[i + o - 1] = [k |-> k, t |-> shape[o]]
        /\ BeginsIn(s, l, m, i + Len(shape), k + 1)

LaidOut(s, l, rs, m) ==
    /\ BeginsIn(s, l, m, 1, 1)
    /\ \A k \in 1..m : rs[k] \in RequestRecords
    /\ \A i \in 1..l : s[i].k \in 1..m
    /\ \A i, j \in 1..l : i <= j => s[i].k <= s[j].k
    /\ \A i \in 1..l : s[i].t = "line" => Shaped(s, l, rs, m, i)

(* c pieces have been read: the last d of them are of request k; or none is *)
(* left of the requests before k.                                           *)
In(s, l, c, k, d) == c + 1 - d \in 1..l /\ s[c + 1 - d] = [k |-> k, t |-> "line"]
Before(s, l, m, c, k) == k <= m + 1 /\ \A i \in 1..l : i > c => s[i].k >= k

(* What a request looks like. *)
LEMMA ShapeOf ==
    ASSUME NEW r \in RequestRecords
    PROVE  /\ Shape(r) \in Seq(PieceKinds) /\ Len(Shape(r)) \in 2..5
           /\ Shape(r)[1] = "line" /\ Shape(r)[2] = "fields"
           /\ \A o \in 2..Len(Shape(r)) : Shape(r)[o] # "line"
           /\ r.body = "small" => Len(Shape(r)) = 3 /\ Shape(r)[3] = "data"
           /\ r.body = "large" => Len(Shape(r)) = 4 /\ Shape(r)[3] = "data" /\ Shape(r)[4] = "data"
           /\ r.body = "chunked" =>
                Len(Shape(r)) = 5 /\ Shape(r)[3] = "chunk" /\ Shape(r)[4] = "last" /\ Shape(r)[5] = "crlf"
           /\ r.body \in {"none", "buffered"} => Len(Shape(r)) = 2
<1> DEFINE head == << "line", "fields" >>
           tail == BodyPieces(r.body)
<1>1. r.body \in {"none", "small", "large", "chunked", "buffered"}
  BY DEF RequestRecords
<1>2. head \in Seq(PieceKinds) /\ Len(head) = 2 /\ head[1] = "line" /\ head[2] = "fields"
  BY DEF PieceKinds
<1>3. /\ tail \in Seq(PieceKinds) /\ Len(tail) \in 0..3 /\ \A i \in 1..Len(tail) : tail[i] # "line"
      /\ r.body = "small" => Len(tail) = 1 /\ tail[1] = "data"
      /\ r.body = "large" => Len(tail) = 2 /\ tail[1] = "data" /\ tail[2] = "data"
      /\ r.body = "chunked" => Len(tail) = 3 /\ tail[1] = "chunk" /\ tail[2] = "last" /\ tail[3] = "crlf"
      /\ r.body \in {"none", "buffered"} => Len(tail) = 0
  <2>1. CASE r.body = "small"
    BY <2>1 DEF BodyPieces, PieceKinds
  <2>2. CASE r.body = "large"
    BY <2>2 DEF BodyPieces, PieceKinds
  <2>3. CASE r.body = "chunked"
    BY <2>3 DEF BodyPieces, PieceKinds
  <2>4. CASE r.body \in {"none", "buffered"}
    BY <2>4 DEF BodyPieces, PieceKinds
  <2> QED BY <1>1, <2>1, <2>2, <2>3, <2>4
<1> HIDE DEF head, tail
<1>4. /\ head \o tail \in Seq(PieceKinds) /\ Len(head \o tail) = 2 + Len(tail)
      /\ (head \o tail)[1] = "line" /\ (head \o tail)[2] = "fields"
      /\ \A i \in 1..Len(tail) : (head \o tail)[2 + i] = tail[i]
  <2>1. /\ head \o tail \in Seq(PieceKinds) /\ Len(head \o tail) = Len(head) + Len(tail)
        /\ \A i \in 1..Len(head) : (head \o tail)[i] = head[i]
        /\ \A i \in 1..Len(tail) : (head \o tail)[Len(head) + i] = tail[i]
    <3>1. head \in Seq(PieceKinds) /\ tail \in Seq(PieceKinds)
      BY <1>2, <1>3
    <3> QED BY <3>1, Concatenated
  <2>2. Len(head) = 2 /\ 1 \in 1..Len(head) /\ 2 \in 1..Len(head)
    BY <1>2
  <2> QED BY <1>2, <2>1, <2>2
<1>5. PICK s \in Seq(PieceKinds) : s = head \o tail
  BY <1>4
<1>6. s = Shape(r)
  BY <1>5 DEF Shape, head, tail
<1>7. \A o \in 2..Len(s) : s[o] # "line"
  <2> SUFFICES ASSUME NEW o \in 2..Len(s) PROVE s[o] # "line"
    OBVIOUS
  <2>1. CASE o = 2
    BY <1>4, <1>5, <2>1
  <2>2. CASE o # 2
    <3>1. o - 2 \in 1..Len(tail) /\ o = 2 + (o - 2)
      BY <1>3, <1>4, <1>5, <2>2
    <3> QED BY <1>3, <1>4, <1>5, <3>1
  <2> QED BY <2>1, <2>2
<1>8. Len(s) \in 2..5 /\ s[1] = "line" /\ s[2] = "fields"
  <2>1. Len(tail) \in 0..3 /\ Len(s) = 2 + Len(tail)
    BY <1>3, <1>4, <1>5
  <2>2. s[1] = "line" /\ s[2] = "fields"
    BY <1>4, <1>5
  <2>3. ASSUME NEW l, NEW m, l \in 0..3, m = 2 + l PROVE m \in 2..5
    BY <2>3
  <2>4. Len(s) \in 2..5
    BY <2>1, <2>3, Zenon
  <2> QED BY <2>2, <2>4
<1>9. /\ r.body = "small" => Len(s) = 3 /\ s[3] = "data"
      /\ r.body = "large" => Len(s) = 4 /\ s[3] = "data" /\ s[4] = "data"
      /\ r.body = "chunked" => Len(s) = 5 /\ s[3] = "chunk" /\ s[4] = "last" /\ s[5] = "crlf"
      /\ r.body \in {"none", "buffered"} => Len(s) = 2
  <2>1. \A i \in 1..Len(tail) : s[2 + i] = tail[i]
    BY <1>4, <1>5
  <2>2. Len(s) = 2 + Len(tail)
    BY <1>4, <1>5
  <2>3. 2 + 0 = 2 /\ 2 + 1 = 3 /\ 2 + 2 = 4 /\ 2 + 3 = 5 /\ 1 \in 1..1 /\ 1 \in 1..2 /\ 2 \in 1..2
        /\ 1 \in 1..3 /\ 2 \in 1..3 /\ 3 \in 1..3
    OBVIOUS
  <2>4. CASE r.body = "small"
    <3>1. Len(tail) = 1 /\ tail[1] = "data"
      BY <1>3, <2>4, Zenon
    <3> QED BY <2>1, <2>2, <2>3, <2>4, <3>1, Zenon
  <2>5. CASE r.body = "large"
    <3>1. Len(tail) = 2 /\ tail[1] = "data" /\ tail[2] = "data"
      BY <1>3, <2>5, Zenon
    <3> QED BY <2>1, <2>2, <2>3, <2>5, <3>1, Zenon
  <2>6. CASE r.body = "chunked"
    <3>1. Len(tail) = 3 /\ tail[1] = "chunk" /\ tail[2] = "last" /\ tail[3] = "crlf"
      BY <1>3, <2>6, Zenon
    <3> QED BY <2>1, <2>2, <2>3, <2>6, <3>1, Zenon
  <2>7. CASE r.body \in {"none", "buffered"}
    <3>1. Len(tail) = 0
      BY <1>3, <2>7, Zenon
    <3> QED BY <2>2, <2>3, <2>7, <3>1
  <2> QED BY <1>1, <2>4, <2>5, <2>6, <2>7
<1> QED BY <1>6, <1>7, <1>8, <1>9

(* More requests: what was there stays where it was. *)
Grown(s, l, rs, m, s2, l2, rs2, m2) ==
    /\ l <= l2 /\ \A i \in 1..l : s2[i] = s[i]
    /\ m <= m2 /\ \A k \in 1..m : rs2[k] = rs[k]
    /\ \A i \in 1..l2 : i > l => s2[i].k \in 1..m2 /\ s2[i].k > m
    /\ \A i, k : BeginsIn(s, l, m, i, k) => BeginsIn(s2, l2, m2, i, k)

(* One more request r. *)
OneMore(s, l, rs, m, s2, l2, rs2, m2, r) ==
    /\ l \in Nat /\ m \in Nat /\ l2 \in Nat /\ m2 \in Nat /\ r \in RequestRecords
    /\ l2 = l + Len(Shape(r)) /\ m2 = m + 1
    /\ \A i \in 1..l : s2[i] = s[i]
    /\ \A o \in 1..Len(Shape(r)) : s2[l + o] = [k |-> m2, t |-> Shape(r)[o]]
    /\ \A k \in 1..m : rs2[k] = rs[k]
    /\ rs2[m2] = r

(* One more request at the end of the stream leaves every place before it   *)
(* what it was.                                                             *)
LEMMA LaidOutMore ==
    ASSUME NEW s, NEW rs, NEW s2, NEW rs2, NEW l, NEW m, NEW l2, NEW m2, NEW r,
           LaidOut(s, l, rs, m), OneMore(s, l, rs, m, s2, l2, rs2, m2, r)
    PROVE  LaidOut(s2, l2, rs2, m2) /\ Grown(s, l, rs, m, s2, l2, rs2, m2)
<1>0. r \in RequestRecords /\ Len(Shape(r)) \in Nat
  <2>1. r \in RequestRecords
    BY DEF OneMore
  <2>2. Len(Shape(r)) \in 2..5
    BY <2>1, ShapeOf
  <2> QED BY <2>1, <2>2
<1>2. PICK size \in Nat : size = Len(Shape(r))
  BY <1>0
<1>3. /\ l \in Nat /\ m \in Nat /\ l2 \in Nat /\ m2 \in Nat /\ l2 = l + size /\ m2 = m + 1
      /\ \A i \in 1..l : s2[i] = s[i]
      /\ \A o \in 1..size : s2[l + o] = [k |-> m2, t |-> Shape(r)[o]]
      /\ \A k \in 1..m : rs2[k] = rs[k]
      /\ rs2[m2] = r
  BY <1>2 DEF OneMore
<1>4. ASSUME NEW a \in Nat, NEW b \in 2..5 PROVE a + 1 \in 1..(a + b) /\ a + 1 > a /\ (a + 1) - a = 1
  OBVIOUS
<1> USE <1>0, <1>2, <1>3
<1>1. /\ size \in 2..5 /\ Shape(r)[1] = "line" /\ \A o \in 2..size : Shape(r)[o] # "line"
  BY ShapeOf
<1>5. ASSUME NEW i \in 1..l2, i > l
      PROVE  i - l \in 1..size /\ s2[i] = [k |-> m2, t |-> Shape(r)[i - l]] /\ s2[i].k = m2
  <2>1. i - l \in 1..size /\ i = l + (i - l)
    BY <1>5
  <2>2. s2[i] = [k |-> m2, t |-> Shape(r)[i - l]]
    BY <2>1
  <2> QED BY <2>1, <2>2
<1>6. ASSUME NEW i, NEW k, BeginsIn(s, l, m, i, k) PROVE BeginsIn(s2, l2, m2, i, k)
  <2>1. CASE i \in 1..l /\ s[i] = [k |-> k, t |-> "line"]
    BY <2>1 DEF BeginsIn
  <2>2. CASE i = l + 1 /\ k = m + 1
    <3>1. i \in 1..l2 /\ i > l /\ i - l = 1
      <4>1. l + 1 \in 1..l2 /\ l + 1 > l /\ (l + 1) - l = 1
        BY <1>1, <1>4, Zenon
      <4> QED BY <2>2, <4>1, Zenon
    <3>2. s2[i] = [k |-> m2, t |-> Shape(r)[1]]
      BY <1>5, <3>1
    <3> QED BY <1>1, <2>2, <3>1, <3>2 DEF BeginsIn
  <2> QED BY <1>6, <2>1, <2>2 DEF BeginsIn
<1>7. \A i \in 1..l2 : i \in 1..l \/ i > l
  OBVIOUS
<1>8. Grown(s, l, rs, m, s2, l2, rs2, m2)
  <2>1. \A i \in 1..l2 : i > l => s2[i].k = m2
    BY <1>5
  <2> QED BY <1>6, <2>1 DEF Grown
<1>9. BeginsIn(s2, l2, m2, 1, 1)
  BY <1>6 DEF LaidOut
<1>10. ASSUME NEW i \in 1..l2 PROVE s2[i].k \in 1..m2
  <2>1. CASE i \in 1..l
    BY <2>1 DEF LaidOut
  <2>2. CASE i > l
    <3>1. s2[i].k = m2
      BY <1>5, <2>2, Zenon
    <3>2. m2 \in 1..m2
      OBVIOUS
    <3> QED BY <3>1, <3>2, Zenon
  <2> QED BY <1>7, <2>1, <2>2
<1>11. ASSUME NEW i \in 1..l2, NEW j \in 1..l2, i <= j PROVE s2[i].k <= s2[j].k
  <2>1. CASE j \in 1..l
    <3>1. i \in 1..l
      BY <1>11, <2>1
    <3> QED BY <1>11, <2>1, <3>1 DEF LaidOut
  <2>2. CASE j > l
    <3>1. s2[j].k = m2 /\ s2[i].k \in 1..m2
      BY <1>5, <1>10, <2>2
    <3> QED BY <3>1
  <2> QED BY <1>7, <2>1, <2>2
<1>12. ASSUME NEW i \in 1..l2, s2[i].t = "line" PROVE Shaped(s2, l2, rs2, m2, i)
  <2>1. CASE i \in 1..l
    <3>1. s2[i] = s[i] /\ s[i].k \in 1..m /\ rs2[s[i].k] = rs[s[i].k] /\ Shaped(s, l, rs, m, i)
      BY <1>12, <2>1 DEF LaidOut
    <3> DEFINE shape == Shape(rs[s[i].k])
    <3>2. ASSUME NEW o \in 1..Len(shape)
          PROVE  /\ i + o - 1 \in 1..l2
                 /\ s2[i + o - 1] = [k |-> s[i].k, t |-> shape[o]]
      <4>1. i + o - 1 \in 1..l /\ s[i + o - 1] = [k |-> s[i].k, t |-> shape[o]]
        BY <3>1 DEF Shaped
      <4> QED BY <4>1
    <3>3. BeginsIn(s2, l2, m2, i + Len(shape), s[i].k + 1)
      BY <1>6, <3>1 DEF Shaped
    <3> QED BY <3>1, <3>2, <3>3 DEF Shaped
  <2>2. CASE i > l
    <3>1. i - l \in 1..size /\ s2[i] = [k |-> m2, t |-> Shape(r)[i - l]]
      BY <1>5, <2>2
    <3>2. i = l + 1
      BY <1>1, <1>12, <3>1
    <3>3. s2[i].k = m2
      BY <3>1
    <3>4. ASSUME NEW o \in 1..size
          PROVE  i + o - 1 \in 1..l2 /\ s2[i + o - 1] = [k |-> m2, t |-> Shape(r)[o]]
      <4>1. i + o - 1 = l + o /\ l + o \in 1..l2
        BY <3>2
      <4> QED BY <4>1
    <3>5. BeginsIn(s2, l2, m2, i + size, m2 + 1)
      <4>1. i + size = l2 + 1
        BY <3>2
      <4> QED BY <4>1 DEF BeginsIn
    <3> QED BY <3>3, <3>4, <3>5 DEF Shaped
  <2> QED BY <1>7, <2>1, <2>2
<1>13. ASSUME NEW k \in 1..m2 PROVE rs2[k] \in RequestRecords
  BY DEF LaidOut
<1> QED BY <1>8, <1>9, <1>10, <1>11, <1>12, <1>13 DEF LaidOut

(* Places in the stream stay what they are when it grows. *)
LEMMA GrownPlaces ==
    ASSUME NEW s, NEW rs, NEW s2, NEW rs2, NEW l \in Nat, NEW m \in Nat, NEW l2 \in Nat, NEW m2 \in Nat,
           Grown(s, l, rs, m, s2, l2, rs2, m2), NEW c \in Nat, NEW k \in Int, NEW d \in Nat
    PROVE  /\ In(s, l, c, k, d) => In(s2, l2, c, k, d)
           /\ BeginsIn(s, l, m, c + 1, k) => BeginsIn(s2, l2, m2, c + 1, k)
           /\ Before(s, l, m, c, k) => Before(s2, l2, m2, c, k)
<1>1. In(s, l, c, k, d) => In(s2, l2, c, k, d)
  BY DEF In, Grown
<1>2. ASSUME Before(s, l, m, c, k) PROVE Before(s2, l2, m2, c, k)
  <2>1. k <= m2 + 1
    BY <1>2 DEF Before, Grown
  <2>2. ASSUME NEW i \in 1..l2, i > c PROVE s2[i].k >= k
    <3>1. CASE i \in 1..l
      BY <1>2, <2>2, <3>1 DEF Before, Grown
    <3>2. CASE i > l
      BY <1>2, <3>2 DEF Grown, Before
    <3> QED BY <3>1, <3>2
  <2> QED BY <2>1, <2>2 DEF Before
<1> QED BY <1>1, <1>2 DEF Grown

(* The next piece, d pieces into a request, and the place after it. *)
LEMMA NextInRequest ==
    ASSUME NEW s, NEW rs, NEW l \in Nat, NEW m \in Nat, LaidOut(s, l, rs, m),
           NEW c \in Nat, NEW k \in Int, NEW d \in 1..5, In(s, l, c, k, d)
    PROVE  /\ k \in 1..m /\ rs[k] \in RequestRecords /\ Before(s, l, m, c, k)
           /\ d < Len(Shape(rs[k])) =>
                c + 1 \in 1..l /\ s[c + 1] = [k |-> k, t |-> Shape(rs[k])[d + 1]]
           /\ d = Len(Shape(rs[k])) => BeginsIn(s, l, m, c + 1, k + 1)
           /\ In(s, l, c + 1, k, d + 1)
<1> DEFINE i == c + 1 - d
<1>1. i \in 1..l /\ s[i] = [k |-> k, t |-> "line"]
  BY DEF In
<1>2. s[i].k = k /\ s[i].t = "line"
  BY <1>1
<1>3. k \in 1..m /\ rs[k] \in RequestRecords /\ Shaped(s, l, rs, m, i)
  BY <1>1, <1>2 DEF LaidOut
<1>4. Len(Shape(rs[k])) \in 2..5
  BY <1>3, ShapeOf
<1>5. Before(s, l, m, c, k)
  <2>1. ASSUME NEW j \in 1..l, j > c PROVE s[j].k >= k
    <3>1. i <= j
      BY <2>1
    <3>2. s[i].k <= s[j].k
      BY <1>1, <3>1 DEF LaidOut
    <3>3. s[j].k \in 1..m
      BY DEF LaidOut
    <3> QED BY <1>2, <3>2, <3>3
  <2> QED BY <1>3, <2>1 DEF Before
<1>6. ASSUME d < Len(Shape(rs[k]))
      PROVE  c + 1 \in 1..l /\ s[c + 1] = [k |-> k, t |-> Shape(rs[k])[d + 1]]
  <2>1. d + 1 \in 1..Len(Shape(rs[k])) /\ i + (d + 1) - 1 = c + 1
    BY <1>4, <1>6
  <2> QED BY <1>2, <1>3, <2>1 DEF Shaped
<1>7. ASSUME d = Len(Shape(rs[k])) PROVE BeginsIn(s, l, m, c + 1, k + 1)
  <2>1. i + Len(Shape(rs[k])) = c + 1
    BY <1>4, <1>7
  <2> QED BY <1>2, <1>3, <2>1 DEF Shaped
<1>8. In(s, l, c + 1, k, d + 1)
  <2>1. (c + 1) + 1 - (d + 1) = i
    OBVIOUS
  <2> QED BY <1>1, <2>1 DEF In
<1> QED BY <1>3, <1>5, <1>6, <1>7, <1>8

(* The first piece of a request. *)
LEMMA NextBegins ==
    ASSUME NEW s, NEW rs, NEW l \in Nat, NEW m \in Nat, LaidOut(s, l, rs, m),
           NEW c \in Nat, NEW k \in Int, BeginsIn(s, l, m, c + 1, k)
    PROVE  /\ k \in 1..(m + 1) /\ Before(s, l, m, c, k)
           /\ c + 1 \in 1..l => k \in 1..m /\ s[c + 1] = [k |-> k, t |-> "line"] /\ In(s, l, c + 1, k, 1)
<1>1. CASE c + 1 \in 1..l /\ s[c + 1] = [k |-> k, t |-> "line"]
  <2>1. s[c + 1].k = k /\ k \in 1..m
    BY <1>1 DEF LaidOut
  <2>2. ASSUME NEW j \in 1..l, j > c PROVE s[j].k >= k
    <3>1. c + 1 <= j
      BY <2>2
    <3>2. s[c + 1].k <= s[j].k
      BY <1>1, <3>1 DEF LaidOut
    <3>3. s[j].k \in 1..m
      BY DEF LaidOut
    <3> QED BY <2>1, <3>2, <3>3
  <2>3. Before(s, l, m, c, k)
    BY <2>1, <2>2 DEF Before
  <2>4. (c + 1) + 1 - 1 = c + 1
    OBVIOUS
  <2> QED BY <1>1, <2>1, <2>3, <2>4 DEF In
<1>2. CASE c + 1 = l + 1 /\ k = m + 1
  BY <1>2 DEF Before
<1> QED BY <1>1, <1>2 DEF BeginsIn

(* Reading on keeps the requests before k behind. *)
LEMMA BeforeOn ==
    ASSUME NEW s, NEW rs, NEW l \in Nat, NEW m \in Nat, LaidOut(s, l, rs, m),
           NEW c \in Nat, NEW k \in Int, Before(s, l, m, c, k)
    PROVE  /\ Before(s, l, m, c + 1, k)
           /\ c + 1 \in 1..l => s[c + 1].k >= k
           /\ \A j \in Int : j <= k => Before(s, l, m, c, j)
<1>1. ASSUME NEW j \in Int, j <= k PROVE Before(s, l, m, c, j)
  <2>1. ASSUME NEW i \in 1..l, i > c PROVE s[i].k >= j
    <3>1. s[i].k >= k /\ s[i].k \in 1..m
      BY <2>1 DEF Before, LaidOut
    <3> QED BY <1>1, <3>1
  <2> QED BY <1>1, <2>1 DEF Before
<1> QED BY <1>1 DEF Before

-----------------------------------------------------------------------------
(* All that the client has sent or will send of the requests it started. *)
AllPieces == wire \o unsent
Layout == LaidOut(AllPieces, Len(AllPieces), reqs, Len(reqs))

(* The last d pieces read are of request k; the next is its first; none is  *)
(* left of the requests before it.                                          *)
InRequest(k, d) == In(AllPieces, Len(AllPieces), Len(consumed), k, d)
Begin(k) == BeginsIn(AllPieces, Len(AllPieces), Len(reqs), Len(consumed) + 1, k)
Behind(k) == Before(AllPieces, Len(AllPieces), Len(reqs), Len(consumed), k)

(* The sizes of the stream, and that what is on the wire is its first part. *)
LEMMA StreamSizes ==
    ASSUME TypeInv
    PROVE  /\ AllPieces \in Seq(WirePieces) /\ Len(AllPieces) \in Nat
           /\ Len(wire) \in Nat /\ Len(reqs) \in Nat /\ Len(consumed) \in Nat
           /\ Len(wire) <= Len(AllPieces) /\ \A i \in 1..Len(wire) : AllPieces[i] = wire[i]
<1>1. wire \in Seq(WirePieces) /\ unsent \in Seq(WirePieces) /\ reqs \in Seq(ClientRequests)
  BY DEF TypeInv, ClientTyped
<1>2. /\ AllPieces \in Seq(WirePieces) /\ Len(wire) \in Nat /\ Len(unsent) \in Nat
      /\ Len(AllPieces) = Len(wire) + Len(unsent)
      /\ \A i \in 1..Len(wire) : AllPieces[i] = wire[i]
  BY <1>1, Concatenated DEF AllPieces
<1>3. Len(reqs) \in Nat /\ Len(consumed) \in Nat
  BY <1>1, QueueAssumed DEF TypeInv, ServeInv, RQ!TypeOK, RQ!QueueAssumption
<1> QED BY <1>2, <1>3

(* The place in the stream tells what comes next. *)
PlaceFacts ==
    \A k \in Int :
        /\ \A d \in 1..5 : InRequest(k, d) =>
            /\ k \in 1..Len(reqs) /\ reqs[k] \in RequestRecords /\ Behind(k)
            /\ d = Len(Shape(reqs[k])) => Begin(k + 1)
        /\ Begin(k) => k \in 1..(Len(reqs) + 1) /\ Behind(k)
        /\ Behind(k) => \A j \in Int : j <= k => Behind(j)

(* Every place in a stream that is laid out tells what comes next. *)
LEMMA Places == TypeInv /\ Layout => PlaceFacts
<1> SUFFICES ASSUME TypeInv, Layout, NEW k \in Int
             PROVE  /\ \A d \in 1..5 : InRequest(k, d) =>
                        /\ k \in 1..Len(reqs) /\ reqs[k] \in RequestRecords /\ Behind(k)
                        /\ d = Len(Shape(reqs[k])) => Begin(k + 1)
                    /\ Begin(k) => k \in 1..(Len(reqs) + 1) /\ Behind(k)
                    /\ Behind(k) => \A j \in Int : j <= k => Behind(j)
  BY DEF PlaceFacts
<1> DEFINE l == Len(AllPieces)
           m == Len(reqs)
           c == Len(consumed)
<1>1. l \in Nat /\ m \in Nat /\ c \in Nat
  BY StreamSizes
<1> HIDE DEF l, m, c
<1>2. LaidOut(AllPieces, l, reqs, m)
  BY DEF Layout, l, m
<1>3. ASSUME NEW d \in 1..5, In(AllPieces, l, c, k, d)
      PROVE  /\ k \in 1..m /\ reqs[k] \in RequestRecords /\ Before(AllPieces, l, m, c, k)
             /\ d = Len(Shape(reqs[k])) => BeginsIn(AllPieces, l, m, c + 1, k + 1)
  <2>1. /\ k \in 1..m /\ reqs[k] \in RequestRecords /\ Before(AllPieces, l, m, c, k)
        /\ d < Len(Shape(reqs[k])) =>
             c + 1 \in 1..l /\ AllPieces[c + 1] = [k |-> k, t |-> Shape(reqs[k])[d + 1]]
        /\ d = Len(Shape(reqs[k])) => BeginsIn(AllPieces, l, m, c + 1, k + 1)
        /\ In(AllPieces, l, c + 1, k, d + 1)
    BY <1>1, <1>2, <1>3, NextInRequest, Zenon
  <2> QED BY <2>1, Zenon
<1>4. BeginsIn(AllPieces, l, m, c + 1, k) => k \in 1..(m + 1) /\ Before(AllPieces, l, m, c, k)
  BY <1>1, <1>2, NextBegins
<1>5. Before(AllPieces, l, m, c, k) => \A j \in Int : j <= k => Before(AllPieces, l, m, c, j)
  BY <1>1, <1>2, BeforeOn
<1>6. /\ \A d \in 1..5 : InRequest(k, d) <=> In(AllPieces, l, c, k, d)
      /\ \A j \in Int : Begin(j) <=> BeginsIn(AllPieces, l, m, c + 1, j)
      /\ \A j \in Int : Behind(j) <=> Before(AllPieces, l, m, c, j)
  BY DEF l, m, c, InRequest, Begin, Behind
<1>7. k + 1 \in Int
  OBVIOUS
<1> QED BY <1>3, <1>4, <1>5, <1>6, <1>7 DEF m

(* Only a new request adds to what is to be read, at the end. *)
LEMMA LayoutStep ==
    ASSUME TypeInv, Layout, [Next]_vars
    PROVE  /\ Layout'
           /\ Grown(AllPieces, Len(AllPieces), reqs, Len(reqs), AllPieces', Len(AllPieces'), reqs', Len(reqs'))
           /\ UNCHANGED <<reqs, AllPieces>> \/ ClientStart
<1>1. /\ wire \in Seq(WirePieces) /\ unsent \in Seq(WirePieces) /\ reqs \in Seq(ClientRequests)
      /\ ClientRequests \subseteq RequestRecords /\ MaxRequests \in Nat
      /\ Len(AllPieces) \in Nat /\ Len(reqs) \in Nat
  BY StreamSizes, ServeAssumption DEF TypeInv, ClientTyped
<1>2. ASSUME UNCHANGED <<reqs, AllPieces>>
      PROVE  /\ Layout'
             /\ Grown(AllPieces, Len(AllPieces), reqs, Len(reqs), AllPieces', Len(AllPieces'), reqs', Len(reqs'))
  <2>1. ASSUME NEW s, NEW rs, NEW l \in Nat, NEW m \in Nat PROVE Grown(s, l, rs, m, s, l, rs, m)
    BY DEF Grown
  <2>2. Layout'
    BY <1>2 DEF Layout
  <2> QED BY <1>1, <1>2, <2>1, <2>2
<1>3. CASE UNCHANGED <<reqs, wire, unsent>>
  BY <1>2, <1>3 DEF AllPieces
<1>4. CASE ClientSend \/ ClientSendEarly
  <2>1. unsent # << >> /\ wire' = Append(wire, Head(unsent)) /\ unsent' = Tail(unsent) /\ UNCHANGED reqs
    BY <1>4 DEF ClientSend, ClientSendEarly, PutOnWire
  <2>2. AllPieces' = AllPieces
    BY <1>1, <2>1, HeadMoves DEF AllPieces
  <2> QED BY <1>2, <2>1, <2>2
<1>5. CASE ClientStart
  <2>1. PICK r \in ClientRequests :
            reqs' = Append(reqs, r) /\ unsent' = Pieces(Len(reqs) + 1, r)
    BY <1>5 DEF ClientStart
  <2>2. Len(reqs) < MaxRequests /\ UNCHANGED wire /\ unsent = << >>
    BY <1>5 DEF ClientStart
  <2> DEFINE s == AllPieces
             l == Len(AllPieces)
             m == Len(reqs)
             p == Pieces(m + 1, r)
             size == Len(Shape(r))
  <2>3. r \in RequestRecords /\ m + 1 \in Readers /\ size \in Nat
    <3>1. r \in RequestRecords
      BY <1>1
    <3>2. size \in 2..5
      BY <3>1, ShapeOf
    <3> QED BY <1>1, <2>2, <3>1, <3>2 DEF Readers, MaxReaders
  <2>4. p \in Seq(WirePieces) /\ Len(p) = size /\ \A o \in 1..size : p[o] = [k |-> m + 1, t |-> Shape(r)[o]]
    <3>1. p \in Seq(WirePieces)
      BY <2>3, PiecesTyped
    <3>2. p = [o \in 1..size |-> [k |-> m + 1, t |-> Shape(r)[o]]]
      BY DEF Pieces
    <3>3. Len(p) = size
      <4>1. DOMAIN p = 1..Len(p) /\ DOMAIN p = 1..size /\ Len(p) \in Nat /\ size \in Nat
        BY <2>3, <3>1, <3>2
      <4>2. ASSUME NEW a \in Nat, NEW b \in Nat, 1..a = 1..b PROVE a = b
        <5>1. (a > 0 => a \in 1..b) /\ (b > 0 => b \in 1..a)
          BY <4>2
        <5> QED BY <5>1
      <4> HIDE DEF p, size
      <4> QED BY <4>1, <4>2, Zenon
    <3> HIDE DEF p
    <3>4. \A o \in 1..size : p[o] = [k |-> m + 1, t |-> Shape(r)[o]]
      BY <3>2
    <3> QED BY <3>1, <3>3, <3>4
  <2>5. AllPieces = wire /\ AllPieces' = wire \o p
    BY <1>1, <2>1, <2>2, EmptyRight DEF AllPieces
  <2>6. /\ Len(AllPieces') = l + size /\ \A i \in 1..l : AllPieces'[i] = s[i]
        /\ \A o \in 1..size : AllPieces'[l + o] = [k |-> m + 1, t |-> Shape(r)[o]]
    <3> HIDE DEF p
    <3>1. /\ Len(wire \o p) = Len(wire) + Len(p) /\ \A i \in 1..Len(wire) : (wire \o p)[i] = wire[i]
          /\ \A i \in 1..Len(p) : (wire \o p)[Len(wire) + i] = p[i]
      <4>1. wire \in Seq(WirePieces) /\ p \in Seq(WirePieces)
        BY <1>1, <2>4
      <4> QED BY <4>1, Concatenated
    <3>2. /\ Len(AllPieces') = l + Len(p) /\ \A i \in 1..l : AllPieces'[i] = s[i]
          /\ \A i \in 1..Len(p) : AllPieces'[l + i] = p[i]
      <4>1. wire = s /\ Len(wire) = l /\ wire \o p = AllPieces'
        BY <2>5
      <4> HIDE DEF s, l
      <4> QED BY <3>1, <4>1, Zenon
    <3> QED BY <2>4, <3>2, Zenon
  <2>7. Len(reqs') = m + 1 /\ reqs'[m + 1] = r /\ \A k \in 1..m : reqs'[k] = reqs[k]
    BY <1>1, <2>1, Appended
  <2>8. PICK l2 \in Nat, m2 \in Nat : l2 = Len(AllPieces') /\ m2 = Len(reqs') /\ l2 = l + size /\ m2 = m + 1
    BY <1>1, <2>3, <2>6, <2>7
  <2> HIDE DEF p, size, l, m, s
  <2>9. /\ LaidOut(AllPieces', l2, reqs', m2)
        /\ Grown(s, l, reqs, m, AllPieces', l2, reqs', m2)
    <3>1. l \in Nat /\ m \in Nat /\ LaidOut(s, l, reqs, m)
      BY <1>1 DEF l, m, s, Layout
    <3>2. \A o \in 1..size : AllPieces'[l + o] = [k |-> m2, t |-> Shape(r)[o]]
      BY <2>6, <2>8, Zenon
    <3>3. OneMore(s, l, reqs, m, AllPieces', l2, reqs', m2, r)
      BY <2>3, <2>6, <2>7, <2>8, <3>1, <3>2 DEF OneMore, size
    <3> QED BY <3>1, <3>3, LaidOutMore
  <2> QED BY <1>5, <2>8, <2>9 DEF Layout, s, l, m
<1> QED
  BY <1>3, <1>4, <1>5, <1>2, SMTT(30)
     DEF AllPieces, Next, ServerStep, ThreadStep, ClientStep, CapturedForever, Terminated, vars, clientVars,
         Start, ParseRecv, ParsePiece, ParseEof, BufferBody, ParseReadFails, ParsedWithoutStream, ParsedWithStream,
         ParseFailed, Dispatch, ExpectContinue, ExpectReject, Call, CallSpawn, CallEcho, CallCapture, UsePiece, UseDone,
         UseTimeout, WriteResponse, KeepAlive, Close, Upgrade, WriteFails, WriteBodyFails, DropReader, DropQueue,
         IntoInner, HandlerReturns, DropWriter, ThreadPiece, ThreadDone, ThreadTimeout, ClientClose

(* A step that reads nothing leaves the place in the stream as it is. *)
LEMMA PlacesKept ==
    ASSUME TypeInv, TypeInv', Layout, [Next]_vars, UNCHANGED consumed
    PROVE  \A k \in Int : /\ Begin(k) => Begin(k)'
                          /\ Behind(k) => Behind(k)'
                          /\ \A d \in Nat : InRequest(k, d) => InRequest(k, d)'
<1> DEFINE l == Len(AllPieces)
           m == Len(reqs)
           c == Len(consumed)
<1>1. l \in Nat /\ m \in Nat /\ c \in Nat /\ l' \in Nat /\ m' \in Nat /\ c' = c
  BY StreamSizes
<1>2. Grown(AllPieces, l, reqs, m, AllPieces', l', reqs', m')
  BY LayoutStep
<1> SUFFICES ASSUME NEW k \in Int
             PROVE  /\ Begin(k) => Begin(k)'
                    /\ Behind(k) => Behind(k)'
                    /\ \A d \in Nat : InRequest(k, d) => InRequest(k, d)'
  OBVIOUS
<1>7. PICK s2, rs2 : s2 = AllPieces' /\ rs2 = reqs'
  OBVIOUS
<1>8. PICK l2 \in Nat, m2 \in Nat : l2 = l' /\ m2 = m'
  BY <1>1
<1>3. l2 = l' /\ m2 = m' /\ s2 = AllPieces' /\ rs2 = reqs'
  BY <1>7, <1>8
<1>4. \A d \in Nat : /\ In(AllPieces, l, c, k, d) => In(s2, l2, c, k, d)
                     /\ BeginsIn(AllPieces, l, m, c + 1, k) => BeginsIn(s2, l2, m2, c + 1, k)
                     /\ Before(AllPieces, l, m, c, k) => Before(s2, l2, m2, c, k)
  <2> HIDE DEF l, m, c
  <2>1. Grown(AllPieces, l, reqs, m, s2, l2, rs2, m2)
    BY <1>2, <1>3
  <2> QED BY <1>1, <2>1, GrownPlaces
<1>5. /\ \A d \in Nat : InRequest(k, d)' <=> In(s2, l2, c, k, d)
      /\ Begin(k)' <=> BeginsIn(s2, l2, m2, c + 1, k)
      /\ Behind(k)' <=> Before(s2, l2, m2, c, k)
  BY <1>1, <1>3 DEF InRequest, Begin, Behind, In, BeginsIn, Before
<1>6. 0 \in Nat
  OBVIOUS
<1> QED BY <1>4, <1>5, <1>6 DEF InRequest, Begin, Behind

(* The next piece of the stream, and the place after it has been read. *)
LEMMA PlacesRead ==
    ASSUME TypeInv, Layout, UNCHANGED clientVars, Available,
           NEW q \in Readers, consumed' = Append(consumed, q), NEW k \in Int
    PROVE  /\ Behind(k) => Behind(k)' /\ NextPiece.k >= k
           /\ Begin(k) => k \in 1..Len(reqs) /\ NextPiece = [k |-> k, t |-> "line"] /\ InRequest(k, 1)'
           /\ \A d \in 1..5 : InRequest(k, d) =>
                /\ InRequest(k, d + 1)'
                /\ d < Len(Shape(reqs[k])) => NextPiece = [k |-> k, t |-> Shape(reqs[k])[d + 1]]
<1> DEFINE s == AllPieces
           l == Len(AllPieces)
           m == Len(reqs)
           c == Len(consumed)
<1>1. l \in Nat /\ m \in Nat /\ c \in Nat
  BY StreamSizes
<1>2. s' = s /\ l' = l /\ m' = m /\ c' = c + 1
  <2>1. consumed \in Seq(Readers)
    BY DEF TypeInv, ServeInv, RQ!TypeOK, RQ!Readers, Readers
  <2>2. c' = c + 1
    BY <2>1, Appended
  <2> QED BY <2>2 DEF clientVars, AllPieces
<1>3. c + 1 \in 1..l /\ NextPiece = s[c + 1]
  <2>1. Len(wire) \in Nat /\ Len(wire) <= l /\ \A i \in 1..Len(wire) : s[i] = wire[i]
    BY StreamSizes
  <2>2. Len(consumed) + 1 \in 1..Len(wire)
    BY <1>1, <2>1 DEF Available
  <2> QED BY <1>1, <2>1, <2>2 DEF NextPiece
<1>4. /\ \A d \in Nat : InRequest(k, d)' <=> In(s, l, c + 1, k, d)
      /\ Behind(k)' <=> Before(s, l, m, c + 1, k)
  BY <1>2 DEF InRequest, Begin, Behind, In, BeginsIn, Before
<1>5. /\ \A d \in Nat : InRequest(k, d) <=> In(s, l, c, k, d)
      /\ Begin(k) <=> BeginsIn(s, l, m, c + 1, k)
      /\ Behind(k) <=> Before(s, l, m, c, k)
  BY DEF InRequest, Begin, Behind
<1>6. LaidOut(s, l, reqs, m)
  BY DEF Layout
<1> HIDE DEF s, l, m, c
<1>7. ASSUME Behind(k) PROVE Behind(k)' /\ NextPiece.k >= k
  <2>1. Before(s, l, m, c + 1, k) /\ (c + 1 \in 1..l => s[c + 1].k >= k)
    BY <1>1, <1>5, <1>6, <1>7, BeforeOn
  <2> QED BY <1>3, <1>4, <2>1
<1>8. ASSUME Begin(k) PROVE k \in 1..m /\ NextPiece = [k |-> k, t |-> "line"] /\ InRequest(k, 1)'
  <2>1. c + 1 \in 1..l => k \in 1..m /\ s[c + 1] = [k |-> k, t |-> "line"] /\ In(s, l, c + 1, k, 1)
    BY <1>1, <1>5, <1>6, <1>8, NextBegins
  <2> QED BY <1>3, <1>4, <2>1
<1>9. ASSUME NEW d \in 1..5, InRequest(k, d)
      PROVE  /\ InRequest(k, d + 1)'
             /\ d < Len(Shape(reqs[k])) => NextPiece = [k |-> k, t |-> Shape(reqs[k])[d + 1]]
  <2>1. In(s, l, c, k, d) /\ d \in Nat /\ d + 1 \in Nat
    BY <1>5, <1>9
  <2>2. /\ k \in 1..m /\ reqs[k] \in RequestRecords /\ Before(s, l, m, c, k)
        /\ d < Len(Shape(reqs[k])) =>
             c + 1 \in 1..l /\ s[c + 1] = [k |-> k, t |-> Shape(reqs[k])[d + 1]]
        /\ d = Len(Shape(reqs[k])) => BeginsIn(s, l, m, c + 1, k + 1)
        /\ In(s, l, c + 1, k, d + 1)
    BY <1>1, <1>6, <2>1, NextInRequest, Zenon
  <2> QED BY <1>3, <1>4, <2>1, <2>2
<1> QED BY <1>7, <1>8, <1>9 DEF m

-----------------------------------------------------------------------------
(* The stream is where parse_request of request k expects it. *)
Resting(k) == Begin(k) \/ (InRequest(k - 1, 4) /\ reqs[k - 1].body = "chunked")

(* The stream is where body k expects it, d pieces into the request. *)
BodyAt(k) ==
    \E d \in 2..4 :
        /\ InRequest(k, d)
        /\ \/ kind[k] = "Reader" /\ reqs[k].body = "large" /\ left[k] = 4 - d
           \/ kind[k] = "Iter" /\ reqs[k].body = "chunked" /\ left[k] = IF d = 4 THEN 0 ELSE 1

(* The use of body k does not end where the body ends. *)
Leaves(k) == form[k] \in {"abandon", "chunks"} \/ (form[k] = "drain" /\ kind[k] = "Iter")

(* What is left of body k is read by others, or it reads what is theirs. *)
Spoiled(k) ==
    \/ k \in late \/ form[k] = "chunks"
    \/ Leaves(k) /\ \E i \in DOMAIN consumed : consumed[i] > k

Clean == \A k \in Readers : ~Spoiled(k)

(* Nothing has become of the bodies that have not been put to use. *)
Fresh ==
    /\ Len(consumed) <= Len(wire)
    /\ \A k \in Readers : k >= n => form[k] = "Body" /\ k \notin late
    /\ \A k \in Readers : holder[k] \notin {"none", "thread"} /\ pc # "using" => form[k] = "Body"
    /\ got # "nothing" => pc = "parse" /\ phase[n] = "current"

Left(m) == m > 1 /\ Leaves(m - 1)

(* Where the stream is, at every place of serve(), with m readers. *)
TrackAt(m) ==
    /\ m > 1 => Behind(m - 1)
    /\ pc = "start" => Begin(1)
    /\ pc = "dispatch" => Behind(m) /\ (holder[m] = "none" => Resting(m + 1))
    /\ \A k \in Readers : holder[k] # "none" => k <= Len(reqs) /\ BodyAt(k)
    /\ pc \in {"parse", "expect", "call", "write", "outcome"} /\ phase[m] = "waiting" /\ phase[m - 1] = "gone" =>
            Left(m) \/ Resting(m)
    /\ pc = "parse" /\ phase[m] = "current" =>
            /\ got = "nothing" => Left(m) \/ Resting(m)
            /\ got = "blank" => Begin(m)
            /\ got = "line" => InRequest(m, 1)
            /\ got # "junk"
            /\ got # "nothing" => ~Left(m)
    /\ pc = "body" =>
            /\ ~Left(m)
            /\ \/ InRequest(m, 2) /\ req = reqs[m]
               \/ InRequest(m, 3) /\ req.body = "buffered" /\ reqs[m].body = "small"
Track == \A m \in Nat : n = m => TrackAt(m)

(* What is read from now on is no earlier than a body that others read. *)
Lost == \E k \in Readers : Spoiled(k) /\ Behind(k)

(* A request is read through its own reader, but for the empty line after a *)
(* chunked body, up to the first body that is not read to its end.          *)
AlignedUnlessSpoiled ==
    \A i \in DOMAIN consumed :
        \/ wire[i].t = "crlf" \/ consumed[i] = wire[i].k
        \/ \E k \in Readers : Spoiled(k) /\ k <= wire[i].k

AlignInv ==
    /\ Layout /\ Fresh /\ AlignedUnlessSpoiled
    /\ EndOfStream \/ (IF Clean THEN Track ELSE Lost)

(* What the invariants of serve() say of the readers and bodies. *)
Situated ==
    /\ n \in Nat /\ n <= MaxReaders /\ MaxReaders \in Nat
    /\ phase \in [Readers -> RQ!Phases] /\ full \subseteq Readers /\ consumed \in Seq(Readers)
    /\ holder \in [Readers -> Owners]
    /\ kind \in [Readers -> {"Reader", "Iter"}]
    /\ form \in [Readers -> {"Body", "drain", "read", "abandon", "chunks"}]
    /\ left \in [Readers -> Nat]
    /\ after \in {"parse", "write", "outcome", "exit"}
    /\ Position /\ Ownership /\ RQ!Handover

(* The type invariant of serve() contains what the proofs use of it. *)
LEMMA SituatedFacts == TypeInv => Situated
  BY QueueAssumed DEF TypeInv, ServeInv, Control, BodyTyped, RQ!TypeOK, RQ!QueueAssumption, RQ!Readers, Readers, Situated

(* What a step may do to the stream and to the bodies.  The loop goes from  *)
(* one place to another,                                                    *)
Moves ==
    /\ \/ /\ pc \in {"expect", "call", "write", "outcome"}
          /\ pc' \in {"call", "write", "outcome", "parse", "exit", "upgrade"}
       \/ pc # "using" /\ pc' \in {"fail", "unwind", "handler", "done"}
    /\ got' = "nothing" \/ (pc # "parse" /\ got' = got)
    /\ UNCHANGED <<queueVars, clientVars, bodyVars, req>>

(* puts the body of the request it answers to use,                          *)
UsesBody(k) ==
    /\ k \in Readers /\ k = n - 1 /\ holder[k] \notin {"none", "thread"}
    /\ pc \in {"expect", "call", "write", "outcome"} /\ pc' \in {"using", "write"}
    /\ \E use \in {"drain", "read", "abandon", "chunks"} : form' = [form EXCEPT ![k] = use]
    /\ \E h \in {"server", "response", "thread"} :
        holder' = [holder EXCEPT ![k] = h] /\ (pc' = "write" => h = "thread")
    /\ UNCHANGED <<queueVars, clientVars, kind, left, late, got, req>>

(* or passes it on; and whoever owns a body reads from it                   *)
PassesBody(k) ==
    /\ k \in Readers /\ k = n - 1 /\ holder[k] = "server"
    /\ pc = "call" /\ pc' = "write"
    /\ \E h \in {"response", "upgrade"} : holder' = [holder EXCEPT ![k] = h]
    /\ UNCHANGED <<queueVars, clientVars, kind, form, left, late, got, req>>

ReadsBody(k) ==
    /\ k \in Readers /\ k = n - 1 /\ holder[k] # "none" /\ pc # "dispatch"
    /\ BodyPiece(k)
    /\ UNCHANGED <<clientVars, holder, kind, form, late, pc, got, req>>

(* or lets go of it.                                                        *)
DropsBody(k) ==
    /\ k \in Readers /\ k = n - 1 /\ holder[k] # "none" /\ pc # "dispatch"
    /\ \/ holder[k] = "thread" /\ pc' = pc
       \/ pc = "using" /\ pc' \in {"parse", "write", "outcome", "exit"}
    /\ LetGo(k)
    /\ \/ late' = late \cup {k}
       \/ UNCHANGED late /\ (Done(k) \/ pc' = "exit")
    /\ UNCHANGED <<clientVars, got, req>>

StepKind ==
    \/ UNCHANGED <<queueVars, bodyVars, pc, got, req>>
    \/ Moves \/ Start \/ ParseRecv \/ ParsePiece \/ ParseEof \/ BufferBody
    \/ ParsedWithoutStream \/ ParsedWithStream \/ ParseFailed \/ Dispatch \/ DropReader \/ DropQueue
    \/ \E k \in Readers : UsesBody(k) \/ PassesBody(k) \/ ReadsBody(k) \/ DropsBody(k)

(* Every step of the connection loop, its bodies and its client is of one   *)
(* of these kinds.                                                          *)
LEMMA EveryStep == TypeInv /\ [Next]_vars => StepKind
<1> SUFFICES ASSUME TypeInv, [Next]_vars PROVE StepKind
  OBVIOUS
<1>0. Situated
  BY SituatedFacts
<1>1. pc \in {"expect", "call", "using", "write", "outcome"} => n - 1 \in Readers
  BY <1>0 DEF Situated, Position, Readers
<1>2. ASSUME NEW use \in {"drain", "read", "abandon", "chunks"}, NEW next \in {"parse", "write", "outcome", "exit"},
             UseBodyThen(use, next), pc \in {"expect", "call", "write", "outcome"},
             UNCHANGED <<queueVars, clientVars, kind, left, late, got, req>>
      PROVE  Moves \/ UsesBody(n - 1)
  <2>1. CASE holder[n - 1] \in {"none", "thread"}
    BY <1>2, <2>1 DEF UseBodyThen, Current, Moves, bodyVars
  <2>2. CASE holder[n - 1] \notin {"none", "thread"}
    BY <1>1, <1>2, <2>2 DEF UseBodyThen, Current, UsesBody
  <2> QED BY <2>1, <2>2
<1>3. CASE ExpectReject \/ Call \/ WriteFails
  BY <1>1, <1>2, <1>3 DEF ExpectReject, Call, WriteFails, StepKind
<1>4. CASE WriteResponse
  <2>1. CASE pc' = "outcome" /\ UNCHANGED <<after, holder, form>>
    BY <1>4, <2>1 DEF WriteResponse, Moves, StepKind, bodyVars
  <2>2. CASE UseBodyThen("drain", "exit")
    BY <1>1, <1>2, <1>4, <2>2 DEF WriteResponse, StepKind
  <2>3. ASSUME NEW use \in {"drain", "read", "chunks"}, UseBodyThen(use, "outcome") PROVE StepKind
    BY <1>1, <1>2, <1>4, <2>3 DEF WriteResponse, StepKind
  <2> QED BY <1>4, <2>1, <2>2, <2>3 DEF WriteResponse
<1>5. CASE CallSpawn
  <2>1. UsesBody(n - 1)
    BY <1>1, <1>5 DEF CallSpawn, UsesBody, Current
  <2> QED BY <1>1, <1>5, <2>1 DEF StepKind, CallSpawn
<1>6. CASE CallEcho \/ CallCapture
  <2>1. PassesBody(n - 1)
    BY <1>1, <1>6 DEF CallEcho, CallCapture, PassesBody, Current
  <2> QED BY <1>1, <1>6, <2>1 DEF StepKind, CallEcho, CallCapture
<1>7. CASE UsePiece
  <2>1. ReadsBody(n - 1)
    BY <1>0, <1>1, <1>7 DEF UsePiece, ReadsBody, Current, loopVars, Situated, Ownership, Position
  <2> QED BY <1>1, <1>7, <2>1 DEF StepKind, UsePiece
<1>8. CASE UseDone \/ UseTimeout \/ WriteBodyFails
  <2>1. pc = "using" /\ holder[n - 1] # "none" /\ LetGo(n - 1)
    BY <1>0, <1>8 DEF UseDone, UseTimeout, WriteBodyFails, Current, Situated, Ownership, Position
  <2>2. DropsBody(n - 1)
    BY <1>0, <1>1, <1>8, <2>1 DEF UseDone, UseTimeout, WriteBodyFails, DropsBody, Current, Situated
  <2> QED BY <1>1, <2>1, <2>2 DEF StepKind
<1>9. ASSUME NEW k \in Readers, ThreadStep(k) PROVE StepKind
  <2>1. holder[k] = "thread" /\ phase[k] = "current"
    BY <1>0, <1>9 DEF ThreadStep, ThreadPiece, ThreadDone, ThreadTimeout, Situated, Ownership
  <2>2. pc = "dispatch" => phase[n] \in {"current", "gone"} /\ n \in Readers
    BY <1>0 DEF Situated, Position, Readers
  <2>3. pc = "dispatch" => k = n
    BY <1>0, <2>1, <2>2 DEF Situated, Ownership, RQ!Handover, RQ!Gone, RQ!Readers, Readers
  <2>4. k = n - 1 /\ pc # "dispatch"
    BY <1>0, <2>1, <2>3 DEF Situated, Ownership
  <2>5. ReadsBody(k) \/ DropsBody(k)
    BY <1>9, <2>1, <2>4 DEF ThreadStep, ThreadPiece, ThreadDone, ThreadTimeout, ReadsBody, DropsBody, loopVars
  <2> QED BY <2>5 DEF StepKind
<1>10. CASE ExpectContinue \/ KeepAlive \/ Close \/ Upgrade \/ IntoInner \/ HandlerReturns \/ DropWriter \/ ParseReadFails
  <2>1. Moves
    BY <1>10 DEF ExpectContinue, KeepAlive, Close, Upgrade, IntoInner, HandlerReturns, DropWriter, ParseReadFails, Moves
  <2> QED BY <2>1 DEF StepKind
<1>11. CASE ClientStep \/ UNCHANGED vars
  BY <1>11 DEF ClientStep, ClientStart, ClientSend, ClientSendEarly, PutOnWire, ClientClose, StepKind, vars, loopVars
<1> QED
  BY <1>3, <1>4, <1>5, <1>6, <1>7, <1>8, <1>9, <1>10, <1>11
     DEF Next, ServerStep, CapturedForever, Terminated, StepKind

(* A piece that is read has been sent. *)
ReadsThrough(q) == Available /\ UNCHANGED clientVars /\ consumed' = Append(consumed, q)

(* Every step reads nothing, or one piece that has been sent. *)
LEMMA ReadEffect ==
    TypeInv /\ [Next]_vars => UNCHANGED consumed \/ \E q \in Readers : ReadsThrough(q)
<1> SUFFICES ASSUME TypeInv, [Next]_vars PROVE UNCHANGED consumed \/ \E q \in Readers : ReadsThrough(q)
  OBVIOUS
<1>0. Situated /\ StepKind
  BY SituatedFacts, EveryStep
<1>1. CASE ParsePiece \/ BufferBody
  <2>1. n \in Readers /\ ReadsThrough(n)
    BY <1>0, <1>1 DEF ParsePiece, BufferBody, RQ!Read, Situated, Position, Readers, ReadsThrough
  <2> QED BY <2>1
<1>2. ASSUME NEW k \in Readers, ReadsBody(k) PROVE ReadsThrough(k)
  BY <1>2 DEF ReadsBody, BodyPiece, RQ!Read, ReadsThrough
<1>3. ASSUME NEW k \in Readers, UsesBody(k) \/ PassesBody(k) \/ DropsBody(k) PROVE UNCHANGED consumed
  BY <1>3 DEF UsesBody, PassesBody, DropsBody, LetGo, RQ!DropCurrent, queueVars
<1>4. CASE \/ UNCHANGED <<queueVars, bodyVars, pc, got, req>> \/ Moves \/ Start \/ ParseRecv \/ ParseEof
           \/ ParsedWithoutStream \/ ParsedWithStream \/ ParseFailed \/ Dispatch \/ DropReader \/ DropQueue
  BY <1>4 DEF Moves, Start, ParseRecv, ParseEof, ParsedWithoutStream, ParsedWithStream, ParseFailed, Dispatch,
     DropReader, DropQueue, queueVars, RQ!Enqueue, RQ!Recv, RQ!DropCurrent, RQ!DropWaiting, RQ!FinishDrop, RQ!DropQueue
<1> QED BY <1>0, <1>1, <1>2, <1>3, <1>4 DEF StepKind

(* The end of the stream is final. *)
LEMMA EndStays == TypeInv /\ Fresh /\ EndOfStream /\ [Next]_vars => EndOfStream'
<1> SUFFICES ASSUME TypeInv, EndOfStream, [Next]_vars PROVE EndOfStream'
  OBVIOUS
<1>1. eof = "closed" /\ ~Available
  BY DEF EndOfStream
<1>2. UNCHANGED consumed
  BY <1>1, ReadEffect DEF ReadsThrough
<1>3. UNCHANGED <<wire, eof>>
  BY <1>1, SMTT(30)
     DEF Next, ServerStep, ThreadStep, ClientStep, CapturedForever, Terminated, vars, clientVars,
         Start, ParseRecv, ParsePiece, ParseEof, BufferBody, ParseReadFails, ParsedWithoutStream, ParsedWithStream,
         ParseFailed, Dispatch, ExpectContinue, ExpectReject, Call, CallSpawn, CallEcho, CallCapture, UsePiece, UseDone,
         UseTimeout, WriteResponse, KeepAlive, Close, Upgrade, WriteFails, WriteBodyFails, DropReader, DropQueue,
         IntoInner, HandlerReturns, DropWriter, ThreadPiece, ThreadDone, ThreadTimeout, ClientClose,
         ClientStart, ClientSend, ClientSendEarly
<1> QED BY <1>1, <1>2, <1>3 DEF EndOfStream, Available

(* Fresh is kept. *)
LEMMA FreshStep == TypeInv /\ TypeInv' /\ Fresh /\ [Next]_vars => Fresh'
<1> SUFFICES ASSUME TypeInv, TypeInv', Fresh, [Next]_vars PROVE Fresh'
  OBVIOUS
<1>0. Situated /\ StepKind /\ Len(consumed) \in Nat /\ Len(wire) \in Nat /\ wire \in Seq(WirePieces)
  BY SituatedFacts, EveryStep, StreamSizes DEF TypeInv, ClientTyped
<1>1. Len(consumed') <= Len(wire')
  <2>1. ASSUME NEW q \in Readers, ReadsThrough(q) PROVE Len(consumed') <= Len(wire')
    <3>1. Len(consumed') = Len(consumed) + 1
      BY <1>0, <2>1, Appended DEF ReadsThrough, Situated
    <3> QED BY <1>0, <2>1, <3>1 DEF ReadsThrough, Available, clientVars
  <2>2. CASE UNCHANGED consumed
    <3>1. CASE ClientSend \/ ClientSendEarly
      <4>1. unsent # << >> /\ wire' = Append(wire, Head(unsent)) /\ unsent \in Seq(WirePieces)
        BY <3>1 DEF ClientSend, ClientSendEarly, PutOnWire, TypeInv, ClientTyped
      <4>2. Len(wire') = Len(wire) + 1
        BY <1>0, <4>1, Appended, NonEmpty
      <4> QED BY <1>0, <2>2, <4>2 DEF Fresh
    <3>2. UNCHANGED wire \/ ClientSend \/ ClientSendEarly
      BY SMTT(30)
         DEF Next, ServerStep, ThreadStep, ClientStep, CapturedForever, Terminated, vars, clientVars,
             Start, ParseRecv, ParsePiece, ParseEof, BufferBody, ParseReadFails, ParsedWithoutStream, ParsedWithStream,
             ParseFailed, Dispatch, ExpectContinue, ExpectReject, Call, CallSpawn, CallEcho, CallCapture, UsePiece,
             UseDone, UseTimeout, WriteResponse, KeepAlive, Close, Upgrade, WriteFails, WriteBodyFails, DropReader,
             DropQueue, IntoInner, HandlerReturns, DropWriter, ThreadPiece, ThreadDone, ThreadTimeout, ClientClose,
             ClientStart
    <3> QED BY <2>2, <3>1, <3>2 DEF Fresh
  <2> QED BY <2>1, <2>2, ReadEffect
<1> DEFINE Goal == /\ \A k \in Readers : k >= n' => form'[k] = "Body" /\ k \notin late'
                   /\ \A k \in Readers : holder'[k] \notin {"none", "thread"} /\ pc' # "using" => form'[k] = "Body"
                   /\ got' # "nothing" => pc' = "parse" /\ phase'[n'] = "current"
<1> SUFFICES Goal
  BY <1>1 DEF Fresh
<1>2. ASSUME NEW k \in Readers, UsesBody(k) \/ PassesBody(k) \/ ReadsBody(k) \/ DropsBody(k) PROVE Goal
  <2>1. CASE UsesBody(k)
    BY <1>0, <2>1 DEF UsesBody, Fresh, Situated, Ownership, Position, Readers, queueVars
  <2>2. CASE PassesBody(k)
    BY <1>0, <2>2 DEF PassesBody, Fresh, Situated, Ownership, Position, Readers, queueVars
  <2>3. CASE ReadsBody(k)
    BY <1>0, <2>3 DEF ReadsBody, BodyPiece, RQ!Read, Fresh, Situated, Ownership, Position, Readers
  <2>4. CASE DropsBody(k)
    <3>1. phase[n] # "current"
      BY <1>0, <2>4 DEF DropsBody, Situated, Ownership, Position, Readers, RQ!Handover, RQ!Gone, RQ!Readers
    <3> QED BY <1>0, <2>4, <3>1 DEF DropsBody, LetGo, RQ!DropCurrent, Fresh, Situated, Ownership, Position, Readers
  <2> QED BY <1>2, <2>1, <2>2, <2>3, <2>4
<1>3. CASE UNCHANGED <<queueVars, bodyVars, pc, got, req>> \/ Moves
  <2>1. CASE UNCHANGED <<queueVars, bodyVars, pc, got, req>>
    BY <2>1 DEF Fresh, queueVars, bodyVars
  <2>2. CASE Moves
    <3>1. UNCHANGED <<n, form, late, holder>> /\ pc # "using"
      BY <2>2 DEF Moves, queueVars, bodyVars
    <3>2. got' = "nothing"
      BY <2>2 DEF Moves, Fresh
    <3> QED BY <3>1, <3>2 DEF Fresh
  <2> QED BY <1>3, <2>1, <2>2
<1>4. CASE Start \/ ParseRecv \/ Dispatch
  BY <1>0, <1>4 DEF Start, ParseRecv, Dispatch, RQ!Enqueue, RQ!Recv, Fresh, Situated, Ownership, Position, Readers,
     bodyVars, loopVars
<1>5. CASE ParsePiece \/ BufferBody
  BY <1>0, <1>5 DEF ParsePiece, BufferBody, RQ!Read, Fresh, Situated, Ownership, Position, Readers, bodyVars
<1>6. CASE ParseEof
  BY <1>0, <1>6 DEF ParseEof, Fresh, Situated, Ownership, Position, Readers, bodyVars, queueVars
<1>7. CASE ParsedWithoutStream \/ ParseFailed
  BY <1>0, <1>7 DEF ParsedWithoutStream, ParseFailed, RQ!DropCurrent, Fresh, Situated, Ownership, Position, Readers, bodyVars
<1>8. CASE ParsedWithStream
  BY <1>0, <1>8 DEF ParsedWithStream, Fresh, Situated, Ownership, Position, Readers, queueVars
<1>9. CASE DropReader \/ DropQueue
  BY <1>0, <1>9 DEF DropReader, DropQueue, RQ!DropWaiting, RQ!FinishDrop, RQ!DropQueue, Fresh, Situated, Ownership,
     Position, Readers, bodyVars, loopVars
<1> QED BY <1>0, <1>2, <1>3, <1>4, <1>5, <1>6, <1>7, <1>8, <1>9 DEF StepKind

(* What has become of a body stays so, and what has been read stays read. *)
LEMMA UseStays ==
    ASSUME TypeInv, Fresh, [Next]_vars, NEW k \in Readers
    PROVE  /\ k \in late => k \in late'
           /\ form[k] # "Body" => form'[k] = form[k] /\ kind'[k] = kind[k]
<1> DEFINE Goal == /\ k \in late => k \in late'
                   /\ form[k] # "Body" => form'[k] = form[k] /\ kind'[k] = kind[k]
<1>0. Situated /\ StepKind
  BY SituatedFacts, EveryStep
<1>1. CASE UNCHANGED <<late, form, kind>>
  BY <1>1
<1>2. ASSUME NEW j \in Readers, UsesBody(j) \/ PassesBody(j) \/ ReadsBody(j) \/ DropsBody(j) PROVE Goal
  <2>1. CASE UsesBody(j)
    BY <1>0, <2>1 DEF UsesBody, Fresh, Situated
  <2> QED BY <1>2, <2>1 DEF PassesBody, ReadsBody, DropsBody, LetGo
<1>3. CASE ParsedWithStream
  BY <1>0, <1>3 DEF ParsedWithStream, Fresh, Situated, Position, Readers
<1>4. CASE \/ UNCHANGED <<queueVars, bodyVars, pc, got, req>> \/ Moves \/ Start \/ ParseRecv \/ ParsePiece \/ ParseEof
           \/ BufferBody \/ ParsedWithoutStream \/ ParseFailed \/ Dispatch \/ DropReader \/ DropQueue
  BY <1>1, <1>4 DEF Moves, Start, ParseRecv, ParsePiece, ParseEof, BufferBody, ParsedWithoutStream, ParseFailed, Dispatch,
     DropReader, DropQueue, bodyVars
<1> QED BY <1>0, <1>2, <1>3, <1>4 DEF StepKind

(* A body that was let go of too late, or in a way that leaves pieces       *)
(* behind, stays one.                                                       *)
LEMMA SpoiledStays ==
    ASSUME TypeInv, Fresh, [Next]_vars, NEW k \in Readers, Spoiled(k)
    PROVE  Spoiled(k)'
<1>1. CASE k \in late
  BY <1>1, UseStays DEF Spoiled
<1>2. CASE form[k] = "chunks"
  BY <1>2, UseStays DEF Spoiled
<1>3. ASSUME Leaves(k), NEW i \in DOMAIN consumed, consumed[i] > k PROVE Spoiled(k)'
  <2>1. form[k] # "Body"
    BY <1>3 DEF Leaves
  <2>2. Leaves(k)'
    BY <1>3, <2>1, UseStays DEF Leaves
  <2>3. i \in DOMAIN consumed' /\ consumed'[i] = consumed[i]
    <3>1. consumed \in Seq(Readers)
      BY SituatedFacts DEF Situated
    <3>2. CASE UNCHANGED consumed
      BY <3>2
    <3>3. ASSUME NEW q \in Readers, consumed' = Append(consumed, q) PROVE i \in DOMAIN consumed' /\ consumed'[i] = consumed[i]
      <4>1. /\ Len(consumed) \in Nat /\ DOMAIN consumed = 1..Len(consumed) /\ DOMAIN consumed' = 1..(Len(consumed) + 1)
            /\ \A j \in 1..Len(consumed) : consumed'[j] = consumed[j]
        BY <3>1, <3>3, Appended
      <4>2. i \in 1..Len(consumed) /\ i \in 1..(Len(consumed) + 1)
        BY <4>1
      <4> QED BY <4>1, <4>2, Zenon
    <3> QED BY <3>2, <3>3, ReadEffect DEF ReadsThrough
  <2> QED BY <1>3, <2>2, <2>3 DEF Spoiled
<1> QED BY <1>1, <1>2, <1>3 DEF Spoiled

(* A request that has been read is not read again. *)
LEMMA BehindStays ==
    ASSUME TypeInv, TypeInv', Layout, [Next]_vars, NEW k \in Int, Behind(k)
    PROVE  Behind(k)'
<1>1. CASE UNCHANGED consumed
  BY <1>1, PlacesKept
<1>2. ASSUME NEW q \in Readers, ReadsThrough(q) PROVE Behind(k)'
  BY <1>2, PlacesRead DEF ReadsThrough
<1> QED BY <1>1, <1>2, ReadEffect

(* What is left of a body, once others read it, is ahead of all that is to  *)
(* be read.                                                                 *)
LEMMA LostStep ==
    ASSUME TypeInv, TypeInv', Layout, Fresh, Fresh', [Next]_vars
    PROVE  /\ Lost => Lost'
           /\ Clean /\ Track /\ ~Clean' => Lost'
<1>0. Situated /\ StepKind
  BY SituatedFacts, EveryStep
<1>1. ASSUME Lost PROVE Lost'
  <2>1. PICK k \in Readers : Spoiled(k) /\ Behind(k)
    BY <1>1 DEF Lost
  <2>2. k \in Int
    BY <1>0 DEF Readers, Situated
  <2>3. Spoiled(k)'
    BY <2>1, SpoiledStays
  <2>4. Behind(k)'
    BY <2>1, <2>2, BehindStays
  <2> QED BY <2>3, <2>4 DEF Lost
<1>2. ASSUME Track, ~Clean' PROVE Lost'
  <2>1. PICK k \in Readers : Spoiled(k)'
    BY <1>2 DEF Clean
  <2>2. k \in Int /\ n \in Int /\ n' \in Int /\ k < n' /\ n' > 1
    <3>1. Situated'
      BY SituatedFacts, PTL
    <3>2. k < n'
      <4>1. k \in late' \/ form'[k] # "Body"
        BY <2>1 DEF Spoiled, Leaves
      <4>2. n' \in Int /\ k \in Int
        BY <3>1 DEF Situated, Readers
      <4> QED BY <4>1, <4>2 DEF Fresh
    <3> QED BY <1>0, <3>1, <3>2 DEF Situated, Readers
  <2>3. PICK j \in Int : j = n' - 1 /\ k <= j
    <3>1. ASSUME NEW a \in Int, NEW b \in Int, a < b PROVE b - 1 \in Int /\ a <= b - 1
      BY <3>1
    <3> QED BY <2>2, <3>1, Zenon
  <2>4. Behind(j)'
    <3>1. CASE n' = n
      <4>1. Behind(n - 1)
        BY <1>0, <1>2, <2>2, <3>1 DEF Track, TrackAt, Situated
      <4>2. Behind(j)
        BY <2>3, <3>1, <4>1
      <4> QED BY <4>2, BehindStays
    <3>2. CASE Start
      BY <1>0, <2>2, <3>2 DEF Start, RQ!Enqueue, Situated, Position
    <3>3. CASE Dispatch
      <4>1. Behind(n) /\ n' = n + 1
        BY <1>0, <1>2, <3>3 DEF Track, TrackAt, Situated, Dispatch, RQ!Enqueue
      <4>2. j = n
        BY <2>2, <2>3, <4>1
      <4> QED BY <4>1, <4>2, BehindStays
    <3>4. n' = n \/ Start \/ Dispatch
      BY <1>0 DEF StepKind, Moves, UsesBody, PassesBody, ReadsBody, DropsBody, BodyPiece, LetGo, ParseRecv, ParsePiece,
         ParseEof, BufferBody, ParsedWithoutStream, ParsedWithStream, ParseFailed, DropReader, DropQueue, queueVars,
         RQ!Recv, RQ!Read, RQ!DropCurrent, RQ!DropWaiting, RQ!FinishDrop, RQ!DropQueue
    <3> QED BY <3>1, <3>2, <3>3, <3>4
  <2>5. Behind(k)'
    <3>1. PlaceFacts'
      BY Places, LayoutStep, PTL
    <3> QED BY <2>2, <2>3, <2>4, <3>1 DEF PlaceFacts
  <2> QED BY <2>1, <2>5 DEF Lost
<1> QED BY <1>1, <1>2

-----------------------------------------------------------------------------
(* Where a request ends. *)
Ends ==
    \A k \in Int :
        /\ InRequest(k, 2) /\ reqs[k].body \in {"none", "buffered"} => Begin(k + 1)
        /\ InRequest(k, 3) /\ reqs[k].body = "small" => Begin(k + 1)
        /\ InRequest(k, 4) /\ reqs[k].body = "large" => Begin(k + 1)
        /\ InRequest(k, 4) /\ reqs[k].body = "chunked" => Resting(k + 1)
        /\ InRequest(k, 5) /\ reqs[k].body = "chunked" => Begin(k + 1)

(* Reading the last piece of a request leaves the reader where the next one *)
(* begins.                                                                  *)
LEMMA EndsHold == TypeInv /\ Layout => Ends
<1> SUFFICES ASSUME TypeInv, Layout, NEW k \in Int
             PROVE  /\ InRequest(k, 2) /\ reqs[k].body \in {"none", "buffered"} => Begin(k + 1)
                    /\ InRequest(k, 3) /\ reqs[k].body = "small" => Begin(k + 1)
                    /\ InRequest(k, 4) /\ reqs[k].body = "large" => Begin(k + 1)
                    /\ InRequest(k, 4) /\ reqs[k].body = "chunked" => Resting(k + 1)
                    /\ InRequest(k, 5) /\ reqs[k].body = "chunked" => Begin(k + 1)
  BY DEF Ends
<1>1. ASSUME NEW d \in 1..5, InRequest(k, d)
      PROVE  reqs[k] \in RequestRecords /\ (d = Len(Shape(reqs[k])) => Begin(k + 1))
  BY <1>1, Places DEF PlaceFacts
<1>2. ASSUME reqs[k] \in RequestRecords
      PROVE  /\ reqs[k].body \in {"none", "buffered"} => Len(Shape(reqs[k])) = 2
             /\ reqs[k].body = "small" => Len(Shape(reqs[k])) = 3
             /\ reqs[k].body = "large" => Len(Shape(reqs[k])) = 4
             /\ reqs[k].body = "chunked" => Len(Shape(reqs[k])) = 5
  BY <1>2, ShapeOf
<1>3. 2 \in 1..5 /\ 3 \in 1..5 /\ 4 \in 1..5 /\ 5 \in 1..5
  OBVIOUS
<1>4. (k + 1) - 1 = k
  OBVIOUS
<1> QED BY <1>1, <1>2, <1>3, <1>4 DEF Resting

(* What the next piece of a request is. *)
LEMMA Upcoming ==
    ASSUME TypeInv, Layout, NEW q \in Readers, ReadsThrough(q), NEW k \in Int
    PROVE  /\ Begin(k) => NextPiece = [k |-> k, t |-> "line"] /\ InRequest(k, 1)'
           /\ InRequest(k, 1) => NextPiece = [k |-> k, t |-> "fields"] /\ InRequest(k, 2)'
           /\ InRequest(k, 2) => /\ InRequest(k, 3)'
                                 /\ reqs[k].body \in {"small", "large"} => NextPiece = [k |-> k, t |-> "data"]
                                 /\ reqs[k].body = "chunked" => NextPiece = [k |-> k, t |-> "chunk"]
           /\ InRequest(k, 3) => /\ InRequest(k, 4)'
                                 /\ reqs[k].body = "large" => NextPiece = [k |-> k, t |-> "data"]
                                 /\ reqs[k].body = "chunked" => NextPiece = [k |-> k, t |-> "last"]
           /\ InRequest(k, 4) => /\ InRequest(k, 5)'
                                 /\ reqs[k].body = "chunked" => NextPiece = [k |-> k, t |-> "crlf"]
<1>1. /\ Begin(k) => NextPiece = [k |-> k, t |-> "line"] /\ InRequest(k, 1)'
      /\ \A d \in 1..5 : InRequest(k, d) =>
            /\ InRequest(k, d + 1)'
            /\ d < Len(Shape(reqs[k])) => NextPiece = [k |-> k, t |-> Shape(reqs[k])[d + 1]]
  BY PlacesRead DEF ReadsThrough
<1>2. \A d \in 1..5 : InRequest(k, d) => reqs[k] \in RequestRecords
  BY Places DEF PlaceFacts
<1>3. ASSUME reqs[k] \in RequestRecords
      PROVE  /\ Len(Shape(reqs[k])) \in 2..5 /\ Shape(reqs[k])[2] = "fields"
             /\ reqs[k].body = "small" => Len(Shape(reqs[k])) = 3 /\ Shape(reqs[k])[3] = "data"
             /\ reqs[k].body = "large" =>
                  Len(Shape(reqs[k])) = 4 /\ Shape(reqs[k])[3] = "data" /\ Shape(reqs[k])[4] = "data"
             /\ reqs[k].body = "chunked" =>
                  /\ Len(Shape(reqs[k])) = 5 /\ Shape(reqs[k])[3] = "chunk" /\ Shape(reqs[k])[4] = "last"
                  /\ Shape(reqs[k])[5] = "crlf"
  BY <1>3, ShapeOf
<1>4. /\ 1 \in 1..5 /\ 2 \in 1..5 /\ 3 \in 1..5 /\ 4 \in 1..5
      /\ 1 + 1 = 2 /\ 2 + 1 = 3 /\ 3 + 1 = 4 /\ 4 + 1 = 5
  OBVIOUS
<1>5. ASSUME InRequest(k, 1) PROVE NextPiece = [k |-> k, t |-> "fields"] /\ InRequest(k, 2)'
  BY <1>1, <1>2, <1>3, <1>4, <1>5
<1>6. ASSUME InRequest(k, 2)
      PROVE  /\ InRequest(k, 3)'
             /\ reqs[k].body \in {"small", "large"} => NextPiece = [k |-> k, t |-> "data"]
             /\ reqs[k].body = "chunked" => NextPiece = [k |-> k, t |-> "chunk"]
  BY <1>1, <1>2, <1>3, <1>4, <1>6
<1>7. ASSUME InRequest(k, 3)
      PROVE  /\ InRequest(k, 4)'
             /\ reqs[k].body = "large" => NextPiece = [k |-> k, t |-> "data"]
             /\ reqs[k].body = "chunked" => NextPiece = [k |-> k, t |-> "last"]
  BY <1>1, <1>2, <1>3, <1>4, <1>7
<1>8. ASSUME InRequest(k, 4)
      PROVE  /\ InRequest(k, 5)'
             /\ reqs[k].body = "chunked" => NextPiece = [k |-> k, t |-> "crlf"]
  BY <1>1, <1>2, <1>3, <1>4, <1>8
<1> QED BY <1>1, <1>5, <1>6, <1>7, <1>8

(* A step that reads nothing keeps the stream where the parser and the      *)
(* bodies expect it.                                                        *)
LEMMA ExpectedKept ==
    ASSUME TypeInv, TypeInv', Layout, [Next]_vars, UNCHANGED consumed
    PROVE  /\ \A k \in Int : Resting(k) => Resting(k)'
           /\ \A k \in Int : k \in 1..Len(reqs) => k \in 1..Len(reqs') /\ reqs'[k] = reqs[k]
           /\ \A k \in Readers : k <= Len(reqs) /\ BodyAt(k) /\ kind'[k] = kind[k] /\ left'[k] = left[k] =>
                k <= Len(reqs') /\ BodyAt(k)'
<1>0. Len(reqs) \in Nat /\ Len(reqs') \in Nat /\ \A k \in Readers : k \in Int
  BY StreamSizes, SituatedFacts DEF Situated, Readers
<1>1. \A k \in Int : k \in 1..Len(reqs) => k \in 1..Len(reqs') /\ reqs'[k] = reqs[k]
  <2>1. Grown(AllPieces, Len(AllPieces), reqs, Len(reqs), AllPieces', Len(AllPieces'), reqs', Len(reqs'))
    BY LayoutStep
  <2>2. Len(reqs) <= Len(reqs') /\ \A k \in 1..Len(reqs) : reqs'[k] = reqs[k]
    BY <2>1 DEF Grown
  <2> QED BY <1>0, <2>2
<1>2. ASSUME NEW k \in Int, NEW d \in 2..4, InRequest(k, d)
      PROVE  InRequest(k, d)' /\ k \in 1..Len(reqs) /\ k <= Len(reqs') /\ reqs'[k] = reqs[k]
  <2>1. d \in 1..5 /\ d \in Nat
    OBVIOUS
  <2>2. InRequest(k, d)'
    BY <1>2, <2>1, PlacesKept
  <2>3. k \in 1..Len(reqs)
    BY <1>2, <2>1, Places DEF PlaceFacts
  <2> QED BY <1>0, <1>1, <2>2, <2>3
<1>3. ASSUME NEW k \in Int, Resting(k) PROVE Resting(k)'
  <2>1. CASE Begin(k)
    BY <2>1, PlacesKept DEF Resting
  <2>2. CASE InRequest(k - 1, 4) /\ reqs[k - 1].body = "chunked"
    BY <1>2, <2>2 DEF Resting
  <2> QED BY <1>3, <2>1, <2>2 DEF Resting
<1>4. ASSUME NEW k \in Readers, BodyAt(k), kind'[k] = kind[k], left'[k] = left[k]
      PROVE  k <= Len(reqs') /\ BodyAt(k)'
  BY <1>0, <1>2, <1>4 DEF BodyAt
<1> QED BY <1>1, <1>3, <1>4

(* The reader before a reader. *)
NextTo(m) ==
    /\ m \in Readers /\ m > 1 => m - 1 \in Readers
    /\ m - 1 \in Readers => m > 1 /\ m # m - 1
    /\ m - 1 \in Readers /\ m <= MaxReaders => m \in Readers
    /\ m > m - 1
(* Readers are numbered without gaps. *)
LEMMA ReaderBefore == \A m \in Nat : NextTo(m)
  BY ServeAssumption DEF Readers, MaxReaders, NextTo

(* As long as no body is spoiled, the stream stays where it is expected. *)
LEMMA TrackStep ==
    ASSUME TypeInv, TypeInv', Layout, Fresh, [Next]_vars, Clean, Clean', Track, ~EndOfStream
    PROVE  Track'
<1>0. Situated /\ StepKind /\ Situated' /\ PlaceFacts /\ PlaceFacts' /\ Ends /\ Ends'
  BY SituatedFacts, EveryStep, Places, EndsHold, LayoutStep, PTL
<1>1. n \in Nat /\ n' \in Nat /\ TrackAt(n) /\ \A k \in Readers : k \in Int
  BY <1>0 DEF Situated, Track, Readers
<1> SUFFICES ASSUME NEW m \in Nat, n' = m PROVE TrackAt(m)'
  BY DEF Track
<1>2. m \in Int /\ m - 1 \in Int /\ m + 1 \in Int
  OBVIOUS
<1>23. NextTo(m)
  BY ReaderBefore
<1>3. \A k \in Int : Behind(k) => Behind(k)'
  BY BehindStays
<1>4. ASSUME n' = n PROVE TrackAt(m) /\ (m > 1 => Behind(m - 1)')
  BY <1>1, <1>2, <1>3, <1>4 DEF TrackAt
<1>5. ASSUME UNCHANGED consumed
      PROVE  /\ \A k \in Int : Begin(k) => Begin(k)'
             /\ \A k \in Int : Resting(k) => Resting(k)'
             /\ \A k \in Int : InRequest(k, 1) => InRequest(k, 1)'
             /\ \A k \in Int : InRequest(k, 2) => InRequest(k, 2)' /\ reqs'[k] = reqs[k]
             /\ \A k \in Int : InRequest(k, 3) => InRequest(k, 3)' /\ reqs'[k] = reqs[k]
             /\ \A k \in Readers : k <= Len(reqs) /\ BodyAt(k) /\ kind'[k] = kind[k] /\ left'[k] = left[k] =>
                k <= Len(reqs') /\ BodyAt(k)'
  <2>1. 1 \in Nat /\ 2 \in Nat /\ 3 \in Nat /\ 2 \in 1..5 /\ 3 \in 1..5
    OBVIOUS
  <2>2. \A k \in Int : InRequest(k, 2) \/ InRequest(k, 3) => k \in 1..Len(reqs)
    BY <1>0, <2>1 DEF PlaceFacts
  <2> QED BY <1>5, <2>1, <2>2, PlacesKept, ExpectedKept
<1>6. ASSUME UNCHANGED <<form, kind>> PROVE Left(m)' <=> Left(m)
  BY <1>6 DEF Left, Leaves
<1>7. CASE UNCHANGED <<queueVars, bodyVars, pc, got, req>>
  <2>1. UNCHANGED <<n, phase, consumed, holder, kind, form, left, late, pc, got, req>>
    BY <1>7 DEF queueVars, bodyVars
  <2> QED BY <1>2, <1>3, <1>4, <1>5, <1>6, <2>1 DEF TrackAt
<1>8. CASE Moves
  <2>1. UNCHANGED <<n, phase, consumed, holder, kind, form, left, late>>
    BY <1>8 DEF Moves, queueVars, bodyVars
  <2>2. pc \in {"expect", "call", "write", "outcome"} => phase[m] = "waiting"
    BY <1>0, <2>1 DEF Situated, Position
  <2> QED BY <1>2, <1>4, <1>5, <1>6, <1>8, <2>1, <2>2 DEF TrackAt, Moves
<1>9. CASE Start
  <2>1. n = 0 /\ m = 1 /\ UNCHANGED <<consumed, holder, kind, left>> /\ pc' = "parse" /\ phase'[1] = "current"
    BY <1>0, <1>1, <1>9 DEF Start, RQ!Enqueue, bodyVars, Situated, Position, RQ!Handover, Readers
  <2>2. got' = "nothing" /\ Begin(1)'
    BY <1>0, <1>1, <1>5, <1>9, <2>1 DEF Start, Fresh, TrackAt
  <2> QED BY <1>1, <1>5, <2>1, <2>2 DEF TrackAt, Resting
<1>10. CASE ParseRecv
  <2>1. /\ n' = n /\ UNCHANGED <<consumed, holder, kind, form, left, pc, got, req>> /\ pc = "parse"
        /\ phase[m] = "waiting" /\ m - 1 \in full
    BY <1>10 DEF ParseRecv, RQ!Recv, bodyVars, loopVars
  <2>2. phase[m - 1] = "gone" /\ got = "nothing"
    BY <1>0, <2>1 DEF Situated, RQ!Handover, RQ!Gone, RQ!Readers, Readers, Fresh
  <2>3. Left(m)' \/ Resting(m)'
    BY <1>2, <1>4, <1>5, <1>6, <2>1, <2>2 DEF TrackAt
  <2> QED BY <1>4, <1>5, <2>1, <2>2, <2>3 DEF TrackAt
<1>11. CASE ParsedWithoutStream
  <2>1. /\ n' = n /\ UNCHANGED <<consumed, holder, kind, form, left>> /\ pc = "body" /\ pc' = "dispatch"
        /\ req.body \in {"none", "buffered"}
    BY <1>11 DEF ParsedWithoutStream, RQ!DropCurrent, bodyVars
  <2>2. Behind(m) /\ Resting(m + 1)
    BY <1>0, <1>2, <1>4, <2>1 DEF TrackAt, PlaceFacts, Ends, Resting
  <2> QED BY <1>2, <1>3, <1>4, <1>5, <2>1, <2>2 DEF TrackAt
<1>12. CASE ParsedWithStream
  <2>1. /\ n' = n /\ UNCHANGED <<consumed, form, phase>> /\ pc = "body" /\ pc' = "dispatch" /\ m \in Readers
        /\ req.body \in {"large", "chunked"}
    BY <1>0, <1>12 DEF ParsedWithStream, queueVars, Situated, Position, Readers
  <2>2. InRequest(m, 2) /\ req = reqs[m]
    BY <1>4, <2>1 DEF TrackAt
  <2>3. Behind(m)' /\ m <= Len(reqs) /\ InRequest(m, 2)' /\ reqs'[m] = reqs[m]
    BY <1>0, <1>2, <1>3, <1>5, <2>1, <2>2 DEF PlaceFacts
  <2>4. Len(BodyPieces("large")) = 2
    BY DEF BodyPieces
  <2>5. /\ holder' = [holder EXCEPT ![m] = "server"]
        /\ kind' = [kind EXCEPT ![m] = IF req.body = "large" THEN "Reader" ELSE "Iter"]
        /\ left' = [left EXCEPT ![m] = IF req.body = "large" THEN 2 ELSE 1]
    BY <1>12, <2>1, <2>4 DEF ParsedWithStream
  <2>8. /\ holder'[m] # "none" /\ (req.body = "large" => kind'[m] = "Reader" /\ left'[m] = 2)
        /\ req.body = "chunked" => kind'[m] = "Iter" /\ left'[m] = 1
    BY <1>0, <2>1, <2>5 DEF Situated
  <2>9. BodyAt(m)'
    <3>1. 2 \in 2..4 /\ 2 = 4 - 2 /\ 2 # 4
      OBVIOUS
    <3>2. reqs'[m].body = req.body
      BY <2>2, <2>3
    <3>3. CASE req.body = "large"
      <4>1. kind'[m] = "Reader" /\ reqs'[m].body = "large" /\ left'[m] = 4 - 2
        BY <2>8, <3>1, <3>2, <3>3, Zenon
      <4> QED BY <2>3, <3>1, <4>1, Zenon DEF BodyAt
    <3>4. CASE req.body = "chunked"
      <4>1. kind'[m] = "Iter" /\ reqs'[m].body = "chunked" /\ left'[m] = (IF 2 = 4 THEN 0 ELSE 1)
        BY <2>8, <3>1, <3>2, <3>4, Zenon
      <4> QED BY <2>3, <3>1, <4>1, Zenon DEF BodyAt
    <3> QED BY <2>1, <3>3, <3>4
  <2>6. ASSUME NEW k \in Readers, k # m PROVE holder'[k] = holder[k] /\ kind'[k] = kind[k] /\ left'[k] = left[k]
    BY <1>0, <1>12, <2>1, <2>6 DEF ParsedWithStream, Situated
  <2>7. m <= Len(reqs')
    BY <1>0, <1>2, <2>3 DEF PlaceFacts
  <2> QED BY <1>4, <1>5, <2>1, <2>3, <2>6, <2>7, <2>8, <2>9 DEF TrackAt
<1>13. CASE Dispatch
  <2>1. /\ m = n + 1 /\ m - 1 = n /\ UNCHANGED <<consumed, holder, kind, form, left>> /\ pc = "dispatch"
        /\ pc' \in {"expect", "call"}
    BY <1>1, <1>13 DEF Dispatch, RQ!Enqueue, bodyVars
  <2>2. Behind(m - 1)'
    BY <1>1, <1>2, <1>3, <2>1 DEF TrackAt
  <2>3. phase'[m - 1] = "gone" => Resting(m)'
    <3>1. phase'[m - 1] = phase[n]
      BY <1>0, <1>1, <1>13, <2>1 DEF Dispatch, RQ!Enqueue, Situated, Readers
    <3>2. phase[n] = "gone" => holder[n] = "none"
      BY <1>0, <2>1 DEF Situated, Position
    <3>3. holder[n] = "none" => Resting(m)
      BY <1>1, <2>1 DEF TrackAt
    <3> QED BY <1>2, <1>5, <2>1, <3>1, <3>2, <3>3
  <2>4. ASSUME NEW k \in Readers, holder'[k] # "none" PROVE k <= Len(reqs') /\ BodyAt(k)'
    BY <1>1, <1>5, <2>1, <2>4 DEF TrackAt
  <2> QED BY <2>1, <2>2, <2>3, <2>4 DEF TrackAt
<1>14. CASE ParseFailed \/ DropReader \/ DropQueue
  <2>1. /\ n' = n /\ UNCHANGED <<consumed, holder, kind, form, left>>
        /\ pc' \in {"exit", "upgrade", "unwind", "into_inner", "done"}
    BY <1>14 DEF ParseFailed, DropReader, DropQueue, bodyVars, loopVars, RQ!DropCurrent, RQ!DropWaiting, RQ!FinishDrop,
       RQ!DropQueue
  <2> QED BY <1>4, <1>5, <2>1 DEF TrackAt
<1>15. CASE ParseEof
  BY <1>15 DEF ParseEof
<1>16. ASSUME NEW k \in Readers, UsesBody(k) \/ PassesBody(k) PROVE TrackAt(m)'
  <2>1. /\ n' = n /\ UNCHANGED <<consumed, phase, kind, left>> /\ k = m - 1 /\ holder[k] # "none"
        /\ pc' \in {"using", "write"} /\ \A j \in Readers : j # k => holder'[j] = holder[j]
    BY <1>0, <1>16 DEF UsesBody, PassesBody, queueVars, Situated
  <2>2. phase[m - 1] # "gone"
    BY <1>0, <2>1 DEF Situated, Ownership
  <2> QED BY <1>4, <1>5, <2>1, <2>2 DEF TrackAt
<1>17. ASSUME NEW k \in Readers, ReadsBody(k) \/ DropsBody(k)
       PROVE  /\ n' = n /\ k = m - 1 /\ holder[k] # "none" /\ phase[k] = "current" /\ phase[m] # "current"
              /\ k <= Len(reqs) /\ BodyAt(k) /\ pc \notin {"start", "dispatch", "body"}
              /\ \A j \in Readers : j # k => holder[j] = "none"
  <2>1. n' = n /\ k = m - 1 /\ holder[k] # "none" /\ pc # "dispatch"
    BY <1>17 DEF ReadsBody, DropsBody, BodyPiece, LetGo, RQ!Read, RQ!DropCurrent
  <2>2. phase[k] = "current" /\ m \in Readers /\ \A j \in Readers : j # k => holder[j] = "none"
    BY <1>0, <2>1 DEF Situated, Ownership, Readers
  <2>4. m # k
    BY <1>23, <2>1, Zenon DEF NextTo
  <2>5. phase[m] # "current"
    BY <1>0, <2>2, <2>4 DEF Situated, RQ!Handover, RQ!Gone, RQ!Readers, Readers
  <2>3. phase[m] # "current" /\ pc \notin {"start", "body"}
    BY <1>0, <2>1, <2>2, <2>5 DEF Situated, Position, Readers
  <2> QED BY <1>4, <2>1, <2>2, <2>3 DEF TrackAt
<1>18. ASSUME NEW k \in Readers, ReadsBody(k) PROVE TrackAt(m)'
  <2>1. ReadsThrough(k) /\ UNCHANGED <<phase, holder, kind, form, pc, reqs>>
    BY <1>18 DEF ReadsBody, BodyPiece, RQ!Read, ReadsThrough, clientVars
  <2>2. form[k] # "chunks" /\ left[k] > 0 /\ left[k] \in Nat
    BY <1>0, <1>18 DEF ReadsBody, BodyPiece, Clean, Spoiled, Situated
  <2>3. BodyAt(k)'
    <3>1. PICK d \in 2..4 :
            /\ InRequest(k, d)
            /\ \/ kind[k] = "Reader" /\ reqs[k].body = "large" /\ left[k] = 4 - d
               \/ kind[k] = "Iter" /\ reqs[k].body = "chunked" /\ left[k] = IF d = 4 THEN 0 ELSE 1
      BY <1>17, <1>18 DEF BodyAt
    <3>2. d \in 2..3 /\ d + 1 \in 2..4
      BY <2>2, <3>1
    <3>3. InRequest(k, d + 1)' /\ (reqs[k].body = "chunked" => NextPiece.t = IF d = 2 THEN "chunk" ELSE "last")
      <4>1. k \in Int
        BY <1>1
      <4>2. CASE d = 2
        BY <2>1, <3>1, <4>1, <4>2, Upcoming
      <4>3. CASE d = 3
        BY <2>1, <3>1, <4>1, <4>3, Upcoming
      <4> QED BY <3>2, <4>2, <4>3
    <3>4. left'[k] = IF kind[k] = "Reader" THEN left[k] - 1 ELSE IF NextPiece.t = "chunk" THEN left[k] ELSE 0
      BY <1>0, <1>18, <2>2 DEF ReadsBody, BodyPiece, Situated
    <3> QED BY <2>1, <3>1, <3>2, <3>3, <3>4 DEF BodyAt
  <2> QED BY <1>4, <1>17, <1>18, <2>1, <2>3 DEF TrackAt
<1>19. ASSUME NEW k \in Readers, DropsBody(k) PROVE TrackAt(m)'
  <2>1. /\ UNCHANGED <<consumed, kind, form, left, reqs>> /\ holder'[k] = "none"
        /\ \A j \in Readers : j # k => holder'[j] = holder[j]
    BY <1>0, <1>19 DEF DropsBody, LetGo, RQ!DropCurrent, clientVars, Situated
  <2>2. k \notin late'
    BY DEF Clean, Spoiled
  <2>3. pc' = "exit" \/ Done(k)
    BY <1>19, <2>2 DEF DropsBody
  <2>4. Done(k) => Left(m) \/ Resting(m)
    <3>1. CASE left[k] = 0
      <4>1. InRequest(k, 4) /\ reqs[k].body \in {"large", "chunked"}
        BY <1>17, <1>19, <3>1 DEF BodyAt
      <4>2. k + 1 = m /\ k \in Int
        BY <1>1, <1>17, <1>19
      <4> QED BY <1>0, <4>1, <4>2 DEF Ends, Resting
    <3>2. CASE Leaves(k)
      <4>1. k = m - 1 /\ k \in Readers
        BY <1>17, <1>19
      <4>2. m > 1
        BY <1>23, <4>1, Zenon DEF NextTo
      <4> QED BY <3>2, <4>1, <4>2 DEF Left, Leaves
    <3> QED BY <3>1, <3>2 DEF Done, Leaves
  <2>5. pc' # "exit" => Left(m)' \/ Resting(m)'
    BY <1>2, <1>5, <1>6, <2>1, <2>3, <2>4
  <2>6. phase'[m] = phase[m] /\ pc' \notin {"start", "dispatch", "body"}
    <3>0. k = m - 1 /\ n = m /\ n <= MaxReaders
      BY <1>0, <1>17, <1>19 DEF Situated
    <3>1. k = m - 1 /\ m \in Readers /\ m # k
      BY <1>23, <3>0, Zenon DEF NextTo
    <3>2. phase' = [phase EXCEPT ![k] = "gone"] /\ phase \in [Readers -> RQ!Phases]
      BY <1>0, <1>19 DEF DropsBody, LetGo, RQ!DropCurrent, Situated
    <3>3. phase'[m] = phase[m]
      BY <3>1, <3>2
    <3> QED BY <1>17, <1>19, <3>3 DEF DropsBody
  <2> QED BY <1>4, <1>17, <1>19, <2>1, <2>5, <2>6 DEF TrackAt
<1>20. ASSUME ParsePiece \/ BufferBody
       PROVE  /\ n' = n /\ m \in Readers /\ ReadsThrough(m) /\ UNCHANGED <<phase, holder, kind, form, reqs>>
              /\ phase[m] = "current" /\ \A k \in Readers : holder[k] = "none"
  <2>1. n' = n /\ m \in Readers /\ ReadsThrough(m) /\ phase[m] = "current" /\ pc # "dispatch"
    BY <1>0, <1>20 DEF ParsePiece, BufferBody, RQ!Read, ReadsThrough, Situated, Position, Readers
  <2>2. \A k \in Readers : holder[k] = "none"
    BY <1>0, <2>1 DEF Situated, Ownership, RQ!Handover, RQ!Gone, RQ!Readers, Readers
  <2> QED BY <1>20, <2>1, <2>2 DEF ParsePiece, BufferBody, RQ!Read, bodyVars, clientVars
<1>21. CASE BufferBody
  <2>1. InRequest(m, 2) /\ req = reqs[m] /\ ~Left(m) /\ req.body = "small" /\ pc = "body" /\ pc' = pc
    BY <1>4, <1>20, <1>21 DEF TrackAt, BufferBody
  <2>2. InRequest(m, 3)'
    BY <1>2, <1>20, <1>21, <2>1, Upcoming
  <2>3. req'.body = "buffered"
    BY <1>21 DEF BufferBody, TypeInv, LoopTyped, RequestRecords
  <2> QED BY <1>4, <1>6, <1>20, <1>21, <2>1, <2>2, <2>3 DEF TrackAt
<1>22. CASE ParsePiece
  <2>1. pc = "parse" /\ got # "junk" /\ got \in {"nothing", "blank", "line", "junk"}
    BY <1>4, <1>20, <1>22 DEF TrackAt, ParsePiece, TypeInv, LoopTyped
  <2>2. ~Left(m)
    <3>1. CASE got = "nothing"
      <4>1. SUFFICES ASSUME Left(m) PROVE FALSE
        OBVIOUS
      <4>2. Leaves(m - 1)' /\ m - 1 \in Readers /\ m > 1
        <5>1. m \in Readers /\ m > 1 /\ MaxReaders \in Nat /\ UNCHANGED <<form, kind>> /\ Leaves(m - 1)
          BY <1>0, <1>20, <1>22, <4>1 DEF Left, Situated
        <5>2. m - 1 \in Readers
          BY <1>23, <5>1, Zenon DEF NextTo
        <5> QED BY <5>1, <5>2 DEF Leaves
      <4>3. \E i \in DOMAIN consumed' : consumed'[i] > m - 1
        <5>1. consumed \in Seq(Readers) /\ consumed' = Append(consumed, m) /\ m \in Readers
          BY <1>0, <1>20, <1>22 DEF Situated, ReadsThrough
        <5>2. Len(consumed) + 1 \in DOMAIN consumed' /\ consumed'[Len(consumed) + 1] = m
          BY <5>1, Appended
        <5>3. m > m - 1
          BY <1>23, Zenon DEF NextTo
        <5> QED BY <5>2, <5>3, Zenon
      <4> QED BY <4>2, <4>3 DEF Clean, Spoiled
    <3>2. CASE got # "nothing"
      BY <1>4, <1>20, <1>22, <2>1, <3>2 DEF TrackAt
    <3> QED BY <3>1, <3>2
  <2>3. ~Left(m)'
    BY <1>6, <1>20, <1>22, <2>2
  <2>4. CASE got \in {"nothing", "blank"} /\ Begin(m)
    <3>1. NextPiece.t = "line" /\ InRequest(m, 1)'
      BY <1>2, <1>20, <1>22, <2>4, Upcoming
    <3>2. got' = "line" /\ pc' = "parse"
      BY <1>22, <2>1, <2>4, <3>1 DEF ParsePiece, HeadEnds, HeadAfter
    <3> QED BY <1>4, <1>20, <1>22, <2>3, <3>1, <3>2 DEF TrackAt
  <2>5. CASE got = "nothing" /\ InRequest(m - 1, 4) /\ reqs[m - 1].body = "chunked"
    <3>1. NextPiece.t = "crlf" /\ InRequest(m - 1, 5)'
      BY <1>2, <1>20, <1>22, <2>5, Upcoming
    <3>2. got' = "blank" /\ pc' = "parse"
      BY <1>22, <2>1, <2>5, <3>1 DEF ParsePiece, HeadEnds, HeadAfter
    <3>3. Begin(m)'
      <4>1. reqs'[m - 1].body = "chunked" /\ (m - 1) + 1 = m
        BY <1>20, <1>22, <2>5
      <4> QED BY <1>0, <1>2, <3>1, <4>1 DEF Ends
    <3> QED BY <1>4, <1>20, <1>22, <2>3, <3>2, <3>3 DEF TrackAt
  <2>6. CASE got = "line" /\ InRequest(m, 1)
    <3>1. NextPiece = [k |-> m, t |-> "fields"] /\ InRequest(m, 2)'
      BY <1>2, <1>20, <1>22, <2>6, Upcoming
    <3>2. got' = "nothing" /\ (pc' = "fail" \/ (pc' = "body" /\ req' = reqs[m]))
      BY <1>22, <2>1, <2>6, <3>1 DEF ParsePiece, HeadEnds, HeadParses
    <3> QED BY <1>4, <1>20, <1>22, <2>3, <3>1, <3>2 DEF TrackAt
  <2> QED BY <1>4, <1>20, <1>22, <2>1, <2>2, <2>4, <2>5, <2>6 DEF TrackAt, Resting
<1> QED
  BY <1>0, <1>7, <1>8, <1>9, <1>10, <1>11, <1>12, <1>13, <1>14, <1>15, <1>16, <1>18, <1>19, <1>21, <1>22 DEF StepKind

-----------------------------------------------------------------------------
(* Who reads. *)
LEMMA ReaderOf ==
    ASSUME TypeInv, [Next]_vars, NEW q \in Readers, ReadsThrough(q)
    PROVE  ((ParsePiece \/ BufferBody) /\ n = q) \/ ReadsBody(q)
<1>0. Situated /\ StepKind
  BY SituatedFacts, EveryStep
<1>1. consumed \in Seq(Readers) /\ consumed' = Append(consumed, q)
  BY <1>0 DEF Situated, ReadsThrough
<1>2. \A p \in Readers : consumed' = Append(consumed, p) => p = q
  <2>1. \A p \in Readers : Append(consumed, p)[Len(consumed) + 1] = p
    BY <1>1, Appended
  <2> QED BY <1>1, <2>1
<1>3. consumed' # consumed
  BY <1>1, Appended
<1>4. CASE ParsePiece \/ BufferBody
  <2>1. n \in Readers /\ consumed' = Append(consumed, n)
    BY <1>0, <1>4 DEF ParsePiece, BufferBody, RQ!Read, Situated, Position, Readers
  <2> QED BY <1>2, <1>4, <2>1
<1>5. ASSUME NEW k \in Readers, ReadsBody(k) PROVE ReadsBody(q)
  <2>1. consumed' = Append(consumed, k)
    BY <1>5 DEF ReadsBody, BodyPiece, RQ!Read
  <2> QED BY <1>2, <1>5, <2>1
<1>6. ASSUME NEW k \in Readers, UsesBody(k) \/ PassesBody(k) \/ DropsBody(k) PROVE UNCHANGED consumed
  BY <1>6 DEF UsesBody, PassesBody, DropsBody, LetGo, RQ!DropCurrent, queueVars
<1>7. CASE \/ UNCHANGED <<queueVars, bodyVars, pc, got, req>> \/ Moves \/ Start \/ ParseRecv \/ ParseEof
           \/ ParsedWithoutStream \/ ParsedWithStream \/ ParseFailed \/ Dispatch \/ DropReader \/ DropQueue
  <2>1. UNCHANGED consumed
    BY <1>7 DEF Moves, Start, ParseRecv, ParseEof, ParsedWithoutStream, ParsedWithStream, ParseFailed, Dispatch,
       DropReader, DropQueue, queueVars, RQ!Enqueue, RQ!Recv, RQ!DropCurrent, RQ!DropWaiting, RQ!FinishDrop, RQ!DropQueue
  <2> QED BY <1>3, <2>1
<1> QED BY <1>0, <1>3, <1>4, <1>5, <1>6, <1>7 DEF StepKind

(* Where the stream is expected, the next piece belongs to its reader, or is *)
(* the empty line after a chunked body, or what is left of a body.           *)
LEMMA NextIsOwn ==
    ASSUME TypeInv, Layout, Fresh, [Next]_vars, Clean, Track, NEW q \in Readers, ReadsThrough(q)
    PROVE  \/ NextPiece.t = "crlf" \/ q = NextPiece.k
           \/ \E k \in Readers : Spoiled(k)' /\ k <= NextPiece.k
<1>0. Situated /\ q \in Int /\ q \in Nat /\ q - 1 \in Int /\ NextTo(q)
  BY SituatedFacts, ReaderBefore DEF Situated, Readers
<1>1. n = q => TrackAt(q)
  BY <1>0 DEF Track
<1>2. CASE BufferBody /\ n = q
  <2>1. InRequest(q, 2) /\ reqs[q].body = "small"
    BY <1>1, <1>2 DEF BufferBody, TrackAt
  <2> QED BY <1>0, <2>1, Upcoming
<1>3. CASE ParsePiece /\ n = q
  <2>1. pc = "parse" /\ phase[q] = "current" /\ got \in {"nothing", "blank", "line", "junk"}
    BY <1>3 DEF ParsePiece, RQ!Read, TypeInv, LoopTyped
  <2>2. Left(q) \/ Begin(q) \/ (InRequest(q - 1, 4) /\ reqs[q - 1].body = "chunked") \/ InRequest(q, 1)
    BY <1>1, <1>3, <2>1 DEF TrackAt, Resting
  <2>3. CASE Left(q)
    <3>1. q > 1 /\ Leaves(q - 1) /\ q - 1 \in Readers /\ q > q - 1
      BY <1>0, <2>3, Zenon DEF NextTo, Left
    <3>2. Behind(q - 1)
      BY <1>1, <1>3, <3>1 DEF TrackAt
    <3>3. NextPiece.k >= q - 1
      BY <1>0, <3>2, PlacesRead DEF ReadsThrough
    <3>4. Spoiled(q - 1)'
      <4>1. UNCHANGED <<form, kind>>
        BY <1>3 DEF ParsePiece, bodyVars
      <4>2. Leaves(q - 1)'
        BY <3>1, <4>1 DEF Leaves
      <4>3. Len(consumed) + 1 \in DOMAIN consumed' /\ consumed'[Len(consumed) + 1] = q
        BY <1>0, Appended DEF Situated, ReadsThrough
      <4> QED BY <3>1, <4>2, <4>3, Zenon DEF Spoiled
    <3>5. q - 1 <= NextPiece.k
      BY <3>3
    <3> QED BY <3>1, <3>4, <3>5, Zenon
  <2>4. CASE Begin(q) \/ InRequest(q, 1)
    BY <1>0, <2>4, Upcoming
  <2>5. CASE InRequest(q - 1, 4) /\ reqs[q - 1].body = "chunked"
    BY <1>0, <2>5, Upcoming
  <2> QED BY <2>2, <2>3, <2>4, <2>5
<1>4. CASE ReadsBody(q)
  <2>1. n \in Nat /\ TrackAt(n) /\ holder[q] # "none"
    BY <1>0, <1>4 DEF Situated, Track, ReadsBody
  <2>2. PICK d \in 2..4 :
          /\ InRequest(q, d)
          /\ \/ kind[q] = "Reader" /\ reqs[q].body = "large" /\ left[q] = 4 - d
             \/ kind[q] = "Iter" /\ reqs[q].body = "chunked" /\ left[q] = IF d = 4 THEN 0 ELSE 1
    BY <2>1 DEF TrackAt, BodyAt
  <2>3. left[q] > 0 /\ left[q] \in Nat
    BY <1>0, <1>4 DEF ReadsBody, BodyPiece, Clean, Spoiled, Situated
  <2>4. d = 2 \/ d = 3
    BY <2>2, <2>3
  <2> QED BY <1>0, <2>2, <2>4, Upcoming
<1> QED BY <1>2, <1>3, <1>4, ReaderOf

(* What has been read is read through its own reader, up to the first body  *)
(* that is not read to its end.                                             *)
LEMMA AlignedStep ==
    ASSUME TypeInv, TypeInv', AlignInv, [Next]_vars
    PROVE  AlignedUnlessSpoiled'
<1>0. Situated /\ Situated' /\ Layout /\ Fresh /\ AlignedUnlessSpoiled
  BY SituatedFacts, PTL DEF AlignInv
<1>1. Len(consumed) \in Nat /\ Len(wire) \in Nat /\ wire \in Seq(WirePieces) /\ Len(consumed) <= Len(wire)
  BY <1>0, StreamSizes DEF TypeInv, ClientTyped, Fresh
<1>2. DOMAIN consumed = 1..Len(consumed)
  BY <1>0 DEF Situated
<1>3. \A i \in 1..Len(wire) : wire'[i] = wire[i]
  <2>1. UNCHANGED <<reqs, AllPieces>> \/ ClientStart
    BY <1>0, LayoutStep
  <2>2. CASE ClientSend \/ ClientSendEarly
    <3>1. unsent # << >> /\ wire' = Append(wire, Head(unsent)) /\ unsent \in Seq(WirePieces)
      BY <2>2 DEF ClientSend, ClientSendEarly, PutOnWire, TypeInv, ClientTyped
    <3> QED BY <1>1, <3>1, Appended, NonEmpty
  <2>3. UNCHANGED wire \/ ClientSend \/ ClientSendEarly
    BY SMTT(30)
       DEF Next, ServerStep, ThreadStep, ClientStep, CapturedForever, Terminated, vars, clientVars,
           Start, ParseRecv, ParsePiece, ParseEof, BufferBody, ParseReadFails, ParsedWithoutStream, ParsedWithStream,
           ParseFailed, Dispatch, ExpectContinue, ExpectReject, Call, CallSpawn, CallEcho, CallCapture, UsePiece,
           UseDone, UseTimeout, WriteResponse, KeepAlive, Close, Upgrade, WriteFails, WriteBodyFails, DropReader,
           DropQueue, IntoInner, HandlerReturns, DropWriter, ThreadPiece, ThreadDone, ThreadTimeout, ClientClose,
           ClientStart
  <2> QED BY <2>2, <2>3
<1>4. ASSUME NEW i \in 1..Len(consumed), consumed'[i] = consumed[i]
      PROVE  \/ wire'[i].t = "crlf" \/ consumed'[i] = wire'[i].k
             \/ \E k \in Readers : Spoiled(k)' /\ k <= wire'[i].k
  <2>1. wire'[i] = wire[i]
    <3>1. i \in 1..Len(wire)
      BY <1>1
    <3> QED BY <1>3, <3>1
  <2>2. \/ wire[i].t = "crlf" \/ consumed[i] = wire[i].k
        \/ \E k \in Readers : Spoiled(k) /\ k <= wire[i].k
    BY <1>0, <1>2 DEF AlignedUnlessSpoiled
  <2>3. \A k \in Readers : Spoiled(k) => Spoiled(k)'
    BY <1>0, SpoiledStays
  <2> QED BY <1>4, <2>1, <2>2, <2>3, Zenon
<1>5. CASE UNCHANGED consumed
  <2>1. DOMAIN consumed' = 1..Len(consumed) /\ \A i \in 1..Len(consumed) : consumed'[i] = consumed[i]
    BY <1>2, <1>5
  <2> QED BY <1>4, <2>1, Zenon DEF AlignedUnlessSpoiled
<1>6. ASSUME NEW q \in Readers, ReadsThrough(q) PROVE AlignedUnlessSpoiled'
  <2> DEFINE l == Len(consumed) + 1
  <2>1. /\ DOMAIN consumed' = 1..l /\ consumed'[l] = q
        /\ \A i \in 1..Len(consumed) : consumed'[i] = consumed[i]
    BY <1>0, <1>6, Appended DEF Situated, ReadsThrough
  <2>2. \A i \in 1..l : i \in 1..Len(consumed) \/ i = l
    BY <1>1
  <2>3. wire'[l] = NextPiece
    BY <1>6 DEF ReadsThrough, NextPiece, clientVars
  <2>4. ~EndOfStream
    BY <1>6 DEF ReadsThrough, EndOfStream
  <2>5. \/ NextPiece.t = "crlf" \/ q = NextPiece.k
        \/ \E k \in Readers : Spoiled(k)' /\ k <= NextPiece.k
    <3>1. CASE Clean
      <4>1. Track
        BY <2>4, <3>1 DEF AlignInv
      <4> QED BY <1>0, <1>6, <3>1, <4>1, NextIsOwn
    <3>2. CASE ~Clean
      <4>1. PICK k \in Readers : Spoiled(k) /\ Behind(k)
        BY <2>4, <3>2 DEF AlignInv, Lost
      <4>2. k \in Int
        BY <1>0 DEF Situated, Readers
      <4>3. NextPiece.k >= k
        BY <1>0, <1>6, <4>1, <4>2, PlacesRead DEF ReadsThrough
      <4>4. k <= NextPiece.k
        BY <4>3
      <4>5. Spoiled(k)'
        BY <1>0, <4>1, SpoiledStays
      <4> QED BY <4>4, <4>5, Zenon
    <3> QED BY <3>1, <3>2
  <2>6. \/ wire'[l].t = "crlf" \/ consumed'[l] = wire'[l].k
        \/ \E k \in Readers : Spoiled(k)' /\ k <= wire'[l].k
    BY <2>1, <2>3, <2>5, Zenon
  <2> HIDE DEF l
  <2> QED BY <1>4, <2>1, <2>2, <2>6, Zenon DEF AlignedUnlessSpoiled
<1> QED BY <1>5, <1>6, ReadEffect

(* The stream starts at the first request. *)
LEMMA AlignInit == Init => AlignInv
<1> SUFFICES ASSUME Init PROVE AlignInv
  OBVIOUS
<1>1. /\ n = 0 /\ pc = "start" /\ got = "nothing" /\ late = {} /\ consumed = << >> /\ wire = << >> /\ unsent = << >>
      /\ reqs = << >> /\ holder = [k \in Readers |-> "none"] /\ form = [k \in Readers |-> "Body"] /\ eof = "open"
  BY DEF Init, RQ!Init
<1>2. AllPieces = << >> /\ Len(AllPieces) = 0 /\ Len(reqs) = 0 /\ Len(consumed) = 0 /\ Len(wire) = 0
  BY <1>1 DEF AllPieces
<1>3. Layout
  BY <1>2 DEF Layout, LaidOut, BeginsIn
<1>4. Fresh
  BY <1>1, <1>2 DEF Fresh
<1>5. AlignedUnlessSpoiled
  <2>1. DOMAIN consumed = {}
    BY <1>1
  <2> QED BY <2>1 DEF AlignedUnlessSpoiled
<1>6. Clean
  BY <1>1 DEF Clean, Spoiled, Leaves
<1>7. Track
  <2>1. Begin(1)
    BY <1>2 DEF Begin, BeginsIn
  <2> QED BY <1>1, <2>1 DEF Track, TrackAt
<1> QED BY <1>3, <1>4, <1>5, <1>6, <1>7 DEF AlignInv

(* Every step of the connection keeps it there. *)
LEMMA AlignStep == TypeInv /\ TypeInv' /\ AlignInv /\ [Next]_vars => AlignInv'
<1> SUFFICES ASSUME TypeInv, TypeInv', AlignInv, [Next]_vars PROVE AlignInv'
  OBVIOUS
<1>1. Layout /\ Fresh
  BY DEF AlignInv
<1>2. Layout' /\ Fresh' /\ AlignedUnlessSpoiled'
  BY <1>1, LayoutStep, FreshStep, AlignedStep
<1>3. CASE EndOfStream
  BY <1>1, <1>2, <1>3, EndStays DEF AlignInv
<1>4. CASE ~EndOfStream /\ ~Clean
  <2>1. Lost
    BY <1>4 DEF AlignInv
  <2>2. Lost'
    BY <1>1, <1>2, <2>1, LostStep
  <2>3. ~Clean'
    BY <2>2 DEF Lost, Clean
  <2> QED BY <1>2, <2>2, <2>3 DEF AlignInv
<1>5. CASE ~EndOfStream /\ Clean
  <2>1. Track
    BY <1>5 DEF AlignInv
  <2>2. CASE Clean'
    BY <1>1, <1>2, <1>5, <2>1, <2>2, TrackStep DEF AlignInv
  <2>3. CASE ~Clean'
    BY <1>1, <1>2, <1>5, <2>1, <2>3, LostStep DEF AlignInv
  <2> QED BY <2>2, <2>3
<1> QED BY <1>3, <1>4, <1>5

(* For every connection: what the server reads through reader k belongs to  *)
(* request k (read_queue.rs), whatever the client sends, pipelines or cuts  *)
(* off and whichever threads hold the bodies, up to the first body that is  *)
(* not read to its end: one that ran into the read timeout, that the service *)
(* or the loop let go of before its end, or that is echoed in chunks.       *)
THEOREM PipeliningUnlessSpoiled == SafeSpec => []AlignedUnlessSpoiled
<1>1. Init => AlignInv
  BY AlignInit
<1>2. TypeInv /\ TypeInv' /\ AlignInv /\ [Next]_vars => AlignInv'
  BY AlignStep
<1>3. AlignInv => AlignedUnlessSpoiled
  BY DEF AlignInv
<1> QED BY <1>1, <1>2, <1>3, TypeInvHolds, PTL DEF SafeSpec

-----------------------------------------------------------------------------
(* The response a with a body of kind b of the request as its own. *)
WithBody(a, b) == [a EXCEPT !.len = IF b = "Reader" THEN {2000} ELSE {}]

(* The service reads every chunked body to its end and never drops a reader *)
(* it has taken from a body before its end; should_continue rejects no      *)
(* chunked request; a body of known length is not sent back in chunks, and  *)
(* a chunked body only in a response that has a body.                       *)
ReadToEnd ==
    /\ {<<"Iter", "drop">>, <<"Iter", "abandon">>, <<"Reader", "abandon">>} \cap Uses = {}
    /\ \A r \in ClientRequests :
        r.body = "chunked" /\ r.expect = "100-continue" => "reject" \notin Continues
    /\ \A r \in ClientRequests, a \in Answers :
        /\ r.body = "large" /\ <<"Reader", "echo">> \in Uses =>
            Encoding(Prepared(WithBody(a, "Reader"), r), r.version) # "chunked"
        /\ r.body = "chunked" /\ <<"Iter", "echo">> \in Uses =>
            ShouldWriteBody(Prepared(WithBody(a, "Iter"), r), r)

(* The request being answered is one the client sent, and the body that the *)
(* loop holds is of the kind the request announced.                         *)
Asked ==
    /\ req.body \in {"large", "chunked"} => req \in ClientRequests
    /\ \A k \in Readers : holder[k] # "none" /\ pc \in {"dispatch", "expect", "call", "write", "outcome"} =>
        req.body = IF kind[k] = "Reader" THEN "large" ELSE "chunked"
    /\ pc = "expect" => req.expect = "100-continue"

(* A response with the body of its request, which is of kind b. *)
Echoes(b, response, request) ==
    /\ <<b, "echo">> \in Uses
    /\ \E a \in Answers : response = Prepared(WithBody(a, b), request)
Echoed == \A k \in Readers : pc = "write" /\ holder[k] = "response" => Echoes(kind[k], res, req)

(* serve() is about to return. *)
Quitting == pc \in {"exit", "unwind", "done"} \/ (pc = "using" /\ after = "exit")

(* A body that is not read to its end is the last thing of its connection. *)
NothingLeft ==
    /\ \A i \in DOMAIN consumed : phase[consumed[i]] \in {"current", "gone"}
    /\ \A k \in Readers : Leaves(k) =>
        form[k] = "drain" /\ n = k + 1 /\ Quitting /\ \A i \in DOMAIN consumed : consumed[i] <= k

ReadInv == Asked /\ Echoed /\ NothingLeft

(* The body that is used or passed on is the only one with an owner. *)
LEMMA OneOwner ==
    TypeInv => \A j, k \in Readers : holder[j] # "none" /\ phase[k] = "current" => j = k
<1> SUFFICES ASSUME TypeInv, NEW j \in Readers, NEW k \in Readers, holder[j] # "none", phase[k] = "current" PROVE j = k
  OBVIOUS
<1>1. Situated
  BY SituatedFacts
<1>2. phase[j] = "current"
  BY <1>1 DEF Situated, Ownership
<1>3. j \in Int /\ k \in Int /\ j >= 1 /\ k >= 1 /\ Readers = RQ!Readers
  BY <1>1 DEF Situated, Readers, RQ!Readers
<1>4. \A i \in 1..(j - 1) : phase[i] = "gone"
  BY <1>1, <1>2, <1>3, Zenon DEF Situated, RQ!Handover, RQ!Gone
<1>5. \A i \in 1..(k - 1) : phase[i] = "gone"
  BY <1>1, <1>3, Zenon DEF Situated, RQ!Handover, RQ!Gone
<1>6. k \notin 1..(j - 1) /\ j \notin 1..(k - 1)
  BY <1>2, <1>4, <1>5
<1> QED BY <1>3, <1>6

(* Asked is kept. *)
LEMMA AskedStep ==
    ASSUME TypeInv, [Next]_vars, Asked
    PROVE  Asked'
<1>0. Situated /\ StepKind /\ req \in RequestRecords
  BY SituatedFacts, EveryStep DEF TypeInv, LoopTyped
<1>1. CASE UNCHANGED <<queueVars, bodyVars, pc, got, req>> \/ Moves
  BY <1>1 DEF Moves, Asked, bodyVars
<1>2. CASE Start \/ ParseRecv \/ ParseFailed \/ DropReader \/ DropQueue
  BY <1>2 DEF Start, ParseRecv, ParseFailed, DropReader, DropQueue, Asked, bodyVars, loopVars
<1>3. CASE ParsePiece
  <2>1. pc' \in {"parse", "body", "fail"} /\ (req' = req \/ req' = reqs[NextPiece.k])
    BY <1>3 DEF ParsePiece
  <2>2. reqs[NextPiece.k] \in ClientRequests
    <3>1. wire \in Seq(WirePieces) /\ Len(wire) \in Nat /\ Len(consumed) \in Nat /\ Belongs(wire) /\ reqs \in Seq(ClientRequests)
      BY StreamSizes DEF TypeInv, ClientTyped
    <3>2. Len(consumed) + 1 \in DOMAIN wire
      BY <1>3, <3>1 DEF ParsePiece, Available
    <3>3. NextPiece.k \in 1..Len(reqs)
      <4>1. NextPiece \in WirePieces /\ NextPiece.k <= Len(reqs)
        BY <3>1, <3>2 DEF Belongs, NextPiece
      <4> QED BY <3>1, <4>1 DEF WirePieces, Readers
    <3> QED BY <3>1, <3>3
  <2> QED BY <2>1, <2>2 DEF Asked
<1>4. CASE ParseEof
  <2>1. pc' \in {"body", "fail"} /\ (req' = req \/ req' = Truncated(reqs[Len(reqs)]))
    BY <1>4 DEF ParseEof
  <2>2. reqs[Len(reqs)] \in RequestRecords \/ req' = req
    <3>1. reqs \in Seq(ClientRequests) /\ Len(reqs) \in Nat /\ (got # "nothing" => Len(reqs) > 0)
      BY StreamSizes DEF TypeInv, ClientTyped
    <3>2. got = "line" \/ req' = req
      BY <1>4 DEF ParseEof
    <3> QED BY <3>1, <3>2, ServeAssumption
  <2>3. req' = req \/ req'.body = "none"
    BY <2>1, <2>2 DEF Truncated, RequestRecords
  <2> QED BY <2>1, <2>3 DEF Asked
<1>5. CASE BufferBody
  <2>1. pc' = "body" /\ req'.body = "buffered"
    BY <1>0, <1>5 DEF BufferBody, RequestRecords
  <2> QED BY <2>1 DEF Asked
<1>6. CASE ParsedWithoutStream
  <2>1. pc' = "dispatch" /\ UNCHANGED <<req, holder>> /\ \A k \in Readers : holder[k] = "none"
    <3>1. n \in Readers /\ phase[n] = "current" /\ holder[n] = "none"
      BY <1>0, <1>6 DEF ParsedWithoutStream, Situated, Position, Ownership, Readers
    <3> QED BY <1>6, <3>1, OneOwner DEF ParsedWithoutStream, bodyVars
  <2> QED BY <2>1 DEF Asked
<1>7. CASE ParsedWithStream
  <2>1. n \in Readers /\ phase[n] = "current"
    BY <1>0, <1>7 DEF ParsedWithStream, Situated, Position, Readers
  <2>2. \A k \in Readers : k # n => holder'[k] = "none"
    BY <1>0, <1>7, <2>1, OneOwner DEF ParsedWithStream, Situated
  <2>3. pc' = "dispatch" /\ UNCHANGED req /\ req'.body = IF kind'[n] = "Reader" THEN "large" ELSE "chunked"
    BY <1>0, <1>7, <2>1 DEF ParsedWithStream, Situated
  <2> QED BY <2>2, <2>3 DEF Asked
<1>8. CASE Dispatch
  BY <1>8 DEF Dispatch, Asked, bodyVars
<1>9. ASSUME NEW k \in Readers, UsesBody(k) \/ PassesBody(k) PROVE Asked'
  <2>1. /\ UNCHANGED <<req, kind>> /\ pc \in {"expect", "call", "write", "outcome"} /\ holder[k] # "none" /\ pc' # "expect"
        /\ \A j \in Readers : j # k => holder'[j] = holder[j]
    BY <1>0, <1>9 DEF UsesBody, PassesBody, Situated
  <2> QED BY <2>1 DEF Asked
<1>10. ASSUME NEW k \in Readers, ReadsBody(k) PROVE Asked'
  BY <1>10 DEF ReadsBody, Asked
<1>11. ASSUME NEW k \in Readers, DropsBody(k) PROVE Asked'
  <2>1. phase[k] = "current" /\ holder'[k] = "none" /\ \A j \in Readers : j # k => holder'[j] = holder[j]
    BY <1>0, <1>11 DEF DropsBody, LetGo, Situated, Ownership
  <2>2. \A j \in Readers : holder'[j] = "none"
    BY <2>1, OneOwner
  <2> QED BY <1>11, <2>2 DEF DropsBody, Asked
<1> QED BY <1>0, <1>1, <1>2, <1>3, <1>4, <1>5, <1>6, <1>7, <1>8, <1>9, <1>10, <1>11 DEF StepKind

(* Echoed is kept. *)
LEMMA EchoedStep ==
    ASSUME TypeInv, [Next]_vars, Echoed
    PROVE  Echoed'
<1>0. Situated
  BY SituatedFacts
<1>1. CASE pc' # "write"
  BY <1>1 DEF Echoed
<1>2. CASE UNCHANGED <<pc, req, res, holder, kind>>
  BY <1>2 DEF Echoed
<1>3. ASSUME pc \in {"call", "using"}
      PROVE  n - 1 \in Readers /\ (\A j \in Readers : j # n - 1 => holder[j] = "none")
  <2>1. n > 1 /\ n \in Nat /\ n <= MaxReaders /\ MaxReaders \in Nat
    BY <1>0, <1>3 DEF Situated, Position
  <2>2. n - 1 \in Readers
    BY <2>1 DEF Readers
  <2>3. \A j \in Readers : j # n - 1 => holder[j] = "none"
    BY <1>0, <1>3 DEF Situated, Ownership
  <2> QED BY <2>2, <2>3
<1>4. ASSUME NEW k \in Readers, n - 1 = k, \A j \in Readers : j # k => holder[j] = "none",
             NEW h \in {"none", "thread", "upgrade"}, holder' = [holder EXCEPT ![k] = h]
      PROVE  Echoed'
  <2>1. \A j \in Readers : holder'[j] # "response"
    BY <1>0, <1>4 DEF Situated
  <2> QED BY <2>1 DEF Echoed
<1>5. CASE CallEcho
  <2>1. PICK k \in Readers : n - 1 = k
    BY <1>3, <1>5 DEF CallEcho
  <2>2. \A j \in Readers : j # k => holder'[j] = "none"
    BY <1>0, <1>3, <1>5, <2>1 DEF CallEcho, Current, Situated
  <2>3. Echoes(kind[k], res', req) /\ UNCHANGED <<kind, req>>
    <3>1. Current = k
      BY <2>1 DEF Current
    <3>2. Echoes(kind[Current], res', req)
      <4>1. <<kind[Current], "echo">> \in Uses
        BY <1>5 DEF CallEcho, CurrentUses
      <4> QED BY <1>5, <4>1, Zenon DEF CallEcho, Echoes, WithBody
    <3> QED BY <1>5, <3>1, <3>2 DEF CallEcho
  <2> QED BY <2>2, <2>3 DEF Echoed
<1>6. CASE CallSpawn \/ CallCapture
  <2>1. PICK k \in Readers : n - 1 = k
    BY <1>3, <1>6 DEF CallSpawn, CallCapture
  <2>2. \E h \in {"thread", "upgrade"} : holder' = [holder EXCEPT ![k] = h]
    BY <1>6, <2>1 DEF CallSpawn, CallCapture, Current
  <2> QED BY <1>3, <1>4, <1>6, <2>1, <2>2 DEF CallSpawn, CallCapture
<1>7. CASE UseDone \/ UseTimeout
  <2>1. PICK k \in Readers : n - 1 = k
    BY <1>3, <1>7 DEF UseDone, UseTimeout
  <2>2. holder' = [holder EXCEPT ![k] = "none"]
    BY <1>7, <2>1 DEF UseDone, UseTimeout, LetGo, Current
  <2> QED BY <1>3, <1>4, <1>7, <2>1, <2>2 DEF UseDone, UseTimeout
<1>8. CASE Call /\ pc' = "write"
  <2>1. PICK k \in Readers : n - 1 = k
    BY <1>3, <1>8 DEF Call
  <2>2. UNCHANGED holder /\ holder[k] \in {"none", "thread"}
    BY <1>8, <2>1 DEF Call, UseBodyThen, Current
  <2>3. \A j \in Readers : holder'[j] # "response"
    BY <1>3, <1>8, <2>1, <2>2 DEF Call
  <2> QED BY <2>3 DEF Echoed
<1>9. ASSUME NEW j \in Readers, ThreadStep(j) PROVE Echoed'
  <2>1. UNCHANGED <<pc, req, res, kind>> /\ (UNCHANGED holder \/ holder' = [holder EXCEPT ![j] = "none"])
    BY <1>9 DEF ThreadStep, ThreadPiece, ThreadDone, ThreadTimeout, LetGo, loopVars
  <2>2. \A k \in Readers : holder'[k] = "response" => holder[k] = "response"
    BY <1>0, <2>1 DEF Situated
  <2> QED BY <2>1, <2>2 DEF Echoed
<1>10. CASE ClientStep \/ CapturedForever \/ Terminated \/ UNCHANGED vars
  BY <1>2, <1>10 DEF ClientStep, ClientStart, ClientSend, ClientSendEarly, PutOnWire, ClientClose, CapturedForever,
     Terminated, vars, loopVars, bodyVars
<1>11. CASE \/ Start \/ ParseRecv \/ ParsePiece \/ ParseEof \/ BufferBody \/ ParseReadFails
            \/ ParsedWithoutStream \/ ParsedWithStream \/ ParseFailed \/ Dispatch \/ ExpectContinue
            \/ UsePiece \/ KeepAlive \/ Close \/ Upgrade \/ WriteBodyFails
            \/ DropReader \/ DropQueue \/ IntoInner \/ HandlerReturns \/ DropWriter
  <2>1. pc' # "write"
    BY <1>11 DEF Start, ParseRecv, ParsePiece, ParseEof, BufferBody, ParseReadFails, ParsedWithoutStream,
       ParsedWithStream, ParseFailed, Dispatch, ExpectContinue, UsePiece, KeepAlive, Close, Upgrade, WriteBodyFails,
       DropReader, DropQueue, IntoInner, HandlerReturns, DropWriter, loopVars
  <2> QED BY <1>1, <2>1
<1>12. CASE ExpectReject \/ WriteResponse \/ WriteFails
  <2>1. pc' # "write"
    BY <1>12 DEF ExpectReject, WriteResponse, WriteFails, UseBodyThen
  <2> QED BY <1>1, <2>1
<1> QED
  BY <1>1, <1>5, <1>6, <1>7, <1>8, <1>9, <1>10, <1>11, <1>12 DEF Next, ServerStep

(* Only when serve() returns is a body let go of before its end. *)
LEMMA LeavesStep ==
    ASSUME ReadToEnd, TypeInv, Fresh, [Next]_vars, Asked, Echoed, NEW k \in Readers, ~Leaves(k), Leaves(k)'
    PROVE  /\ n - 1 = k /\ form'[k] = "drain" /\ pc' = "using" /\ after' = "exit"
           /\ UNCHANGED <<n, phase, consumed>> /\ phase[n] = "waiting"
<1> DEFINE Goal == /\ n - 1 = k /\ form'[k] = "drain" /\ pc' = "using" /\ after' = "exit"
                   /\ UNCHANGED <<n, phase, consumed>> /\ phase[n] = "waiting"
           Loop == {"expect", "call", "write", "outcome"}
<1>0. /\ Situated /\ StepKind /\ kind[k] \in {"Reader", "Iter"} /\ req \in RequestRecords
      /\ <<"Iter", "drop">> \notin Uses /\ <<"Iter", "abandon">> \notin Uses /\ <<"Reader", "abandon">> \notin Uses
  BY SituatedFacts, EveryStep DEF TypeInv, LoopTyped, Situated, ReadToEnd
<1>1. ASSUME UNCHANGED <<form, kind>> PROVE FALSE
  BY <1>1 DEF Leaves
<1>2. CASE ParsedWithStream
  <2>1. UNCHANGED form /\ n \in Nat /\ k \in Nat /\ kind' = [kind EXCEPT ![n] = IF req.body = "large" THEN "Reader" ELSE "Iter"]
    BY <1>0, <1>2 DEF ParsedWithStream, Situated, Readers
  <2>2. ~(k >= n)
    <3>1. form[k] # "Body"
      BY <2>1 DEF Leaves
    <3> QED BY <3>1 DEF Fresh
  <2>3. n # k
    <3>1. \A a \in Nat : a >= a
      OBVIOUS
    <3> QED BY <2>1, <2>2, <3>1, Zenon
  <2>4. kind'[k] = kind[k]
    BY <1>0, <2>1, <2>3 DEF Situated
  <2> QED BY <2>1, <2>4 DEF Leaves
<1>3. ASSUME NEW use, NEW next, UseBodyThen(use, next), pc \in Loop, UNCHANGED <<queueVars, kind>>
      PROVE  /\ n - 1 = k /\ holder[k] \notin {"none", "thread"} /\ form'[k] = use /\ pc' = "using" /\ after' = next
             /\ UNCHANGED <<n, phase, consumed>> /\ phase[n] = "waiting"
             /\ use \in {"abandon", "chunks"} \/ (use = "drain" /\ kind[k] = "Iter")
  <2>1. holder[Current] \notin {"none", "thread"}
    BY <1>1, <1>3 DEF UseBodyThen
  <2>2. form' = [form EXCEPT ![Current] = use] /\ pc' = "using" /\ after' = next /\ UNCHANGED kind
    BY <1>3, <2>1 DEF UseBodyThen
  <2>3. Current = k
    <3>1. Current # k => form'[k] = form[k]
      BY <1>0, <2>2 DEF Situated
    <3> QED BY <2>2, <3>1 DEF Leaves
  <2>4. form'[k] = use
    BY <1>0, <2>2, <2>3 DEF Situated
  <2>5. phase[n] = "waiting" /\ UNCHANGED <<n, phase, consumed>>
    BY <1>0, <1>3 DEF Situated, Position, queueVars
  <2>6. n - 1 = k
    BY <2>3 DEF Current
  <2> QED BY <2>1, <2>2, <2>3, <2>4, <2>5, <2>6 DEF Leaves
<1>4. CASE ExpectReject
  <2>1. UseBodyThen("drain", "parse") /\ pc = "expect" /\ "reject" \in Continues /\ UNCHANGED <<queueVars, kind>>
    BY <1>4 DEF ExpectReject
  <2>2. holder[k] # "none" /\ kind[k] = "Iter"
    BY <1>3, <2>1
  <2>3. req.body = "chunked" /\ req.expect = "100-continue" /\ req \in ClientRequests
    BY <2>1, <2>2 DEF Asked
  <2> QED BY <2>1, <2>3 DEF ReadToEnd
<1>5. CASE Call
  <2>1. pc = "call" /\ UNCHANGED <<queueVars, kind>>
    BY <1>5 DEF Call
  <2>2. ASSUME NEW use \in CurrentUses \cap {"drop", "read", "abandon"},
               UseBodyThen(IF use = "drop" THEN "drain" ELSE use, "write")
        PROVE  FALSE
    <3>1. n - 1 = k /\ (use = "abandon" \/ (use = "drop" /\ kind[k] = "Iter"))
      BY <1>3, <2>1, <2>2
    <3>2. <<kind[k], use>> \in Uses
      BY <2>2, <3>1 DEF CurrentUses, Current
    <3> QED BY <1>0, <3>1, <3>2
  <2>3. CASE UseBodyThen("drain", "exit")
    BY <1>3, <2>1, <2>3
  <2> QED BY <1>5, <2>2, <2>3 DEF Call
<1>6. CASE CallSpawn
  <2>1. PICK use \in CurrentUses \cap {"drop", "read", "abandon"} :
            form' = [form EXCEPT ![Current] = IF use = "drop" THEN "drain" ELSE use]
    BY <1>6 DEF CallSpawn
  <2>2. UNCHANGED kind
    BY <1>6 DEF CallSpawn
  <2>3. Current = k
    <3>1. Current # k => form'[k] = form[k]
      BY <1>0, <2>1 DEF Situated
    <3> QED BY <2>2, <3>1 DEF Leaves
  <2>4. form'[k] = IF use = "drop" THEN "drain" ELSE use
    BY <1>0, <2>1, <2>3 DEF Situated
  <2>5. use = "abandon" \/ (use = "drop" /\ kind[k] = "Iter")
    BY <2>1, <2>2, <2>4 DEF Leaves
  <2>6. <<kind[k], use>> \in Uses
    BY <2>1, <2>3 DEF CurrentUses
  <2> QED BY <1>0, <2>5, <2>6
<1>7. CASE WriteFails
  BY <1>3, <1>7 DEF WriteFails
<1>8. CASE WriteResponse
  <2>1. pc = "write" /\ UNCHANGED <<queueVars, kind>>
    BY <1>8 DEF WriteResponse
  <2>2. CASE UseBodyThen("drain", "exit")
    BY <1>3, <2>1, <2>2
  <2>3. CASE UNCHANGED <<after, holder, form>>
    BY <1>1, <2>1, <2>3
  <2> DEFINE e == Encoding(res, req.version)
             use == IF ~ShouldWriteBody(res, req) THEN "drain"
                    ELSE IF e = "chunked" /\ kind[Current] = "Reader" THEN "chunks" ELSE "read"
  <2>4. CASE holder[Current] = "response" /\ UseBodyThen(use, "outcome")
    <3> HIDE DEF use
    <3>1. n - 1 = k /\ (use \in {"abandon", "chunks"} \/ (use = "drain" /\ kind[k] = "Iter"))
      BY <1>3, <2>1, <2>4
    <3>2. Current = k
      BY <3>1 DEF Current
    <3>3. /\ Echoes(kind[k], res, req) /\ req \in ClientRequests
          /\ req.body = IF kind[k] = "Reader" THEN "large" ELSE "chunked"
      BY <2>1, <2>4, <3>2 DEF Echoed, Asked
    <3>4. CASE kind[k] = "Iter"
      <4>1. PICK a \in Answers : res = Prepared(WithBody(a, "Iter"), req)
        BY <3>3, <3>4 DEF Echoes
      <4>2. ShouldWriteBody(res, req)
        BY <3>3, <3>4, <4>1 DEF ReadToEnd, Echoes
      <4>3. use = "read"
        BY <3>2, <3>4, <4>2 DEF use
      <4> QED BY <3>1, <4>3
    <3>5. CASE kind[k] = "Reader"
      <4>1. PICK a \in Answers : res = Prepared(WithBody(a, "Reader"), req)
        BY <3>3, <3>5 DEF Echoes
      <4>2. e # "chunked"
        BY <3>3, <3>5, <4>1 DEF ReadToEnd, Echoes
      <4>3. use \in {"read", "drain"}
        BY <4>2 DEF use
      <4> QED BY <3>1, <3>5, <4>3
    <3> QED BY <1>0, <3>4, <3>5
  <2> QED BY <1>8, <2>2, <2>3, <2>4 DEF WriteResponse
<1>9. CASE \/ Start \/ ParseRecv \/ ParsePiece \/ ParseEof \/ BufferBody \/ ParseReadFails
           \/ ParsedWithoutStream \/ ParseFailed \/ Dispatch \/ ExpectContinue \/ CallEcho \/ CallCapture
           \/ UsePiece \/ UseDone \/ UseTimeout \/ KeepAlive \/ Close \/ Upgrade \/ WriteBodyFails
           \/ DropReader \/ DropQueue \/ IntoInner \/ HandlerReturns \/ DropWriter
  BY <1>1, <1>9 DEF Start, ParseRecv, ParsePiece, ParseEof, BufferBody, ParseReadFails, ParsedWithoutStream,
     ParseFailed, Dispatch, ExpectContinue, CallEcho, CallCapture, UsePiece, UseDone, UseTimeout, KeepAlive, Close,
     Upgrade, WriteBodyFails, DropReader, DropQueue, IntoInner, HandlerReturns, DropWriter, bodyVars, LetGo
<1>10. ASSUME NEW j \in Readers, ThreadStep(j) PROVE Goal
  BY <1>1, <1>10 DEF ThreadStep, ThreadPiece, ThreadDone, ThreadTimeout, LetGo
<1>11. CASE ClientStep \/ CapturedForever \/ Terminated \/ UNCHANGED vars
  BY <1>1, <1>11 DEF ClientStep, ClientStart, ClientSend, ClientSendEarly, PutOnWire, ClientClose, CapturedForever,
     Terminated, vars, bodyVars
<1> QED
  BY <1>2, <1>4, <1>5, <1>6, <1>7, <1>8, <1>9, <1>10, <1>11 DEF Next, ServerStep

(* serve() does not change its mind about returning. *)
LEMMA QuittingStays ==
    ASSUME TypeInv, [Next]_vars, Quitting
    PROVE  Quitting' /\ UNCHANGED n /\ pc \notin {"parse", "body"}
<1>1. pc \in {"exit", "unwind", "done", "using"} /\ (pc = "using" => after = "exit")
  BY DEF Quitting
<1>2. CASE UNCHANGED <<loopVars, n>>
  BY <1>1, <1>2 DEF Quitting, loopVars
<1>3. CASE UsePiece \/ DropReader
  BY <1>1, <1>2, <1>3 DEF UsePiece, DropReader, BodyPiece, RQ!Read, RQ!DropWaiting, RQ!FinishDrop
<1>4. CASE UseDone \/ UseTimeout \/ WriteBodyFails \/ DropQueue \/ DropWriter
  BY <1>1, <1>4 DEF UseDone, UseTimeout, WriteBodyFails, DropQueue, DropWriter, LetGo, RQ!DropCurrent, RQ!DropQueue,
     queueVars, Quitting
<1>5. ASSUME NEW k \in Readers, ThreadStep(k) PROVE UNCHANGED <<loopVars, n>>
  BY <1>5 DEF ThreadStep, ThreadPiece, ThreadDone, ThreadTimeout, BodyPiece, LetGo, RQ!Read, RQ!DropCurrent
<1>6. CASE ClientStep \/ CapturedForever \/ Terminated \/ UNCHANGED vars
  BY <1>2, <1>6 DEF ClientStep, ClientStart, ClientSend, ClientSendEarly, PutOnWire, ClientClose, CapturedForever,
     Terminated, vars, queueVars
<1>7. ~(\/ Start \/ ParseRecv \/ ParsePiece \/ ParseEof \/ BufferBody \/ ParseReadFails
        \/ ParsedWithoutStream \/ ParsedWithStream \/ ParseFailed
        \/ Dispatch \/ ExpectContinue \/ ExpectReject
        \/ Call \/ CallSpawn \/ CallEcho \/ CallCapture
        \/ WriteResponse \/ KeepAlive \/ Close \/ Upgrade \/ WriteFails \/ IntoInner \/ HandlerReturns)
  BY <1>1 DEF Start, ParseRecv, ParsePiece, ParseEof, BufferBody, ParseReadFails, ParsedWithoutStream, ParsedWithStream,
     ParseFailed, Dispatch, ExpectContinue, ExpectReject, Call, CallSpawn, CallEcho, CallCapture, WriteResponse, KeepAlive,
     Close, Upgrade, WriteFails, IntoInner, HandlerReturns
<1> QED BY <1>1, <1>2, <1>3, <1>4, <1>5, <1>6, <1>7 DEF Next, ServerStep

(* A reader that has read does not go back to waiting. *)
LEMMA ReadStays ==
    ASSUME TypeInv, [Next]_vars, NEW k \in Readers, phase[k] \in {"current", "gone"}
    PROVE  phase'[k] \in {"current", "gone"}
<1>1. Situated /\ [RQ!Next]_queueVars
  BY SituatedFacts, StepUsesQueue DEF TypeInv
<1>2. phase \in [Readers -> RQ!Phases] /\ n \in Nat /\ k \in Nat /\ k <= n
  BY <1>1 DEF Situated, RQ!Handover, RQ!Readers, Readers
<1>3. CASE UNCHANGED queueVars \/ RQ!DropQueue
  BY <1>3 DEF queueVars, RQ!DropQueue
<1>4. CASE RQ!Enqueue
  BY <1>2, <1>4 DEF RQ!Enqueue
<1>5. ASSUME NEW j \in RQ!Readers, RQ!ReaderStep(j) PROVE phase'[k] \in {"current", "gone"}
  BY <1>2, <1>5 DEF RQ!ReaderStep, RQ!Recv, RQ!Read, RQ!DropCurrent, RQ!DropWaiting, RQ!FinishDrop
<1>6. CASE RQ!Finished
  BY <1>6 DEF RQ!Finished, RQ!queueVars
<1> QED BY <1>1, <1>3, <1>4, <1>5, <1>6 DEF RQ!Next

(* NothingLeft is kept. *)
LEMMA NothingLeftStep ==
    ASSUME ReadToEnd, TypeInv, TypeInv', Fresh, [Next]_vars, Asked, Echoed, NothingLeft
    PROVE  NothingLeft'
<1>0. /\ Situated /\ Situated' /\ DOMAIN consumed = 1..Len(consumed) /\ Len(consumed) \in Nat
      /\ \A i \in DOMAIN consumed : consumed[i] \in Readers
  <2>1. Situated /\ Situated'
    BY SituatedFacts, PTL
  <2> QED BY <2>1 DEF Situated
<1>1. ASSUME NEW i \in DOMAIN consumed' PROVE phase'[consumed'[i]] \in {"current", "gone"}
  <2>1. CASE UNCHANGED consumed
    <3>1. consumed[i] \in Readers /\ phase[consumed[i]] \in {"current", "gone"}
      BY <1>0, <1>1, <2>1 DEF NothingLeft
    <3> QED BY <2>1, <3>1, ReadStays
  <2>2. ASSUME NEW q \in Readers, ReadsThrough(q) PROVE phase'[consumed'[i]] \in {"current", "gone"}
    <3>1. /\ DOMAIN consumed' = 1..(Len(consumed) + 1) /\ consumed'[Len(consumed) + 1] = q
          /\ \A j \in 1..Len(consumed) : consumed'[j] = consumed[j]
      BY <1>0, <2>2, Appended DEF Situated, ReadsThrough
    <3>2. i \in 1..Len(consumed) \/ i = Len(consumed) + 1
      BY <1>0, <3>1
    <3>3. CASE i \in 1..Len(consumed)
      <4>1. consumed'[i] = consumed[i] /\ consumed[i] \in Readers /\ phase[consumed[i]] \in {"current", "gone"}
        BY <1>0, <3>1, <3>3 DEF NothingLeft
      <4> QED BY <4>1, ReadStays
    <3>4. CASE i = Len(consumed) + 1
      <4>1. phase[q] = "current"
        BY <2>2, ReaderOf DEF ParsePiece, BufferBody, ReadsBody, BodyPiece, RQ!Read
      <4> QED BY <3>1, <3>4, <4>1, ReadStays
    <3> QED BY <3>2, <3>3, <3>4
  <2> QED BY <2>1, <2>2, ReadEffect
<1>2. ASSUME NEW k \in Readers, Leaves(k)'
      PROVE  /\ form'[k] = "drain" /\ n' = k + 1 /\ Quitting'
             /\ \A i \in DOMAIN consumed' : consumed'[i] <= k
  <2>1. k \in Nat /\ n \in Nat
    BY <1>0 DEF Situated, Readers
  <2>2. CASE Leaves(k)
    <3>1. form[k] = "drain" /\ n = k + 1 /\ Quitting /\ kind[k] = "Iter" /\ \A i \in DOMAIN consumed : consumed[i] <= k
      BY <2>2 DEF NothingLeft, Leaves
    <3>2. form'[k] = "drain"
      BY <3>1, UseStays
    <3>3. Quitting' /\ n' = k + 1 /\ pc \notin {"parse", "body"}
      BY <3>1, QuittingStays
    <3>4. UNCHANGED consumed
      <4>1. ASSUME NEW q \in Readers, ReadsThrough(q) PROVE FALSE
        <5>1. ReadsBody(q)
          BY <3>3, <4>1, ReaderOf DEF ParsePiece, BufferBody
        <5>2. k = q
          <6>1. q = n - 1 /\ n - 1 = k
            BY <2>1, <3>1, <5>1 DEF ReadsBody
          <6> QED BY <6>1
        <5> QED BY <3>1, <5>1, <5>2 DEF ReadsBody, BodyPiece
      <4> QED BY <4>1, ReadEffect
    <3> QED BY <3>1, <3>2, <3>3, <3>4
  <2>3. CASE ~Leaves(k)
    <3>1. /\ n - 1 = k /\ form'[k] = "drain" /\ pc' = "using" /\ after' = "exit"
          /\ UNCHANGED <<n, phase, consumed>> /\ phase[n] = "waiting"
      BY <1>2, <2>3, LeavesStep
    <3>2. ASSUME NEW i \in DOMAIN consumed PROVE consumed[i] <= k
      <4>1. PICK j \in Readers : consumed[i] = j
        BY <1>0
      <4>2. phase[j] \in {"current", "gone"}
        BY <4>1 DEF NothingLeft
      <4>3. n # j /\ ~(j > n)
        BY <1>0, <3>1, <4>2 DEF Situated, RQ!Handover, RQ!Readers, Readers
      <4>4. j \in Nat
        BY <1>0 DEF Situated, Readers
      <4>5. j <= n - 1
        BY <2>1, <4>3, <4>4
      <4> QED BY <3>1, <4>1, <4>5
    <3>3. n' = k + 1
      BY <2>1, <3>1
    <3> QED BY <3>1, <3>2, <3>3 DEF Quitting
  <2> QED BY <2>2, <2>3
<1> QED BY <1>1, <1>2 DEF NothingLeft

(* With a service that reads to the end, what is read through reader k      *)
(* belongs to request k on every connection: pipelining as read_queue.rs    *)
(* promises it, but for a body that ran into the read timeout.              *)
THEOREM PipeliningHolds == ReadToEnd => (SafeSpec => []Aligned)
<1> SUFFICES ASSUME ReadToEnd PROVE SafeSpec => []Aligned
  OBVIOUS
<1>1. Init => ReadInv
  BY DEF Init, RQ!Init, ReadInv, Asked, Echoed, NothingLeft, NoRequest, Leaves
<1>2. TypeInv /\ TypeInv' /\ AlignInv /\ ReadInv /\ [Next]_vars => ReadInv'
  BY AskedStep, EchoedStep, NothingLeftStep DEF ReadInv, AlignInv
<1>3. TypeInv /\ AlignInv /\ ReadInv => Aligned
  <2> SUFFICES ASSUME TypeInv, AlignInv, ReadInv PROVE Aligned
    OBVIOUS
  <2>1. Situated /\ AlignedUnlessSpoiled /\ NothingLeft
    BY SituatedFacts DEF AlignInv, ReadInv
  <2>2. ASSUME NEW k \in Readers, Spoiled(k) PROVE k \in late
    <3>1. Leaves(k) => form[k] = "drain" /\ \A i \in DOMAIN consumed : consumed[i] <= k
      BY <2>1 DEF NothingLeft
    <3>2. \A i \in DOMAIN consumed : consumed[i] <= k => ~(consumed[i] > k)
      <4>1. \A i \in DOMAIN consumed : consumed[i] \in Int
        BY <2>1 DEF Situated, Readers
      <4>2. k \in Int
        BY <2>1 DEF Situated, Readers
      <4> QED BY <4>1, <4>2
    <3> QED BY <2>2, <3>1, <3>2 DEF Spoiled, Leaves
  <2> QED BY <2>1, <2>2 DEF AlignedUnlessSpoiled, Aligned
<1>4. Init => AlignInv
  BY AlignInit
<1>5. TypeInv /\ TypeInv' /\ AlignInv /\ [Next]_vars => AlignInv'
  BY AlignStep
<1> QED BY <1>1, <1>2, <1>3, <1>4, <1>5, TypeInvHolds, PTL DEF SafeSpec
=============================================================================
